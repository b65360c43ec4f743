------------------------------ MODULE MCPrograms ------------------------------
(* The programs with callbacks, each in a behaviour of its own, for TLC: two   *)
(* clients of tcp-server.js, the RPC application, the page and the native host *)
(* of TGJSBridge.js (its two directions share nothing), and hihack.js.         *)
(* `program` says which runs; the others stay as they began.                   *)
EXTENDS JSBridge, PrpcApp, HijackMonitor, TLC

CONSTANTS c1, c2, u1, u2, NoUid, NoConn,              \* chat
          k1, k2, con1, con2, data1, data2,           \* prpc
          e1, e2, e3, ok, bad, mail                   \* hijack

Conns == {c1, c2}
Uids == {u1, u2}
Programs == [tcp |-> [c \in Conns |-> {"tcp-client"}]]
BigCount == 2
InboxFull == 2

MCConfig == [connector |-> {con1, con2}, data |-> {data1, data2}]

MCTypeOf == (e1 :> "link") @@ (e2 :> "link") @@ (e3 :> "link")
MCClass == (ok :> "listed") @@ (bad :> "foreign") @@ (mail :> "foreign")

VARIABLES program,
    server, up, sock, uid, clients, requests, inbox, prog, phase, overlapped

Chat == INSTANCE ChatServer

chatVars == <<server, up, sock, uid, clients, requests, inbox, prog, phase, overlapped>>
vars == <<program, chatVars, prpcVars, bridgeVars, hijackVars>>

Init ==
    /\ program \in {"chat", "prpc", "notes", "calls", "hijack"}
    /\ Chat!Init /\ PrpcInit /\ BridgeInit /\ HijackInit
    /\ program # "hijack" => url = [e \in Elems |-> NoUrl]

Runs(p) == program = p /\ UNCHANGED program

ChatStep(A) == Runs("chat") /\ A /\ UNCHANGED <<prpcVars, bridgeVars, hijackVars>>
PrpcStep(A) == Runs("prpc") /\ A /\ UNCHANGED <<chatVars, bridgeVars, hijackVars>>
BridgeStep(p, A) == Runs(p) /\ A /\ UNCHANGED <<chatVars, prpcVars, hijackVars>>
HijackStep(A) == Runs("hijack") /\ A /\ UNCHANGED <<chatVars, prpcVars, bridgeVars>>

Next ==
    \/ ChatStep(Chat!Next)
    \/ PrpcStep(PrpcNext)
    \/ BridgeStep("notes", NotesNext)
    \/ BridgeStep("calls", CallsNext)
    \/ HijackStep(HijackNext)

\* The fairness of each program while it is the one that runs.
Fairness ==
    /\ \A c \in Conns : WF_vars(ChatStep(Chat!Served(c))) /\ WF_vars(ChatStep(Chat!Driven(c)))
    /\ WF_vars(PrpcStep(Progress))
    /\ WF_vars(BridgeStep("notes", HostFetches))

Spec == Init /\ [][Next]_vars /\ Fairness
-----------------------------------------------------------------------------
(* Their properties, in a behaviour where any of them may run; those of the RPC *)
(* application, the bridge and the monitor are their modules' own.             *)

TypeOK == PrpcTypeOK /\ BridgeTypeOK /\ HijackTypeOK
FriendsArrive == Chat!FriendsArrive
=============================================================================
