-------------------------- MODULE SocketServerProofs --------------------------
(***************************************************************************)
(* Theorems about SocketServer, for any number of threads, clients,        *)
(* addresses and read args, with and without the semaphore: that no two    *)
(* share what only one may have; that no read args are lost, and the count *)
(* of connections and the semaphore agree with the table; and so that      *)
(* SocketServer implements ConnectionRegistry.                             *)
(***************************************************************************)
EXTENDS SocketServer, FiniteSetTheorems, TLAPS

\* Steps whose thread works on a token that has carried a connection
TokenSteps == {"register", "registerIP", "connected", "receive", "received",
               "rearm", "dropIP", "drop"} \cup CloseSteps
\* Steps that accept a client no token has carried yet
FreshSteps == {"pop", "check", "refuse"}
\* Steps under the lock of tokens
LockSteps == CloseSteps \cup {"raise", "stopNext"}

Unassigned(c) == tokens[c] = NoToken /\ \A t \in Tokens : conn[t] # c

\* Closing and sweeping happen under the lock, and only Stop leaves swept entries
LockInv ==
    /\ \A th \in Threads : pc[th] \in LockSteps => lock = th
    /\ \A th \in Threads : after[th] = "stopNext" => pc[th] \in LockSteps \cup {"stopIP"}
    /\ swept # {} => /\ lock \in Threads
                     /\ \/ pc[lock] = "stopNext"
                        \/ pc[lock] \in CloseSteps \cup {"raise"} /\ after[lock] = "stopNext"

\* A token is worked on only once it carries a connection
CarriedInv ==
    /\ \A th \in Threads : pc[th] \in TokenSteps =>
           tok[th] \in Tokens /\ conn[tok[th]] \in Clients
    /\ \A t \in Tokens : recv[t] # NoClient => conn[t] \in Clients
    /\ \A c \in Clients : tokens[c] # NoToken => conn[tokens[c]] \in Clients

\* Every client is carried by at most one token, ever
ConnInv ==
    /\ \A t, u \in Tokens : conn[t] = conn[u] /\ conn[t] \in Clients => t = u
    /\ \A c \in Clients : sock[c] \in {"absent", "backlog"} => Unassigned(c)
    /\ \A th \in Threads : pc[th] \in FreshSteps =>
           cli[th] \in Clients /\ Connected(cli[th]) /\ Unassigned(cli[th])
    /\ \A th, other \in Threads :
           pc[th] \in FreshSteps /\ pc[other] \in FreshSteps /\ cli[th] = cli[other]
               => th = other
    /\ \A th \in Threads : pc[th] = "register" =>
           /\ conn[tok[th]] = cli[th] /\ Connected(cli[th])
           /\ tokens[cli[th]] = NoToken
    /\ \A th \in Threads : Closes(th) => conn[tok[th]] = cli[th]

\* Types, and that a thread at a step that works on a token has one
TypeInv == /\ TypeOK
           /\ \A th \in Threads : pc[th] \in TokenSteps => tok[th] \in Tokens

OwnInv == LockInv /\ CarriedInv /\ ConnInv /\ OwnersExclusive /\ OnlineSocketIsOpen
IInv == TypeInv /\ OwnInv /\ PoolExclusive

-------------------------------------------------------------------------------
(* Types *)

\* Every step keeps every variable's type.
LEMMA TypeInvStep == TypeInv /\ [Next]_vars => TypeInv'
<1> SUFFICES ASSUME TypeInv, [Next]_vars PROVE TypeInv'
  OBVIOUS
<1> USE ServerAssumption DEF TypeInv, TypeOK, NetTypes, TableTypes, PoolTypes,
        ThreadTypes, Tokens, NoToken, TokenSteps, At, Goto, Enter, Steps, AcceptSteps,
        RefuseSteps, ReceiveSteps, DropSteps, CloseSteps, StopSteps,
        netVars, tableVars, poolVars, serverVars, threadVars
<1>1. ASSUME NEW c \in Clients, Connect(c)
      PROVE  TypeInv'
  BY <1>1 DEF Connect
<1>2. ASSUME NEW c \in Clients, Leave(c)
      PROVE  TypeInv'
  BY <1>2 DEF Leave
<1>3. ASSUME NEW th \in Threads, NEW c \in Clients, AcceptCompleted(th, c)
      PROVE  TypeInv'
  <2>1. PoolTypes'
    BY <1>3 DEF AcceptCompleted, Release
  <2> QED  BY <1>3, <2>1 DEF AcceptCompleted
<1>4. ASSUME NEW th \in Threads, AcceptFailed(th)
      PROVE  TypeInv'
  <2>1. PoolTypes'
    BY <1>4 DEF AcceptFailed, Release
  <2> QED  BY ZenonT(30), <1>4, <2>1 DEF AcceptFailed
<1>5. ASSUME NEW th \in Threads, PopReadArgs(th)
      PROVE  TypeInv'
  <2>1. CASE readPool = <<>>
    <3>1. PoolTypes' /\ Enter(th, "check", NoToken, cli[th], "idle")
      BY <1>5, <2>1 DEF PopReadArgs
    <3>2. ThreadTypes' /\ \A x \in Threads : pc'[x] \in TokenSteps => tok'[x] \in Tokens
      BY <3>1
    <3> QED  BY <1>5, <3>1, <3>2 DEF PopReadArgs
  <2>2. CASE readPool # <<>>
    <3>1. Head(readPool) \in Tokens /\ Tail(readPool) \in Seq(Tokens)
      BY <2>2
    <3>2. PoolTypes'
      BY <1>5, <2>2, <3>1 DEF PopReadArgs
    <3>3. Enter(th, "check", Head(readPool), cli[th], "idle")
      BY <1>5, <2>2 DEF PopReadArgs
    <3>4. ThreadTypes' /\ \A x \in Threads : pc'[x] \in TokenSteps => tok'[x] \in Tokens
      BY <3>1, <3>3
    <3> QED  BY <1>5, <3>2, <3>4 DEF PopReadArgs
  <2> QED  BY <2>1, <2>2
<1>6. ASSUME NEW th \in Threads, Reject(th)
      PROVE  TypeInv'
  BY <1>6 DEF Reject
<1>7. ASSUME NEW th \in Threads, AssignToken(th)
      PROVE  TypeInv'
  BY <1>7 DEF AssignToken
<1>8. ASSUME NEW th \in Threads, Register(th)
      PROVE  TypeInv'
  BY <1>8 DEF Register
<1>9. ASSUME NEW th \in Threads, RegisterIP(th)
      PROVE  TypeInv'
  BY <1>9 DEF RegisterIP
<1>10. ASSUME NEW th \in Threads, AcceptConnected(th)
      PROVE  TypeInv'
  BY ZenonT(30), <1>10 DEF AcceptConnected, CheckConnected
<1>11. ASSUME NEW th \in Threads, AcceptReceive(th)
      PROVE  TypeInv'
  <2>1. tok[th] \in Tokens
    BY <1>11 DEF AcceptReceive, Receive
  <2>2. TableTypes' /\ PoolTypes'
    BY <1>11 DEF AcceptReceive, Receive
  <2>3. NetTypes'
    BY <1>11, <2>1 DEF AcceptReceive, Receive
  <2>4. \/ Goto(th, "startAccept")
        \/ Enter(th, "dropIP", tok[th], conn[tok[th]], "startAccept")
    BY <1>11 DEF AcceptReceive, Receive
  <2>5. ThreadTypes' /\ \A x \in Threads : pc'[x] \in TokenSteps => tok'[x] \in Tokens
    <3>1. CASE Goto(th, "startAccept")
      BY ZenonT(30), <3>1
    <3>2. CASE Enter(th, "dropIP", tok[th], conn[tok[th]], "startAccept")
      BY <2>1, <3>2
    <3> QED  BY <2>4, <3>1, <3>2
  <2> QED  BY <2>2, <2>3, <2>5
<1>12. ASSUME NEW th \in Threads, StartAccept(th)
      PROVE  TypeInv'
  <2>1. PoolTypes'
    BY <1>12 DEF StartAccept, Release
  <2> QED  BY <1>12, <2>1 DEF StartAccept
<1>13. ASSUME NEW th \in Threads, AcceptAsync(th)
      PROVE  TypeInv'
  BY ZenonT(30), <1>13 DEF AcceptAsync
<1>14. ASSUME NEW th \in Threads, RefuseClose(th)
      PROVE  TypeInv'
  BY <1>14 DEF RefuseClose
<1>15. ASSUME NEW th \in Threads, RefuseDecrement(th)
      PROVE  TypeInv'
  <2>1. PoolTypes'
    BY <1>15 DEF RefuseDecrement, Release
  <2> QED  BY ZenonT(30), <1>15, <2>1 DEF RefuseDecrement
<1>16. ASSUME NEW th \in Threads, RefuseRelease(th)
      PROVE  TypeInv'
  <2>1. PoolTypes'
    BY <1>16 DEF RefuseRelease, Release
  <2> QED  BY ZenonT(30), <1>16, <2>1 DEF RefuseRelease
<1>17. ASSUME NEW th \in Threads, NEW t \in Tokens, ReceiveData(th, t)
      PROVE  TypeInv'
  BY <1>17 DEF ReceiveData
<1>18. ASSUME NEW th \in Threads, NEW t \in Tokens, ReceiveEnd(th, t)
      PROVE  TypeInv'
  BY <1>18 DEF ReceiveEnd
<1>19. ASSUME NEW th \in Threads, ReceivedConnected(th)
      PROVE  TypeInv'
  BY ZenonT(30), <1>19 DEF ReceivedConnected, CheckConnected
<1>20. ASSUME NEW th \in Threads, ReceiveAgain(th)
      PROVE  TypeInv'
  <2>1. tok[th] \in Tokens
    BY <1>20 DEF ReceiveAgain, Receive
  <2>2. TableTypes' /\ PoolTypes'
    BY <1>20 DEF ReceiveAgain, Receive
  <2>3. NetTypes'
    BY <1>20, <2>1 DEF ReceiveAgain, Receive
  <2>4. \/ Goto(th, "idle")
        \/ Enter(th, "dropIP", tok[th], conn[tok[th]], "idle")
    BY <1>20 DEF ReceiveAgain, Receive
  <2>5. ThreadTypes' /\ \A x \in Threads : pc'[x] \in TokenSteps => tok'[x] \in Tokens
    <3>1. CASE Goto(th, "idle")
      BY ZenonT(30), <3>1
    <3>2. CASE Enter(th, "dropIP", tok[th], conn[tok[th]], "idle")
      BY <2>1, <3>2
    <3> QED  BY <2>4, <3>1, <3>2
  <2> QED  BY <2>2, <2>3, <2>5
<1>21. ASSUME NEW th \in Threads, NEW c \in Clients, Disconnect(th, c)
      PROVE  TypeInv'
  BY <1>21 DEF Disconnect
<1>22. ASSUME NEW th \in Threads, DropIP(th)
      PROVE  TypeInv'
  BY <1>22 DEF DropIP
<1>23. ASSUME NEW th \in Threads, Drop(th)
      PROVE  TypeInv'
  <2>1. NetTypes' /\ PoolTypes'
    BY <1>23 DEF Drop
  <2>2. TableTypes'
    BY <1>23 DEF Drop
  <2>3. \/ Goto(th, after[th])
        \/ Enter(th, "close", tok[th], conn[tok[th]], after[th])
    BY <1>23 DEF Drop
  <2>4. tok[th] \in Tokens
    BY <1>23 DEF Drop
  <2>5. ThreadTypes'
    <3>1. CASE Goto(th, after[th])
      BY ZenonT(30), <3>1
    <3>2. CASE Enter(th, "close", tok[th], conn[tok[th]], after[th])
      BY <3>2, <2>4
    <3> QED  BY <2>3, <3>1, <3>2
  <2>6. \A x \in Threads : pc'[x] \in TokenSteps => tok'[x] \in Tokens
    BY <2>3, <2>4
  <2> QED  BY <2>1, <2>2, <2>5, <2>6
<1>24. ASSUME NEW th \in Threads, CloseSocket(th)
      PROVE  TypeInv'
  BY <1>24 DEF CloseSocket
<1>25. ASSUME NEW th \in Threads, Decrement(th)
      PROVE  TypeInv'
  <2>1. PoolTypes'
    BY <1>25 DEF Decrement, Release
  <2> QED  BY <1>25, <2>1 DEF Decrement
<1>26. ASSUME NEW th \in Threads, ReleasePermit(th)
      PROVE  TypeInv'
  <2>1. PoolTypes'
    BY <1>26 DEF ReleasePermit, Release
  <2> QED  BY <1>26, <2>1 DEF ReleasePermit
<1>27. ASSUME NEW th \in Threads, PushReadArgs(th)
      PROVE  TypeInv'
  <2>1. PoolTypes'
    BY <1>27 DEF PushReadArgs, Release
  <2> QED  BY <1>27, <2>1 DEF PushReadArgs
<1>28. ASSUME NEW th \in Threads, RaiseDisconnected(th)
      PROVE  TypeInv'
  BY ZenonT(30), <1>28 DEF RaiseDisconnected
<1>29. ASSUME NEW th \in Threads, StopBegin(th)
      PROVE  TypeInv'
  BY <1>29 DEF StopBegin
<1>30. ASSUME NEW th \in Threads, StopLock(th)
      PROVE  TypeInv'
  BY <1>30 DEF StopLock
<1>31. ASSUME NEW th \in Threads, NEW c \in Clients, StopNext(th, c)
      PROVE  TypeInv'
  BY <1>31 DEF StopNext, Online
<1>32. ASSUME NEW th \in Threads, StopClear(th)
      PROVE  TypeInv'
  BY <1>32 DEF StopClear
<1>33. ASSUME NEW th \in Threads, StopIP(th)
      PROVE  TypeInv'
  BY ZenonT(30), <1>33 DEF StopIP
<1> QED
  BY ZenonT(30), <1>1, <1>2, <1>3, <1>4, <1>5, <1>6, <1>7, <1>8, <1>9, <1>10, <1>11, <1>12, <1>13, <1>14, <1>15, <1>16, <1>17, <1>18, <1>19, <1>20, <1>21, <1>22, <1>23, <1>24, <1>25, <1>26, <1>27, <1>28, <1>29, <1>30, <1>31, <1>32, <1>33 DEF Next, ThreadStep, AcceptLoop, ReceiveCallback, CloseConnection, StopServer, vars

\* Types hold throughout every behavior of the server.
THEOREM TypeCorrect == Spec => []TypeOK
<1>1. Init => TypeInv
  BY ServerAssumption DEF Init, TypeInv, TypeOK, NetTypes, TableTypes, PoolTypes,
     ThreadTypes, Tokens, NoToken, TokenSteps, CloseSteps, Steps
<1>2. TypeInv => TypeOK
  BY DEF TypeInv
<1> QED
  BY <1>1, <1>2, TypeInvStep, PTL DEF Spec

-------------------------------------------------------------------------------
(* Read args have one owner *)

\* Taking the head of a queue without duplicates, and adding a new element.
LEMMA TakeHead ==
  ASSUME NEW S, NEW q \in Seq(S), q # <<>>,
         \A i, j \in 1..Len(q) : q[i] = q[j] => i = j
  PROVE  /\ Head(q) \in S /\ Tail(q) \in Seq(S)
         /\ \A i, j \in 1..Len(Tail(q)) : Tail(q)[i] = Tail(q)[j] => i = j
         /\ Head(q) \in {q[i] : i \in 1..Len(q)}
         /\ \A i \in 1..Len(Tail(q)) : /\ Tail(q)[i] # Head(q)
                                       /\ Tail(q)[i] \in {q[k] : k \in 1..Len(q)}
<1>1. Len(q) \in Nat \ {0} /\ Len(Tail(q)) = Len(q) - 1 /\ Head(q) = q[1]
  OBVIOUS
<1>2. \A i \in 1..Len(Tail(q)) : Tail(q)[i] = q[i + 1] /\ i + 1 \in 1..Len(q) /\ i + 1 # 1
  BY <1>1
<1>3. 1 \in 1..Len(q)
  BY <1>1
<1>4. \A i, j \in 1..Len(Tail(q)) : Tail(q)[i] = Tail(q)[j] => i = j
  <2> TAKE i, j \in 1..Len(Tail(q))
  <2>1. Tail(q)[i] = Tail(q)[j] => i + 1 = j + 1
    BY <1>2
  <2> QED  BY <2>1, <1>1
<1>5. \A i \in 1..Len(Tail(q)) : Tail(q)[i] # Head(q)
  BY <1>1, <1>2, <1>3
<1> QED
  BY <1>1, <1>2, <1>3, <1>4, <1>5

LEMMA AddLast ==
  ASSUME NEW S, NEW q \in Seq(S), NEW x \in S,
         \A i, j \in 1..Len(q) : q[i] = q[j] => i = j,
         \A i \in 1..Len(q) : q[i] # x
  PROVE  /\ \A i, j \in 1..Len(Append(q, x)) :
                Append(q, x)[i] = Append(q, x)[j] => i = j
         /\ \A i \in 1..Len(Append(q, x)) :
                Append(q, x)[i] \in {q[k] : k \in 1..Len(q)} \cup {x}
<1>1. Len(q) \in Nat /\ Len(Append(q, x)) = Len(q) + 1
  OBVIOUS
<1>2. \A i \in 1..Len(Append(q, x)) :
          \/ i \in 1..Len(q) /\ Append(q, x)[i] = q[i]
          \/ i = Len(q) + 1 /\ Append(q, x)[i] = x
  BY <1>1
<1>3. \A i, j \in 1..Len(Append(q, x)) : Append(q, x)[i] = Append(q, x)[j] => i = j
  BY <1>2
<1> QED
  BY <1>2, <1>3

\* A step that takes nothing out of the pool, gives no thread or table entry a
\* token it did not have, and leaves the pool alone, keeps the pool exclusive.
LEMMA PoolKept ==
  ASSUME PoolExclusive, UNCHANGED readPool,
         \A th \in Threads : Owns(th)' => Owns(th) /\ tok'[th] = tok[th],
         \A c \in Clients : Online(c)' => Online(c) /\ tokens'[c] = tokens[c]
  PROVE  PoolExclusive'
<1>1. \A t \in Pooled : ~InUse(t)'
  BY DEF PoolExclusive, InUse
<1>2. Pooled' = Pooled
  BY DEF Pooled
<1> QED
  BY <1>1, <1>2 DEF PoolExclusive

\* The same for a step that only moves a token between owners.
LEMMA PoolKeptByMove ==
  ASSUME PoolExclusive, UNCHANGED readPool, \A t \in Tokens : InUse(t)' => InUse(t),
         readPool \in Seq(Tokens)
  PROVE  PoolExclusive'
<1>1. \A i \in 1..Len(readPool) : readPool[i] \in Tokens
  OBVIOUS
<1>2. \A t \in Pooled : ~InUse(t)'
  BY <1>1 DEF PoolExclusive, Pooled
<1>3. Pooled' = Pooled
  BY DEF Pooled
<1> QED
  BY <1>2, <1>3 DEF PoolExclusive

\* Args that nobody works with any more go back to the end of the pool.
LEMMA PoolGivenBack ==
  ASSUME NEW t \in Tokens, PoolExclusive, readPool \in Seq(Tokens), InUse(t),
         \A u \in Tokens : InUse(u)' => InUse(u) /\ u # t,
         readPool' = Append(readPool, t)
  PROVE  PoolExclusive'
<1>1. \A i \in 1..Len(readPool) : readPool[i] \in Tokens /\ readPool[i] # t
  BY DEF PoolExclusive, Pooled
<1>2. \A i, j \in 1..Len(readPool) : readPool[i] = readPool[j] => i = j
  BY DEF PoolExclusive
<1>3. /\ \A i, j \in 1..Len(readPool') : readPool'[i] = readPool'[j] => i = j
      /\ \A i \in 1..Len(readPool') :
             readPool'[i] \in {readPool[k] : k \in 1..Len(readPool)} \cup {t}
  BY <1>1, <1>2, AddLast
<1>4. \A u \in Pooled' : u \in Pooled \/ u = t
  BY <1>3 DEF Pooled
<1>5. \A u \in Pooled : u \in Tokens /\ ~InUse(u)
  BY <1>1 DEF PoolExclusive, Pooled
<1>6. \A u \in Pooled' : ~InUse(u)'
  BY <1>4, <1>5
<1> QED  BY <1>3, <1>6 DEF PoolExclusive

\* Every step hands each token from one owner to the next.
LEMMA IInvStep == IInv /\ [Next]_vars => IInv'
<1> SUFFICES ASSUME IInv, [Next]_vars PROVE IInv'
  OBVIOUS
<1>0. TypeInv /\ TypeInv'
  BY TypeInvStep DEF IInv
<1> USE <1>0, ServerAssumption DEF IInv, OwnInv, TypeInv, TypeOK, NetTypes, TableTypes,
        PoolTypes, ThreadTypes, Tokens, NoToken, TokenSteps, FreshSteps, LockSteps,
        CloseSteps, At, Goto, Enter, Closes, Owns, Online, OnlineClients, Connected,
        Unassigned, netVars, tableVars, poolVars, serverVars, threadVars
<1>1. ASSUME NEW c \in Clients, Connect(c)
      PROVE  OwnInv' /\ PoolExclusive'
  <2>1. OwnInv'
    BY <1>1 DEF Connect,
       LockInv, CarriedInv, ConnInv, OwnersExclusive, OnlineSocketIsOpen
  <2>2. PoolExclusive'
    BY <1>1, PoolKept DEF Connect
  <2> QED  BY <2>1, <2>2
<1>2. ASSUME NEW c \in Clients, Leave(c)
      PROVE  OwnInv' /\ PoolExclusive'
  <2>1. OwnInv'
    BY <1>2 DEF Leave,
       LockInv, CarriedInv, ConnInv, OwnersExclusive, OnlineSocketIsOpen
  <2>2. PoolExclusive'
    BY <1>2, PoolKept DEF Leave
  <2> QED  BY <2>1, <2>2
<1>3. ASSUME NEW th \in Threads, NEW c \in Clients, AcceptCompleted(th, c)
      PROVE  OwnInv' /\ PoolExclusive'
  <2>1. OwnInv'
    BY <1>3 DEF AcceptCompleted,
       LockInv, CarriedInv, ConnInv, OwnersExclusive, OnlineSocketIsOpen
  <2>2. PoolExclusive'
    BY <1>3, PoolKept DEF AcceptCompleted
  <2> QED  BY <2>1, <2>2
<1>4. ASSUME NEW th \in Threads, AcceptFailed(th)
      PROVE  OwnInv' /\ PoolExclusive'
  <2>1. OwnInv'
    BY <1>4 DEF AcceptFailed,
       LockInv, CarriedInv, ConnInv, OwnersExclusive, OnlineSocketIsOpen
  <2>2. PoolExclusive'
    BY <1>4, PoolKept DEF AcceptFailed
  <2> QED  BY <2>1, <2>2
<1>5. ASSUME NEW th \in Threads, PopReadArgs(th)
      PROVE  OwnInv' /\ PoolExclusive'
  <2>1. CASE readPool = <<>>
    <3>1. Enter(th, "check", NoToken, cli[th], "idle") /\ UNCHANGED readPool
      BY <1>5, <2>1 DEF PopReadArgs
    <3>2. OwnInv'
      BY <1>5, <3>1 DEF PopReadArgs, LockInv, CarriedInv, ConnInv, OwnersExclusive,
         OnlineSocketIsOpen
    <3>3. PoolExclusive'
      BY <1>5, <3>1, PoolKept DEF PopReadArgs
    <3> QED  BY <3>2, <3>3
  <2>2. CASE readPool # <<>>
    <3> DEFINE t == Head(readPool)
    <3>1. Enter(th, "check", t, cli[th], "idle") /\ readPool' = Tail(readPool)
      BY <1>5, <2>2 DEF PopReadArgs
    <3>2. /\ t \in Tokens /\ t \in Pooled
          /\ \A i, j \in 1..Len(Tail(readPool)) :
                 Tail(readPool)[i] = Tail(readPool)[j] => i = j
          /\ \A i \in 1..Len(Tail(readPool)) :
                 Tail(readPool)[i] # t /\ Tail(readPool)[i] \in Pooled
      BY <2>2, TakeHead DEF Pooled, PoolExclusive
    <3>3. ~InUse(t)
      BY <3>2 DEF PoolExclusive
    <3> HIDE DEF t
    <3>4. OwnInv'
      BY SMTT(30), <1>5, <3>1, <3>2, <3>3 DEF PopReadArgs, InUse, LockInv, CarriedInv, ConnInv,
         OwnersExclusive, OnlineSocketIsOpen
    <3>5. \A u : InUse(u)' => InUse(u) \/ u = t
      BY <1>5, <3>1, <3>2 DEF PopReadArgs, InUse
    <3>6. \A u \in Pooled' : u # t /\ u \in Pooled
      BY SMTT(30), <3>1, <3>2 DEF Pooled
    <3> QED  BY <3>1, <3>2, <3>4, <3>5, <3>6 DEF PoolExclusive
  <2> QED  BY <2>1, <2>2
<1>6. ASSUME NEW th \in Threads, Reject(th)
      PROVE  OwnInv' /\ PoolExclusive'
  <2>1. OwnInv'
    BY <1>6 DEF Reject,
       LockInv, CarriedInv, ConnInv, OwnersExclusive, OnlineSocketIsOpen
  <2>2. PoolExclusive'
    BY <1>6, PoolKept DEF Reject
  <2> QED  BY <2>1, <2>2
<1>7. ASSUME NEW th \in Threads, AssignToken(th)
      PROVE  OwnInv' /\ PoolExclusive'
  <2>1. OwnInv'
    BY <1>7 DEF AssignToken,
       LockInv, CarriedInv, ConnInv, OwnersExclusive, OnlineSocketIsOpen
  <2>2. PoolExclusive'
    BY <1>7, PoolKept DEF AssignToken
  <2> QED  BY <2>1, <2>2
<1>8. ASSUME NEW th \in Threads, Register(th)
      PROVE  OwnInv' /\ PoolExclusive'
  <2>1. OwnInv'
    BY <1>8 DEF Register,
       LockInv, CarriedInv, ConnInv, OwnersExclusive, OnlineSocketIsOpen
  <2>2. \A t \in Tokens : InUse(t)' => InUse(t)
    BY <1>8 DEF Register, InUse, LockInv, CarriedInv, ConnInv
  <2>3. PoolExclusive'
    BY <1>8, <2>2, PoolKeptByMove DEF Register
  <2> QED  BY <2>1, <2>3
<1>9. ASSUME NEW th \in Threads, RegisterIP(th)
      PROVE  OwnInv' /\ PoolExclusive'
  <2>1. OwnInv'
    BY <1>9 DEF RegisterIP,
       LockInv, CarriedInv, ConnInv, OwnersExclusive, OnlineSocketIsOpen
  <2>2. PoolExclusive'
    BY <1>9, PoolKept DEF RegisterIP
  <2> QED  BY <2>1, <2>2
<1>10. ASSUME NEW th \in Threads, AcceptConnected(th)
      PROVE  OwnInv' /\ PoolExclusive'
  <2>1. OwnInv'
    BY <1>10 DEF AcceptConnected, CheckConnected,
       LockInv, CarriedInv, ConnInv, OwnersExclusive, OnlineSocketIsOpen
  <2>2. PoolExclusive'
    BY <1>10, PoolKept DEF AcceptConnected, CheckConnected
  <2> QED  BY <2>1, <2>2
<1>11. ASSUME NEW th \in Threads, AcceptReceive(th)
      PROVE  OwnInv' /\ PoolExclusive'
  <2>1. tok[th] \in Tokens /\ conn[tok[th]] \in Clients
    BY <1>11 DEF AcceptReceive, Receive, CarriedInv
  <2>2. /\ pc[th] = "receive"
        /\ UNCHANGED <<accepting, sock, peerGone, tableVars, poolVars, serverVars>>
        /\ \/ UNCHANGED recv
           \/ recv' = [recv EXCEPT ![tok[th]] = conn[tok[th]]]
        /\ \/ Goto(th, "startAccept")
           \/ Enter(th, "dropIP", tok[th], conn[tok[th]], "startAccept")
    BY <1>11 DEF AcceptReceive, Receive
  <2>3. \A t \in Tokens : recv'[t] # NoClient => conn'[t] \in Clients
    BY <2>1, <2>2 DEF CarriedInv
  <2>4. CASE Goto(th, "startAccept")
    <3>1. OwnInv'
      BY <2>2, <2>3, <2>4 DEF LockInv, CarriedInv, ConnInv, OwnersExclusive,
         OnlineSocketIsOpen
    <3>2. PoolExclusive'
      BY <2>2, <2>4, PoolKept
    <3> QED  BY <3>1, <3>2
  <2>5. CASE Enter(th, "dropIP", tok[th], conn[tok[th]], "startAccept")
    <3>1. OwnInv'
      BY SMTT(30), <2>1, <2>2, <2>3, <2>5 DEF LockInv, CarriedInv, ConnInv, OwnersExclusive,
         OnlineSocketIsOpen
    <3>2. PoolExclusive'
      BY <2>2, <2>5, PoolKept
    <3> QED  BY <3>1, <3>2
  <2> QED  BY <2>2, <2>4, <2>5
<1>12. ASSUME NEW th \in Threads, StartAccept(th)
      PROVE  OwnInv' /\ PoolExclusive'
  <2>1. OwnInv'
    BY <1>12 DEF StartAccept,
       LockInv, CarriedInv, ConnInv, OwnersExclusive, OnlineSocketIsOpen
  <2>2. PoolExclusive'
    BY <1>12, PoolKept DEF StartAccept
  <2> QED  BY <2>1, <2>2
<1>13. ASSUME NEW th \in Threads, AcceptAsync(th)
      PROVE  OwnInv' /\ PoolExclusive'
  <2>1. OwnInv'
    BY <1>13 DEF AcceptAsync,
       LockInv, CarriedInv, ConnInv, OwnersExclusive, OnlineSocketIsOpen
  <2>2. PoolExclusive'
    BY <1>13, PoolKept DEF AcceptAsync
  <2> QED  BY <2>1, <2>2
<1>14. ASSUME NEW th \in Threads, RefuseClose(th)
      PROVE  OwnInv' /\ PoolExclusive'
  <2>1. OwnInv'
    BY <1>14 DEF RefuseClose,
       LockInv, CarriedInv, ConnInv, OwnersExclusive, OnlineSocketIsOpen
  <2>2. PoolExclusive'
    BY <1>14, PoolKept DEF RefuseClose
  <2> QED  BY <2>1, <2>2
<1>15. ASSUME NEW th \in Threads, RefuseDecrement(th)
      PROVE  OwnInv' /\ PoolExclusive'
  <2>1. OwnInv'
    BY <1>15 DEF RefuseDecrement,
       LockInv, CarriedInv, ConnInv, OwnersExclusive, OnlineSocketIsOpen
  <2>2. PoolExclusive'
    BY <1>15, PoolKept DEF RefuseDecrement
  <2> QED  BY <2>1, <2>2
<1>16. ASSUME NEW th \in Threads, RefuseRelease(th)
      PROVE  OwnInv' /\ PoolExclusive'
  <2>1. OwnInv'
    BY <1>16 DEF RefuseRelease,
       LockInv, CarriedInv, ConnInv, OwnersExclusive, OnlineSocketIsOpen
  <2>2. PoolExclusive'
    BY <1>16, PoolKept DEF RefuseRelease
  <2> QED  BY <2>1, <2>2
<1>17. ASSUME NEW th \in Threads, NEW t \in Tokens, ReceiveData(th, t)
      PROVE  OwnInv' /\ PoolExclusive'
  <2>1. OwnInv'
    BY <1>17 DEF ReceiveData,
       LockInv, CarriedInv, ConnInv, OwnersExclusive, OnlineSocketIsOpen
  <2>2. PoolExclusive'
    BY <1>17, PoolKept DEF ReceiveData
  <2> QED  BY <2>1, <2>2
<1>18. ASSUME NEW th \in Threads, NEW t \in Tokens, ReceiveEnd(th, t)
      PROVE  OwnInv' /\ PoolExclusive'
  <2>1. OwnInv'
    BY <1>18 DEF ReceiveEnd,
       LockInv, CarriedInv, ConnInv, OwnersExclusive, OnlineSocketIsOpen
  <2>2. PoolExclusive'
    BY <1>18, PoolKept DEF ReceiveEnd
  <2> QED  BY <2>1, <2>2
<1>19. ASSUME NEW th \in Threads, ReceivedConnected(th)
      PROVE  OwnInv' /\ PoolExclusive'
  <2>1. OwnInv'
    BY <1>19 DEF ReceivedConnected, CheckConnected,
       LockInv, CarriedInv, ConnInv, OwnersExclusive, OnlineSocketIsOpen
  <2>2. PoolExclusive'
    BY <1>19, PoolKept DEF ReceivedConnected, CheckConnected
  <2> QED  BY <2>1, <2>2
<1>20. ASSUME NEW th \in Threads, ReceiveAgain(th)
      PROVE  OwnInv' /\ PoolExclusive'
  <2>1. tok[th] \in Tokens /\ conn[tok[th]] \in Clients
    BY <1>20 DEF ReceiveAgain, Receive, CarriedInv
  <2>2. /\ pc[th] = "rearm"
        /\ UNCHANGED <<accepting, sock, peerGone, tableVars, poolVars, serverVars>>
        /\ \/ UNCHANGED recv
           \/ recv' = [recv EXCEPT ![tok[th]] = conn[tok[th]]]
        /\ \/ Goto(th, "idle")
           \/ Enter(th, "dropIP", tok[th], conn[tok[th]], "idle")
    BY <1>20 DEF ReceiveAgain, Receive
  <2>3. \A t \in Tokens : recv'[t] # NoClient => conn'[t] \in Clients
    BY <2>1, <2>2 DEF CarriedInv
  <2>4. CASE Goto(th, "idle")
    <3>1. OwnInv'
      BY <2>2, <2>3, <2>4 DEF LockInv, CarriedInv, ConnInv, OwnersExclusive,
         OnlineSocketIsOpen
    <3>2. PoolExclusive'
      BY <2>2, <2>4, PoolKept
    <3> QED  BY <3>1, <3>2
  <2>5. CASE Enter(th, "dropIP", tok[th], conn[tok[th]], "idle")
    <3>1. OwnInv'
      BY <2>1, <2>2, <2>3, <2>5 DEF LockInv, CarriedInv, ConnInv, OwnersExclusive,
         OnlineSocketIsOpen
    <3>2. PoolExclusive'
      BY <2>2, <2>5, PoolKept
    <3> QED  BY <3>1, <3>2
  <2> QED  BY <2>2, <2>4, <2>5
<1>21. ASSUME NEW th \in Threads, NEW c \in Clients, Disconnect(th, c)
      PROVE  OwnInv' /\ PoolExclusive'
  <2>1. OwnInv'
    BY <1>21 DEF Disconnect,
       LockInv, CarriedInv, ConnInv, OwnersExclusive, OnlineSocketIsOpen
  <2>2. PoolExclusive'
    BY <1>21, PoolKept DEF Disconnect
  <2> QED  BY <2>1, <2>2
<1>22. ASSUME NEW th \in Threads, DropIP(th)
      PROVE  OwnInv' /\ PoolExclusive'
  <2>1. OwnInv'
    BY <1>22 DEF DropIP,
       LockInv, CarriedInv, ConnInv, OwnersExclusive, OnlineSocketIsOpen
  <2>2. PoolExclusive'
    BY <1>22, PoolKept DEF DropIP
  <2> QED  BY <2>1, <2>2
<1>23. ASSUME NEW th \in Threads, Drop(th)
      PROVE  OwnInv' /\ PoolExclusive'
  <2> DEFINE c == conn[tok[th]]
  <2>1. lock = NoThread /\ swept = {} /\ pc[th] = "drop" /\ c \in Clients /\ tok[th] \in Tokens
    BY <1>23 DEF Drop, LockInv, CarriedInv
  <2>2. CASE tokens[c] = NoToken
    <3>1. Goto(th, after[th]) /\ after[th] \in {"idle", "startAccept"}
          /\ UNCHANGED <<tokens, lock>>
      BY <1>23, <2>1, <2>2 DEF Drop, LockInv
    <3>2. OwnInv'
      BY <1>23, <2>1, <3>1 DEF Drop, LockInv, CarriedInv, ConnInv, OwnersExclusive,
         OnlineSocketIsOpen
    <3>3. PoolExclusive'
      BY <1>23, <3>1, PoolKept DEF Drop
    <3> QED  BY <3>2, <3>3
  <2>3. CASE tokens[c] # NoToken
    <3>1. /\ tokens' = [tokens EXCEPT ![c] = NoToken] /\ lock' = th
          /\ Enter(th, "close", tok[th], c, after[th])
          /\ after[th] # "stopNext"
      BY <1>23, <2>1, <2>3 DEF Drop, LockInv
    <3>2. Online(c) /\ tokens[c] = tok[th]
      BY <2>1, <2>3 DEF ConnInv, OnlineSocketIsOpen
    <3>3. LockInv' /\ CarriedInv'
      BY <1>23, <2>1, <3>1 DEF Drop, LockInv, CarriedInv
    <3>4. ConnInv' /\ OnlineSocketIsOpen'
      BY <1>23, <2>1, <3>1, <3>2 DEF Drop, ConnInv, OnlineSocketIsOpen
    <3>5. OwnersExclusive'
      BY <1>23, <2>1, <3>1, <3>2 DEF Drop, OwnersExclusive
    <3>6. \A t \in Tokens : InUse(t)' => InUse(t)
      BY <1>23, <2>1, <3>1, <3>2 DEF Drop, InUse
    <3>7. PoolExclusive'
      BY <1>23, <3>6, PoolKeptByMove DEF Drop
    <3> QED  BY <3>3, <3>4, <3>5, <3>7
  <2> QED  BY <2>2, <2>3
<1>24. ASSUME NEW th \in Threads, CloseSocket(th)
      PROVE  OwnInv' /\ PoolExclusive'
  <2>1. OwnInv'
    BY <1>24 DEF CloseSocket,
       LockInv, CarriedInv, ConnInv, OwnersExclusive, OnlineSocketIsOpen
  <2>2. PoolExclusive'
    BY <1>24, PoolKept DEF CloseSocket
  <2> QED  BY <2>1, <2>2
<1>25. ASSUME NEW th \in Threads, Decrement(th)
      PROVE  OwnInv' /\ PoolExclusive'
  <2>1. OwnInv'
    BY <1>25 DEF Decrement,
       LockInv, CarriedInv, ConnInv, OwnersExclusive, OnlineSocketIsOpen
  <2>2. PoolExclusive'
    BY <1>25, PoolKept DEF Decrement
  <2> QED  BY <2>1, <2>2
<1>26. ASSUME NEW th \in Threads, ReleasePermit(th)
      PROVE  OwnInv' /\ PoolExclusive'
  <2>1. OwnInv'
    BY <1>26 DEF ReleasePermit,
       LockInv, CarriedInv, ConnInv, OwnersExclusive, OnlineSocketIsOpen
  <2>2. PoolExclusive'
    BY <1>26, PoolKept DEF ReleasePermit
  <2> QED  BY <2>1, <2>2
<1>27. ASSUME NEW th \in Threads, PushReadArgs(th)
      PROVE  OwnInv' /\ PoolExclusive'
  <2>1. OwnInv'
    BY <1>27 DEF PushReadArgs,
       LockInv, CarriedInv, ConnInv, OwnersExclusive, OnlineSocketIsOpen
  <2>2. PoolExclusive'
    <3>1. tok[th] \in Tokens
      BY <1>27 DEF PushReadArgs
    <3>2. PICK t \in Tokens : t = tok[th]
      BY <3>1
    <3>3. InUse(t)
      BY <1>27, <3>2 DEF PushReadArgs, InUse
    <3>4. \A u \in Tokens : InUse(u)' => InUse(u) /\ u # t
      BY <1>27, <3>2 DEF PushReadArgs, InUse, OwnersExclusive
    <3>5. readPool' = Append(readPool, t)
      BY <1>27, <3>2 DEF PushReadArgs
    <3> QED  BY <3>3, <3>4, <3>5, PoolGivenBack
  <2> QED  BY <2>1, <2>2
<1>28. ASSUME NEW th \in Threads, RaiseDisconnected(th)
      PROVE  OwnInv' /\ PoolExclusive'
  <2>1. OwnInv'
    BY <1>28 DEF RaiseDisconnected,
       LockInv, CarriedInv, ConnInv, OwnersExclusive, OnlineSocketIsOpen
  <2>2. PoolExclusive'
    BY <1>28, PoolKept DEF RaiseDisconnected
  <2> QED  BY <2>1, <2>2
<1>29. ASSUME NEW th \in Threads, StopBegin(th)
      PROVE  OwnInv' /\ PoolExclusive'
  <2>1. OwnInv'
    BY <1>29 DEF StopBegin,
       LockInv, CarriedInv, ConnInv, OwnersExclusive, OnlineSocketIsOpen
  <2>2. PoolExclusive'
    BY <1>29, PoolKept DEF StopBegin
  <2> QED  BY <2>1, <2>2
<1>30. ASSUME NEW th \in Threads, StopLock(th)
      PROVE  OwnInv' /\ PoolExclusive'
  <2>1. OwnInv'
    BY <1>30 DEF StopLock,
       LockInv, CarriedInv, ConnInv, OwnersExclusive, OnlineSocketIsOpen
  <2>2. PoolExclusive'
    BY <1>30, PoolKept DEF StopLock
  <2> QED  BY <2>1, <2>2
<1>31. ASSUME NEW th \in Threads, NEW c \in Clients, StopNext(th, c)
      PROVE  OwnInv' /\ PoolExclusive'
  <2>1. OwnInv'
    BY <1>31 DEF StopNext,
       LockInv, CarriedInv, ConnInv, OwnersExclusive, OnlineSocketIsOpen
  <2>2. \A t \in Tokens : InUse(t)' => InUse(t)
    BY <1>31 DEF StopNext, InUse, LockInv, CarriedInv, ConnInv
  <2>3. PoolExclusive'
    BY <1>31, <2>2, PoolKeptByMove DEF StopNext
  <2> QED  BY <2>1, <2>3
<1>32. ASSUME NEW th \in Threads, StopClear(th)
      PROVE  OwnInv' /\ PoolExclusive'
  <2>1. OwnInv'
    BY <1>32 DEF StopClear,
       LockInv, CarriedInv, ConnInv, OwnersExclusive, OnlineSocketIsOpen
  <2>2. PoolExclusive'
    BY <1>32, PoolKept DEF StopClear
  <2> QED  BY <2>1, <2>2
<1>33. ASSUME NEW th \in Threads, StopIP(th)
      PROVE  OwnInv' /\ PoolExclusive'
  <2>1. OwnInv'
    BY <1>33 DEF StopIP,
       LockInv, CarriedInv, ConnInv, OwnersExclusive, OnlineSocketIsOpen
  <2>2. PoolExclusive'
    BY <1>33, PoolKept DEF StopIP
  <2> QED  BY <2>1, <2>2
<1> QED
  <2>1. CASE UNCHANGED vars
    <3>1. OwnInv'
      BY <2>1 DEF vars, LockInv, CarriedInv, ConnInv, OwnersExclusive, OnlineSocketIsOpen
    <3>2. PoolExclusive'
      BY <2>1, PoolKept DEF vars
    <3> QED  BY <3>1, <3>2
  <2>2. CASE Next
    BY <2>2, <1>1, <1>2, <1>3, <1>4, <1>5, <1>6, <1>7, <1>8, <1>9, <1>10, <1>11, <1>12, <1>13, <1>14, <1>15, <1>16, <1>17, <1>18, <1>19, <1>20, <1>21, <1>22, <1>23, <1>24, <1>25, <1>26, <1>27, <1>28, <1>29, <1>30, <1>31, <1>32, <1>33
    DEF Next, ThreadStep, AcceptLoop, ReceiveCallback, CloseConnection, StopServer
  <2> QED  BY <2>1, <2>2

\* The invariant holds in the state Start leaves behind.
LEMMA IInvInit == Init => IInv
<1> SUFFICES ASSUME Init PROVE IInv
  OBVIOUS
<1>1. TypeInv
  BY ServerAssumption DEF Init, TypeInv, TypeOK, NetTypes, TableTypes, PoolTypes,
     ThreadTypes, Tokens, NoToken, TokenSteps, CloseSteps, Steps
<1>2. \A c \in Clients : ~Online(c)
  BY DEF Init, Online, NoToken
<1>3. \A th \in Threads : ~Owns(th) /\ pc[th] = "idle"
  BY DEF Init, Owns, Closes, CloseSteps
<1>4. OwnInv
  BY <1>2, <1>3, ServerAssumption DEF Init, OwnInv, LockInv, CarriedInv, ConnInv,
     OwnersExclusive, OnlineSocketIsOpen, OnlineClients, Closes, CloseSteps, LockSteps,
     FreshSteps, TokenSteps, Unassigned, NoToken
<1>5. \A t : ~InUse(t)
  BY <1>2, <1>3 DEF InUse
<1>6. PoolExclusive
  BY <1>5, ServerAssumption DEF Init, PoolExclusive
<1> QED
  BY <1>1, <1>4, <1>6 DEF IInv

\* No read args, and so no token, are ever with two owners: two connections never
\* share a receive buffer, and none is pushed into the pool twice.
THEOREM ReadArgsExclusiveAlways == Spec => []ReadArgsExclusive
<1>1. IInv => ReadArgsExclusive
  BY DEF IInv, OwnInv, ReadArgsExclusive
<1> QED
  BY <1>1, IInvInit, IInvStep, PTL DEF Spec

\* A connection that IsOnline reports has its own token and an open socket.
THEOREM OnlineSocketIsOpenAlways == Spec => []OnlineSocketIsOpen
<1>1. IInv => OnlineSocketIsOpen
  BY DEF IInv, OwnInv
<1> QED
  BY <1>1, IInvInit, IInvStep, PTL DEF Spec

-------------------------------------------------------------------------------
(* What is counted *)

\* A thread carries the accept loop on, now or once a disconnect has returned
InLoop(th) == pc[th] \in AcceptSteps \cup RefuseSteps \/ after[th] = "startAccept"

\* The accept loop is one: either an accept is outstanding or one thread runs it
LoopInv ==
    /\ \A th, other \in Threads : InLoop(th) /\ InLoop(other) => th = other
    /\ accepting => \A th \in Threads : ~InLoop(th)

\* A client that was turned away is closed, and no token ever carries it
RefuseInv ==
    \A th \in Threads : pc[th] \in {"refuseDecrement", "refuseRelease"} =>
        cli[th] \in Clients /\ sock[cli[th]] = "closed" /\ Unassigned(cli[th])

\* Whom a thread accepts, refuses or closes is not in the table, and no other
\* thread works for it
WorkInv ==
    /\ \A th \in Threads : pc[th] \in PermitSteps =>
           cli[th] \in Clients /\ ~Online(cli[th])
    /\ \A th, other \in Threads :
           pc[th] \in PermitSteps /\ pc[other] \in PermitSteps /\ cli[th] = cli[other]
               => th = other

CountInv == num = Cardinality(Holders(CountSteps))

\* A closed listener loses the permit of the accept that is not armed any more
PermitInv ==
    UseSemaphore =>
        LET out == Cardinality(Holders(PermitSteps)) + (IF Armed THEN 1 ELSE 0)
        IN  /\ permits + out <= MaxConnections
            /\ listenOpen => permits + out = MaxConnections

CInv == LoopInv /\ RefuseInv /\ WorkInv /\ CountInv /\ PermitInv /\ ReadArgsConserved

-------------------------------------------------------------------------------
(* What the two actions with alternatives do *)

\* tokens.Remove finds either the token the thread works on, or nothing.
LEMMA DropEffect ==
  ASSUME IInv, NEW th \in Threads, Drop(th)
  PROVE  /\ lock = NoThread /\ swept = {} /\ pc[th] = "drop"
         /\ tok[th] \in Tokens /\ conn[tok[th]] \in Clients
         /\ UNCHANGED <<netVars, conn, swept, singleIP, poolVars, serverVars>>
         /\ \/ /\ tokens[conn[tok[th]]] = tok[th]
               /\ tokens' = [tokens EXCEPT ![conn[tok[th]]] = NoToken]
               /\ lock' = th
               /\ Enter(th, "close", tok[th], conn[tok[th]], after[th])
               /\ after[th] \in {"idle", "startAccept"}
            \/ /\ UNCHANGED <<tokens, lock>>
               /\ Goto(th, after[th])
               /\ after[th] \in {"idle", "startAccept"}
<1> USE ServerAssumption DEF IInv, OwnInv, TypeInv, TypeOK, TableTypes, ThreadTypes,
        LockInv, CarriedInv, ConnInv, TokenSteps, LockSteps, CloseSteps, At, Tokens,
        NoToken, OnlineSocketIsOpen, OnlineClients, Online
<1> DEFINE c == conn[tok[th]]
<1>1. /\ lock = NoThread /\ swept = {} /\ pc[th] = "drop"
      /\ tok[th] \in Tokens /\ c \in Clients
      /\ UNCHANGED <<netVars, conn, swept, singleIP, poolVars, serverVars>>
  BY DEF Drop
<1>2. after[th] \in {"idle", "startAccept"}
  BY <1>1
<1>3. CASE tokens[c] = NoToken
  BY <1>1, <1>2, <1>3 DEF Drop
<1>4. CASE tokens[c] # NoToken
  <2>1. tokens[c] = tok[th]
    BY <1>1, <1>4
  <2> QED  BY <1>1, <1>2, <1>4, <2>1 DEF Drop
<1> QED  BY <1>3, <1>4

\* ReceiveAsync leaves tables and counters alone.
LEMMA ReceiveEffect ==
  ASSUME IInv, NEW th \in Threads, NEW here \in {"receive", "rearm"},
         NEW return \in {"idle", "startAccept"}, Receive(th, here, return)
  PROVE  /\ pc[th] = here /\ tok[th] \in Tokens /\ conn[tok[th]] \in Clients
         /\ UNCHANGED <<accepting, sock, peerGone, tableVars, poolVars, serverVars>>
         /\ \/ Goto(th, return)
            \/ Enter(th, "dropIP", tok[th], conn[tok[th]], return)
BY DEF Receive, IInv, OwnInv, TypeInv, CarriedInv, TokenSteps, At

-------------------------------------------------------------------------------
(* Threads and the clients they work for *)

\* The accept loop stays one.
LEMMA LoopStep == IInv /\ LoopInv /\ [Next]_vars => LoopInv'
<1> SUFFICES ASSUME IInv, LoopInv, [Next]_vars PROVE LoopInv'
  OBVIOUS
<1> USE DEF IInv, TypeInv, TypeOK, NetTypes, ThreadTypes, LoopInv, InLoop, AcceptSteps,
        RefuseSteps, At, Goto, Enter, netVars, tableVars, poolVars, serverVars, threadVars
<1>1. ASSUME NEW c \in Clients, Connect(c)
      PROVE  LoopInv'
  BY <1>1 DEF Connect
<1>2. ASSUME NEW c \in Clients, Leave(c)
      PROVE  LoopInv'
  BY <1>2 DEF Leave
<1>3. ASSUME NEW th \in Threads, NEW c \in Clients, AcceptCompleted(th, c)
      PROVE  LoopInv'
  BY <1>3 DEF AcceptCompleted
<1>4. ASSUME NEW th \in Threads, AcceptFailed(th)
      PROVE  LoopInv'
  BY <1>4 DEF AcceptFailed
<1>5. ASSUME NEW th \in Threads, PopReadArgs(th)
      PROVE  LoopInv'
  BY <1>5 DEF PopReadArgs
<1>6. ASSUME NEW th \in Threads, Reject(th)
      PROVE  LoopInv'
  BY <1>6 DEF Reject
<1>7. ASSUME NEW th \in Threads, AssignToken(th)
      PROVE  LoopInv'
  BY <1>7 DEF AssignToken
<1>8. ASSUME NEW th \in Threads, Register(th)
      PROVE  LoopInv'
  BY <1>8 DEF Register
<1>9. ASSUME NEW th \in Threads, RegisterIP(th)
      PROVE  LoopInv'
  BY <1>9 DEF RegisterIP
<1>10. ASSUME NEW th \in Threads, AcceptConnected(th)
      PROVE  LoopInv'
  BY <1>10 DEF AcceptConnected, CheckConnected
<1>11. ASSUME NEW th \in Threads, AcceptReceive(th)
      PROVE  LoopInv'
  BY <1>11 DEF AcceptReceive, Receive
<1>12. ASSUME NEW th \in Threads, StartAccept(th)
      PROVE  LoopInv'
  BY <1>12 DEF StartAccept
<1>13. ASSUME NEW th \in Threads, AcceptAsync(th)
      PROVE  LoopInv'
  BY <1>13 DEF AcceptAsync
<1>14. ASSUME NEW th \in Threads, RefuseClose(th)
      PROVE  LoopInv'
  BY <1>14 DEF RefuseClose
<1>15. ASSUME NEW th \in Threads, RefuseDecrement(th)
      PROVE  LoopInv'
  BY <1>15 DEF RefuseDecrement
<1>16. ASSUME NEW th \in Threads, RefuseRelease(th)
      PROVE  LoopInv'
  BY <1>16 DEF RefuseRelease
<1>17. ASSUME NEW th \in Threads, NEW t \in Tokens, ReceiveData(th, t)
      PROVE  LoopInv'
  BY <1>17 DEF ReceiveData
<1>18. ASSUME NEW th \in Threads, NEW t \in Tokens, ReceiveEnd(th, t)
      PROVE  LoopInv'
  BY <1>18 DEF ReceiveEnd
<1>19. ASSUME NEW th \in Threads, ReceivedConnected(th)
      PROVE  LoopInv'
  BY <1>19 DEF ReceivedConnected, CheckConnected
<1>20. ASSUME NEW th \in Threads, ReceiveAgain(th)
      PROVE  LoopInv'
  BY <1>20 DEF ReceiveAgain, Receive
<1>21. ASSUME NEW th \in Threads, NEW c \in Clients, Disconnect(th, c)
      PROVE  LoopInv'
  BY <1>21 DEF Disconnect
<1>22. ASSUME NEW th \in Threads, DropIP(th)
      PROVE  LoopInv'
  BY <1>22 DEF DropIP
<1>23. ASSUME NEW th \in Threads, Drop(th)
      PROVE  LoopInv'
  BY <1>23 DEF Drop
<1>24. ASSUME NEW th \in Threads, CloseSocket(th)
      PROVE  LoopInv'
  BY <1>24 DEF CloseSocket
<1>25. ASSUME NEW th \in Threads, Decrement(th)
      PROVE  LoopInv'
  BY <1>25 DEF Decrement
<1>26. ASSUME NEW th \in Threads, ReleasePermit(th)
      PROVE  LoopInv'
  BY <1>26 DEF ReleasePermit
<1>27. ASSUME NEW th \in Threads, PushReadArgs(th)
      PROVE  LoopInv'
  BY <1>27 DEF PushReadArgs
<1>28. ASSUME NEW th \in Threads, RaiseDisconnected(th)
      PROVE  LoopInv'
  BY <1>28 DEF RaiseDisconnected
<1>29. ASSUME NEW th \in Threads, StopBegin(th)
      PROVE  LoopInv'
  BY <1>29 DEF StopBegin
<1>30. ASSUME NEW th \in Threads, StopLock(th)
      PROVE  LoopInv'
  BY <1>30 DEF StopLock
<1>31. ASSUME NEW th \in Threads, NEW c \in Clients, StopNext(th, c)
      PROVE  LoopInv'
  BY <1>31 DEF StopNext
<1>32. ASSUME NEW th \in Threads, StopClear(th)
      PROVE  LoopInv'
  BY <1>32 DEF StopClear
<1>33. ASSUME NEW th \in Threads, StopIP(th)
      PROVE  LoopInv'
  BY <1>33 DEF StopIP
<1>34. CASE UNCHANGED vars
  BY <1>34 DEF vars
<1> QED
  BY <1>1, <1>2, <1>3, <1>4, <1>5, <1>6, <1>7, <1>8, <1>9, <1>10, <1>11, <1>12, <1>13,
     <1>14, <1>15, <1>16, <1>17, <1>18, <1>19, <1>20, <1>21, <1>22, <1>23, <1>24,
     <1>25, <1>26, <1>27, <1>28, <1>29, <1>30, <1>31, <1>32, <1>33, <1>34
     DEF Next, ThreadStep, AcceptLoop, ReceiveCallback, CloseConnection, StopServer

\* No two threads accept, refuse or close the same client.
LEMMA WorkStep == IInv /\ RefuseInv /\ WorkInv /\ [Next]_vars => RefuseInv' /\ WorkInv'
<1> SUFFICES ASSUME IInv, RefuseInv, WorkInv, [Next]_vars PROVE RefuseInv' /\ WorkInv'
  OBVIOUS
<1> USE ServerAssumption DEF IInv, OwnInv, TypeInv, TypeOK, NetTypes, TableTypes,
        PoolTypes, ThreadTypes, LockInv, CarriedInv, ConnInv, OwnersExclusive,
        OnlineSocketIsOpen, OnlineClients, Unassigned, Online, Connected, Owns, Closes,
        PermitSteps, CountSteps, FreshSteps, TokenSteps, CloseSteps, LockSteps, Tokens,
        NoToken, At, Goto, Enter, netVars, tableVars, poolVars, serverVars, threadVars,
        RefuseInv, WorkInv
<1>1. ASSUME NEW c \in Clients, Connect(c)
      PROVE  RefuseInv' /\ WorkInv'
  BY <1>1 DEF Connect
<1>2. ASSUME NEW c \in Clients, Leave(c)
      PROVE  RefuseInv' /\ WorkInv'
  BY <1>2 DEF Leave
<1>3. ASSUME NEW th \in Threads, NEW c \in Clients, AcceptCompleted(th, c)
      PROVE  RefuseInv' /\ WorkInv'
  BY <1>3 DEF AcceptCompleted
<1>4. ASSUME NEW th \in Threads, AcceptFailed(th)
      PROVE  RefuseInv' /\ WorkInv'
  BY <1>4 DEF AcceptFailed
<1>5. ASSUME NEW th \in Threads, PopReadArgs(th)
      PROVE  RefuseInv' /\ WorkInv'
  <2>1. RefuseInv'
    BY SMTT(30), <1>5 DEF PopReadArgs
  <2>2. WorkInv'
    BY SMTT(30), <1>5 DEF PopReadArgs
  <2> QED  BY <2>1, <2>2
<1>6. ASSUME NEW th \in Threads, Reject(th)
      PROVE  RefuseInv' /\ WorkInv'
  BY <1>6 DEF Reject
<1>7. ASSUME NEW th \in Threads, AssignToken(th)
      PROVE  RefuseInv' /\ WorkInv'
  BY <1>7 DEF AssignToken
<1>8. ASSUME NEW th \in Threads, Register(th)
      PROVE  RefuseInv' /\ WorkInv'
  BY <1>8 DEF Register
<1>9. ASSUME NEW th \in Threads, RegisterIP(th)
      PROVE  RefuseInv' /\ WorkInv'
  BY <1>9 DEF RegisterIP
<1>10. ASSUME NEW th \in Threads, AcceptConnected(th)
      PROVE  RefuseInv' /\ WorkInv'
  BY <1>10 DEF AcceptConnected, CheckConnected
<1>11. ASSUME NEW th \in Threads, AcceptReceive(th)
      PROVE  RefuseInv' /\ WorkInv'
  <2>1. Receive(th, "receive", "startAccept")
    BY <1>11 DEF AcceptReceive
  <2>2. /\ pc[th] = "receive" /\ tok[th] \in Tokens /\ conn[tok[th]] \in Clients
        /\ UNCHANGED <<accepting, sock, peerGone, tableVars, poolVars, serverVars>>
    BY <2>1, ReceiveEffect
  <2>3. CASE Goto(th, "startAccept")
    BY <2>2, <2>3
  <2>4. CASE Enter(th, "dropIP", tok[th], conn[tok[th]], "startAccept")
    BY <2>2, <2>4
  <2> QED  BY <2>1, <2>3, <2>4, ReceiveEffect
<1>12. ASSUME NEW th \in Threads, StartAccept(th)
      PROVE  RefuseInv' /\ WorkInv'
  BY <1>12 DEF StartAccept
<1>13. ASSUME NEW th \in Threads, AcceptAsync(th)
      PROVE  RefuseInv' /\ WorkInv'
  BY <1>13 DEF AcceptAsync
<1>14. ASSUME NEW th \in Threads, RefuseClose(th)
      PROVE  RefuseInv' /\ WorkInv'
  BY <1>14 DEF RefuseClose
<1>15. ASSUME NEW th \in Threads, RefuseDecrement(th)
      PROVE  RefuseInv' /\ WorkInv'
  BY <1>15 DEF RefuseDecrement
<1>16. ASSUME NEW th \in Threads, RefuseRelease(th)
      PROVE  RefuseInv' /\ WorkInv'
  BY <1>16 DEF RefuseRelease
<1>17. ASSUME NEW th \in Threads, NEW t \in Tokens, ReceiveData(th, t)
      PROVE  RefuseInv' /\ WorkInv'
  BY <1>17 DEF ReceiveData
<1>18. ASSUME NEW th \in Threads, NEW t \in Tokens, ReceiveEnd(th, t)
      PROVE  RefuseInv' /\ WorkInv'
  BY <1>18 DEF ReceiveEnd
<1>19. ASSUME NEW th \in Threads, ReceivedConnected(th)
      PROVE  RefuseInv' /\ WorkInv'
  BY <1>19 DEF ReceivedConnected, CheckConnected
<1>20. ASSUME NEW th \in Threads, ReceiveAgain(th)
      PROVE  RefuseInv' /\ WorkInv'
  <2>1. Receive(th, "rearm", "idle")
    BY <1>20 DEF ReceiveAgain
  <2>2. /\ pc[th] = "rearm" /\ tok[th] \in Tokens /\ conn[tok[th]] \in Clients
        /\ UNCHANGED <<accepting, sock, peerGone, tableVars, poolVars, serverVars>>
    BY <2>1, ReceiveEffect
  <2>3. CASE Goto(th, "idle")
    BY <2>2, <2>3
  <2>4. CASE Enter(th, "dropIP", tok[th], conn[tok[th]], "idle")
    BY <2>2, <2>4
  <2> QED  BY <2>1, <2>3, <2>4, ReceiveEffect
<1>21. ASSUME NEW th \in Threads, NEW c \in Clients, Disconnect(th, c)
      PROVE  RefuseInv' /\ WorkInv'
  BY <1>21 DEF Disconnect
<1>22. ASSUME NEW th \in Threads, DropIP(th)
      PROVE  RefuseInv' /\ WorkInv'
  BY <1>22 DEF DropIP
<1>23. ASSUME NEW th \in Threads, Drop(th)
      PROVE  RefuseInv' /\ WorkInv'
  <2>1. /\ lock = NoThread /\ swept = {} /\ pc[th] = "drop"
        /\ tok[th] \in Tokens /\ conn[tok[th]] \in Clients
        /\ UNCHANGED <<netVars, conn, swept, singleIP, poolVars, serverVars>>
    BY <1>23, DropEffect
  <2>2. CASE /\ tokens[conn[tok[th]]] = tok[th]
             /\ tokens' = [tokens EXCEPT ![conn[tok[th]]] = NoToken]
             /\ Enter(th, "close", tok[th], conn[tok[th]], after[th])
    BY <2>1, <2>2
  <2>3. CASE /\ UNCHANGED <<tokens, lock>> /\ Goto(th, after[th])
             /\ after[th] \in {"idle", "startAccept"}
    BY <2>1, <2>3
  <2> QED  BY <1>23, <2>2, <2>3, DropEffect
<1>24. ASSUME NEW th \in Threads, CloseSocket(th)
      PROVE  RefuseInv' /\ WorkInv'
  BY <1>24 DEF CloseSocket
<1>25. ASSUME NEW th \in Threads, Decrement(th)
      PROVE  RefuseInv' /\ WorkInv'
  BY <1>25 DEF Decrement
<1>26. ASSUME NEW th \in Threads, ReleasePermit(th)
      PROVE  RefuseInv' /\ WorkInv'
  BY <1>26 DEF ReleasePermit
<1>27. ASSUME NEW th \in Threads, PushReadArgs(th)
      PROVE  RefuseInv' /\ WorkInv'
  BY <1>27 DEF PushReadArgs
<1>28. ASSUME NEW th \in Threads, RaiseDisconnected(th)
      PROVE  RefuseInv' /\ WorkInv'
  BY <1>28 DEF RaiseDisconnected
<1>29. ASSUME NEW th \in Threads, StopBegin(th)
      PROVE  RefuseInv' /\ WorkInv'
  BY <1>29 DEF StopBegin
<1>30. ASSUME NEW th \in Threads, StopLock(th)
      PROVE  RefuseInv' /\ WorkInv'
  BY <1>30 DEF StopLock
<1>31. ASSUME NEW th \in Threads, NEW c \in Clients, StopNext(th, c)
      PROVE  RefuseInv' /\ WorkInv'
  BY <1>31 DEF StopNext
<1>32. ASSUME NEW th \in Threads, StopClear(th)
      PROVE  RefuseInv' /\ WorkInv'
  BY <1>32 DEF StopClear
<1>33. ASSUME NEW th \in Threads, StopIP(th)
      PROVE  RefuseInv' /\ WorkInv'
  BY <1>33 DEF StopIP
<1>34. CASE UNCHANGED vars
  BY <1>34 DEF vars
<1> QED
  BY <1>1, <1>2, <1>3, <1>4, <1>5, <1>6, <1>7, <1>8, <1>9, <1>10, <1>11, <1>12, <1>13,
     <1>14, <1>15, <1>16, <1>17, <1>18, <1>19, <1>20, <1>21, <1>22, <1>23, <1>24,
     <1>25, <1>26, <1>27, <1>28, <1>29, <1>30, <1>31, <1>32, <1>33, <1>34
     DEF Next, ThreadStep, AcceptLoop, ReceiveCallback, CloseConnection, StopServer

-------------------------------------------------------------------------------
(* Counting clients *)

\* Sets of clients are finite, and one client more or less changes their number by one.
LEMMA ClientSets ==
  ASSUME NEW S, S \subseteq Clients
  PROVE  IsFiniteSet(S) /\ Cardinality(S) \in Nat
BY FS_Subset, FS_CardinalityType, ServerAssumption

\* One client more.
LEMMA OneMore ==
  ASSUME NEW S, S \subseteq Clients, NEW c \in Clients, c \notin S, NEW T, T = S \cup {c}
  PROVE  Cardinality(T) = Cardinality(S) + 1
BY ClientSets, FS_AddElement

\* One client less.
LEMMA OneLess ==
  ASSUME NEW S, S \subseteq Clients, NEW c \in S, NEW T, T = S \ {c}
  PROVE  Cardinality(T) = Cardinality(S) - 1
BY ClientSets, FS_RemoveElement

\* Holders are the same after a step that leaves the table alone and moves threads
\* neither into nor out of the steps that count.
LEMMA HoldersFrame ==
  ASSUME NEW steps, \A c \in Clients : Online(c)' <=> Online(c),
         \A x \in Threads : pc'[x] \in steps <=> pc[x] \in steps,
         \A x \in Threads : pc[x] \in steps => cli'[x] = cli[x]
  PROVE  Holders(steps)' = Holders(steps)
BY DEF Holders

\* What a step can do to the clients counted and the count
CountMoves ==
    \/ /\ Holders(CountSteps)' = Holders(CountSteps)
       /\ UNCHANGED num
    \/ \E c \in Clients \ Holders(CountSteps) :
           Holders(CountSteps)' = Holders(CountSteps) \cup {c} /\ num' = num + 1
    \/ \E c \in Holders(CountSteps) :
           Holders(CountSteps)' = Holders(CountSteps) \ {c} /\ num' = num - 1

\* The holders are the same after a step that moves clients between the table and threads.
LEMMA CountHolders ==
  ASSUME IInv, WorkInv, RefuseInv, [Next]_vars
  PROVE  CountMoves
<1> USE ServerAssumption DEF IInv, OwnInv, TypeInv, TypeOK, NetTypes, TableTypes,
        PoolTypes, ThreadTypes, LockInv, CarriedInv, ConnInv, OwnersExclusive,
        OnlineSocketIsOpen, OnlineClients, Unassigned, Online, Connected, Owns, Closes,
        PermitSteps, CountSteps, FreshSteps, TokenSteps, CloseSteps, LockSteps, Tokens,
        NoToken, At, Goto, Enter, netVars, tableVars, poolVars, serverVars, threadVars,
        RefuseInv, WorkInv, Holders, CountMoves
<1>1. ASSUME NEW c \in Clients, Connect(c)
      PROVE  CountMoves
  BY <1>1 DEF Connect
<1>2. ASSUME NEW c \in Clients, Leave(c)
      PROVE  CountMoves
  BY <1>2 DEF Leave
<1>3. ASSUME NEW th \in Threads, NEW c \in Clients, AcceptCompleted(th, c)
      PROVE  CountMoves
  <2>1. c \notin Holders(CountSteps)
    BY <1>3 DEF AcceptCompleted
  <2>2. Holders(CountSteps)' = Holders(CountSteps) \cup {c}
    BY <1>3 DEF AcceptCompleted
  <2>3. num' = num + 1
    BY <1>3 DEF AcceptCompleted
  <2> HIDE DEF Holders
  <2> QED  BY <2>1, <2>2, <2>3
<1>4. ASSUME NEW th \in Threads, AcceptFailed(th)
      PROVE  CountMoves
  BY <1>4 DEF AcceptFailed
<1>5. ASSUME NEW th \in Threads, PopReadArgs(th)
      PROVE  CountMoves
  <2>1. \A x \in Threads : pc'[x] \in CountSteps <=> pc[x] \in CountSteps
    BY <1>5 DEF PopReadArgs
  <2>2. \A x \in Threads : pc[x] \in CountSteps => cli'[x] = cli[x]
    BY <1>5 DEF PopReadArgs
  <2>3. \A c \in Clients : Online(c)' <=> Online(c)
    BY <1>5 DEF PopReadArgs
  <2>4. UNCHANGED num
    BY <1>5 DEF PopReadArgs
  <2> HIDE DEF Holders, CountSteps, Online
  <2>5. Holders(CountSteps)' = Holders(CountSteps)
    BY <2>1, <2>2, <2>3, HoldersFrame
  <2> QED  BY <2>4, <2>5
<1>6. ASSUME NEW th \in Threads, Reject(th)
      PROVE  CountMoves
  BY <1>6 DEF Reject
<1>7. ASSUME NEW th \in Threads, AssignToken(th)
      PROVE  CountMoves
  BY <1>7 DEF AssignToken
<1>8. ASSUME NEW th \in Threads, Register(th)
      PROVE  CountMoves
  BY <1>8 DEF Register
<1>9. ASSUME NEW th \in Threads, RegisterIP(th)
      PROVE  CountMoves
  BY <1>9 DEF RegisterIP
<1>10. ASSUME NEW th \in Threads, AcceptConnected(th)
      PROVE  CountMoves
  <2>1. \A x \in Threads : pc'[x] \in CountSteps <=> pc[x] \in CountSteps
    BY <1>10 DEF AcceptConnected, CheckConnected
  <2>2. \A x \in Threads : pc[x] \in CountSteps => cli'[x] = cli[x]
    BY <1>10 DEF AcceptConnected, CheckConnected
  <2>3. \A c \in Clients : Online(c)' <=> Online(c)
    BY <1>10 DEF AcceptConnected, CheckConnected
  <2>4. UNCHANGED num
    BY <1>10 DEF AcceptConnected, CheckConnected
  <2> HIDE DEF Holders, CountSteps, Online
  <2>5. Holders(CountSteps)' = Holders(CountSteps)
    BY <2>1, <2>2, <2>3, HoldersFrame
  <2> QED  BY <2>4, <2>5
<1>11. ASSUME NEW th \in Threads, AcceptReceive(th)
      PROVE  CountMoves
  <2>1. Receive(th, "receive", "startAccept")
    BY <1>11 DEF AcceptReceive
  <2>2. /\ pc[th] = "receive" /\ tok[th] \in Tokens /\ conn[tok[th]] \in Clients
        /\ UNCHANGED <<accepting, sock, peerGone, tableVars, poolVars, serverVars>>
    BY <2>1, ReceiveEffect
  <2>3. CASE Goto(th, "startAccept")
    <3>1. \A x \in Threads : pc'[x] \in CountSteps <=> pc[x] \in CountSteps
      BY <2>2, <2>3
    <3>2. \A x \in Threads : pc[x] \in CountSteps => cli'[x] = cli[x]
      BY <2>2, <2>3
    <3>3. \A c \in Clients : Online(c)' <=> Online(c)
      BY <2>2, <2>3
    <3>4. UNCHANGED num
      BY <2>2, <2>3
    <3> HIDE DEF Holders, CountSteps, Online
    <3>5. Holders(CountSteps)' = Holders(CountSteps)
      BY <3>1, <3>2, <3>3, HoldersFrame
    <3> QED  BY <3>4, <3>5
  <2>4. CASE Enter(th, "dropIP", tok[th], conn[tok[th]], "startAccept")
    BY <2>2, <2>4
  <2> QED  BY <2>1, <2>3, <2>4, ReceiveEffect
<1>12. ASSUME NEW th \in Threads, StartAccept(th)
      PROVE  CountMoves
  BY <1>12 DEF StartAccept
<1>13. ASSUME NEW th \in Threads, AcceptAsync(th)
      PROVE  CountMoves
  BY <1>13 DEF AcceptAsync
<1>14. ASSUME NEW th \in Threads, RefuseClose(th)
      PROVE  CountMoves
  BY <1>14 DEF RefuseClose
<1>15. ASSUME NEW th \in Threads, RefuseDecrement(th)
      PROVE  CountMoves
  <2>1. cli[th] \in Holders(CountSteps)
    BY <1>15 DEF RefuseDecrement
  <2>2. Holders(CountSteps)' = Holders(CountSteps) \ {cli[th]}
    <3>1. ASSUME NEW c \in Clients
          PROVE  (\E x \in Threads : pc'[x] \in CountSteps /\ cli'[x] = c)
                   <=> c # cli[th] /\ \E x \in Threads : pc[x] \in CountSteps /\ cli[x] = c
      BY <1>15 DEF RefuseDecrement
    <3>2. ASSUME NEW c \in Clients PROVE Online(c)' <=> Online(c)
      BY <1>15 DEF RefuseDecrement
    <3>3. ~Online(cli[th])
      BY <1>15 DEF RefuseDecrement
    <3> HIDE DEF Online
    <3> QED  BY <3>1, <3>2, <3>3
  <2>3. num' = num - 1
    BY <1>15 DEF RefuseDecrement
  <2> HIDE DEF Holders
  <2> QED  BY <2>1, <2>2, <2>3
<1>16. ASSUME NEW th \in Threads, RefuseRelease(th)
      PROVE  CountMoves
  <2>1. \A x \in Threads : pc'[x] \in CountSteps <=> pc[x] \in CountSteps
    BY <1>16 DEF RefuseRelease
  <2>2. \A x \in Threads : pc[x] \in CountSteps => cli'[x] = cli[x]
    BY <1>16 DEF RefuseRelease
  <2>3. \A c \in Clients : Online(c)' <=> Online(c)
    BY <1>16 DEF RefuseRelease
  <2>4. UNCHANGED num
    BY <1>16 DEF RefuseRelease
  <2> HIDE DEF Holders, CountSteps, Online
  <2>5. Holders(CountSteps)' = Holders(CountSteps)
    BY <2>1, <2>2, <2>3, HoldersFrame
  <2> QED  BY <2>4, <2>5
<1>17. ASSUME NEW th \in Threads, NEW t \in Tokens, ReceiveData(th, t)
      PROVE  CountMoves
  BY <1>17 DEF ReceiveData
<1>18. ASSUME NEW th \in Threads, NEW t \in Tokens, ReceiveEnd(th, t)
      PROVE  CountMoves
  BY <1>18 DEF ReceiveEnd
<1>19. ASSUME NEW th \in Threads, ReceivedConnected(th)
      PROVE  CountMoves
  <2>1. \A x \in Threads : pc'[x] \in CountSteps <=> pc[x] \in CountSteps
    BY <1>19 DEF ReceivedConnected, CheckConnected
  <2>2. \A x \in Threads : pc[x] \in CountSteps => cli'[x] = cli[x]
    BY <1>19 DEF ReceivedConnected, CheckConnected
  <2>3. \A c \in Clients : Online(c)' <=> Online(c)
    BY <1>19 DEF ReceivedConnected, CheckConnected
  <2>4. UNCHANGED num
    BY <1>19 DEF ReceivedConnected, CheckConnected
  <2> HIDE DEF Holders, CountSteps, Online
  <2>5. Holders(CountSteps)' = Holders(CountSteps)
    BY <2>1, <2>2, <2>3, HoldersFrame
  <2> QED  BY <2>4, <2>5
<1>20. ASSUME NEW th \in Threads, ReceiveAgain(th)
      PROVE  CountMoves
  <2>1. Receive(th, "rearm", "idle")
    BY <1>20 DEF ReceiveAgain
  <2>2. /\ pc[th] = "rearm" /\ tok[th] \in Tokens /\ conn[tok[th]] \in Clients
        /\ UNCHANGED <<accepting, sock, peerGone, tableVars, poolVars, serverVars>>
    BY <2>1, ReceiveEffect
  <2>3. CASE Goto(th, "idle")
    <3>1. \A x \in Threads : pc'[x] \in CountSteps <=> pc[x] \in CountSteps
      BY <2>2, <2>3
    <3>2. \A x \in Threads : pc[x] \in CountSteps => cli'[x] = cli[x]
      BY <2>2, <2>3
    <3>3. \A c \in Clients : Online(c)' <=> Online(c)
      BY <2>2, <2>3
    <3>4. UNCHANGED num
      BY <2>2, <2>3
    <3> HIDE DEF Holders, CountSteps, Online
    <3>5. Holders(CountSteps)' = Holders(CountSteps)
      BY <3>1, <3>2, <3>3, HoldersFrame
    <3> QED  BY <3>4, <3>5
  <2>4. CASE Enter(th, "dropIP", tok[th], conn[tok[th]], "idle")
    BY <2>2, <2>4
  <2> QED  BY <2>1, <2>3, <2>4, ReceiveEffect
<1>21. ASSUME NEW th \in Threads, NEW c \in Clients, Disconnect(th, c)
      PROVE  CountMoves
  BY <1>21 DEF Disconnect
<1>22. ASSUME NEW th \in Threads, DropIP(th)
      PROVE  CountMoves
  BY <1>22 DEF DropIP
<1>23. ASSUME NEW th \in Threads, Drop(th)
      PROVE  CountMoves
  <2>1. /\ lock = NoThread /\ swept = {} /\ pc[th] = "drop"
        /\ tok[th] \in Tokens /\ conn[tok[th]] \in Clients
        /\ UNCHANGED <<netVars, conn, swept, singleIP, poolVars, serverVars>>
    BY <1>23, DropEffect
  <2>2. CASE /\ tokens[conn[tok[th]]] = tok[th]
             /\ tokens' = [tokens EXCEPT ![conn[tok[th]]] = NoToken]
             /\ Enter(th, "close", tok[th], conn[tok[th]], after[th])
    BY <2>1, <2>2
  <2>3. CASE /\ UNCHANGED <<tokens, lock>> /\ Goto(th, after[th])
             /\ after[th] \in {"idle", "startAccept"}
    <3>1. \A x \in Threads : pc'[x] \in CountSteps <=> pc[x] \in CountSteps
      BY <2>1, <2>3
    <3>2. \A x \in Threads : pc[x] \in CountSteps => cli'[x] = cli[x]
      BY <2>1, <2>3
    <3>3. \A c \in Clients : Online(c)' <=> Online(c)
      BY <2>1, <2>3
    <3>4. UNCHANGED num
      BY <2>1, <2>3
    <3> HIDE DEF Holders, CountSteps, Online
    <3>5. Holders(CountSteps)' = Holders(CountSteps)
      BY <3>1, <3>2, <3>3, HoldersFrame
    <3> QED  BY <3>4, <3>5
  <2> HIDE DEF Holders
  <2> QED  BY <1>23, <2>2, <2>3, DropEffect
<1>24. ASSUME NEW th \in Threads, CloseSocket(th)
      PROVE  CountMoves
  BY <1>24 DEF CloseSocket
<1>25. ASSUME NEW th \in Threads, Decrement(th)
      PROVE  CountMoves
  <2>1. cli[th] \in Holders(CountSteps)
    BY <1>25 DEF Decrement
  <2>2. Holders(CountSteps)' = Holders(CountSteps) \ {cli[th]}
    BY <1>25 DEF Decrement
  <2>3. num' = num - 1
    BY <1>25 DEF Decrement
  <2> HIDE DEF Holders
  <2> QED  BY <2>1, <2>2, <2>3
<1>26. ASSUME NEW th \in Threads, ReleasePermit(th)
      PROVE  CountMoves
  BY <1>26 DEF ReleasePermit
<1>27. ASSUME NEW th \in Threads, PushReadArgs(th)
      PROVE  CountMoves
  BY <1>27 DEF PushReadArgs
<1>28. ASSUME NEW th \in Threads, RaiseDisconnected(th)
      PROVE  CountMoves
  BY <1>28 DEF RaiseDisconnected
<1>29. ASSUME NEW th \in Threads, StopBegin(th)
      PROVE  CountMoves
  BY <1>29 DEF StopBegin
<1>30. ASSUME NEW th \in Threads, StopLock(th)
      PROVE  CountMoves
  BY <1>30 DEF StopLock
<1>31. ASSUME NEW th \in Threads, NEW c \in Clients, StopNext(th, c)
      PROVE  CountMoves
  BY <1>31 DEF StopNext
<1>32. ASSUME NEW th \in Threads, StopClear(th)
      PROVE  CountMoves
  BY <1>32 DEF StopClear
<1>33. ASSUME NEW th \in Threads, StopIP(th)
      PROVE  CountMoves
  <2>1. \A x \in Threads : pc'[x] \in CountSteps <=> pc[x] \in CountSteps
    BY <1>33 DEF StopIP
  <2>2. \A x \in Threads : pc[x] \in CountSteps => cli'[x] = cli[x]
    BY <1>33 DEF StopIP
  <2>3. \A c \in Clients : Online(c)' <=> Online(c)
    BY <1>33 DEF StopIP
  <2>4. UNCHANGED num
    BY <1>33 DEF StopIP
  <2> HIDE DEF Holders, CountSteps, Online
  <2>5. Holders(CountSteps)' = Holders(CountSteps)
    BY <2>1, <2>2, <2>3, HoldersFrame
  <2> QED  BY <2>4, <2>5
<1>34. CASE UNCHANGED vars
  BY <1>34 DEF vars
<1> QED
  BY <1>1, <1>2, <1>3, <1>4, <1>5, <1>6, <1>7, <1>8, <1>9, <1>10, <1>11, <1>12, <1>13,
     <1>14, <1>15, <1>16, <1>17, <1>18, <1>19, <1>20, <1>21, <1>22, <1>23, <1>24,
     <1>25, <1>26, <1>27, <1>28, <1>29, <1>30, <1>31, <1>32, <1>33, <1>34
     DEF Next, ThreadStep, AcceptLoop, ReceiveCallback, CloseConnection, StopServer

\* What a step can do to the clients that hold permits, the permits, and the accept
\* that is armed or about to be
PermitMoves ==
    \/ /\ Holders(PermitSteps)' = Holders(PermitSteps)
       /\ permits' = permits /\ Armed' = Armed /\ (listenOpen' => listenOpen)
    \/ /\ Armed /\ ~Armed' /\ UNCHANGED <<permits, listenOpen>>
       /\ \E c \in Clients \ Holders(PermitSteps) :
              Holders(PermitSteps)' = Holders(PermitSteps) \cup {c}
    \/ /\ Release /\ Armed' = Armed /\ listenOpen' = listenOpen
       /\ \E c \in Holders(PermitSteps) :
              Holders(PermitSteps)' = Holders(PermitSteps) \ {c}
    \/ /\ ~Armed /\ Armed' /\ permits > 0 /\ permits' = permits - 1
       /\ listenOpen' = listenOpen /\ Holders(PermitSteps)' = Holders(PermitSteps)
    \/ /\ Armed /\ ~Armed' /\ listenOpen' = listenOpen
       /\ Release \/ (permits' = permits /\ ~listenOpen)
       /\ Holders(PermitSteps)' = Holders(PermitSteps)

\* They lose the client that a thread is done with.
LEMMA HoldersLess ==
  ASSUME NEW steps, NEW th \in Threads, pc[th] \in steps, pc'[th] \notin steps,
         \A x \in Threads \ {th} : pc'[x] = pc[x] /\ cli'[x] = cli[x],
         \A x \in Threads : pc[x] \in steps /\ cli[x] = cli[th] => x = th,
         ~Online(cli[th]), \A c \in Clients : Online(c)' <=> Online(c)
  PROVE  Holders(steps)' = Holders(steps) \ {cli[th]}
BY DEF Holders

\* Every step is one of these moves.
LEMMA PermitHolders ==
  ASSUME IInv, LoopInv, RefuseInv, WorkInv, UseSemaphore, [Next]_vars
  PROVE  PermitMoves
<1> USE ServerAssumption DEF IInv, OwnInv, TypeInv, TypeOK, NetTypes, TableTypes,
        PoolTypes, ThreadTypes, LockInv, CarriedInv, ConnInv, OwnersExclusive,
        OnlineSocketIsOpen, OnlineClients, Unassigned, Online, Connected, Owns, Closes,
        PermitSteps, CountSteps, FreshSteps, TokenSteps, CloseSteps, LockSteps, Tokens,
        NoToken, At, Goto, Enter, netVars, tableVars, poolVars, serverVars, threadVars,
        RefuseInv, WorkInv, Holders
<1>1. ASSUME NEW c \in Clients, Connect(c)
      PROVE  PermitMoves
  <2>1. \A x \in Threads : pc'[x] \in PermitSteps <=> pc[x] \in PermitSteps
    BY <1>1 DEF Connect
  <2>2. \A x \in Threads : pc[x] \in PermitSteps => cli'[x] = cli[x]
    BY <1>1 DEF Connect
  <2>3. \A d \in Clients : Online(d)' <=> Online(d)
    BY <1>1 DEF Connect
  <2>4. permits' = permits /\ (listenOpen' => listenOpen)
    BY <1>1 DEF Connect
  <2>5. \A x \in Threads : pc'[x] = "acceptAsync" <=> pc[x] = "acceptAsync"
    BY <1>1 DEF Connect
  <2>6. accepting' = accepting
    BY <1>1 DEF Connect
  <2>7. Armed' = Armed
    BY <2>5, <2>6 DEF Armed
  <2> HIDE DEF Holders, PermitSteps, Online, Armed
  <2>8. Holders(PermitSteps)' = Holders(PermitSteps)
    BY <2>1, <2>2, <2>3, HoldersFrame
  <2> QED  BY <2>4, <2>7, <2>8 DEF PermitMoves
<1>2. ASSUME NEW c \in Clients, Leave(c)
      PROVE  PermitMoves
  <2>1. \A x \in Threads : pc'[x] \in PermitSteps <=> pc[x] \in PermitSteps
    BY <1>2 DEF Leave
  <2>2. \A x \in Threads : pc[x] \in PermitSteps => cli'[x] = cli[x]
    BY <1>2 DEF Leave
  <2>3. \A d \in Clients : Online(d)' <=> Online(d)
    BY <1>2 DEF Leave
  <2>4. permits' = permits /\ (listenOpen' => listenOpen)
    BY <1>2 DEF Leave
  <2>5. \A x \in Threads : pc'[x] = "acceptAsync" <=> pc[x] = "acceptAsync"
    BY <1>2 DEF Leave
  <2>6. accepting' = accepting
    BY <1>2 DEF Leave
  <2>7. Armed' = Armed
    BY <2>5, <2>6 DEF Armed
  <2> HIDE DEF Holders, PermitSteps, Online, Armed
  <2>8. Holders(PermitSteps)' = Holders(PermitSteps)
    BY <2>1, <2>2, <2>3, HoldersFrame
  <2> QED  BY <2>4, <2>7, <2>8 DEF PermitMoves
<1>3. ASSUME NEW th \in Threads, NEW c \in Clients, AcceptCompleted(th, c)
      PROVE  PermitMoves
  <2>1. c \notin Holders(PermitSteps)
    BY <1>3 DEF AcceptCompleted
  <2>2. Holders(PermitSteps)' = Holders(PermitSteps) \cup {c}
    BY <1>3 DEF AcceptCompleted
  <2>3. UNCHANGED <<permits, listenOpen>>
    BY <1>3 DEF AcceptCompleted
  <2>4. Armed
    BY <1>3 DEF AcceptCompleted, Armed
  <2>5. ~Armed'
    BY <1>3 DEF AcceptCompleted, Armed, LoopInv, InLoop, AcceptSteps
  <2> HIDE DEF Holders, Armed
  <2> QED  BY <2>1, <2>2, <2>3, <2>4, <2>5 DEF PermitMoves
<1>4. ASSUME NEW th \in Threads, AcceptFailed(th)
      PROVE  PermitMoves
  <2>1. \A x \in Threads : pc'[x] \in PermitSteps <=> pc[x] \in PermitSteps
    BY <1>4 DEF AcceptFailed
  <2>2. \A x \in Threads : pc[x] \in PermitSteps => cli'[x] = cli[x]
    BY <1>4 DEF AcceptFailed
  <2>3. \A c \in Clients : Online(c)' <=> Online(c)
    BY <1>4 DEF AcceptFailed
  <2>4. Armed
    BY <1>4 DEF AcceptFailed, Armed
  <2>5. ~Armed'
    BY <1>4 DEF AcceptFailed, Armed, LoopInv, InLoop, AcceptSteps
  <2>6. Release /\ listenOpen' = listenOpen
    BY <1>4 DEF AcceptFailed
  <2> HIDE DEF Holders, PermitSteps, Online, Armed, Release
  <2>7. Holders(PermitSteps)' = Holders(PermitSteps)
    BY <2>1, <2>2, <2>3, HoldersFrame
  <2> QED  BY <2>4, <2>5, <2>6, <2>7 DEF PermitMoves
<1>5. ASSUME NEW th \in Threads, PopReadArgs(th)
      PROVE  PermitMoves
  <2>1. \A x \in Threads : pc'[x] \in PermitSteps <=> pc[x] \in PermitSteps
    BY <1>5 DEF PopReadArgs
  <2>2. \A x \in Threads : pc[x] \in PermitSteps => cli'[x] = cli[x]
    BY <1>5 DEF PopReadArgs
  <2>3. \A c \in Clients : Online(c)' <=> Online(c)
    BY <1>5 DEF PopReadArgs
  <2>4. permits' = permits /\ (listenOpen' => listenOpen)
    BY <1>5 DEF PopReadArgs
  <2>5. \A x \in Threads : pc'[x] = "acceptAsync" <=> pc[x] = "acceptAsync"
    BY <1>5 DEF PopReadArgs
  <2>6. accepting' = accepting
    BY <1>5 DEF PopReadArgs
  <2>7. Armed' = Armed
    BY <2>5, <2>6 DEF Armed
  <2> HIDE DEF Holders, PermitSteps, Online, Armed
  <2>8. Holders(PermitSteps)' = Holders(PermitSteps)
    BY <2>1, <2>2, <2>3, HoldersFrame
  <2> QED  BY <2>4, <2>7, <2>8 DEF PermitMoves
<1>6. ASSUME NEW th \in Threads, Reject(th)
      PROVE  PermitMoves
  <2>1. \A x \in Threads : pc'[x] \in PermitSteps <=> pc[x] \in PermitSteps
    BY <1>6 DEF Reject
  <2>2. \A x \in Threads : pc[x] \in PermitSteps => cli'[x] = cli[x]
    BY <1>6 DEF Reject
  <2>3. \A c \in Clients : Online(c)' <=> Online(c)
    BY <1>6 DEF Reject
  <2>4. permits' = permits /\ (listenOpen' => listenOpen)
    BY <1>6 DEF Reject
  <2>5. \A x \in Threads : pc'[x] = "acceptAsync" <=> pc[x] = "acceptAsync"
    BY <1>6 DEF Reject
  <2>6. accepting' = accepting
    BY <1>6 DEF Reject
  <2>7. Armed' = Armed
    BY <2>5, <2>6 DEF Armed
  <2> HIDE DEF Holders, PermitSteps, Online, Armed
  <2>8. Holders(PermitSteps)' = Holders(PermitSteps)
    BY <2>1, <2>2, <2>3, HoldersFrame
  <2> QED  BY <2>4, <2>7, <2>8 DEF PermitMoves
<1>7. ASSUME NEW th \in Threads, AssignToken(th)
      PROVE  PermitMoves
  <2>1. \A x \in Threads : pc'[x] \in PermitSteps <=> pc[x] \in PermitSteps
    BY <1>7 DEF AssignToken
  <2>2. \A x \in Threads : pc[x] \in PermitSteps => cli'[x] = cli[x]
    BY <1>7 DEF AssignToken
  <2>3. \A c \in Clients : Online(c)' <=> Online(c)
    BY <1>7 DEF AssignToken
  <2>4. permits' = permits /\ (listenOpen' => listenOpen)
    BY <1>7 DEF AssignToken
  <2>5. \A x \in Threads : pc'[x] = "acceptAsync" <=> pc[x] = "acceptAsync"
    BY <1>7 DEF AssignToken
  <2>6. accepting' = accepting
    BY <1>7 DEF AssignToken
  <2>7. Armed' = Armed
    BY <2>5, <2>6 DEF Armed
  <2> HIDE DEF Holders, PermitSteps, Online, Armed
  <2>8. Holders(PermitSteps)' = Holders(PermitSteps)
    BY <2>1, <2>2, <2>3, HoldersFrame
  <2> QED  BY <2>4, <2>7, <2>8 DEF PermitMoves
<1>8. ASSUME NEW th \in Threads, Register(th)
      PROVE  PermitMoves
  <2>1. Holders(PermitSteps)' = Holders(PermitSteps)
    BY <1>8 DEF Register
  <2>2. permits' = permits /\ listenOpen' = listenOpen
    BY <1>8 DEF Register
  <2>3. \A x \in Threads : pc'[x] = "acceptAsync" <=> pc[x] = "acceptAsync"
    BY <1>8 DEF Register
  <2>4. Armed' = Armed
    BY <1>8, <2>3 DEF Register, Armed
  <2> HIDE DEF Holders, Armed
  <2> QED  BY <2>1, <2>2, <2>4 DEF PermitMoves
<1>9. ASSUME NEW th \in Threads, RegisterIP(th)
      PROVE  PermitMoves
  <2>1. \A x \in Threads : pc'[x] \in PermitSteps <=> pc[x] \in PermitSteps
    BY <1>9 DEF RegisterIP
  <2>2. \A x \in Threads : pc[x] \in PermitSteps => cli'[x] = cli[x]
    BY <1>9 DEF RegisterIP
  <2>3. \A c \in Clients : Online(c)' <=> Online(c)
    BY <1>9 DEF RegisterIP
  <2>4. permits' = permits /\ (listenOpen' => listenOpen)
    BY <1>9 DEF RegisterIP
  <2>5. \A x \in Threads : pc'[x] = "acceptAsync" <=> pc[x] = "acceptAsync"
    BY <1>9 DEF RegisterIP
  <2>6. accepting' = accepting
    BY <1>9 DEF RegisterIP
  <2>7. Armed' = Armed
    BY <2>5, <2>6 DEF Armed
  <2> HIDE DEF Holders, PermitSteps, Online, Armed
  <2>8. Holders(PermitSteps)' = Holders(PermitSteps)
    BY <2>1, <2>2, <2>3, HoldersFrame
  <2> QED  BY <2>4, <2>7, <2>8 DEF PermitMoves
<1>10. ASSUME NEW th \in Threads, AcceptConnected(th)
      PROVE  PermitMoves
  <2>1. \A x \in Threads : pc'[x] \in PermitSteps <=> pc[x] \in PermitSteps
    BY <1>10 DEF AcceptConnected, CheckConnected
  <2>2. \A x \in Threads : pc[x] \in PermitSteps => cli'[x] = cli[x]
    BY <1>10 DEF AcceptConnected, CheckConnected
  <2>3. \A c \in Clients : Online(c)' <=> Online(c)
    BY <1>10 DEF AcceptConnected, CheckConnected
  <2>4. permits' = permits /\ (listenOpen' => listenOpen)
    BY <1>10 DEF AcceptConnected, CheckConnected
  <2>5. \A x \in Threads : pc'[x] = "acceptAsync" <=> pc[x] = "acceptAsync"
    BY <1>10 DEF AcceptConnected, CheckConnected
  <2>6. accepting' = accepting
    BY <1>10 DEF AcceptConnected, CheckConnected
  <2>7. Armed' = Armed
    BY <2>5, <2>6 DEF Armed
  <2> HIDE DEF Holders, PermitSteps, Online, Armed
  <2>8. Holders(PermitSteps)' = Holders(PermitSteps)
    BY <2>1, <2>2, <2>3, HoldersFrame
  <2> QED  BY <2>4, <2>7, <2>8 DEF PermitMoves
<1>11. ASSUME NEW th \in Threads, AcceptReceive(th)
      PROVE  PermitMoves
  <2>1. Receive(th, "receive", "startAccept")
    BY <1>11 DEF AcceptReceive
  <2>2. /\ pc[th] = "receive" /\ tok[th] \in Tokens /\ conn[tok[th]] \in Clients
        /\ UNCHANGED <<accepting, sock, peerGone, tableVars, poolVars, serverVars>>
    BY <2>1, ReceiveEffect
  <2>3. CASE Goto(th, "startAccept")
    <3>1. \A x \in Threads : pc'[x] \in PermitSteps <=> pc[x] \in PermitSteps
      BY <2>2, <2>3
    <3>2. \A x \in Threads : pc[x] \in PermitSteps => cli'[x] = cli[x]
      BY <2>2, <2>3
    <3>3. \A c \in Clients : Online(c)' <=> Online(c)
      BY <2>2, <2>3
    <3>4. permits' = permits /\ (listenOpen' => listenOpen)
      BY <2>2, <2>3
    <3>5. \A x \in Threads : pc'[x] = "acceptAsync" <=> pc[x] = "acceptAsync"
      BY <2>2, <2>3
    <3>6. accepting' = accepting
      BY <2>2, <2>3
    <3>7. Armed' = Armed
      BY <3>5, <3>6 DEF Armed
    <3> HIDE DEF Holders, PermitSteps, Online, Armed
    <3>8. Holders(PermitSteps)' = Holders(PermitSteps)
      BY <3>1, <3>2, <3>3, HoldersFrame
    <3> QED  BY <3>4, <3>7, <3>8 DEF PermitMoves
  <2>4. CASE Enter(th, "dropIP", tok[th], conn[tok[th]], "startAccept")
    <3>1. \A x \in Threads : pc'[x] \in PermitSteps <=> pc[x] \in PermitSteps
      BY <2>2, <2>4
    <3>2. \A x \in Threads : pc[x] \in PermitSteps => cli'[x] = cli[x]
      BY <2>2, <2>4
    <3>3. \A c \in Clients : Online(c)' <=> Online(c)
      BY <2>2, <2>4
    <3>4. permits' = permits /\ (listenOpen' => listenOpen)
      BY <2>2, <2>4
    <3>5. \A x \in Threads : pc'[x] = "acceptAsync" <=> pc[x] = "acceptAsync"
      BY <2>2, <2>4
    <3>6. accepting' = accepting
      BY <2>2, <2>4
    <3>7. Armed' = Armed
      BY <3>5, <3>6 DEF Armed
    <3> HIDE DEF Holders, PermitSteps, Online, Armed
    <3>8. Holders(PermitSteps)' = Holders(PermitSteps)
      BY <3>1, <3>2, <3>3, HoldersFrame
    <3> QED  BY <3>4, <3>7, <3>8 DEF PermitMoves
  <2> QED  BY <2>1, <2>3, <2>4, ReceiveEffect
<1>12. ASSUME NEW th \in Threads, StartAccept(th)
      PROVE  PermitMoves
  <2>1. \A x \in Threads : pc'[x] \in PermitSteps <=> pc[x] \in PermitSteps
    BY <1>12 DEF StartAccept
  <2>2. \A x \in Threads : pc[x] \in PermitSteps => cli'[x] = cli[x]
    BY <1>12 DEF StartAccept
  <2>3. \A c \in Clients : Online(c)' <=> Online(c)
    BY <1>12 DEF StartAccept
  <2>4. ~Armed
    BY <1>12 DEF StartAccept, Armed, LoopInv, InLoop, AcceptSteps
  <2>5. Armed'
    BY <1>12 DEF StartAccept, Armed
  <2>6. permits > 0 /\ permits' = permits - 1 /\ listenOpen' = listenOpen
    BY <1>12 DEF StartAccept
  <2> HIDE DEF Holders, PermitSteps, Online, Armed, Release
  <2>7. Holders(PermitSteps)' = Holders(PermitSteps)
    BY <2>1, <2>2, <2>3, HoldersFrame
  <2> QED  BY <2>4, <2>5, <2>6, <2>7 DEF PermitMoves
<1>13. ASSUME NEW th \in Threads, AcceptAsync(th)
      PROVE  PermitMoves
  <2>1. \A x \in Threads : pc'[x] \in PermitSteps <=> pc[x] \in PermitSteps
    BY <1>13 DEF AcceptAsync
  <2>2. \A x \in Threads : pc[x] \in PermitSteps => cli'[x] = cli[x]
    BY <1>13 DEF AcceptAsync
  <2>3. \A c \in Clients : Online(c)' <=> Online(c)
    BY <1>13 DEF AcceptAsync
  <2>4. Armed
    BY <1>13 DEF AcceptAsync, Armed
  <2>5. UNCHANGED <<permits, listenOpen>> /\ accepting' = listenOpen
    BY <1>13 DEF AcceptAsync
  <2>6. \A x \in Threads : pc'[x] # "acceptAsync"
    BY <1>13 DEF AcceptAsync, LoopInv, InLoop, AcceptSteps
  <2>7. Armed' = listenOpen
    BY <2>5, <2>6 DEF Armed
  <2> HIDE DEF Holders, PermitSteps, Online, Armed, Release
  <2>8. Holders(PermitSteps)' = Holders(PermitSteps)
    BY <2>1, <2>2, <2>3, HoldersFrame
  <2> QED  BY <2>4, <2>5, <2>7, <2>8 DEF PermitMoves
<1>14. ASSUME NEW th \in Threads, RefuseClose(th)
      PROVE  PermitMoves
  <2>1. \A x \in Threads : pc'[x] \in PermitSteps <=> pc[x] \in PermitSteps
    BY <1>14 DEF RefuseClose
  <2>2. \A x \in Threads : pc[x] \in PermitSteps => cli'[x] = cli[x]
    BY <1>14 DEF RefuseClose
  <2>3. \A c \in Clients : Online(c)' <=> Online(c)
    BY <1>14 DEF RefuseClose
  <2>4. permits' = permits /\ (listenOpen' => listenOpen)
    BY <1>14 DEF RefuseClose
  <2>5. \A x \in Threads : pc'[x] = "acceptAsync" <=> pc[x] = "acceptAsync"
    BY <1>14 DEF RefuseClose
  <2>6. accepting' = accepting
    BY <1>14 DEF RefuseClose
  <2>7. Armed' = Armed
    BY <2>5, <2>6 DEF Armed
  <2> HIDE DEF Holders, PermitSteps, Online, Armed
  <2>8. Holders(PermitSteps)' = Holders(PermitSteps)
    BY <2>1, <2>2, <2>3, HoldersFrame
  <2> QED  BY <2>4, <2>7, <2>8 DEF PermitMoves
<1>15. ASSUME NEW th \in Threads, RefuseDecrement(th)
      PROVE  PermitMoves
  <2>1. \A x \in Threads : pc'[x] \in PermitSteps <=> pc[x] \in PermitSteps
    BY <1>15 DEF RefuseDecrement
  <2>2. \A x \in Threads : pc[x] \in PermitSteps => cli'[x] = cli[x]
    BY <1>15 DEF RefuseDecrement
  <2>3. \A c \in Clients : Online(c)' <=> Online(c)
    BY <1>15 DEF RefuseDecrement
  <2>4. permits' = permits /\ (listenOpen' => listenOpen)
    BY <1>15 DEF RefuseDecrement
  <2>5. \A x \in Threads : pc'[x] = "acceptAsync" <=> pc[x] = "acceptAsync"
    BY <1>15 DEF RefuseDecrement
  <2>6. accepting' = accepting
    BY <1>15 DEF RefuseDecrement
  <2>7. Armed' = Armed
    BY <2>5, <2>6 DEF Armed
  <2> HIDE DEF Holders, PermitSteps, Online, Armed
  <2>8. Holders(PermitSteps)' = Holders(PermitSteps)
    BY <2>1, <2>2, <2>3, HoldersFrame
  <2> QED  BY <2>4, <2>7, <2>8 DEF PermitMoves
<1>16. ASSUME NEW th \in Threads, RefuseRelease(th)
      PROVE  PermitMoves
  <2>1. cli[th] \in Clients /\ cli[th] \in Holders(PermitSteps) /\ ~Online(cli[th])
    BY <1>16 DEF RefuseRelease
  <2>2. Holders(PermitSteps)' = Holders(PermitSteps) \ {cli[th]}
    <3>1. pc[th] \in PermitSteps /\ pc'[th] \notin PermitSteps
      BY <1>16 DEF RefuseRelease
    <3>2. \A x \in Threads \ {th} : pc'[x] = pc[x] /\ cli'[x] = cli[x]
      BY <1>16 DEF RefuseRelease
    <3>3. \A x \in Threads : pc[x] \in PermitSteps /\ cli[x] = cli[th] => x = th
      BY <3>1
    <3>4. \A d \in Clients : Online(d)' <=> Online(d)
      BY <1>16 DEF RefuseRelease
    <3> HIDE DEF Holders, PermitSteps, Online, IInv, WorkInv, RefuseInv
    <3> QED  BY <2>1, <3>1, <3>2, <3>3, <3>4, HoldersLess
  <2>3. Release /\ listenOpen' = listenOpen
    BY <1>16 DEF RefuseRelease
  <2>4. \A x \in Threads : pc'[x] = "acceptAsync" <=> pc[x] = "acceptAsync"
    BY <1>16 DEF RefuseRelease
  <2>5. Armed' = Armed
    BY <1>16, <2>4 DEF RefuseRelease, Armed
  <2> HIDE DEF Holders, PermitSteps, Armed, Release
  <2> QED  BY <2>1, <2>2, <2>3, <2>5 DEF PermitMoves
<1>17. ASSUME NEW th \in Threads, NEW t \in Tokens, ReceiveData(th, t)
      PROVE  PermitMoves
  <2>1. \A x \in Threads : pc'[x] \in PermitSteps <=> pc[x] \in PermitSteps
    BY <1>17 DEF ReceiveData
  <2>2. \A x \in Threads : pc[x] \in PermitSteps => cli'[x] = cli[x]
    BY <1>17 DEF ReceiveData
  <2>3. \A c \in Clients : Online(c)' <=> Online(c)
    BY <1>17 DEF ReceiveData
  <2>4. permits' = permits /\ (listenOpen' => listenOpen)
    BY <1>17 DEF ReceiveData
  <2>5. \A x \in Threads : pc'[x] = "acceptAsync" <=> pc[x] = "acceptAsync"
    BY <1>17 DEF ReceiveData
  <2>6. accepting' = accepting
    BY <1>17 DEF ReceiveData
  <2>7. Armed' = Armed
    BY <2>5, <2>6 DEF Armed
  <2> HIDE DEF Holders, PermitSteps, Online, Armed
  <2>8. Holders(PermitSteps)' = Holders(PermitSteps)
    BY <2>1, <2>2, <2>3, HoldersFrame
  <2> QED  BY <2>4, <2>7, <2>8 DEF PermitMoves
<1>18. ASSUME NEW th \in Threads, NEW t \in Tokens, ReceiveEnd(th, t)
      PROVE  PermitMoves
  <2>1. \A x \in Threads : pc'[x] \in PermitSteps <=> pc[x] \in PermitSteps
    BY <1>18 DEF ReceiveEnd
  <2>2. \A x \in Threads : pc[x] \in PermitSteps => cli'[x] = cli[x]
    BY <1>18 DEF ReceiveEnd
  <2>3. \A c \in Clients : Online(c)' <=> Online(c)
    BY <1>18 DEF ReceiveEnd
  <2>4. permits' = permits /\ (listenOpen' => listenOpen)
    BY <1>18 DEF ReceiveEnd
  <2>5. \A x \in Threads : pc'[x] = "acceptAsync" <=> pc[x] = "acceptAsync"
    BY <1>18 DEF ReceiveEnd
  <2>6. accepting' = accepting
    BY <1>18 DEF ReceiveEnd
  <2>7. Armed' = Armed
    BY <2>5, <2>6 DEF Armed
  <2> HIDE DEF Holders, PermitSteps, Online, Armed
  <2>8. Holders(PermitSteps)' = Holders(PermitSteps)
    BY <2>1, <2>2, <2>3, HoldersFrame
  <2> QED  BY <2>4, <2>7, <2>8 DEF PermitMoves
<1>19. ASSUME NEW th \in Threads, ReceivedConnected(th)
      PROVE  PermitMoves
  <2>1. \A x \in Threads : pc'[x] \in PermitSteps <=> pc[x] \in PermitSteps
    BY <1>19 DEF ReceivedConnected, CheckConnected
  <2>2. \A x \in Threads : pc[x] \in PermitSteps => cli'[x] = cli[x]
    BY <1>19 DEF ReceivedConnected, CheckConnected
  <2>3. \A c \in Clients : Online(c)' <=> Online(c)
    BY <1>19 DEF ReceivedConnected, CheckConnected
  <2>4. permits' = permits /\ (listenOpen' => listenOpen)
    BY <1>19 DEF ReceivedConnected, CheckConnected
  <2>5. \A x \in Threads : pc'[x] = "acceptAsync" <=> pc[x] = "acceptAsync"
    BY <1>19 DEF ReceivedConnected, CheckConnected
  <2>6. accepting' = accepting
    BY <1>19 DEF ReceivedConnected, CheckConnected
  <2>7. Armed' = Armed
    BY <2>5, <2>6 DEF Armed
  <2> HIDE DEF Holders, PermitSteps, Online, Armed
  <2>8. Holders(PermitSteps)' = Holders(PermitSteps)
    BY <2>1, <2>2, <2>3, HoldersFrame
  <2> QED  BY <2>4, <2>7, <2>8 DEF PermitMoves
<1>20. ASSUME NEW th \in Threads, ReceiveAgain(th)
      PROVE  PermitMoves
  <2>1. Receive(th, "rearm", "idle")
    BY <1>20 DEF ReceiveAgain
  <2>2. /\ pc[th] = "rearm" /\ tok[th] \in Tokens /\ conn[tok[th]] \in Clients
        /\ UNCHANGED <<accepting, sock, peerGone, tableVars, poolVars, serverVars>>
    BY <2>1, ReceiveEffect
  <2>3. CASE Goto(th, "idle")
    <3>1. \A x \in Threads : pc'[x] \in PermitSteps <=> pc[x] \in PermitSteps
      BY <2>2, <2>3
    <3>2. \A x \in Threads : pc[x] \in PermitSteps => cli'[x] = cli[x]
      BY <2>2, <2>3
    <3>3. \A c \in Clients : Online(c)' <=> Online(c)
      BY <2>2, <2>3
    <3>4. permits' = permits /\ (listenOpen' => listenOpen)
      BY <2>2, <2>3
    <3>5. \A x \in Threads : pc'[x] = "acceptAsync" <=> pc[x] = "acceptAsync"
      BY <2>2, <2>3
    <3>6. accepting' = accepting
      BY <2>2, <2>3
    <3>7. Armed' = Armed
      BY <3>5, <3>6 DEF Armed
    <3> HIDE DEF Holders, PermitSteps, Online, Armed
    <3>8. Holders(PermitSteps)' = Holders(PermitSteps)
      BY <3>1, <3>2, <3>3, HoldersFrame
    <3> QED  BY <3>4, <3>7, <3>8 DEF PermitMoves
  <2>4. CASE Enter(th, "dropIP", tok[th], conn[tok[th]], "idle")
    <3>1. \A x \in Threads : pc'[x] \in PermitSteps <=> pc[x] \in PermitSteps
      BY <2>2, <2>4
    <3>2. \A x \in Threads : pc[x] \in PermitSteps => cli'[x] = cli[x]
      BY <2>2, <2>4
    <3>3. \A c \in Clients : Online(c)' <=> Online(c)
      BY <2>2, <2>4
    <3>4. permits' = permits /\ (listenOpen' => listenOpen)
      BY <2>2, <2>4
    <3>5. \A x \in Threads : pc'[x] = "acceptAsync" <=> pc[x] = "acceptAsync"
      BY <2>2, <2>4
    <3>6. accepting' = accepting
      BY <2>2, <2>4
    <3>7. Armed' = Armed
      BY <3>5, <3>6 DEF Armed
    <3> HIDE DEF Holders, PermitSteps, Online, Armed
    <3>8. Holders(PermitSteps)' = Holders(PermitSteps)
      BY <3>1, <3>2, <3>3, HoldersFrame
    <3> QED  BY <3>4, <3>7, <3>8 DEF PermitMoves
  <2> QED  BY <2>1, <2>3, <2>4, ReceiveEffect
<1>21. ASSUME NEW th \in Threads, NEW c \in Clients, Disconnect(th, c)
      PROVE  PermitMoves
  <2>1. \A x \in Threads : pc'[x] \in PermitSteps <=> pc[x] \in PermitSteps
    BY <1>21 DEF Disconnect
  <2>2. \A x \in Threads : pc[x] \in PermitSteps => cli'[x] = cli[x]
    BY <1>21 DEF Disconnect
  <2>3. \A d \in Clients : Online(d)' <=> Online(d)
    BY <1>21 DEF Disconnect
  <2>4. permits' = permits /\ (listenOpen' => listenOpen)
    BY <1>21 DEF Disconnect
  <2>5. \A x \in Threads : pc'[x] = "acceptAsync" <=> pc[x] = "acceptAsync"
    BY <1>21 DEF Disconnect
  <2>6. accepting' = accepting
    BY <1>21 DEF Disconnect
  <2>7. Armed' = Armed
    BY <2>5, <2>6 DEF Armed
  <2> HIDE DEF Holders, PermitSteps, Online, Armed
  <2>8. Holders(PermitSteps)' = Holders(PermitSteps)
    BY <2>1, <2>2, <2>3, HoldersFrame
  <2> QED  BY <2>4, <2>7, <2>8 DEF PermitMoves
<1>22. ASSUME NEW th \in Threads, DropIP(th)
      PROVE  PermitMoves
  <2>1. \A x \in Threads : pc'[x] \in PermitSteps <=> pc[x] \in PermitSteps
    BY <1>22 DEF DropIP
  <2>2. \A x \in Threads : pc[x] \in PermitSteps => cli'[x] = cli[x]
    BY <1>22 DEF DropIP
  <2>3. \A c \in Clients : Online(c)' <=> Online(c)
    BY <1>22 DEF DropIP
  <2>4. permits' = permits /\ (listenOpen' => listenOpen)
    BY <1>22 DEF DropIP
  <2>5. \A x \in Threads : pc'[x] = "acceptAsync" <=> pc[x] = "acceptAsync"
    BY <1>22 DEF DropIP
  <2>6. accepting' = accepting
    BY <1>22 DEF DropIP
  <2>7. Armed' = Armed
    BY <2>5, <2>6 DEF Armed
  <2> HIDE DEF Holders, PermitSteps, Online, Armed
  <2>8. Holders(PermitSteps)' = Holders(PermitSteps)
    BY <2>1, <2>2, <2>3, HoldersFrame
  <2> QED  BY <2>4, <2>7, <2>8 DEF PermitMoves
<1>23. ASSUME NEW th \in Threads, Drop(th)
      PROVE  PermitMoves
  <2>1. /\ lock = NoThread /\ swept = {} /\ pc[th] = "drop"
        /\ tok[th] \in Tokens /\ conn[tok[th]] \in Clients
        /\ UNCHANGED <<netVars, conn, swept, singleIP, poolVars, serverVars>>
    BY <1>23, DropEffect
  <2>2. CASE /\ tokens[conn[tok[th]]] = tok[th]
             /\ tokens' = [tokens EXCEPT ![conn[tok[th]]] = NoToken]
             /\ Enter(th, "close", tok[th], conn[tok[th]], after[th])
    <3>1. Holders(PermitSteps)' = Holders(PermitSteps)
      BY <2>1, <2>2
    <3>2. permits' = permits /\ listenOpen' = listenOpen
      BY <2>1, <2>2
    <3>3. \A x \in Threads : pc'[x] = "acceptAsync" <=> pc[x] = "acceptAsync"
      BY <2>1, <2>2
    <3>4. Armed' = Armed
      BY <2>1, <2>2, <3>3 DEF Armed
    <3> HIDE DEF Holders, Armed
    <3> QED  BY <3>1, <3>2, <3>4 DEF PermitMoves
  <2>3. CASE /\ UNCHANGED <<tokens, lock>> /\ Goto(th, after[th])
             /\ after[th] \in {"idle", "startAccept"}
    <3>1. \A x \in Threads : pc'[x] \in PermitSteps <=> pc[x] \in PermitSteps
      BY <2>1, <2>3
    <3>2. \A x \in Threads : pc[x] \in PermitSteps => cli'[x] = cli[x]
      BY <2>1, <2>3
    <3>3. \A c \in Clients : Online(c)' <=> Online(c)
      BY <2>1, <2>3
    <3>4. permits' = permits /\ (listenOpen' => listenOpen)
      BY <2>1, <2>3
    <3>5. \A x \in Threads : pc'[x] = "acceptAsync" <=> pc[x] = "acceptAsync"
      BY <2>1, <2>3
    <3>6. accepting' = accepting
      BY <2>1, <2>3
    <3>7. Armed' = Armed
      BY <3>5, <3>6 DEF Armed
    <3> HIDE DEF Holders, PermitSteps, Online, Armed
    <3>8. Holders(PermitSteps)' = Holders(PermitSteps)
      BY <3>1, <3>2, <3>3, HoldersFrame
    <3> QED  BY <3>4, <3>7, <3>8 DEF PermitMoves
  <2> QED  BY <1>23, <2>2, <2>3, DropEffect
<1>24. ASSUME NEW th \in Threads, CloseSocket(th)
      PROVE  PermitMoves
  <2>1. \A x \in Threads : pc'[x] \in PermitSteps <=> pc[x] \in PermitSteps
    BY <1>24 DEF CloseSocket
  <2>2. \A x \in Threads : pc[x] \in PermitSteps => cli'[x] = cli[x]
    BY <1>24 DEF CloseSocket
  <2>3. \A c \in Clients : Online(c)' <=> Online(c)
    BY <1>24 DEF CloseSocket
  <2>4. permits' = permits /\ (listenOpen' => listenOpen)
    BY <1>24 DEF CloseSocket
  <2>5. \A x \in Threads : pc'[x] = "acceptAsync" <=> pc[x] = "acceptAsync"
    BY <1>24 DEF CloseSocket
  <2>6. accepting' = accepting
    BY <1>24 DEF CloseSocket
  <2>7. Armed' = Armed
    BY <2>5, <2>6 DEF Armed
  <2> HIDE DEF Holders, PermitSteps, Online, Armed
  <2>8. Holders(PermitSteps)' = Holders(PermitSteps)
    BY <2>1, <2>2, <2>3, HoldersFrame
  <2> QED  BY <2>4, <2>7, <2>8 DEF PermitMoves
<1>25. ASSUME NEW th \in Threads, Decrement(th)
      PROVE  PermitMoves
  <2>1. \A x \in Threads : pc'[x] \in PermitSteps <=> pc[x] \in PermitSteps
    BY <1>25 DEF Decrement
  <2>2. \A x \in Threads : pc[x] \in PermitSteps => cli'[x] = cli[x]
    BY <1>25 DEF Decrement
  <2>3. \A c \in Clients : Online(c)' <=> Online(c)
    BY <1>25 DEF Decrement
  <2>4. permits' = permits /\ (listenOpen' => listenOpen)
    BY <1>25 DEF Decrement
  <2>5. \A x \in Threads : pc'[x] = "acceptAsync" <=> pc[x] = "acceptAsync"
    BY <1>25 DEF Decrement
  <2>6. accepting' = accepting
    BY <1>25 DEF Decrement
  <2>7. Armed' = Armed
    BY <2>5, <2>6 DEF Armed
  <2> HIDE DEF Holders, PermitSteps, Online, Armed
  <2>8. Holders(PermitSteps)' = Holders(PermitSteps)
    BY <2>1, <2>2, <2>3, HoldersFrame
  <2> QED  BY <2>4, <2>7, <2>8 DEF PermitMoves
<1>26. ASSUME NEW th \in Threads, ReleasePermit(th)
      PROVE  PermitMoves
  <2>1. cli[th] \in Clients /\ cli[th] \in Holders(PermitSteps) /\ ~Online(cli[th])
    BY <1>26 DEF ReleasePermit
  <2>2. Holders(PermitSteps)' = Holders(PermitSteps) \ {cli[th]}
    <3>1. pc[th] \in PermitSteps /\ pc'[th] \notin PermitSteps
      BY <1>26 DEF ReleasePermit
    <3>2. \A x \in Threads \ {th} : pc'[x] = pc[x] /\ cli'[x] = cli[x]
      BY <1>26 DEF ReleasePermit
    <3>3. \A x \in Threads : pc[x] \in PermitSteps /\ cli[x] = cli[th] => x = th
      BY <3>1
    <3>4. \A d \in Clients : Online(d)' <=> Online(d)
      BY <1>26 DEF ReleasePermit
    <3> HIDE DEF Holders, PermitSteps, Online, IInv, WorkInv, RefuseInv
    <3> QED  BY <2>1, <3>1, <3>2, <3>3, <3>4, HoldersLess
  <2>3. Release /\ listenOpen' = listenOpen
    BY <1>26 DEF ReleasePermit
  <2>4. \A x \in Threads : pc'[x] = "acceptAsync" <=> pc[x] = "acceptAsync"
    BY <1>26 DEF ReleasePermit
  <2>5. Armed' = Armed
    BY <1>26, <2>4 DEF ReleasePermit, Armed
  <2> HIDE DEF Holders, PermitSteps, Armed, Release
  <2> QED  BY <2>1, <2>2, <2>3, <2>5 DEF PermitMoves
<1>27. ASSUME NEW th \in Threads, PushReadArgs(th)
      PROVE  PermitMoves
  <2>1. \A x \in Threads : pc'[x] \in PermitSteps <=> pc[x] \in PermitSteps
    BY <1>27 DEF PushReadArgs
  <2>2. \A x \in Threads : pc[x] \in PermitSteps => cli'[x] = cli[x]
    BY <1>27 DEF PushReadArgs
  <2>3. \A c \in Clients : Online(c)' <=> Online(c)
    BY <1>27 DEF PushReadArgs
  <2>4. permits' = permits /\ (listenOpen' => listenOpen)
    BY <1>27 DEF PushReadArgs
  <2>5. \A x \in Threads : pc'[x] = "acceptAsync" <=> pc[x] = "acceptAsync"
    BY <1>27 DEF PushReadArgs
  <2>6. accepting' = accepting
    BY <1>27 DEF PushReadArgs
  <2>7. Armed' = Armed
    BY <2>5, <2>6 DEF Armed
  <2> HIDE DEF Holders, PermitSteps, Online, Armed
  <2>8. Holders(PermitSteps)' = Holders(PermitSteps)
    BY <2>1, <2>2, <2>3, HoldersFrame
  <2> QED  BY <2>4, <2>7, <2>8 DEF PermitMoves
<1>28. ASSUME NEW th \in Threads, RaiseDisconnected(th)
      PROVE  PermitMoves
  <2>1. \A x \in Threads : pc'[x] \in PermitSteps <=> pc[x] \in PermitSteps
    BY <1>28 DEF RaiseDisconnected
  <2>2. \A x \in Threads : pc[x] \in PermitSteps => cli'[x] = cli[x]
    BY <1>28 DEF RaiseDisconnected
  <2>3. \A c \in Clients : Online(c)' <=> Online(c)
    BY <1>28 DEF RaiseDisconnected
  <2>4. permits' = permits /\ (listenOpen' => listenOpen)
    BY <1>28 DEF RaiseDisconnected
  <2>5. \A x \in Threads : pc'[x] = "acceptAsync" <=> pc[x] = "acceptAsync"
    BY <1>28 DEF RaiseDisconnected
  <2>6. accepting' = accepting
    BY <1>28 DEF RaiseDisconnected
  <2>7. Armed' = Armed
    BY <2>5, <2>6 DEF Armed
  <2> HIDE DEF Holders, PermitSteps, Online, Armed
  <2>8. Holders(PermitSteps)' = Holders(PermitSteps)
    BY <2>1, <2>2, <2>3, HoldersFrame
  <2> QED  BY <2>4, <2>7, <2>8 DEF PermitMoves
<1>29. ASSUME NEW th \in Threads, StopBegin(th)
      PROVE  PermitMoves
  <2>1. \A x \in Threads : pc'[x] \in PermitSteps <=> pc[x] \in PermitSteps
    BY <1>29 DEF StopBegin
  <2>2. \A x \in Threads : pc[x] \in PermitSteps => cli'[x] = cli[x]
    BY <1>29 DEF StopBegin
  <2>3. \A c \in Clients : Online(c)' <=> Online(c)
    BY <1>29 DEF StopBegin
  <2>4. permits' = permits /\ (listenOpen' => listenOpen)
    BY <1>29 DEF StopBegin
  <2>5. \A x \in Threads : pc'[x] = "acceptAsync" <=> pc[x] = "acceptAsync"
    BY <1>29 DEF StopBegin
  <2>6. accepting' = accepting
    BY <1>29 DEF StopBegin
  <2>7. Armed' = Armed
    BY <2>5, <2>6 DEF Armed
  <2> HIDE DEF Holders, PermitSteps, Online, Armed
  <2>8. Holders(PermitSteps)' = Holders(PermitSteps)
    BY <2>1, <2>2, <2>3, HoldersFrame
  <2> QED  BY <2>4, <2>7, <2>8 DEF PermitMoves
<1>30. ASSUME NEW th \in Threads, StopLock(th)
      PROVE  PermitMoves
  <2>1. \A x \in Threads : pc'[x] \in PermitSteps <=> pc[x] \in PermitSteps
    BY <1>30 DEF StopLock
  <2>2. \A x \in Threads : pc[x] \in PermitSteps => cli'[x] = cli[x]
    BY <1>30 DEF StopLock
  <2>3. \A c \in Clients : Online(c)' <=> Online(c)
    BY <1>30 DEF StopLock
  <2>4. permits' = permits /\ (listenOpen' => listenOpen)
    BY <1>30 DEF StopLock
  <2>5. \A x \in Threads : pc'[x] = "acceptAsync" <=> pc[x] = "acceptAsync"
    BY <1>30 DEF StopLock
  <2>6. accepting' = accepting
    BY <1>30 DEF StopLock
  <2>7. Armed' = Armed
    BY <2>5, <2>6 DEF Armed
  <2> HIDE DEF Holders, PermitSteps, Online, Armed
  <2>8. Holders(PermitSteps)' = Holders(PermitSteps)
    BY <2>1, <2>2, <2>3, HoldersFrame
  <2> QED  BY <2>4, <2>7, <2>8 DEF PermitMoves
<1>31. ASSUME NEW th \in Threads, NEW c \in Clients, StopNext(th, c)
      PROVE  PermitMoves
  <2>1. Holders(PermitSteps)' = Holders(PermitSteps)
    BY <1>31 DEF StopNext
  <2>2. permits' = permits /\ listenOpen' = listenOpen
    BY <1>31 DEF StopNext
  <2>3. \A x \in Threads : pc'[x] = "acceptAsync" <=> pc[x] = "acceptAsync"
    BY <1>31 DEF StopNext
  <2>4. Armed' = Armed
    BY <1>31, <2>3 DEF StopNext, Armed
  <2> HIDE DEF Holders, Armed
  <2> QED  BY <2>1, <2>2, <2>4 DEF PermitMoves
<1>32. ASSUME NEW th \in Threads, StopClear(th)
      PROVE  PermitMoves
  <2>1. \A x \in Threads : pc'[x] \in PermitSteps <=> pc[x] \in PermitSteps
    BY <1>32 DEF StopClear
  <2>2. \A x \in Threads : pc[x] \in PermitSteps => cli'[x] = cli[x]
    BY <1>32 DEF StopClear
  <2>3. \A c \in Clients : Online(c)' <=> Online(c)
    BY <1>32 DEF StopClear
  <2>4. permits' = permits /\ (listenOpen' => listenOpen)
    BY <1>32 DEF StopClear
  <2>5. \A x \in Threads : pc'[x] = "acceptAsync" <=> pc[x] = "acceptAsync"
    BY <1>32 DEF StopClear
  <2>6. accepting' = accepting
    BY <1>32 DEF StopClear
  <2>7. Armed' = Armed
    BY <2>5, <2>6 DEF Armed
  <2> HIDE DEF Holders, PermitSteps, Online, Armed
  <2>8. Holders(PermitSteps)' = Holders(PermitSteps)
    BY <2>1, <2>2, <2>3, HoldersFrame
  <2> QED  BY <2>4, <2>7, <2>8 DEF PermitMoves
<1>33. ASSUME NEW th \in Threads, StopIP(th)
      PROVE  PermitMoves
  <2>1. \A x \in Threads : pc'[x] \in PermitSteps <=> pc[x] \in PermitSteps
    BY <1>33 DEF StopIP
  <2>2. \A x \in Threads : pc[x] \in PermitSteps => cli'[x] = cli[x]
    BY <1>33 DEF StopIP
  <2>3. \A c \in Clients : Online(c)' <=> Online(c)
    BY <1>33 DEF StopIP
  <2>4. permits' = permits /\ (listenOpen' => listenOpen)
    BY <1>33 DEF StopIP
  <2>5. \A x \in Threads : pc'[x] = "acceptAsync" <=> pc[x] = "acceptAsync"
    BY <1>33 DEF StopIP
  <2>6. accepting' = accepting
    BY <1>33 DEF StopIP
  <2>7. Armed' = Armed
    BY <2>5, <2>6 DEF Armed
  <2> HIDE DEF Holders, PermitSteps, Online, Armed
  <2>8. Holders(PermitSteps)' = Holders(PermitSteps)
    BY <2>1, <2>2, <2>3, HoldersFrame
  <2> QED  BY <2>4, <2>7, <2>8 DEF PermitMoves
<1>34. CASE UNCHANGED vars
  <2>1. \A x \in Threads : pc'[x] \in PermitSteps <=> pc[x] \in PermitSteps
    BY <1>34 DEF vars
  <2>2. \A x \in Threads : pc[x] \in PermitSteps => cli'[x] = cli[x]
    BY <1>34 DEF vars
  <2>3. \A c \in Clients : Online(c)' <=> Online(c)
    BY <1>34 DEF vars
  <2>4. permits' = permits /\ (listenOpen' => listenOpen)
    BY <1>34 DEF vars
  <2>5. \A x \in Threads : pc'[x] = "acceptAsync" <=> pc[x] = "acceptAsync"
    BY <1>34 DEF vars
  <2>6. accepting' = accepting
    BY <1>34 DEF vars
  <2>7. Armed' = Armed
    BY <2>5, <2>6 DEF Armed
  <2> HIDE DEF Holders, PermitSteps, Online, Armed
  <2>8. Holders(PermitSteps)' = Holders(PermitSteps)
    BY <2>1, <2>2, <2>3, HoldersFrame
  <2> QED  BY <2>4, <2>7, <2>8 DEF PermitMoves
<1> HIDE DEF Holders, PermitSteps, Online
<1> QED
  BY <1>1, <1>2, <1>3, <1>4, <1>5, <1>6, <1>7, <1>8, <1>9, <1>10, <1>11, <1>12, <1>13,
     <1>14, <1>15, <1>16, <1>17, <1>18, <1>19, <1>20, <1>21, <1>22, <1>23, <1>24,
     <1>25, <1>26, <1>27, <1>28, <1>29, <1>30, <1>31, <1>32, <1>33, <1>34
     DEF Next, ThreadStep, AcceptLoop, ReceiveCallback, CloseConnection, StopServer

-------------------------------------------------------------------------------
(* Counters against the clients counted *)

\* The count follows the clients counted.
LEMMA CountStep == CountInv /\ CountMoves => CountInv'
<1> SUFFICES ASSUME CountInv, CountMoves PROVE CountInv'
  OBVIOUS
<1>1. Holders(CountSteps) \subseteq Clients
  BY DEF Holders
<1>2. CASE Holders(CountSteps)' = Holders(CountSteps) /\ UNCHANGED num
  BY <1>2 DEF CountInv
<1>3. ASSUME NEW c \in Clients \ Holders(CountSteps),
             Holders(CountSteps)' = Holders(CountSteps) \cup {c}, num' = num + 1
      PROVE  CountInv'
  BY <1>1, <1>3, OneMore DEF CountInv
<1>4. ASSUME NEW c \in Holders(CountSteps),
             Holders(CountSteps)' = Holders(CountSteps) \ {c}, num' = num - 1
      PROVE  CountInv'
  BY <1>1, <1>4, OneLess DEF CountInv
<1> QED  BY <1>2, <1>3, <1>4 DEF CountMoves

\* Permits, holders and the armed accept add up after a step, too.
LEMMA PermitStep ==
  ASSUME TypeOK, listenOpen' \in BOOLEAN, UseSemaphore, PermitInv, PermitMoves
  PROVE  PermitInv'
<1> DEFINE H == Holders(PermitSteps)
           a == IF Armed THEN 1 ELSE 0
<1>1. /\ H \subseteq Clients /\ Cardinality(H) \in Nat /\ a \in {0, 1}
      /\ permits \in Nat /\ permits <= MaxConnections /\ MaxConnections \in Nat
  BY ClientSets, ServerAssumption DEF Holders, TypeOK, PoolTypes
<1>2. /\ permits + Cardinality(H) + a <= MaxConnections
      /\ listenOpen => permits + Cardinality(H) + a = MaxConnections
  BY <1>1 DEF PermitInv
<1>3. SUFFICES /\ permits' + Cardinality(H') + a' <= MaxConnections
               /\ listenOpen' => permits' + Cardinality(H') + a' = MaxConnections
  <2>1. Cardinality(H') \in Nat /\ a' \in {0, 1} /\ permits' \in Int
    <3>1. H' \subseteq Clients
      BY DEF Holders
    <3>2. permits' \in Int
      BY <1>1 DEF PermitMoves, Release
    <3> QED  BY <3>1, <3>2, ClientSets
  <2> HIDE DEF H
  <2> QED  BY <1>1, <2>1 DEF PermitInv, H
<1> HIDE DEF H
<1>4. CASE /\ H' = H /\ permits' = permits /\ Armed' = Armed
           /\ listenOpen' => listenOpen
  BY <1>1, <1>2, <1>4
<1>5. ASSUME NEW c \in Clients \ H, H' = H \cup {c}, Armed, ~Armed',
             UNCHANGED <<permits, listenOpen>>
      PROVE  /\ permits' + Cardinality(H') + a' <= MaxConnections
             /\ listenOpen' => permits' + Cardinality(H') + a' = MaxConnections
  <2>1. Cardinality(H') = Cardinality(H) + 1
    BY <1>1, <1>5, OneMore
  <2> QED  BY <1>1, <1>2, <1>5, <2>1
<1>6. ASSUME NEW c \in H, H' = H \ {c}, Release, Armed' = Armed, listenOpen' = listenOpen
      PROVE  /\ permits' + Cardinality(H') + a' <= MaxConnections
             /\ listenOpen' => permits' + Cardinality(H') + a' = MaxConnections
  <2>1. Cardinality(H') = Cardinality(H) - 1 /\ Cardinality(H') \in Nat
    BY <1>1, <1>6, OneLess, ClientSets
  <2>2. permits' = permits + 1
    BY <1>1, <1>2, <1>6, <2>1 DEF Release
  <2> QED  BY <1>1, <1>2, <1>6, <2>1, <2>2
<1>7. CASE /\ ~Armed /\ Armed' /\ permits' = permits - 1 /\ listenOpen' = listenOpen
           /\ H' = H
  BY <1>1, <1>2, <1>7
<1>8. CASE /\ Armed /\ ~Armed' /\ listenOpen' = listenOpen /\ H' = H
           /\ Release \/ (permits' = permits /\ ~listenOpen)
  <2>1. CASE Release
    <3>1. permits' = permits + 1
      BY <1>1, <1>2, <1>8, <2>1 DEF Release
    <3> QED  BY <1>1, <1>2, <1>8, <3>1
  <2>2. CASE permits' = permits /\ ~listenOpen
    BY <1>1, <1>2, <1>8, <2>2
  <2> QED  BY <1>8, <2>1, <2>2
<1> QED  BY <1>4, <1>5, <1>6, <1>7, <1>8 DEF PermitMoves, H

-------------------------------------------------------------------------------
(* Clients against read args *)

\* The clients counted that have read args of their own
Equipped ==
    {c \in Clients : \/ Online(c)
                     \/ \E th \in Threads : /\ pc[th] \in CountSteps /\ Owns(th)
                                            /\ cli[th] = c}

\* There are no more of them than read args.
LEMMA EquippedBound ==
  ASSUME IInv
  PROVE  Equipped \subseteq Clients /\ Cardinality(Equipped) <= MaxConnections
<1> DEFINE Worker(c) == CHOOSE th \in Threads :
                            pc[th] \in CountSteps /\ Owns(th) /\ cli[th] = c
           f == [c \in Equipped |-> IF Online(c) THEN tokens[c] ELSE tok[Worker(c)]]
<1>1. \A c \in Equipped : Online(c) => tokens[c] \in Tokens
  BY DEF Equipped, Online, IInv, TypeInv, TypeOK, TableTypes
<1>2. ASSUME NEW c \in Equipped, ~Online(c)
      PROVE  /\ Worker(c) \in Threads /\ Owns(Worker(c)) /\ cli[Worker(c)] = c
             /\ tok[Worker(c)] \in Tokens
  <2>1. \E th \in Threads : pc[th] \in CountSteps /\ Owns(th) /\ cli[th] = c
    BY <1>2 DEF Equipped
  <2>2. Worker(c) \in Threads /\ Owns(Worker(c)) /\ cli[Worker(c)] = c
    BY <2>1
  <2>3. \A th \in Threads : Owns(th) => tok[th] \in Tokens
    BY DEF Owns, Closes, IInv, TypeInv, TypeOK, ThreadTypes, TokenSteps
  <2> QED  BY <2>2, <2>3
<1>3. f \in [Equipped -> Tokens]
  BY <1>1, <1>2
<1>4. ASSUME NEW c \in Equipped, NEW d \in Equipped, f[c] = f[d]
      PROVE  c = d
  <2> USE DEF Equipped, IInv, OwnInv, OwnersExclusive
  <2>1. CASE Online(c) /\ Online(d)
    BY <1>4, <2>1
  <2>2. CASE Online(c) /\ ~Online(d)
    BY <1>2, <1>4, <2>2
  <2>3. CASE ~Online(c) /\ Online(d)
    BY <1>2, <1>4, <2>3
  <2>4. CASE ~Online(c) /\ ~Online(d)
    <3>1. tok[Worker(c)] = tok[Worker(d)]
      BY <1>4, <2>4
    <3>2. Worker(c) = Worker(d)
      BY <1>2, <2>4, <3>1
    <3> QED  BY <1>2, <2>4, <3>2
  <2> QED  BY <2>1, <2>2, <2>3, <2>4
<1> HIDE DEF f
<1>5. IsFiniteSet(Tokens) /\ Cardinality(Tokens) = MaxConnections
  BY FS_Interval, ServerAssumption DEF Tokens
<1>6. Equipped \subseteq Clients
  BY DEF Equipped
<1>7. IsFiniteSet(Equipped) /\ Cardinality(Equipped) \in Nat
  BY <1>6, ClientSets
<1>8. ~(Cardinality(Tokens) < Cardinality(Equipped))
  BY <1>3, <1>4, <1>5, <1>7, FS_PigeonHole
<1> QED  BY <1>5, <1>6, <1>7, <1>8, ServerAssumption

\* Only the accept loop has a client without read args, so the count is at most
\* one above the limit, and within it while the accept loop has read args.
LEMMA NumBound ==
  ASSUME IInv, LoopInv, CountInv
  PROVE  /\ num \in 0..MaxConnections + 1
         /\ \A th \in Threads : pc[th] \in {"check", "register"} /\ Owns(th)
                => num <= MaxConnections
<1> DEFINE H == Holders(CountSteps)
<1>1. /\ Equipped \subseteq Clients /\ Cardinality(Equipped) \in Nat
      /\ Cardinality(Equipped) <= MaxConnections
      /\ H \subseteq Clients /\ Cardinality(H) \in Nat /\ num = Cardinality(H)
      /\ MaxConnections \in Nat
  BY EquippedBound, ClientSets, ServerAssumption DEF Holders, CountInv
<1>2. ASSUME NEW th \in Threads, pc[th] \in CountSteps, ~Owns(th)
      PROVE  InLoop(th)
  BY <1>2 DEF CountSteps, Owns, Closes, CloseSteps, InLoop, AcceptSteps, RefuseSteps
<1>3. CASE \A th \in Threads : pc[th] \in CountSteps => Owns(th)
  <2>1. H \subseteq Equipped
    BY <1>3 DEF Holders, Equipped
  <2>2. H = Equipped
    BY <2>1 DEF Holders, Equipped
  <2> HIDE DEF H
  <2> QED  BY <1>1, <2>2
<1>4. ASSUME NEW th \in Threads, pc[th] \in CountSteps, ~Owns(th)
      PROVE  /\ num \in 0..MaxConnections + 1
             /\ \A x \in Threads : ~(pc[x] \in {"check", "register"} /\ Owns(x))
  <2>1. \A x \in Threads : pc[x] \in CountSteps /\ ~Owns(x) => x = th
    BY <1>2, <1>4 DEF LoopInv
  <2>2. \A x \in Threads : InLoop(x) => x = th
    BY <1>2, <1>4 DEF LoopInv
  <2>3. \A x \in Threads : ~(pc[x] \in {"check", "register"} /\ Owns(x))
    BY <1>4, <2>2 DEF InLoop, AcceptSteps
  <2>4. H \subseteq Equipped \cup {cli[th]} /\ Equipped \subseteq H
    BY <2>1 DEF Holders, Equipped
  <2>5. H = Equipped \/ H = Equipped \cup {cli[th]}
    BY <2>4
  <2>6. Cardinality(H) <= MaxConnections + 1
    <3> HIDE DEF H
    <3>1. CASE H = Equipped
      BY <1>1, <3>1
    <3>2. CASE H = Equipped \cup {cli[th]} /\ H # Equipped
      <4>1. cli[th] \notin Equipped /\ cli[th] \in Clients
        BY <1>1, <3>2
      <4>2. Cardinality(H) = Cardinality(Equipped) + 1
        BY <1>1, <3>2, <4>1, OneMore
      <4> QED  BY <1>1, <4>2
    <3> QED  BY <2>5, <3>1, <3>2
  <2> HIDE DEF H
  <2> QED  BY <1>1, <2>3, <2>6
<1> QED
  <2>1. CASE \E th \in Threads : pc[th] \in CountSteps /\ ~Owns(th)
    BY <1>4, <2>1
  <2>2. CASE \A th \in Threads : pc[th] \in CountSteps => Owns(th)
    <3> HIDE DEF H
    <3>1. H = Equipped
      BY <2>2 DEF H, Holders, Equipped
    <3> QED  BY <1>1, <3>1
  <2> QED  BY <2>1, <2>2

-------------------------------------------------------------------------------
(* No read args are lost *)

\* Read args stay where they are in a step that leaves pool and table alone.
LEMMA ConservedKept ==
  ASSUME ReadArgsConserved, readPool' = readPool,
         \A c \in Clients : Online(c)' <=> Online(c),
         \A c \in Clients : Online(c) => tokens'[c] = tokens[c],
         \A th \in Threads : Owns(th) => Owns(th)' /\ tok'[th] = tok[th]
  PROVE  ReadArgsConserved'
BY DEF ReadArgsConserved, InUse, Pooled

\* Every step leaves each of the read args somewhere: the only step that could drop
\* them, Reject, has none (NumBound).
LEMMA ConservedStep ==
  ASSUME IInv, LoopInv, CountInv, ReadArgsConserved, [Next]_vars
  PROVE  ReadArgsConserved'
<1> USE ServerAssumption DEF IInv, OwnInv, TypeInv, TypeOK, NetTypes, TableTypes,
        PoolTypes, ThreadTypes, LockInv, CarriedInv, ConnInv,
        Online, OnlineClients, Owns, Closes, CloseSteps, LockSteps, TokenSteps,
        FreshSteps, Unassigned, Tokens, NoToken, At, Goto, Enter, netVars, tableVars,
        poolVars, serverVars, threadVars
<1>1. ASSUME NEW c \in Clients, Connect(c)
      PROVE  ReadArgsConserved'
  <2>1. readPool' = readPool
    BY <1>1 DEF Connect
  <2>2. \A d \in Clients : Online(d)' <=> Online(d)
    BY <1>1 DEF Connect
  <2>3. \A d \in Clients : Online(d) => tokens'[d] = tokens[d]
    BY <1>1 DEF Connect
  <2>4. \A x \in Threads : Owns(x) => Owns(x)' /\ tok'[x] = tok[x]
    BY <1>1 DEF Connect
  <2> HIDE DEF Owns, Online, IInv
  <2> QED  BY <2>1, <2>2, <2>3, <2>4, ConservedKept
<1>2. ASSUME NEW c \in Clients, Leave(c)
      PROVE  ReadArgsConserved'
  <2>1. readPool' = readPool
    BY <1>2 DEF Leave
  <2>2. \A d \in Clients : Online(d)' <=> Online(d)
    BY <1>2 DEF Leave
  <2>3. \A d \in Clients : Online(d) => tokens'[d] = tokens[d]
    BY <1>2 DEF Leave
  <2>4. \A x \in Threads : Owns(x) => Owns(x)' /\ tok'[x] = tok[x]
    BY <1>2 DEF Leave
  <2> HIDE DEF Owns, Online, IInv
  <2> QED  BY <2>1, <2>2, <2>3, <2>4, ConservedKept
<1>3. ASSUME NEW th \in Threads, NEW c \in Clients, AcceptCompleted(th, c)
      PROVE  ReadArgsConserved'
  <2>1. readPool' = readPool
    BY <1>3 DEF AcceptCompleted
  <2>2. \A d \in Clients : Online(d)' <=> Online(d)
    BY <1>3 DEF AcceptCompleted
  <2>3. \A d \in Clients : Online(d) => tokens'[d] = tokens[d]
    BY <1>3 DEF AcceptCompleted
  <2>4. \A x \in Threads : Owns(x) => Owns(x)' /\ tok'[x] = tok[x]
    BY <1>3 DEF AcceptCompleted
  <2> HIDE DEF Owns, Online, IInv
  <2> QED  BY <2>1, <2>2, <2>3, <2>4, ConservedKept
<1>4. ASSUME NEW th \in Threads, AcceptFailed(th)
      PROVE  ReadArgsConserved'
  <2>1. readPool' = readPool
    BY <1>4 DEF AcceptFailed
  <2>2. \A c \in Clients : Online(c)' <=> Online(c)
    BY <1>4 DEF AcceptFailed
  <2>3. \A c \in Clients : Online(c) => tokens'[c] = tokens[c]
    BY <1>4 DEF AcceptFailed
  <2>4. \A x \in Threads : Owns(x) => Owns(x)' /\ tok'[x] = tok[x]
    BY <1>4 DEF AcceptFailed
  <2> HIDE DEF Owns, Online, IInv
  <2> QED  BY <2>1, <2>2, <2>3, <2>4, ConservedKept
<1>5. ASSUME NEW th \in Threads, PopReadArgs(th)
      PROVE  ReadArgsConserved'
  <2>1. CASE readPool = <<>>
    <3>1. Enter(th, "check", NoToken, cli[th], "idle") /\ readPool' = readPool
          /\ UNCHANGED <<tokens, swept>> /\ pc[th] = "pop"
      BY <1>5, <2>1 DEF PopReadArgs
    <3>2. readPool' = readPool
      BY <3>1
    <3>3. \A c \in Clients : Online(c)' <=> Online(c)
      BY <3>1
    <3>4. \A c \in Clients : Online(c) => tokens'[c] = tokens[c]
      BY <3>1
    <3>5. \A x \in Threads : Owns(x) => Owns(x)' /\ tok'[x] = tok[x]
      BY <3>1
    <3> HIDE DEF Owns, Online, IInv
    <3> QED  BY <3>2, <3>3, <3>4, <3>5, ConservedKept
  <2>2. CASE readPool # <<>>
    <3>1. /\ Enter(th, "check", Head(readPool), cli[th], "idle")
          /\ readPool' = Tail(readPool)
          /\ UNCHANGED <<tokens, swept>> /\ pc[th] = "pop"
      BY <1>5, <2>2 DEF PopReadArgs
    <3>2. Head(readPool) = readPool[1] /\ readPool \in Seq(Tokens) /\ Len(readPool) > 0
      BY <2>2
    <3>3. ASSUME NEW t \in Pooled PROVE t \in Pooled' \/ t = Head(readPool)
      <4>1. PICK i \in 1..Len(readPool) : t = readPool[i]
        BY DEF Pooled
      <4>2. CASE i # 1
        <5>1. i - 1 \in 1..Len(readPool') /\ readPool'[i - 1] = t
          BY <3>1, <3>2, <4>1, <4>2
        <5> QED  BY <5>1 DEF Pooled
      <4> QED  BY <3>2, <4>1, <4>2
    <3>4. Owns(th)' /\ tok'[th] = Head(readPool)
      BY <3>1, <3>2
    <3>5. \A x \in Threads : Owns(x) => Owns(x)' /\ tok'[x] = tok[x]
      BY <3>1
    <3>6. \A c \in Clients : Online(c)' = Online(c) /\ tokens'[c] = tokens[c]
      BY <3>1
    <3> HIDE DEF Owns, Online, IInv, ServerAssumption
    <3> QED  BY <3>3, <3>4, <3>5, <3>6 DEF ReadArgsConserved, InUse
  <2> QED  BY <2>1, <2>2
<1>6. ASSUME NEW th \in Threads, Reject(th)
      PROVE  ReadArgsConserved'
  <2>1. ~Owns(th)
    BY <1>6, NumBound DEF Reject
  <2>2. readPool' = readPool
    BY <1>6 DEF Reject
  <2>3. \A c \in Clients : Online(c)' <=> Online(c)
    BY <1>6 DEF Reject
  <2>4. \A c \in Clients : Online(c) => tokens'[c] = tokens[c]
    BY <1>6 DEF Reject
  <2>5. \A x \in Threads : Owns(x) => Owns(x)' /\ tok'[x] = tok[x]
    BY <1>6, <2>1 DEF Reject
  <2> HIDE DEF Owns, Online, IInv
  <2> QED  BY <2>2, <2>3, <2>4, <2>5, ConservedKept
<1>7. ASSUME NEW th \in Threads, AssignToken(th)
      PROVE  ReadArgsConserved'
  <2>1. readPool' = readPool
    BY <1>7 DEF AssignToken
  <2>2. \A c \in Clients : Online(c)' <=> Online(c)
    BY <1>7 DEF AssignToken
  <2>3. \A c \in Clients : Online(c) => tokens'[c] = tokens[c]
    BY <1>7 DEF AssignToken
  <2>4. \A x \in Threads : Owns(x) => Owns(x)' /\ tok'[x] = tok[x]
    BY <1>7 DEF AssignToken
  <2> HIDE DEF Owns, Online, IInv
  <2> QED  BY <2>1, <2>2, <2>3, <2>4, ConservedKept
<1>8. ASSUME NEW th \in Threads, Register(th)
      PROVE  ReadArgsConserved'
  <2>1. /\ pc[th] = "register" /\ lock = NoThread /\ swept = {} /\ readPool' = readPool
        /\ tok[th] \in Tokens /\ cli[th] \in Clients /\ tokens[cli[th]] = NoToken
        /\ tokens' = [tokens EXCEPT ![cli[th]] = tok[th]] /\ swept' = swept
        /\ Goto(th, "registerIP")
    BY <1>8 DEF Register
  <2>2. Online(cli[th])' /\ tokens'[cli[th]] = tok[th]
    BY <2>1
  <2>3. \A c \in Clients : Online(c) => Online(c)' /\ tokens'[c] = tokens[c]
    BY <2>1
  <2>4. \A x \in Threads : Owns(x) => x = th \/ (Owns(x)' /\ tok'[x] = tok[x])
    BY <2>1
  <2>5. readPool' = readPool
    BY <2>1
  <2> HIDE DEF Owns, Online, IInv, ServerAssumption
  <2> QED  BY <2>1, <2>2, <2>3, <2>4, <2>5 DEF ReadArgsConserved, InUse, Pooled
<1>9. ASSUME NEW th \in Threads, RegisterIP(th)
      PROVE  ReadArgsConserved'
  <2>1. readPool' = readPool
    BY <1>9 DEF RegisterIP
  <2>2. \A c \in Clients : Online(c)' <=> Online(c)
    BY <1>9 DEF RegisterIP
  <2>3. \A c \in Clients : Online(c) => tokens'[c] = tokens[c]
    BY <1>9 DEF RegisterIP
  <2>4. \A x \in Threads : Owns(x) => Owns(x)' /\ tok'[x] = tok[x]
    BY <1>9 DEF RegisterIP
  <2> HIDE DEF Owns, Online, IInv
  <2> QED  BY <2>1, <2>2, <2>3, <2>4, ConservedKept
<1>10. ASSUME NEW th \in Threads, AcceptConnected(th)
      PROVE  ReadArgsConserved'
  <2>1. readPool' = readPool
    BY <1>10 DEF AcceptConnected, CheckConnected
  <2>2. \A c \in Clients : Online(c)' <=> Online(c)
    BY <1>10 DEF AcceptConnected, CheckConnected
  <2>3. \A c \in Clients : Online(c) => tokens'[c] = tokens[c]
    BY <1>10 DEF AcceptConnected, CheckConnected
  <2>4. \A x \in Threads : Owns(x) => Owns(x)' /\ tok'[x] = tok[x]
    BY <1>10 DEF AcceptConnected, CheckConnected
  <2> HIDE DEF Owns, Online, IInv
  <2> QED  BY <2>1, <2>2, <2>3, <2>4, ConservedKept
<1>11. ASSUME NEW th \in Threads, AcceptReceive(th)
      PROVE  ReadArgsConserved'
  <2>1. Receive(th, "receive", "startAccept")
    BY <1>11 DEF AcceptReceive
  <2>2. /\ pc[th] = "receive" /\ tok[th] \in Tokens /\ conn[tok[th]] \in Clients
        /\ UNCHANGED <<accepting, sock, peerGone, tableVars, poolVars, serverVars>>
    BY <2>1, ReceiveEffect
  <2>3. CASE Goto(th, "startAccept")
    <3>1. readPool' = readPool
      BY <2>2, <2>3
    <3>2. \A c \in Clients : Online(c)' <=> Online(c)
      BY <2>2, <2>3
    <3>3. \A c \in Clients : Online(c) => tokens'[c] = tokens[c]
      BY <2>2, <2>3
    <3>4. \A x \in Threads : Owns(x) => Owns(x)' /\ tok'[x] = tok[x]
      BY <2>2, <2>3
    <3> HIDE DEF Owns, Online, IInv
    <3> QED  BY <3>1, <3>2, <3>3, <3>4, ConservedKept
  <2>4. CASE Enter(th, "dropIP", tok[th], conn[tok[th]], "startAccept")
    <3>1. readPool' = readPool
      BY <2>2, <2>4
    <3>2. \A c \in Clients : Online(c)' <=> Online(c)
      BY <2>2, <2>4
    <3>3. \A c \in Clients : Online(c) => tokens'[c] = tokens[c]
      BY <2>2, <2>4
    <3>4. \A x \in Threads : Owns(x) => Owns(x)' /\ tok'[x] = tok[x]
      BY <2>2, <2>4
    <3> HIDE DEF Owns, Online, IInv
    <3> QED  BY <3>1, <3>2, <3>3, <3>4, ConservedKept
  <2> QED  BY <2>1, <2>3, <2>4, ReceiveEffect
<1>12. ASSUME NEW th \in Threads, StartAccept(th)
      PROVE  ReadArgsConserved'
  <2>1. readPool' = readPool
    BY <1>12 DEF StartAccept
  <2>2. \A c \in Clients : Online(c)' <=> Online(c)
    BY <1>12 DEF StartAccept
  <2>3. \A c \in Clients : Online(c) => tokens'[c] = tokens[c]
    BY <1>12 DEF StartAccept
  <2>4. \A x \in Threads : Owns(x) => Owns(x)' /\ tok'[x] = tok[x]
    BY <1>12 DEF StartAccept
  <2> HIDE DEF Owns, Online, IInv
  <2> QED  BY <2>1, <2>2, <2>3, <2>4, ConservedKept
<1>13. ASSUME NEW th \in Threads, AcceptAsync(th)
      PROVE  ReadArgsConserved'
  <2>1. readPool' = readPool
    BY <1>13 DEF AcceptAsync
  <2>2. \A c \in Clients : Online(c)' <=> Online(c)
    BY <1>13 DEF AcceptAsync
  <2>3. \A c \in Clients : Online(c) => tokens'[c] = tokens[c]
    BY <1>13 DEF AcceptAsync
  <2>4. \A x \in Threads : Owns(x) => Owns(x)' /\ tok'[x] = tok[x]
    BY <1>13 DEF AcceptAsync
  <2> HIDE DEF Owns, Online, IInv
  <2> QED  BY <2>1, <2>2, <2>3, <2>4, ConservedKept
<1>14. ASSUME NEW th \in Threads, RefuseClose(th)
      PROVE  ReadArgsConserved'
  <2>1. readPool' = readPool
    BY <1>14 DEF RefuseClose
  <2>2. \A c \in Clients : Online(c)' <=> Online(c)
    BY <1>14 DEF RefuseClose
  <2>3. \A c \in Clients : Online(c) => tokens'[c] = tokens[c]
    BY <1>14 DEF RefuseClose
  <2>4. \A x \in Threads : Owns(x) => Owns(x)' /\ tok'[x] = tok[x]
    BY <1>14 DEF RefuseClose
  <2> HIDE DEF Owns, Online, IInv
  <2> QED  BY <2>1, <2>2, <2>3, <2>4, ConservedKept
<1>15. ASSUME NEW th \in Threads, RefuseDecrement(th)
      PROVE  ReadArgsConserved'
  <2>1. readPool' = readPool
    BY <1>15 DEF RefuseDecrement
  <2>2. \A c \in Clients : Online(c)' <=> Online(c)
    BY <1>15 DEF RefuseDecrement
  <2>3. \A c \in Clients : Online(c) => tokens'[c] = tokens[c]
    BY <1>15 DEF RefuseDecrement
  <2>4. \A x \in Threads : Owns(x) => Owns(x)' /\ tok'[x] = tok[x]
    BY <1>15 DEF RefuseDecrement
  <2> HIDE DEF Owns, Online, IInv
  <2> QED  BY <2>1, <2>2, <2>3, <2>4, ConservedKept
<1>16. ASSUME NEW th \in Threads, RefuseRelease(th)
      PROVE  ReadArgsConserved'
  <2>1. readPool' = readPool
    BY <1>16 DEF RefuseRelease
  <2>2. \A c \in Clients : Online(c)' <=> Online(c)
    BY <1>16 DEF RefuseRelease
  <2>3. \A c \in Clients : Online(c) => tokens'[c] = tokens[c]
    BY <1>16 DEF RefuseRelease
  <2>4. \A x \in Threads : Owns(x) => Owns(x)' /\ tok'[x] = tok[x]
    BY <1>16 DEF RefuseRelease
  <2> HIDE DEF Owns, Online, IInv
  <2> QED  BY <2>1, <2>2, <2>3, <2>4, ConservedKept
<1>17. ASSUME NEW th \in Threads, NEW t \in Tokens, ReceiveData(th, t)
      PROVE  ReadArgsConserved'
  <2>1. readPool' = readPool
    BY <1>17 DEF ReceiveData
  <2>2. \A c \in Clients : Online(c)' <=> Online(c)
    BY <1>17 DEF ReceiveData
  <2>3. \A c \in Clients : Online(c) => tokens'[c] = tokens[c]
    BY <1>17 DEF ReceiveData
  <2>4. \A x \in Threads : Owns(x) => Owns(x)' /\ tok'[x] = tok[x]
    BY <1>17 DEF ReceiveData
  <2> HIDE DEF Owns, Online, IInv
  <2> QED  BY <2>1, <2>2, <2>3, <2>4, ConservedKept
<1>18. ASSUME NEW th \in Threads, NEW t \in Tokens, ReceiveEnd(th, t)
      PROVE  ReadArgsConserved'
  <2>1. readPool' = readPool
    BY <1>18 DEF ReceiveEnd
  <2>2. \A c \in Clients : Online(c)' <=> Online(c)
    BY <1>18 DEF ReceiveEnd
  <2>3. \A c \in Clients : Online(c) => tokens'[c] = tokens[c]
    BY <1>18 DEF ReceiveEnd
  <2>4. \A x \in Threads : Owns(x) => Owns(x)' /\ tok'[x] = tok[x]
    BY <1>18 DEF ReceiveEnd
  <2> HIDE DEF Owns, Online, IInv
  <2> QED  BY <2>1, <2>2, <2>3, <2>4, ConservedKept
<1>19. ASSUME NEW th \in Threads, ReceivedConnected(th)
      PROVE  ReadArgsConserved'
  <2>1. readPool' = readPool
    BY <1>19 DEF ReceivedConnected, CheckConnected
  <2>2. \A c \in Clients : Online(c)' <=> Online(c)
    BY <1>19 DEF ReceivedConnected, CheckConnected
  <2>3. \A c \in Clients : Online(c) => tokens'[c] = tokens[c]
    BY <1>19 DEF ReceivedConnected, CheckConnected
  <2>4. \A x \in Threads : Owns(x) => Owns(x)' /\ tok'[x] = tok[x]
    BY <1>19 DEF ReceivedConnected, CheckConnected
  <2> HIDE DEF Owns, Online, IInv
  <2> QED  BY <2>1, <2>2, <2>3, <2>4, ConservedKept
<1>20. ASSUME NEW th \in Threads, ReceiveAgain(th)
      PROVE  ReadArgsConserved'
  <2>1. Receive(th, "rearm", "idle")
    BY <1>20 DEF ReceiveAgain
  <2>2. /\ pc[th] = "rearm" /\ tok[th] \in Tokens /\ conn[tok[th]] \in Clients
        /\ UNCHANGED <<accepting, sock, peerGone, tableVars, poolVars, serverVars>>
    BY <2>1, ReceiveEffect
  <2>3. CASE Goto(th, "idle")
    <3>1. readPool' = readPool
      BY <2>2, <2>3
    <3>2. \A c \in Clients : Online(c)' <=> Online(c)
      BY <2>2, <2>3
    <3>3. \A c \in Clients : Online(c) => tokens'[c] = tokens[c]
      BY <2>2, <2>3
    <3>4. \A x \in Threads : Owns(x) => Owns(x)' /\ tok'[x] = tok[x]
      BY <2>2, <2>3
    <3> HIDE DEF Owns, Online, IInv
    <3> QED  BY <3>1, <3>2, <3>3, <3>4, ConservedKept
  <2>4. CASE Enter(th, "dropIP", tok[th], conn[tok[th]], "idle")
    <3>1. readPool' = readPool
      BY <2>2, <2>4
    <3>2. \A c \in Clients : Online(c)' <=> Online(c)
      BY <2>2, <2>4
    <3>3. \A c \in Clients : Online(c) => tokens'[c] = tokens[c]
      BY <2>2, <2>4
    <3>4. \A x \in Threads : Owns(x) => Owns(x)' /\ tok'[x] = tok[x]
      BY <2>2, <2>4
    <3> HIDE DEF Owns, Online, IInv
    <3> QED  BY <3>1, <3>2, <3>3, <3>4, ConservedKept
  <2> QED  BY <2>1, <2>3, <2>4, ReceiveEffect
<1>21. ASSUME NEW th \in Threads, NEW c \in Clients, Disconnect(th, c)
      PROVE  ReadArgsConserved'
  <2>1. readPool' = readPool
    BY <1>21 DEF Disconnect
  <2>2. \A d \in Clients : Online(d)' <=> Online(d)
    BY <1>21 DEF Disconnect
  <2>3. \A d \in Clients : Online(d) => tokens'[d] = tokens[d]
    BY <1>21 DEF Disconnect
  <2>4. \A x \in Threads : Owns(x) => Owns(x)' /\ tok'[x] = tok[x]
    BY <1>21 DEF Disconnect
  <2> HIDE DEF Owns, Online, IInv
  <2> QED  BY <2>1, <2>2, <2>3, <2>4, ConservedKept
<1>22. ASSUME NEW th \in Threads, DropIP(th)
      PROVE  ReadArgsConserved'
  <2>1. readPool' = readPool
    BY <1>22 DEF DropIP
  <2>2. \A c \in Clients : Online(c)' <=> Online(c)
    BY <1>22 DEF DropIP
  <2>3. \A c \in Clients : Online(c) => tokens'[c] = tokens[c]
    BY <1>22 DEF DropIP
  <2>4. \A x \in Threads : Owns(x) => Owns(x)' /\ tok'[x] = tok[x]
    BY <1>22 DEF DropIP
  <2> HIDE DEF Owns, Online, IInv
  <2> QED  BY <2>1, <2>2, <2>3, <2>4, ConservedKept
<1>23. ASSUME NEW th \in Threads, Drop(th)
      PROVE  ReadArgsConserved'
  <2>1. /\ lock = NoThread /\ swept = {} /\ pc[th] = "drop"
        /\ tok[th] \in Tokens /\ conn[tok[th]] \in Clients
        /\ UNCHANGED <<netVars, conn, swept, singleIP, poolVars, serverVars>>
    BY <1>23, DropEffect
  <2>2. CASE /\ tokens[conn[tok[th]]] = tok[th]
             /\ tokens' = [tokens EXCEPT ![conn[tok[th]]] = NoToken]
             /\ Enter(th, "close", tok[th], conn[tok[th]], after[th])
    <3>1. Owns(th)' /\ tok'[th] = tok[th]
      BY <2>1, <2>2
    <3>2. \A x \in Threads : Owns(x) => Owns(x)' /\ tok'[x] = tok[x]
      BY <2>1, <2>2
    <3>3. \A c \in Clients : Online(c) =>
              tokens[c] = tok[th] \/ (Online(c)' /\ tokens'[c] = tokens[c])
      BY <2>1, <2>2
    <3>4. readPool' = readPool
      BY <2>1
    <3> HIDE DEF Owns, Online, IInv, ServerAssumption
    <3> QED  BY <3>1, <3>2, <3>3, <3>4 DEF ReadArgsConserved, InUse, Pooled
  <2>3. CASE /\ UNCHANGED <<tokens, lock>> /\ Goto(th, after[th])
             /\ after[th] \in {"idle", "startAccept"}
    <3>1. readPool' = readPool
      BY <2>1, <2>3
    <3>2. \A c \in Clients : Online(c)' <=> Online(c)
      BY <2>1, <2>3
    <3>3. \A c \in Clients : Online(c) => tokens'[c] = tokens[c]
      BY <2>1, <2>3
    <3>4. \A x \in Threads : Owns(x) => Owns(x)' /\ tok'[x] = tok[x]
      BY <2>1, <2>3
    <3> HIDE DEF Owns, Online, IInv
    <3> QED  BY <3>1, <3>2, <3>3, <3>4, ConservedKept
  <2> QED  BY <1>23, <2>2, <2>3, DropEffect
<1>24. ASSUME NEW th \in Threads, CloseSocket(th)
      PROVE  ReadArgsConserved'
  <2>1. readPool' = readPool
    BY <1>24 DEF CloseSocket
  <2>2. \A c \in Clients : Online(c)' <=> Online(c)
    BY <1>24 DEF CloseSocket
  <2>3. \A c \in Clients : Online(c) => tokens'[c] = tokens[c]
    BY <1>24 DEF CloseSocket
  <2>4. \A x \in Threads : Owns(x) => Owns(x)' /\ tok'[x] = tok[x]
    BY <1>24 DEF CloseSocket
  <2> HIDE DEF Owns, Online, IInv
  <2> QED  BY <2>1, <2>2, <2>3, <2>4, ConservedKept
<1>25. ASSUME NEW th \in Threads, Decrement(th)
      PROVE  ReadArgsConserved'
  <2>1. readPool' = readPool
    BY <1>25 DEF Decrement
  <2>2. \A c \in Clients : Online(c)' <=> Online(c)
    BY <1>25 DEF Decrement
  <2>3. \A c \in Clients : Online(c) => tokens'[c] = tokens[c]
    BY <1>25 DEF Decrement
  <2>4. \A x \in Threads : Owns(x) => Owns(x)' /\ tok'[x] = tok[x]
    BY <1>25 DEF Decrement
  <2> HIDE DEF Owns, Online, IInv
  <2> QED  BY <2>1, <2>2, <2>3, <2>4, ConservedKept
<1>26. ASSUME NEW th \in Threads, ReleasePermit(th)
      PROVE  ReadArgsConserved'
  <2>1. readPool' = readPool
    BY <1>26 DEF ReleasePermit
  <2>2. \A c \in Clients : Online(c)' <=> Online(c)
    BY <1>26 DEF ReleasePermit
  <2>3. \A c \in Clients : Online(c) => tokens'[c] = tokens[c]
    BY <1>26 DEF ReleasePermit
  <2>4. \A x \in Threads : Owns(x) => Owns(x)' /\ tok'[x] = tok[x]
    BY <1>26 DEF ReleasePermit
  <2> HIDE DEF Owns, Online, IInv
  <2> QED  BY <2>1, <2>2, <2>3, <2>4, ConservedKept
<1>27. ASSUME NEW th \in Threads, PushReadArgs(th)
      PROVE  ReadArgsConserved'
  <2>1. /\ readPool' = Append(readPool, tok[th]) /\ tok[th] \in Tokens
        /\ UNCHANGED <<tokens, swept>> /\ readPool \in Seq(Tokens)
    BY <1>27 DEF PushReadArgs
  <2>2. \A t \in Pooled : t \in Pooled'
    <3>1. TAKE t \in Pooled
    <3>2. PICK i \in 1..Len(readPool) : t = readPool[i]
      BY DEF Pooled
    <3>3. i \in 1..Len(readPool') /\ readPool'[i] = t
      BY <2>1, <3>2
    <3> QED  BY <3>3 DEF Pooled
  <2>3. tok[th] \in Pooled'
    <3>1. Len(readPool) + 1 \in 1..Len(readPool') /\ readPool'[Len(readPool) + 1] = tok[th]
      BY <2>1
    <3> QED  BY <3>1 DEF Pooled
  <2>4. \A x \in Threads : Owns(x) => x = th \/ (Owns(x)' /\ tok'[x] = tok[x])
    BY <1>27 DEF PushReadArgs
  <2>5. \A c \in Clients : Online(c)' = Online(c) /\ tokens'[c] = tokens[c]
    BY <2>1
  <2> HIDE DEF Owns, Online, IInv, ServerAssumption
  <2> QED  BY <2>2, <2>3, <2>4, <2>5 DEF ReadArgsConserved, InUse
<1>28. ASSUME NEW th \in Threads, RaiseDisconnected(th)
      PROVE  ReadArgsConserved'
  <2>1. readPool' = readPool
    BY <1>28 DEF RaiseDisconnected
  <2>2. \A c \in Clients : Online(c)' <=> Online(c)
    BY <1>28 DEF RaiseDisconnected
  <2>3. \A c \in Clients : Online(c) => tokens'[c] = tokens[c]
    BY <1>28 DEF RaiseDisconnected
  <2>4. \A x \in Threads : Owns(x) => Owns(x)' /\ tok'[x] = tok[x]
    BY <1>28 DEF RaiseDisconnected
  <2> HIDE DEF Owns, Online, IInv
  <2> QED  BY <2>1, <2>2, <2>3, <2>4, ConservedKept
<1>29. ASSUME NEW th \in Threads, StopBegin(th)
      PROVE  ReadArgsConserved'
  <2>1. readPool' = readPool
    BY <1>29 DEF StopBegin
  <2>2. \A c \in Clients : Online(c)' <=> Online(c)
    BY <1>29 DEF StopBegin
  <2>3. \A c \in Clients : Online(c) => tokens'[c] = tokens[c]
    BY <1>29 DEF StopBegin
  <2>4. \A x \in Threads : Owns(x) => Owns(x)' /\ tok'[x] = tok[x]
    BY <1>29 DEF StopBegin
  <2> HIDE DEF Owns, Online, IInv
  <2> QED  BY <2>1, <2>2, <2>3, <2>4, ConservedKept
<1>30. ASSUME NEW th \in Threads, StopLock(th)
      PROVE  ReadArgsConserved'
  <2>1. readPool' = readPool
    BY <1>30 DEF StopLock
  <2>2. \A c \in Clients : Online(c)' <=> Online(c)
    BY <1>30 DEF StopLock
  <2>3. \A c \in Clients : Online(c) => tokens'[c] = tokens[c]
    BY <1>30 DEF StopLock
  <2>4. \A x \in Threads : Owns(x) => Owns(x)' /\ tok'[x] = tok[x]
    BY <1>30 DEF StopLock
  <2> HIDE DEF Owns, Online, IInv
  <2> QED  BY <2>1, <2>2, <2>3, <2>4, ConservedKept
<1>31. ASSUME NEW th \in Threads, NEW c \in Clients, StopNext(th, c)
      PROVE  ReadArgsConserved'
  <2>1. /\ pc[th] = "stopNext" /\ Online(c) /\ swept' = swept \cup {c}
        /\ Enter(th, "close", tokens[c], c, "stopNext") /\ UNCHANGED <<tokens, readPool>>
    BY <1>31 DEF StopNext
  <2>2. Owns(th)' /\ tok'[th] = tokens[c]
    BY <2>1
  <2>3. \A x \in Threads : Owns(x) => Owns(x)' /\ tok'[x] = tok[x]
    BY <2>1
  <2>4. \A d \in Clients : Online(d) => d = c \/ (Online(d)' /\ tokens'[d] = tokens[d])
    BY <2>1
  <2>5. readPool' = readPool
    BY <2>1
  <2> HIDE DEF Owns, Online, IInv, ServerAssumption
  <2> QED  BY <2>2, <2>3, <2>4, <2>5 DEF ReadArgsConserved, InUse, Pooled
<1>32. ASSUME NEW th \in Threads, StopClear(th)
      PROVE  ReadArgsConserved'
  <2>1. /\ readPool' = readPool /\ \A c \in Clients : ~Online(c)
    BY <1>32 DEF StopClear
  <2>2. \A x \in Threads : Owns(x) => Owns(x)' /\ tok'[x] = tok[x]
    BY <1>32 DEF StopClear
  <2> HIDE DEF Owns, Online, IInv, ServerAssumption
  <2> QED  BY <2>1, <2>2 DEF ReadArgsConserved, InUse, Pooled
<1>33. ASSUME NEW th \in Threads, StopIP(th)
      PROVE  ReadArgsConserved'
  <2>1. readPool' = readPool
    BY <1>33 DEF StopIP
  <2>2. \A c \in Clients : Online(c)' <=> Online(c)
    BY <1>33 DEF StopIP
  <2>3. \A c \in Clients : Online(c) => tokens'[c] = tokens[c]
    BY <1>33 DEF StopIP
  <2>4. \A x \in Threads : Owns(x) => Owns(x)' /\ tok'[x] = tok[x]
    BY <1>33 DEF StopIP
  <2> HIDE DEF Owns, Online, IInv
  <2> QED  BY <2>1, <2>2, <2>3, <2>4, ConservedKept
<1>34. CASE UNCHANGED vars
  <2>1. readPool' = readPool
    BY <1>34 DEF vars
  <2>2. \A c \in Clients : Online(c)' <=> Online(c)
    BY <1>34 DEF vars
  <2>3. \A c \in Clients : Online(c) => tokens'[c] = tokens[c]
    BY <1>34 DEF vars
  <2>4. \A x \in Threads : Owns(x) => Owns(x)' /\ tok'[x] = tok[x]
    BY <1>34 DEF vars
  <2> HIDE DEF Owns, Online, IInv
  <2> QED  BY <2>1, <2>2, <2>3, <2>4, ConservedKept
<1> QED
  BY <1>1, <1>2, <1>3, <1>4, <1>5, <1>6, <1>7, <1>8, <1>9, <1>10, <1>11, <1>12, <1>13,
     <1>14, <1>15, <1>16, <1>17, <1>18, <1>19, <1>20, <1>21, <1>22, <1>23, <1>24,
     <1>25, <1>26, <1>27, <1>28, <1>29, <1>30, <1>31, <1>32, <1>33, <1>34
     DEF Next, ThreadStep, AcceptLoop, ReceiveCallback, CloseConnection, StopServer

-------------------------------------------------------------------------------
(* The invariant *)

\* The counts agree once Start has armed the first accept.
LEMMA CInvInit == Init => CInv
<1> SUFFICES ASSUME Init PROVE CInv
  OBVIOUS
<1> USE ServerAssumption DEF Init
<1>1. LoopInv
  BY DEF LoopInv, InLoop, AcceptSteps, RefuseSteps
<1>2. RefuseInv /\ WorkInv
  BY DEF RefuseInv, WorkInv, PermitSteps, CountSteps
<1>3. Holders(CountSteps) = {} /\ Holders(PermitSteps) = {}
  BY DEF Holders, CountSteps, PermitSteps, Online, NoToken
<1>4. Cardinality({}) = 0
  BY FS_EmptySet
<1>5. CountInv
  BY <1>3, <1>4 DEF CountInv
<1>6. PermitInv
  <2>1. Armed
    BY DEF Armed
  <2> QED  BY <1>3, <1>4, <2>1 DEF PermitInv
<1>7. ReadArgsConserved
  <2>1. ASSUME NEW t \in Tokens PROVE t \in Pooled
    <3>1. t \in 1..Len(readPool) /\ readPool[t] = t
      BY DEF Tokens
    <3> QED  BY <3>1 DEF Pooled
  <2> QED  BY <2>1 DEF ReadArgsConserved
<1> QED  BY <1>1, <1>2, <1>5, <1>6, <1>7 DEF CInv

\* Every step keeps the counts.
LEMMA CInvStep == IInv /\ IInv' /\ CInv /\ [Next]_vars => CInv'
<1> SUFFICES ASSUME IInv, IInv', CInv, [Next]_vars PROVE CInv'
  OBVIOUS
<1>1. LoopInv' /\ RefuseInv' /\ WorkInv' /\ ReadArgsConserved'
  BY LoopStep, WorkStep, ConservedStep DEF CInv
<1>2. CountInv'
  BY CountHolders, CountStep DEF CInv
<1>3. PermitInv'
  <2>1. CASE ~UseSemaphore
    BY <2>1 DEF PermitInv
  <2>2. CASE UseSemaphore
    <3>1. PermitMoves
      BY <2>2, PermitHolders DEF CInv
    <3>2. TypeOK /\ listenOpen' \in BOOLEAN
      BY DEF IInv, TypeInv, TypeOK, NetTypes
    <3> QED  BY <2>2, <3>1, <3>2, PermitStep DEF CInv
  <2> QED  BY <2>1, <2>2
<1> QED  BY <1>1, <1>2, <1>3 DEF CInv

\* The counts rest on the ownership of read args that SocketServerProofs establishes.
LEMMA Invariants == Spec => [](IInv /\ CInv)
<1>1. Init => IInv /\ CInv
  BY IInvInit, CInvInit
<1>2. IInv /\ [Next]_vars => IInv'
  BY IInvStep
<1> QED  BY <1>1, <1>2, CInvStep, PTL DEF Spec

-------------------------------------------------------------------------------
(* Theorems *)

\* ReadArgsConserved: no path of ProcessAccept, ProcessReceive, Disconnect or Stop loses
\* read args, whatever the threads do.
THEOREM ReadArgsConservedAlways == Spec => []ReadArgsConserved
<1>1. CInv => ReadArgsConserved
  BY DEF CInv
<1> QED  BY <1>1, Invariants, PTL

\* ConnectionsCounted: NumConnectedSockets agrees with the table when no callback runs,
\* and never exceeds maxConnections by more than the client being turned away.
THEOREM ConnectionsCountedAlways == Spec => []ConnectionsCounted
<1>1. ASSUME IInv, CInv PROVE ConnectionsCounted
  <2>1. Quiet => Holders(CountSteps) = OnlineClients
    BY DEF Quiet, Holders, CountSteps, OnlineClients
  <2>2. num \in 0..MaxConnections + 1
    BY <1>1, NumBound DEF CInv
  <2> QED  BY <1>1, <2>1, <2>2 DEF ConnectionsCounted, CInv, CountInv
<1> QED  BY <1>1, Invariants, PTL

\* PermitsCounted: no disconnect or refusal releases the semaphore twice, or forgets to,
\* whatever the other threads do in between.
THEOREM PermitsCountedAlways == Spec => []PermitsCounted
<1>1. ASSUME IInv, CInv PROVE PermitsCounted
  <2>1. /\ Cardinality(Holders(PermitSteps)) \in Nat
        /\ permits \in Nat /\ MaxConnections \in Nat
    BY <1>1, ClientSets, ServerAssumption
       DEF Holders, IInv, TypeInv, TypeOK, PoolTypes
  <2> QED  BY <1>1, <2>1 DEF CInv, PermitInv, PermitsCounted
<1> QED  BY <1>1, Invariants, PTL

-------------------------------------------------------------------------------
(* SocketServer implements ConnectionRegistry: at most maxConnections clients are *)
(* online, and one that was refused or went offline never comes back.             *)


\* A connection is over once its socket is closed or its thread is about to close it
Done(c) == sock[c] = "closed" \/ \E th \in Threads : pc[th] = "close" /\ cli[th] = c

\* Over, element by element.
LEMMA OverIsDone ==
    /\ Over = {c \in Clients : ~Online(c) /\ Done(c)}
    /\ Over' = {c \in Clients : ~Online(c)' /\ Done(c)'}
BY DEF Over, Done, OnlineClients

\* The registry counts as the server does.
LEMMA SameCardinality == \A S : Registry!Cardinality(S) = Cardinality(S)
BY DEF Registry!Cardinality, Cardinality

\* A step that changes no client's state in the registry is a stutter.
LEMMA RegistrySame ==
  ASSUME \A c \in Clients : Online(c)' <=> Online(c),
         \A c \in Clients : ~Online(c) => (Done(c)' <=> Done(c))
  PROVE  [Registry!Next]_<<OnlineClients, Over>>
<1>1. OnlineClients' = OnlineClients
  BY DEF OnlineClients
<1>2. Over' = Over
  BY OverIsDone
<1> QED  BY <1>1, <1>2

\* So is one that leaves the table, the sockets and the closing threads alone.
LEMMA RegistryKept ==
  ASSUME \A c \in Clients : Online(c)' <=> Online(c),
         \A th \in Threads : pc'[th] = "close" <=> pc[th] = "close",
         \A th \in Threads : pc[th] = "close" => cli'[th] = cli[th],
         \A c \in Clients : sock'[c] = "closed" <=> sock[c] = "closed"
  PROVE  [Registry!Next]_<<OnlineClients, Over>>
<1>1. \A c \in Clients : Done(c)' <=> Done(c)
  BY DEF Done
<1> QED  BY <1>1, RegistrySame

\* A client that is over without having been online was refused.
LEMMA RegistryRefuses ==
  ASSUME NEW c \in Clients, ~Online(c), ~Done(c), Done(c)',
         \A d \in Clients : Online(d)' <=> Online(d),
         \A d \in Clients \ {c} : Done(d)' <=> Done(d)
  PROVE  [Registry!Next]_<<OnlineClients, Over>>
<1>1. OnlineClients' = OnlineClients /\ c \notin OnlineClients
  BY DEF OnlineClients
<1>2. Over' = Over \cup {c} /\ c \notin Over
  BY OverIsDone
<1>3. Registry!Refuse(c)
  BY <1>1, <1>2 DEF Registry!Refuse
<1> QED  BY <1>3 DEF Registry!Next

\* A client that goes offline, and is over, was retired.
LEMMA RegistryRetires ==
  ASSUME NEW c \in Clients, Online(c), ~Online(c)', Done(c)',
         \A d \in Clients \ {c} : Online(d)' <=> Online(d),
         \A d \in Clients \ {c} : Done(d)' <=> Done(d)
  PROVE  [Registry!Next]_<<OnlineClients, Over>>
<1>1. OnlineClients' = OnlineClients \ {c} /\ c \in OnlineClients
  BY DEF OnlineClients
<1>2. Over' = Over \cup {c}
  BY OverIsDone
<1>3. Registry!Retire(c)
  BY <1>1, <1>2 DEF Registry!Retire
<1> QED  BY <1>3 DEF Registry!Next

\* A client that comes online, with room for it, was admitted.
LEMMA RegistryAdmits ==
  ASSUME NEW c \in Clients, ~Online(c), ~Done(c), Online(c)',
         Cardinality(OnlineClients) < MaxConnections,
         \A d \in Clients \ {c} : Online(d)' <=> Online(d),
         \A d \in Clients : Done(d)' <=> Done(d)
  PROVE  [Registry!Next]_<<OnlineClients, Over>>
<1>1. OnlineClients' = OnlineClients \cup {c} /\ c \notin OnlineClients
  BY DEF OnlineClients
<1>2. Over' = Over /\ c \notin Over
  BY OverIsDone
<1>3. Registry!Admit(c)
  BY <1>1, <1>2, SameCardinality DEF Registry!Admit
<1> QED  BY <1>3 DEF Registry!Next

\* Whoever registers a client has read args for it, so there is room in the table.
LEMMA RoomToRegister ==
  ASSUME IInv, NEW th \in Threads, pc[th] = "register", Owns(th),
         cli[th] \in Clients, ~Online(cli[th])
  PROVE  Cardinality(OnlineClients) < MaxConnections
<1>1. /\ Cardinality(Equipped) <= MaxConnections /\ Equipped \subseteq Clients
      /\ OnlineClients \subseteq Clients
  BY EquippedBound DEF OnlineClients
<1>2. cli[th] \in Equipped
  BY DEF Equipped, CountSteps
<1>3. OnlineClients \cup {cli[th]} \subseteq Equipped /\ cli[th] \notin OnlineClients
  BY <1>2 DEF Equipped, OnlineClients
<1>4. Cardinality(OnlineClients \cup {cli[th]}) = Cardinality(OnlineClients) + 1
  BY <1>1, <1>3, OneMore
<1>5. Cardinality(OnlineClients \cup {cli[th]}) <= Cardinality(Equipped)
  BY <1>1, <1>3, ClientSets, FS_Subset
<1> QED
  BY <1>1, <1>4, <1>5, ClientSets, ServerAssumption

\* Every step of the server is a step of the registry, or none.
LEMMA RegistryStep ==
  ASSUME IInv, RefuseInv, WorkInv, [Next]_vars
  PROVE  [Registry!Next]_<<OnlineClients, Over>>
<1> USE ServerAssumption DEF IInv, OwnInv, TypeInv, TypeOK, NetTypes, TableTypes,
        PoolTypes, ThreadTypes, LockInv, CarriedInv, ConnInv, OnlineSocketIsOpen,
        RefuseInv, WorkInv, Online, OnlineClients, Owns, Closes, CloseSteps, LockSteps,
        TokenSteps, FreshSteps, PermitSteps, CountSteps, Unassigned, Connected, Tokens,
        NoToken, At, Goto, Enter, netVars, tableVars, poolVars, serverVars, threadVars
<1>1. ASSUME NEW c \in Clients, Connect(c)
      PROVE  [Registry!Next]_<<OnlineClients, Over>>
  <2>1. \A d \in Clients : Online(d)' <=> Online(d)
    BY <1>1 DEF Connect
  <2>2. \A x \in Threads : pc'[x] = "close" <=> pc[x] = "close"
    BY <1>1 DEF Connect
  <2>3. \A x \in Threads : pc[x] = "close" => cli'[x] = cli[x]
    BY <1>1 DEF Connect
  <2>4. \A d \in Clients : sock'[d] = "closed" <=> sock[d] = "closed"
    BY <1>1 DEF Connect
  <2> HIDE DEF Online, IInv, RefuseInv, WorkInv
  <2> QED  BY <2>1, <2>2, <2>3, <2>4, RegistryKept
<1>2. ASSUME NEW c \in Clients, Leave(c)
      PROVE  [Registry!Next]_<<OnlineClients, Over>>
  <2>1. \A d \in Clients : Online(d)' <=> Online(d)
    BY <1>2 DEF Leave
  <2>2. \A x \in Threads : pc'[x] = "close" <=> pc[x] = "close"
    BY <1>2 DEF Leave
  <2>3. \A x \in Threads : pc[x] = "close" => cli'[x] = cli[x]
    BY <1>2 DEF Leave
  <2>4. \A d \in Clients : sock'[d] = "closed" <=> sock[d] = "closed"
    BY <1>2 DEF Leave
  <2> HIDE DEF Online, IInv, RefuseInv, WorkInv
  <2> QED  BY <2>1, <2>2, <2>3, <2>4, RegistryKept
<1>3. ASSUME NEW th \in Threads, NEW c \in Clients, AcceptCompleted(th, c)
      PROVE  [Registry!Next]_<<OnlineClients, Over>>
  <2>1. \A d \in Clients : Online(d)' <=> Online(d)
    BY <1>3 DEF AcceptCompleted
  <2>2. \A x \in Threads : pc'[x] = "close" <=> pc[x] = "close"
    BY <1>3 DEF AcceptCompleted
  <2>3. \A x \in Threads : pc[x] = "close" => cli'[x] = cli[x]
    BY <1>3 DEF AcceptCompleted
  <2>4. \A d \in Clients : sock'[d] = "closed" <=> sock[d] = "closed"
    BY <1>3 DEF AcceptCompleted
  <2> HIDE DEF Online, IInv, RefuseInv, WorkInv
  <2> QED  BY <2>1, <2>2, <2>3, <2>4, RegistryKept
<1>4. ASSUME NEW th \in Threads, AcceptFailed(th)
      PROVE  [Registry!Next]_<<OnlineClients, Over>>
  <2>1. CASE UNCHANGED sock
    <3>1. \A c \in Clients : Online(c)' <=> Online(c)
      BY <1>4, <2>1 DEF AcceptFailed
    <3>2. \A x \in Threads : pc'[x] = "close" <=> pc[x] = "close"
      BY <1>4, <2>1 DEF AcceptFailed
    <3>3. \A x \in Threads : pc[x] = "close" => cli'[x] = cli[x]
      BY <1>4, <2>1 DEF AcceptFailed
    <3>4. \A c \in Clients : sock'[c] = "closed" <=> sock[c] = "closed"
      BY <1>4, <2>1 DEF AcceptFailed
    <3> HIDE DEF Online, IInv, RefuseInv, WorkInv
    <3> QED  BY <3>1, <3>2, <3>3, <3>4, RegistryKept
  <2>2. ASSUME NEW c \in Clients, sock[c] = "backlog", sock' = [sock EXCEPT ![c] = "closed"]
        PROVE  [Registry!Next]_<<OnlineClients, Over>>
    <3>1. ~Online(c) /\ ~Done(c) /\ Done(c)'
      BY <2>2 DEF Done
    <3>2. \A d \in Clients : Online(d)' <=> Online(d)
      BY <1>4 DEF AcceptFailed
    <3>3. \A d \in Clients \ {c} : Done(d)' <=> Done(d)
      BY <1>4, <2>2 DEF AcceptFailed, Done
    <3> QED  BY <3>1, <3>2, <3>3, RegistryRefuses
  <2> QED  BY <1>4, <2>1, <2>2 DEF AcceptFailed
<1>5. ASSUME NEW th \in Threads, PopReadArgs(th)
      PROVE  [Registry!Next]_<<OnlineClients, Over>>
  <2>1. \A c \in Clients : Online(c)' <=> Online(c)
    BY <1>5 DEF PopReadArgs
  <2>2. \A x \in Threads : pc'[x] = "close" <=> pc[x] = "close"
    BY <1>5 DEF PopReadArgs
  <2>3. \A x \in Threads : pc[x] = "close" => cli'[x] = cli[x]
    BY <1>5 DEF PopReadArgs
  <2>4. \A c \in Clients : sock'[c] = "closed" <=> sock[c] = "closed"
    BY <1>5 DEF PopReadArgs
  <2> HIDE DEF Online, IInv, RefuseInv, WorkInv
  <2> QED  BY <2>1, <2>2, <2>3, <2>4, RegistryKept
<1>6. ASSUME NEW th \in Threads, Reject(th)
      PROVE  [Registry!Next]_<<OnlineClients, Over>>
  <2>1. \A c \in Clients : Online(c)' <=> Online(c)
    BY <1>6 DEF Reject
  <2>2. \A x \in Threads : pc'[x] = "close" <=> pc[x] = "close"
    BY <1>6 DEF Reject
  <2>3. \A x \in Threads : pc[x] = "close" => cli'[x] = cli[x]
    BY <1>6 DEF Reject
  <2>4. \A c \in Clients : sock'[c] = "closed" <=> sock[c] = "closed"
    BY <1>6 DEF Reject
  <2> HIDE DEF Online, IInv, RefuseInv, WorkInv
  <2> QED  BY <2>1, <2>2, <2>3, <2>4, RegistryKept
<1>7. ASSUME NEW th \in Threads, AssignToken(th)
      PROVE  [Registry!Next]_<<OnlineClients, Over>>
  <2>1. \A c \in Clients : Online(c)' <=> Online(c)
    BY <1>7 DEF AssignToken
  <2>2. \A x \in Threads : pc'[x] = "close" <=> pc[x] = "close"
    BY <1>7 DEF AssignToken
  <2>3. \A x \in Threads : pc[x] = "close" => cli'[x] = cli[x]
    BY <1>7 DEF AssignToken
  <2>4. \A c \in Clients : sock'[c] = "closed" <=> sock[c] = "closed"
    BY <1>7 DEF AssignToken
  <2> HIDE DEF Online, IInv, RefuseInv, WorkInv
  <2> QED  BY <2>1, <2>2, <2>3, <2>4, RegistryKept
<1>8. ASSUME NEW th \in Threads, Register(th)
      PROVE  [Registry!Next]_<<OnlineClients, Over>>
  <2>1. PICK c \in Clients : c = cli[th]
    BY <1>8 DEF Register
  <2>2. /\ pc[th] = "register" /\ lock = NoThread /\ swept = {} /\ swept' = swept
        /\ tok[th] \in Tokens /\ ~Online(c) /\ conn[tok[th]] = c /\ sock[c] = "accepted"
    BY <1>8, <2>1 DEF Register
  <2>3. /\ tokens' = [tokens EXCEPT ![c] = tok[th]]
        /\ UNCHANGED <<sock, swept, cli>> /\ pc' = [pc EXCEPT ![th] = "registerIP"]
    BY <1>8, <2>2 DEF Register
  <2>4. Owns(th)
    BY <2>2
  <2>5. ~Done(c)
    BY <2>1, <2>2 DEF Done
  <2>6. Online(c)' /\ \A d \in Clients \ {c} : Online(d)' <=> Online(d)
    BY <2>2, <2>3
  <2>7. \A d \in Clients : Done(d)' <=> Done(d)
    BY <2>2, <2>3 DEF Done
  <2> HIDE DEF Online, Owns, IInv, RefuseInv, WorkInv
  <2>8. Cardinality(OnlineClients) < MaxConnections
    BY <2>1, <2>2, <2>4, RoomToRegister
  <2> QED  BY <2>2, <2>5, <2>6, <2>7, <2>8, RegistryAdmits
<1>9. ASSUME NEW th \in Threads, RegisterIP(th)
      PROVE  [Registry!Next]_<<OnlineClients, Over>>
  <2>1. \A c \in Clients : Online(c)' <=> Online(c)
    BY <1>9 DEF RegisterIP
  <2>2. \A x \in Threads : pc'[x] = "close" <=> pc[x] = "close"
    BY <1>9 DEF RegisterIP
  <2>3. \A x \in Threads : pc[x] = "close" => cli'[x] = cli[x]
    BY <1>9 DEF RegisterIP
  <2>4. \A c \in Clients : sock'[c] = "closed" <=> sock[c] = "closed"
    BY <1>9 DEF RegisterIP
  <2> HIDE DEF Online, IInv, RefuseInv, WorkInv
  <2> QED  BY <2>1, <2>2, <2>3, <2>4, RegistryKept
<1>10. ASSUME NEW th \in Threads, AcceptConnected(th)
      PROVE  [Registry!Next]_<<OnlineClients, Over>>
  <2>1. \A c \in Clients : Online(c)' <=> Online(c)
    BY <1>10 DEF AcceptConnected, CheckConnected
  <2>2. \A x \in Threads : pc'[x] = "close" <=> pc[x] = "close"
    BY <1>10 DEF AcceptConnected, CheckConnected
  <2>3. \A x \in Threads : pc[x] = "close" => cli'[x] = cli[x]
    BY <1>10 DEF AcceptConnected, CheckConnected
  <2>4. \A c \in Clients : sock'[c] = "closed" <=> sock[c] = "closed"
    BY <1>10 DEF AcceptConnected, CheckConnected
  <2> HIDE DEF Online, IInv, RefuseInv, WorkInv
  <2> QED  BY <2>1, <2>2, <2>3, <2>4, RegistryKept
<1>11. ASSUME NEW th \in Threads, AcceptReceive(th)
      PROVE  [Registry!Next]_<<OnlineClients, Over>>
  <2>1. Receive(th, "receive", "startAccept")
    BY <1>11 DEF AcceptReceive
  <2>2. /\ pc[th] = "receive" /\ tok[th] \in Tokens /\ conn[tok[th]] \in Clients
        /\ UNCHANGED <<accepting, sock, peerGone, tableVars, poolVars, serverVars>>
    BY <2>1, ReceiveEffect
  <2>3. CASE Goto(th, "startAccept")
    <3>1. \A c \in Clients : Online(c)' <=> Online(c)
      BY <2>2, <2>3
    <3>2. \A x \in Threads : pc'[x] = "close" <=> pc[x] = "close"
      BY <2>2, <2>3
    <3>3. \A x \in Threads : pc[x] = "close" => cli'[x] = cli[x]
      BY <2>2, <2>3
    <3>4. \A c \in Clients : sock'[c] = "closed" <=> sock[c] = "closed"
      BY <2>2, <2>3
    <3> HIDE DEF Online, IInv, RefuseInv, WorkInv
    <3> QED  BY <3>1, <3>2, <3>3, <3>4, RegistryKept
  <2>4. CASE Enter(th, "dropIP", tok[th], conn[tok[th]], "startAccept")
    <3>1. \A c \in Clients : Online(c)' <=> Online(c)
      BY <2>2, <2>4
    <3>2. \A x \in Threads : pc'[x] = "close" <=> pc[x] = "close"
      BY <2>2, <2>4
    <3>3. \A x \in Threads : pc[x] = "close" => cli'[x] = cli[x]
      BY <2>2, <2>4
    <3>4. \A c \in Clients : sock'[c] = "closed" <=> sock[c] = "closed"
      BY <2>2, <2>4
    <3> HIDE DEF Online, IInv, RefuseInv, WorkInv
    <3> QED  BY <3>1, <3>2, <3>3, <3>4, RegistryKept
  <2> QED  BY <2>1, <2>3, <2>4, ReceiveEffect
<1>12. ASSUME NEW th \in Threads, StartAccept(th)
      PROVE  [Registry!Next]_<<OnlineClients, Over>>
  <2>1. \A c \in Clients : Online(c)' <=> Online(c)
    BY <1>12 DEF StartAccept
  <2>2. \A x \in Threads : pc'[x] = "close" <=> pc[x] = "close"
    BY <1>12 DEF StartAccept
  <2>3. \A x \in Threads : pc[x] = "close" => cli'[x] = cli[x]
    BY <1>12 DEF StartAccept
  <2>4. \A c \in Clients : sock'[c] = "closed" <=> sock[c] = "closed"
    BY <1>12 DEF StartAccept
  <2> HIDE DEF Online, IInv, RefuseInv, WorkInv
  <2> QED  BY <2>1, <2>2, <2>3, <2>4, RegistryKept
<1>13. ASSUME NEW th \in Threads, AcceptAsync(th)
      PROVE  [Registry!Next]_<<OnlineClients, Over>>
  <2>1. \A c \in Clients : Online(c)' <=> Online(c)
    BY <1>13 DEF AcceptAsync
  <2>2. \A x \in Threads : pc'[x] = "close" <=> pc[x] = "close"
    BY <1>13 DEF AcceptAsync
  <2>3. \A x \in Threads : pc[x] = "close" => cli'[x] = cli[x]
    BY <1>13 DEF AcceptAsync
  <2>4. \A c \in Clients : sock'[c] = "closed" <=> sock[c] = "closed"
    BY <1>13 DEF AcceptAsync
  <2> HIDE DEF Online, IInv, RefuseInv, WorkInv
  <2> QED  BY <2>1, <2>2, <2>3, <2>4, RegistryKept
<1>14. ASSUME NEW th \in Threads, RefuseClose(th)
      PROVE  [Registry!Next]_<<OnlineClients, Over>>
  <2>1. PICK c \in Clients : c = cli[th]
    BY <1>14 DEF RefuseClose
  <2>2. ~Online(c) /\ ~Done(c) /\ Done(c)'
    BY <1>14, <2>1 DEF RefuseClose, Done
  <2>3. \A d \in Clients : Online(d)' <=> Online(d)
    BY <1>14 DEF RefuseClose
  <2>4. \A d \in Clients \ {c} : Done(d)' <=> Done(d)
    BY <1>14, <2>1 DEF RefuseClose, Done
  <2> HIDE DEF Online, IInv, RefuseInv, WorkInv
  <2> QED  BY <2>2, <2>3, <2>4, RegistryRefuses
<1>15. ASSUME NEW th \in Threads, RefuseDecrement(th)
      PROVE  [Registry!Next]_<<OnlineClients, Over>>
  <2>1. \A c \in Clients : Online(c)' <=> Online(c)
    BY <1>15 DEF RefuseDecrement
  <2>2. \A x \in Threads : pc'[x] = "close" <=> pc[x] = "close"
    BY <1>15 DEF RefuseDecrement
  <2>3. \A x \in Threads : pc[x] = "close" => cli'[x] = cli[x]
    BY <1>15 DEF RefuseDecrement
  <2>4. \A c \in Clients : sock'[c] = "closed" <=> sock[c] = "closed"
    BY <1>15 DEF RefuseDecrement
  <2> HIDE DEF Online, IInv, RefuseInv, WorkInv
  <2> QED  BY <2>1, <2>2, <2>3, <2>4, RegistryKept
<1>16. ASSUME NEW th \in Threads, RefuseRelease(th)
      PROVE  [Registry!Next]_<<OnlineClients, Over>>
  <2>1. \A c \in Clients : Online(c)' <=> Online(c)
    BY <1>16 DEF RefuseRelease
  <2>2. \A x \in Threads : pc'[x] = "close" <=> pc[x] = "close"
    BY <1>16 DEF RefuseRelease
  <2>3. \A x \in Threads : pc[x] = "close" => cli'[x] = cli[x]
    BY <1>16 DEF RefuseRelease
  <2>4. \A c \in Clients : sock'[c] = "closed" <=> sock[c] = "closed"
    BY <1>16 DEF RefuseRelease
  <2> HIDE DEF Online, IInv, RefuseInv, WorkInv
  <2> QED  BY <2>1, <2>2, <2>3, <2>4, RegistryKept
<1>17. ASSUME NEW th \in Threads, NEW t \in Tokens, ReceiveData(th, t)
      PROVE  [Registry!Next]_<<OnlineClients, Over>>
  <2>1. \A c \in Clients : Online(c)' <=> Online(c)
    BY <1>17 DEF ReceiveData
  <2>2. \A x \in Threads : pc'[x] = "close" <=> pc[x] = "close"
    BY <1>17 DEF ReceiveData
  <2>3. \A x \in Threads : pc[x] = "close" => cli'[x] = cli[x]
    BY <1>17 DEF ReceiveData
  <2>4. \A c \in Clients : sock'[c] = "closed" <=> sock[c] = "closed"
    BY <1>17 DEF ReceiveData
  <2> HIDE DEF Online, IInv, RefuseInv, WorkInv
  <2> QED  BY <2>1, <2>2, <2>3, <2>4, RegistryKept
<1>18. ASSUME NEW th \in Threads, NEW t \in Tokens, ReceiveEnd(th, t)
      PROVE  [Registry!Next]_<<OnlineClients, Over>>
  <2>1. \A c \in Clients : Online(c)' <=> Online(c)
    BY <1>18 DEF ReceiveEnd
  <2>2. \A x \in Threads : pc'[x] = "close" <=> pc[x] = "close"
    BY <1>18 DEF ReceiveEnd
  <2>3. \A x \in Threads : pc[x] = "close" => cli'[x] = cli[x]
    BY <1>18 DEF ReceiveEnd
  <2>4. \A c \in Clients : sock'[c] = "closed" <=> sock[c] = "closed"
    BY <1>18 DEF ReceiveEnd
  <2> HIDE DEF Online, IInv, RefuseInv, WorkInv
  <2> QED  BY <2>1, <2>2, <2>3, <2>4, RegistryKept
<1>19. ASSUME NEW th \in Threads, ReceivedConnected(th)
      PROVE  [Registry!Next]_<<OnlineClients, Over>>
  <2>1. \A c \in Clients : Online(c)' <=> Online(c)
    BY <1>19 DEF ReceivedConnected, CheckConnected
  <2>2. \A x \in Threads : pc'[x] = "close" <=> pc[x] = "close"
    BY <1>19 DEF ReceivedConnected, CheckConnected
  <2>3. \A x \in Threads : pc[x] = "close" => cli'[x] = cli[x]
    BY <1>19 DEF ReceivedConnected, CheckConnected
  <2>4. \A c \in Clients : sock'[c] = "closed" <=> sock[c] = "closed"
    BY <1>19 DEF ReceivedConnected, CheckConnected
  <2> HIDE DEF Online, IInv, RefuseInv, WorkInv
  <2> QED  BY <2>1, <2>2, <2>3, <2>4, RegistryKept
<1>20. ASSUME NEW th \in Threads, ReceiveAgain(th)
      PROVE  [Registry!Next]_<<OnlineClients, Over>>
  <2>1. Receive(th, "rearm", "idle")
    BY <1>20 DEF ReceiveAgain
  <2>2. /\ pc[th] = "rearm" /\ tok[th] \in Tokens /\ conn[tok[th]] \in Clients
        /\ UNCHANGED <<accepting, sock, peerGone, tableVars, poolVars, serverVars>>
    BY <2>1, ReceiveEffect
  <2>3. CASE Goto(th, "idle")
    <3>1. \A c \in Clients : Online(c)' <=> Online(c)
      BY <2>2, <2>3
    <3>2. \A x \in Threads : pc'[x] = "close" <=> pc[x] = "close"
      BY <2>2, <2>3
    <3>3. \A x \in Threads : pc[x] = "close" => cli'[x] = cli[x]
      BY <2>2, <2>3
    <3>4. \A c \in Clients : sock'[c] = "closed" <=> sock[c] = "closed"
      BY <2>2, <2>3
    <3> HIDE DEF Online, IInv, RefuseInv, WorkInv
    <3> QED  BY <3>1, <3>2, <3>3, <3>4, RegistryKept
  <2>4. CASE Enter(th, "dropIP", tok[th], conn[tok[th]], "idle")
    <3>1. \A c \in Clients : Online(c)' <=> Online(c)
      BY <2>2, <2>4
    <3>2. \A x \in Threads : pc'[x] = "close" <=> pc[x] = "close"
      BY <2>2, <2>4
    <3>3. \A x \in Threads : pc[x] = "close" => cli'[x] = cli[x]
      BY <2>2, <2>4
    <3>4. \A c \in Clients : sock'[c] = "closed" <=> sock[c] = "closed"
      BY <2>2, <2>4
    <3> HIDE DEF Online, IInv, RefuseInv, WorkInv
    <3> QED  BY <3>1, <3>2, <3>3, <3>4, RegistryKept
  <2> QED  BY <2>1, <2>3, <2>4, ReceiveEffect
<1>21. ASSUME NEW th \in Threads, NEW c \in Clients, Disconnect(th, c)
      PROVE  [Registry!Next]_<<OnlineClients, Over>>
  <2>1. \A d \in Clients : Online(d)' <=> Online(d)
    BY <1>21 DEF Disconnect
  <2>2. \A x \in Threads : pc'[x] = "close" <=> pc[x] = "close"
    BY <1>21 DEF Disconnect
  <2>3. \A x \in Threads : pc[x] = "close" => cli'[x] = cli[x]
    BY <1>21 DEF Disconnect
  <2>4. \A d \in Clients : sock'[d] = "closed" <=> sock[d] = "closed"
    BY <1>21 DEF Disconnect
  <2> HIDE DEF Online, IInv, RefuseInv, WorkInv
  <2> QED  BY <2>1, <2>2, <2>3, <2>4, RegistryKept
<1>22. ASSUME NEW th \in Threads, DropIP(th)
      PROVE  [Registry!Next]_<<OnlineClients, Over>>
  <2>1. \A c \in Clients : Online(c)' <=> Online(c)
    BY <1>22 DEF DropIP
  <2>2. \A x \in Threads : pc'[x] = "close" <=> pc[x] = "close"
    BY <1>22 DEF DropIP
  <2>3. \A x \in Threads : pc[x] = "close" => cli'[x] = cli[x]
    BY <1>22 DEF DropIP
  <2>4. \A c \in Clients : sock'[c] = "closed" <=> sock[c] = "closed"
    BY <1>22 DEF DropIP
  <2> HIDE DEF Online, IInv, RefuseInv, WorkInv
  <2> QED  BY <2>1, <2>2, <2>3, <2>4, RegistryKept
<1>23. ASSUME NEW th \in Threads, Drop(th)
      PROVE  [Registry!Next]_<<OnlineClients, Over>>
  <2>1. /\ lock = NoThread /\ swept = {} /\ pc[th] = "drop"
        /\ tok[th] \in Tokens /\ conn[tok[th]] \in Clients
        /\ UNCHANGED <<netVars, conn, swept, singleIP, poolVars, serverVars>>
    BY <1>23, DropEffect
  <2>2. CASE /\ tokens[conn[tok[th]]] = tok[th]
             /\ tokens' = [tokens EXCEPT ![conn[tok[th]]] = NoToken]
             /\ Enter(th, "close", tok[th], conn[tok[th]], after[th])
    <3>1. PICK c \in Clients : c = conn[tok[th]]
      BY <2>1
    <3>2. Online(c) /\ ~Online(c)' /\ Done(c)'
      BY <2>1, <2>2, <3>1 DEF Done
    <3>3. \A d \in Clients \ {c} : Online(d)' <=> Online(d)
      BY <2>1, <2>2, <3>1
    <3>4. \A d \in Clients \ {c} : Done(d)' <=> Done(d)
      BY <2>1, <2>2, <3>1 DEF Done
    <3> HIDE DEF Online, IInv, RefuseInv, WorkInv
    <3> QED  BY <3>2, <3>3, <3>4, RegistryRetires
  <2>3. CASE /\ UNCHANGED <<tokens, lock>> /\ Goto(th, after[th])
             /\ after[th] \in {"idle", "startAccept"}
    <3>1. \A c \in Clients : Online(c)' <=> Online(c)
      BY <2>1, <2>3
    <3>2. \A x \in Threads : pc'[x] = "close" <=> pc[x] = "close"
      BY <2>1, <2>3
    <3>3. \A x \in Threads : pc[x] = "close" => cli'[x] = cli[x]
      BY <2>1, <2>3
    <3>4. \A c \in Clients : sock'[c] = "closed" <=> sock[c] = "closed"
      BY <2>1, <2>3
    <3> HIDE DEF Online, IInv, RefuseInv, WorkInv
    <3> QED  BY <3>1, <3>2, <3>3, <3>4, RegistryKept
  <2> QED  BY <1>23, <2>2, <2>3, DropEffect
<1>24. ASSUME NEW th \in Threads, CloseSocket(th)
      PROVE  [Registry!Next]_<<OnlineClients, Over>>
  <2>1. \A c \in Clients : Online(c)' <=> Online(c)
    BY <1>24 DEF CloseSocket
  <2>2. \A c \in Clients : ~Online(c) => (Done(c)' <=> Done(c))
    BY <1>24 DEF CloseSocket, Done
  <2> QED  BY <2>1, <2>2, RegistrySame
<1>25. ASSUME NEW th \in Threads, Decrement(th)
      PROVE  [Registry!Next]_<<OnlineClients, Over>>
  <2>1. \A c \in Clients : Online(c)' <=> Online(c)
    BY <1>25 DEF Decrement
  <2>2. \A x \in Threads : pc'[x] = "close" <=> pc[x] = "close"
    BY <1>25 DEF Decrement
  <2>3. \A x \in Threads : pc[x] = "close" => cli'[x] = cli[x]
    BY <1>25 DEF Decrement
  <2>4. \A c \in Clients : sock'[c] = "closed" <=> sock[c] = "closed"
    BY <1>25 DEF Decrement
  <2> HIDE DEF Online, IInv, RefuseInv, WorkInv
  <2> QED  BY <2>1, <2>2, <2>3, <2>4, RegistryKept
<1>26. ASSUME NEW th \in Threads, ReleasePermit(th)
      PROVE  [Registry!Next]_<<OnlineClients, Over>>
  <2>1. \A c \in Clients : Online(c)' <=> Online(c)
    BY <1>26 DEF ReleasePermit
  <2>2. \A x \in Threads : pc'[x] = "close" <=> pc[x] = "close"
    BY <1>26 DEF ReleasePermit
  <2>3. \A x \in Threads : pc[x] = "close" => cli'[x] = cli[x]
    BY <1>26 DEF ReleasePermit
  <2>4. \A c \in Clients : sock'[c] = "closed" <=> sock[c] = "closed"
    BY <1>26 DEF ReleasePermit
  <2> HIDE DEF Online, IInv, RefuseInv, WorkInv
  <2> QED  BY <2>1, <2>2, <2>3, <2>4, RegistryKept
<1>27. ASSUME NEW th \in Threads, PushReadArgs(th)
      PROVE  [Registry!Next]_<<OnlineClients, Over>>
  <2>1. \A c \in Clients : Online(c)' <=> Online(c)
    BY <1>27 DEF PushReadArgs
  <2>2. \A x \in Threads : pc'[x] = "close" <=> pc[x] = "close"
    BY <1>27 DEF PushReadArgs
  <2>3. \A x \in Threads : pc[x] = "close" => cli'[x] = cli[x]
    BY <1>27 DEF PushReadArgs
  <2>4. \A c \in Clients : sock'[c] = "closed" <=> sock[c] = "closed"
    BY <1>27 DEF PushReadArgs
  <2> HIDE DEF Online, IInv, RefuseInv, WorkInv
  <2> QED  BY <2>1, <2>2, <2>3, <2>4, RegistryKept
<1>28. ASSUME NEW th \in Threads, RaiseDisconnected(th)
      PROVE  [Registry!Next]_<<OnlineClients, Over>>
  <2>1. \A c \in Clients : Online(c)' <=> Online(c)
    BY <1>28 DEF RaiseDisconnected
  <2>2. \A x \in Threads : pc'[x] = "close" <=> pc[x] = "close"
    BY <1>28 DEF RaiseDisconnected
  <2>3. \A x \in Threads : pc[x] = "close" => cli'[x] = cli[x]
    BY <1>28 DEF RaiseDisconnected
  <2>4. \A c \in Clients : sock'[c] = "closed" <=> sock[c] = "closed"
    BY <1>28 DEF RaiseDisconnected
  <2> HIDE DEF Online, IInv, RefuseInv, WorkInv
  <2> QED  BY <2>1, <2>2, <2>3, <2>4, RegistryKept
<1>29. ASSUME NEW th \in Threads, StopBegin(th)
      PROVE  [Registry!Next]_<<OnlineClients, Over>>
  <2>1. \A c \in Clients : Online(c)' <=> Online(c)
    BY <1>29 DEF StopBegin
  <2>2. \A x \in Threads : pc'[x] = "close" <=> pc[x] = "close"
    BY <1>29 DEF StopBegin
  <2>3. \A x \in Threads : pc[x] = "close" => cli'[x] = cli[x]
    BY <1>29 DEF StopBegin
  <2>4. \A c \in Clients : sock'[c] = "closed" <=> sock[c] = "closed"
    BY <1>29 DEF StopBegin
  <2> HIDE DEF Online, IInv, RefuseInv, WorkInv
  <2> QED  BY <2>1, <2>2, <2>3, <2>4, RegistryKept
<1>30. ASSUME NEW th \in Threads, StopLock(th)
      PROVE  [Registry!Next]_<<OnlineClients, Over>>
  <2>1. \A c \in Clients : Online(c)' <=> Online(c)
    BY <1>30 DEF StopLock
  <2>2. \A x \in Threads : pc'[x] = "close" <=> pc[x] = "close"
    BY <1>30 DEF StopLock
  <2>3. \A x \in Threads : pc[x] = "close" => cli'[x] = cli[x]
    BY <1>30 DEF StopLock
  <2>4. \A c \in Clients : sock'[c] = "closed" <=> sock[c] = "closed"
    BY <1>30 DEF StopLock
  <2> HIDE DEF Online, IInv, RefuseInv, WorkInv
  <2> QED  BY <2>1, <2>2, <2>3, <2>4, RegistryKept
<1>31. ASSUME NEW th \in Threads, NEW c \in Clients, StopNext(th, c)
      PROVE  [Registry!Next]_<<OnlineClients, Over>>
  <2>1. Online(c) /\ ~Online(c)' /\ Done(c)'
    BY <1>31 DEF StopNext, Done
  <2>2. \A d \in Clients \ {c} : Online(d)' <=> Online(d)
    BY <1>31 DEF StopNext
  <2>3. \A d \in Clients \ {c} : Done(d)' <=> Done(d)
    BY <1>31 DEF StopNext, Done
  <2> QED  BY <2>1, <2>2, <2>3, RegistryRetires
<1>32. ASSUME NEW th \in Threads, StopClear(th)
      PROVE  [Registry!Next]_<<OnlineClients, Over>>
  <2>1. \A c \in Clients : Online(c)' <=> Online(c)
    BY <1>32 DEF StopClear
  <2>2. \A x \in Threads : pc'[x] = "close" <=> pc[x] = "close"
    BY <1>32 DEF StopClear
  <2>3. \A x \in Threads : pc[x] = "close" => cli'[x] = cli[x]
    BY <1>32 DEF StopClear
  <2>4. \A c \in Clients : sock'[c] = "closed" <=> sock[c] = "closed"
    BY <1>32 DEF StopClear
  <2> HIDE DEF Online, IInv, RefuseInv, WorkInv
  <2> QED  BY <2>1, <2>2, <2>3, <2>4, RegistryKept
<1>33. ASSUME NEW th \in Threads, StopIP(th)
      PROVE  [Registry!Next]_<<OnlineClients, Over>>
  <2>1. \A c \in Clients : Online(c)' <=> Online(c)
    BY <1>33 DEF StopIP
  <2>2. \A x \in Threads : pc'[x] = "close" <=> pc[x] = "close"
    BY <1>33 DEF StopIP
  <2>3. \A x \in Threads : pc[x] = "close" => cli'[x] = cli[x]
    BY <1>33 DEF StopIP
  <2>4. \A c \in Clients : sock'[c] = "closed" <=> sock[c] = "closed"
    BY <1>33 DEF StopIP
  <2> HIDE DEF Online, IInv, RefuseInv, WorkInv
  <2> QED  BY <2>1, <2>2, <2>3, <2>4, RegistryKept
<1>34. CASE UNCHANGED vars
  <2>1. \A c \in Clients : Online(c)' <=> Online(c)
    BY <1>34 DEF vars
  <2>2. \A x \in Threads : pc'[x] = "close" <=> pc[x] = "close"
    BY <1>34 DEF vars
  <2>3. \A x \in Threads : pc[x] = "close" => cli'[x] = cli[x]
    BY <1>34 DEF vars
  <2>4. \A c \in Clients : sock'[c] = "closed" <=> sock[c] = "closed"
    BY <1>34 DEF vars
  <2> HIDE DEF Online, IInv, RefuseInv, WorkInv
  <2> QED  BY <2>1, <2>2, <2>3, <2>4, RegistryKept
<1> QED
  BY <1>1, <1>2, <1>3, <1>4, <1>5, <1>6, <1>7, <1>8, <1>9, <1>10, <1>11, <1>12, <1>13,
     <1>14, <1>15, <1>16, <1>17, <1>18, <1>19, <1>20, <1>21, <1>22, <1>23, <1>24,
     <1>25, <1>26, <1>27, <1>28, <1>29, <1>30, <1>31, <1>32, <1>33, <1>34
     DEF Next, ThreadStep, AcceptLoop, ReceiveCallback, CloseConnection, StopServer

\* RegistrySpec: the server implements ConnectionRegistry.
THEOREM ImplementsRegistry == Spec => RegistrySpec
<1>1. Init => Registry!Init
  BY DEF Init, Registry!Init, OnlineClients, Over, Online, NoToken
<1>2. IInv /\ CInv /\ [Next]_vars => [Registry!Next]_Registry!registryVars
  BY RegistryStep DEF CInv, Registry!registryVars
<1> QED  BY <1>1, <1>2, Invariants, PTL DEF Spec, RegistrySpec, Registry!Spec

\* At most maxConnections clients are online, at any moment.
THEOREM OnlineWithinLimit == Spec => [](Cardinality(OnlineClients) <= MaxConnections)
<1>1. ASSUME IInv PROVE Cardinality(OnlineClients) <= MaxConnections
  <2>1. /\ Cardinality(Equipped) <= MaxConnections /\ Equipped \subseteq Clients
        /\ OnlineClients \subseteq Equipped
    BY <1>1, EquippedBound DEF OnlineClients, Equipped
  <2>2. Cardinality(OnlineClients) <= Cardinality(Equipped)
    BY <2>1, ClientSets, FS_Subset
  <2> QED  BY <2>1, <2>2, ClientSets, ServerAssumption
<1> QED  BY <1>1, Invariants, PTL

\* A client whose connection is over stays so, and is not online: no race of accept
\* callbacks, receive callbacks, Disconnect and Stop brings an identifier back.
THEOREM NeverBack == Spec => [][\A c \in Over : c \in Over' /\ c \notin OnlineClients']_vars
<1>1. ASSUME IInv, CInv, [Next]_vars
      PROVE  \A c \in Over : c \in Over' /\ c \notin OnlineClients'
  <2>1. [Registry!Next]_<<OnlineClients, Over>>
    BY <1>1, RegistryStep DEF CInv
  <2>2. Over \cap OnlineClients = {}
    BY DEF Over
  <2> QED  BY <2>1, <2>2
         DEF Registry!Next, Registry!Admit, Registry!Refuse, Registry!Retire, Over
<1>2. IInv /\ CInv /\ [Next]_vars
         => [\A c \in Over : c \in Over' /\ c \notin OnlineClients']_vars
  BY <1>1
<1> QED  BY <1>2, Invariants, PTL DEF Spec
===============================================================================
