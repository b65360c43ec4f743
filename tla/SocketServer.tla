----------------------------- MODULE SocketServer -----------------------------
(***************************************************************************)
(* AsyncSocketServer, the lock build (Dictionary tables, no NET40), from   *)
(* the end of Start to the end of Stop: the accept loop, the receive       *)
(* callbacks, Disconnect and Stop, run by completion-port and application  *)
(* threads.  A step is one access to shared state.                         *)
(*                                                                         *)
(* A read SocketAsyncEventArgs and its AsyncSocketTokenEventArgs refer to  *)
(* each other for life, so one number, a token, stands for both.  Every    *)
(* connection gets a fresh Guid and a fresh Socket, so one value, a        *)
(* client, stands for both.                                                *)
(*                                                                         *)
(* An operator commented "Fault" is a broken variant of the action that    *)
(* follows it.  No specification uses it: put in the action's place, it    *)
(* shows that a property can fail.                                         *)
(***************************************************************************)
EXTENDS Integers, Sequences, FiniteSets

CONSTANTS Threads,         \* threads that run callbacks and API calls
          Clients,         \* connection attempts, each made once
          Addresses,       \* client IP addresses
          AddressOf,       \* the address each client connects from
          MaxConnections,  \* maxConnections: read args in the pool
          UseSemaphore,    \* IsSemaphore
          NoClient, NoThread

ASSUME ServerAssumption ==
    /\ MaxConnections \in Nat \ {0}
    /\ IsFiniteSet(Clients)
    /\ AddressOf \in [Clients -> Addresses]
    /\ UseSemaphore \in BOOLEAN
    /\ NoClient \notin Clients
    /\ NoThread \notin Threads

Tokens  == 1..MaxConnections
NoToken == 0

VARIABLES
    isListening,  \* IsListening
    listenOpen,   \* listenSocket is not closed
    accepting,    \* an AcceptAsync is outstanding on listenSocket
    sock,         \* the kernel's and the server's view of each client's socket
    peerGone,     \* clients that closed or reset their end
    readPool,     \* readPool, a FIFO queue of tokens
    conn,         \* token.Socket and token.ConnectionID
    tokens,       \* tokens: connection identifier -> token
    swept,        \* entries of tokens that Stop's foreach has passed
    singleIP,     \* singleIPTokens: address -> token
    num,          \* numConnectedSockets
    permits,      \* count of maxNumberAcceptedClients
    recv,         \* socket of the ReceiveAsync outstanding on a token's args
    lock,         \* holder of the SyncRoot of tokens
    pc,           \* where each thread is
    tok,          \* the token a thread works on
    cli,          \* the connection a thread works for
    after         \* what a thread does once a disconnect has returned

netVars    == <<accepting, sock, peerGone, recv>>
tableVars  == <<conn, tokens, swept, singleIP, lock>>
poolVars   == <<readPool, num, permits>>
serverVars == <<isListening, listenOpen>>
threadVars == <<pc, tok, cli, after>>
vars == <<netVars, tableVars, poolVars, serverVars, threadVars>>

AcceptSteps  == {"pop", "check", "register", "registerIP", "connected",
                 "receive", "startAccept", "acceptAsync"}
RefuseSteps  == {"refuse", "refuseDecrement", "refuseRelease"}
ReceiveSteps == {"received", "rearm"}
DropSteps    == {"dropIP", "drop"}
CloseSteps   == {"close", "decrement", "release", "push"}
StopSteps    == {"stopLock", "stopNext", "stopIP"}
Steps == {"idle", "raise"} \cup AcceptSteps \cup RefuseSteps \cup ReceiveSteps
         \cup DropSteps \cup CloseSteps \cup StopSteps

NetTypes ==
    /\ isListening \in BOOLEAN /\ listenOpen \in BOOLEAN /\ accepting \in BOOLEAN
    /\ sock \in [Clients -> {"absent", "backlog", "accepted", "closed"}]
    /\ peerGone \subseteq Clients
    /\ recv \in [Tokens -> Clients \cup {NoClient}]

TableTypes ==
    /\ conn \in [Tokens -> Clients \cup {NoClient}]
    /\ tokens \in [Clients -> Tokens \cup {NoToken}]
    /\ swept \subseteq Clients
    /\ singleIP \in [Addresses -> Tokens \cup {NoToken}]
    /\ lock \in Threads \cup {NoThread}

PoolTypes ==
    /\ readPool \in Seq(Tokens)
    /\ num \in Int
    /\ permits \in 0..MaxConnections

ThreadTypes ==
    /\ pc \in [Threads -> Steps]
    /\ tok \in [Threads -> Tokens \cup {NoToken}]
    /\ cli \in [Threads -> Clients \cup {NoClient}]
    /\ after \in [Threads -> {"idle", "startAccept", "stopNext"}]

TypeOK == NetTypes /\ TableTypes /\ PoolTypes /\ ThreadTypes

\* IsOnline(connectionId): registered, and not yet swept by Stop
Online(c) == tokens[c] # NoToken /\ c \notin swept
OnlineClients == {c \in Clients : Online(c)}

\* InitializePool and the tail of Start: all args pooled, the first accept armed
Init ==
    /\ isListening = TRUE /\ listenOpen = TRUE /\ accepting = TRUE
    /\ sock = [c \in Clients |-> "absent"]
    /\ peerGone = {}
    /\ readPool = [i \in 1..MaxConnections |-> i]
    /\ conn = [t \in Tokens |-> NoClient]
    /\ tokens = [c \in Clients |-> NoToken]
    /\ swept = {}
    /\ singleIP = [a \in Addresses |-> NoToken]
    /\ num = 0
    /\ permits = IF UseSemaphore THEN MaxConnections - 1 ELSE MaxConnections
    /\ recv = [t \in Tokens |-> NoClient]
    /\ lock = NoThread
    /\ pc = [th \in Threads |-> "idle"]
    /\ tok = [th \in Threads |-> NoToken]
    /\ cli = [th \in Threads |-> NoClient]
    /\ after = [th \in Threads |-> "idle"]

At(th, step) == pc[th] = step
Connected(c) == sock[c] = "accepted"   \* Socket.Connected

\* A thread moves on; one that is done with its callback or call, or with its
\* connection, forgets its locals
Goto(th, step) ==
    /\ pc' = [pc EXCEPT ![th] = step]
    /\ IF step \in {"idle", "startAccept"}
       THEN /\ tok' = [tok EXCEPT ![th] = NoToken]
            /\ cli' = [cli EXCEPT ![th] = NoClient]
            /\ after' = [after EXCEPT ![th] = "idle"]
       ELSE UNCHANGED <<tok, cli, after>>

\* A thread starts on token t for client c, and on return goes to next
Enter(th, step, t, c, next) ==
    /\ pc' = [pc EXCEPT ![th] = step]
    /\ tok' = [tok EXCEPT ![th] = t]
    /\ cli' = [cli EXCEPT ![th] = c]
    /\ after' = [after EXCEPT ![th] = next]

\* Semaphore.Release; the SemaphoreFullException is swallowed
Release == permits' = IF permits < MaxConnections THEN permits + 1 ELSE permits

-------------------------------------------------------------------------------
(* The clients and the network *)

Connect(c) ==
    /\ sock[c] = "absent" /\ listenOpen
    /\ sock' = [sock EXCEPT ![c] = "backlog"]
    /\ UNCHANGED <<accepting, peerGone, recv, tableVars, poolVars, serverVars, threadVars>>

Leave(c) ==
    /\ sock[c] \in {"backlog", "accepted"} /\ c \notin peerGone
    /\ peerGone' = peerGone \cup {c}
    /\ UNCHANGED <<accepting, sock, recv, tableVars, poolVars, serverVars, threadVars>>

-------------------------------------------------------------------------------
(* The accept loop: StartAccept and ProcessAccept *)

\* The completion of AcceptAsync with a client, and the increment.  The callback may
\* run after the listener was closed, or after the client left.
AcceptCompleted(th, c) ==
    /\ At(th, "idle") /\ accepting /\ sock[c] = "backlog"
    /\ accepting' = FALSE
    /\ sock' = [sock EXCEPT ![c] = "accepted"]
    /\ num' = num + 1
    /\ Enter(th, "pop", NoToken, c, "idle")
    /\ UNCHANGED <<peerGone, recv, tableVars, readPool, permits, serverVars>>

\* The completion of AcceptAsync with an error: a client that reset in the
\* backlog, or the listener closed
AcceptFailed(th) ==
    /\ At(th, "idle") /\ accepting
    /\ \/ \E c \in peerGone : /\ sock[c] = "backlog"
                              /\ sock' = [sock EXCEPT ![c] = "closed"]
       \/ ~listenOpen /\ UNCHANGED sock
    /\ accepting' = FALSE
    /\ IF UseSemaphore THEN Release ELSE UNCHANGED permits
    /\ Goto(th, "startAccept")
    /\ UNCHANGED <<peerGone, recv, tableVars, readPool, num, serverVars>>

PopReadArgs(th) ==
    /\ At(th, "pop")
    /\ \/ /\ readPool = <<>>
          /\ Enter(th, "check", NoToken, cli[th], "idle")
          /\ UNCHANGED readPool
       \/ /\ readPool # <<>>
          /\ Enter(th, "check", Head(readPool), cli[th], "idle")
          /\ readPool' = Tail(readPool)
    /\ UNCHANGED <<netVars, tableVars, num, permits, serverVars>>

\* Fault: a client is refused at the limit, not above it
RejectAtLimit(th) ==
    /\ At(th, "check") /\ (num >= MaxConnections \/ tok[th] = NoToken)
    /\ Goto(th, "refuse")
    /\ UNCHANGED <<netVars, tableVars, poolVars, serverVars>>

\* Over the limit: close the socket and return, without StartAccept
Reject(th) ==
    /\ At(th, "check") /\ (num > MaxConnections \/ tok[th] = NoToken)
    /\ Goto(th, "refuse")
    /\ UNCHANGED <<netVars, tableVars, poolVars, serverVars>>

AssignToken(th) ==
    /\ At(th, "check") /\ num <= MaxConnections /\ tok[th] # NoToken
    /\ conn' = [conn EXCEPT ![tok[th]] = cli[th]]
    /\ Goto(th, "register")
    /\ UNCHANGED <<netVars, tokens, swept, singleIP, lock, poolVars, serverVars>>

Register(th) ==
    /\ At(th, "register") /\ lock = NoThread
    /\ tokens' = [tokens EXCEPT ![conn[tok[th]]] = tok[th]]
    /\ Goto(th, "registerIP")
    /\ UNCHANGED <<netVars, conn, swept, singleIP, lock, poolVars, serverVars>>

\* Only the first connection of an address is entered; Connected is raised
RegisterIP(th) ==
    /\ At(th, "registerIP")
    /\ LET a == AddressOf[conn[tok[th]]]
       IN  singleIP' = IF singleIP[a] = NoToken
                       THEN [singleIP EXCEPT ![a] = tok[th]] ELSE singleIP
    /\ Goto(th, "connected")
    /\ UNCHANGED <<netVars, conn, tokens, swept, lock, poolVars, serverVars>>

\* if (token.Socket.Connected), and the finally clause if it is not
CheckConnected(th, here, receive, otherwise) ==
    /\ At(th, here)
    /\ Goto(th, IF Connected(conn[tok[th]]) THEN receive ELSE otherwise)
    /\ UNCHANGED <<netVars, tableVars, poolVars, serverVars>>

\* token.Socket.ReceiveAsync(readEventArg): a disposed socket, or one that was reset,
\* leads to RaiseDisconnectedEvent, args already in use to an exception that is logged
Receive(th, here, return) ==
    /\ At(th, here)
    /\ LET t == tok[th]
           c == conn[t]
       IN \/ /\ ~Connected(c) \/ c \in peerGone
             /\ Enter(th, "dropIP", t, c, return)
             /\ UNCHANGED recv
          \/ /\ Connected(c) /\ recv[t] # NoClient
             /\ Goto(th, return)
             /\ UNCHANGED recv
          \/ /\ Connected(c) /\ recv[t] = NoClient
             /\ recv' = [recv EXCEPT ![t] = c]
             /\ Goto(th, return)
    /\ UNCHANGED <<accepting, sock, peerGone, tableVars, poolVars, serverVars>>

AcceptConnected(th) == CheckConnected(th, "connected", "receive", "startAccept")
AcceptReceive(th)   == Receive(th, "receive", "startAccept")

\* Fault: a permit is taken without waiting for one
StartAcceptUnbounded(th) ==
    /\ At(th, "startAccept")
    /\ permits' = IF UseSemaphore THEN permits - 1 ELSE permits
    /\ Goto(th, "acceptAsync")
    /\ UNCHANGED <<netVars, tableVars, readPool, num, serverVars>>

\* StartAccept up to the semaphore's WaitOne
StartAccept(th) ==
    /\ At(th, "startAccept")
    /\ UseSemaphore => permits > 0
    /\ permits' = IF UseSemaphore THEN permits - 1 ELSE permits
    /\ Goto(th, "acceptAsync")
    /\ UNCHANGED <<netVars, tableVars, readPool, num, serverVars>>

\* listenSocket.AcceptAsync; a closed listener throws and the loop ends
AcceptAsync(th) ==
    /\ At(th, "acceptAsync")
    /\ accepting' = listenOpen
    /\ Goto(th, "idle")
    /\ UNCHANGED <<sock, peerGone, recv, tableVars, poolVars, serverVars>>

-------------------------------------------------------------------------------
(* CloseClientSocket(Socket), for a client that is turned away *)

RefuseClose(th) ==
    /\ At(th, "refuse")
    /\ sock' = [sock EXCEPT ![cli[th]] = "closed"]
    /\ Goto(th, "refuseDecrement")
    /\ UNCHANGED <<accepting, peerGone, recv, tableVars, poolVars, serverVars>>

\* Fault: a refused client stays counted
RefuseUndecremented(th) ==
    /\ At(th, "refuseDecrement")
    /\ Goto(th, IF UseSemaphore THEN "refuseRelease" ELSE "idle")
    /\ UNCHANGED <<netVars, tableVars, poolVars, serverVars>>

RefuseDecrement(th) ==
    /\ At(th, "refuseDecrement")
    /\ num' = num - 1
    /\ Goto(th, IF UseSemaphore THEN "refuseRelease" ELSE "idle")
    /\ UNCHANGED <<netVars, tableVars, readPool, permits, serverVars>>

RefuseRelease(th) ==
    /\ At(th, "refuseRelease")
    /\ Release
    /\ Goto(th, "idle")
    /\ UNCHANGED <<netVars, tableVars, readPool, num, serverVars>>

-------------------------------------------------------------------------------
(* Receive callbacks: IO_Completed and ProcessReceive *)

\* A completion with bytes, which may have been waiting for its callback since before
\* the socket was closed; DataReceived is raised before the socket is looked at
ReceiveData(th, t) ==
    /\ At(th, "idle") /\ recv[t] # NoClient
    /\ recv' = [recv EXCEPT ![t] = NoClient]
    /\ Enter(th, "received", t, recv[t], "idle")
    /\ UNCHANGED <<accepting, sock, peerGone, tableVars, poolVars, serverVars>>

\* Fault: the end of a receive is ignored
ReceiveEndIgnored(th, t) ==
    /\ At(th, "idle")
    /\ recv[t] # NoClient /\ (~Connected(recv[t]) \/ recv[t] \in peerGone)
    /\ recv' = [recv EXCEPT ![t] = NoClient]
    /\ UNCHANGED <<accepting, sock, peerGone, tableVars, poolVars, serverVars, threadVars>>

\* Fault: the socket is closed before the entry is out of the table
ReceiveEndCloses(th, t) ==
    /\ At(th, "idle")
    /\ recv[t] # NoClient /\ (~Connected(recv[t]) \/ recv[t] \in peerGone)
    /\ recv' = [recv EXCEPT ![t] = NoClient]
    /\ sock' = [sock EXCEPT ![recv[t]] = "closed"]
    /\ Enter(th, "dropIP", t, recv[t], "idle")
    /\ UNCHANGED <<accepting, peerGone, tableVars, poolVars, serverVars>>

\* A completion with no bytes or an error: the peer left, or the server closed
\* the socket under the operation
ReceiveEnd(th, t) ==
    /\ At(th, "idle")
    /\ recv[t] # NoClient /\ (~Connected(recv[t]) \/ recv[t] \in peerGone)
    /\ recv' = [recv EXCEPT ![t] = NoClient]
    /\ Enter(th, "dropIP", t, recv[t], "idle")
    /\ UNCHANGED <<accepting, sock, peerGone, tableVars, poolVars, serverVars>>

ReceivedConnected(th) == CheckConnected(th, "received", "rearm", "idle")
ReceiveAgain(th)      == Receive(th, "rearm", "idle")

-------------------------------------------------------------------------------
(* Disconnect, RaiseDisconnectedEvent and CloseClientSocket(token) *)

\* Disconnect(connectionId): the lookup under the lock, which it then releases
Disconnect(th, c) ==
    /\ At(th, "idle") /\ lock = NoThread /\ tokens[c] # NoToken
    /\ Enter(th, "dropIP", tokens[c], c, "idle")
    /\ UNCHANGED <<netVars, tableVars, poolVars, serverVars>>

\* The address entry goes, whichever connection it was made for
DropIP(th) ==
    /\ At(th, "dropIP")
    /\ singleIP' = [singleIP EXCEPT ![AddressOf[conn[tok[th]]]] = NoToken]
    /\ Goto(th, "drop")
    /\ UNCHANGED <<netVars, conn, tokens, swept, lock, poolVars, serverVars>>

\* Fault: the connection is closed whether or not the entry was there to remove
DropUntested(th) ==
    /\ At(th, "drop") /\ lock = NoThread
    /\ LET c == conn[tok[th]]
       IN  /\ tokens' = [tokens EXCEPT ![c] = NoToken]
           /\ lock' = th
           /\ Enter(th, "close", tok[th], c, after[th])
    /\ UNCHANGED <<netVars, conn, swept, singleIP, poolVars, serverVars>>

\* tokens.Remove(token.ConnectionID): whoever removes the entry closes the
\* connection, and keeps the lock until the Disconnected event has returned
Drop(th) ==
    /\ At(th, "drop") /\ lock = NoThread
    /\ LET c == conn[tok[th]]
       IN  \/ /\ tokens[c] # NoToken
              /\ tokens' = [tokens EXCEPT ![c] = NoToken]
              /\ lock' = th
              /\ Enter(th, "close", tok[th], c, after[th])
           \/ /\ tokens[c] = NoToken
              /\ Goto(th, after[th])
              /\ UNCHANGED <<tokens, lock>>
    /\ UNCHANGED <<netVars, conn, swept, singleIP, poolVars, serverVars>>

CloseSocket(th) ==
    /\ At(th, "close")
    /\ sock' = [sock EXCEPT ![conn[tok[th]]] = "closed"]
    /\ Goto(th, "decrement")
    /\ UNCHANGED <<accepting, peerGone, recv, tableVars, poolVars, serverVars>>

Decrement(th) ==
    /\ At(th, "decrement")
    /\ num' = num - 1
    /\ Goto(th, IF UseSemaphore THEN "release" ELSE "push")
    /\ UNCHANGED <<netVars, tableVars, readPool, permits, serverVars>>

\* Fault: a connection that is closed keeps its permit
ReleaseForgotten(th) ==
    /\ At(th, "release")
    /\ Goto(th, "push")
    /\ UNCHANGED <<netVars, tableVars, poolVars, serverVars>>

ReleasePermit(th) ==
    /\ At(th, "release")
    /\ Release
    /\ Goto(th, "push")
    /\ UNCHANGED <<netVars, tableVars, readPool, num, serverVars>>

PushReadArgs(th) ==
    /\ At(th, "push")
    /\ readPool' = Append(readPool, tok[th])
    /\ Goto(th, "raise")
    /\ UNCHANGED <<netVars, tableVars, num, permits, serverVars>>

\* Fault: RaiseDisconnectedEvent returns with the lock
RaiseLocked(th) ==
    /\ At(th, "raise")
    /\ Goto(th, after[th])
    /\ UNCHANGED <<netVars, tableVars, poolVars, serverVars>>

\* The Disconnected event; RaiseDisconnectedEvent then leaves the lock, Stop
\* keeps it for its next entry
RaiseDisconnected(th) ==
    /\ At(th, "raise")
    /\ lock' = IF after[th] = "stopNext" THEN lock ELSE NoThread
    /\ Goto(th, after[th])
    /\ UNCHANGED <<netVars, conn, tokens, swept, singleIP, poolVars, serverVars>>

-------------------------------------------------------------------------------
(* Stop *)

StopBegin(th) ==
    /\ At(th, "idle") /\ isListening
    /\ listenOpen' = FALSE
    /\ Goto(th, "stopLock")
    /\ UNCHANGED <<netVars, tableVars, poolVars, isListening>>

StopLock(th) ==
    /\ At(th, "stopLock") /\ lock = NoThread
    /\ lock' = th
    /\ Goto(th, "stopNext")
    /\ UNCHANGED <<netVars, conn, tokens, swept, singleIP, poolVars, serverVars>>

\* foreach over tokens.Values, and CloseClientSocket(token) on each
StopNext(th, c) ==
    /\ At(th, "stopNext") /\ Online(c)
    /\ swept' = swept \cup {c}
    /\ Enter(th, "close", tokens[c], c, "stopNext")
    /\ UNCHANGED <<netVars, conn, tokens, singleIP, lock, poolVars, serverVars>>

\* Fault: the table is cleared before its connections are closed
StopClearEarly(th) ==
    /\ At(th, "stopNext")
    /\ tokens' = [c \in Clients |-> NoToken]
    /\ swept' = {}
    /\ lock' = NoThread
    /\ Goto(th, "stopIP")
    /\ UNCHANGED <<netVars, conn, singleIP, poolVars, serverVars>>

StopClear(th) ==
    /\ At(th, "stopNext") /\ OnlineClients = {}
    /\ tokens' = [c \in Clients |-> NoToken]
    /\ swept' = {}
    /\ lock' = NoThread
    /\ Goto(th, "stopIP")
    /\ UNCHANGED <<netVars, conn, singleIP, poolVars, serverVars>>

StopIP(th) ==
    /\ At(th, "stopIP")
    /\ singleIP' = [a \in Addresses |-> NoToken]
    /\ isListening' = FALSE
    /\ Goto(th, "idle")
    /\ UNCHANGED <<netVars, conn, tokens, swept, lock, poolVars, listenOpen>>

-------------------------------------------------------------------------------

AcceptLoop(th) ==
    \/ \E c \in Clients : AcceptCompleted(th, c)
    \/ AcceptFailed(th) \/ PopReadArgs(th) \/ Reject(th) \/ AssignToken(th)
    \/ Register(th) \/ RegisterIP(th) \/ AcceptConnected(th) \/ AcceptReceive(th)
    \/ StartAccept(th) \/ AcceptAsync(th)
    \/ RefuseClose(th) \/ RefuseDecrement(th) \/ RefuseRelease(th)

ReceiveCallback(th) ==
    \/ \E t \in Tokens : ReceiveData(th, t) \/ ReceiveEnd(th, t)
    \/ ReceivedConnected(th) \/ ReceiveAgain(th)

CloseConnection(th) ==
    \/ DropIP(th) \/ Drop(th) \/ CloseSocket(th) \/ Decrement(th)
    \/ ReleasePermit(th) \/ PushReadArgs(th) \/ RaiseDisconnected(th)

StopServer(th) ==
    \/ StopLock(th) \/ StopClear(th) \/ StopIP(th)
    \/ \E c \in Clients : StopNext(th, c)

ThreadStep(th) ==
    \/ AcceptLoop(th) \/ ReceiveCallback(th) \/ CloseConnection(th) \/ StopServer(th)

Next ==
    \/ \E c \in Clients : Connect(c) \/ Leave(c)
    \/ \E th \in Threads : \/ ThreadStep(th) \/ StopBegin(th)
                           \/ \E c \in Clients : Disconnect(th, c)

Spec == Init /\ [][Next]_vars

-------------------------------------------------------------------------------
(* Where a token can be *)

Pooled     == {readPool[i] : i \in 1..Len(readPool)}
Closes(th) == pc[th] \in CloseSteps
Owns(th)   == Closes(th) \/ (pc[th] \in {"check", "register"} /\ tok[th] # NoToken)
InUse(t)   == \/ \E c \in Clients : Online(c) /\ tokens[c] = t
              \/ \E th \in Threads : Owns(th) /\ tok[th] = t

PoolExclusive ==
    /\ \A i, j \in 1..Len(readPool) : readPool[i] = readPool[j] => i = j
    /\ \A t \in Pooled : ~InUse(t)

OwnersExclusive ==
    /\ \A c, d \in Clients :
           Online(c) /\ Online(d) /\ tokens[c] = tokens[d] => c = d
    /\ \A th, other \in Threads :
           Owns(th) /\ Owns(other) /\ tok[th] = tok[other] => th = other
    /\ \A th \in Threads, c \in Clients :
           Owns(th) /\ Online(c) => tok[th] # tokens[c]

\* The read args are handed from the pool to the accept callback, to the table
\* and to the thread that closes the connection, and back: never in two of these
\* places, never twice in one (SocketAsyncEventArgs used by two connections).
ReadArgsExclusive == PoolExclusive /\ OwnersExclusive

\* None is lost either, whatever the threads do: no path of the accept loop or of
\* a disconnect drops its args, so the server never loses capacity for good.
ReadArgsConserved == \A t \in Tokens : t \in Pooled \/ InUse(t)

\* A connection found in the table has its own token, whose socket the server has
\* not closed: CloseClientSocket only ever hits a connection already removed.
OnlineSocketIsOpen ==
    \A c \in OnlineClients : conn[tokens[c]] = c /\ Connected(c)

\* While no callback and no call is running
Quiet == \A th \in Threads : pc[th] = "idle"

\* NumConnectedSockets agrees with the table whenever the server is quiet, and is
\* never above the limit by more than the client being turned away.
ConnectionsCounted ==
    /\ Quiet => num = Cardinality(OnlineClients)
    /\ num \in 0..MaxConnections + 1

\* Steps at which the client of a thread is in numConnectedSockets, and those at
\* which it holds a permit of the semaphore
CountSteps  == {"pop", "check", "register", "refuse", "refuseDecrement",
                "close", "decrement"}
PermitSteps == CountSteps \cup {"refuseRelease", "release"}

\* The clients in the table and those that threads at these steps work for
Holders(steps) ==
    {c \in Clients : Online(c) \/ \E th \in Threads : pc[th] \in steps /\ cli[th] = c}

\* An accept that has, or is about to have, its permit
Armed == accepting \/ \E th \in Threads : pc[th] = "acceptAsync"

\* While the server listens, each permit that is out belongs to a connection, to a
\* client that is being accepted, turned away or closed, or to the armed accept: no
\* disconnect or refusal releases twice or forgets to, also when the permit of a
\* connection is released, and taken again, before its read args are pooled.
PermitsCounted ==
    UseSemaphore /\ listenOpen =>
        permits + Cardinality(Holders(PermitSteps)) + (IF Armed THEN 1 ELSE 0)
            = MaxConnections

\* The server implements the registry: at most maxConnections clients online, and
\* an identifier that went offline, or was refused, never comes online again.
Over == {c \in Clients \ OnlineClients :
             sock[c] = "closed" \/ \E th \in Threads : pc[th] = "close" /\ cli[th] = c}
Registry == INSTANCE ConnectionRegistry
                WITH online <- OnlineClients, over <- Over, Capacity <- MaxConnections
RegistrySpec == Registry!Spec

\* Completions are dequeued in order by a pool of threads and locks are granted,
\* so every step that keeps being possible is taken; nothing obliges a client to
\* connect or to leave, or the application to call Disconnect or Stop.
Fairness ==
    /\ \A t \in Tokens : SF_vars(\E th \in Threads : ReceiveEnd(th, t))
    /\ \A th \in Threads : /\ WF_vars(ReceivedConnected(th) \/ ReceiveAgain(th))
                           /\ SF_vars(AcceptLoop(th) /\ pc[th] # "idle")
                           /\ SF_vars(CloseConnection(th))
                           /\ SF_vars(StopServer(th))

FairSpec == Spec /\ Fairness

\* A client that left is taken out of the table, even when its receive callback
\* races a disconnect and the reuse of its token.
GoneIsDropped ==
    \A c \in Clients : (c \in peerGone /\ Online(c)) ~> ~Online(c)

\* Stop always returns, although it waits for the lock with callbacks running.
StopReturns == \A th \in Threads : At(th, "stopLock") ~> At(th, "idle")

-------------------------------------------------------------------------------
(* What the documentation says and the code does not do *)

\* maxConnections bounds the connections handled at the same time
\* (AsyncSocketServer.cs:45), not those ever made: a quiet server that listens and
\* is below the bound has an accept armed.
AcceptStaysArmed ==
    Quiet /\ isListening /\ Cardinality(OnlineClients) < MaxConnections => accepting

\* IsOnline(IPAddress) returns true if the client is online (:332-336).
OnlineByAddress ==
    Quiet /\ isListening => \A c \in OnlineClients : singleIP[AddressOf[c]] # NoToken

\* The Disconnected event names the connection that was closed, so that its
\* handler clears that connection's packages (tcp-server/Program.cs:17-20).
DisconnectedNamesTheClosed ==
    \A th \in Threads : At(th, "raise") => conn[tok[th]] = cli[th]
===============================================================================
