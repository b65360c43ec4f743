--------------------------- MODULE ChatServerProofs ---------------------------
(***************************************************************************)
(* Theorems about ChatServer, for any number of connections and uids and   *)
(* any assignment of client programs to the servers they fit.              *)
(***************************************************************************)
EXTENDS ChatServer, TLAPS

\* Types, and that prog is a function
TypeInv ==
    /\ TypeOK
    /\ prog \in [Conns -> {"tcp-client", "protobuf-client", "sio-client", "ws-client",
                           "ws-client2", "wsn-client", "wsn-w3c-client", "none"}]

\* A login is the first request of its connection, it is made once, and a client that
\* waits for the reply has asked for nothing else
RequestOK(c) ==
    /\ \A i \in 1..Len(requests[c]) :
           requests[c][i].cmd = "login" =>
               i = 1 /\ uid[c] = NoUid /\ requests[c][i].uid \in Uids
    /\ phase[c] = "login" =>
           \A i \in 1..Len(requests[c]) : requests[c][i].cmd = "login"
RequestInv == \A c \in Conns : RequestOK(c)

\* Nothing is known of a connection that is not open yet
UnusedOK(c) ==
    sock[c] = "unused" =>
        /\ requests[c] = <<>> /\ inbox[c] = <<>>
        /\ uid[c] = NoUid /\ phase[c] = "off"
        /\ \A u \in Uids : clients[u] # c
UnusedInv == \A c \in Conns : UnusedOK(c)

\* The servers that keep a table of sockets by uid
Tables == {"tcp", "wsn", "protobuf"}

\* wsn-client.js and wsn-w3c-client.js pass over binary messages
Skips(c) == prog[c] \in {"wsn-client", "wsn-w3c-client"}

\* c waits for the reply, and its splitter has lost nothing
Waits(c) == phase[c] = "login" /\ "inbox" \notin overlapped[c]

\* The reply is the next message of a client that waits for it; until it is written,
\* the table does not list the client's socket
ReplyOK(c) ==
    /\ Alive(c) => sock[c] = "open"
    /\ Waits(c) /\ inbox[c] = <<>> => \A u \in Uids : clients[u] # c
    /\ Waits(c) /\ inbox[c] # <<>> =>
           /\ Head(inbox[c]).cmd = "login"
           /\ Skips(c) => Head(inbox[c]).fmt = "text"
ReplyInv == server \in Tables => \A c \in Conns : ReplyOK(c)

\* The socket of a uid that only one connection has is in the table
UniqueInv ==
    server \in {"tcp", "wsn"} =>
        \A d \in Conns :
            /\ uid[d] # NoUid
            /\ \A e \in Conns \ {d} : uid[e] # uid[d]
            /\ server = "wsn" => sock[d] # "closed"
            => clients[uid[d]] = d

ChatInv == TypeInv /\ RequestInv /\ UnusedInv /\ ReplyInv /\ TableIsLive /\ UniqueInv

-------------------------------------------------------------------------------
(* What a step does *)

\* Who hears of a login: each server its own way
Audience(c, table) ==
    LET u == Head(requests[c]).uid IN
    CASE server = "tcp" -> Broadcast(table)
      [] server = "wsn" -> WsnBroadcast(u, table)
      [] server = "ws"  -> WsBroadcast(u) \ {c}
      [] server = "sio" -> {d \in Conns \ {c} : sock[d] \in {"open", "left"}}
      [] OTHER -> {}

\* A login on any server that remembers the uid
Logs(c) ==
    /\ server # "wsd" /\ up' \in BOOLEAN
    /\ clients' = IF server \in Tables
                  THEN [clients EXCEPT ![Head(requests[c]).uid] = c] ELSE clients
    /\ \E fmt \in Formats : /\ LoginReply(c, Audience(c, clients'), fmt)
                            /\ server = "wsn" /\ IsText(c) => fmt = "text"

\* A client handles its next message
Reads(c) ==
    /\ Alive(c) /\ inbox[c] # <<>>
    /\ \E next \in Phases \ {"off"} :
           /\ ClientTakes(c, next)
           /\ next = "login" => phase[c] = "login"
           /\ Head(inbox[c]).cmd = "login" /\ (Skips(c) => Head(inbox[c]).fmt = "text")
                  => next = "timer"

\* Every request handler is a login, takes a request without effect, or answers one.
LEMMA ServerEffect ==
  ASSUME TypeInv, NEW c \in Conns, ServerStep(c)
  PROVE  \/ Logs(c)
         \/ \E cmd \in {"bigdata", "friends"} : Ignore(c, cmd)
         \/ \E fmt \in Formats : SendFriends(c, fmt)
         \/ server = "wsd" /\ WsdServer(c)
<1> USE DEF TypeInv, TypeOK, Tables, Formats
<1>1. CASE TcpServer(c)
  <2>1. CASE TcpLogin(c)
    BY <1>1, <2>1 DEF TcpServer, TcpLogin, Logs, Audience, IsText
  <2> QED  BY <1>1, <2>1 DEF TcpServer, TcpBigdata, TcpFriends
<1>2. CASE WsServer(c)
  <2>1. ASSUME NEW fmt \in Formats, WsLogin(c, fmt) PROVE Logs(c)
    BY <1>2, <2>1 DEF WsServer, WsLogin, Logs, Audience
  <2> QED  BY <1>2, <2>1 DEF WsServer, WsText, WsBinary
<1>3. CASE WsnServer(c)
  <2>1. ASSUME NEW fmt \in Formats, WsnLogin(c, fmt), IsText(c) => fmt = "text"
        PROVE  Logs(c)
    BY <1>3, <2>1 DEF WsnServer, WsnLogin, Logs, Audience
  <2> QED  BY <1>3, <2>1 DEF WsnServer, WsnText, WsnBinary
<1>4. CASE ProtobufServer(c)
  BY <1>4 DEF ProtobufServer, Logs, Audience
<1>5. CASE SioServer(c)
  <2>1. CASE SioLogin(c)
    BY <1>5, <2>1 DEF SioServer, SioLogin, Logs, Audience
  <2> QED  BY <1>5, <2>1 DEF SioServer
<1>6. CASE WsdServer(c)
  BY <1>6 DEF WsdServer
<1> QED  BY <1>1, <1>2, <1>3, <1>4, <1>5, <1>6 DEF ServerStep

\* Every client program connects, reads, ends on a message it cannot parse, or
\* sends its big messages.
LEMMA ClientEffect ==
  ASSUME TypeInv, NEW c \in Conns, ClientStep(c)
  PROVE  \/ \E p \in Programs[server][c] : Connect(c, p)
         \/ Reads(c)
         \/ Alive(c) /\ ClientCrash(c)
         \/ \E asks \in BOOLEAN : Alive(c) /\ Bigdata(c, asks)
<1>1. ASSUME NEW p, Connect(c, p)
      PROVE  \E q \in Programs[server][c] : Connect(c, q)
  BY <1>1 DEF Connect
<1>2. ASSUME Alive(c), inbox[c] # <<>>, Handled(c, Head(inbox[c]))
      PROVE  Reads(c)
  <2>1. phase[c] \in Phases \ {"off"}
    BY <1>2 DEF Alive, Phases
  <2> QED  BY <1>2, <2>1 DEF Handled, Reads, Phases
<1>3. ASSUME Alive(c), inbox[c] # <<>>, LooksFirst(c), Skips(c)
      PROVE  Reads(c)
  <2>1. phase[c] \in Phases \ {"off"}
    BY <1>3 DEF Alive, Phases
  <2> QED  BY <1>3, <2>1 DEF LooksFirst, Reads, Phases
<1>4. CASE TcpClient(c)
  BY <1>1, <1>2, <1>4 DEF TcpClient, TcpClientConnect, TcpClientData, TcpClientBigdata
<1>5. CASE WsClient(c)
  BY <1>1, <1>2, <1>5 DEF WsClient, WsClientOpen, WsClientMessage, WsClientBigdata
<1>6. CASE WsClient2(c)
  BY <1>1, <1>2, <1>6 DEF WsClient2, WsClient2Open, WsClient2Message, WsClient2Bigdata
<1>7. CASE WsnClient(c)
  BY <1>1, <1>3, <1>7
     DEF WsnClient, WsnClientConnect, WsnClientMessage, WsnClientBigdata, Skips
<1>8. CASE W3cClient(c)
  BY <1>1, <1>3, <1>8
     DEF W3cClient, W3cClientOpen, W3cClientMessage, W3cClientBigdata, Skips
<1>9. CASE SioClient(c)
  <2>1. phase[c] \in Phases \ {"off"} \/ ~Alive(c)
    BY DEF Alive, Phases
  <2>2. ASSUME Alive(c), inbox[c] # <<>>, SioClientEvent(c) PROVE Reads(c)
    BY <2>1, <2>2 DEF SioClientEvent, Reads, Phases
  <2> QED  BY <1>1, <1>9, <2>2 DEF SioClient, SioClientConnect, SioClientBigdata
<1>10. CASE ProtobufClient(c)
  <2>1. ASSUME Alive(c), inbox[c] # <<>>, ProtobufClientData(c) PROVE Reads(c)
    BY <2>1 DEF ProtobufClientData, Reads, Phases
  <2> QED  BY <1>1, <1>10, <2>1
           DEF ProtobufClient, ProtobufClientConnect, ProtobufClientBigdata
<1> QED  BY <1>4, <1>5, <1>6, <1>7, <1>8, <1>9, <1>10 DEF ClientStep

-------------------------------------------------------------------------------
(* The invariant *)

\* What SendTo writes to each inbox.
LEMMA SendToEffect ==
  ASSUME NEW box \in [Conns -> Seq(Messages)], NEW S, NEW m \in Messages
  PROVE  /\ SendTo(S, box, m) \in [Conns -> Seq(Messages)]
         /\ \A d \in Conns : SendTo(S, box, m)[d] =
                IF d \in S /\ sock[d] = "open" THEN Append(box[d], m) ELSE box[d]
BY DEF SendTo

\* What a login writes: the reply, and the announcement behind it.
LEMMA LoginEffect ==
  ASSUME TypeInv, NEW c \in Conns, Logs(c)
  PROVE  \E fmt \in Formats :
           /\ server = "wsn" /\ IsText(c) => fmt = "text"
           /\ inbox' \in [Conns -> Seq(Messages)]
           /\ \A d \in Conns :
                LET replied == IF d = c /\ sock[d] = "open"
                               THEN Append(inbox[d], Msg("login", fmt)) ELSE inbox[d]
                IN  inbox'[d] = IF d \in Audience(c, clients') /\ sock[d] = "open"
                                THEN Append(replied, Msg("laba", fmt)) ELSE replied
<1>1. PICK fmt \in Formats : /\ LoginReply(c, Audience(c, clients'), fmt)
                             /\ server = "wsn" /\ IsText(c) => fmt = "text"
  BY DEF Logs
<1> DEFINE replied == SendTo({c}, inbox, Msg("login", fmt))
           S == Audience(c, clients')
<1>2. /\ Msg("login", fmt) \in Messages /\ Msg("laba", fmt) \in Messages
      /\ inbox \in [Conns -> Seq(Messages)]
  BY DEF Msg, Messages, TypeInv, TypeOK
<1>3. /\ replied \in [Conns -> Seq(Messages)]
      /\ \A d \in Conns : replied[d] = IF d = c /\ sock[d] = "open"
                               THEN Append(inbox[d], Msg("login", fmt)) ELSE inbox[d]
  BY <1>2, SendToEffect
<1>4. inbox' = SendTo(S, replied, Msg("laba", fmt))
  BY <1>1 DEF LoginReply
<1> HIDE DEF replied, S
<1>5. /\ inbox' \in [Conns -> Seq(Messages)]
      /\ \A d \in Conns : inbox'[d] = IF d \in S /\ sock[d] = "open"
                               THEN Append(replied[d], Msg("laba", fmt)) ELSE replied[d]
  BY <1>2, <1>3, <1>4 DEF SendTo
<1> QED  BY <1>1, <1>3, <1>5 DEF S

\* The big messages, and the request for friends after them, are not logins.
LEMMA BigdataEffect ==
  ASSUME TypeInv, NEW c \in Conns, NEW asks \in BOOLEAN, Bigdata(c, asks)
  PROVE  \E more \in Seq(Requests) :
           /\ \A i \in 1..Len(more) : more[i].cmd # "login"
           /\ requests' = [requests EXCEPT ![c] = @ \o more]
           /\ requests' \in [Conns -> Seq(Requests)]
<1> DEFINE big == [i \in 1..BigCount |-> [cmd |-> "bigdata", uid |-> NoUid]]
           ask == IF asks THEN <<[cmd |-> "friends", uid |-> NoUid]>> ELSE <<>>
<1>1. /\ big \in Seq(Requests) /\ Len(big) = BigCount
      /\ \A i \in 1..BigCount : big[i].cmd = "bigdata"
  <2>1. BigCount \in Nat
    BY ChatAssumption
  <2>2. [cmd |-> "bigdata", uid |-> NoUid] \in Requests
    BY DEF Requests
  <2>3. big \in Seq(Requests)
    BY <2>1, <2>2
  <2> QED  BY <2>1, <2>3
<1>2. /\ ask \in Seq(Requests) /\ Len(ask) \in Nat
      /\ \A i \in 1..Len(ask) : ask[i].cmd = "friends"
  <2>1. [cmd |-> "friends", uid |-> NoUid] \in Requests
    BY DEF Requests
  <2> QED  BY <2>1
<1>3. requests \in [Conns -> Seq(Requests)]
  BY DEF TypeInv, TypeOK
<1>4. requests' = [requests EXCEPT ![c] = IF up THEN @ \o big \o ask ELSE @]
  BY DEF Bigdata
<1> HIDE DEF big, ask
<1>5. CASE up
  <2>1. /\ big \o ask \in Seq(Requests)
        /\ \A i \in 1..Len(big \o ask) : (big \o ask)[i].cmd # "login"
    BY <1>1, <1>2, ChatAssumption
  <2>2. requests[c] \o big \o ask = requests[c] \o (big \o ask)
    BY <1>1, <1>2, <1>3
  <2>3. requests' = [requests EXCEPT ![c] = @ \o (big \o ask)]
    BY <1>4, <1>5, <2>2
  <2>4. requests' \in [Conns -> Seq(Requests)]
    BY <1>3, <2>1, <2>3
  <2> DEFINE more == big \o ask
  <2> HIDE DEF more
  <2> QED  BY <2>1, <2>3, <2>4 DEF more
<1>6. CASE ~up
  <2>1. <<>> \in Seq(Requests) /\ requests[c] \o <<>> = requests[c]
    BY <1>3
  <2>2. requests' = [requests EXCEPT ![c] = @ \o <<>>]
    BY <1>3, <1>4, <1>6, <2>1
  <2>3. requests' \in [Conns -> Seq(Requests)]
    BY <1>3, <1>4, <1>6
  <2>4. \A i \in 1..Len(<<>>) : <<>>[i].cmd # "login"
    OBVIOUS
  <2> QED  BY <2>1, <2>2, <2>3, <2>4
<1> QED  BY <1>5, <1>6

\* What the splitters lose are the first messages of one stream; what is left of it
\* keeps its order.
LEMMA OverlapEffect ==
  ASSUME TypeInv, NEW c \in Conns, Overlap(c)
  PROVE  /\ requests' \in [Conns -> Seq(Requests)] /\ inbox' \in [Conns -> Seq(Messages)]
         /\ overlapped' \in [Conns -> SUBSET {"requests", "inbox"}]
         /\ UNCHANGED <<server, up, sock, uid, clients, prog, phase>>
         /\ sock[c] \in {"open", "left"} \/ Alive(c)
         /\ \A d \in Conns \ {c} : requests'[d] = requests[d] /\ inbox'[d] = inbox[d]
         /\ \A d \in Conns : /\ overlapped[d] \subseteq overlapped'[d]
                             /\ inbox'[d] = inbox[d] \/ "inbox" \in overlapped'[d]
         /\ \/ requests'[c] = requests[c]
            \/ \A i \in 1..Len(requests'[c]) : \E j \in 2..Len(requests[c]) :
                   requests'[c][i] = requests[c][j]
<1> USE DEF TypeInv, TypeOK
<1>0. /\ UNCHANGED <<server, up, sock, uid, clients, prog, phase>>
      /\ requests[c] \in Seq(Requests) /\ inbox[c] \in Seq(Messages)
  BY DEF Overlap
<1>1. CASE Loses(requests, c) /\ sock[c] \in {"open", "left"} /\ UNCHANGED inbox
           /\ overlapped' = [overlapped EXCEPT ![c] = @ \cup {"requests"}]
  <2>1. PICK n \in 1..Len(requests[c]) :
            requests' = [requests EXCEPT ![c] = SubSeq(@, n + 1, Len(@))]
    BY <1>1 DEF Loses
  <2> DEFINE rest == SubSeq(requests[c], n + 1, Len(requests[c]))
  <2>2. /\ rest \in Seq(Requests) /\ Len(rest) = Len(requests[c]) - n
        /\ \A i \in 1..Len(rest) : rest[i] = requests[c][i + n]
    BY <1>0
  <2>3. requests' = [requests EXCEPT ![c] = rest]
    BY <2>1
  <2> HIDE DEF rest
  <2>4. \A i \in 1..Len(rest) : i + n \in 2..Len(requests[c])
    BY <1>0, <2>2
  <2>5. \A i \in 1..Len(requests'[c]) : \E j \in 2..Len(requests[c]) :
            requests'[c][i] = requests[c][j]
    BY <2>2, <2>3, <2>4
  <2> QED  BY <1>0, <1>1, <2>2, <2>3, <2>5
<1>2. CASE Loses(inbox, c) /\ Alive(c) /\ UNCHANGED requests
           /\ overlapped' = [overlapped EXCEPT ![c] = @ \cup {"inbox"}]
  <2>1. PICK n \in 1..Len(inbox[c]) :
            inbox' = [inbox EXCEPT ![c] = SubSeq(@, n + 1, Len(@))]
    BY <1>2 DEF Loses
  <2> DEFINE rest == SubSeq(inbox[c], n + 1, Len(inbox[c]))
  <2>2. rest \in Seq(Messages)
    BY <1>0
  <2>3. inbox' = [inbox EXCEPT ![c] = rest]
    BY <2>1
  <2> HIDE DEF rest
  <2> QED  BY <1>0, <1>2, <2>2, <2>3
<1> QED  BY <1>1, <1>2 DEF Overlap

\* Every step keeps every variable's type.
LEMMA TypeStep == TypeInv /\ [Next]_vars => TypeInv'
<1> SUFFICES ASSUME TypeInv, [Next]_vars PROVE TypeInv'
  OBVIOUS
<1> USE DEF TypeInv, TypeOK, Phases
<1>1. ASSUME NEW c \in Conns, Logs(c),
             UNCHANGED <<server, overlapped>>
      PROVE  TypeInv'
  <2>1. /\ requests[c] \in Seq(Requests) /\ requests[c] # <<>>
        /\ requests' = [requests EXCEPT ![c] = Tail(@)]
        /\ Head(requests[c]) \in Requests /\ Tail(requests[c]) \in Seq(Requests)
    BY <1>1 DEF Logs, LoginReply, Take
  <2>2. Head(requests[c]).uid \in Uids \cup {NoUid}
    BY <2>1 DEF Requests
  <2>3. uid' \in [Conns -> Uids \cup {NoUid}]
    BY <1>1, <2>2 DEF Logs, LoginReply
  <2>4. clients' \in [Uids -> Conns \cup {NoConn}]
    BY <1>1 DEF Logs
  <2>5. inbox' \in [Conns -> Seq(Messages)]
    BY <1>1, LoginEffect
  <2>6. up' \in BOOLEAN /\ UNCHANGED <<sock, prog, phase>>
    BY <1>1 DEF Logs, LoginReply
  <2> QED  BY <1>1, <2>1, <2>3, <2>4, <2>5, <2>6
<1>2. ASSUME NEW c \in Conns, NEW cmd \in {"bigdata", "friends"}, Ignore(c, cmd),
             UNCHANGED <<server, overlapped>>
      PROVE  TypeInv'
  <2>1. /\ requests[c] \in Seq(Requests) /\ requests[c] # <<>>
        /\ requests' = [requests EXCEPT ![c] = Tail(@)]
        /\ Head(requests[c]) \in Requests /\ Tail(requests[c]) \in Seq(Requests)
    BY <1>2 DEF Ignore, Take
  <2> QED  BY <1>2, <2>1 DEF Ignore, Take
<1>3. ASSUME NEW c \in Conns, NEW fmt \in Formats, SendFriends(c, fmt),
             UNCHANGED <<server, overlapped>>
      PROVE  TypeInv'
  <2>1. /\ requests[c] \in Seq(Requests) /\ requests[c] # <<>>
        /\ requests' = [requests EXCEPT ![c] = Tail(@)]
        /\ Head(requests[c]) \in Requests /\ Tail(requests[c]) \in Seq(Requests)
    BY <1>3 DEF SendFriends, Take
  <2>2. Msg("friends", fmt) \in Messages
    BY DEF Msg, Messages
  <2>3. inbox' \in [Conns -> Seq(Messages)]
    BY <1>3, <2>2, SendToEffect DEF SendFriends
  <2> QED  BY <1>3, <2>1, <2>3 DEF SendFriends
<1>4. ASSUME NEW c \in Conns, server = "wsd", WsdServer(c),
             UNCHANGED <<server, overlapped>>
      PROVE  TypeInv'
  <2>1. requests' \in [Conns -> Seq(Requests)]
    <3>1. <<>> \in Seq(Requests) /\ Tail(requests[c]) \in Seq(Requests)
      BY <1>4 DEF WsdServer
    <3>2. \/ requests' = [requests EXCEPT ![c] = Tail(@)]
          \/ requests' = [requests EXCEPT ![c] = <<>>]
      BY <1>4 DEF WsdServer, WsdEnds
    <3> QED  BY <3>1, <3>2
  <2>2. Msg("login", "text") \in Messages
    BY DEF Msg, Messages, Formats
  <2>3. inbox' \in [Conns -> Seq(Messages)]
    <3>1. CASE inbox' = SendTo({c}, inbox, Msg("login", "text"))
      BY <2>2, <3>1, SendToEffect
    <3> QED  BY <1>4, <3>1 DEF WsdServer, WsdEnds
  <2>4. sock' \in [Conns -> {"unused", "open", "left", "closed"}]
    BY <1>4 DEF WsdServer, WsdEnds
  <2> QED  BY <1>4, <2>1, <2>3, <2>4 DEF WsdServer
<1>5. ASSUME NEW c \in Conns, NEW p \in Programs[server][c], Connect(c, p),
             UNCHANGED <<server, overlapped>>
      PROVE  TypeInv'
  <2>1. PICK u \in Uids :
            requests' = [requests EXCEPT ![c] = <<[cmd |-> "login", uid |-> u]>>]
    BY <1>5 DEF Connect
  <2>2. [cmd |-> "login", uid |-> u] \in Requests
    BY DEF Requests
  <2>3. requests' \in [Conns -> Seq(Requests)]
    BY <2>1, <2>2
  <2>4. p \in Fitting(server)
    BY <1>5, ChatAssumption
  <2>5. prog' \in [Conns -> {"tcp-client", "protobuf-client", "sio-client", "ws-client",
                          "ws-client2", "wsn-client", "wsn-w3c-client", "none"}]
    BY <1>5, <2>4 DEF Connect, Fitting
  <2> QED  BY <1>5, <2>3, <2>5 DEF Connect
<1>6. ASSUME NEW c \in Conns, Reads(c),
             UNCHANGED <<server, overlapped>>
      PROVE  TypeInv'
  BY <1>6 DEF Reads, ClientTakes
<1>7. ASSUME NEW c \in Conns, Alive(c), ClientCrash(c),
             UNCHANGED <<server, overlapped>>
      PROVE  TypeInv'
  BY <1>7 DEF ClientCrash
<1>8. ASSUME NEW c \in Conns, NEW asks \in BOOLEAN, Alive(c), Bigdata(c, asks),
             UNCHANGED <<server, overlapped>>
      PROVE  TypeInv'
  <2>1. requests' \in [Conns -> Seq(Requests)]
    BY <1>8, BigdataEffect
  <2> QED  BY <1>8, <2>1 DEF Bigdata
<1>9. ASSUME NEW c \in Conns, Leave(c),
             UNCHANGED <<server, overlapped>>
      PROVE  TypeInv'
  BY <1>9 DEF Leave
<1>10. ASSUME NEW c \in Conns, Closed(c),
             UNCHANGED <<server, overlapped>>
      PROVE  TypeInv'
  <2>1. clients' \in [Uids -> Conns \cup {NoConn}]
    BY <1>10 DEF Closed, WsnClose
  <2>2. requests' \in [Conns -> Seq(Requests)]
    BY <1>10 DEF Closed
  <2> QED  BY <1>10, <2>1, <2>2 DEF Closed
<1>11. CASE UNCHANGED vars
  BY <1>11 DEF vars
<1>12. ASSUME NEW c \in Conns, Overlap(c) PROVE TypeInv'
  BY <1>12, OverlapEffect
<1> HIDE DEF TypeInv, UnusedInv
<1> QED
  BY <1>1, <1>2, <1>3, <1>4, <1>5, <1>6, <1>7, <1>8, <1>9, <1>10, <1>11, <1>12,
     ServerEffect, ClientEffect DEF Next, Step

\* Requests that only get fewer, from the front, stay in order.
LEMMA RequestTaken ==
  ASSUME TypeInv, NEW c \in Conns, RequestOK(c), requests[c] # <<>>,
         \/ requests'[c] = Tail(requests[c]) \/ requests'[c] = <<>>,
         phase'[c] = "login" => phase[c] = "login"
  PROVE  /\ \A i \in 1..Len(requests'[c]) : requests'[c][i].cmd # "login"
         /\ phase'[c] = "login" => requests'[c] = <<>>
         /\ RequestOK(c)'
<1>1. CASE requests'[c] = <<>>
  BY <1>1 DEF RequestOK
<1>2. CASE requests'[c] = Tail(requests[c])
  <2>1. \A i \in 1..Len(requests'[c]) : /\ i + 1 \in 1..Len(requests[c])
                                        /\ requests'[c][i] = requests[c][i + 1]
    BY <1>2 DEF TypeInv, TypeOK
  <2>2. \A i \in 1..Len(requests'[c]) : requests'[c][i].cmd # "login"
    <3>1. TAKE i \in 1..Len(requests'[c])
    <3>2. i + 1 # 1
      OBVIOUS
    <3> QED  BY <2>1, <3>2 DEF RequestOK
  <2>3. phase'[c] = "login" => Len(requests'[c]) = 0
    <3>1. HAVE phase'[c] = "login"
    <3>2. Len(requests'[c]) \in Nat /\ ~ (1 \in 1..Len(requests'[c]))
      BY <1>2, <2>1, <2>2, <3>1 DEF RequestOK, TypeInv, TypeOK
    <3> QED  BY <3>2
  <2>4. requests'[c] \in Seq(Requests)
    BY <1>2 DEF TypeInv, TypeOK
  <2> QED  BY <2>2, <2>3, <2>4 DEF RequestOK
<1> QED  BY <1>1, <1>2

\* Requests that a step leaves alone stay in order.
LEMMA RequestKept ==
  ASSUME NEW c \in Conns, RequestOK(c), requests'[c] = requests[c], uid'[c] = uid[c],
         phase'[c] = "login" => phase[c] = "login"
  PROVE  RequestOK(c)'
BY DEF RequestOK

\* What is true of the requests stays so.
LEMMA RequestStep == TypeInv /\ UnusedInv /\ RequestInv /\ [Next]_vars => RequestInv'
<1> SUFFICES ASSUME TypeInv, UnusedInv, RequestInv, [Next]_vars,
                    NEW d \in Conns
             PROVE  RequestOK(d)'
  BY DEF RequestInv
<1>0. RequestOK(d) /\ UnusedOK(d)
  BY DEF RequestInv, UnusedInv
<1>t. TypeInv
  OBVIOUS
<1> HIDE DEF UnusedInv, RequestInv, TypeInv
<1>1. ASSUME NEW c \in Conns, Logs(c),
             UNCHANGED <<server, overlapped>>
      PROVE  RequestOK(d)'
  <2>1. /\ requests[c] # <<>> /\ requests'[c] = Tail(requests[c])
        /\ phase' = phase /\ (d # c => requests'[d] = requests[d] /\ uid'[d] = uid[d])
    BY <1>1, <1>t DEF Logs, LoginReply, Take, TypeInv, TypeOK
  <2>2. CASE d = c
    BY <1>0, <1>t, <2>1, <2>2, RequestTaken
  <2>3. CASE d # c
    BY <1>0, <2>1, <2>3, RequestKept
  <2> QED  BY <2>2, <2>3
<1>2. ASSUME NEW c \in Conns, NEW cmd \in {"bigdata", "friends"}, Ignore(c, cmd),
             UNCHANGED <<server, overlapped>>
      PROVE  RequestOK(d)'
  <2>1. /\ requests[c] # <<>> /\ requests'[c] = Tail(requests[c])
        /\ phase' = phase /\ (d # c => requests'[d] = requests[d] /\ uid'[d] = uid[d])
    BY <1>2, <1>t DEF Ignore, Take, TypeInv, TypeOK
  <2>2. CASE d = c
    BY <1>0, <1>t, <2>1, <2>2, RequestTaken
  <2>3. CASE d # c
    BY <1>0, <2>1, <2>3, RequestKept
  <2> QED  BY <2>2, <2>3
<1>3. ASSUME NEW c \in Conns, NEW fmt \in Formats, SendFriends(c, fmt),
             UNCHANGED <<server, overlapped>>
      PROVE  RequestOK(d)'
  <2>1. /\ requests[c] # <<>> /\ requests'[c] = Tail(requests[c])
        /\ phase' = phase /\ (d # c => requests'[d] = requests[d] /\ uid'[d] = uid[d])
    BY <1>3, <1>t DEF SendFriends, Take, TypeInv, TypeOK
  <2>2. CASE d = c
    BY <1>0, <1>t, <2>1, <2>2, RequestTaken
  <2>3. CASE d # c
    BY <1>0, <2>1, <2>3, RequestKept
  <2> QED  BY <2>2, <2>3
<1>4. ASSUME NEW c \in Conns, server = "wsd", WsdServer(c),
             UNCHANGED <<server, overlapped>>
      PROVE  RequestOK(d)'
  <2>1. CASE d = c
    <3>1. /\ requests'[c] = Tail(requests[c]) \/ requests'[c] = <<>>
          /\ requests[c] # <<>> /\ phase' = phase
      BY <1>4, <1>t DEF WsdServer, WsdEnds, TypeInv, TypeOK
    <3> QED  BY <1>0, <2>1, <3>1, RequestTaken
  <2>2. CASE d # c
    <3>1. requests'[d] = requests[d] /\ UNCHANGED <<phase, uid>>
      BY <1>4, <1>t, <2>2 DEF WsdServer, WsdEnds, TypeInv, TypeOK
    <3> QED  BY <1>0, <3>1, RequestKept
  <2> QED  BY <2>1, <2>2
<1>5. ASSUME NEW c \in Conns, NEW p \in Programs[server][c], Connect(c, p),
             UNCHANGED <<server, overlapped>>
      PROVE  RequestOK(d)'
  <2>1. PICK u \in Uids :
            requests' = [requests EXCEPT ![c] = <<[cmd |-> "login", uid |-> u]>>]
    BY <1>5 DEF Connect
  <2>2. CASE d = c
    <3>1. uid'[c] = NoUid
      BY <1>5, <1>0, <2>2 DEF Connect, UnusedOK
    <3>2. Len(requests'[c]) = 1 /\ requests'[c][1] = [cmd |-> "login", uid |-> u]
      BY <1>t, <2>1 DEF TypeInv, TypeOK
    <3> QED  BY <2>2, <3>1, <3>2 DEF RequestOK
  <2>3. CASE d # c
    <3>1. requests'[d] = requests[d] /\ uid' = uid /\ phase'[d] = phase[d]
      BY <1>5, <1>t, <2>1, <2>3 DEF Connect, TypeInv, TypeOK
    <3> QED  BY <1>0, <3>1, RequestKept
  <2> QED  BY <2>2, <2>3
<1>6. ASSUME NEW c \in Conns, Reads(c),
             UNCHANGED <<server, overlapped>>
      PROVE  RequestOK(d)'
  <2>1. /\ UNCHANGED <<requests, uid>>
        /\ phase'[d] = "login" => phase[d] = "login"
    BY <1>6, <1>t DEF Reads, ClientTakes, TypeInv, TypeOK
  <2> QED  BY <1>0, <2>1, RequestKept
<1>7. ASSUME NEW c \in Conns, Alive(c), ClientCrash(c),
             UNCHANGED <<server, overlapped>>
      PROVE  RequestOK(d)'
  <2>1. /\ UNCHANGED <<requests, uid>>
        /\ phase'[d] = "login" => phase[d] = "login"
    BY <1>7, <1>t DEF ClientCrash, TypeInv, TypeOK
  <2> QED  BY <1>0, <2>1, RequestKept
<1>8. ASSUME NEW c \in Conns, NEW asks \in BOOLEAN, Alive(c), Bigdata(c, asks),
             UNCHANGED <<server, overlapped>>
      PROVE  RequestOK(d)'
  <2>1. PICK more \in Seq(Requests) :
             /\ \A i \in 1..Len(more) : more[i].cmd # "login"
             /\ requests' = [requests EXCEPT ![c] = @ \o more]
    BY <1>8, <1>t, BigdataEffect
  <2>2. phase'[c] # "login" /\ UNCHANGED uid /\ (d # c => phase'[d] = phase[d])
    BY <1>8, <1>t DEF Bigdata, TypeInv, TypeOK
  <2>3. CASE d = c
    <3>1. requests'[c] = requests[c] \o more /\ requests[c] \in Seq(Requests)
      BY <1>t, <2>1 DEF TypeInv, TypeOK
    <3>2. ASSUME NEW i \in 1..Len(requests'[c])
          PROVE  \/ i \in 1..Len(requests[c]) /\ requests'[c][i] = requests[c][i]
                 \/ requests'[c][i].cmd # "login"
      <4>1. CASE i \in 1..Len(requests[c])
        BY <3>1, <4>1
      <4>2. CASE i \notin 1..Len(requests[c])
        <5>1. /\ i - Len(requests[c]) \in 1..Len(more)
              /\ requests'[c][i] = more[i - Len(requests[c])]
          BY <3>1, <4>2
        <5> QED  BY <2>1, <5>1
      <4> QED  BY <4>1, <4>2
    <3> QED  BY <1>0, <2>2, <2>3, <3>2 DEF RequestOK
  <2>4. CASE d # c
    <3>1. requests'[d] = requests[d]
      BY <1>t, <2>1, <2>4 DEF TypeInv, TypeOK
    <3> QED  BY <1>0, <2>2, <2>4, <3>1, RequestKept
  <2> QED  BY <2>3, <2>4
<1>9. ASSUME NEW c \in Conns, Leave(c),
             UNCHANGED <<server, overlapped>>
      PROVE  RequestOK(d)'
  <2>1. /\ UNCHANGED <<requests, uid>>
        /\ phase'[d] = "login" => phase[d] = "login"
    BY <1>9, <1>t DEF Leave, TypeInv, TypeOK
  <2> QED  BY <1>0, <2>1, RequestKept
<1>10. ASSUME NEW c \in Conns, Closed(c),
             UNCHANGED <<server, overlapped>>
      PROVE  RequestOK(d)'
  <2>1. CASE d = c
    <3>1. requests'[c] = <<>>
      BY <1>10, <1>t DEF Closed, TypeInv, TypeOK
    <3> QED  BY <2>1, <3>1 DEF RequestOK
  <2>2. CASE d # c
    <3>1. requests'[d] = requests[d] /\ UNCHANGED <<phase, uid>>
      BY <1>10, <1>t, <2>2 DEF Closed, TypeInv, TypeOK
    <3> QED  BY <1>0, <3>1, RequestKept
  <2> QED  BY <2>1, <2>2
<1>11. CASE UNCHANGED vars
  BY <1>0, <1>11, RequestKept DEF vars
<1>12. ASSUME NEW c \in Conns, Overlap(c) PROVE RequestOK(d)'
  <2>1. UNCHANGED <<uid, phase>> /\ (d # c => requests'[d] = requests[d])
    BY <1>12, <1>t, OverlapEffect
  <2>2. CASE requests'[d] = requests[d]
    BY <1>0, <2>1, <2>2, RequestKept
  <2>3. CASE d = c /\ \A i \in 1..Len(requests'[c]) : \E j \in 2..Len(requests[c]) :
                         requests'[c][i] = requests[c][j]
    <3>1. /\ \A j \in 2..Len(requests[c]) : j \in 1..Len(requests[c]) /\ j # 1
      BY <1>t DEF TypeInv, TypeOK
    <3>2. /\ \A j \in 2..Len(requests[c]) : requests[c][j].cmd # "login"
      BY <1>0, <2>3, <3>1 DEF RequestOK
    <3>3. phase[c] = "login" => 2..Len(requests[c]) = {}
      BY <1>0, <2>3, <3>1, <3>2 DEF RequestOK
    <3> QED  BY <2>1, <2>3, <3>2, <3>3 DEF RequestOK
  <2> QED  BY <1>12, <1>t, <2>1, <2>2, <2>3, OverlapEffect
<1> HIDE DEF TypeInv, UnusedInv
<1> QED
  BY <1>1, <1>2, <1>3, <1>4, <1>5, <1>6, <1>7, <1>8, <1>9, <1>10, <1>11, <1>12,
     ServerEffect, ClientEffect DEF Next, Step

\* A connection that is not open yet stays unknown.
LEMMA UnusedStep == TypeInv /\ UnusedInv /\ [Next]_vars => UnusedInv'
<1> SUFFICES ASSUME TypeInv, UnusedInv, [Next]_vars PROVE UnusedInv'
  OBVIOUS
<1> USE DEF TypeInv, TypeOK, UnusedInv, UnusedOK
<1>1. ASSUME NEW c \in Conns, Logs(c),
             UNCHANGED <<server, overlapped>>
      PROVE  UnusedInv'
  <2>1. /\ sock[c] # "unused" /\ sock' = sock /\ phase' = phase
        /\ \A d \in Conns \ {c} : requests'[d] = requests[d] /\ uid'[d] = uid[d]
        /\ \A u \in Uids : clients'[u] = clients[u] \/ clients'[u] = c
    BY <1>1 DEF Logs, LoginReply, Take
  <2>2. \A d \in Conns \ {c} : sock[d] = "unused" => inbox'[d] = inbox[d]
    BY <1>1, LoginEffect
  <2> QED  BY <2>1, <2>2
<1>2. ASSUME NEW c \in Conns, NEW cmd \in {"bigdata", "friends"}, Ignore(c, cmd),
             UNCHANGED <<server, overlapped>>
      PROVE  UnusedInv'
  BY <1>2 DEF Ignore, Take
<1>3. ASSUME NEW c \in Conns, NEW fmt \in Formats, SendFriends(c, fmt),
             UNCHANGED <<server, overlapped>>
      PROVE  UnusedInv'
  <2>1. \A d \in Conns \ {c} : inbox'[d] = inbox[d]
    BY <1>3 DEF SendFriends, SendTo
  <2> QED  BY ZenonT(30), <1>3, <2>1 DEF SendFriends, Take
<1>4. ASSUME NEW c \in Conns, server = "wsd", WsdServer(c),
             UNCHANGED <<server, overlapped>>
      PROVE  UnusedInv'
  <2>1. \A d \in Conns \ {c} : inbox'[d] = inbox[d]
    BY <1>4 DEF WsdServer, WsdEnds, SendTo
  <2>2. /\ \A d \in Conns \ {c} : requests'[d] = requests[d] /\ sock'[d] = sock[d]
        /\ sock'[c] # "unused" /\ UNCHANGED <<uid, phase, clients>>
    BY <1>4 DEF WsdServer, WsdEnds
  <2> QED  BY <2>1, <2>2
<1>5. ASSUME NEW c \in Conns, NEW p \in Programs[server][c], Connect(c, p),
             UNCHANGED <<server, overlapped>>
      PROVE  UnusedInv'
  <2>1. /\ \A d \in Conns \ {c} : requests'[d] = requests[d] /\ sock'[d] = sock[d]
        /\ \A d \in Conns \ {c} : phase'[d] = phase[d]
        /\ sock'[c] # "unused" /\ UNCHANGED <<uid, inbox, clients>>
    BY <1>5 DEF Connect
  <2> QED  BY <2>1
<1>6. ASSUME NEW c \in Conns, Reads(c),
             UNCHANGED <<server, overlapped>>
      PROVE  UnusedInv'
  <2>1. phase[c] # "off" /\ sock[c] # "unused"
    BY <1>6 DEF Reads, Alive
  <2>2. /\ \A d \in Conns \ {c} : inbox'[d] = inbox[d] /\ phase'[d] = phase[d]
        /\ UNCHANGED <<sock, uid, requests, clients>>
    BY <1>6 DEF Reads, ClientTakes
  <2> QED  BY <2>1, <2>2
<1>7. ASSUME NEW c \in Conns, Alive(c), ClientCrash(c),
             UNCHANGED <<server, overlapped>>
      PROVE  UnusedInv'
  BY <1>7 DEF ClientCrash
<1>8. ASSUME NEW c \in Conns, NEW asks \in BOOLEAN, Alive(c), Bigdata(c, asks),
             UNCHANGED <<server, overlapped>>
      PROVE  UnusedInv'
  <2>1. phase[c] # "off" /\ sock[c] # "unused"
    BY <1>8 DEF Alive
  <2>2. /\ \A d \in Conns \ {c} : requests'[d] = requests[d] /\ phase'[d] = phase[d]
        /\ UNCHANGED <<sock, uid, inbox, clients>>
    BY <1>8 DEF Bigdata
  <2> QED  BY <2>1, <2>2
<1>9. ASSUME NEW c \in Conns, Leave(c),
             UNCHANGED <<server, overlapped>>
      PROVE  UnusedInv'
  BY <1>9 DEF Leave
<1>10. ASSUME NEW c \in Conns, Closed(c),
             UNCHANGED <<server, overlapped>>
      PROVE  UnusedInv'
  <2>1. /\ \A d \in Conns \ {c} : requests'[d] = requests[d] /\ sock'[d] = sock[d]
        /\ sock'[c] # "unused" /\ UNCHANGED <<uid, inbox, phase>>
        /\ \A u \in Uids : clients'[u] = clients[u] \/ clients'[u] = NoConn
    BY <1>10 DEF Closed, WsnClose
  <2> QED  BY <2>1, ChatAssumption
<1>11. CASE UNCHANGED vars
  BY <1>11 DEF vars
<1>12. ASSUME NEW c \in Conns, Overlap(c) PROVE UnusedInv'
  <2>1. /\ UNCHANGED <<sock, uid, clients, phase>>
        /\ \A d \in Conns \ {c} : requests'[d] = requests[d] /\ inbox'[d] = inbox[d]
        /\ sock[c] \in {"open", "left"} \/ phase[c] # "off"
    BY <1>12, OverlapEffect DEF Alive
  <2> QED  BY <2>1
<1> HIDE DEF TypeInv, UnusedInv
<1> QED
  BY <1>1, <1>2, <1>3, <1>4, <1>5, <1>6, <1>7, <1>8, <1>9, <1>10, <1>11, <1>12,
     ServerEffect, ClientEffect DEF Next, Step


-------------------------------------------------------------------------------
(* The reply comes first *)

\* The head of a queue to which a message is added.
LEMMA HeadOfAppend ==
  ASSUME NEW s \in Seq(Messages), NEW m \in Messages
  PROVE  /\ Append(s, m) \in Seq(Messages) /\ Append(s, m) # <<>>
         /\ s # <<>> => Head(Append(s, m)) = Head(s)
         /\ s = <<>> => Head(Append(s, m)) = m
<1>1. Append(s, m) \in Seq(Messages) /\ Append(s, m) # <<>>
  <2>1. Append(s, m) \in Seq(Messages) /\ Len(Append(s, m)) = Len(s) + 1
    OBVIOUS
  <2>2. Len(s) \in Nat /\ Len(<<>>) = 0
    OBVIOUS
  <2> QED  BY <2>1, <2>2
<1>2. CASE s # <<>>
  BY <1>1, <1>2
<1>3. CASE s = <<>>
  BY <1>1, <1>3
<1> QED  BY <1>1, <1>2, <1>3

\* A client that passes over binary messages talks to wsn-server.js, in text.
LEMMA SkipsIsText ==
  ASSUME TypeInv, server \in Tables, NEW c \in Conns, Skips(c)
  PROVE  server = "wsn" /\ IsText(c)
<1>1. prog[c] \in Fitting(server)
  BY ChatAssumption DEF TypeInv, TypeOK, Skips
<1> QED  BY <1>1 DEF Fitting, Tables, Skips, IsText

\* The servers with a table announce a login to sockets the table lists.
LEMMA AudienceListed ==
  ASSUME server \in Tables, NEW c \in Conns, NEW d \in Audience(c, clients')
  PROVE  \E u \in Uids : clients'[u] = d
BY DEF Audience, Tables, Broadcast, Listed, WsnBroadcast

\* The reply stays first for a connection that a step leaves alone.
LEMMA ReplyKept ==
  ASSUME NEW c \in Conns, ReplyOK(c), inbox'[c] = inbox[c], sock'[c] = sock[c],
         prog'[c] = prog[c], phase'[c] = phase[c],
         overlapped[c] \subseteq overlapped'[c],
         \A u \in Uids : clients'[u] = c => clients[u] = c
  PROVE  ReplyOK(c)'
BY DEF ReplyOK, Alive, Skips, Waits

\* Every step leaves the reply first: it is written in the handler that lists the socket.
LEMMA ReplyStep ==
  TypeInv /\ UnusedInv /\ RequestInv /\ ReplyInv /\ [Next]_vars => ReplyInv'
<1> SUFFICES ASSUME TypeInv, UnusedInv, RequestInv, ReplyInv, [Next]_vars,
                    server' \in Tables, NEW d \in Conns
             PROVE  ReplyOK(d)'
  BY DEF ReplyInv
<1>s. server \in Tables
  BY DEF Next, Step, Overlap, vars
<1>0. \A c \in Conns : RequestOK(c) /\ UnusedOK(c) /\ ReplyOK(c)
  BY <1>s DEF RequestInv, UnusedInv, ReplyInv
<1>t. TypeInv
  OBVIOUS
<1> HIDE DEF UnusedInv, RequestInv, ReplyInv, TypeInv
<1>1. ASSUME NEW c \in Conns, Logs(c),
             UNCHANGED <<server, overlapped>>
      PROVE  ReplyOK(d)'
  <2>1. PICK fmt \in Formats :
           /\ server = "wsn" /\ IsText(c) => fmt = "text"
           /\ inbox'[d] = LET replied == IF d = c /\ sock[d] = "open"
                                         THEN Append(inbox[d], Msg("login", fmt)) ELSE inbox[d]
                          IN  IF d \in Audience(c, clients') /\ sock[d] = "open"
                              THEN Append(replied, Msg("laba", fmt)) ELSE replied
    BY <1>1, <1>t, LoginEffect
  <2>2. /\ UNCHANGED <<sock, prog, phase>>
        /\ \A u \in Uids : clients'[u] = clients[u] \/ clients'[u] = c
    BY <1>1, <1>t DEF Logs, LoginReply, TypeInv, TypeOK
  <2>3. /\ inbox[d] \in Seq(Messages)
        /\ Msg("login", fmt) \in Messages /\ Msg("laba", fmt) \in Messages
        /\ Msg("login", fmt).cmd = "login" /\ Msg("login", fmt).fmt = fmt
    BY <1>t DEF TypeInv, TypeOK, Msg, Messages
  <2>4. CASE ~Waits(d)
    BY <1>0, <1>1, <2>2, <2>4 DEF ReplyOK, Alive, Waits
  <2>5. CASE Waits(d) /\ inbox[d] # <<>>
    <3> DEFINE replied == IF d = c /\ sock[d] = "open"
                          THEN Append(inbox[d], Msg("login", fmt)) ELSE inbox[d]
    <3>1. /\ replied \in Seq(Messages) /\ replied # <<>>
          /\ Head(replied) = Head(inbox[d])
      BY <2>3, <2>5, HeadOfAppend
    <3> HIDE DEF replied
    <3>2. inbox'[d] # <<>> /\ Head(inbox'[d]) = Head(inbox[d])
      BY <2>1, <2>3, <3>1, HeadOfAppend DEF replied
    <3> QED  BY <1>0, <1>1, <2>2, <2>5, <3>2 DEF ReplyOK, Alive, Skips, Waits
  <2>6. CASE Waits(d) /\ inbox[d] = <<>> /\ d # c
    <3>1. d \notin Audience(c, clients')
      BY <1>0, <1>1, <1>s, <2>2, <2>6, AudienceListed DEF ReplyOK, Waits
    <3>2. inbox'[d] = <<>>
      BY <2>1, <2>6, <3>1
    <3> QED  BY <1>0, <1>1, <2>2, <2>6, <3>2 DEF ReplyOK, Alive, Skips, Waits
  <2>7. CASE Waits(d) /\ inbox[d] = <<>> /\ d = c
    <3>1. sock[c] = "open"
      BY <1>0, <1>1, <2>7 DEF ReplyOK, Alive, Waits
    <3>2. inbox'[d] # <<>> /\ Head(inbox'[d]) = Msg("login", fmt)
      BY <2>1, <2>3, <2>7, <3>1, HeadOfAppend
    <3>3. Skips(d) => fmt = "text"
      BY <1>s, <1>t, <2>1, <2>7, SkipsIsText
    <3> QED  BY <1>0, <1>1, <2>2, <2>3, <2>7, <3>2, <3>3 DEF ReplyOK, Alive, Skips, Waits
  <2> QED  BY <2>4, <2>5, <2>6, <2>7
<1>2. ASSUME NEW c \in Conns, NEW cmd \in {"bigdata", "friends"}, Ignore(c, cmd),
             UNCHANGED <<server, overlapped>>
      PROVE  ReplyOK(d)'
  <2>1. /\ inbox'[d] = inbox[d] /\ sock'[d] = sock[d] /\ prog'[d] = prog[d]
        /\ phase'[d] = phase[d] /\ UNCHANGED clients
    BY <1>2, <1>t DEF Ignore, Take, TypeInv, TypeOK
  <2> QED  BY <1>0, <1>2, <2>1, ReplyKept
<1>3. ASSUME NEW c \in Conns, NEW fmt \in Formats, SendFriends(c, fmt),
             UNCHANGED <<server, overlapped>>
      PROVE  ReplyOK(d)'
  <2>1. CASE d = c
    <3>1. requests[c] # <<>> /\ Head(requests[c]).cmd = "friends" /\ UNCHANGED <<phase, sock>>
      BY <1>3 DEF SendFriends, Take
    <3>2. requests[c] \in Seq(Requests) /\ 1 \in 1..Len(requests[c])
          /\ Head(requests[c]) = requests[c][1]
      BY <1>t, <3>1 DEF TypeInv, TypeOK
    <3>3. phase[c] # "login"
      BY <1>0, <3>1, <3>2 DEF RequestOK
    <3> QED  BY <1>0, <1>3, <2>1, <3>1, <3>3 DEF ReplyOK, Alive, Waits
  <2>2. CASE d # c
    <3>1. /\ inbox'[d] = inbox[d] /\ sock'[d] = sock[d] /\ prog'[d] = prog[d]
          /\ phase'[d] = phase[d] /\ UNCHANGED clients
      BY <1>3, <1>t, <2>2 DEF SendFriends, Take, SendTo, TypeInv, TypeOK
    <3> QED  BY <1>0, <1>3, <3>1, ReplyKept
  <2> QED  BY <2>1, <2>2
<1>4. ASSUME NEW c \in Conns, server = "wsd", WsdServer(c),
             UNCHANGED <<server, overlapped>>
      PROVE  ReplyOK(d)'
  BY <1>4, <1>s DEF Tables
<1>5. ASSUME NEW c \in Conns, NEW p \in Programs[server][c], Connect(c, p),
             UNCHANGED <<server, overlapped>>
      PROVE  ReplyOK(d)'
  <2>1. CASE d = c
    <3>1. /\ inbox'[c] = inbox[c] /\ sock'[c] = "open" /\ phase'[c] = "login"
          /\ sock[c] = "unused" /\ UNCHANGED clients
      BY <1>5, <1>t DEF Connect, TypeInv, TypeOK
    <3> QED  BY <1>0, <1>5, <2>1, <3>1 DEF ReplyOK, UnusedOK, Waits
  <2>2. CASE d # c
    <3>1. /\ inbox'[d] = inbox[d] /\ sock'[d] = sock[d] /\ prog'[d] = prog[d]
          /\ phase'[d] = phase[d] /\ UNCHANGED clients
      BY <1>5, <1>t, <2>2 DEF Connect, TypeInv, TypeOK
    <3> QED  BY <1>0, <1>5, <3>1, ReplyKept
  <2> QED  BY <2>1, <2>2
<1>6. ASSUME NEW c \in Conns, Reads(c),
             UNCHANGED <<server, overlapped>>
      PROVE  ReplyOK(d)'
  <2>1. CASE d = c
    <3>1. sock'[c] = "open"
      BY <1>6, <1>0 DEF Reads, ClientTakes, ReplyOK
    <3>2. ~Waits(c)'
      BY <1>6, <1>0, <1>t DEF Reads, ClientTakes, ReplyOK, Waits, TypeInv, TypeOK
    <3> QED  BY <2>1, <3>1, <3>2 DEF ReplyOK
  <2>2. CASE d # c
    <3>1. /\ inbox'[d] = inbox[d] /\ sock'[d] = sock[d] /\ prog'[d] = prog[d]
          /\ phase'[d] = phase[d] /\ UNCHANGED clients
      BY <1>6, <1>t, <2>2 DEF Reads, ClientTakes, TypeInv, TypeOK
    <3> QED  BY <1>0, <1>6, <3>1, ReplyKept
  <2> QED  BY <2>1, <2>2
<1>7. ASSUME NEW c \in Conns, Alive(c), ClientCrash(c),
             UNCHANGED <<server, overlapped>>
      PROVE  ReplyOK(d)'
  <2>1. CASE d = c
    <3>1. phase'[c] = "crashed"
      BY <1>7, <1>t DEF ClientCrash, TypeInv, TypeOK
    <3> QED  BY <2>1, <3>1 DEF ReplyOK, Alive, Waits
  <2>2. CASE d # c
    <3>1. /\ inbox'[d] = inbox[d] /\ sock'[d] = sock[d] /\ prog'[d] = prog[d]
          /\ phase'[d] = phase[d] /\ UNCHANGED clients
      BY <1>7, <1>t, <2>2 DEF ClientCrash, TypeInv, TypeOK
    <3> QED  BY <1>0, <1>7, <3>1, ReplyKept
  <2> QED  BY <2>1, <2>2
<1>8. ASSUME NEW c \in Conns, NEW asks \in BOOLEAN, Alive(c), Bigdata(c, asks),
             UNCHANGED <<server, overlapped>>
      PROVE  ReplyOK(d)'
  <2>1. CASE d = c
    <3>1. /\ phase'[c] \in {"asked", "done"} /\ sock'[c] = sock[c]
      BY <1>8, <1>t DEF Bigdata, TypeInv, TypeOK
    <3>2. sock[c] = "open"
      BY <1>8, <1>0 DEF ReplyOK, Waits
    <3> QED  BY <2>1, <3>1, <3>2 DEF ReplyOK, Waits
  <2>2. CASE d # c
    <3>1. /\ inbox'[d] = inbox[d] /\ sock'[d] = sock[d] /\ prog'[d] = prog[d]
          /\ phase'[d] = phase[d] /\ UNCHANGED clients
      BY <1>8, <1>t, <2>2 DEF Bigdata, TypeInv, TypeOK
    <3> QED  BY <1>0, <1>8, <3>1, ReplyKept
  <2> QED  BY <2>1, <2>2
<1>9. ASSUME NEW c \in Conns, Leave(c),
             UNCHANGED <<server, overlapped>>
      PROVE  ReplyOK(d)'
  <2>1. CASE d = c
    <3>1. phase'[c] = "left"
      BY <1>9, <1>t DEF Leave, TypeInv, TypeOK
    <3> QED  BY <2>1, <3>1 DEF ReplyOK, Alive, Waits
  <2>2. CASE d # c
    <3>1. /\ inbox'[d] = inbox[d] /\ sock'[d] = sock[d] /\ prog'[d] = prog[d]
          /\ phase'[d] = phase[d] /\ UNCHANGED clients
      BY <1>9, <1>t, <2>2 DEF Leave, TypeInv, TypeOK
    <3> QED  BY <1>0, <1>9, <3>1, ReplyKept
  <2> QED  BY <2>1, <2>2
<1>10. ASSUME NEW c \in Conns, Closed(c),
             UNCHANGED <<server, overlapped>>
      PROVE  ReplyOK(d)'
  <2>1. CASE d = c
    <3>1. sock[c] = "left" /\ phase' = phase
      BY <1>10 DEF Closed
    <3>2. ~Alive(c)
      BY <1>0, <1>10, <3>1 DEF ReplyOK, Waits
    <3> QED  BY <2>1, <3>1, <3>2 DEF ReplyOK, Alive, Waits
  <2>2. CASE d # c
    <3>1. /\ inbox'[d] = inbox[d] /\ sock'[d] = sock[d] /\ prog'[d] = prog[d]
          /\ phase'[d] = phase[d]
      BY <1>10, <1>t, <2>2 DEF Closed, TypeInv, TypeOK
    <3>2. \A u \in Uids : clients'[u] = d => clients[u] = d
      BY <1>10, <1>t, ChatAssumption DEF Closed, WsnClose, TypeInv, TypeOK
    <3> QED  BY <1>0, <1>10, <3>1, <3>2, ReplyKept
  <2> QED  BY <2>1, <2>2
<1>11. CASE UNCHANGED vars
  BY <1>0, <1>11, ReplyKept DEF vars
<1>12. ASSUME NEW c \in Conns, Overlap(c) PROVE ReplyOK(d)'
  <2>1. /\ UNCHANGED <<sock, prog, phase, clients>>
        /\ overlapped[d] \subseteq overlapped'[d]
        /\ inbox'[d] = inbox[d] \/ "inbox" \in overlapped'[d]
    BY <1>12, <1>t, OverlapEffect
  <2> QED  BY <1>0, <2>1 DEF ReplyOK, Alive, Skips, Waits
<1> QED
  BY <1>1, <1>2, <1>3, <1>4, <1>5, <1>6, <1>7, <1>8, <1>9, <1>10, <1>11, <1>12,
     ServerEffect, ClientEffect DEF Next, Step

-------------------------------------------------------------------------------
(* The table *)

\* Only a login and the handling of a close change the table, what the servers know of
\* uids, and whether a socket is closed; without a table, only a login changes uids.
LEMMA TableChanges ==
  ASSUME TypeInv, ReplyInv, [Next]_vars
  PROVE  /\ UNCHANGED server
         /\ \/ \E c \in Conns : Logs(c)
            \/ \E c \in Conns : Closed(c)
            \/ (server \notin Tables /\ UNCHANGED uid)
            \/ /\ UNCHANGED <<uid, clients>>
               /\ \A d \in Conns : sock'[d] = "closed" <=> sock[d] = "closed"
<1> DEFINE Quiet == /\ UNCHANGED <<uid, clients>>
                    /\ \A d \in Conns : sock'[d] = "closed" <=> sock[d] = "closed"
<1>1. ASSUME NEW c \in Conns, NEW cmd \in {"bigdata", "friends"}, Ignore(c, cmd)
      PROVE  Quiet
  BY <1>1 DEF Ignore
<1>2. ASSUME NEW c \in Conns, NEW fmt \in Formats, SendFriends(c, fmt)
      PROVE  Quiet
  BY <1>2 DEF SendFriends
<1>3. ASSUME NEW c \in Conns, server = "wsd", WsdServer(c)
      PROVE  server \notin Tables /\ UNCHANGED uid
  BY <1>3 DEF WsdServer, Tables
<1>4. ASSUME NEW c \in Conns, NEW p \in Programs[server][c], Connect(c, p)
      PROVE  Quiet
  BY <1>4 DEF Connect, TypeInv, TypeOK
<1>5. ASSUME NEW c \in Conns, Reads(c) PROVE Quiet
  BY <1>5 DEF Reads, ClientTakes
<1>6. ASSUME NEW c \in Conns, Alive(c), ClientCrash(c)
      PROVE  Quiet \/ (server \notin Tables /\ UNCHANGED uid)
  BY <1>6 DEF ClientCrash, TypeInv, TypeOK, ReplyInv, ReplyOK
<1>7. ASSUME NEW c \in Conns, NEW asks \in BOOLEAN, Bigdata(c, asks)
      PROVE  Quiet
  BY <1>7 DEF Bigdata
<1>8. ASSUME NEW c \in Conns, Leave(c) PROVE Quiet
  BY <1>8 DEF Leave, TypeInv, TypeOK
<1>9. CASE UNCHANGED vars
  <2>1. Quiet /\ UNCHANGED server
    BY <1>9 DEF vars
  <2> QED  BY <2>1
<1>10. CASE Next
  <2>1. PICK c \in Conns :
            Step(ServerStep(c) \/ ClientStep(c) \/ Leave(c) \/ Closed(c)) \/ Overlap(c)
    BY <1>10 DEF Next
  <2>2. UNCHANGED server
    BY <2>1 DEF Step, Overlap
  <2>6. CASE Overlap(c)
    <3>1. Quiet
      BY <2>6 DEF Overlap
    <3> HIDE DEF Quiet
    <3> QED  BY <2>2, <3>1 DEF Quiet
  <2> HIDE DEF Quiet
  <2>3. CASE ServerStep(c)
    <3>1. \/ Logs(c)
          \/ \E cmd \in {"bigdata", "friends"} : Ignore(c, cmd)
          \/ \E fmt \in Formats : SendFriends(c, fmt)
          \/ server = "wsd" /\ WsdServer(c)
      BY <2>3, ServerEffect
    <3>2. Logs(c) \/ Quiet \/ (server \notin Tables /\ UNCHANGED uid)
      BY <1>1, <1>2, <1>3, <3>1
    <3> QED  BY <2>2, <3>2 DEF Quiet
  <2>4. CASE ClientStep(c)
    <3>1. \/ \E p \in Programs[server][c] : Connect(c, p)
          \/ Reads(c)
          \/ Alive(c) /\ ClientCrash(c)
          \/ \E asks \in BOOLEAN : Alive(c) /\ Bigdata(c, asks)
      BY <2>4, ClientEffect
    <3>2. Quiet \/ (server \notin Tables /\ UNCHANGED uid)
      BY <1>4, <1>5, <1>6, <1>7, <3>1
    <3> QED  BY <2>2, <3>2 DEF Quiet
  <2>5. CASE Leave(c) \/ Closed(c)
    <3>1. Closed(c) \/ Quiet
      BY <1>8, <2>5
    <3> QED  BY <2>2, <3>1 DEF Quiet
  <2> QED  BY <2>1, <2>3, <2>4, <2>5, <2>6 DEF Step
<1> QED  BY <1>9, <1>10

\* What a login does to the table and to the uids: the connection had none.
LEMMA LogsUid ==
  ASSUME TypeInv, RequestInv, NEW c \in Conns, Logs(c)
  PROVE  \E u \in Uids :
           /\ u = Head(requests[c]).uid
           /\ uid[c] = NoUid /\ sock[c] \in {"open", "left"} /\ UNCHANGED sock
           /\ uid' = [uid EXCEPT ![c] = u]
           /\ clients' = IF server \in Tables
                         THEN [clients EXCEPT ![u] = c] ELSE clients
<1>1. /\ requests[c] # <<>> /\ Head(requests[c]).cmd = "login"
      /\ sock[c] \in {"open", "left"} /\ UNCHANGED sock
      /\ uid' = [uid EXCEPT ![c] = Head(requests[c]).uid]
      /\ clients' = IF server \in Tables
                    THEN [clients EXCEPT ![Head(requests[c]).uid] = c] ELSE clients
  BY DEF Logs, LoginReply, Take
<1>2. /\ requests[c] \in Seq(Requests) /\ 1 \in 1..Len(requests[c])
      /\ Head(requests[c]) = requests[c][1]
  BY <1>1 DEF TypeInv, TypeOK
<1>3. uid[c] = NoUid /\ Head(requests[c]).uid \in Uids
  BY <1>1, <1>2 DEF RequestInv, RequestOK
<1> QED  BY <1>1, <1>3

\* wsn-server.js: the table stays live.  A socket that closes is listed under its own
\* uid or not at all, so that deleting clients[ws.uid] takes it off.
LEMMA TableStep ==
  TypeInv /\ RequestInv /\ ReplyInv /\ TableIsLive /\ [Next]_vars => TableIsLive'
<1> SUFFICES ASSUME TypeInv, RequestInv, ReplyInv, TableIsLive, [Next]_vars, server' = "wsn",
                    NEW u \in Uids, clients'[u] # NoConn
             PROVE  sock'[clients'[u]] # "closed" /\ uid'[clients'[u]] = u
  BY DEF TableIsLive
<1>s. server = "wsn" /\ server \in Tables
  BY TableChanges DEF Tables
<1>t. /\ sock \in [Conns -> {"unused", "open", "left", "closed"}]
      /\ uid \in [Conns -> Uids \cup {NoUid}]
      /\ clients \in [Uids -> Conns \cup {NoConn}]
      /\ NoUid \notin Uids
  BY ChatAssumption DEF TypeInv, TypeOK
<1>0. clients[u] # NoConn =>
          clients[u] \in Conns /\ sock[clients[u]] # "closed" /\ uid[clients[u]] = u
  BY <1>s, <1>t DEF TableIsLive
<1>1. CASE \E c \in Conns : Logs(c)
  <2>1. PICK c \in Conns : Logs(c)
    BY <1>1
  <2>2. PICK v \in Uids :
           /\ uid[c] = NoUid /\ sock[c] \in {"open", "left"} /\ UNCHANGED sock
           /\ uid' = [uid EXCEPT ![c] = v] /\ clients' = [clients EXCEPT ![v] = c]
    BY <1>s, <2>1, LogsUid
  <2> QED  BY <1>t, <1>0, <2>2
<1>2. CASE \E c \in Conns : Closed(c)
  <2>1. PICK c \in Conns : Closed(c)
    BY <1>2
  <2>2. /\ sock' = [sock EXCEPT ![c] = "closed"] /\ UNCHANGED uid
        /\ clients' = IF uid[c] = NoUid THEN clients ELSE [clients EXCEPT ![uid[c]] = NoConn]
    BY <1>s, <2>1 DEF Closed, WsnClose
  <2> QED  BY <1>t, <1>0, <2>2
<1>3. CASE UNCHANGED <<uid, clients>>
           /\ \A d \in Conns : sock'[d] = "closed" <=> sock[d] = "closed"
  BY <1>0, <1>3
<1> QED  BY <1>s, <1>1, <1>2, <1>3, TableChanges

\* A uid that only one connection has leads to its socket.
LEMMA UniqueStep ==
  TypeInv /\ RequestInv /\ ReplyInv /\ UniqueInv /\ [Next]_vars => UniqueInv'
<1> SUFFICES ASSUME TypeInv, RequestInv, ReplyInv, UniqueInv, [Next]_vars,
                    server' \in {"tcp", "wsn"}, NEW d \in Conns,
                    uid'[d] # NoUid, \A e \in Conns \ {d} : uid'[e] # uid'[d],
                    server' = "wsn" => sock'[d] # "closed"
             PROVE  clients'[uid'[d]] = d
  BY DEF UniqueInv
<1>s. server' = server /\ server \in {"tcp", "wsn"} /\ server \in Tables
  BY TableChanges DEF Tables
<1>t. /\ sock \in [Conns -> {"unused", "open", "left", "closed"}]
      /\ uid \in [Conns -> Uids \cup {NoUid}]
      /\ clients \in [Uids -> Conns \cup {NoConn}]
      /\ NoUid \notin Uids
  BY ChatAssumption DEF TypeInv, TypeOK
<1>0. (/\ uid[d] # NoUid /\ \A e \in Conns \ {d} : uid[e] # uid[d]
       /\ server = "wsn" => sock[d] # "closed") => clients[uid[d]] = d
  BY <1>s DEF UniqueInv
<1>1. CASE \E c \in Conns : Logs(c)
  <2>1. PICK c \in Conns : Logs(c)
    BY <1>1
  <2>2. PICK v \in Uids :
           /\ uid[c] = NoUid /\ UNCHANGED sock
           /\ uid' = [uid EXCEPT ![c] = v] /\ clients' = [clients EXCEPT ![v] = c]
    BY <1>s, <2>1, LogsUid
  <2>3. CASE d = c
    BY <1>t, <2>2, <2>3
  <2>4. CASE d # c
    <3>1. uid'[d] = uid[d] /\ uid[d] # v /\ uid[d] \in Uids
      BY <1>t, <2>2, <2>4
    <3>2. \A e \in Conns \ {d} : uid[e] # uid[d]
      BY <1>t, <2>2, <3>1
    <3> QED  BY <1>s, <1>t, <1>0, <2>2, <3>1, <3>2
  <2> QED  BY <2>3, <2>4
<1>2. CASE \E c \in Conns : Closed(c)
  <2>1. PICK c \in Conns : Closed(c)
    BY <1>2
  <2>2. /\ sock' = [sock EXCEPT ![c] = "closed"] /\ UNCHANGED uid
        /\ clients' = IF server # "wsn" \/ uid[c] = NoUid
                      THEN clients ELSE [clients EXCEPT ![uid[c]] = NoConn]
    BY <1>s, <2>1 DEF Closed, WsnClose
  <2>3. CASE server = "tcp"
    BY <1>0, <2>2, <2>3
  <2>4. CASE server = "wsn"
    <3>1. d # c /\ sock[d] # "closed" /\ uid[c] # uid[d]
      BY <1>s, <1>t, <2>2, <2>4
    <3> QED  BY <1>t, <1>0, <2>2, <2>4, <3>1
  <2> QED  BY <1>s, <2>3, <2>4
<1>3. CASE UNCHANGED <<uid, clients>>
           /\ \A e \in Conns : sock'[e] = "closed" <=> sock[e] = "closed"
  BY <1>s, <1>0, <1>3
<1> QED  BY <1>s, <1>1, <1>2, <1>3, TableChanges

-------------------------------------------------------------------------------
(* The theorems *)

\* The invariant holds at the start.
LEMMA InitInv == Init => ChatInv
<1> SUFFICES ASSUME Init PROVE ChatInv
  OBVIOUS
<1> USE ChatAssumption DEF Init
<1>1. TypeInv
  BY DEF TypeInv, TypeOK, Phases
<1>2. RequestInv /\ UnusedInv
  BY DEF RequestInv, RequestOK, UnusedInv, UnusedOK
<1>3. ReplyInv /\ TableIsLive /\ UniqueInv
  BY DEF ReplyInv, ReplyOK, Alive, Waits, TableIsLive, UniqueInv
<1> QED  BY <1>1, <1>2, <1>3 DEF ChatInv

\* The inductive invariant.
THEOREM ChatInvAlways == Spec => []ChatInv
<1>1. ChatInv /\ [Next]_vars => ChatInv'
  BY TypeStep, RequestStep, UnusedStep, ReplyStep, TableStep, UniqueStep DEF ChatInv
<1> QED  BY <1>1, InitInv, PTL DEF Spec

\* Every variable keeps its type: in particular only programs that fit the server ever
\* open a connection to it.
THEOREM ChatTypeCorrect == Spec => []TypeOK
<1>1. ChatInv => TypeOK
  BY DEF ChatInv, TypeInv
<1> QED  BY <1>1, ChatInvAlways, PTL

\* The reply to a login is the first message of its connection on the servers that keep
\* a table of sockets.
THEOREM ReplyFirstAlways == Spec => []ReplyFirst
<1>1. ChatInv => ReplyFirst
  BY DEF ChatInv, ReplyInv, ReplyOK, Waits, ReplyFirst, Tables
<1> QED  BY <1>1, ChatInvAlways, PTL

\* The table of wsn-server.js lists open sockets under their own uids.
THEOREM TableIsLiveAlways == Spec => []TableIsLive
<1>1. ChatInv => TableIsLive
  BY DEF ChatInv
<1> QED  BY <1>1, ChatInvAlways, PTL

\* The last message of an inbox that an announcement reached.
LEMMA HeardOnce ==
  ASSUME TypeInv, NEW c \in Conns, NEW d \in Conns \ {c}, Logs(c), sock[d] = "open",
         d \in Audience(c, clients')
  PROVE  Hears(d, c)
<1>1. PICK fmt \in Formats : inbox'[d] = Append(inbox[d], Msg("laba", fmt))
  BY LoginEffect
<1>2. inbox[d] \in Seq(Messages) /\ Msg("laba", fmt) \in Messages
  BY DEF TypeInv, TypeOK, Msg, Messages
<1>3. /\ Len(inbox'[d]) = Len(inbox[d]) + 1
      /\ inbox'[d][Len(inbox'[d])] = Msg("laba", fmt)
  BY <1>1, <1>2
<1>4. inbox'[d] # inbox[d]
  BY <1>2, <1>3
<1> QED  BY <1>3, <1>4 DEF Hears, Msg

\* The step in which the uid of a connection becomes known is its login.
LEMMA LogsInStep ==
  ASSUME TypeInv, RequestInv, ReplyInv, [Next]_vars, NEW c \in Conns, LogsIn(c)
  PROVE  Logs(c)
<1>1. uid' # uid
  BY DEF LogsIn
<1>2. CASE \E e \in Conns : Logs(e)
  <2>1. PICK e \in Conns : Logs(e)
    BY <1>2
  <2>2. PICK u \in Uids : uid' = [uid EXCEPT ![e] = u]
    BY <2>1, LogsUid
  <2>3. e = c
    BY <2>2 DEF LogsIn, TypeInv, TypeOK
  <2> QED  BY <2>1, <2>3
<1> QED  BY <1>1, <1>2, TableChanges DEF Closed

\* ws-server.js and sio-server.js announce a login to everybody in the room.
THEOREM AnnouncedToAllAlways == Spec => AnnouncedToAll
<1>1. ASSUME ChatInv, [Next]_vars, NEW c \in Conns, NEW d \in Conns,
             server \in {"ws", "sio"}, c # d, LogsIn(c), InRoom(d, c)
      PROVE  Hears(d, c)
  <2>1. TypeInv /\ RequestInv /\ ReplyInv
    BY <1>1 DEF ChatInv
  <2>2. Logs(c)
    BY <1>1, <2>1, LogsInStep
  <2>3. uid'[c] = Head(requests[c]).uid
    BY <2>1, <2>2 DEF Logs, LoginReply, TypeInv, TypeOK
  <2>4. d \in Audience(c, clients') /\ sock[d] = "open"
    BY <1>1, <2>3 DEF InRoom, Audience, WsBroadcast
  <2> QED  BY <1>1, <2>1, <2>2, <2>4, HeardOnce
<1>2. ChatInv /\ [Next]_vars =>
        [\A c, d \in Conns :
          server \in {"ws", "sio"} /\ c # d /\ LogsIn(c) /\ InRoom(d, c) => Hears(d, c)]_vars
  BY <1>1
<1> QED  BY <1>2, ChatInvAlways, PTL DEF Spec, AnnouncedToAll

\* tcp-server.js and wsn-server.js announce a login to each socket in the room whose uid
\* no other connection has.
THEOREM AnnouncedWhileUniqueAlways == Spec => AnnouncedWhileUnique
<1>1. ASSUME ChatInv, [Next]_vars, NEW c \in Conns, NEW d \in Conns,
             server \in {"tcp", "wsn"}, c # d, LogsIn(c), InRoom(d, c),
             \A e \in Conns \ {d} : uid[e] # uid[d]
      PROVE  Hears(d, c)
  <2>1. TypeInv /\ RequestInv /\ ReplyInv
    BY <1>1 DEF ChatInv
  <2>2. Logs(c)
    BY <1>1, <2>1, LogsInStep
  <2>3. PICK u \in Uids : /\ u = Head(requests[c]).uid /\ uid' = [uid EXCEPT ![c] = u]
                          /\ clients' = [clients EXCEPT ![u] = c]
    BY <1>1, <2>1, <2>2, LogsUid DEF Tables
  <2>4. /\ sock[d] = "open" /\ uid[d] \in Uids /\ uid[d] # u
        /\ clients \in [Uids -> Conns \cup {NoConn}]
    BY <1>1, <2>1, <2>3 DEF InRoom, TypeInv, TypeOK
  <2>5. clients[uid[d]] = d
    BY <1>1, <2>4, ChatAssumption DEF ChatInv, UniqueInv
  <2>6. clients'[uid[d]] = d /\ d # NoConn
    BY <2>3, <2>4, <2>5, ChatAssumption
  <2>7. d \in Audience(c, clients')
    BY <1>1, <2>3, <2>4, <2>6 DEF Audience, Broadcast, Listed, WsnBroadcast
  <2> QED  BY <1>1, <2>1, <2>2, <2>4, <2>7, HeardOnce
<1>2. ChatInv /\ [Next]_vars =>
        [\A c, d \in Conns :
          /\ server \in {"tcp", "wsn"}
          /\ c # d /\ LogsIn(c) /\ InRoom(d, c)
          /\ \A e \in Conns \ {d} : uid[e] # uid[d]
          => Hears(d, c)]_vars
  BY <1>1
<1> QED  BY <1>2, ChatInvAlways, PTL DEF Spec, AnnouncedWhileUnique
===============================================================================
