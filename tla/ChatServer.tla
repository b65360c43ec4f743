------------------------------ MODULE ChatServer ------------------------------
(***************************************************************************)
(* The Node chat servers (tcp-server.js, ws-server.js, wsn-server.js,      *)
(* protobuf-server.js, sio-server.js), the websocketd script               *)
(* wsd-server-script.js and the client programs beside them.               *)
(* Every server does the same job: a client logs in with a uid, gets a     *)
(* reply, and the login is announced ("laba") to the others.  They differ  *)
(* in how they remember who is there and in whom they announce a login to. *)
(*                                                                         *)
(* A connection is a reliable stream in both directions: requests[c] and   *)
(* inbox[c].  The TCP programs split it with an ExBuffer at either end,    *)
(* which loses messages when it overlaps (Overlap; module ExBuffer shows   *)
(* how).  Bodies are left out; the format of a message (JSON text or       *)
(* binary) matters.                                                        *)
(***************************************************************************)
EXTENDS Naturals, Sequences

CONSTANTS Conns,      \* connections a run may open; a client that comes back is another one
          Uids,       \* what tools.randInt(10000, 99999) may return: not unique
          NoUid, NoConn,
          Programs,   \* [server program -> [connection -> client programs that may open it]]
          BigCount,   \* "bigdata" messages of a client: 10 in the code
          InboxFull   \* messages to a client that make 1024 bytes: some 30 in the code

\* The client programs that speak the protocol of a server: those of the TCP servers
\* and of socket.io have one each, the WebSocket clients fit every WebSocket server.
Fitting(s) ==
    CASE s = "tcp"      -> {"tcp-client"}
      [] s = "protobuf" -> {"protobuf-client"}
      [] s = "sio"      -> {"sio-client"}
      [] OTHER -> {"ws-client", "ws-client2", "wsn-client", "wsn-w3c-client"}

ASSUME ChatAssumption ==
    /\ NoUid \notin Uids
    /\ NoConn \notin Conns
    /\ DOMAIN Programs \subseteq {"tcp", "ws", "wsn", "protobuf", "sio", "wsd"}
    /\ \A s \in DOMAIN Programs : Programs[s] \in [Conns -> SUBSET Fitting(s)]
    /\ BigCount \in Nat /\ InboxFull \in Nat

VARIABLES
    server,     \* which server program listens on port 3000
    up,         \* the server process runs
    sock,       \* the server's socket: unused, open, left (the peer is gone), closed (and it knows)
    uid,        \* client.uid or ws.uid
    clients,    \* the table clients[uid] of the servers that keep one
    requests,   \* what the client has sent and the server has not handled
    inbox,      \* what the server has sent and the client has not handled
    prog,       \* the program at the other end
    phase,      \* how far that program is
    overlapped  \* the splitters of the connection that have overlapped: of which streams

vars == <<server, up, sock, uid, clients, requests, inbox, prog, phase, overlapped>>

Formats == {"text", "binary", "event"}
Requests == [cmd : {"login", "bigdata", "friends"}, uid : Uids \cup {NoUid}]
Messages == [cmd : {"login", "laba", "friends"}, fmt : Formats]

\* "login": waiting for the reply; "timer": the 2 seconds before bigdata; "asked":
\* friends requested; "done": nothing more to do.
Phases == {"off", "login", "timer", "asked", "done", "left", "crashed"}

TypeOK ==
    /\ server \in DOMAIN Programs
    /\ up \in BOOLEAN
    /\ sock \in [Conns -> {"unused", "open", "left", "closed"}]
    /\ uid \in [Conns -> Uids \cup {NoUid}]
    /\ clients \in [Uids -> Conns \cup {NoConn}]
    /\ requests \in [Conns -> Seq(Requests)]
    /\ inbox \in [Conns -> Seq(Messages)]
    /\ \A c \in Conns : prog[c] \in Programs[server][c] \cup {"none"}
    /\ phase \in [Conns -> Phases]
    /\ overlapped \in [Conns -> SUBSET {"requests", "inbox"}]

Init ==
    /\ server \in DOMAIN Programs
    /\ up = TRUE
    /\ sock = [c \in Conns |-> "unused"]
    /\ uid = [c \in Conns |-> NoUid]
    /\ clients = [u \in Uids |-> NoConn]
    /\ requests = [c \in Conns |-> <<>>]
    /\ inbox = [c \in Conns |-> <<>>]
    /\ prog = [c \in Conns |-> "none"]
    /\ phase = [c \in Conns |-> "off"]
    /\ overlapped = [c \in Conns |-> {}]

-----------------------------------------------------------------------------
(* What the handlers share. *)

Msg(cmd, fmt) == [cmd |-> cmd, fmt |-> fmt]

\* Writes m to the sockets of S; what is written to a peer that has left is lost.
SendTo(S, box, m) ==
    [d \in Conns |-> IF d \in S /\ sock[d] = "open" THEN Append(box[d], m) ELSE box[d]]

\* The sockets the table lists.
Listed(table) == {table[v] : v \in Uids} \ {NoConn}

\* A handler of the server takes the next request of c.
Take(c, cmd) ==
    /\ up
    /\ sock[c] \in {"open", "left"}
    /\ requests[c] # <<>>
    /\ Head(requests[c]).cmd = cmd
    /\ requests' = [requests EXCEPT ![c] = Tail(@)]

Ignore(c, cmd) ==
    /\ Take(c, cmd)
    /\ UNCHANGED <<up, sock, uid, clients, inbox, prog, phase>>

\* Fault: the login is announced before it is answered.
LoginReplyLast(c, S, fmt) ==
    LET u == Head(requests[c]).uid IN
    /\ Take(c, "login")
    /\ uid' = [uid EXCEPT ![c] = u]
    /\ inbox' = SendTo({c}, SendTo(S, inbox, Msg("laba", fmt)), Msg("login", fmt))
    /\ UNCHANGED <<sock, prog, phase>>

\* A login: the reply to c, and then the announcement to the sockets of S.
LoginReply(c, S, fmt) ==
    LET u == Head(requests[c]).uid IN
    /\ Take(c, "login")
    /\ uid' = [uid EXCEPT ![c] = u]
    /\ inbox' = SendTo(S, SendTo({c}, inbox, Msg("login", fmt)), Msg("laba", fmt))
    /\ UNCHANGED <<sock, prog, phase>>

SendFriends(c, fmt) ==
    /\ Take(c, "friends")
    /\ inbox' = SendTo({c}, inbox, Msg("friends", fmt))
    /\ UNCHANGED <<up, sock, uid, clients, prog, phase>>

IsText(c) == prog[c] \in {"ws-client", "wsn-client", "wsn-w3c-client"}

-----------------------------------------------------------------------------
(* tcp-server.js.  The table lists the latest socket of each uid and is     *)
(* never cleared; broadcast skips sockets that are not writable and does    *)
(* not look at its uid argument, so the sender hears itself.                *)

\* Fault: the loop ends at the first socket that is not writable.
BroadcastStopsShort(table) ==
    IF \E d \in Listed(table) : sock[d] = "closed" THEN {} ELSE Listed(table)

Broadcast(table) == {d \in Listed(table) : sock[d] # "closed"}

\* Fault: the table keeps the uid the socket had instead of the socket.
TcpLoginListsUid(c) ==
    LET table == [clients EXCEPT ![Head(requests[c]).uid] = c] IN
    /\ LoginReply(c, Broadcast(table), "binary")
    /\ clients' = [clients EXCEPT ![Head(requests[c]).uid] = uid[c]]
    /\ UNCHANGED up

TcpLogin(c) ==
    LET table == [clients EXCEPT ![Head(requests[c]).uid] = c] IN
    /\ LoginReply(c, Broadcast(table), "binary")
    /\ clients' = table
    /\ UNCHANGED up

TcpBigdata(c) == Ignore(c, "bigdata")

\* Fault: a request for friends has no case in the switch.
TcpFriendsIgnored(c) == Ignore(c, "friends")

TcpFriends(c) == SendFriends(c, "binary")

TcpServer(c) ==
    /\ server = "tcp"
    /\ \/ TcpLogin(c)
       \/ TcpBigdata(c)
       \/ TcpFriends(c)

-----------------------------------------------------------------------------
(* ws-server.js.  The library keeps the set of sockets.  A message is       *)
(* answered in its own format, and so is the announcement to the others.    *)

\* Fault: the test of the uid is the wrong way round.
WsBroadcastToSame(u) == {d \in Conns : sock[d] \in {"open", "left"} /\ uid[d] = u}

WsBroadcast(u) == {d \in Conns : sock[d] \in {"open", "left"} /\ uid[d] # u}

\* wss.broadcast comes after ws.uid = uid: the sender is not among the others.
WsLogin(c, fmt) ==
    /\ LoginReply(c, WsBroadcast(Head(requests[c]).uid) \ {c}, fmt)
    /\ UNCHANGED <<up, clients>>

WsText(c) ==
    /\ IsText(c)
    /\ \/ WsLogin(c, "text")
       \/ Ignore(c, "bigdata")
       \/ SendFriends(c, "text")

WsBinary(c) ==
    /\ ~IsText(c)
    /\ \/ WsLogin(c, "binary")
       \/ Ignore(c, "bigdata")
       \/ SendFriends(c, "binary")

WsServer(c) == server = "ws" /\ (WsText(c) \/ WsBinary(c))

-----------------------------------------------------------------------------
(* wsn-server.js.  The table again, and a close handler that clears it.     *)

WsnBroadcast(u, table) == {table[v] : v \in Uids \ {u}} \ {NoConn}

WsnLogin(c, fmt) ==
    LET u == Head(requests[c]).uid
        table == [clients EXCEPT ![u] = c]
    IN  /\ LoginReply(c, WsnBroadcast(u, table), fmt)
        /\ clients' = table
        /\ UNCHANGED up

\* The switch has no case for "friends": ws-client2 asks in vain.
WsnText(c) ==
    /\ IsText(c)
    /\ \/ WsnLogin(c, "text")
       \/ Ignore(c, "bigdata")

WsnBinary(c) ==
    /\ ~IsText(c)
    /\ \/ WsnLogin(c, "binary")
       \/ \E cmd \in {"bigdata", "friends"} : Ignore(c, cmd)

\* Fault: nobody listens for the close.
WsnCloseUnheard(c) == UNCHANGED clients

\* delete clients[ws.uid], whoever is listed there now.
WsnClose(c) ==
    clients' = IF uid[c] = NoUid THEN clients ELSE [clients EXCEPT ![uid[c]] = NoConn]

WsnServer(c) == server = "wsn" /\ (WsnText(c) \/ WsnBinary(c))

-----------------------------------------------------------------------------
(* protobuf-server.js.  The reply is written and the socket is listed; then *)
(* broadcast calls clients.forEach, which an object does not have.  Nobody  *)
(* listens for the "error" that ExBuffer makes of the exception, so the     *)
(* process ends.  The cases for other commands are never reached: a client  *)
(* logs in first.                                                           *)

ProtobufServer(c) ==
    /\ server = "protobuf"
    /\ LoginReply(c, {}, "binary")
    /\ clients' = [clients EXCEPT ![Head(requests[c]).uid] = c]
    /\ up' = FALSE

-----------------------------------------------------------------------------
(* sio-server.js.  client.broadcast reaches every other socket.             *)

SioLogin(c) ==
    /\ LoginReply(c, {d \in Conns \ {c} : sock[d] \in {"open", "left"}}, "event")
    /\ UNCHANGED <<up, clients>>

SioServer(c) == server = "sio" /\ (SioLogin(c) \/ Ignore(c, "bigdata"))

-----------------------------------------------------------------------------
(* wsd-server-script.js.  websocketd runs one process per connection and    *)
(* writes each message to its standard input as a line.  A "data" event is  *)
(* a chunk of that pipe, not a line: it may hold several messages, or a     *)
(* piece of a long one.  JSON.parse then throws and the process ends.       *)

WsdEnds(c) ==
    /\ sock' = [sock EXCEPT ![c] = "closed"]
    /\ requests' = [requests EXCEPT ![c] = <<>>]
    /\ UNCHANGED inbox

WsdServer(c) ==
    /\ server = "wsd"
    /\ sock[c] \in {"open", "left"}
    /\ requests[c] # <<>>
    /\ \/ /\ requests' = [requests EXCEPT ![c] = Tail(@)]
          /\ inbox' = IF Head(requests[c]).cmd = "login"
                       THEN SendTo({c}, inbox, Msg("login", "text")) ELSE inbox
          /\ UNCHANGED sock
       \/ Len(requests[c]) > 1 /\ WsdEnds(c)
       \/ Head(requests[c]).cmd = "bigdata" /\ WsdEnds(c)
    /\ UNCHANGED <<up, uid, clients, prog, phase>>

-----------------------------------------------------------------------------
(* The clients.  Each logs in as soon as it is connected; the reply arms a  *)
(* timer, and when it fires the client sends its big messages and, in some  *)
(* programs, asks for the list of friends.                                  *)

Connect(c, p) ==
    /\ up
    /\ sock[c] = "unused"
    /\ p \in Programs[server][c]
    /\ sock' = [sock EXCEPT ![c] = "open"]
    /\ prog' = [prog EXCEPT ![c] = p]
    /\ phase' = [phase EXCEPT ![c] = "login"]
    /\ \E u \in Uids : requests' = [requests EXCEPT ![c] = <<[cmd |-> "login", uid |-> u]>>]
    /\ UNCHANGED <<up, uid, clients, inbox>>

Alive(c) == phase[c] \in {"login", "timer", "asked", "done"}

\* The client handles the next message: `next` is the phase it reaches.
ClientTakes(c, next) ==
    /\ inbox' = [inbox EXCEPT ![c] = Tail(@)]
    /\ phase' = [phase EXCEPT ![c] = next]
    /\ UNCHANGED <<up, uid, clients, requests, prog, sock>>

\* The switch on the command that all the clients have.
Handled(c, m) ==
    \/ m.cmd = "login" /\ ClientTakes(c, "timer")
    \/ m.cmd = "laba" /\ ClientTakes(c, phase[c])
    \/ m.cmd = "friends" /\ ClientTakes(c, "done")

\* An exception in a message handler ends the client, and with it its connection.
ClientCrash(c) ==
    /\ phase' = [phase EXCEPT ![c] = "crashed"]
    /\ inbox' = [inbox EXCEPT ![c] = <<>>]
    /\ sock' = [sock EXCEPT ![c] = "left"]
    /\ UNCHANGED <<up, uid, clients, requests, prog>>

\* setTimeout(bigdata, 2000) fires; programs that ask for their friends do so last.
Bigdata(c, asks) ==
    LET big == [i \in 1..BigCount |-> [cmd |-> "bigdata", uid |-> NoUid]]
        ask == IF asks THEN <<[cmd |-> "friends", uid |-> NoUid]>> ELSE <<>>
    IN  /\ phase[c] = "timer"
        /\ requests' = [requests EXCEPT ![c] = IF up THEN @ \o big \o ask ELSE @]
        /\ phase' = [phase EXCEPT ![c] = IF asks THEN "asked" ELSE "done"]
        /\ UNCHANGED <<up, sock, uid, clients, inbox, prog>>

TcpClientConnect(c) == Connect(c, "tcp-client")
TcpClientData(c) == Handled(c, Head(inbox[c]))
TcpClientBigdata(c) == Bigdata(c, TRUE)

TcpClient(c) ==
    \/ TcpClientConnect(c)
    \/ /\ prog[c] = "tcp-client" /\ Alive(c)
       /\ \/ inbox[c] # <<>> /\ TcpClientData(c)
          \/ TcpClientBigdata(c)

ProtobufClientConnect(c) == Connect(c, "protobuf-client")

\* The server dies at the first login: no "laba" and no "friends" ever comes.
ProtobufClientData(c) == Head(inbox[c]).cmd = "login" /\ ClientTakes(c, "timer")
ProtobufClientBigdata(c) == Bigdata(c, TRUE)

ProtobufClient(c) ==
    \/ ProtobufClientConnect(c)
    \/ /\ prog[c] = "protobuf-client" /\ Alive(c)
       /\ \/ inbox[c] # <<>> /\ ProtobufClientData(c)
          \/ ProtobufClientBigdata(c)

\* ws-client.js parses every message as JSON, ws-client2.js every message as binary.
WsClientOpen(c) == Connect(c, "ws-client")
WsClientMessage(c) ==
    LET m == Head(inbox[c]) IN
    \/ m.fmt = "text" /\ Handled(c, m)
    \/ m.fmt = "binary" /\ ClientCrash(c)
WsClientBigdata(c) == Bigdata(c, TRUE)

WsClient(c) ==
    \/ WsClientOpen(c)
    \/ /\ prog[c] = "ws-client" /\ Alive(c)
       /\ \/ inbox[c] # <<>> /\ WsClientMessage(c)
          \/ WsClientBigdata(c)

WsClient2Open(c) == Connect(c, "ws-client2")
WsClient2Message(c) ==
    LET m == Head(inbox[c]) IN
    \/ m.fmt = "binary" /\ Handled(c, m)
    \/ m.fmt = "text" /\ ClientCrash(c)
WsClient2Bigdata(c) == Bigdata(c, TRUE)

WsClient2(c) ==
    \/ WsClient2Open(c)
    \/ /\ prog[c] = "ws-client2" /\ Alive(c)
       /\ \/ inbox[c] # <<>> /\ WsClient2Message(c)
          \/ WsClient2Bigdata(c)

\* wsn-client.js and wsn-w3c-client.js look at the type first.
LooksFirst(c) ==
    LET m == Head(inbox[c]) IN
    \/ m.fmt = "text" /\ m.cmd = "login" /\ ClientTakes(c, "timer")
    \/ m.fmt = "text" /\ m.cmd = "laba" /\ ClientTakes(c, phase[c])
    \/ m.fmt = "binary" /\ ClientTakes(c, phase[c])

WsnClientConnect(c) == Connect(c, "wsn-client")
WsnClientMessage(c) == LooksFirst(c)
WsnClientBigdata(c) == Bigdata(c, FALSE)

WsnClient(c) ==
    \/ WsnClientConnect(c)
    \/ /\ prog[c] = "wsn-client" /\ Alive(c)
       /\ \/ inbox[c] # <<>> /\ WsnClientMessage(c)
          \/ WsnClientBigdata(c)

W3cClientOpen(c) == Connect(c, "wsn-w3c-client")
W3cClientMessage(c) == LooksFirst(c)
W3cClientBigdata(c) == Bigdata(c, FALSE)

W3cClient(c) ==
    \/ W3cClientOpen(c)
    \/ /\ prog[c] = "wsn-w3c-client" /\ Alive(c)
       /\ \/ inbox[c] # <<>> /\ W3cClientMessage(c)
          \/ W3cClientBigdata(c)

SioClientConnect(c) == Connect(c, "sio-client")
SioClientEvent(c) ==
    LET m == Head(inbox[c]) IN
    \/ m.cmd = "login" /\ ClientTakes(c, "timer")
    \/ m.cmd = "laba" /\ ClientTakes(c, phase[c])
SioClientBigdata(c) == Bigdata(c, FALSE)

SioClient(c) ==
    \/ SioClientConnect(c)
    \/ /\ prog[c] = "sio-client" /\ Alive(c)
       /\ \/ inbox[c] # <<>> /\ SioClientEvent(c)
          \/ SioClientBigdata(c)

\* A client may be closed or lose its network at any time.
Leave(c) ==
    /\ sock[c] = "open"
    /\ sock' = [sock EXCEPT ![c] = "left"]
    /\ phase' = [phase EXCEPT ![c] = "left"]
    /\ inbox' = [inbox EXCEPT ![c] = <<>>]
    /\ UNCHANGED <<up, uid, clients, requests, prog>>

\* The server's socket notices; requests it has not read yet may be lost.  Only
\* wsn-server.js does something then.
Closed(c) ==
    /\ up
    /\ sock[c] = "left"
    /\ sock' = [sock EXCEPT ![c] = "closed"]
    /\ requests' = [requests EXCEPT ![c] = <<>>]
    /\ IF server = "wsn" THEN WsnClose(c) ELSE UNCHANGED clients
    /\ UNCHANGED <<up, uid, inbox, prog, phase>>

-----------------------------------------------------------------------------
(* The splitters of the TCP programs.  A put that makes the buffer exactly  *)
(* full, 1024 bytes or a multiple of it, leaves the offsets equal, and what *)
(* it holds is taken for nothing.  The splitter then looks for a header in  *)
(* the middle of the stream, so that more may be lost at any later time.    *)
(* (That what it finds there spells a command is left out.)                 *)

IsBig(r) == r.cmd = "bigdata"

\* A stream without its first messages
Loses(stream, c) == \E n \in 1..Len(stream[c]) :
    stream' = [stream EXCEPT ![c] = SubSeq(@, n + 1, Len(@))]

\* At the server it takes a big message, at the client many small ones.
Overlap(c) ==
    /\ server \in {"tcp", "protobuf"}
    /\ \/ /\ up /\ sock[c] \in {"open", "left"}
          /\ "requests" \in overlapped[c] \/ \E i \in 1..Len(requests[c]) : IsBig(requests[c][i])
          /\ Loses(requests, c)
          /\ overlapped' = [overlapped EXCEPT ![c] = @ \cup {"requests"}]
          /\ UNCHANGED inbox
       \/ /\ Alive(c)
          /\ "inbox" \in overlapped[c] \/ Len(inbox[c]) >= InboxFull
          /\ Loses(inbox, c)
          /\ overlapped' = [overlapped EXCEPT ![c] = @ \cup {"inbox"}]
          /\ UNCHANGED requests
    /\ UNCHANGED <<server, up, sock, uid, clients, prog, phase>>

-----------------------------------------------------------------------------
ServerStep(c) ==
    \/ TcpServer(c) \/ WsServer(c) \/ WsnServer(c) \/ ProtobufServer(c) \/ SioServer(c)
    \/ WsdServer(c)

ClientStep(c) ==
    \/ TcpClient(c) \/ WsClient(c) \/ WsClient2(c) \/ WsnClient(c) \/ W3cClient(c)
    \/ SioClient(c) \/ ProtobufClient(c)

Step(A) == A /\ UNCHANGED <<server, overlapped>>

Next ==
    \E c \in Conns :
        Step(ServerStep(c) \/ ClientStep(c) \/ Leave(c) \/ Closed(c)) \/ Overlap(c)

Spec == Init /\ [][Next]_vars

\* Node's event loop handles every message that has arrived and every timer that
\* is due.  Nobody has to connect or to leave.
Served(c) == Step(ServerStep(c))
Driven(c) == Step(ClientStep(c) /\ phase[c] # "off")
Fairness == \A c \in Conns : WF_vars(Served(c)) /\ WF_vars(Driven(c))

FairSpec == Spec /\ Fairness
-----------------------------------------------------------------------------
(* Properties. *)

\* The first thing a client of tcp-server.js, wsn-server.js or protobuf-server.js is
\* told is that it is logged in: no announcement overtakes the reply, because a socket
\* enters the table in the handler that has already written the reply.  (Unless the
\* client's splitter overlaps, and loses the reply.)
ReplyFirst ==
    server \in {"tcp", "wsn", "protobuf"} =>
        \A c \in Conns :
            phase[c] = "login" /\ inbox[c] # <<>> /\ "inbox" \notin overlapped[c]
                => Head(inbox[c]).cmd = "login"

\* d is told of the login of c in the step that handles it.
Hears(d, c) ==
    /\ inbox'[d] # inbox[d]
    /\ inbox'[d][Len(inbox'[d])].cmd = "laba"

LogsIn(c) == uid[c] = NoUid /\ uid'[c] # NoUid

\* d is in the room: connected, logged in, and not under the uid that logs in now.
InRoom(d, c) == sock[d] = "open" /\ uid[d] \notin {NoUid, uid'[c]}

\* ws-server.js and sio-server.js: a login is announced to everybody in the room,
\* whatever happened to other sockets of the same uids.
AnnouncedToAll ==
    [][\A c, d \in Conns :
          server \in {"ws", "sio"} /\ c # d /\ LogsIn(c) /\ InRoom(d, c) => Hears(d, c)]_vars

\* tcp-server.js and wsn-server.js: a login is announced to each socket in the room
\* whose uid no other connection ever used; sockets that left or were replaced do not
\* keep the others from hearing.
AnnouncedWhileUnique ==
    [][\A c, d \in Conns :
          /\ server \in {"tcp", "wsn"}
          /\ c # d /\ LogsIn(c) /\ InRoom(d, c)
          /\ \A e \in Conns \ {d} : uid[e] # uid[d]
          => Hears(d, c)]_vars

\* wsn-server.js: the table never lists a socket whose close was handled, nor a socket
\* under another's uid: broadcast calls send on every entry.
TableIsLive ==
    server = "wsn" =>
        \A u \in Uids :
            clients[u] # NoConn => sock[clients[u]] # "closed" /\ uid[clients[u]] = u

\* A client of tcp-server.js that stays connected gets its list of friends: after the
\* reply, the two seconds and the big messages that go before the request, unless one of
\* the two splitters of its connection overlaps: the request is behind the very messages
\* that may fill the server's, and nothing asks again.
FriendsArrive ==
    \A c \in Conns :
        server = "tcp" /\ phase[c] = "login"
            ~> phase[c] \in {"done", "left"} \/ overlapped[c] # {}
=============================================================================
