# Verification of the elearning networking code

The repository is a large collection of notes, configuration files and scripts.
Its own programs are the networking code under `src/websocket-test` (a C# TCP
server and client library, `cshop-tcp-test/Pub.Class.Net`, and the Node servers,
clients and codecs beside it), two browser scripts under `src/html-js-css`, and two
small log-archiving programs (SQL, shell). This project models that code in TLA+,
checks it with TLC and proves theorems about it with TLAPS.

## The system

| Component | State | Operations | What is hard |
|---|---|---|---|
| `AsyncSocketServer.cs`: connections | tables of tokens by connection and by address, pool of read args, count of connections, semaphore, the outstanding accept and receives | Start, accept and receive callbacks, Disconnect, Stop, IsOnline | callbacks on pool threads race each other, Disconnect and Stop; tokens are reused |
| `AsyncSocketServer.cs`: sending | pool of write args and their slabs | Send, Broadcast, ProcessSend | args lost or pushed early on error paths, an empty pool |
| `AsyncSocketEventArgsBufferManager.cs` | slab index, free list | SetBuffer, FreeBuffer | the index is outside the lock |
| `AsyncSocketClient.cs`, `AsyncSocketClientPool.cs` | socket, IsConnected, send args | Connect, ResetConnect, Disconnect, Send and callbacks | callbacks of an abandoned socket, the order of IsConnected and EndConnect |
| `StreamPackage.cs` and siblings, `ISocketServerEvent.cs` | bytes not yet parsed, per connection | Parse, Remove, Listener | shared dictionaries, lengths 0 and below, a Remove that races a Parse |
| `ExBuffer.js` | ring buffer, two offsets, length of the awaited body | put, listeners | growth with wrapped data, split headers, full buffer |
| `ByteBuffer.js` (Node), `DataBuffer.js` (browser) | list of typed fields, read index, byte order and header length | fields, splice, pack, readers | fixed-length fields, two implementations of one format, configuration shared by all instances |
| `tcp-server.js`, `ws-server.js`, `wsn-server.js`, `protobuf-server.js`, `sio-server.js`, `wsd-server-script.js` and their clients | sockets by uid, or the list of the library | login, big data, friends, close, broadcast | uids that are reused, sockets that are gone, the order of reply and announcement |
| `prpc.js` and `app/` | proxies by server type | registerClient, registerServer, remote methods | use of a proxy before the client has started, servers that do not listen |
| `TGJSBridge.js` | table of notifications, table of callback arrays | postNotification, popNotificationObject, bind, unbind, trigger | lost addresses, callbacks that change the array that trigger walks |
| `hihack.js` | the document, timers, observers | init, mElement, removeDom, setAttribute, observer | live collections, scans and observers that meet each other's removals |
| `bytebuffer.js` | backing buffer, view, offset, limit, mark, byte order | read and write methods, compact, slice, prepend, text forms | growth under shared views, varints, marks that move, surrogates |
| `long.js` | two words and a sign | arithmetic, shifts, texts | carries, estimated quotients, MIN_VALUE |
| `protobuf.js` | messages and fields | encode, decode | oneofs, packed fields |
| log archiving (`mysql/定期清理日志表.sql`, `bash/mysql_backup_yesterday_tables_data.sh`) | tables, backup files | copy, delete | failure between copy and delete |

How they interact: the C# server's callbacks raise `Connected`, `DataReceived` and
`Disconnected`; the handler of `DataReceived` calls `Listener`, which parses the
token's bytes and calls the handler of each package, and these call `Send`,
`Broadcast` and `Disconnect` on the server. The Node TCP servers give every
socket an `ExBuffer`, whose "data" listener decodes with `ByteBuffer` (or
`bytebuffer.js`, under `protobuf.js`) and writes to the sockets in its table; the
browser pages speak to them with `DataBuffer`. `bytebuffer.js` keeps its 64-bit
numbers in `long.js`. The bridge and the hijack monitor are scripts of their own in
a page; their other side is the native host and the document.

What makes each correct: the C# server hands every read args to one owner at a time
and never loses one, keeps its count, its table and its semaphore in step, drops
whoever left, and returns from Stop; a splitter hands over exactly the frames that
were sent; a chat server answers a login before it announces another, and announces
it to everybody who stays; a chain of callbacks reaches its end; a codec gives back
what it was given, in either implementation, and no buffer loses or shares what it
should not; archiving never deletes what it has not copied.

## Modules

| Module | Role |
|---|---|
| `ConnectionRegistry` | what the server promises: clients online, at most `Capacity`, none twice |
| `SocketServer` | `AsyncSocketServer`, from the end of Start to the end of Stop |
| `FrameStream` | what a frame splitter promises |
| `ExBuffer` | `ExBuffer.js`: put, growth, frame loop |
| `ChatServer` | the six Node chat servers and their seven client programs |
| `PrpcApp` | `prpc.js`, `prpc-client.js` and the remote methods under `app/` |
| `JSBridge` | `TGJSBridge.js` |
| `HijackMonitor` | `hihack.js` |
| `FieldBytes` | numbers and blocks as bytes: Node's Buffer and the browser's DataView |
| `FieldTexts` | texts whose characters have several bytes, and floats, in the fields of both codecs |
| `NodeByteBuffer` | `ByteBuffer.js` |
| `WebDataBuffer` | `DataBuffer.js`, and what it and `ByteBuffer.js` read of each other |
| `Utf` | strings to bytes and back, in `bytebuffer.js` and in `DataBuffer.js` |
| `Ieee754` | `ieee754_write` and `ieee754_read` of `bytebuffer.js` |
| `Long64` | `long.js` |
| `BrowserByteBuffer` | the methods of `bytebuffer.js` as operators on a record |
| `BufferStream` | a ByteBuffer that is written, flipped and read, with marks, copies and cuts |
| `BufferViews` | several ByteBuffers over the backing buffers they share |
| `BufferText` | base64, hex, binary, UTF-8 and debug forms |
| `MCSocketServer`, `MCExBuffer`, `MCChatServer` | instances of one module for TLC |
| `MCPrograms`, `MCCodecs`, `MCBuffers` | instances of several modules for TLC |
| `SocketServerProofs` | types, exclusive ownership of read args, open sockets; read args conserved, connections and permits counted; `SocketServer` implements `ConnectionRegistry` |
| `ExBufferProofs` | the ring holds the stream; `ExBuffer` implements `FrameStream` |
| `ChatServerProofs` | order of reply and announcement, who is told, live tables |
| `ProgramsProofs` | no proxy before it is there, order of fetched notifications, what trigger calls; every scan finds every element, every observer removes what is refused; the three programs together |
| `BufferViewsProofs` | views over shared backing buffers |
| `MessageProofs` | both message codecs read back what either packed |
| `FieldProofs` | the methods of `bytebuffer.js` that write and read a field undo each other |
| `StreamProofs` | every field in a ByteBuffer comes back, marks stay put; the types of all buffers |

`MCPrograms`, `MCCodecs` and `MCBuffers` hold modules that share no state: a variable
(`program`, `codec`, `use`) is chosen by Init and says which of them runs in this behaviour,
and the others keep still. They are one run each because each asks one question: do
callbacks reach their end, does what is encoded come back, does a buffer keep its contents.
`MCPrograms` extends `JSBridge`, `PrpcApp` and `HijackMonitor`, and `MCBuffers` extends
`WebDataBuffer`, `BufferViews` and `BufferStream`, so that TLC evaluates their assumptions
and the properties it checks are the ones the theorems state; the other modules are
instances.

### SocketServer

State: one variable per field that matters (`tokens`, `singleIPTokens`, `readPool`,
`numConnectedSockets`, `maxNumberAcceptedClients`, `IsListening`, `listenSocket`), the
two fields of a token that change (`Socket` and `ConnectionID`, together `conn`), the
kernel's side (`accepting`, `recv`, `sock`, `peerGone`), the lock of `tokens`, and for
each thread where it is and its locals (`pc`, `tok`, `cli`, `after`).

A step is one access to shared state, so threads interleave between the lookup
and the use of a token, between Decrement, Release and Push, between Push and the
event. Each handler is a chain of actions, named after what it calls:

* accept: `AcceptCompleted`, `PopReadArgs`, `Reject` or `AssignToken`, `Register`,
  `RegisterIP`, `AcceptConnected`, `AcceptReceive`, `StartAccept`, `AcceptAsync`;
  `AcceptFailed` for an error; `RefuseClose`, `RefuseDecrement`, `RefuseRelease` for a
  client that is turned away (and then no `StartAccept`, as in the code);
* receive: `ReceiveData`, `ReceivedConnected`, `ReceiveAgain`; `ReceiveEnd`;
* disconnect: `Disconnect` (the lookup), `DropIP`, `Drop`, `CloseSocket`, `Decrement`,
  `ReleasePermit`, `PushReadArgs`, `RaiseDisconnected`;
* Stop: `StopBegin`, `StopLock`, `StopNext` for each entry with the same close
  actions, `StopClear`, `StopIP`.

Abstractions. A read args and its token point at each other for life and are one
number. Each connection has a fresh `Guid` and `Socket`, so a client stands for both.
`token.Socket = ...; token.ConnectionID = ...` is one step. An operation that completes
synchronously is one that completes later. Errors of a receive are reported by its
completion, or by the exceptions for a disposed socket and a reset connection; any
other `SocketException` of `ReceiveAsync`, after which the code reports the error and
leaves the connection without a receive, is left out. A completion may wait for its callback
while the socket is closed, so `ReceiveData` does not look at the socket. A close of a
socket that is no longer `Connected` skips `Shutdown` and `Close`; the model counts it
as closed all the same. Event handlers return: their calls into the server are the
calls other threads make, except that `Disconnected` handlers run under the lock.
The lock of `singleIPTokens` guards single operations, which are single steps.
`Socket.RemoteEndPoint` is assumed to be readable. `StopIP` joins the `Clear` of the
address table with `IsListening = false`.

### ExBuffer

State: the closure's variables (`inBuffer`, its length, `readOffset`, `putOffset`, `dlen`,
`count`, the argument `len`) and `pc`, the statement `put` has reached; `ends`,
`received` and `delivered` are the stream, the bytes put so far and the "data" events.
A byte is its position in the stream, so bytes read out of place are never
mistaken for the right ones; a header that is not a header of the stream decodes to
any length. `Put` is the check and the growth, `Store` the reset and the copy,
`ReadHeader`/`KnownHeader`, `AwaitHeader`, `AwaitBody`, `EmitBody` and `BreakOff` one
round of the loop and its exits. A listener returns or throws (`EmitBody`); it does
not call `put` on its own buffer.

`overlapped` records that a put ended with equal offsets on a full buffer, which the
code takes for an empty one. The properties hold until then; the run
`exbuffer_overlap` shows that it happens.

### ChatServer

`server` is the program that runs, `prog[c]` the client program of a connection;
`sock`, `uid` and `clients` are the servers' own state (a socket's uid property, the
table by uid), `requests` and `inbox` the two directions of a connection, `phase` what
the client waits for. One action is one handler run by the event loop: `TcpLogin`,
`TcpBigdata`, `TcpFriends`, `WsText`, `WsBinary`, `WsnText`, `WsnBinary`, `WsnClose`,
`ProtobufServer`, `SioLogin`, `WsdServer`, and per client its connect, message and
timer handlers. A login handler is the reply, the table entry and the broadcast
together, as the code runs them without returning to the loop. `Leave` is a peer that goes
away without a word, `Closed` the moment at which the server learns of it: in between,
broadcasts go to a socket that is gone. Uids are random in the code, so any two
connections may have the same. Message bodies are left out; their format, JSON or
binary, is kept, because a client ends on a message in the other one. The TCP programs split
their streams with an `ExBuffer` at either end. `Overlap` is what the run `exbuffer_overlap` shows
of it: where enough bytes may be waiting, a big message at the server or `InboxFull` small ones
at the client, the splitter may lose any number of messages from the front of the stream, and
since it goes on in the middle of one, more at any later time. `overlapped` records it. The servers
differ in their table (uid to socket, or the library's list) and in what they do with
a uid that is in use, and the properties say for which servers they hold.

### PrpcApp

A process has `rpc[p]`, the proxies it has; `starting[p]`, the clients whose `start` has
not called back; calls are in flight in `calls` and come back in `results`. `RunServer`
registers a server's own clients, `StartServer` makes it listen, `ServerStarted` and
`ClientStarted` add proxies, `Serve` and `Fail` answer a call, also the call that the
connector's `friends` makes to `data`, and `TakeResult` runs the client's callback, which
does not look at its `err`. pomelo-rpc is external: it calls every callback once, with
an error if the server does not listen.

### JSBridge

`notificationDict` and `notificationIdCount` are the page's table, `location` the address
that the host has not seen, `fetched` what it has taken. `callbackDict` maps a name to
an array in `arrays`, since `trigger` keeps the array it began with: `frame` is the
running trigger (array, index, first length, and whether a callback threw). A callback that binds
or unbinds is an action between two `CallNext`; any callback may throw, which ends the loop, since
`trigger` has no `try`.

### HijackMonitor

`dom` is the list of elements, `url` their addresses, `timers` and `observers` what `onLoad` has
armed. An element that the page inserts again moves, and is in two records of one task. Links are
A and AREA elements (`Areas`): the scan reads `document.links`, which has both, and `removeDom` and
the observer know only A. `Scan` is `mElement`
with its removals from the live collection, its batches and its rest; `ObserverRuns`
the callback of one observer over its `records`; `SetAttribute` the wrapped method.
Addresses are model values; `Class` and `Http` are what the code's patterns make of them.

### The codecs

`NodeByteBuffer` and `WebDataBuffer` keep a list of fields and its length (`list`,
`offset`), the configuration, and what `pack` returned. Base `Radix` stands for 256, so that
every value of a width and every value that does not fit can be tried; a string is its UTF-8
bytes, of which `CharLength` says where characters begin and how long they are. A `float` is stored
as its single (`SingleOf`, four bytes). A string whose field ends inside a character (`Split`) is
the one case in which the codecs differ. Both write on behind the field, and the next field
overwrites what they wrote there; where the message ends inside the character Node writes no byte
of it and the browser's `pack` throws. Node reads U+FFFD for it, the browser takes its last bytes
from the next field (`utf8Read`), or throws at the end of the message. `RadixTo` are the powers of `Radix` up to the widest number. `PackBytes`,
`Packing` and `ReadAll` are the code's loops, each a function of the number of turns. The
server's `write` refuses a number that does not fit (`Fits`); a `DataView` writes it modulo its
range (`Wrapped`). `WebDataBuffer` instantiates `NodeByteBuffer` to read its messages with the
other reader and the other way round.

`Utf` runs the loop of `UTF16toUTF8` in steps: `str`, the look-ahead `c2`, the code points
`out`, of which a behaviour makes at most `MaxPoints`, since the loop does not always end; the
other conversions are operators. `Ieee754` writes a number `s, m * 2^x` by the
code's arithmetic; `Math.log` is a nondeterministic estimate (`LogEstimates`) since it is not
exact at powers of two. `Long64` is `long.js` at the widths it is given; doubles have
`Mantissa` bits there, so the estimates of a quotient are wrong as often as in the code.

`BrowserByteBuffer` has no variables: each method is an operator from a record (`bytes`,
`offset`, `limit`, `mark`, `endian`) to another, and `Can...` is the range its assertions
allow. A base 128 number is computed with tables of powers (`TwoTo`, `HalfTo`), where the code
shifts. `BufferStream`, `BufferViews` and `BufferText` call them: `buf` and the fields
`pending` in it, which a `caller` (the fields it writes, the calls it makes) writes and
reads; `view` and the `store` of each backing buffer, where a call either writes
through (`BecomesView`, `Becomes`) or leaves for a new store (`BecomesNew`); `text` and what it
becomes again.

## Runs

| Run | Bounds | Shows |
|---|---|---|
| `server_pool` | 2 threads, 3 clients of one address, 2 read args | `ReadArgsExclusive`, `ReadArgsConserved`, `OnlineSocketIsOpen`, `ConnectionsCounted`, and that the server implements `ConnectionRegistry` |
| `server_live` | 2 threads, 2 clients, 1 read args, semaphore | `TypeOK`, `PermitsCounted`, `GoneIsDropped`, `StopReturns` |
| `exbuffer_ring` | streams of 4 frames with bodies of 0, 1 or 5 bytes, pieces of 1 to 5 bytes, growth step 2 | `TypeOK`, `RingHoldsStream`, `NothingLeftBehind`, and that ExBuffer implements `FrameStream` |
| `chat_servers` | six servers, 3 connections, 3 uids, one big message, 4 messages fill a client's splitter | `ReplyFirst`, `AnnouncedToAll`, `AnnouncedWhileUnique`, `TableIsLive`, `TypeOK` |
| `programs` | 2 chat clients with 2 big messages each, 2 messages fill a client's splitter; 2 RPC clients, 2 connectors, 2 data servers; 3 notifications; 2 callbacks in arrays of up to 3; 3 elements, one an AREA, up to 3 insertions in a task, batches of 2 | `FriendsArrive`; `ProxyBeforeUse`, `CallsEnd`; `FetchedInOrder`, `NoteArrives`, `TriggerCallsAll`; `ScanFindsAll`, `ObserverRemoves` |
| `codecs` | strings of up to 4 characters from the ends of each range, surrogates alone and in runs anywhere; all pairs of Longs of 8 bits with the outer high words; all numbers of a 2-byte and a 1-byte format; contents of up to 6 bytes in every text form | `TextSurvives`, `LongsExact`, `NumberSurvives`, `FormsComeBack` |
| `buffers` | messages of up to 3 fields of every kind, characters of one and two bytes, bytes of 2 bits; 2 fields of 27, or 3 of 2 filled twice, or 2 of 6 cut anywhere; 2 views of up to 2 bytes | `RoundTrip`, `CrossRead`, `FieldsComeBack`, `MarkStaysPut`, `ViewsKeepContents`, `GrowingDisturbsNobody`, `TypeOK` |
| `accept_armed` | 2 threads, 2 clients, 1 read args | finding: the accept loop dies at the limit |
| `online_by_address` | 2 clients of one address, 2 read args | finding: the address table forgets an online client |
| `disconnected_event` | 2 clients, 1 read args | finding: `Disconnected` names the next connection |
| `exbuffer_overlap` | streams of 3 frames, else as `exbuffer_ring` | finding: a full buffer is taken for an empty one |
| `conversion_ends` | as `codecs`, 8 code points | finding: a conversion passes one unit on for ever |

What the less obvious properties say:

* `PermitsCounted`: in every state in which the server listens with a semaphore, the permits, the
  steps and clients that hold one and the armed accept add up to the limit.
* `ReplyFirst`: no announcement overtakes the reply to one's own login, unless the client's
  splitter overlaps. It holds because the table entry comes between the reply and the
  broadcast in one handler.
* `FriendsArrive`: a client of `tcp-server.js` that logs in gets its friends in the end, leaves, or
  has a splitter that overlapped, since then the request or the answer may be lost.
* `AnnouncedToAll` (ws, socket.io) and `AnnouncedWhileUnique` (tcp, wsn): a login is told to
  everybody in the room in the step that handles it; for the servers with a table by
  uid only those whose uid no other connection used, see below.
* `NoteArrives`: a notification whose address is overwritten arrives with a later one,
  if the host fetches everything at each address.
* `TriggerCallsAll`: whatever is bound while `trigger` runs, and whatever name is dropped, all
  that was bound when it began is called, unless a callback is unbound from the array or throws.
* `ScanFindsAll`: a scan reports every foreign element once and leaves none but AREA elements,
  although removing from a live collection passes over its neighbour.
* `ObserverRemoves`: an observer leaves none of its elements in the document that is foreign, has an
  address with http and is not an AREA, if all its elements are there and no such one is in two
  of its records.
* `TextSurvives`: counted bytes and written bytes are as many, and the bytes of a string whose
  conversion has ended decode to the string, whatever surrogates it holds.
* `RoundTrip`: what a codec packs it reads back field by field, to the last byte, whatever was
  put in front of what, a float as its single; the header counts the bytes behind it; on the
  server every byte has been written, if no text is cut inside a character. In the browser a
  number that does not fit comes back modulo its range and moves no other field. Of a text that
  is cut inside a character the whole characters come back, anything behind them, and every other
  field as it was; the browser may throw there.
* `CrossRead`: what the browser packs is read back by the Node program field by field, and
  the other way round, in either byte order and with every header, with the same two exceptions
  for floats and texts that are cut inside a character.
* `NumberSurvives`: any number of the format is written as itself, and a number between two
  as a nearest one, whichever way `Math.log` errs.
* `FieldsComeBack`: the fields in the buffer are read back as written whatever growth,
  prepend, copy, compact or change of byte order came in between, and what is cut is
  refused where the reader can know.
* `ViewsKeepContents`: growing, compacting and prepending move the contents and keep every
  view's positions inside; `GrowingDisturbsNobody`: no other view sees its bytes
  change.

Why these bounds. Every race of the C# server needs one token reused once, and a refusal at
the limit one client more than args: `server_pool` has three clients and two args, so that one
is turned away while another's args go back and are taken again. Two threads let a connection be
closed from two sides, or while another is accepted; that the invariants and the refinement hold
with more threads, clients and args is what the theorems say. `server_live` has one args and two clients; its
`PermitsCounted` is about every state, since with one args no client is online in a quiet one. `ExBuffer`'s growth step of 2 with a header of 2 bytes makes
all the cases of the code occur on short streams: growth with the wrapped part
shorter and longer than the extension, headers and bodies that run over the end,
empty bodies, several frames in a put, the round limit (2 instead of 1000). Each
client connects once: a client that comes back is a new connection to the code. Three
connections of a chat server let two share a uid in front of a third. Two servers of each
type and two clients let a call find its server down while another is up. The codecs
treat bytes alike, so small bytes meet every boundary (a sign bit, a carry, a length
that needs another varint byte, a block that is cut or filled up) within few values; the
widths are relations of constants (a chunk is half a word, a varint group a byte less one
bit), which the assumptions state. The strings take both ends of every UTF-8 length
and of the surrogates, and eight code points are twice as many as a string has units. Fields and views come in pairs or triples because a method
touches what lies before and behind it and no more.

Deadlock is not checked: a server with no client left to connect, a stream at
its end and a conversion that is done have nothing to do. Symmetry is used where only
invariants and action properties are checked, on model values that no formula tells apart. In
`server_pool` these are the threads and, as all share one address, the clients.

Fairness. `server_live`: callbacks run on the completion-port pool, which keeps
taking completions, and a lock that is released again and again is granted in the
end: strong fairness for `ReceiveEnd` and for the steps that wait for the lock, weak
fairness for the rest of a callback. Nothing obliges a client to connect or leave, or
the application to call Disconnect or Stop. `programs`: Node's event loop runs every handler whose
message or timer is due (`Served` and `Driven` of each connection, `Progress` of the RPC
application), and the host sees an address that stays (`HostFetches`); nobody has to
connect, to post, to stay or to start a server.

Every property of a passing run has been seen to fail: the operators commented
"Fault" are variants of an action or operator with a plausible mistake, and each
property is violated when one of them takes its place.

## Findings

The runs that expect a violation:

1. `AsyncSocketServer.cs:819`: a client turned away at the limit ends the accept loop.
2. `AsyncSocketServer.cs:971`: an address entry is removed with the first connection
   of the address that closes, whoever it was made for.
3. `AsyncSocketServer.cs:980`: `Disconnected` is raised after the args are pooled.
4. `ExBuffer.js:68`: growth to an exact multiple of 1024 leaves no free byte.
5. `bytebuffer.js:3588`: an ordinary unit behind a lone surrogate is never left behind, and the
   loop does not end.

The first happens with the semaphore too, where it is meant to wait instead: the permit is
released before the args are pushed (`AsyncSocketServer.cs:1011`), so the accept it lets through
can find the pool empty, turns its client away and ends the loop.

A stale completion or lookup (`AsyncSocketServer.cs:590` uses the token after the lock) can
also make `Disconnect` hit the next connection of a token; `GoneIsDropped`,
`ConnectionsCounted` and `ReadArgsExclusive` still hold, because whoever removes the
table entry closes the connection that the token carries at that moment.

Other disagreements, met while modelling. The models behave like the code here, and
the properties or the instances step around them, as noted:

* `wsn-server.js:71`: the close of a connection deletes the entry of a newer login with the
  same uid, which then hears nothing more (`AnnouncedWhileUnique` asks for a unique uid).
* `ws-server.js:65`: an announcement goes to everybody in the format of whoever logged in;
  `ws-client.js` and `ws-client2.js` end on the other's.
* `protobuf-server.js:52`: `clients.forEach` on an object throws at the first login and ends the
  process, after the reply.
* `wsd-server-script.js:8`: a chunk of the pipe is parsed as one message; two at once end the
  script.
* `prpc-client.js:8`: the login is logged as a success whatever `err` says.
* `TGJSBridge.js:30`: with a host that fetches one notification per address, one whose
  address is overwritten never arrives (`NoteArrives` has a host that fetches all).
* `TGJSBridge.js:51`: a callback that unbinds during `trigger` makes it pass over the next one and
  throw at the end, and one that throws ends it at once (`TriggerCallsAll` leaves such triggers
  out); `:82` throws for a name without an entry.
* `hihack.js:183`: an element that is gone when the observer runs, or that it has removed for an
  earlier record because the page moved it, ends its callback: what is behind it stays, and nothing
  of the batch is reported (`ObserverRemoves` speaks of records that are all there and caught
  elements in one of them);
  `:12` removes among A elements what `:37` finds among A and AREA elements, so an AREA is reported
  and stays (`ScanFindsAll` excepts it); `:181` and `:195` let addresses without http pass that the
  scan does not;
  `:267` and `:274` remove a listener that was never added, so the page is scanned twice.
* `ByteBuffer.js:205`: a `buffer` field in front of another is written to the end of the message
  (the instances put it last); `:29` sets the byte order of all instances; `:192`, "补齐\0" (fill up
  with zeros), begins behind all bytes of a text that does not fit, and `:191` writes none of a
  character that is cut by the end of the message: those bytes stay what the memory held
  (`EveryByteWritten` excepts such a text).
* `DataBuffer.js:266`: a text that its field cuts inside a character is read on into the next field,
  and at the end of the message the reader throws (`Throws`).
* `DataBuffer.js:116`: the length of a string of more than 65535 bytes is cut; `:275` reads U+0400 to
  U+07FF wrong (`CodecsAgree` leaves such strings out); `:312` the static methods call
  themselves.
* `long.js:150`: `fromInt` of an unsigned value with the top bit set fills the high word.
* `bytebuffer.js:3592`: two low surrogates in a row are taken for a pair; from DFC0 on the code point
  has more than 21 bits, and its bytes decode to another (`Decodes` asks for 21).
* `bytebuffer.js:1675`: a varint that is cut reads the byte behind the limit; `:2519` leaves a mark
  behind the end; `:2849` a buffer compacted to nothing cannot grow; `:2586` copyTo with offset
  behind limit moves both offsets back; `:2406` append to itself moves the offset twice; `:2469`
  a copying clone has no contents; `:3135` base64 of an end behind the buffer is not
  refused; `:3717` toUTF8 drops a character that is cut, without the error.

## Proofs

Every theorem holds for all values of the constants that satisfy the assumption of the
module it is about, and of nothing else: each theorem module extends the module that
TLC runs, and proves an inductive invariant of its specification, action by action.

| Theorem | States | Module and assumption |
|---|---|---|
| `TypeCorrect` | `Spec => []TypeOK` | `SocketServerProofs`, `ServerAssumption` |
| `ReadArgsExclusiveAlways` | `[]ReadArgsExclusive` | |
| `OnlineSocketIsOpenAlways` | `[]OnlineSocketIsOpen` | |
| `ReadArgsConservedAlways` | `[]ReadArgsConserved` | |
| `ConnectionsCountedAlways` | `[]ConnectionsCounted` | |
| `PermitsCountedAlways` | `[]PermitsCounted` | |
| `ImplementsRegistry` | `Spec => RegistrySpec` | |
| `OnlineWithinLimit`, `NeverBack` | at most `MaxConnections` online; who is over stays over | |
| `ChatTypeCorrect` | `[]TypeOK` | `ChatServerProofs`, `ChatAssumption` |
| `ReplyFirstAlways`, `TableIsLiveAlways` | `[]ReplyFirst`, `[]TableIsLive` | |
| `AnnouncedToAllAlways`, `AnnouncedWhileUniqueAlways` | the two action properties | |
| `PrpcTypeCorrect`, `ProxyBeforeUseAlways` | `[]PrpcTypeOK`, `[]ProxyBeforeUse` | `ProgramsProofs`, `PrpcAssumption` |
| `BridgeTypeCorrect`, `FetchedInOrderAlways` | `[]BridgeTypeOK`, `[]FetchedInOrder` | `ProgramsProofs`, `BridgeAssumption` |
| `TriggerCallsAllAlways` | the action property | |
| `HijackTypeCorrect` | `[]HijackTypeOK` | `ProgramsProofs`, `HijackAssumption` |
| `ScanFindsAllAlways`, `ObserverRemovesAlways` | the two action properties, for documents of any length | |
| `EachAsAlone` | `Spec => PrpcSpec /\ BridgeSpec /\ HijackSpec` for `MCPrograms` | `ProgramsProofs`, all three |
| `ProgramsTypeCorrect`, `ProgramsCorrect` | `[]TypeOK` of `MCPrograms`, and all of the above for its `Spec` | |
| `BufferTypeCorrect` | `[]TypeOK` | `ExBufferProofs`, `BufferAssumption` |
| `RingHoldsStreamAlways`, `NothingLeftBehindAlways` | `[]RingHoldsStream`, `[]NothingLeftBehind` | |
| `ImplementsFrameStream` | `SpacedSpec => FrameStreamSpec` | |
| `ViewsTypeCorrect`, `ViewsKeepContentsAlways` | `[]ViewsTypeOK`, `[]ViewsKeepContents` | `BufferViewsProofs`, `ViewsAssumption` |
| `GrowingDisturbsNobodyEver` | the action property | |
| `MessagesComeBack`, `CodecsUnderstand` | `[]RoundTrip`, `[]CrossRead` for `MCBuffers` | `MessageProofs`, `MessagesAssumption` |
| `WebTypeCorrect`, `WebRoundTrips`, `WebCrossReads` | the same and `[]WebTypeOK` for `WebSpec` alone | |
| `ServerTypeCorrect`, `ServerRoundTrips` | `[]TypeOK` and `[]RoundTrip` of `NodeByteBuffer` for its `Spec` alone | |
| `FieldsComeBackAlways`, `MarkStaysPutAlways` | `[]FieldsComeBack`, `[]MarkStaysPut` for `MCBuffers` | `StreamProofs`, `StreamAssumption` |
| `BuffersTypeCorrect` | `[]TypeOK` of `MCBuffers` | `StreamProofs`, the assumptions of all its parts |
| `StreamTypeCorrect`, `StreamFieldsComeBackAlways` | `[]StreamTypeOK` and `[]FieldsComeBack` for `StreamSpec` alone | |

### The C# server

`TypeOK` is not inductive, since a thread could push token 0; `TypeInv` adds that a thread at
a step that works on a token has one. `IInv` is `TypeInv`, `ReadArgsExclusive`,
`OnlineSocketIsOpen` and

* `LockInv`: closing happens under the lock, and swept entries exist only while
  Stop holds it;
* `CarriedInv`: a token that is worked on, awaited or in the table has carried a
  connection;
* `ConnInv`: no two tokens carry the same connection; a client being accepted is
  carried by none and is accepted by one thread; a thread that registers or closes
  works on the token of its own client.

`ConnInv` is what makes reuse of tokens harmless for ownership: a stale thread can
only find, in the token it holds, the connection the token carries now, and the
table maps that connection to this very token. The lemmas `TakeHead`, `AddLast`,
`PoolKept`, `PoolKeptByMove` and `PoolGivenBack` isolate what the pool's sequence
needs.

The counts need `CInv` on top of `IInv`:

* `LoopInv`: the accept loop is one, either an outstanding accept or one thread;
* `RefuseInv`: a client that was turned away is closed and no token carries it;
* `WorkInv`: whom a thread accepts, refuses or closes is not in the table, and no other
  thread works for it;
* `CountInv`: `numConnectedSockets` is the number of `Holders`, the clients in the table and
  those that threads work for between `Increment` and `Decrement`;
* `PermitInv`: permits, holders of a permit and an armed accept add up to at most the limit,
  exactly so while the listener is open, which is `PermitsCounted`;
* `ReadArgsConserved` itself.

Each action moves at most one client in or out of a set of holders, so the arithmetic
is that of one element added to or removed from a finite set. The refinement maps a step
to `Admit`, `Retire`, `Refuse` or a stutter. `Admit` has to show room for one more:
`RoomToRegister` counts tokens, since the one the thread holds is in nobody's entry.

### ExBuffer

`BufferInv` is `TypeOK`, `RoomInv` (between the growth and the copy the piece fits) and, until
`overlapped` is set, `StreamInv`: `AwaitInv` (the awaited frame is the next of the stream and
`dlen` the length of its body), `HoldsInv` (the i-th byte of the ring, counted round the end,
is the i-th that was put and not read) and `NothingLeftBehind`. `HoldsInv` says it by index
where `RingHoldsStream` says it of the sequence that `Peek` builds; the lemmas on growth
show that a wrapped part goes on where it should whether the extension is longer or
shorter than it.

`ImplementsFrameStream` is about `SpacedSpec`, the behaviours in which `overlapped` never becomes
true. The restriction is the fourth finding: without it the refinement is false, and
`exbuffer_overlap` shows a behaviour that leaves it.

### ChatServer

`ChatInv` is `TypeInv`, `RequestInv` (a login is the first request of its connection and made
once), `UnusedInv`, `ReplyInv` (on a server with a table, the next message of a client that waits
for its reply, and whose splitter has lost nothing, is the reply, and until it is written the
table does not list the client), `TableIsLive` and `UniqueInv` (the socket of a uid that one connection has is in
the table). `ServerEffect` and its siblings first reduce the handlers of the six servers
to four effects, so that each part of the invariant is proved once and not six times;
`OverlapEffect` does so for a splitter that loses messages, which take no other one's place.

### PrpcApp, JSBridge and their composition

`PrpcInv` adds `HostAsks` and `ListensLate`: the host asks for the data proxies before any of its
servers is created, and nothing listens before they have come. `BridgeInv` adds `NotesInv` (what
was fetched is over, and never ahead of the table if the host fetches all), `ArraysInv` and
`FrameInv` (until an `unbind` cuts its array, the first `len` entries of the running trigger's
array are those it began with, and it has called `i` of them).

`MCPrograms` runs one of three programs while the others keep still. A step of it is a
step of one program and leaves the variables of the two others alone, so its behaviours are
behaviours of each program's own specification (`EachAsAlone`), and what is proved of a
program alone holds of it there (`ProgramsCorrect`).

### HijackMonitor

`HijackInv` is `HijackTypeOK`, `InPlace` (the document lists no element twice) and `TimersSpent`. `ScanFindsAll` and `ObserverRemoves` speak of what a whole scan
leaves of a document of any length, so the work is in lemmas about `Scan` and not in the
invariant:

* a fold is what its own recursive function gives at the last index (`FoldExists` and the
  `...ByIndex` lemmas); that something holds at each index is proved for a set of indices
  that contains 0 and with each its successor (`Counting`, `Growing`), which takes a set as its
  parameter and so needs no theorem with an operator parameter;
* what has been sent, flattened, and what waits behind it are always the entries walked over so
  far (`Sending`, `OneMore`), and no batch is longer than `Batch`;
* removals by index from the live collection reach each of a batch, since there are as many
  calls as elements (`AllRemoved`), and `FourParts` counts an element in the lists of the four
  `Types`, put end to end.

### BufferViews

`IInv` is `ViewsTypeOK` and `PositionsInside`. A view is read as a record of
`BrowserByteBuffer`, and `Sound` says that its positions are inside its bytes; each method
of `bytebuffer.js` has a lemma that it takes sound records to sound ones, and what it does
to the contents. Every action is then one of two effects, `WriteKeeps` (the view's own
buffer with as many bytes, or an unused one with any number) and `ShareKeeps` (a view comes
to show the buffer of another), and both keep `IInv` and satisfy `GrowsAlone`.
`ViewsKeepContents` speaks of `ensureCapacity`, `compact` and `prepend` in the reached
state, so it follows from soundness by `ContentsStay` and `PrependProperties`. An unused
buffer exists because `ViewsAssumption` has more of them than views.

### The message codecs

`MessagesAssumption` asks that a byte has at least two values and that each field is of one of
the ten kinds, with a value that the kind can hold: numbers are any integers, texts any sequences
of whole characters (`WellFormed`, for any `CharLength`), blocks of any length; `SingleOf` is any
map of eight bytes to four. Nothing is assumed of how many fields, instances or calls there are.

The invariant is `MessageInv`: `offset` is the sum of the fields' lengths (`Listed`: `Ends` is
where each field ends), and what is packed is `Laid` out, a header and then each field's bytes
(`Code`) where the one before it ends. The `Code` of a text that is cut inside a character is
its whole characters, shorter than its field: what lies behind them is not known, which is
why a reader may find anything there. `RoundTrip` itself is not inductive and needs no
strengthening beyond that; it is what `Laid` implies, by three groups of lemmas:

* `Digits` and `Number` undo each other, signed or not and in either byte order, and a number
  of any size comes back modulo its range;
* each getter that stands where a field's `Code` begins takes the field and stops behind it
  (`ReadNumber` to `ReadBuffer`, for both programs), so the loop of reading is at `Ends` after every
  turn (`MessageReads`);
* each turn of `pack` lays one field's `Code` and keeps those before it (`WebLoop`, `NodeLoop`), so
  what both programs pack is `Laid`, and each reader reads what either has packed.

`PackedFits` is what the server's invariant adds: `pack` throws if a number or a text does
not fit, so nothing wrapped is ever in a server's message; it makes `BrowserReads` speak of
the values that were meant. A `buffer` field is the last of its list (see the findings
above): it is part of `Listed`, and `Add` puts no field behind one.

Induction over the turns of a loop is done without an operator parameter: `Counting` takes the
set of the indices at which something holds, and `Recursion` gives the function that a
recursive definition in a `LET` denotes.

### BufferStream

`StreamAssumption` asks that a byte is two to eight bits; that a word is more than four
groups of all but one bit of a byte and at most five, and two words nine groups and a bit,
as with 32, 64 and 7 bits; that a program writes only what a method takes (`CanHold`:
numbers in the range of their kind, lengths that their prefix holds, no zero in a
`cstring`), and that texts can be decoded: no two have the same bytes, and none begins with
the bytes of another that has as many characters. UTF-8 is such a code; that `bytebuffer.js`
computes it is what `TextSurvives` checks. Nothing is assumed of how many fields there are,
of the capacity, or of the order of the calls.

`FieldProofs` says what the methods do to one field. `Form` is the bytes of a field of each of the
twenty kinds:

* `Writing`: whatever the buffer is, a field that is written lays its `Form` at the offset, grows the
  buffer if it must, and changes no byte in front of it;
* `ReadingField`: whatever the buffer is, if its `Form` lies between offset and limit the field is
  read as it was written, and the offset moves behind it, to the byte;
* `CutField`: where only some of the first bytes of a text are there, the reader throws.

What they rest on is arithmetic. `DigitsAddUp` and `DigitOfSum` are about digits in any
base; `Varint32Is` and `Varint64Is` show that the code's groups, for 64 bits put together
from three parts of 28 bits, are the digits of the number with a bit set on each but the
last; `VarintValue` that they add up to it again; `SignedBack` and `ZigZagBack` that the
sign survives; `BitsBack` that a bit is found where it was put. `CutVarint` shows what the
code does with a length that is cut: it reads zero for the byte that is missing, and moves
behind the limit, where the text that follows is refused, even an empty one. A set of bits
has no such check behind its length, and `CutTextIsReported` does not speak of it.

`FieldsComeBack` is not inductive: it says nothing of a mark, and `Reset` returns to it.
`StreamInv` says which bytes lie where: while the program writes, `Writes` (in front of the
offset lie the bytes of `pending`, in order); while it reads, `Reads` (between offset and
limit lie those of `pending`, and between a mark and the limit those of `kept`, and the mark
is not behind the offset, which `compact` needs to know that a mark it moves is not in what
it drops); and `CutOff` for a message that is cut. `EncodedFirst` and `EncodedLast` say what
`prepend` and a write add to the bytes of a list, `EncodedHead` what a read takes away. Each
action then has a lemma (`WriteStep`, `ReadStep`, ...) by `Writing`, `ReadingField` or what
`BufferViewsProofs` knows of `compact` and `prepend`. In `MCBuffers` the others keep still,
so the invariants of the parts hold there too (`StreamBesideOthers`, `ViewsBesideOthers`).

### What stays with TLC

* Liveness: `GoneIsDropped`, `StopReturns`, `FriendsArrive`, `CallsEnd` and `NoteArrives`. The prover has neither `ENABLED` nor the rules of fairness.
* `TextSurvives` and `LongsExact`: `Utf` and `Long64` compute by recursion and with `Bitwise`,
  behind which the prover has no SMT backend.
* `NumberSurvives` and `FormsComeBack`: `Ieee754` searches an exponent with powers of two whose
  exponent is a variable, over numbers that are not whole, and `base64` is a fold over
  a text of any length; what a fold computes for every text is an induction over data.
* The type invariant of `MCCodecs`, whose parts are the modules of the last two points.
* The findings: TLC shows the behaviours.

## Plan

The proofs planned for the modules that exist are done: the safety properties of the C#
server, `ExBuffer`, `ChatServer`, `PrpcApp`, `JSBridge`, `HijackMonitor`, `BufferViews`,
`BufferStream` and both message codecs. What is left of them stays with TLC, as said above.

Modules still to write, in this order:

1. `SendPath`: write args, slabs and the buffer manager; the two orders in
   `ProcessSend`; the pool running empty.
2. `SocketServerLifecycle`: Start after Stop and Dispose, with callbacks of the previous
   life still running.
3. `PackageParse` and its listener: per-connection cache, limits, Remove racing Parse;
   the abstract specification is `FrameStream` again.
4. `SocketClient` and its pool: IsConnected, ResetConnect, stale callbacks.
5. `LogArchive`: copy and delete with failures between.
6. `ProtobufMessage`: messages of `protobuf.js` over `BrowserByteBuffer`.

## Not modelled

Serializers and message definitions (no state), the C# readers and writers, the sample
programs beyond their event handlers, the pages (`*.html`) that repeat the clients, and the
notes and configuration that make up the rest of the repository. The NET40 build of the
server uses concurrent dictionaries instead of the lock; only the lock build is modelled. Of
the modelled files: the listener lists and the configuration of `ExBuffer.js`, text
encodings other than UTF-8 in `ByteBuffer.js`, argument checks, `noAssert` and most explicit
offsets in `bytebuffer.js`, and iframes with `srcdoc` in `hihack.js`. `protobuf.js` is
third-party code and comes last.
