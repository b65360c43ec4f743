------------------------------- MODULE ExBuffer -------------------------------
(***************************************************************************)
(* ExBuffer.js, the ring buffer that splits a TCP stream into frames:      *)
(* put(), the growth of the buffer and the loop that reads headers and     *)
(* bodies and emits "data".  JavaScript runs put to its end before the     *)
(* next; the steps between are its statements, in their order.             *)
(*                                                                         *)
(* The buffer is modelled byte by byte, but a byte is its position in the  *)
(* stream (see FrameStream), 0 for one Buffer.alloc left.  So a byte read  *)
(* out of place cannot be taken for the right one.                         *)
(*                                                                         *)
(* An operator commented "Fault" is a broken variant of the operator that  *)
(* follows it; no specification uses it.                                   *)
(***************************************************************************)
EXTENDS Integers, Sequences

CONSTANTS HeadLen,        \* headLen
          FrameCount,     \* frames the peer sends
          Streams,        \* the streams, as functions from 0..FrameCount to frame ends
          PutLengths,     \* lengths of the pieces the socket delivers
          InitialLength,  \* bufferLength
          Chunk,          \* 1024: the buffer grows to a multiple of this
          MaxRounds,      \* 1000: frames read by one put
          MaxFrame        \* the longest body a header can announce

ASSUME BufferAssumption ==
    /\ HeadLen \in Nat \ {0} /\ FrameCount \in Nat /\ MaxFrame \in Nat
    /\ InitialLength \in Nat \ {0} /\ Chunk \in Nat \ {0} /\ MaxRounds \in Nat \ {0}
    /\ PutLengths \subseteq Nat \ {0}
    /\ \A e \in Streams :
           /\ e \in [0..FrameCount -> Nat] /\ e[0] = 0
           /\ \A n \in 1..FrameCount : e[n] - e[n - 1] \in HeadLen..(HeadLen + MaxFrame)

VARIABLES
    ends, received, delivered,  \* the stream, its bytes put, and the "data" events
    buf,         \* inBuffer, a function on 0..(length - 1)
    length,      \* inBuffer.length
    readOffset,
    putOffset,
    dlen,        \* length of the body being awaited, 0 if none
    count,       \* rounds of the loop in this put
    len,         \* argument of put
    pc,          \* the statement put has reached
    overlapped   \* whether a put ever left the offsets equal on a full buffer

streamVars == <<ends, received, delivered>>
ringVars   == <<buf, length, readOffset, putOffset>>
vars == <<streamVars, ringVars, dlen, count, len, pc, overlapped>>

TypeOK ==
    /\ ends \in Streams /\ received \in 0..ends[FrameCount]
    /\ delivered \in Seq(Seq(0..ends[FrameCount]))
    /\ length \in Nat \ {0} /\ buf \in [0..(length - 1) -> 0..ends[FrameCount]]
    /\ readOffset \in 0..length /\ putOffset \in 0..length
    /\ dlen \in 0..MaxFrame /\ count \in 0..(MaxRounds + 1)
    /\ len \in PutLengths \cup {0}
    /\ pc \in {"idle", "store", "loop", "body"}
    /\ overlapped \in BOOLEAN

Init ==
    /\ ends \in Streams /\ received = 0 /\ delivered = <<>>
    /\ buf = [i \in 0..(InitialLength - 1) |-> 0] /\ length = InitialLength
    /\ readOffset = 0 /\ putOffset = 0
    /\ dlen = 0 /\ count = 0 /\ len = 0
    /\ pc = "idle" /\ overlapped = FALSE

Min2(a, b) == IF a <= b THEN a ELSE b

\* getLen
GetLen == IF putOffset >= readOffset THEN putOffset - readOffset
                                     ELSE length - readOffset + putOffset

-------------------------------------------------------------------------------
(* put: room for the piece *)

\* Math.ceil(n / 1024) * 1024
Ceiling(n) == ((n + Chunk - 1) \div Chunk) * Chunk

\* Fault: all of the part that wrapped round goes behind the old end, even where it
\* does not fit (the code before "fix bug : superzheng")
GrownInOnePiece(newLength) ==
    [i \in 0..(newLength - 1) |->
        IF i < length THEN buf[i]
        ELSE IF putOffset < readOffset /\ i < length + putOffset THEN buf[i - length]
        ELSE 0]

\* The buffer copied to a longer one; of the part that wrapped round, as much as
\* fits goes behind the old end and the rest moves to the front
Grown(newLength) ==
    LET exlen == newLength - length
        moved == IF putOffset < readOffset THEN Min2(putOffset, exlen) ELSE 0
    IN  [i \in 0..(newLength - 1) |->
            IF i >= length THEN (IF i < length + moved THEN buf[i - length] ELSE 0)
            ELSE IF putOffset < readOffset /\ i < putOffset - moved THEN buf[i + moved]
            ELSE buf[i]]

GrownPutOffset(newLength) ==
    LET exlen == newLength - length
    IN  IF putOffset >= readOffset THEN putOffset
        ELSE IF putOffset <= exlen THEN putOffset + length
        ELSE putOffset - exlen

Put(k) ==
    /\ pc = "idle" /\ received + k <= ends[FrameCount]
    /\ len' = k
    /\ pc' = "store"
    /\ IF k + GetLen > length - 1
       THEN LET newLength == Ceiling(k + GetLen)
            IN  /\ buf' = Grown(newLength)
                /\ putOffset' = GrownPutOffset(newLength)
                /\ length' = newLength
                /\ UNCHANGED readOffset
       ELSE UNCHANGED ringVars
    /\ UNCHANGED <<streamVars, dlen, count, overlapped>>

\* An empty buffer starts over at 0; the piece goes behind the data, and wraps
\* round the end of the buffer where it has to
Store ==
    /\ pc = "store"
    /\ LET read == IF GetLen = 0 THEN 0 ELSE readOffset
           put  == IF GetLen = 0 THEN 0 ELSE putOffset
       IN  /\ readOffset' = read
           /\ putOffset' = IF put + len > length THEN put + len - length ELSE put + len
           /\ buf' = [i \in 0..(length - 1) |->
                         IF i \in put..(put + len - 1) THEN received + i - put + 1
                         ELSE IF i < put + len - length THEN received + length - put + i + 1
                         ELSE buf[i]]
           /\ overlapped' = (overlapped \/ putOffset' = readOffset')
    /\ received' = received + len
    /\ count' = 0 /\ len' = 0
    /\ pc' = "loop"
    /\ UNCHANGED <<ends, delivered, length, dlen>>

-------------------------------------------------------------------------------
(* put: the loop over the frames *)

\* n bytes from readOffset on, round the end of the buffer
Peek(n) == [i \in 1..n |-> buf[(readOffset + i - 1) % length]]

\* Fault: readOffset runs past the end of the buffer
SkipStraight(n) == readOffset' = readOffset + n

\* readOffset behind them
Skip(n) == readOffset' = IF readOffset + n > length THEN readOffset + n - length
                                                    ELSE readOffset + n

\* What readUInt, or the headerProtocol function, makes of a header's bytes: the
\* body's length.  Bytes that are no header of the stream give an arbitrary one.
Lengths(header) ==
    LET of == {n \in 1..FrameCount :
                   header = [i \in 1..HeadLen |-> ends[n - 1] + i]}
    IN  IF of = {} THEN 0..MaxFrame
        ELSE {ends[n] - ends[n - 1] - HeadLen : n \in of}

\* while (true) { count++; if (count > 1000) break; ... }
BreakOff ==
    /\ pc = "loop" /\ count = MaxRounds
    /\ count' = count + 1
    /\ pc' = "idle"
    /\ UNCHANGED <<streamVars, ringVars, dlen, len, overlapped>>

\* The header has not arrived whole
AwaitHeader ==
    /\ pc = "loop" /\ count < MaxRounds /\ dlen = 0 /\ GetLen < HeadLen
    /\ count' = count + 1
    /\ pc' = "idle"
    /\ UNCHANGED <<streamVars, ringVars, dlen, len, overlapped>>

ReadHeader ==
    /\ pc = "loop" /\ count < MaxRounds /\ dlen = 0 /\ GetLen >= HeadLen
    /\ count' = count + 1
    /\ dlen' \in Lengths(Peek(HeadLen))
    /\ Skip(HeadLen)
    /\ pc' = "body"
    /\ UNCHANGED <<streamVars, buf, length, putOffset, len, overlapped>>

\* The header was read in an earlier put
KnownHeader ==
    /\ pc = "loop" /\ count < MaxRounds /\ dlen # 0
    /\ count' = count + 1
    /\ pc' = "body"
    /\ UNCHANGED <<streamVars, ringVars, dlen, len, overlapped>>

\* The body has not arrived whole
AwaitBody ==
    /\ pc = "body" /\ GetLen < dlen
    /\ pc' = "idle"
    /\ UNCHANGED <<streamVars, ringVars, dlen, count, len, overlapped>>

\* Fault: one frame per put
EmitOneBody ==
    /\ pc = "body" /\ GetLen >= dlen
    /\ delivered' = Append(delivered, Peek(dlen))
    /\ Skip(dlen)
    /\ dlen' = 0
    /\ pc' = "idle"
    /\ UNCHANGED <<ends, received, buf, length, putOffset, count, len, overlapped>>

\* Fault: dlen is not reset for the next frame
EmitBodyOnly ==
    /\ pc = "body" /\ GetLen >= dlen
    /\ delivered' = Append(delivered, Peek(dlen))
    /\ Skip(dlen)
    /\ \/ pc' = "loop"
       \/ pc' = "idle" /\ readOffset' = putOffset
    /\ UNCHANGED <<ends, received, dlen, buf, length, putOffset, count, len, overlapped>>

\* The "data" event; a listener that throws leads to "error" and, unlike one that
\* returns, to another round on an empty buffer
EmitBody ==
    /\ pc = "body" /\ GetLen >= dlen
    /\ delivered' = Append(delivered, Peek(dlen))
    /\ Skip(dlen)
    /\ dlen' = 0
    /\ \/ pc' = "loop"
       \/ pc' = "idle" /\ readOffset' = putOffset
    /\ UNCHANGED <<ends, received, buf, length, putOffset, count, len, overlapped>>

Next ==
    \/ \E k \in PutLengths : Put(k)
    \/ Store \/ BreakOff \/ AwaitHeader \/ ReadHeader \/ KnownHeader
    \/ AwaitBody \/ EmitBody

Spec == Init /\ [][Next]_vars

-------------------------------------------------------------------------------

\* Bytes of the stream that have been read: the frames delivered, and the header
\* of the one that is being awaited
Consumed == ends[Len(delivered)] + (IF dlen # 0 \/ pc = "body" THEN HeadLen ELSE 0)

\* Until a put fills the buffer to the last byte, the ring holds exactly the bytes
\* put and not read yet, in order, through growth, wrap-around and split headers.
RingHoldsStream ==
    ~overlapped =>
        /\ GetLen = received - Consumed
        /\ \A i \in 1..GetLen : Peek(GetLen)[i] = Consumed + i

\* When put returns, every frame that has arrived whole has been emitted, unless
\* the round limit cut the loop short.
NothingLeftBehind ==
    pc = "idle" /\ count <= MaxRounds /\ ~overlapped =>
        \/ Len(delivered) = FrameCount
        \/ ends[Len(delivered) + 1] > received

\* Puts that never fill the buffer to the last byte with the offsets equal
SpacedSpec == Init /\ [][Next /\ ~overlapped']_vars

\* Under such puts the "data" events are the frames of the stream: whole, in
\* order, once each.
Stream == INSTANCE FrameStream
FrameStreamSpec == Stream!Spec

\* The comment in put says that one position always stays free, so that the offsets
\* never overlap (ExBuffer.js:66): after bytes were stored the offsets differ.
OffsetsNeverOverlap == pc = "loop" /\ count = 0 => readOffset # putOffset
===============================================================================
