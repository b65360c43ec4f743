------------------------------- MODULE MCBuffers -------------------------------
(* What is written into buffers, in behaviours of their own, for TLC: messages of *)
(* ByteBuffer.js ("node") and of DataBuffer.js ("web"), and the ByteBuffer of     *)
(* bytebuffer.js: its callers ("stream"), and views that share a backing buffer   *)
(* ("views").  `use` says which; the others keep still.  The two message codecs   *)
(* keep their fields in the same variables; Endian and HeadLen are the server's   *)
(* configuration, endian and headLen the browser's.                               *)
EXTENDS WebDataBuffer, BufferViews, BufferStream, TLC

Num(t, d) == [t |-> t, d |-> d]
Sized(t, d, len) == [t |-> t, d |-> d, len |-> len]

Eight == <<0, 1, 2, 3, 0, 1, 2, 3>>
MCSingleOf == [d \in {Eight} |-> <<0, 1, 3, 0>>]

\* Two characters: 3 begins the one of two bytes.
MCCharLength == [byte \in 0..Radix |-> CASE byte = 3 -> 2 [] byte = 2 -> 0 [] OTHER -> 1]

\* Every kind of field of a message, numbers at the ends of their ranges and past them,
\* texts and blocks that are cut, also inside a character, or filled up.
MCFields ==
    {Num("short", -8), Num("uint32", 254), Num("byte", 7),
     Num("double", Eight), Num("float", Eight), Num("string", <<1, 3, 2>>),
     Sized("vstring", <<1>>, 2), Sized("vstring", <<3, 2, 1>>, 2),
     Sized("vstring", <<1, 3, 2>>, 2),
     Sized("byteArray", <<0, 3>>, 3), Num("buffer", <<0, 2>>)}

F(k, v) == [k |-> k, v |-> v]

\* Two characters, of one and of two bytes; zero is left to the end of a CString.
MCCharBytes == <<<<1>>, <<3, 2>>>>
MCTexts == {<<>>, <<1>>, <<2>>, <<1, 2>>, <<2, 1>>, <<2, 2>>}

\* Bytes of two bits: a varint has one of them, a word five.
AllFields ==
    {F("int8", -2), F("uint8", 3), F("int16", -7), F("uint16", 9), F("int32", -100),
     F("uint32", 200), F("int64", -3000), F("uint64", 50000),
     F("float32", <<1, 2, 3, 0>>), F("float64", <<0, 1, 2, 3, 3, 2, 1, 0>>),
     F("varint32", -1), F("varint32", 6), F("zigzag32", -16), F("zigzag32", 15),
     F("varint64", -1), F("varint64", 37), F("varint64", 260), F("zigzag64", -512),
     F("zigzag64", 511), F("bits", <<TRUE, FALSE, TRUE>>), F("bits", <<>>),
     F("utf8", <<2, 1>>), F("chars", <<1, 2>>), F("cstring", <<2>>), F("cstring", <<>>),
     F("istring", <<1, 2>>), F("vstring", <<2, 2>>), F("vstring", <<>>)}
FewFields == {F("varint32", 6), F("vstring", <<2>>)}
TextFields ==
    {F("utf8", <<2, 1>>), F("chars", <<1, 2>>), F("cstring", <<2>>), F("istring", <<1, 2>>),
     F("vstring", <<2, 2>>), F("uint8", 2)}

\* Callers who write and read fields, in either order of bytes, in two capacities; who
\* mark, copy and use the buffer again; and whose texts arrive cut.
Caller(fields, maxFields, capacity_, cuts, uses, rounds) ==
    [fields |-> fields, maxFields |-> maxFields, capacity |-> capacity_, cuts |-> cuts,
     uses |-> uses, rounds |-> rounds]
MCCallers ==
    {Caller(AllFields, 2, 1, FALSE, {"order", "front"}, 1),
     Caller(AllFields, 2, 16, FALSE, {"order", "front"}, 1),
     Caller(FewFields, 3, 4, FALSE, {"front", "mark", "compact", "copy"}, 2),
     Caller(TextFields, 2, 4, TRUE, {"order"}, 1)}

VARIABLES use,
    Endian, HeadLen

Server == INSTANCE NodeByteBuffer

messageVars == <<Endian, HeadLen, endian, headLen, list, offset, packed, packedWith>>
vars == <<use, messageVars, streamVars, viewVars>>

Init ==
    /\ use \in {"node", "web", "stream", "views"}
    /\ Server!Init /\ WebInit
    /\ StreamInit /\ (use # "stream" => caller = CHOOSE c \in Callers : TRUE)
    /\ ViewsInit

Runs(u) == use = u /\ UNCHANGED use

NodeStep ==
    /\ Runs("node") /\ Server!Next
    /\ UNCHANGED <<endian, headLen, streamVars, viewVars>>
WebStep ==
    /\ Runs("web") /\ WebNext
    /\ UNCHANGED <<Endian, HeadLen, streamVars, viewVars>>
StreamStep == Runs("stream") /\ StreamNext /\ UNCHANGED <<messageVars, viewVars>>
ViewStep == Runs("views") /\ ViewsNext /\ UNCHANGED <<messageVars, streamVars>>

Next == NodeStep \/ WebStep \/ StreamStep \/ ViewStep

Spec == Init /\ [][Next]_vars

\* The views are alike, and so are the backing buffers.
Symmetry == Permutations(Views) \cup Permutations(Stores)
-----------------------------------------------------------------------------
(* The properties of the use that runs; those of the callers and the views are    *)
(* the modules' own, whose variables keep still in the other uses.                *)

TypeOK ==
    /\ use = "node" => Server!TypeOK
    /\ use = "web" => WebTypeOK
    /\ StreamTypeOK
    /\ ViewsTypeOK

RoundTrip == (use = "node" => Server!RoundTrip) /\ (use = "web" => WebRoundTrip)

CrossRead == use = "web" => WebCrossRead
=============================================================================
