----------------------------- MODULE WebDataBuffer -----------------------------
(***************************************************************************)
(* DataBuffer.js, the browser's twin of ByteBuffer.js, and what the two    *)
(* read of each other's messages.  The byte order and the length of the    *)
(* header belong to the instance here.  A DataView takes a number that     *)
(* does not fit modulo the width of its field and throws past its end.     *)
(*                                                                         *)
(* A string is the sequence of its UTF-8 bytes; the module Utf is about    *)
(* the conversion itself.                                                  *)
(***************************************************************************)
EXTENDS FieldTexts

CONSTANTS Instances, Fields,
          MaxFields    \* bound: fields of one instance

VARIABLES
    endian, headLen,   \* of each instance
    list, offset,      \* of each instance: its fields and their bytes so far
    packed,            \* of each instance: what pack returned, <<>> before
    packedWith         \* of each instance: the fields and configuration pack used

webVars == <<endian, headLen, list, offset, packed, packedWith>>

\* ByteBuffer.js, for its readers and writers of a whole message.
Node == INSTANCE NodeByteBuffer
        WITH Endian <- "BE", HeadLen <- 0

ASSUME MessagesAssumption == RadixAssumption /\ CharLengthAssumption /\ Node!NodeAssumption

\* What is read where reading throws.
Thrown == <<-1>>

\* The kinds of field that hold a number, by their width.
Width == [byte |-> 1, short |-> 2, ushort |-> 2, int32 |-> 4, uint32 |-> 4]
NumberTypes == DOMAIN Width

WebTypeOK ==
    /\ endian \in [Instances -> Endians] /\ headLen \in [Instances -> {0, 2, 4}]
    /\ list \in [Instances -> Seq(Fields)] /\ offset \in [Instances -> Nat]
    /\ packed \in [Instances -> Seq(Byte)]
    /\ packedWith \in [Instances -> [endian : Endians, head : {0, 2, 4}, list : Seq(Fields)]]

WebInit ==
    /\ endian = [b \in Instances |-> "BE"] /\ headLen = [b \in Instances |-> 0]
    /\ list = [b \in Instances |-> <<>>] /\ offset = [b \in Instances |-> 0]
    /\ packed = [b \in Instances |-> <<>>]
    /\ packedWith = [b \in Instances |-> [endian |-> "BE", head |-> 0, list |-> <<>>]]

-----------------------------------------------------------------------------
(* Configuration. *)

SetEndian(b, e) ==
    /\ endian' = [endian EXCEPT ![b] = e]
    /\ UNCHANGED <<headLen, list, offset, packed, packedWith>>

SetHead(b, n) ==
    /\ headLen' = [headLen EXCEPT ![b] = n]
    /\ UNCHANGED <<endian, list, offset, packed, packedWith>>

-----------------------------------------------------------------------------
(* Writing. *)

FieldLength(f) ==
    CASE f.t \in NumberTypes -> Width[f.t]
      [] f.t = "double" -> 8
      [] f.t = "float" -> 4
      [] f.t = "string" -> Len(f.d) + 2
      [] f.t = "buffer" -> Len(f.d)
      [] OTHER -> f.len

splice(b, f, index) ==
    /\ list' = [list EXCEPT ![b] = InsertAt(@, index + 1, f)]
    /\ offset' = [offset EXCEPT ![b] = @ + FieldLength(f)]
    /\ UNCHANGED <<endian, headLen, packed, packedWith>>

\* The fields a program of the repository writes: a buffer closes the message.
Add(b, f, index) ==
    /\ Len(list[b]) < MaxFields
    /\ ~Node!HasBuffer(list[b])
    /\ f.t = "buffer" => index = Len(list[b])
    /\ splice(b, f, index)

\* What a field writes at its index.
Encoded(f, e) ==
    CASE f.t \in NumberTypes -> Ordered(Digits(f.d, Width[f.t]), e)
      [] f.t = "double" -> Ordered(f.d, e)
      [] f.t = "float" -> Ordered(SingleOf[f.d], e)
      [] f.t = "string" -> Ordered(Digits(Len(f.d), 2), e) \o f.d
      [] f.t = "vstring" -> IF Len(f.d) < f.len THEN Padded(f.d, f.len) ELSE f.d
      [] f.t = "byteArray" -> Padded(f.d, f.len)
      [] f.t = "buffer" -> f.d

writeHead(p, off, head, e) ==
    [buffer |-> Overlay(p.buffer, 0, Ordered(Digits(off, head), e)), index |-> head]

\* One turn of the loop of pack; `fits` goes to FALSE with the write that throws.
PackField(p, f, e) ==
    LET at == IF f.t = "buffer" THEN Len(p.buffer) - Len(f.d) ELSE p.index
        bytes == Encoded(f, e)
    IN  [buffer |-> Overlay(p.buffer, at, bytes), index |-> p.index + FieldLength(f),
         fits |-> p.fits /\ at + Len(bytes) <= Len(p.buffer)]

\* A new ArrayBuffer is all zeros.
Packing(l, off, e, head) ==
    LET fresh == [buffer |-> [i \in 1..(off + head) |-> 0], index |-> 0]
        start == IF head = 0 THEN fresh ELSE writeHead(fresh, off, head, e)
        after[k \in 0..Len(l)] ==
            IF k = 0 THEN [buffer |-> start.buffer, index |-> start.index, fits |-> TRUE]
            ELSE PackField(after[k - 1], l[k], e)
    IN  after[Len(l)]

pack(b) ==
    LET p == Packing(list[b], offset[b], endian[b], headLen[b]) IN
    /\ list[b] # <<>> /\ p.fits
    /\ packed' = [packed EXCEPT ![b] = p.buffer]
    /\ packedWith' = [packedWith EXCEPT ![b] = [endian |-> endian[b], head |-> headLen[b],
                                               list |-> list[b]]]
    /\ UNCHANGED <<endian, headLen, list, offset>>

-----------------------------------------------------------------------------
(* Reading: r is the buffer's bytes, the offset and the values so far. *)

read(r, len, e) == Ordered(Slice(r.bytes, r.offset, len), e)

\* Every getter moves the offset over what it read and keeps the value.
Took(r, len, v) ==
    [bytes |-> r.bytes, offset |-> r.offset + len, values |-> Append(r.values, v)]

getNumber(r, t, e) ==
    LET bytes == read(r, Width[t], e) IN
    Took(r, Width[t], IF t \in {"short", "int32"} THEN SignedNumber(bytes) ELSE Number(bytes))

getDouble(r, e) == Took(r, 8, read(r, 8, e))

getFloat(r, e) == Took(r, 4, read(r, 4, e))

\* The text of len bytes.  Characters are read until those bytes are used up, the last one
\* to its end, past a field that cuts it; past the end of the view getUint8 throws, and
\* what is behind the text stays unread.
utf8Read(bytes, at, len) ==
    LET text == Slice(bytes, at, len)
        end == CutAt(text) + CharLength[text[CutAt(text)]] - 1
    IN  IF ~Cut(text) THEN text
        ELSE IF at + end > Len(bytes) THEN Thrown ELSE Slice(bytes, at, end)

getString(r, e) ==
    LET len == Number(read(r, 2, e)) IN
    Took(r, 2 + len, utf8Read(r.bytes, r.offset + 2, len))

\* The length without the zeros that fill the field up.
VText(bytes, at, len) ==
    LET field == Slice(bytes, at, len)
        vlen == Cardinality({i \in DOMAIN field : field[i] > 0})
    IN  utf8Read(bytes, at, vlen)

getVString(r, len) == Took(r, len, VText(r.bytes, r.offset, len))

\* slice stops at the end of the buffer; unlike ByteBuffer.js it fills nothing up.
getByteArray(r, len) ==
    LET last == IF r.offset + len > Len(r.bytes) THEN Len(r.bytes) ELSE r.offset + len IN
    Took(r, len, SubSeq(r.bytes, r.offset + 1, last))

getBuffer(r) ==
    LET len == Len(r.bytes) - r.offset IN
    Took(r, len, Slice(r.bytes, r.offset, len))

get(r, f, e) ==
    CASE f.t \in NumberTypes -> getNumber(r, f.t, e)
      [] f.t = "double" -> getDouble(r, e)
      [] f.t = "float" -> getFloat(r, e)
      [] f.t = "string" -> getString(r, e)
      [] f.t = "vstring" -> getVString(r, f.len)
      [] f.t = "byteArray" -> getByteArray(r, f.len)
      [] f.t = "buffer" -> getBuffer(r)

ReadAll(bytes, l, e) ==
    LET after[k \in 0..Len(l)] ==
            IF k = 0 THEN [bytes |-> bytes, offset |-> 0, values |-> <<>>]
            ELSE get(after[k - 1], l[k], e)
    IN  after[Len(l)]

-----------------------------------------------------------------------------
WebNext ==
    \/ \E b \in Instances, e \in Endians : SetEndian(b, e)
    \/ \E b \in Instances, n \in {2, 4} : SetHead(b, n)
    \/ \E b \in Instances, f \in Fields : \E i \in 0..Len(list[b]) : Add(b, f, i)
    \/ \E b \in Instances : pack(b)

WebSpec == WebInit /\ [][WebNext]_webVars

-----------------------------------------------------------------------------
(* Properties. *)

Body(b) == SubSeq(packed[b], packedWith[b].head + 1, Len(packed[b]))

\* What a number comes back as: itself if it fits, else modulo the range of its type.
Wrapped(f) ==
    LET range == RadixTo[Width[f.t]]
        n == f.d % range
    IN  IF f.t \in {"short", "int32"} /\ 2 * n >= range THEN n - range ELSE n

\* v is what a field like f that the browser packed may be read as.
Meant(f, v) == IF f.t \in NumberTypes THEN v = Wrapped(f) ELSE Node!Understood(f, v)

\* The browser throws at a text that is cut inside a character, for want of its last bytes.
Throws(f, v) == Split(f) /\ v = Thrown

\* The length of a string fits the two bytes before it.
TextsFit(l) == \A i \in DOMAIN l : l[i].t = "string" => Len(l[i].d) < RadixTo[2]

\* A message that the browser packed reads back in the browser field by field, in
\* whatever order its fields were put in; a number that does not fit reads back modulo
\* the range of its type and takes no other field with it, nor does a text that its field
\* cuts inside a character, unless the reader throws there.
ReadsBack ==
    \A b \in Instances :
        LET l == packedWith[b].list
            r == ReadAll(Body(b), l, packedWith[b].endian)
        IN  packed[b] # <<>> /\ TextsFit(l) =>
                /\ Len(r.values) = Len(l) /\ r.offset = Len(Body(b))
                /\ \A i \in DOMAIN l : Meant(l[i], r.values[i]) \/ Throws(l[i], r.values[i])

\* The server reads a browser's message with ByteBuffer.js to the same values.
ServerReads ==
    \A b \in Instances :
        LET l == packedWith[b].list
            r == Node!ReadAll(Body(b), l, packedWith[b].endian)
        IN  packed[b] # <<>> /\ TextsFit(l) =>
                /\ Len(r.values) = Len(l) /\ r.offset = Len(Body(b))
                /\ \A i \in DOMAIN l : Meant(l[i], r.values[i])

\* The browser reads a message of the same fields that the server packed, as it was meant,
\* up to a text that is cut inside a character and has no last bytes.
BrowserReads ==
    \A b \in Instances :
        LET l == list[b]
            r == ReadAll(Node!PackBytes(l, offset[b], endian[b], 0), l, endian[b])
        IN  Node!Fits(l) =>
                /\ Len(r.values) = Len(l) /\ r.offset = offset[b]
                /\ \A i \in DOMAIN l :
                      Node!Understood(l[i], r.values[i]) \/ Throws(l[i], r.values[i])

\* The header that the server's ExBuffer.js waits by is the number of bytes behind it, in
\* the byte order of the instance; a header of two bytes wraps for a longer message.
HeadIsBodyLength ==
    \A b \in Instances :
        /\ packed[b] # <<>> /\ packedWith[b].head > 0
        /\ Len(Body(b)) < RadixTo[packedWith[b].head]
        => Number(Ordered(SubSeq(packed[b], 1, packedWith[b].head), packedWith[b].endian))
                = Len(Body(b))

WebRoundTrip == ReadsBack /\ HeadIsBodyLength

\* The two codecs understand each other, in both directions.
WebCrossRead == ServerReads /\ BrowserReads
=============================================================================
