---------------------------- MODULE NodeByteBuffer ----------------------------
(***************************************************************************)
(* ByteBuffer.js: a list of typed fields that pack() lays out behind an    *)
(* optional header, and a read index over received bytes.  The byte order  *)
(* and the length of the header are properties of the constructor: every   *)
(* ByteBuffer of the process shares them, whoever sets them.               *)
(*                                                                         *)
(* A string is the sequence of its UTF-8 bytes.                            *)
(***************************************************************************)
EXTENDS FieldTexts

CONSTANTS Instances, Fields,
          MaxFields    \* bound: fields of one instance

\* The kinds of field, by the width of a number in bytes.  int64 and double read and write
\* 8 bytes as they are (int64 as a double), float the 4 bytes of a single.
Width == [byte |-> 1, short |-> 2, ushort |-> 2, int32 |-> 4, uint32 |-> 4]
NumberTypes == DOMAIN Width

\* A field: its type t, its data d, and for fields of fixed length that length.
IsField(f) ==
    \/ f.t \in NumberTypes /\ f.d \in Int
    \/ f.t = "double" /\ f.d \in [1..8 -> Byte]
    \/ f.t = "float" /\ f.d \in [1..8 -> Byte] /\ SingleOf[f.d] \in [1..4 -> Byte]
    \/ f.t = "string" /\ f.d \in Seq(Byte) /\ WellFormed(f.d)
    \/ f.t = "buffer" /\ f.d \in Seq(Byte)
    \/ f.t = "vstring" /\ f.d \in Seq(Byte \ {0}) /\ WellFormed(f.d) /\ f.len \in Nat \ {0}
    \/ f.t = "byteArray" /\ f.d \in Seq(Byte) /\ f.len \in Nat \ {0}

NodeAssumption == \A f \in Fields : IsField(f)

VARIABLES
    Endian, HeadLen,   \* ByteBuffer.Endian and ByteBuffer.HeadLen
    list,              \* of each instance: its fields
    offset,            \* of each instance: bytes of the fields added so far
    packed,            \* of each instance: what pack returned, <<>> before
    packedWith         \* the fields and the configuration pack used

vars == <<Endian, HeadLen, list, offset, packed, packedWith>>

TypeOK ==
    /\ Endian \in Endians /\ HeadLen \in {0, 2, 4}
    /\ list \in [Instances -> Seq(Fields)]
    /\ offset \in [Instances -> Nat]
    /\ packed \in [Instances -> Seq(Byte \cup {Garbage})]
    /\ packedWith \in [Instances -> [endian : Endians, head : {0, 2, 4}, list : Seq(Fields)]]

Init ==
    /\ Endian = "BE" /\ HeadLen = 0
    /\ list = [b \in Instances |-> <<>>]
    /\ offset = [b \in Instances |-> 0]
    /\ packed = [b \in Instances |-> <<>>]
    /\ packedWith = [b \in Instances |-> [endian |-> "BE", head |-> 0, list |-> <<>>]]

-----------------------------------------------------------------------------
(* Configuration. *)

\* littleEndian and bigEndian of any instance set the property of the constructor.
SetEndian(e) ==
    /\ Endian' = e
    /\ UNCHANGED <<HeadLen, list, offset, packed, packedWith>>

SetHead(n) ==
    /\ HeadLen' = n
    /\ UNCHANGED <<Endian, list, offset, packed, packedWith>>

-----------------------------------------------------------------------------
(* Adding fields. *)

\* What a field adds to offset.
FieldLength(f) ==
    CASE f.t \in NumberTypes -> Width[f.t]
      [] f.t = "double" -> 8
      [] f.t = "float" -> 4
      [] f.t = "string" -> Len(f.d) + 2
      [] f.t = "buffer" -> Len(f.d)
      [] OTHER -> f.len

\* list.splice(index, 0, field); without an index the field goes to the end.
splice(b, f, index) ==
    /\ Len(list[b]) < MaxFields
    /\ list' = [list EXCEPT ![b] = InsertAt(@, index + 1, f)]
    /\ offset' = [offset EXCEPT ![b] = @ + FieldLength(f)]
    /\ UNCHANGED <<Endian, HeadLen, packed, packedWith>>

HasBuffer(l) == \E i \in DOMAIN l : l[i].t = "buffer"

\* The fields a program of the repository writes: a buffer closes the message.
Add(b, f, index) ==
    /\ ~HasBuffer(list[b])
    /\ f.t = "buffer" => index = Len(list[b])
    /\ splice(b, f, index)

-----------------------------------------------------------------------------
(* Packing. *)

\* Buffer.write: of a text that does not fit the `room` bytes behind its index only whole
\* characters are written.
Fitting(text, room) == IF Len(text) <= room THEN text ELSE WholeChars(SubSeq(text, 1, room))

\* The bytes of one field, in the order they are written, with `room` bytes from its index
\* to the end of the buffer.  The zeros of a string of fixed length begin where its bytes
\* would have ended: those of a character that was not written stay as they are.
Encoded(f, endian, room) ==
    CASE f.t \in NumberTypes -> Ordered(Digits(f.d, Width[f.t]), endian)
      [] f.t = "double" -> Ordered(f.d, endian)
      [] f.t = "float" -> Ordered(SingleOf[f.d], endian)
      [] f.t = "string" -> Ordered(Digits(Len(f.d), 2), endian) \o f.d
      [] f.t = "vstring" -> Fitting(f.d, room) \o [i \in 1..(f.len - Len(f.d)) |-> 0]
      [] f.t = "byteArray" -> Padded(f.d, f.len)
      [] f.t = "buffer" -> f.d

\* Fault: the index is not moved on over the padding of a fixed-length string.
PackFieldUnpadded(p, f, endian) ==
    [buffer |-> Overlay(p.buffer, p.index, Encoded(f, endian, Len(p.buffer) - p.index)),
     index |-> p.index + IF f.t = "vstring" THEN Len(f.d) ELSE FieldLength(f)]

\* One turn of the loop of pack: p is the buffer and the index reached.
PackField(p, f, endian) ==
    IF f.t = "buffer"
    THEN [buffer |-> Overlay(p.buffer, Len(p.buffer) - Len(f.d), f.d), index |-> p.index + Len(f.d)]
    ELSE [buffer |-> Overlay(p.buffer, p.index, Encoded(f, endian, Len(p.buffer) - p.index)),
          index |-> p.index + FieldLength(f)]

\* Fault: the header counts itself.
writeHeadWhole(p, off, head, endian) ==
    [buffer |-> Overlay(p.buffer, 0, Ordered(Digits(off + head, head), endian)), index |-> head]

writeHead(p, off, head, endian) ==
    [buffer |-> Overlay(p.buffer, 0, Ordered(Digits(off, head), endian)), index |-> head]

\* Node throws for a number that does not fit; then pack returns nothing.
Fits(l) ==
    \A i \in DOMAIN l :
        /\ l[i].t \in {"byte", "ushort", "uint32"} => l[i].d \in 0..(RadixTo[Width[l[i].t]] - 1)
        /\ l[i].t \in {"short", "int32"} =>
              2 * l[i].d \in (-(RadixTo[Width[l[i].t]]))..(RadixTo[Width[l[i].t]] - 1)
        /\ l[i].t = "string" => Len(l[i].d) < RadixTo[2]

PackBytes(l, off, endian, head) ==
    LET fresh == [buffer |-> [i \in 1..(off + head) |-> Garbage], index |-> 0]
        start == IF head = 0 THEN fresh ELSE writeHead(fresh, off, head, endian)
        after[k \in 0..Len(l)] == IF k = 0 THEN start ELSE PackField(after[k - 1], l[k], endian)
    IN  after[Len(l)].buffer

pack(b) ==
    /\ list[b] # <<>>
    /\ Fits(list[b]) /\ (HeadLen > 0 => offset[b] < RadixTo[HeadLen])
    /\ packed' = [packed EXCEPT ![b] = PackBytes(list[b], offset[b], Endian, HeadLen)]
    /\ packedWith' = [packedWith EXCEPT ![b] = [endian |-> Endian, head |-> HeadLen,
                                               list |-> list[b]]]
    /\ UNCHANGED <<Endian, HeadLen, list, offset>>

-----------------------------------------------------------------------------
(* Reading: r is the buffer's bytes, the offset and the values so far. *)

read(r, len, endian) == Ordered(Slice(r.bytes, r.offset, len), endian)

\* Every getter moves the offset over what it read and keeps the value.
Took(r, len, v) ==
    [bytes |-> r.bytes, offset |-> r.offset + len, values |-> Append(r.values, v)]

getNumber(r, t, endian) ==
    LET bytes == read(r, Width[t], endian) IN
    Took(r, Width[t], IF t \in {"short", "int32"} THEN SignedNumber(bytes) ELSE Number(bytes))

getDouble(r, endian) ==
    Took(r, 8, read(r, 8, endian))

\* The four bytes stand for the number that they are.
getFloat(r, endian) ==
    Took(r, 4, read(r, 4, endian))

\* Buffer.toString: a cut character becomes U+FFFD.
toString(bytes) == IF Cut(bytes) THEN Append(WholeChars(bytes), Replacement) ELSE bytes

getString(r, endian) ==
    LET len == Number(read(r, 2, endian)) IN
    Took(r, 2 + len, toString(Slice(r.bytes, r.offset + 2, len)))

\* The length without the zeros that fill the field up.
VText(bytes, offset_, len) ==
    LET field == Slice(bytes, offset_, len)
        vlen == Cardinality({i \in DOMAIN field : field[i] > 0})
    IN  toString(Slice(bytes, offset_, vlen))

getVString(r, len) == Took(r, len, VText(r.bytes, r.offset, len))

getByteArray(r, len) ==
    Took(r, len, Padded(Slice(r.bytes, r.offset, len), len))

getBuffer(r) ==
    LET len == Len(r.bytes) - r.offset IN
    Took(r, len, Slice(r.bytes, r.offset, len))

\* The call that reads a field like f back.
get(r, f, endian) ==
    CASE f.t \in NumberTypes -> getNumber(r, f.t, endian)
      [] f.t = "double" -> getDouble(r, endian)
      [] f.t = "float" -> getFloat(r, endian)
      [] f.t = "string" -> getString(r, endian)
      [] f.t = "vstring" -> getVString(r, f.len)
      [] f.t = "byteArray" -> getByteArray(r, f.len)
      [] f.t = "buffer" -> getBuffer(r)

\* new ByteBuffer(data) over what the receiver's ExBuffer hands over: no header.
ReadAll(bytes, l, endian) ==
    LET after[k \in 0..Len(l)] ==
            IF k = 0 THEN [bytes |-> bytes, offset |-> 0, values |-> <<>>]
            ELSE get(after[k - 1], l[k], endian)
    IN  after[Len(l)]

-----------------------------------------------------------------------------
Next ==
    \/ \E e \in Endians : SetEndian(e)
    \/ \E n \in {2, 4} : SetHead(n)
    \/ \E b \in Instances, f \in Fields : \E i \in 0..Len(list[b]) : Add(b, f, i)
    \/ \E b \in Instances : pack(b)

Spec == Init /\ [][Next]_vars

-----------------------------------------------------------------------------
(* Properties. *)

\* What the reader of a field gets: a string of fixed length is cut to its field, a byte
\* array is cut or filled up with zeros, a float rounded to a single.
Expected(f) ==
    CASE f.t = "float" -> SingleOf[f.d]
      [] f.t = "vstring" -> IF Len(f.d) > f.len THEN SubSeq(f.d, 1, f.len) ELSE f.d
      [] f.t = "byteArray" -> Padded(f.d, f.len)
      [] OTHER -> f.d

\* v is what a field like f may be read as: of a text that its field cuts inside a
\* character the reader gets the whole characters, and behind them anything.
Understood(f, v) ==
    IF Split(f) THEN IsPrefix(WholeChars(SubSeq(f.d, 1, f.len)), v) ELSE v = Expected(f)

Body(b) == SubSeq(packed[b], packedWith[b].head + 1, Len(packed[b]))

\* A message that was packed reads back field by field, whatever fields it has and in
\* whatever order they were put in, and the reader ends at the end of the message; a text
\* that its field cuts inside a character takes no other field with it.
ReadsBack ==
    \A b \in Instances :
        LET l == packedWith[b].list
            r == ReadAll(Body(b), l, packedWith[b].endian)
        IN  packed[b] # <<>> =>
                /\ Len(r.values) = Len(l)
                /\ \A i \in DOMAIN l : Understood(l[i], r.values[i])
                /\ r.offset = Len(Body(b))

\* The header is the number of bytes behind it: what ExBuffer.js waits for.
HeadIsBodyLength ==
    \A b \in Instances :
        packed[b] # <<>> /\ packedWith[b].head > 0 =>
            Number(Ordered(SubSeq(packed[b], 1, packedWith[b].head), packedWith[b].endian))
                = Len(Body(b))

\* pack hands out no byte of the new, uninitialised Buffer: every byte has been written.
\* Not so for a text that is cut inside a character: where the message ends before the
\* character does, its bytes are neither written (ByteBuffer.js:191) nor filled up (:192).
EveryByteWritten ==
    \A b \in Instances :
        (\A i \in DOMAIN packedWith[b].list : ~Split(packedWith[b].list[i]))
            => \A i \in DOMAIN packed[b] : packed[b][i] # Garbage

RoundTrip == ReadsBack /\ HeadIsBodyLength /\ EveryByteWritten
=============================================================================
