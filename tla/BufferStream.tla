----------------------------- MODULE BufferStream -----------------------------
(***************************************************************************)
(* A ByteBuffer of bytebuffer.js used as its callers in protobuf.js and in *)
(* the chat pages use it: fields are written one behind another, or put in *)
(* front of the others, the buffer is flipped and the same fields are read *)
(* in their order.  In between a caller may mark a position and return to  *)
(* it, compact, copy or clear the buffer; what is received may end before  *)
(* the last field does.                                                    *)
(***************************************************************************)
EXTENDS BrowserByteBuffer

\* Programs that use a ByteBuffer: the fields they write, each a kind k and a value v; the
\* capacity they allocate; which of "order", "front", "mark", "compact" and "copy" they use;
\* whether what they write may arrive cut.  Bounds: maxFields in the buffer at a time, and
\* how many rounds it is filled.
CONSTANT Callers

\* A number that fits its bytes, signed or not.
Unsigned(v, n) == v \in Nat /\ v < RadixTo[n]
SignedIn(v, range) == v \in Int /\ -range <= 2 * v /\ 2 * v < range

\* What the methods take.  A string or a set of bits has a length that its prefix holds.
CanHold(f) ==
    \/ f.k = "int8" /\ SignedIn(f.v, RadixTo[1])
    \/ f.k = "int16" /\ SignedIn(f.v, RadixTo[2])
    \/ f.k = "int32" /\ SignedIn(f.v, RadixTo[4])
    \/ f.k = "int64" /\ SignedIn(f.v, RadixTo[8])
    \/ f.k = "uint8" /\ Unsigned(f.v, 1)
    \/ f.k = "uint16" /\ Unsigned(f.v, 2)
    \/ f.k = "uint32" /\ Unsigned(f.v, 4)
    \/ f.k = "uint64" /\ Unsigned(f.v, 8)
    \/ f.k = "float32" /\ f.v \in Seq(Byte) /\ Len(f.v) = 4
    \/ f.k = "float64" /\ f.v \in Seq(Byte) /\ Len(f.v) = 8
    \/ f.k \in {"varint32", "zigzag32"} /\ SignedIn(f.v, Word)
    \/ f.k \in {"varint64", "zigzag64"} /\ SignedIn(f.v, Word * Word)
    \/ f.k = "bits" /\ f.v \in Seq(BOOLEAN) /\ 2 * Len(f.v) < Word
    \/ f.k \in {"utf8", "chars"} /\ f.v \in Texts
    \/ f.k = "cstring" /\ f.v \in Texts /\ \A i \in DOMAIN Utf8(f.v) : Utf8(f.v)[i] # 0
    \/ f.k = "istring" /\ f.v \in Texts /\ Len(Utf8(f.v)) < RadixTo[4]
    \/ f.k = "vstring" /\ f.v \in Texts /\ 2 * Len(Utf8(f.v)) < Word

ASSUME StreamAssumption ==
    /\ RadixAssumption /\ VarintAssumption /\ TextsAssumption
    /\ \A c \in Callers :
          /\ \A f \in c.fields : CanHold(f)
          /\ c.maxFields \in Nat /\ c.capacity \in Nat /\ c.cuts \in BOOLEAN

VARIABLES caller,   \* the program
          buf,      \* the ByteBuffer
          pending,  \* the fields it holds that have not been read
          kept,     \* pending as it was at the mark
          mode,     \* "write", "read" or, what is read was cut, "cut"
          last,     \* the field that was just read: as written, as read
          round     \* times that the buffer was filled

streamVars == <<caller, buf, pending, kept, mode, last, round>>

NoField == [wrote |-> [k |-> "none"]]

WriteField(b, f) ==
    CASE f.k = "int8" -> writeInt8(b, f.v, None)
      [] f.k = "uint8" -> writeUint8(b, f.v, None)
      [] f.k = "int16" -> writeInt16(b, f.v, None)
      [] f.k = "uint16" -> writeUint16(b, f.v, None)
      [] f.k = "int32" -> writeInt32(b, f.v, None)
      [] f.k = "uint32" -> writeUint32(b, f.v, None)
      [] f.k = "int64" -> writeInt64(b, f.v, None)
      [] f.k = "uint64" -> writeUint64(b, f.v, None)
      [] f.k = "float32" -> writeFloat32(b, f.v, None)
      [] f.k = "float64" -> writeFloat64(b, f.v, None)
      [] f.k = "varint32" -> writeVarint32(b, f.v, None)
      [] f.k = "zigzag32" -> writeVarint32ZigZag(b, f.v, None)
      [] f.k = "varint64" -> writeVarint64(b, f.v, None)
      [] f.k = "zigzag64" -> writeVarint64ZigZag(b, f.v, None)
      [] f.k = "bits" -> writeBitSet(b, f.v, None)
      [] f.k = "utf8" -> writeUTF8String(b, f.v, None)
      [] f.k = "chars" -> writeUTF8String(b, f.v, None)
      [] f.k = "cstring" -> writeCString(b, f.v, None)
      [] f.k = "istring" -> writeIString(b, f.v, None)
      [] f.k = "vstring" -> writeVString(b, f.v, None)

\* Reading f does not throw.
CanReadField(b, f) ==
    CASE f.k \in {"int8", "uint8"} -> CanGet(b, None, 1)
      [] f.k \in {"int16", "uint16"} -> CanGet(b, None, 2)
      [] f.k \in {"int32", "uint32", "float32"} -> CanGet(b, None, 4)
      [] f.k \in {"int64", "uint64", "float64"} -> CanGet(b, None, 8)
      [] f.k \in {"varint32", "zigzag32"} -> CanReadVarint32(b, None)
      [] f.k \in {"varint64", "zigzag64"} -> CanReadVarint64(b, None)
      [] f.k = "bits" -> CanReadBitSet(b, None)
      [] f.k = "utf8" -> CanGet(b, None, calculateUTF8Bytes(f.v))
      [] f.k = "chars" -> CanReadUTF8Chars(b, calculateUTF8Chars(f.v), None)
      [] f.k = "cstring" -> CanReadCString(b, None)
      [] f.k = "istring" -> CanReadIString(b, None)
      [] f.k = "vstring" -> CanReadVString(b, None)

ReadField(b, f) ==
    CASE f.k = "int8" -> readInt8(b, None)
      [] f.k = "uint8" -> readUint8(b, None)
      [] f.k = "int16" -> readInt16(b, None)
      [] f.k = "uint16" -> readUint16(b, None)
      [] f.k = "int32" -> readInt32(b, None)
      [] f.k = "uint32" -> readUint32(b, None)
      [] f.k = "int64" -> readInt64(b, None)
      [] f.k = "uint64" -> readUint64(b, None)
      [] f.k = "float32" -> readFloat32(b, None)
      [] f.k = "float64" -> readFloat64(b, None)
      [] f.k = "varint32" -> readVarint32(b, None)
      [] f.k = "zigzag32" -> readVarint32ZigZag(b, None)
      [] f.k = "varint64" -> readVarint64(b, None)
      [] f.k = "zigzag64" -> readVarint64ZigZag(b, None)
      [] f.k = "bits" -> readBitSet(b, None)
      [] f.k = "utf8" -> readUTF8Bytes(b, calculateUTF8Bytes(f.v), None)
      [] f.k = "chars" -> readUTF8Chars(b, calculateUTF8Chars(f.v), None)
      [] f.k = "cstring" -> readCString(b, None)
      [] f.k = "istring" -> readIString(b, None)
      [] f.k = "vstring" -> readVString(b, None)
-------------------------------------------------------------------------------
StreamInit ==
    /\ caller \in Callers
    /\ buf = allocate(caller.capacity, "BE")
    /\ pending = <<>> /\ kept = <<>> /\ mode = "write"
    /\ last = NoField /\ round = 1

\* The byte order belongs to the buffer; what it was is noted with the field.
Entry(f) == [k |-> f.k, v |-> f.v, endian |-> buf.endian]

Order ==
    /\ "order" \in caller.uses /\ mode = "write" /\ Len(pending) < caller.maxFields
    /\ buf' = IF buf.endian = "BE" THEN LE(buf) ELSE BE(buf)
    /\ UNCHANGED <<pending, kept, mode, round>> /\ last' = NoField

Write(f) ==
    /\ mode = "write" /\ Len(pending) < caller.maxFields
    /\ CanPut(buf, None, 1)
    /\ buf' = WriteField(buf, f)
    /\ pending' = Append(pending, Entry(f))
    /\ UNCHANGED <<kept, mode, round>> /\ last' = NoField

\* A head in front of what is written: prepend(source, 0).
WriteInFront(f) ==
    LET source == flip(WriteField(allocate(1, buf.endian), f)) IN
    /\ "front" \in caller.uses /\ mode = "write" /\ Len(pending) < caller.maxFields
    /\ CanPrepend(buf, source, 0)
    /\ buf' = prepend(buf, source, 0)
    /\ pending' = <<Entry(f)>> \o pending
    /\ UNCHANGED <<kept, mode, round>> /\ last' = NoField

Flip ==
    /\ mode = "write" /\ mode' = "read"
    /\ buf' = flip(buf)
    /\ UNCHANGED <<pending, kept, round>> /\ last' = NoField

\* Some bytes of the end do not arrive; the receiver wraps what does.
ReceiveCut ==
    /\ caller.cuts /\ mode = "read" /\ Len(pending) = 1 /\ mode' = "cut"
    /\ \E n \in 0..(remaining(buf) - 1) :
          buf' = order(wrap(SubSeq(Window(buf), 1, n)), buf.endian)
    /\ UNCHANGED <<pending, kept, round>> /\ last' = NoField

Read ==
    LET f == Head(pending)
        read == ReadField(order(buf, f.endian), f)
    IN  /\ mode = "read" /\ pending # <<>>
        /\ CanReadField(order(buf, f.endian), f)
        /\ buf' = read.b
        /\ pending' = Tail(pending)
        /\ last' = [wrote |-> f, read |-> read.value]
        /\ UNCHANGED <<kept, mode, round>>

Mark ==
    /\ "mark" \in caller.uses /\ mode = "read"
    /\ buf' = mark(buf, None) /\ kept' = pending /\ last' = NoField
    /\ UNCHANGED <<pending, mode, round>>

Reset ==
    /\ mode = "read" /\ buf.mark >= 0
    /\ buf' = reset(buf) /\ pending' = kept /\ kept' = <<>> /\ last' = NoField
    /\ UNCHANGED <<mode, round>>

\* compact() drops what is read, and with it a mark in front of that.
CompactRest ==
    /\ "compact" \in caller.uses /\ mode = "read"
    /\ buf' = compact(buf, None, None)
    /\ kept' = IF buf'.mark >= 0 THEN kept ELSE <<>>
    /\ last' = NoField
    /\ UNCHANGED <<pending, mode, round>>

Copy ==
    /\ "copy" \in caller.uses /\ mode = "read"
    /\ buf' = copy(buf, None, None)
    /\ kept' = <<>> /\ last' = NoField
    /\ UNCHANGED <<pending, mode, round>>

\* The buffer is used again once it is read.
Clear ==
    /\ mode = "read" /\ pending = <<>> /\ mode' = "write"
    /\ round < caller.rounds /\ round' = round + 1
    /\ buf' = clear(buf) /\ kept' = <<>> /\ last' = NoField
    /\ UNCHANGED pending

StreamNext ==
    /\ \/ Order \/ Flip \/ ReceiveCut \/ Read \/ Mark \/ Reset \/ CompactRest \/ Copy \/ Clear
       \/ \E f \in caller.fields : Write(f) \/ WriteInFront(f)
    /\ UNCHANGED caller

StreamSpec == StreamInit /\ [][StreamNext]_streamVars
-------------------------------------------------------------------------------
\* The bytes of fields, each as it is written into a buffer of its own.
EncodedFields(fields) ==
    LET bytes(f) == Window(flip(WriteField(allocate(1, f.endian), f)))
        upTo[n \in 0..Len(fields)] == IF n = 0 THEN <<>> ELSE upTo[n - 1] \o bytes(fields[n])
    IN  upTo[Len(fields)]

StreamTypeOK ==
    /\ \A i \in DOMAIN buf.bytes : buf.bytes[i] \in Byte
    /\ buf.offset \in 0..capacity(buf) /\ buf.limit \in 0..capacity(buf)
    /\ buf.endian \in Endians /\ mode \in {"write", "read", "cut"}
    /\ Len(pending) <= caller.maxFields

\* Growing, putting fields in front, compacting and copying lose and change nothing:
\* in front of offset, or between offset and limit, lie the bytes of the fields alone
\* (lines 2382-2925).
BufferHoldsFields ==
    /\ mode = "write" => SubSeq(buf.bytes, 1, buf.offset) = EncodedFields(pending)
    /\ mode = "read" => Window(buf) = EncodedFields(pending)

\* A field is read as it was written, whatever lies around it and in whatever order of
\* bytes, negative numbers and the zigzag forms of 64 bits included (lines 402-2366).
FieldsSurvive == last # NoField => last.read = last.wrote.v

\* Reading what was written throws nothing: the ranges that the methods assert and the
\* sizes they compute before they grow the buffer fit what they write.
FieldsCanBeRead ==
    mode = "read" /\ pending # <<>> =>
        CanReadField(order(buf, Head(pending).endian), Head(pending))

\* The mark stays with the byte it was set on while the buffer is compacted around it.
MarkStaysPut ==
    mode = "read" /\ buf.mark >= 0 /\ kept # <<>> =>
        SubSeq(buf.bytes, buf.mark + 1, buf.limit) = EncodedFields(kept)

\* A text that did not arrive in full is reported, not read short
\* (lines 1998-2003, 2083-2092, 2249-2261, 2346-2355).
CutTextIsReported ==
    mode = "cut" /\ Head(pending).k \in {"cstring", "istring", "vstring", "utf8", "chars"} =>
        ~CanReadField(order(buf, Head(pending).endian), Head(pending))

\* What holds of the fields at every step between writing and reading them.
FieldsComeBack == BufferHoldsFields /\ FieldsSurvive /\ FieldsCanBeRead /\ CutTextIsReported
===============================================================================
