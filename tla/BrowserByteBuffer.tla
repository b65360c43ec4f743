--------------------------- MODULE BrowserByteBuffer ---------------------------
(***************************************************************************)
(* The ByteBuffer of bytebuffer.js: its methods as operators on a record   *)
(* of the backing buffer's bytes, the two positions, the mark and the byte *)
(* order.  BufferStream writes and reads with them, BufferViews lets       *)
(* several ByteBuffers share a backing buffer.                             *)
(*                                                                         *)
(* A method that writes grows a backing buffer that is too short to twice  *)
(* its size, or to what it needs when that is more; limit stays.  Offsets  *)
(* are relative, None, where the caller passes none: then this.offset is   *)
(* used and moved.  noAssert keeps its default, false; the operators named *)
(* Can... are the ranges the methods assert.  A float or a double is what  *)
(* Ieee754 makes of it, four or eight bytes.                               *)
(*                                                                         *)
(* A byte has ByteBits bits, 8 in the program; a varint carries one less,  *)
(* and five bytes hold a word of WordBits, 32 in the program.  A text is a *)
(* sequence of characters that are CharBytes bytes each.                   *)
(***************************************************************************)
EXTENDS FieldBytes

CONSTANTS WordBits, CharBytes, Texts

None == -1
Half == Radix \div 2
Word == 2^WordBits

\* The powers of two and of Half, as far as they are needed.
TwoTo[n \in 0..8] == IF n = 0 THEN 1 ELSE 2 * TwoTo[n - 1]
HalfTo[n \in 0..10] == IF n = 0 THEN 1 ELSE Half * HalfTo[n - 1]

ByteBits == CHOOSE n \in 1..8 : TwoTo[n] = Radix

ByteAssumption == \E n \in 2..8 : TwoTo[n] = Radix
VarintAssumption ==
    /\ ByteAssumption
    /\ Word \in Nat /\ HalfTo[4] < Word /\ Word <= HalfTo[5]
    /\ Word % HalfTo[4] = 0 /\ Word * Word = 2 * HalfTo[9]

Zeros(n) == [i \in 1..n |-> 0]
-------------------------------------------------------------------------------
\* new ByteBuffer(capacity, littleEndian)
allocate(capacity, endian) ==
    [bytes |-> Zeros(capacity), offset |-> 0, limit |-> capacity, mark |-> None,
     endian |-> endian]

\* wrap(buffer) of an ArrayBuffer, a Uint8Array or an array of octets.
wrap(bytes) ==
    [bytes |-> bytes, offset |-> 0, limit |-> Len(bytes), mark |-> None, endian |-> "BE"]

capacity(b) == Len(b.bytes)
remaining(b) == b.limit - b.offset
\* Contents: the bytes between offset and limit.
Window(b) == IF b.offset < b.limit THEN Slice(b.bytes, b.offset, remaining(b)) ELSE <<>>

\* A buffer of no bytes has a null view, of which `set` throws: it cannot grow.
CanGrow(b, end) == capacity(b) = 0 => end <= 0

\* Fault: the bytes stay behind.
resizeFresh(b, size) == IF capacity(b) < size THEN [b EXCEPT !.bytes = Zeros(size)] ELSE b

resize(b, size) ==
    IF capacity(b) < size THEN [b EXCEPT !.bytes = @ \o Zeros(size - Len(@))] ELSE b

ensureCapacity(b, end) ==
    IF capacity(b) < end
    THEN resize(b, IF 2 * capacity(b) > end THEN 2 * capacity(b) ELSE end)
    ELSE b
-------------------------------------------------------------------------------
At(b, offset) == IF offset = None THEN b.offset ELSE offset
Moved(b, offset, end) == IF offset = None THEN [b EXCEPT !.offset = end] ELSE b

CanPut(b, offset, n) ==
    At(b, offset) \in 0..capacity(b) /\ CanGrow(b, At(b, offset) + n)
CanGet(b, offset, n) == At(b, offset) >= 0 /\ At(b, offset) + n <= capacity(b)

\* Grow to what bytes need, then write them.
Put(b, offset, bytes) ==
    LET at == At(b, offset)
        grown == ensureCapacity(b, at + Len(bytes))
    IN  Moved([grown EXCEPT !.bytes = Overlay(@, at, bytes)], offset, at + Len(bytes))

\* The value that Decode makes of n bytes, and the buffer after it.
Get(b, offset, n, Decode(_)) ==
    [value |-> Decode(Slice(b.bytes, At(b, offset), n)),
     b |-> Moved(b, offset, At(b, offset) + n)]

PutNumber(b, v, n, offset) == Put(b, offset, Ordered(Digits(v, n), b.endian))
GetSigned(b, n, offset) ==
    LET decode(bytes) == SignedNumber(Ordered(bytes, b.endian)) IN Get(b, offset, n, decode)
GetUnsigned(b, n, offset) ==
    LET decode(bytes) == Number(Ordered(bytes, b.endian)) IN Get(b, offset, n, decode)
GetFloat(b, n, offset) ==
    LET decode(bytes) == Ordered(bytes, b.endian) IN Get(b, offset, n, decode)

writeInt8(b, v, offset) == Put(b, offset, <<v % Radix>>)
writeUint8(b, v, offset) == Put(b, offset, <<v % Radix>>)
writeInt16(b, v, offset) == PutNumber(b, v, 2, offset)
writeUint16(b, v, offset) == PutNumber(b, v, 2, offset)
writeInt32(b, v, offset) == PutNumber(b, v, 4, offset)
writeUint32(b, v, offset) == PutNumber(b, v, 4, offset)
writeInt64(b, v, offset) == PutNumber(b, v, 8, offset)
writeUint64(b, v, offset) == PutNumber(b, v, 8, offset)
writeFloat32(b, v, offset) == Put(b, offset, Ordered(v, b.endian))
writeFloat64(b, v, offset) == Put(b, offset, Ordered(v, b.endian))

readInt8(b, offset) == GetSigned(b, 1, offset)
readUint8(b, offset) == GetUnsigned(b, 1, offset)
readInt16(b, offset) == GetSigned(b, 2, offset)
readUint16(b, offset) == GetUnsigned(b, 2, offset)
readInt32(b, offset) == GetSigned(b, 4, offset)
readUint32(b, offset) == GetUnsigned(b, 4, offset)
readInt64(b, offset) == GetSigned(b, 8, offset)
readUint64(b, offset) == GetUnsigned(b, 8, offset)
readFloat32(b, offset) == GetFloat(b, 4, offset)
readFloat64(b, offset) == GetFloat(b, 8, offset)
-------------------------------------------------------------------------------
\* Base 128 numbers.  All groups but the last have the top bit set.
SignedWord(v) == IF 2 * (v % Word) >= Word THEN (v % Word) - Word ELSE v % Word

Grouped(groups) ==
    [i \in DOMAIN groups |-> (groups[i] % Half) + IF i < Len(groups) THEN Half ELSE 0]

calculateVarint32(v) ==
    LET w == v % Word IN
    IF w < Half THEN 1 ELSE IF w < HalfTo[2] THEN 2 ELSE IF w < HalfTo[3] THEN 3
    ELSE IF w < HalfTo[4] THEN 4 ELSE 5

zigZagEncode32(n) == IF n >= 0 THEN 2 * n ELSE -2 * n - 1

zigZagDecode32(n) == IF n % 2 = 0 THEN n \div 2 ELSE -((n + 1) \div 2)

Varint32(v) == Grouped([i \in 1..calculateVarint32(v) |-> (v % Word) \div HalfTo[i - 1]])

writeVarint32(b, v, offset) == Put(b, offset, Varint32(v))
writeVarint32ZigZag(b, v, offset) == writeVarint32(b, zigZagEncode32(v), offset)

\* What view[at] shows to `&`: undefined, behind the end, is zero.
ByteAt(b, at) == IF at < capacity(b) THEN b.bytes[at + 1] ELSE 0

\* The bytes of the varint at `at`: up to one without the top bit.
VarintBytes(b, at) ==
    LET last == CHOOSE n \in 1..(capacity(b) + 1) :
                   /\ ByteAt(b, at + n - 1) < Half
                   /\ \A i \in 1..(n - 1) : ByteAt(b, at + i - 1) >= Half
    IN  [i \in 1..last |-> ByteAt(b, at + i - 1)]

\* The groups that count, the lowest first.
Ungrouped(bytes, most) ==
    LET group(i) == IF i <= most THEN (bytes[i] % Half) * HalfTo[i - 1] ELSE 0
        sum[i \in 0..Len(bytes)] == IF i = 0 THEN 0 ELSE sum[i - 1] + group(i)
    IN  sum[Len(bytes)]

\* Line 1675 asks for offset > limit: the byte at limit is read still.
CanReadVarint32(b, offset) ==
    LET at == At(b, offset) IN
    CanGet(b, offset, 1) /\ at + Len(VarintBytes(b, at)) - 1 <= b.limit

readVarint32(b, offset) ==
    LET bytes == VarintBytes(b, At(b, offset)) IN
    [value |-> SignedWord(Ungrouped(bytes, 5)), length |-> Len(bytes),
     b |-> Moved(b, offset, At(b, offset) + Len(bytes))]

readVarint32ZigZag(b, offset) ==
    LET read == readVarint32(b, offset) IN
    [read EXCEPT !.value = zigZagDecode32(read.value % Word)]

\* A Long in three parts, of four, four and two groups.
Parts(v) == <<v % Word, (v \div HalfTo[4]) % Word, (v \div HalfTo[8]) % Word>>

calculateVarint64(v) ==
    LET part == Parts(v)
        size(p) == IF p < Half THEN 1 ELSE IF p < HalfTo[2] THEN 2
                   ELSE IF p < HalfTo[3] THEN 3 ELSE 4
    IN  IF part[3] # 0 THEN IF part[3] < Half THEN 9 ELSE 10
        ELSE IF part[2] # 0 THEN 4 + size(part[2]) ELSE size(part[1])

zigZagEncode64(n) == IF n >= 0 THEN 2 * n ELSE -2 * n - 1
zigZagDecode64(n) == IF n % 2 = 0 THEN n \div 2 ELSE -((n + 1) \div 2)

Varint64(v) ==
    LET part == Parts(v % (Word * Word))
        group(i) == IF i <= 4 THEN part[1] \div HalfTo[i - 1]
                    ELSE IF i <= 8 THEN part[2] \div HalfTo[i - 5]
                    ELSE part[3] \div HalfTo[i - 9]
    IN  Grouped([i \in 1..calculateVarint64(v % (Word * Word)) |-> group(i)])

writeVarint64(b, v, offset) == Put(b, offset, Varint64(v))
writeVarint64ZigZag(b, v, offset) == writeVarint64(b, zigZagEncode64(v), offset)

\* An eleventh byte is an error; limit is not asked for.
CanReadVarint64(b, offset) ==
    CanGet(b, offset, 1) /\ Len(VarintBytes(b, At(b, offset))) <= 10

readVarint64(b, offset) ==
    LET bytes == VarintBytes(b, At(b, offset))
        v == Ungrouped(bytes, 10) % (Word * Word)
    IN  [value |-> IF 2 * v >= (Word * Word) THEN v - (Word * Word) ELSE v, length |-> Len(bytes),
         b |-> Moved(b, offset, At(b, offset) + Len(bytes))]

readVarint64ZigZag(b, offset) ==
    LET read == readVarint64(b, offset) IN
    [read EXCEPT !.value = zigZagDecode64(read.value % (Word * Word))]
-------------------------------------------------------------------------------
\* Bits behind their number, ByteBits in a byte, each byte written by itself.
BitBytes(bits) ==
    LET bit(k) == IF k \in DOMAIN bits /\ bits[k] THEN 1 ELSE 0
        byte(i) == LET upTo[m \in 0..ByteBits] ==
                           IF m = 0 THEN 0
                           ELSE upTo[m - 1] + bit((i - 1) * ByteBits + m) * TwoTo[m - 1]
                   IN  upTo[ByteBits]
    IN  [i \in 1..((Len(bits) + ByteBits - 1) \div ByteBits) |-> byte(i)]

writeBitSet(b, bits, offset) ==
    LET bytes == BitBytes(bits)
        size == calculateVarint32(Len(bits))
        start == At(b, offset) + size
        after[i \in 0..Len(bytes)] ==
            IF i = 0 THEN writeVarint32(b, Len(bits), At(b, offset))
            ELSE Put(after[i - 1], start + i - 1, <<bytes[i]>>)
    IN  Moved(after[Len(bytes)], offset, start + Len(bytes))

BitSetEnd(b, at) ==
    LET count == readVarint32(b, at)
    IN  at + count.length + ((count.value + ByteBits - 1) \div ByteBits)
CanReadBitSet(b, offset) ==
    CanReadVarint32(b, At(b, offset)) /\ BitSetEnd(b, At(b, offset)) <= capacity(b)
readBitSet(b, offset) ==
    LET count == readVarint32(b, At(b, offset))
        start == At(b, offset) + count.length
        bit(k) == ByteAt(b, start + ((k - 1) \div ByteBits)) \div TwoTo[(k - 1) % ByteBits]
    IN  [value |-> [k \in 1..count.value |-> bit(k) % 2 = 1],
         b |-> Moved(b, offset, BitSetEnd(b, At(b, offset)))]
-------------------------------------------------------------------------------
\* Texts.
Utf8(text) == LET step(bytes, char) == bytes \o CharBytes[char] IN FoldLeft(step, <<>>, text)
\* No two texts are the same bytes, and none begins with another that has as many
\* characters.
TextsAssumption ==
    /\ \A s \in Texts : s \in Seq(DOMAIN CharBytes) /\ Utf8(s) \in Seq(Byte)
    /\ \A s, t \in Texts :
          /\ Utf8(s) = Utf8(t) => s = t
          /\ Len(s) = Len(t) /\ (\E n \in 0..Len(Utf8(t)) : Utf8(s) = SubSeq(Utf8(t), 1, n)) => s = t

IsText(bytes) == \E text \in Texts : Utf8(text) = bytes
TextOf(bytes) == CHOOSE text \in Texts : Utf8(text) = bytes

calculateUTF8Chars(text) == Len(text)
calculateUTF8Bytes(text) == Len(Utf8(text))

writeUTF8String(b, text, offset) == Put(b, offset, Utf8(text))

\* readUTF8String(length, METRICS_BYTES): that many bytes.
readUTF8Bytes(b, n, offset) == Get(b, offset, n, TextOf)

\* readUTF8String(length, METRICS_CHARS): as many bytes as the characters take, up to limit.
CharsFit(b, at, n) ==
    {size \in 0..(b.limit - at) :
        IsText(Slice(b.bytes, at, size)) /\ Len(TextOf(Slice(b.bytes, at, size))) = n}
CanReadUTF8Chars(b, n, offset) == CanGet(b, offset, 0) /\ CharsFit(b, At(b, offset), n) # {}
readUTF8Chars(b, n, offset) ==
    LET size == CHOOSE s \in CharsFit(b, At(b, offset), n) : TRUE IN Get(b, offset, size, TextOf)

\* Ended by a zero byte.  The method answers how many bytes the text has.
writeCString(b, text, offset) == Put(b, offset, Append(Utf8(text), 0))

CStringEnds(b, at) ==
    {n \in 0..(b.limit - at - 1) :
        b.bytes[at + n + 1] = 0 /\ \A i \in 1..n : b.bytes[at + i] # 0}
CanReadCString(b, offset) == CanGet(b, offset, 1) /\ CStringEnds(b, At(b, offset)) # {}
readCString(b, offset) ==
    LET n == CHOOSE n \in CStringEnds(b, At(b, offset)) : TRUE
        decode(bytes) == TextOf(Front(bytes))
    IN  Get(b, offset, n + 1, decode)

\* Behind its length as 32 bits.
writeIString(b, text, offset) ==
    Put(b, offset, Ordered(Digits(Len(Utf8(text)), 4), b.endian) \o Utf8(text))
CanReadIString(b, offset) ==
    LET at == At(b, offset) IN
    CanGet(b, offset, 4) /\ CanGet(b, at + 4, readUint32(b, at).value)
readIString(b, offset) ==
    LET at == At(b, offset)
        text == readUTF8Bytes(b, readUint32(b, at).value, at + 4)
        n == readUint32(b, at).value
    IN  [value |-> text.value, b |-> Moved(b, offset, at + 4 + n)]

\* Behind its length as a varint.
writeVString(b, text, offset) == Put(b, offset, Varint32(Len(Utf8(text))) \o Utf8(text))
CanReadVString(b, offset) ==
    LET at == At(b, offset)
        n == readVarint32(b, at)
    IN  CanReadVarint32(b, offset) /\ CanGet(b, at + n.length, n.value)
readVString(b, offset) ==
    LET at == At(b, offset)
        n == readVarint32(b, at)
    IN  [value |-> readUTF8Bytes(b, n.value, at + n.length).value,
         b |-> Moved(b, offset, at + n.length + n.value)]
-------------------------------------------------------------------------------
\* Methods that move the positions.
clear(b) == [b EXCEPT !.offset = 0, !.limit = capacity(b), !.mark = None]
flip(b) == [b EXCEPT !.limit = b.offset, !.offset = 0]
mark(b, offset) == [b EXCEPT !.mark = At(b, offset)]
\* Fault: it does not ask whether there is a mark.
ResetToMark(b) == [b EXCEPT !.offset = b.mark, !.mark = None]

reset(b) ==
    IF b.mark >= 0 THEN [b EXCEPT !.offset = b.mark, !.mark = None] ELSE [b EXCEPT !.offset = 0]
CanSkip(b, n) == b.offset + n \in 0..capacity(b)
skip(b, n) == [b EXCEPT !.offset = @ + n]
order(b, endian) == [b EXCEPT !.endian = endian]
LE(b) == order(b, "LE")
BE(b) == order(b, "BE")

Begin(b, begin) == IF begin = None THEN b.offset ELSE begin
End(b, end) == IF end = None THEN b.limit ELSE end
CanRange(b, begin, end) == Begin(b, begin) <= End(b, end) /\ End(b, end) <= capacity(b)

\* Methods that change bytes in place.
fill(b, v, begin, end) ==
    LET from == Begin(b, begin)
        upto == End(b, end)
        filled == [b EXCEPT !.bytes = Overlay(@, from, [i \in 1..(upto - from) |-> v % Radix])]
    IN  IF from >= upto THEN b ELSE Moved(filled, begin, upto)

reverse(b, begin, end) ==
    LET from == Begin(b, begin) IN
    [b EXCEPT !.bytes = Overlay(@, from, Reverse(Slice(@, from, End(b, end) - from)))]

\* Fault: the mark stays as it was.
CompactKeepsMark(b, begin, end) ==
    LET from == Begin(b, begin)
        size == End(b, end) - from
    IN  IF from = 0 /\ size = capacity(b) THEN b
        ELSE [b EXCEPT !.bytes = Slice(@, from, size), !.offset = 0, !.limit = size]

\* Methods that make another backing buffer, of the contents alone.
compact(b, begin, end) ==
    LET from == Begin(b, begin)
        size == End(b, end) - from
    IN  IF from = 0 /\ size = capacity(b) THEN b
        ELSE [b EXCEPT !.bytes = Slice(@, from, size), !.offset = 0, !.limit = size,
                       !.mark = IF @ >= 0 THEN @ - from ELSE @]

\* slice() and readBytes() show the same backing buffer.
slice(b, begin, end) == [b EXCEPT !.offset = Begin(b, begin), !.limit = End(b, end)]
CanReadBytes(b, n, offset) == CanGet(b, offset, n)
readBytes(b, n, offset) ==
    [value |-> slice(b, At(b, offset), At(b, offset) + n),
     b |-> Moved(b, offset, At(b, offset) + n)]

\* clone(true) makes a backing buffer of the size, and copies no byte into it.
clone(b, copies) == IF copies THEN [b EXCEPT !.bytes = Zeros(capacity(b))] ELSE b

\* append(source, offset) and prepend(source, offset); both use the source up.
Used(source) == IF remaining(source) > 0 THEN [source EXCEPT !.offset = source.limit] ELSE source

append(b, source, offset) ==
    IF remaining(source) <= 0 THEN b ELSE Put(b, offset, Window(source))

\* Where there is no room in front of offset all that is behind it moves.
CanPrepend(b, source, offset) ==
    At(b, offset) \in 0..capacity(b)
    /\ (capacity(b) = 0 => remaining(source) <= 0)
\* Fault: where the bytes behind offset move, offset does not.
PrependUnshifted(b, source, offset) ==
    LET len == remaining(source)
        at == At(b, offset)
        diff == IF len > at THEN len - at ELSE 0
        room == IF diff = 0 THEN b
                ELSE [b EXCEPT !.bytes = Zeros(len) \o Slice(@, at, capacity(b) - at)]
        put == [room EXCEPT !.bytes = Overlay(@, at + diff - len, Window(source))]
    IN  IF len <= 0 THEN b
        ELSE IF offset = None THEN [put EXCEPT !.offset = @ - len] ELSE put

prepend(b, source, offset) ==
    LET len == remaining(source)
        at == At(b, offset)
        diff == IF len > at THEN len - at ELSE 0
        room == IF diff = 0 THEN b
                ELSE [b EXCEPT !.bytes = Zeros(len) \o Slice(@, at, capacity(b) - at),
                               !.offset = @ + diff, !.limit = @ + diff,
                               !.mark = IF @ >= 0 THEN @ + diff ELSE @]
        put == [room EXCEPT !.bytes = Overlay(@, at + diff - len, Window(source))]
    IN  IF len <= 0 THEN b
        ELSE IF offset = None THEN [put EXCEPT !.offset = @ - len] ELSE put

\* copyTo(target, targetOffset, sourceOffset, sourceLimit); both may move.
CopyLength(b, from, upto) == End(b, upto) - Begin(b, from)
copyTo(b, target, targetOffset, from, upto) ==
    LET len == CopyLength(b, from, upto)
        at == At(target, targetOffset)
        grown == ensureCapacity(target, at + len)
    IN  IF len = 0 THEN [target |-> target, b |-> b]
        ELSE [target |-> Moved([grown EXCEPT !.bytes = Overlay(@, at, Slice(b.bytes, Begin(b, from), len))],
                               targetOffset, at + len),
              b |-> Moved(b, from, Begin(b, from) + len)]

copy(b, begin, end) ==
    LET size == End(b, end) - Begin(b, begin)
        bb == allocate(size, b.endian)
    IN  IF size = 0 THEN bb ELSE copyTo(b, bb, 0, Begin(b, begin), End(b, end)).target

\* concat(buffers): a buffer of the windows one after another.
concat(buffers) ==
    LET step(bytes, b) == bytes \o Window(b) IN
    wrap(FoldLeft(step, <<>>, buffers))

\* toBuffer(forceCopy): the backing buffer itself if it holds nothing else.
GivesOwnBuffer(b, forceCopy) == ~forceCopy /\ b.offset = 0 /\ b.limit = capacity(b)
toBuffer(b) == Window(b)
===============================================================================
