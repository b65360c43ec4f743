--------------------------- MODULE BufferViewsProofs ---------------------------
(* Theorems about views that share backing buffers, for any number of views and  *)
(* buffers and any bound on their bytes: the positions of a view stay inside its  *)
(* buffer, nothing is lost where it grows, is compacted or prepended to, and a    *)
(* view that changes the size of its buffer leaves the others alone.              *)
EXTENDS BufferViews, SequenceTheorems, TLAPS

\* The bytes that are written, and zero.
Octet == Values \cup {0}

\* What a caller who looks after its marks gives a method, and gets from it.
Sound(b) ==
    /\ b \in [bytes : Seq(Octet), offset : Nat, limit : Nat, mark : Int, endian : {"BE"}]
    /\ b.offset <= Len(b.bytes) /\ b.limit <= Len(b.bytes)
    /\ b.mark <= Len(b.bytes) /\ b.mark >= -MaxBytes - 1
-------------------------------------------------------------------------------
(* The helpers on sequences of bytes. *)

\* Zeros(n) is n bytes, each zero.
LEMMA ZerosType ==
    ASSUME NEW n \in Nat
    PROVE  /\ Zeros(n) \in Seq(Octet) /\ Len(Zeros(n)) = n
           /\ \A i \in 1..n : Zeros(n)[i] = 0
<1>1. \A i \in 1..n : 0 \in Octet
  BY DEF Octet
<1>2. Zeros(n) \in Seq(Octet)
  BY <1>1, IsASeq DEF Zeros
<1> QED  BY <1>2 DEF Zeros

\* A slice inside a buffer has the bytes from its offset on.
LEMMA SliceType ==
    ASSUME NEW buf \in Seq(Octet), NEW at \in Nat, NEW n \in Nat, at + n <= Len(buf)
    PROVE  /\ Slice(buf, at, n) \in Seq(Octet) /\ Len(Slice(buf, at, n)) = n
           /\ \A i \in 1..n : Slice(buf, at, n)[i] = buf[at + i]
<1>1. \A i \in (at + 1)..(at + n) : buf[i] \in Octet
  BY ElementOfSeq
<1>2. /\ SubSeq(buf, at + 1, at + n) \in Seq(Octet)
      /\ Len(SubSeq(buf, at + 1, at + n)) = IF at + 1 <= at + n THEN at + n - (at + 1) + 1 ELSE 0
      /\ \A i \in 1..(at + n - (at + 1) + 1) :
            SubSeq(buf, at + 1, at + n)[i] = buf[at + 1 + i - 1]
  BY <1>1, SubSeqProperties
<1> QED  BY <1>2 DEF Slice

\* Writing over a buffer changes bytes, not their number.
LEMMA OverlayType ==
    ASSUME NEW buf \in Seq(Octet), NEW at \in Nat, NEW bytes \in Seq(Octet)
    PROVE  /\ Overlay(buf, at, bytes) \in Seq(Octet)
           /\ Len(Overlay(buf, at, bytes)) = Len(buf)
           /\ \A i \in 1..Len(buf) :
                Overlay(buf, at, bytes)[i] =
                    IF i - at \in 1..Len(bytes) THEN bytes[i - at] ELSE buf[i]
<1>1. DOMAIN buf = 1..Len(buf) /\ DOMAIN bytes = 1..Len(bytes)
  BY LenProperties
<1>2. \A i \in 1..Len(buf) : buf[i] \in Octet
  BY ElementOfSeq
<1>3. \A i \in 1..Len(bytes) : bytes[i] \in Octet
  BY ElementOfSeq
<1>4. Overlay(buf, at, bytes) = [i \in 1..Len(buf) |->
            IF i - at \in 1..Len(bytes) THEN bytes[i - at] ELSE buf[i]]
  BY <1>1 DEF Overlay
<1> QED  BY <1>2, <1>3, <1>4

\* The contents of a view are bytes of its buffer.
LEMMA WindowBytes ==
    ASSUME NEW b, b.bytes \in Seq(Octet), b.offset \in Nat, b.limit \in Nat,
           b.limit <= Len(b.bytes)
    PROVE  /\ Window(b) \in Seq(Octet)
           /\ Len(Window(b)) = IF b.offset < b.limit THEN remaining(b) ELSE 0
           /\ \A i \in 1..remaining(b) : Window(b)[i] = b.bytes[b.offset + i]
<1>1. CASE b.offset < b.limit
  <2>1. remaining(b) \in Nat /\ b.offset + remaining(b) <= Len(b.bytes)
    BY <1>1, LenProperties DEF remaining
  <2> QED  BY <1>1, <2>1, SliceType DEF Window
<1>2. CASE ~ b.offset < b.limit
  BY <1>2, EmptySeq DEF Window, remaining
<1> QED  BY <1>1, <1>2

\* The same of a sound buffer.
LEMMA WindowType ==
    ASSUME NEW b, Sound(b)
    PROVE  /\ Window(b) \in Seq(Octet)
           /\ Len(Window(b)) = IF b.offset < b.limit THEN remaining(b) ELSE 0
           /\ \A i \in 1..remaining(b) : Window(b)[i] = b.bytes[b.offset + i]
<1>1. /\ b.bytes \in Seq(Octet) /\ b.offset \in Nat /\ b.limit \in Nat
      /\ b.limit <= Len(b.bytes)
  BY DEF Sound
<1> QED  BY <1>1, WindowBytes
-------------------------------------------------------------------------------
(* The methods: each gives a sound buffer when it is given one. *)

\* ensureCapacity keeps every byte in its place and the positions as they are, and there
\* is room for what was asked.
LEMMA EnsureCapacitySound ==
    ASSUME NEW b, Sound(b), NEW n \in Nat
    PROVE  LET c == ensureCapacity(b, n) IN
           /\ Sound(c)
           /\ Len(c.bytes) >= n /\ Len(c.bytes) >= Len(b.bytes)
           /\ \A i \in 1..Len(b.bytes) : c.bytes[i] = b.bytes[i]
           /\ c.offset = b.offset /\ c.limit = b.limit /\ c.mark = b.mark
<1> DEFINE size == IF 2 * capacity(b) > n THEN 2 * capacity(b) ELSE n
           c == ensureCapacity(b, n)
           tail == Zeros(size - Len(b.bytes))
<1>1. b.bytes \in Seq(Octet) /\ Len(b.bytes) \in Nat
  BY LenProperties DEF Sound
<1>2. CASE capacity(b) < n
  <2>1. size \in Nat /\ size >= n /\ size > Len(b.bytes)
    BY <1>1, <1>2 DEF capacity
  <2>2. tail \in Seq(Octet) /\ Len(tail) = size - Len(b.bytes)
    <3> HIDE DEF size
    <3>1. size - Len(b.bytes) \in Nat
      BY <1>1, <2>1
    <3> QED  BY <3>1, ZerosType
  <2>3. c = [b EXCEPT !.bytes = b.bytes \o tail]
    BY <1>1, <1>2, <2>1 DEF ensureCapacity, resize, capacity
  <2> HIDE DEF tail, size, c
  <2>4. /\ b.bytes \o tail \in Seq(Octet)
        /\ Len(b.bytes \o tail) = size
        /\ \A i \in 1..Len(b.bytes) : (b.bytes \o tail)[i] = b.bytes[i]
    BY <1>1, <2>1, <2>2, ConcatProperties
  <2>5. /\ c.bytes = b.bytes \o tail /\ c.offset = b.offset /\ c.limit = b.limit
        /\ c.mark = b.mark
    BY <2>3 DEF Sound
  <2>6. c \in [bytes : Seq(Octet), offset : Nat, limit : Nat, mark : Int, endian : {"BE"}]
    BY <2>3, <2>4 DEF Sound
  <2>7. Sound(c)
    BY <1>1, <2>1, <2>4, <2>5, <2>6 DEF Sound
  <2> QED  BY <1>1, <2>1, <2>4, <2>5, <2>7 DEF c
<1>3. CASE ~ capacity(b) < n
  BY <1>1, <1>3 DEF ensureCapacity, capacity
<1> QED  BY <1>2, <1>3

\* Bytes put at the offset: the offset moves behind them.
LEMMA PutSound ==
    ASSUME NEW b, Sound(b), NEW bytes \in Seq(Octet)
    PROVE  Sound(Put(b, None, bytes))
<1> DEFINE at == b.offset + Len(bytes)
           grown == ensureCapacity(b, at)
           over == Overlay(grown.bytes, b.offset, bytes)
<1>1. at \in Nat /\ b.offset \in Nat
  BY LenProperties DEF Sound
<1>2. Sound(grown) /\ Len(grown.bytes) >= at
  BY <1>1, EnsureCapacitySound
<1>3. Put(b, None, bytes) = [[grown EXCEPT !.bytes = over] EXCEPT !.offset = at]
  BY DEF Put, At, Moved
<1> HIDE DEF grown, at
<1>4. over \in Seq(Octet) /\ Len(over) = Len(grown.bytes)
  BY <1>1, <1>2, OverlayType DEF Sound
<1> HIDE DEF over
<1> DEFINE c == [[grown EXCEPT !.bytes = over] EXCEPT !.offset = at]
<1>5. /\ c.bytes = over /\ c.offset = at /\ c.limit = grown.limit /\ c.mark = grown.mark
      /\ c \in [bytes : Seq(Octet), offset : Nat, limit : Nat, mark : Int, endian : {"BE"}]
  BY <1>1, <1>2, <1>4 DEF Sound
<1> HIDE DEF c
<1>6. Sound(c)
  BY <1>1, <1>2, <1>4, <1>5 DEF Sound
<1> QED  BY <1>3, <1>6 DEF c

\* A buffer of the given contents.
LEMMA WrapSound ==
    ASSUME NEW bytes \in Seq(Octet)
    PROVE  Sound(wrap(bytes))
BY LenProperties, ViewsAssumption DEF wrap, Sound, None

\* The methods that only move positions, while the offset stays inside.
LEMMA PositionsSound ==
    ASSUME NEW b, Sound(b)
    PROVE  /\ Sound(clear(b)) /\ Sound(flip(b)) /\ Sound(mark(b, None)) /\ Sound(reset(b))
           /\ \A n \in {-1, 1} : CanSkip(b, n) => Sound(skip(b, n))
<1> DEFINE Type == [bytes : Seq(Octet), offset : Nat, limit : Nat, mark : Int, endian : {"BE"}]
<1>1. /\ b.bytes \in Seq(Octet) /\ Len(b.bytes) \in Nat /\ MaxBytes \in Nat
      /\ None \in Int /\ None < 0 /\ None >= -MaxBytes - 1
  BY LenProperties, ViewsAssumption DEF Sound, None
<1>2. Sound(clear(b))
  <2> DEFINE c == clear(b)
  <2>1. /\ c.bytes = b.bytes /\ c.offset = 0 /\ c.limit = Len(b.bytes) /\ c.mark = None
        /\ c \in Type
    BY <1>1 DEF Sound, clear, capacity
  <2> QED  BY <1>1, <2>1 DEF Sound
<1>3. Sound(flip(b))
  <2> DEFINE c == flip(b)
  <2>1. /\ c.bytes = b.bytes /\ c.offset = 0 /\ c.limit = b.offset /\ c.mark = b.mark
        /\ c \in Type
    BY <1>1 DEF Sound, flip
  <2> QED  BY <1>1, <2>1 DEF Sound
<1>4. Sound(mark(b, None))
  BY <1>1 DEF Sound, mark, At, None
<1>5. Sound(reset(b))
  <2> DEFINE c == reset(b)
  <2>1. CASE b.mark >= 0
    <3>1. b.mark \in Nat /\ b.mark <= Len(b.bytes)
      BY <2>1 DEF Sound
    <3>2. c = [b EXCEPT !.offset = b.mark, !.mark = None]
      BY <2>1 DEF reset
    <3> HIDE DEF c
    <3>3. /\ c.bytes = b.bytes /\ c.offset = b.mark /\ c.limit = b.limit /\ c.mark = None
          /\ c \in Type
      BY <1>1, <3>1, <3>2 DEF Sound
    <3>4. Sound(c)
      BY <1>1, <3>1, <3>3 DEF Sound
    <3> QED  BY <3>4 DEF c
  <2>2. CASE ~ b.mark >= 0
    <3>1. c.bytes = b.bytes /\ c.offset = 0 /\ c.limit = b.limit /\ c.mark = b.mark /\ c \in Type
      BY <1>1, <2>2 DEF Sound, reset
    <3> QED  BY <1>1, <3>1 DEF Sound
  <2> QED  BY <2>1, <2>2
<1>6. \A n \in {-1, 1} : CanSkip(b, n) => Sound(skip(b, n))
  BY SMTT(30), <1>1 DEF Sound, CanSkip, skip, capacity
<1> QED  BY <1>2, <1>3, <1>4, <1>5, <1>6

\* compact keeps exactly the contents; a mark in them, or in front of them, moves along.
LEMMA CompactSound ==
    ASSUME NEW b, Sound(b), CanRange(b, None, None), b.mark <= b.limit,
           Len(b.bytes) <= MaxBytes
    PROVE  Sound(compact(b, None, None))
<1> DEFINE size == b.limit - b.offset
           c == compact(b, None, None)
           kept == Slice(b.bytes, b.offset, size)
           m == IF b.mark >= 0 THEN b.mark - b.offset ELSE b.mark
<1>1. /\ b.bytes \in Seq(Octet) /\ Len(b.bytes) \in Nat /\ b.offset \in Nat /\ b.limit \in Nat
      /\ b.mark \in Int /\ b.limit <= Len(b.bytes) /\ b.mark >= -MaxBytes - 1
      /\ MaxBytes \in Nat
  BY LenProperties, ViewsAssumption DEF Sound
<1>2. size \in Nat /\ b.offset + size <= Len(b.bytes)
  BY <1>1 DEF CanRange, Begin, End
<1>3. kept \in Seq(Octet) /\ Len(kept) = size
  <2> HIDE DEF size
  <2> QED  BY <1>1, <1>2, SliceType
<1>4. m \in Int /\ m <= size /\ m >= -MaxBytes - 1
  BY <1>1, <1>2
<1>5. \/ c = b
      \/ c = [b EXCEPT !.bytes = kept, !.offset = 0, !.limit = size, !.mark = m]
  BY DEF compact, Begin, End
<1> HIDE DEF c, kept, m, size
<1>6. CASE c = [b EXCEPT !.bytes = kept, !.offset = 0, !.limit = size, !.mark = m]
  <2>1. c.bytes = kept /\ c.offset = 0 /\ c.limit = size /\ c.mark = m
    BY <1>6 DEF Sound
  <2>2. c \in [bytes : Seq(Octet), offset : Nat, limit : Nat, mark : Int, endian : {"BE"}]
    BY <1>2, <1>3, <1>4, <1>6 DEF Sound
  <2>3. Sound(c)
    BY <1>2, <1>3, <1>4, <2>1, <2>2 DEF Sound
  <2> QED  BY <2>3 DEF c
<1>7. CASE c = b
  BY <1>7 DEF c
<1> QED  BY <1>5, <1>6, <1>7

\* A byte that is written is what it was: none of Values is cut to Radix.
LEMMA ByteIsItself ==
    ASSUME NEW x \in Values
    PROVE  x % Radix = x
<1>1. Radix \in Nat /\ Radix > 0 /\ x \in 0..(Radix - 1)
  BY ViewsAssumption DEF RadixAssumption, Byte
<1> QED  BY <1>1

\* fill writes into the contents and moves the offset behind them.
LEMMA FillSound ==
    ASSUME NEW b, Sound(b), NEW x \in Values, CanRange(b, None, None)
    PROVE  Sound(fill(b, x, None, None))
<1> DEFINE n == b.limit - b.offset
           put == [i \in 1..n |-> x % Radix]
           over == Overlay(b.bytes, b.offset, put)
           c == fill(b, x, None, None)
<1>1. /\ b.bytes \in Seq(Octet) /\ b.offset \in Nat /\ b.limit \in Nat
      /\ Len(b.bytes) \in Nat /\ b.limit <= Len(b.bytes)
  BY LenProperties DEF Sound
<1>2. n \in Nat
  BY <1>1 DEF CanRange, Begin, End
<1>3. put \in Seq(Octet)
  <2>1. x % Radix \in Octet
    BY ByteIsItself DEF Octet
  <2> HIDE DEF n
  <2> QED  BY <1>2, <2>1
<1> HIDE DEF put
<1>4. over \in Seq(Octet) /\ Len(over) = Len(b.bytes)
  BY <1>1, <1>3, OverlayType
<1>5. c = b \/ c = [[b EXCEPT !.bytes = over] EXCEPT !.offset = b.limit]
  BY DEF fill, Begin, End, Moved, put
<1> HIDE DEF c, over
<1>6. CASE c = [[b EXCEPT !.bytes = over] EXCEPT !.offset = b.limit]
  <2>1. c.bytes = over /\ c.offset = b.limit /\ c.limit = b.limit /\ c.mark = b.mark
    BY <1>6 DEF Sound
  <2>2. c \in [bytes : Seq(Octet), offset : Nat, limit : Nat, mark : Int, endian : {"BE"}]
    BY <1>1, <1>4, <1>6 DEF Sound
  <2>3. Sound(c)
    BY <1>1, <1>4, <2>1, <2>2 DEF Sound
  <2> QED  BY <2>3 DEF c
<1>7. CASE c = b
  BY <1>7 DEF c
<1> QED  BY <1>5, <1>6, <1>7

\* reverse changes the order of the contents only.
LEMMA ReverseSound ==
    ASSUME NEW b, Sound(b), CanRange(b, None, None)
    PROVE  Sound(reverse(b, None, None))
<1> DEFINE n == b.limit - b.offset
           kept == Slice(b.bytes, b.offset, n)
           over == Overlay(b.bytes, b.offset, Reverse(kept))
           c == reverse(b, None, None)
<1>1. /\ b.bytes \in Seq(Octet) /\ b.offset \in Nat /\ b.limit \in Nat
      /\ Len(b.bytes) \in Nat /\ b.limit <= Len(b.bytes)
  BY LenProperties DEF Sound
<1>2. n \in Nat /\ b.offset + n <= Len(b.bytes)
  BY <1>1 DEF CanRange, Begin, End
<1>3. kept \in Seq(Octet)
  <2> HIDE DEF n
  <2> QED  BY <1>1, <1>2, SliceType
<1>4. c = [b EXCEPT !.bytes = over]
  BY DEF reverse, Begin, End
<1> HIDE DEF c, kept
<1>5. Reverse(kept) \in Seq(Octet)
  <2>1. Len(kept) \in Nat /\ \A i \in 1..Len(kept) : kept[i] \in Octet
    BY <1>3, LenProperties, ElementOfSeq
  <2> QED  BY <2>1 DEF Reverse
<1>6. over \in Seq(Octet) /\ Len(over) = Len(b.bytes)
  BY <1>1, <1>5, OverlayType
<1> HIDE DEF over
<1>7. /\ c.bytes = over /\ c.offset = b.offset /\ c.limit = b.limit /\ c.mark = b.mark
      /\ c \in [bytes : Seq(Octet), offset : Nat, limit : Nat, mark : Int, endian : {"BE"}]
  BY <1>4, <1>6 DEF Sound
<1>8. Sound(c)
  BY <1>1, <1>6, <1>7 DEF Sound
<1> QED  BY <1>8 DEF c

\* A buffer stays sound when both its positions are placed inside.
LEMMA PlacedSound ==
    ASSUME NEW b, Sound(b), NEW o \in Nat, NEW l \in Nat, o <= Len(b.bytes), l <= Len(b.bytes)
    PROVE  LET c == [b EXCEPT !.offset = o, !.limit = l] IN Sound(c) /\ c.bytes = b.bytes
BY DEF Sound

\* slice, clone and readBytes give views of the same bytes.
LEMMA SharedSound ==
    ASSUME NEW b, Sound(b)
    PROVE  /\ CanRange(b, None, None) =>
                /\ Sound(slice(b, None, None))
                /\ slice(b, None, None).bytes = b.bytes
           /\ Sound(clone(b, FALSE)) /\ clone(b, FALSE).bytes = b.bytes
           /\ Sound([clone(b, FALSE) EXCEPT !.mark = None])
           /\ [clone(b, FALSE) EXCEPT !.mark = None].bytes = b.bytes
           /\ CanReadBytes(b, 1, None) =>
                /\ Sound(readBytes(b, 1, None).value) /\ Sound(readBytes(b, 1, None).b)
                /\ readBytes(b, 1, None).value.bytes = b.bytes
                /\ readBytes(b, 1, None).b.bytes = b.bytes
<1>1. /\ b.bytes \in Seq(Octet) /\ Len(b.bytes) \in Nat /\ MaxBytes \in Nat
      /\ b.offset \in Nat /\ b.limit \in Nat
      /\ None \in Int /\ None < 0 /\ None >= -MaxBytes - 1 /\ b.offset # None
      /\ b.offset + 1 # None
  BY LenProperties, ViewsAssumption DEF Sound, None
<1>2. ASSUME CanRange(b, None, None)
      PROVE  Sound(slice(b, None, None)) /\ slice(b, None, None).bytes = b.bytes
  BY <1>1, <1>2 DEF slice, Begin, End, Sound, CanRange
<1>3. Sound(clone(b, FALSE)) /\ clone(b, FALSE).bytes = b.bytes
  BY DEF clone
<1>4. Sound([b EXCEPT !.mark = None]) /\ [b EXCEPT !.mark = None].bytes = b.bytes
  BY <1>1 DEF Sound
<1>5. ASSUME CanReadBytes(b, 1, None)
      PROVE  /\ Sound(readBytes(b, 1, None).value) /\ Sound(readBytes(b, 1, None).b)
             /\ readBytes(b, 1, None).value.bytes = b.bytes
             /\ readBytes(b, 1, None).b.bytes = b.bytes
  <2>1. b.offset + 1 <= Len(b.bytes)
    BY <1>1, <1>5 DEF CanReadBytes, CanGet, At, capacity
  <2>2. /\ readBytes(b, 1, None).value = [b EXCEPT !.offset = b.offset, !.limit = b.offset + 1]
        /\ readBytes(b, 1, None).b = [b EXCEPT !.offset = b.offset + 1]
    BY <1>1 DEF readBytes, slice, At, Moved, Begin, End
  <2> DEFINE p == [b EXCEPT !.offset = b.offset, !.limit = b.offset + 1]
             q == [b EXCEPT !.offset = b.offset + 1]
  <2>3. Sound(p) /\ p.bytes = b.bytes
    <3>1. b.offset + 1 \in Nat /\ b.offset <= Len(b.bytes)
      BY <1>1, <2>1
    <3> QED  BY <1>1, <2>1, <3>1, PlacedSound
  <2>4. Sound(q) /\ q.bytes = b.bytes
    BY <1>1, <2>1 DEF Sound
  <2> QED  BY <2>2, <2>3, <2>4
<1> QED  BY <1>2, <1>3, <1>4, <1>5 DEF clone

\* copy gives a buffer of its own, no longer than the contents.
LEMMA CopySound ==
    ASSUME NEW b, Sound(b), CanRange(b, None, None), Len(b.bytes) <= MaxBytes
    PROVE  Sound(copy(b, None, None)) /\ Len(copy(b, None, None).bytes) <= MaxBytes
<1> DEFINE n == b.limit - b.offset
           bb == allocate(n, b.endian)
           kept == Slice(b.bytes, b.offset, n)
           grown == ensureCapacity(bb, n)
           over == Overlay(grown.bytes, 0, kept)
           c == copy(b, None, None)
<1>1. /\ b.bytes \in Seq(Octet) /\ b.offset \in Nat /\ b.limit \in Nat /\ b.endian = "BE"
      /\ Len(b.bytes) \in Nat /\ b.limit <= Len(b.bytes) /\ MaxBytes \in Nat
      /\ None \in Int /\ None < 0 /\ None >= -MaxBytes - 1 /\ b.offset # None /\ b.limit # None
      /\ 0 # None
  BY LenProperties, ViewsAssumption DEF Sound, None
<1>2. n \in Nat /\ b.offset + n <= Len(b.bytes) /\ n <= MaxBytes
  BY <1>1 DEF CanRange, Begin, End
<1>3. Sound(bb) /\ Len(bb.bytes) = n
  <2> HIDE DEF n
  <2>1. Zeros(n) \in Seq(Octet) /\ Len(Zeros(n)) = n
    BY <1>2, ZerosType
  <2> QED  BY <1>1, <1>2, <2>1 DEF allocate, Sound
<1>4. grown = bb
  <2> HIDE DEF bb, n
  <2> QED  BY <1>2, <1>3 DEF ensureCapacity, capacity
<1>5. kept \in Seq(Octet)
  <2> HIDE DEF n
  <2> QED  BY <1>1, <1>2, SliceType
<1>6. over \in Seq(Octet) /\ Len(over) = n
  <2> HIDE DEF bb, kept, grown
  <2>1. bb.bytes \in Seq(Octet)
    BY <1>3 DEF Sound
  <2>2. Overlay(bb.bytes, 0, kept) \in Seq(Octet) /\ Len(Overlay(bb.bytes, 0, kept)) = Len(bb.bytes)
    BY <1>5, <2>1, OverlayType
  <2> QED  BY <1>3, <1>4, <2>2
<1>7. c = bb \/ c = [grown EXCEPT !.bytes = over]
  <2>1. At(bb, 0) = 0 /\ Begin(b, b.offset) = b.offset /\ End(b, b.limit) = b.limit
        /\ Begin(b, None) = b.offset /\ End(b, None) = b.limit
    BY <1>1 DEF At, Begin, End
  <2>2. CopyLength(b, b.offset, b.limit) = n
    BY <2>1 DEF CopyLength
  <2>3. 0 + n = n
    BY <1>2
  <2> HIDE DEF n, bb, grown, kept, over
  <2>4. c = IF n = 0 THEN bb ELSE copyTo(b, bb, 0, b.offset, b.limit).target
    BY <2>1 DEF copy, bb, n
  <2>5. copyTo(b, bb, 0, b.offset, b.limit).target =
            IF n = 0 THEN bb ELSE [grown EXCEPT !.bytes = over]
    BY <1>1, <2>1, <2>2, <2>3 DEF copyTo, Moved, grown, kept, over
  <2> QED  BY <2>4, <2>5
<1> HIDE DEF c, over, grown, bb, n
<1>8. CASE c = [grown EXCEPT !.bytes = over]
  <2>1. /\ c.bytes = over /\ c.offset = bb.offset /\ c.limit = bb.limit /\ c.mark = bb.mark
        /\ c \in [bytes : Seq(Octet), offset : Nat, limit : Nat, mark : Int, endian : {"BE"}]
    BY <1>3, <1>4, <1>6, <1>8 DEF Sound
  <2>2. Sound(c) /\ Len(c.bytes) = n
    BY <1>3, <1>6, <2>1 DEF Sound
  <2> QED  BY <1>2, <2>2 DEF c
<1>9. CASE c = bb
  BY <1>2, <1>3, <1>9 DEF c
<1> QED  BY <1>7, <1>8, <1>9

\* clone(true): as many bytes as before, none of them copied.
LEMMA CopyingCloneSound ==
    ASSUME NEW b, Sound(b)
    PROVE  Sound(clone(b, TRUE)) /\ Len(clone(b, TRUE).bytes) = Len(b.bytes)
<1> DEFINE zeros == Zeros(Len(b.bytes))
           c == clone(b, TRUE)
<1>1. b.bytes \in Seq(Octet) /\ Len(b.bytes) \in Nat
  BY LenProperties DEF Sound
<1>2. zeros \in Seq(Octet) /\ Len(zeros) = Len(b.bytes)
  BY <1>1, ZerosType
<1>3. c = [b EXCEPT !.bytes = zeros]
  BY DEF clone, capacity
<1> HIDE DEF c, zeros
<1>4. /\ c.bytes = zeros /\ c.offset = b.offset /\ c.limit = b.limit /\ c.mark = b.mark
      /\ c \in [bytes : Seq(Octet), offset : Nat, limit : Nat, mark : Int, endian : {"BE"}]
  BY <1>2, <1>3 DEF Sound
<1>5. Sound(c) /\ Len(c.bytes) = Len(b.bytes)
  BY <1>2, <1>4 DEF Sound
<1> QED  BY <1>5 DEF c

\* append puts the contents of the source behind the offset and uses the source up.
LEMMA AppendSound ==
    ASSUME NEW b, Sound(b), NEW source, Sound(source)
    PROVE  /\ Sound(append(b, source, None)) 
           /\ Used(source).offset \in Nat /\ Used(source).offset <= Len(source.bytes)
<1>1. Window(source) \in Seq(Octet)
  BY WindowType
<1>2. Sound(append(b, source, None))
  BY <1>1, PutSound DEF append
<1>3. Used(source).offset \in {source.offset, source.limit}
  BY DEF Used, Sound
<1> QED  BY <1>2, <1>3 DEF Sound

\* copyTo puts the contents of b behind the offset of the target.
LEMMA CopyToSound ==
    ASSUME NEW b, Sound(b), NEW target, Sound(target), remaining(b) >= 0
    PROVE  LET r == copyTo(b, target, None, None, None) IN
           Sound(r.target) /\ r.b.offset \in Nat /\ r.b.offset <= Len(b.bytes)
<1> DEFINE n == remaining(b)
           kept == Slice(b.bytes, b.offset, n)
           r == copyTo(b, target, None, None, None)
           grown == ensureCapacity(target, target.offset + n)
           over == Overlay(grown.bytes, target.offset, kept)
<1>1. /\ b.bytes \in Seq(Octet) /\ b.offset \in Nat /\ b.limit \in Nat
      /\ Len(b.bytes) \in Nat /\ b.limit <= Len(b.bytes) /\ target.offset \in Nat
  BY LenProperties DEF Sound
<1>2. n \in Nat /\ b.offset + n = b.limit /\ target.offset + n \in Nat
  BY <1>1 DEF remaining
<1>3. kept \in Seq(Octet) /\ Len(kept) = n
  BY <1>1, <1>2, SliceType
<1>4. Sound(grown) /\ Len(grown.bytes) >= target.offset + n
  BY <1>2, EnsureCapacitySound
<1> HIDE DEF grown, kept
<1>5. over \in Seq(Octet) /\ Len(over) = Len(grown.bytes)
  BY SMTT(30), <1>1, <1>3, <1>4, OverlayType DEF Sound
<1> DEFINE c == [[grown EXCEPT !.bytes = over] EXCEPT !.offset = target.offset + n]
           d == [b EXCEPT !.offset = b.offset + n]
<1>6. r = [target |-> target, b |-> b] \/ r = [target |-> c, b |-> d]
  BY DEF copyTo, CopyLength, Begin, End, At, Moved, remaining, grown, kept
<1> HIDE DEF over
<1>7. Sound(c)
  <2>1. /\ c.bytes = over /\ c.offset = target.offset + n /\ c.limit = grown.limit
        /\ c.mark = grown.mark
        /\ c \in [bytes : Seq(Octet), offset : Nat, limit : Nat, mark : Int, endian : {"BE"}]
    BY <1>2, <1>4, <1>5 DEF Sound
  <2> HIDE DEF c
  <2> QED  BY <1>2, <1>4, <1>5, <2>1 DEF Sound
<1>8. d.offset = b.limit
  BY <1>2 DEF Sound
<1> HIDE DEF c, d, r
<1>9. Sound(r.target) /\ r.b.offset \in {b.offset, b.limit}
  BY <1>6, <1>7, <1>8
<1>10. b.offset <= Len(b.bytes)
  BY DEF Sound
<1> QED  BY <1>1, <1>9, <1>10 DEF r

\* The n elements of s behind i are those of t behind j.
Agree(s, i, t, j, n) == \A k \in 1..n : s[i + k] = t[j + k]

\* Zeros in the place of the bytes in front of `at`: what is behind it has moved.
LEMMA RoomInFront ==
    ASSUME NEW old \in Seq(Octet), NEW at \in Nat, NEW len \in Nat, NEW size \in Nat,
           at <= Len(old), at < len, size = Len(old) - at,
           NEW moved, moved = Zeros(len) \o Slice(old, at, size)
    PROVE  /\ moved \in Seq(Octet) /\ Len(moved) = len + size
           /\ Agree(moved, len, old, at, size)
<1> DEFINE rest == Slice(old, at, size)
           zeros == Zeros(len)
<1>1. Len(old) \in Nat /\ at + size <= Len(old)
  BY LenProperties
<1>2. /\ rest \in Seq(Octet) /\ Len(rest) = size
      /\ \A i \in 1..size : rest[i] = old[at + i]
  BY <1>1, SliceType
<1>3. zeros \in Seq(Octet) /\ Len(zeros) = len
  BY ZerosType
<1> HIDE DEF zeros, rest
<1>4. /\ zeros \o rest \in Seq(Octet) /\ Len(zeros \o rest) = Len(zeros) + Len(rest)
      /\ \A i \in 1..(Len(zeros) + Len(rest)) : (zeros \o rest)[i] =
            IF i <= Len(zeros) THEN zeros[i] ELSE rest[i - Len(zeros)]
  BY ZenonT(30), <1>2, <1>3, ConcatProperties
<1>5. moved = zeros \o rest
  BY DEF zeros, rest
<1>6. ASSUME NEW k \in 1..size
      PROVE  moved[len + k] = old[at + k]
  <2>1. len + k \in 1..(len + size) /\ ~ len + k <= len /\ len + k - len = k
    OBVIOUS
  <2>2. moved[len + k] = rest[k]
    <3>1. (zeros \o rest)[len + k] =
              IF len + k <= Len(zeros) THEN zeros[len + k] ELSE rest[len + k - Len(zeros)]
      BY SMTT(30), <1>2, <1>3, <1>4, <2>1
    <3> QED  BY <1>3, <1>5, <2>1, <3>1
  <2> QED  BY <1>2, <2>2
<1> QED  BY <1>2, <1>3, <1>4, <1>5, <1>6 DEF Agree

\* Bytes written up to where the contents begin stand in front of the contents.
LEMMA WrittenInFront ==
    ASSUME NEW bytes \in Seq(Octet), NEW ws \in Seq(Octet), NEW wb \in Seq(Octet),
           NEW wc \in Seq(Octet), NEW start \in Nat,
           start + Len(ws) + Len(wb) <= Len(bytes), Len(wc) = Len(ws) + Len(wb),
           Agree(wb, 0, bytes, start + Len(ws), Len(wb)),
           Agree(wc, 0, Overlay(bytes, start, ws), start, Len(wc))
    PROVE  wc = ws \o wb
<1>1. Len(ws) \in Nat /\ Len(wb) \in Nat /\ Len(bytes) \in Nat
  BY LenProperties
<1>2. /\ ws \o wb \in Seq(Octet) /\ Len(ws \o wb) = Len(ws) + Len(wb)
      /\ \A i \in 1..(Len(ws) + Len(wb)) : (ws \o wb)[i] =
            IF i <= Len(ws) THEN ws[i] ELSE wb[i - Len(ws)]
  BY ConcatProperties
<1>3. \A j \in 1..Len(bytes) : Overlay(bytes, start, ws)[j] =
          IF j - start \in 1..Len(ws) THEN ws[j - start] ELSE bytes[j]
  BY OverlayType
<1>4. ASSUME NEW i \in 1..(Len(ws) + Len(wb))
      PROVE  wc[i] = (ws \o wb)[i]
  <2>1. start + i \in 1..Len(bytes) /\ start + i - start = i /\ 0 + i = i
    BY <1>1
  <2>2. wc[i] = IF i \in 1..Len(ws) THEN ws[i] ELSE bytes[start + i]
    <3>1. wc[0 + i] = Overlay(bytes, start, ws)[start + i]
      BY DEF Agree
    <3> QED  BY SMTT(30), <1>3, <2>1, <3>1
  <2>3. CASE i <= Len(ws)
    BY <1>1, <1>2, <2>2, <2>3
  <2>4. CASE ~ i <= Len(ws)
    <3> DEFINE k == i - Len(ws)
    <3>1. k \in 1..Len(wb) /\ start + Len(ws) + k = start + i /\ 0 + k = k
      BY <1>1, <2>4
    <3>2. wb[k] = bytes[start + i]
      <4>1. wb[0 + k] = bytes[start + Len(ws) + k]
        BY <3>1 DEF Agree
      <4> QED  BY <3>1, <4>1
    <3> QED  BY <1>1, <1>2, <2>2, <2>4, <3>2
  <2> QED  BY <2>3, <2>4
<1>5. Len(wc) = Len(ws \o wb)
  BY <1>2
<1> QED  BY <1>2, <1>4, <1>5, SeqEqual

\* What is prepended stands in front of the contents of a buffer that has any, whether
\* or not the bytes behind its offset have to move.
LEMMA PrependProperties ==
    ASSUME NEW b, Sound(b), NEW source, Sound(source), NEW c, c = prepend(b, source, None)
    PROVE  /\ Sound(c)
           /\ remaining(b) >= 0 => Window(c) = Window(source) \o Window(b)
<1> DEFINE Type == [bytes : Seq(Octet), offset : Nat, limit : Nat, mark : Int, endian : {"BE"}]
           len == remaining(source)
           at == b.offset
           limit == b.limit
           all == Len(b.bytes)
           ws == Window(source)
           size == all - at
           moved == Zeros(len) \o Slice(b.bytes, at, size)
           m == IF b.mark >= 0 THEN b.mark + (len - at) ELSE b.mark
<1>1. at \in Nat /\ limit \in Nat /\ all \in Nat /\ limit <= all /\ at <= all
  BY LenProperties DEF Sound
<1>2. b.mark \in Int /\ b.mark <= all /\ b.mark >= -MaxBytes - 1 /\ MaxBytes \in Nat
  BY ViewsAssumption DEF Sound
<1>3. len \in Int
  BY DEF Sound, remaining
<1>4. ws \in Seq(Octet) /\ (len > 0 => Len(ws) = len) /\ (len <= 0 => ws = <<>>)
  <2>1. source.offset \in Nat /\ source.limit \in Nat
    BY DEF Sound
  <2> QED  BY <2>1, WindowType DEF remaining, Window
<1>5. b.bytes \in Seq(Octet) /\ Window(b) \in Seq(Octet)
  BY WindowType DEF Sound
<1>6. ASSUME remaining(b) >= 0
      PROVE  /\ at <= limit /\ Len(Window(b)) = limit - at
             /\ Agree(Window(b), 0, b.bytes, at, limit - at)
  <2>1. at <= limit /\ remaining(b) = limit - at
    BY <1>1, <1>6 DEF remaining
  <2>2. /\ Len(Window(b)) = IF at < limit THEN remaining(b) ELSE 0
        /\ \A i \in 1..remaining(b) : Window(b)[i] = b.bytes[at + i]
    BY WindowType
  <2> HIDE DEF at, limit
  <2> QED  BY <1>1, <2>1, <2>2 DEF Agree
<1>7. At(b, None) = at
  BY DEF At
<1>8. CASE len <= 0
  <2>1. c = b
    BY <1>8 DEF prepend
  <2> QED  BY <1>4, <1>5, <1>8, <2>1, ConcatEmptySeq
<1>9. ASSUME NEW bytes \in Seq(Octet), NEW diff \in Nat, NEW start \in Nat, NEW mk \in Int,
             len > 0, start + len = at + diff, Len(bytes) = all + diff,
             Agree(bytes, at + diff, b.bytes, at, size),
             mk <= Len(bytes), mk >= -MaxBytes - 1,
             c.bytes = Overlay(bytes, start, ws), c.offset = start,
             c.limit = limit + diff, c.mark = mk, c.endian = "BE",
             c = [bytes |-> c.bytes, offset |-> c.offset, limit |-> c.limit,
                  mark |-> c.mark, endian |-> c.endian]
      PROVE  Sound(c) /\ (remaining(b) >= 0 => Window(c) = ws \o Window(b))
  <2> HIDE DEF ws, len, at, limit, all
  <2>1. Len(ws) = len /\ start <= all + diff /\ limit + diff <= all + diff
    BY <1>1, <1>3, <1>4, <1>9
  <2>2. c.bytes \in Seq(Octet) /\ Len(c.bytes) = all + diff
    BY <1>4, <1>9, OverlayType
  <2>3. Sound(c)
    <3>1. c.offset \in Nat /\ c.limit \in Nat /\ c.mark \in Int
      BY <1>1, <1>9
    <3>2. c \in Type
      BY <1>9, <2>2, <3>1
    <3>3. c.offset <= Len(c.bytes) /\ c.limit <= Len(c.bytes)
      BY <1>9, <2>1, <2>2
    <3>4. c.mark <= Len(c.bytes) /\ c.mark >= -MaxBytes - 1
      BY <1>9, <2>2
    <3> QED  BY <3>2, <3>3, <3>4 DEF Sound
  <2>4. ASSUME remaining(b) >= 0
        PROVE  Window(c) = ws \o Window(b)
    <3>1. at <= limit /\ Len(Window(b)) = limit - at
      BY <1>6, <2>4
    <3>2. /\ remaining(c) = len + (limit - at) /\ c.offset < c.limit
          /\ start + len + (limit - at) <= all + diff
      <4>1. start + len = at + diff /\ len > 0 /\ diff \in Nat /\ start \in Nat
        BY <1>9
      <4>2. c.offset = start /\ c.limit = limit + diff
        BY <1>9
      <4> QED  BY <1>1, <1>3, <3>1, <4>1, <4>2 DEF remaining
    <3>3. /\ Window(c) \in Seq(Octet) /\ Len(Window(c)) = len + (limit - at)
          /\ Agree(Window(c), 0, c.bytes, start, len + (limit - at))
      <4>1. /\ Window(c) \in Seq(Octet)
            /\ Len(Window(c)) = IF c.offset < c.limit THEN remaining(c) ELSE 0
            /\ \A i \in 1..remaining(c) : Window(c)[i] = c.bytes[c.offset + i]
        BY <2>3, WindowType
      <4>2. c.offset = start
        BY <1>9
      <4> QED  BY <3>2, <4>1, <4>2 DEF Agree
    <3>4. Agree(Window(b), 0, bytes, start + len, limit - at)
      <4>1. Agree(Window(b), 0, b.bytes, at, limit - at)
        BY <1>6, <2>4
      <4>2. Agree(bytes, at + diff, b.bytes, at, size) /\ start + len = at + diff
        BY <1>9
      <4>3. \A k \in 1..(limit - at) : k \in 1..size
        BY <1>1
      <4> HIDE DEF size
      <4> QED  BY <4>1, <4>2, <4>3 DEF Agree
    <3>5. start + Len(ws) + Len(Window(b)) <= Len(bytes)
      BY <1>9, <2>1, <3>1, <3>2
    <3>6. Len(Window(c)) = Len(ws) + Len(Window(b))
      BY <2>1, <3>1, <3>3
    <3>7. Agree(Window(b), 0, bytes, start + Len(ws), Len(Window(b)))
      BY <2>1, <3>1, <3>4
    <3>8. Agree(Window(c), 0, Overlay(bytes, start, ws), start, Len(Window(c)))
      BY <1>9, <3>3
    <3> QED  BY SMTT(30), <1>4, <1>5, <3>3, <3>5, <3>6, <3>7, <3>8, WrittenInFront
  <2> QED  BY <2>3, <2>4
<1>10. CASE len > 0 /\ ~ len > at
  <2> DEFINE start == at - len
  <2>1. /\ start \in Nat /\ start + len = at + 0 /\ at + 0 - len = start
        /\ limit + 0 = limit /\ all + 0 = all /\ at + 0 = at
    <3> HIDE DEF len, at, limit, all
    <3> QED  BY <1>1, <1>3, <1>10
  <2>2. c = [[b EXCEPT !.bytes = Overlay(b.bytes, start, ws)] EXCEPT !.offset = start]
    <3>1. ~ len <= 0
      BY <1>3, <1>10
    <3>2. (IF len > at THEN len - at ELSE 0) = 0
      BY <1>10
    <3>3. prepend(b, source, None) =
            [[b EXCEPT !.bytes = Overlay(b.bytes, at + 0 - len, ws)] EXCEPT !.offset = b.offset - len]
      <4> HIDE DEF start, ws
      <4> QED  BY <1>7, <3>1, <3>2 DEF prepend, ws
    <3> HIDE DEF ws, len
    <3> QED  BY <2>1, <3>3
  <2> HIDE DEF ws, len, start
  <2>3. /\ c.bytes = Overlay(b.bytes, start, ws) /\ c.offset = start
        /\ c.limit = limit + 0 /\ c.mark = b.mark /\ c.endian = "BE"
        /\ c = [bytes |-> c.bytes, offset |-> c.offset, limit |-> c.limit, mark |-> c.mark,
                endian |-> c.endian]
    BY <2>1, <2>2 DEF Sound
  <2>4. Agree(b.bytes, at + 0, b.bytes, at, size)
    BY <2>1 DEF Agree
  <2>5. Len(b.bytes) = all + 0 /\ b.mark <= Len(b.bytes)
    BY <1>2, <2>1
  <2> HIDE DEF at, limit, all, size
  <2>6. 0 \in Nat
    OBVIOUS
  <2> QED  BY <1>2, <1>5, <1>9, <1>10, <2>1, <2>3, <2>4, <2>5, <2>6 DEF ws
<1>11. CASE len > 0 /\ len > at
  <2> DEFINE diff == len - at
  <2>1. /\ len \in Nat /\ diff \in Nat /\ diff # 0 /\ size \in Nat /\ 0 + len = at + diff
        /\ len + size = all + diff /\ at + diff = len /\ ~ len <= 0
    <3> HIDE DEF len, at, limit, all
    <3> QED  BY <1>1, <1>3, <1>11
  <2>1a. at + diff - len = 0
    <3> HIDE DEF len, at
    <3> QED  BY <1>1, <1>3
  <2>2. c = [[[b EXCEPT !.bytes = moved, !.offset = at + diff, !.limit = limit + diff,
                        !.mark = m]
                EXCEPT !.bytes = Overlay(moved, 0, ws)]
                EXCEPT !.offset = 0]
    <3>1. (IF len > at THEN len - at ELSE 0) = diff
      BY <1>11
    <3> DEFINE room == [b EXCEPT !.bytes = moved, !.offset = at + diff,
                                  !.limit = limit + diff, !.mark = m]
               put == [room EXCEPT !.bytes = Overlay(room.bytes, at + diff - len, ws)]
    <3>2. c = [put EXCEPT !.offset = put.offset - len]
      BY <1>7, <2>1, <3>1 DEF prepend, capacity
    <3> HIDE DEF moved, ws, m, diff, len, at, limit
    <3>3. room.bytes = moved /\ room.offset = at + diff
      BY DEF Sound
    <3>4. put = [room EXCEPT !.bytes = Overlay(moved, 0, ws)]
      <4> HIDE DEF room
      <4>1. at + diff - len = 0
        BY <2>1a
      <4>2. room.bytes = moved
        BY <3>3
      <4>3. Overlay(room.bytes, at + diff - len, ws) = Overlay(moved, 0, ws)
        BY <4>1, <4>2
      <4> QED  BY <4>3
    <3>5. put.offset = at + diff
      BY <3>3 DEF Sound
    <3> HIDE DEF put
    <3>6. put.offset - len = 0
      BY <1>1, <2>1, <2>1a, <3>5
    <3> QED  BY <3>2, <3>4, <3>6
  <2>3. moved \in Seq(Octet) /\ Len(moved) = len + size /\ Agree(moved, len, b.bytes, at, size)
    <3>1. at < len /\ at <= all
      BY <1>1, <1>3, <1>11
    <3> HIDE DEF at, len, size
    <3> QED  BY <1>1, <1>5, <2>1, <3>1, RoomInFront DEF size
  <2>4. m \in Int /\ m <= len + size /\ m >= -MaxBytes - 1
    <3> HIDE DEF len, at, limit, all
    <3> QED  BY <1>1, <1>2, <1>3, <1>11
  <2> HIDE DEF moved, ws, m, len, diff, at, limit
  <2>5. /\ c.bytes = Overlay(moved, 0, ws) /\ c.offset = 0 /\ c.limit = limit + diff
        /\ c.mark = m /\ c.endian = "BE"
        /\ c = [bytes |-> c.bytes, offset |-> c.offset, limit |-> c.limit, mark |-> c.mark,
                endian |-> c.endian]
    BY <2>2 DEF Sound
  <2>6. Agree(moved, at + diff, b.bytes, at, size)
    BY <2>1, <2>3
  <2> HIDE DEF all, size
  <2>7. Len(moved) = all + diff /\ m <= Len(moved) /\ 0 \in Nat
    BY <2>1, <2>3, <2>4
  <2> QED  BY <1>9, <1>11, <2>1, <2>3, <2>4, <2>5, <2>6, <2>7 DEF ws
<1> QED  BY <1>3, <1>8, <1>10, <1>11

\* The contents are where they were after a growth, and compact keeps them.
LEMMA ContentsStay ==
    ASSUME NEW b, Sound(b)
    PROVE  /\ \A n \in Nat : Window(ensureCapacity(b, n)) = Window(b)
           /\ CanRange(b, None, None) => Window(compact(b, None, None)) = Window(b)
<1>1. /\ Window(b) \in Seq(Octet) /\ b.offset \in Nat /\ b.limit \in Nat
      /\ Len(b.bytes) \in Nat /\ b.limit <= Len(b.bytes) /\ b.bytes \in Seq(Octet)
      /\ Len(Window(b)) = (IF b.offset < b.limit THEN remaining(b) ELSE 0)
      /\ \A i \in 1..remaining(b) : Window(b)[i] = b.bytes[b.offset + i]
  BY WindowType, LenProperties DEF Sound
<1>2. ASSUME NEW n \in Nat
      PROVE  Window(ensureCapacity(b, n)) = Window(b)
  <2> DEFINE c == ensureCapacity(b, n)
  <2>1. /\ Sound(c) /\ c.offset = b.offset /\ c.limit = b.limit
        /\ \A i \in 1..Len(b.bytes) : c.bytes[i] = b.bytes[i]
    BY EnsureCapacitySound
  <2> HIDE DEF c
  <2>2. remaining(c) = remaining(b) /\ remaining(b) = b.limit - b.offset
    BY <2>1 DEF remaining
  <2>3. /\ Window(c) \in Seq(Octet)
        /\ Len(Window(c)) = (IF c.offset < c.limit THEN remaining(c) ELSE 0)
        /\ \A i \in 1..remaining(c) : Window(c)[i] = c.bytes[c.offset + i]
    BY <2>1, WindowType
  <2>4. Len(Window(c)) = Len(Window(b))
    BY <1>1, <2>1, <2>2, <2>3
  <2>5. ASSUME NEW i \in 1..Len(Window(b))
        PROVE  Window(c)[i] = Window(b)[i]
    <3>1. i \in 1..remaining(b) /\ b.offset + i \in 1..Len(b.bytes)
      BY <1>1, <2>2
    <3> QED  BY <1>1, <2>1, <2>2, <2>3, <3>1
  <2>6. Window(c) = Window(b)
    BY <1>1, <2>3, <2>4, <2>5, SeqEqual
  <2> QED  BY <2>6 DEF c
<1>3. ASSUME CanRange(b, None, None)
      PROVE  Window(compact(b, None, None)) = Window(b)
  <2> DEFINE c == compact(b, None, None)
             size == b.limit - b.offset
             kept == Slice(b.bytes, b.offset, size)
  <2>1. c = b \/ (c.bytes = kept /\ c.offset = 0 /\ c.limit = size)
    <3> DEFINE m == IF b.mark >= 0 THEN b.mark - b.offset ELSE b.mark
    <3>1. \/ c = b
          \/ c = [b EXCEPT !.bytes = kept, !.offset = 0, !.limit = size, !.mark = m]
      BY DEF compact, Begin, End
    <3> HIDE DEF c, m, kept, size
    <3> QED  BY <3>1 DEF Sound
  <2>2. size \in Nat /\ b.offset + size <= Len(b.bytes) /\ remaining(b) = size
    BY <1>1, <1>3 DEF CanRange, Begin, End, remaining
  <2>3. CASE c.bytes = kept /\ c.offset = 0 /\ c.limit = size
    <3> HIDE DEF c, size
    <3>1. /\ kept \in Seq(Octet) /\ Len(kept) = size
          /\ \A i \in 1..size : kept[i] = b.bytes[b.offset + i]
      BY <1>1, <2>2, SliceType
    <3> HIDE DEF kept
    <3>2. remaining(c) = size
      BY <2>2, <2>3 DEF remaining
    <3>3. /\ Window(c) \in Seq(Octet)
          /\ Len(Window(c)) = (IF c.offset < c.limit THEN remaining(c) ELSE 0)
          /\ \A i \in 1..remaining(c) : Window(c)[i] = c.bytes[c.offset + i]
      <4>1. /\ c.bytes \in Seq(Octet) /\ c.offset \in Nat /\ c.limit \in Nat
            /\ c.limit <= Len(c.bytes)
        BY <2>2, <2>3, <3>1
      <4> QED  BY <4>1, WindowBytes
    <3>4. Len(Window(c)) = size
      BY <2>2, <2>3, <3>2, <3>3
    <3>5. Len(Window(b)) = size
      <4>1. b.offset < b.limit \/ size = 0
        BY <1>1, <2>2 DEF size
      <4>2. ~ b.offset < b.limit => size = 0
        BY <1>1, <2>2 DEF size
      <4> QED  BY <1>1, <2>2, <4>2
    <3>6. ASSUME NEW i \in 1..size
          PROVE  Window(c)[i] = Window(b)[i]
      <4>1. 0 + i = i
        BY <2>2
      <4>2. Window(c)[i] = kept[i]
        BY <2>3, <3>2, <3>3, <4>1
      <4> QED  BY <1>1, <2>2, <3>1, <4>2
    <3>7. Window(c) = Window(b)
      BY <1>1, <3>3, <3>4, <3>5, <3>6, SeqEqual
    <3> QED  BY <3>7 DEF c
  <2> QED  BY <2>1, <2>3
<1> QED  BY <1>2, <1>3

\* concat of two buffers puts their contents one behind the other.
LEMMA ConcatOfTwo ==
    ASSUME NEW a, NEW b, Sound(a), Sound(b)
    PROVE  /\ concat(<<a, b>>) = wrap(Window(a) \o Window(b))
           /\ Window(a) \o Window(b) \in Seq(Octet)
           /\ Len(Window(a) \o Window(b)) = Len(Window(a)) + Len(Window(b))
<1> DEFINE pair == <<a, b>>
           Body(f) == [s \in SUBSET (DOMAIN pair) |->
                          IF s = {} THEN <<>> ELSE f[s \ {Max(s)}] \o Window(pair[Max(s)])]
           folded == CHOOSE f : f = Body(f)
<1>1. concat(pair) = wrap(folded[DOMAIN pair])
  BY DEF concat, FoldLeft, MapThenFoldSet
<1>2. Max({1}) = 1 /\ Max({1, 2}) = 2 /\ Max({2}) = 2
  BY DEF Max
<1>3. DOMAIN pair = {1, 2} /\ pair[1] = a /\ pair[2] = b
  OBVIOUS
<1> HIDE DEF pair
<1>4. \E f : f = Body(f)
  <2> DEFINE g == [s \in SUBSET {1, 2} |->
                      IF s = {} THEN <<>>
                      ELSE IF s = {1} THEN <<>> \o Window(a)
                      ELSE IF s = {2} THEN <<>> \o Window(b)
                      ELSE (<<>> \o Window(a)) \o Window(b)]
  <2>1. {1} # {} /\ {2} # {} /\ {1, 2} # {} /\ {1} # {2}
    OBVIOUS
  <2>2. 2 \notin {1} /\ 1 \notin {2} /\ 2 \in {1, 2} /\ 1 \in {1, 2}
    OBVIOUS
  <2>3. {1, 2} # {1} /\ {1, 2} # {2}
    BY <2>2
  <2>4. {1} \ {1} = {} /\ {2} \ {2} = {} /\ {1, 2} \ {2} = {1}
    BY <2>2
  <2>5. /\ g[{}] = <<>> /\ g[{1}] = <<>> \o Window(a) /\ g[{2}] = <<>> \o Window(b)
        /\ g[{1, 2}] = (<<>> \o Window(a)) \o Window(b)
    BY <2>1, <2>3
  <2>6. g = [s \in SUBSET {1, 2} |-> g[s]]
    OBVIOUS
  <2> HIDE DEF g
  <2>7. ASSUME NEW s \in SUBSET {1, 2}
        PROVE  g[s] = IF s = {} THEN <<>> ELSE g[s \ {Max(s)}] \o Window(pair[Max(s)])
    <3>1. s = {} \/ s = {1} \/ s = {2} \/ s = {1, 2}
      OBVIOUS
    <3>2. CASE s = {}
      BY <2>5, <3>2
    <3>3. CASE s = {1}
      BY <1>2, <1>3, <2>1, <2>4, <2>5, <3>3
    <3>4. CASE s = {2}
      BY <1>2, <1>3, <2>1, <2>4, <2>5, <3>4
    <3>5. CASE s = {1, 2}
      BY <1>2, <1>3, <2>1, <2>4, <2>5, <3>5
    <3> QED  BY <3>1, <3>2, <3>3, <3>4, <3>5
  <2>8. g = Body(g)
    BY <1>3, <2>6, <2>7
  <2> HIDE DEF Body
  <2> QED  BY <2>8
<1>5. folded = Body(folded)
  <2> HIDE DEF Body
  <2> QED  BY <1>4
<1> HIDE DEF folded
<1>6. ASSUME NEW s \in SUBSET {1, 2}
      PROVE  folded[s] = IF s = {} THEN <<>> ELSE folded[s \ {Max(s)}] \o Window(pair[Max(s)])
  BY <1>3, <1>5
<1>7. folded[{}] = <<>>
  BY <1>6
<1>8. folded[{1}] = <<>> \o Window(a)
  <2>1. {1} \ {Max({1})} = {} /\ {1} # {} /\ {1} \in SUBSET {1, 2}
    BY <1>2
  <2> QED  BY <1>2, <1>3, <1>6, <1>7, <2>1
<1>9. folded[{1, 2}] = (<<>> \o Window(a)) \o Window(b)
  <2>1. {1, 2} \ {Max({1, 2})} = {1} /\ {1, 2} # {} /\ {1, 2} \in SUBSET {1, 2}
    BY <1>2
  <2> QED  BY <1>2, <1>3, <1>6, <1>8, <2>1
<1>10. Window(a) \in Seq(Octet) /\ Window(b) \in Seq(Octet)
  BY WindowType
<1>11. <<>> \o Window(a) = Window(a)
  BY <1>10, ConcatEmptySeq
<1> QED  BY <1>1, <1>3, <1>9, <1>10, <1>11, ConcatProperties DEF pair
-------------------------------------------------------------------------------
(* The invariant: the types, and the positions of every view in its own buffer. *)

IInv == ViewsTypeOK /\ PositionsInside

\* The positions of a view over a backing buffer of n bytes.
Placed(p, n) ==
    /\ p \in [store : Stores, offset : Nat, limit : Nat, mark : (-MaxBytes - 1)..MaxBytes]
    /\ p.offset <= n /\ p.limit <= n /\ p.mark <= n

\* Bytes are the sequences of at most MaxBytes bytes that are written, or zero.
LEMMA BytesAreSeqs ==
    ASSUME NEW s
    PROVE  s \in Bytes <=> s \in Seq(Octet) /\ Len(s) <= MaxBytes
<1>1. MaxBytes \in Nat
  BY ViewsAssumption
<1>2. ASSUME s \in Bytes
      PROVE  s \in Seq(Octet) /\ Len(s) <= MaxBytes
  <2>1. PICK n \in 0..MaxBytes : s \in [1..n -> Octet]
    BY <1>2 DEF Bytes, Octet
  <2>2. n \in Nat /\ n <= MaxBytes
    BY <1>1, <2>1
  <2> QED  BY <2>1, <2>2
<1>3. ASSUME s \in Seq(Octet), Len(s) <= MaxBytes
      PROVE  s \in Bytes
  <2>1. Len(s) \in 0..MaxBytes /\ s \in [1..Len(s) -> Octet]
    BY <1>1, <1>3, LenProperties
  <2> QED  BY <2>1 DEF Bytes, Octet
<1> QED  BY <1>2, <1>3

\* Every view is a sound ByteBuffer.
LEMMA BufSound ==
    ASSUME IInv, NEW v \in Views
    PROVE  /\ Sound(Buf(v)) /\ Len(Buf(v).bytes) <= MaxBytes /\ Len(Buf(v).bytes) \in Nat
           /\ view[v].store \in Stores /\ Buf(v).bytes = store[view[v].store]
           /\ Placed(view[v], Len(store[view[v].store]))
<1>1. view[v] \in [store : Stores, offset : Nat, limit : Nat, mark : (-MaxBytes - 1)..MaxBytes]
  BY DEF IInv, ViewsTypeOK
<1>2. store[view[v].store] \in Seq(Octet) /\ Len(store[view[v].store]) <= MaxBytes
  BY <1>1, BytesAreSeqs DEF IInv, ViewsTypeOK
<1> DEFINE size == Len(store[view[v].store])
<1>3. size \in Nat /\ MaxBytes \in Nat
  BY <1>2, LenProperties, ViewsAssumption
<1>4. /\ view[v].offset \in 0..size /\ view[v].limit \in 0..size /\ view[v].mark <= size
  BY DEF IInv, PositionsInside
<1>5. Buf(v) \in [bytes : Seq(Octet), offset : Nat, limit : Nat, mark : Int, endian : {"BE"}]
  BY <1>1, <1>2 DEF Buf
<1> HIDE DEF size
<1>6. view[v].mark >= -MaxBytes - 1 /\ view[v].mark \in Int
  BY <1>1, <1>3
<1>7. /\ Buf(v).bytes = store[view[v].store] /\ Buf(v).offset = view[v].offset
      /\ Buf(v).limit = view[v].limit /\ Buf(v).mark = view[v].mark
  BY DEF Buf
<1>8. Len(store[view[v].store]) = size
  BY DEF size
<1>9. Placed(view[v], Len(store[view[v].store]))
  BY <1>1, <1>3, <1>4, <1>8 DEF Placed
<1>10. Sound(Buf(v))
  BY <1>3, <1>4, <1>5, <1>6, <1>7, <1>8 DEF Sound
<1> QED  BY <1>1, <1>2, <1>3, <1>7, <1>8, <1>9, <1>10

\* The positions of a sound buffer, over the buffer s.
LEMMA PlacedOfSound ==
    ASSUME NEW b, Sound(b), Len(b.bytes) <= MaxBytes, NEW s \in Stores
    PROVE  Placed(Position(b, s), Len(b.bytes))
<1>1. Len(b.bytes) \in Nat /\ MaxBytes \in Nat
  BY LenProperties, ViewsAssumption DEF Sound
<1>2. b.mark \in (-MaxBytes - 1)..MaxBytes
  BY <1>1 DEF Sound
<1>3. Position(b, s) \in
        [store : Stores, offset : Nat, limit : Nat, mark : (-MaxBytes - 1)..MaxBytes]
  BY <1>2 DEF Sound, Position
<1>4. /\ Position(b, s).offset = b.offset /\ Position(b, s).limit = b.limit
      /\ Position(b, s).mark = b.mark
  BY DEF Position
<1> QED  BY <1>3, <1>4 DEF Placed, Sound

\* The invariant says that every view is placed in its buffer.
LEMMA PlacedIsInvariant ==
    ASSUME store' \in [Stores -> Bytes], view' = [u \in Views |-> view'[u]],
           \A u \in Views : Placed(view'[u], Len(store'[view'[u].store]))
    PROVE  IInv'
<1>1. ASSUME NEW u \in Views
      PROVE  /\ view'[u] \in [store : Stores, offset : Nat, limit : Nat,
                              mark : (-MaxBytes - 1)..MaxBytes]
             /\ view'[u].offset \in 0..Len(store'[view'[u].store])
             /\ view'[u].limit \in 0..Len(store'[view'[u].store])
             /\ view'[u].mark <= Len(store'[view'[u].store])
  <2>1. /\ view'[u] \in [store : Stores, offset : Nat, limit : Nat,
                         mark : (-MaxBytes - 1)..MaxBytes]
        /\ view'[u].offset <= Len(store'[view'[u].store])
        /\ view'[u].limit <= Len(store'[view'[u].store])
        /\ view'[u].mark <= Len(store'[view'[u].store])
    BY DEF Placed
  <2>2. Len(store'[view'[u].store]) \in Nat
    <3>1. store'[view'[u].store] \in Bytes
      BY <2>1
    <3>2. store'[view'[u].store] \in Seq(Octet)
      BY <3>1, BytesAreSeqs
    <3> QED  BY <3>2, LenProperties
  <2>3. view'[u].offset \in Nat /\ view'[u].limit \in Nat
    BY <2>1
  <2> QED  BY <2>1, <2>2, <2>3
<1>2. view' \in [Views -> [store : Stores, offset : Nat, limit : Nat,
                           mark : (-MaxBytes - 1)..MaxBytes]]
  BY <1>1
<1> QED  BY <1>1, <1>2 DEF IInv, ViewsTypeOK, PositionsInside
-------------------------------------------------------------------------------
(* The effects that the calls have. *)

\* Only bytes that some view shows are kept.
LEMMA ShownType ==
    ASSUME NEW views, NEW stores \in [Stores -> Bytes]
    PROVE  /\ Shown(views, stores) \in [Stores -> Bytes]
           /\ \A u \in Views : views[u].store \in Stores =>
                Shown(views, stores)[views[u].store] = stores[views[u].store]
<1>1. <<>> \in Bytes
  <2>1. MaxBytes \in Nat /\ <<>> \in Seq(Octet) /\ Len(<<>>) = 0
    BY ViewsAssumption, EmptySeq
  <2>2. Len(<<>>) <= MaxBytes
    BY <2>1
  <2> QED  BY <2>1, <2>2, BytesAreSeqs
<1> QED  BY <1>1 DEF Shown

\* v shows new bytes, as many as before in its own buffer or any number in an unused one;
\* the offset of others may move inside their buffers.
LEMMA WriteKeeps ==
    ASSUME IInv, NEW v \in Views, NEW bytes \in Seq(Octet), Len(bytes) <= MaxBytes,
           NEW s \in Stores,
           (s = view[v].store /\ Len(bytes) = Len(store[s])) \/ s \in Unused,
           NEW views, views = [u \in Views |-> views[u]],
           views[v].store = s, Placed(views[v], Len(bytes)),
           \A u \in Views \ {v} : /\ views[u].store = view[u].store
                                  /\ Placed(views[u], Len(store[view[u].store])),
           view' = views, store' = Shown(views, [store EXCEPT ![s] = bytes])
    PROVE  IInv' /\ GrowsAlone
<1> DEFINE stores == [store EXCEPT ![s] = bytes]
<1>1. store \in [Stores -> Bytes] /\ bytes \in Bytes
  BY BytesAreSeqs DEF IInv, ViewsTypeOK
<1>2. stores \in [Stores -> Bytes] /\ stores[s] = bytes
  BY <1>1
<1>3. \A u \in Views : view[u].store \in Stores
  BY BufSound
<1>4. \A u \in Views : views[u].store \in Stores
  BY <1>3
<1>5. /\ store' \in [Stores -> Bytes]
      /\ \A u \in Views : store'[views[u].store] = stores[views[u].store]
  <2>1. store' = Shown(views, stores)
    OBVIOUS
  <2> HIDE DEF stores
  <2>2. stores \in [Stores -> Bytes]
    BY <1>2
  <2>3. /\ Shown(views, stores) \in [Stores -> Bytes]
        /\ \A u \in Views : views[u].store \in Stores =>
             Shown(views, stores)[views[u].store] = stores[views[u].store]
    BY <2>2, ShownType
  <2>4. ASSUME NEW u \in Views
        PROVE  store'[views[u].store] = stores[views[u].store]
    <3>1. Shown(views, stores)[views[u].store] = stores[views[u].store]
      BY <1>4, <2>3
    <3> QED  BY <2>1, <3>1
  <2>5. store' \in [Stores -> Bytes]
    BY <2>1, <2>3
  <2> QED  BY <2>4, <2>5
<1>6. store'[view'[v].store] = bytes
  BY <1>2, <1>5
<1>7. ASSUME NEW u \in Views \ {v}
      PROVE  /\ view'[u].store = view[u].store
             /\ \/ store'[view'[u].store] = store[view[u].store]
                \/ view[u].store = s /\ s = view[v].store /\ store'[view'[u].store] = bytes
             /\ Len(store'[view'[u].store]) = Len(store[view[u].store])
  <2>1. view'[u].store = view[u].store /\ store'[view'[u].store] = stores[view[u].store]
    BY <1>5
  <2>2. CASE view[u].store = s
    <3>1. s \notin Unused
      BY <2>2 DEF Unused
    <3> QED  BY <1>2, <2>1, <2>2, <3>1
  <2>3. CASE view[u].store # s
    BY <1>1, <1>3, <2>1, <2>3
  <2> QED  BY <2>1, <2>2, <2>3
<1>8. \A u \in Views : Placed(view'[u], Len(store'[view'[u].store]))
  <2>1. Placed(view'[v], Len(store'[view'[v].store]))
    BY <1>6
  <2>2. ASSUME NEW u \in Views \ {v}
        PROVE  Placed(view'[u], Len(store'[view'[u].store]))
    BY <1>7, <2>2
  <2> QED  BY <2>1, <2>2
<1>9. IInv'
  BY <1>5, <1>8, PlacedIsInvariant
<1>10. GrowsAlone
  <2> SUFFICES ASSUME NEW u \in Views, NEW w \in Views, view'[u].store = view[u].store,
                      Len(store'[view'[w].store]) # Len(store[view[w].store])
               PROVE  store'[view'[u].store] = store[view[u].store]
    BY DEF GrowsAlone, Buf
  <2>1. w = v
    BY <1>7
  <2>2. s # view[v].store
    BY <1>6, <2>1 DEF Unused
  <2>3. u # v
    BY <2>2
  <2> QED  BY <1>7, <2>2, <2>3
<1> QED  BY <1>9, <1>10

\* Views come to show buffers that are there: no byte changes.
LEMMA ShareKeeps ==
    ASSUME IInv, NEW views, views = [u \in Views |-> views[u]],
           \A u \in Views : views[u].store \in Stores
                            /\ Placed(views[u], Len(store[views[u].store])),
           view' = views, store' = Shown(views, store)
    PROVE  IInv' /\ GrowsAlone
<1>1. store \in [Stores -> Bytes]
  BY DEF IInv, ViewsTypeOK
<1>2. /\ store' \in [Stores -> Bytes]
      /\ \A u \in Views : store'[view'[u].store] = store[view'[u].store]
  BY <1>1, ShownType
<1>3. \A u \in Views : Placed(view'[u], Len(store'[view'[u].store]))
  BY <1>2
<1>4. IInv'
  BY <1>2, <1>3, PlacedIsInvariant
<1>5. GrowsAlone
  BY <1>2 DEF GrowsAlone, Buf
<1> QED  BY <1>4, <1>5

\* A call that makes v a sound buffer over its own backing buffer or, if that has another
\* length, over a new one.
LEMMA BecomesKeeps ==
    ASSUME IInv, NEW v \in Views, NEW b, Sound(b), Becomes(v, b)
    PROVE  IInv' /\ GrowsAlone
<1>1. Len(b.bytes) <= MaxBytes /\ b.bytes \in Seq(Octet)
  BY DEF Becomes, Sound
<1>2. PICK s \in StoresFor(v, b) :
        /\ view' = [view EXCEPT ![v] = Position(b, s)]
        /\ store' = Shown([view EXCEPT ![v] = Position(b, s)], [store EXCEPT ![s] = b.bytes])
  BY DEF Becomes
<1>3. s \in Stores /\ ((s = view[v].store /\ Len(b.bytes) = Len(store[s])) \/ s \in Unused)
  BY <1>2, BufSound DEF StoresFor, Unused
<1> DEFINE views == [view EXCEPT ![v] = Position(b, s)]
<1>4. /\ view = [u \in Views |-> view[u]]
      /\ \A u \in Views : Placed(view[u], Len(store[view[u].store]))
  BY BufSound DEF IInv, ViewsTypeOK
<1>5. /\ views = [u \in Views |-> views[u]]
      /\ \A u \in Views \ {v} : views[u] = view[u]
      /\ views[v] = Position(b, s)
  BY <1>4
<1>6. Placed(views[v], Len(b.bytes)) /\ views[v].store = s
  BY <1>1, <1>3, <1>5, PlacedOfSound DEF Position
<1>7. \A u \in Views \ {v} : /\ views[u].store = view[u].store
                             /\ Placed(views[u], Len(store[view[u].store]))
  BY <1>4, <1>5
<1>8. view' = views /\ store' = Shown(views, [store EXCEPT ![s] = b.bytes])
  BY <1>2
<1> HIDE DEF views
<1> QED  BY <1>1, <1>3, <1>5, <1>6, <1>7, <1>8, WriteKeeps

\* The same where the offset of w moves.
LEMMA BecomesBothKeeps ==
    ASSUME IInv, NEW v \in Views, NEW b, Sound(b), NEW w \in Views, v # w, NEW o \in Nat,
           o <= Len(Buf(w).bytes), BecomesBoth(v, b, w, o)
    PROVE  IInv' /\ GrowsAlone
<1>1. Len(b.bytes) <= MaxBytes /\ b.bytes \in Seq(Octet)
  BY DEF BecomesBoth, Sound
<1>2. PICK s \in StoresFor(v, b) :
        /\ view' = [view EXCEPT ![v] = Position(b, s), ![w].offset = o]
        /\ store' = Shown([view EXCEPT ![v] = Position(b, s), ![w].offset = o],
                          [store EXCEPT ![s] = b.bytes])
  BY DEF BecomesBoth
<1>3. s \in Stores /\ ((s = view[v].store /\ Len(b.bytes) = Len(store[s])) \/ s \in Unused)
  BY <1>2, BufSound DEF StoresFor, Unused
<1> DEFINE views == [view EXCEPT ![v] = Position(b, s), ![w].offset = o]
<1>4. /\ view = [u \in Views |-> view[u]]
      /\ \A u \in Views : Placed(view[u], Len(store[view[u].store]))
  BY BufSound DEF IInv, ViewsTypeOK
<1>5. /\ views = [u \in Views |-> views[u]]
      /\ \A u \in Views \ {v, w} : views[u] = view[u]
      /\ views[v] = Position(b, s)
      /\ views[w] = [view[w] EXCEPT !.offset = o]
  BY <1>4
<1>6. Placed(views[v], Len(b.bytes)) /\ views[v].store = s
  BY <1>1, <1>3, <1>5, PlacedOfSound DEF Position
<1>7. Placed(views[w], Len(store[view[w].store])) /\ views[w].store = view[w].store
  <2>1. Buf(w).bytes = store[view[w].store] /\ Placed(view[w], Len(store[view[w].store]))
    BY BufSound
  <2> QED  BY <1>5, <2>1 DEF Placed
<1>8. \A u \in Views \ {v} : /\ views[u].store = view[u].store
                             /\ Placed(views[u], Len(store[view[u].store]))
  BY <1>4, <1>5, <1>7
<1>9. view' = views /\ store' = Shown(views, [store EXCEPT ![s] = b.bytes])
  BY <1>2
<1> HIDE DEF views
<1> QED  BY <1>1, <1>3, <1>5, <1>6, <1>8, <1>9, WriteKeeps

\* The same over a backing buffer of its own.
LEMMA BecomesNewKeeps ==
    ASSUME IInv, NEW v \in Views, NEW b, Sound(b), Len(b.bytes) <= MaxBytes, BecomesNew(v, b)
    PROVE  IInv' /\ GrowsAlone
<1>1. b.bytes \in Seq(Octet)
  BY DEF Sound
<1>2. PICK s \in Unused :
        /\ view' = [view EXCEPT ![v] = Position(b, s)]
        /\ store' = Shown([view EXCEPT ![v] = Position(b, s)], [store EXCEPT ![s] = b.bytes])
  BY DEF BecomesNew
<1>3. s \in Stores /\ s \in Unused
  BY <1>2 DEF Unused
<1> DEFINE views == [view EXCEPT ![v] = Position(b, s)]
<1>4. /\ view = [u \in Views |-> view[u]]
      /\ \A u \in Views : Placed(view[u], Len(store[view[u].store]))
  BY BufSound DEF IInv, ViewsTypeOK
<1>5. /\ views = [u \in Views |-> views[u]]
      /\ \A u \in Views \ {v} : views[u] = view[u]
      /\ views[v] = Position(b, s)
  BY <1>4
<1>6. Placed(views[v], Len(b.bytes)) /\ views[v].store = s
  BY <1>3, <1>5, PlacedOfSound DEF Position
<1>7. \A u \in Views \ {v} : /\ views[u].store = view[u].store
                             /\ Placed(views[u], Len(store[view[u].store]))
  BY <1>4, <1>5
<1>8. view' = views /\ store' = Shown(views, [store EXCEPT ![s] = b.bytes])
  BY <1>2
<1> HIDE DEF views
<1> QED  BY <1>1, <1>3, <1>5, <1>6, <1>7, <1>8, WriteKeeps

\* v becomes a sound buffer of as many bytes over the buffer that w shows.
LEMMA BecomesViewKeeps ==
    ASSUME IInv, NEW v \in Views, NEW w \in Views, NEW b, Sound(b),
           Len(b.bytes) = Len(Buf(w).bytes), BecomesView(v, b, w)
    PROVE  IInv' /\ GrowsAlone
<1> DEFINE views == [view EXCEPT ![v] = Position(b, view[w].store)]
<1>1. /\ view = [u \in Views |-> view[u]]
      /\ \A u \in Views : view[u].store \in Stores /\ Placed(view[u], Len(store[view[u].store]))
  BY BufSound DEF IInv, ViewsTypeOK
<1>2. /\ Len(b.bytes) = Len(store[view[w].store]) /\ Len(b.bytes) <= MaxBytes
      /\ view[w].store \in Stores
  BY BufSound
<1>3. /\ views = [u \in Views |-> views[u]]
      /\ \A u \in Views \ {v} : views[u] = view[u]
      /\ views[v] = Position(b, view[w].store)
  BY <1>1
<1>4. views[v].store = view[w].store /\ Placed(views[v], Len(b.bytes))
  BY <1>2, <1>3, PlacedOfSound DEF Position
<1>5. \A u \in Views : views[u].store \in Stores /\ Placed(views[u], Len(store[views[u].store]))
  <2>1. ASSUME NEW u \in Views \ {v}
        PROVE  views[u].store \in Stores /\ Placed(views[u], Len(store[views[u].store]))
    BY <1>1, <1>3
  <2>2. views[v].store \in Stores /\ Placed(views[v], Len(store[views[v].store]))
    BY <1>2, <1>4
  <2> QED  BY <2>1, <2>2
<1>6. view' = views /\ store' = Shown(views, store)
  BY DEF BecomesView
<1> HIDE DEF views
<1> QED  BY <1>3, <1>5, <1>6, ShareKeeps
-------------------------------------------------------------------------------
(* The calls. *)

\* A call on one view.
LEMMA AloneKeeps ==
    ASSUME IInv, NEW v \in Views, Alone(v)
    PROVE  IInv' /\ GrowsAlone
<1> DEFINE b == Buf(v)
<1>1. Sound(b) /\ Len(b.bytes) <= MaxBytes
  BY BufSound
<1> HIDE DEF b
<1>2. CASE WriteByte(v)
  <2>1. PICK x \in Values : Becomes(v, writeUint8(b, x, None))
    BY <1>2 DEF WriteByte, b
  <2>2. <<x % Radix>> \in Seq(Octet)
    BY ByteIsItself DEF Octet
  <2>3. Sound(writeUint8(b, x, None))
    BY <1>1, <2>2, PutSound DEF writeUint8
  <2> QED  BY <2>1, <2>3, BecomesKeeps
<1>3. CASE Move(v)
  <2>1. \/ Becomes(v, clear(b)) \/ Becomes(v, flip(b))
        \/ Becomes(v, mark(b, None)) \/ Becomes(v, reset(b))
        \/ \E n \in {-1, 1} : CanSkip(b, n) /\ Becomes(v, skip(b, n))
    BY <1>3 DEF Move, b
  <2>2. /\ Sound(clear(b)) /\ Sound(flip(b)) /\ Sound(mark(b, None)) /\ Sound(reset(b))
        /\ \A n \in {-1, 1} : CanSkip(b, n) => Sound(skip(b, n))
    BY <1>1, PositionsSound
  <2>3. PICK c : Sound(c) /\ Becomes(v, c)
    BY <2>1, <2>2
  <2> QED  BY <2>3, BecomesKeeps
<1>4. CASE Compact(v)
  <2>1. /\ CanRange(b, None, None) /\ b.mark <= b.limit
        /\ Becomes(v, compact(b, None, None))
    BY <1>4 DEF Compact, Buf, b
  <2> QED  BY <1>1, <2>1, CompactSound, BecomesKeeps
<1>5. CASE Grow(v)
  <2>1. PICK n \in 1..MaxBytes : Becomes(v, ensureCapacity(b, n))
    BY <1>5 DEF Grow, b
  <2>2. n \in Nat
    BY ViewsAssumption
  <2>3. Sound(ensureCapacity(b, n))
    BY <1>1, <2>2, EnsureCapacitySound
  <2> QED  BY <2>1, <2>3, BecomesKeeps
<1>6. CASE Fill(v)
  <2>1. PICK x \in Values : /\ CanRange(b, None, None)
                            /\ Becomes(v, fill(b, x, None, None))
    BY <1>6 DEF Fill, b
  <2>2. Sound(fill(b, x, None, None))
    BY <1>1, <2>1, FillSound
  <2> QED  BY <2>1, <2>2, BecomesKeeps
<1>7. CASE Turn(v)
  <2>1. CanRange(b, None, None) /\ Becomes(v, reverse(b, None, None))
    BY <1>7 DEF Turn, b
  <2>2. Sound(reverse(b, None, None))
    BY <1>1, <2>1, ReverseSound
  <2> QED  BY <2>1, <2>2, BecomesKeeps
<1> QED  BY <1>2, <1>3, <1>4, <1>5, <1>6, <1>7 DEF Alone

\* v = w.readBytes(1): v shows what w has passed.
LEMMA ReadBytesKeeps ==
    ASSUME IInv, NEW v \in Views, NEW w \in Views, ReadBytesOf(v, w)
    PROVE  IInv' /\ GrowsAlone
<1> DEFINE b == Buf(w)
           p == Position(readBytes(b, 1, None).value, view[w].store)
           q == Position(readBytes(b, 1, None).b, view[w].store)
           views == [view EXCEPT ![v] = p, ![w] = q]
<1>1. v # w /\ CanReadBytes(b, 1, None) /\ view' = views /\ store' = Shown(views, store)
  BY DEF ReadBytesOf
<1>2. /\ view = [u \in Views |-> view[u]]
      /\ \A u \in Views : view[u].store \in Stores /\ Placed(view[u], Len(store[view[u].store]))
  BY BufSound DEF IInv, ViewsTypeOK
<1>3. /\ Sound(b) /\ b.bytes = store[view[w].store] /\ Len(b.bytes) <= MaxBytes
      /\ view[w].store \in Stores
  BY BufSound
<1> HIDE DEF b
<1>4. /\ Sound(readBytes(b, 1, None).value) /\ Sound(readBytes(b, 1, None).b)
      /\ readBytes(b, 1, None).value.bytes = b.bytes
      /\ readBytes(b, 1, None).b.bytes = b.bytes
  BY <1>1, <1>3, SharedSound
<1>5. Placed(p, Len(store[view[w].store])) /\ Placed(q, Len(store[view[w].store]))
  BY <1>3, <1>4, PlacedOfSound
<1>6. p.store = view[w].store /\ q.store = view[w].store
  BY DEF Position
<1> HIDE DEF p, q
<1>7. /\ views = [u \in Views |-> views[u]]
      /\ \A u \in Views \ {v, w} : views[u] = view[u]
      /\ views[v] = p /\ views[w] = q
  BY <1>1, <1>2
<1> HIDE DEF views
<1>8. \A u \in Views : views[u].store \in Stores /\ Placed(views[u], Len(store[views[u].store]))
  <2>1. ASSUME NEW u \in Views \ {v, w}
        PROVE  views[u].store \in Stores /\ Placed(views[u], Len(store[views[u].store]))
    BY <1>2, <1>7
  <2>2. /\ views[v].store \in Stores /\ Placed(views[v], Len(store[views[v].store]))
        /\ views[w].store \in Stores /\ Placed(views[w], Len(store[views[w].store]))
    BY <1>3, <1>5, <1>6, <1>7
  <2> QED  BY <2>1, <2>2
<1> QED  BY <1>1, <1>7, <1>8, ShareKeeps

\* A call on two views.
LEMMA TogetherKeeps ==
    ASSUME IInv, NEW v \in Views, NEW w \in Views, Together(v, w)
    PROVE  IInv' /\ GrowsAlone
<1> DEFINE a == Buf(v)
           b == Buf(w)
<1>1. /\ Sound(a) /\ Len(a.bytes) <= MaxBytes
      /\ Sound(b) /\ Len(b.bytes) <= MaxBytes /\ Len(b.bytes) \in Nat
  BY BufSound
<1>2. /\ Window(b) \in Seq(Octet)
      /\ Len(Window(b)) = IF b.offset < b.limit THEN remaining(b) ELSE 0
  BY <1>1, WindowType
<1>3. b.offset \in Nat /\ b.limit \in Nat /\ b.limit <= Len(b.bytes)
  BY <1>1 DEF Sound
<1> HIDE DEF a, b
<1>4. CASE SliceOf(v, w)
  <2>1. CanRange(b, None, None) /\ BecomesView(v, slice(b, None, None), w)
    BY <1>4 DEF SliceOf, b
  <2>2. Sound(slice(b, None, None)) /\ slice(b, None, None).bytes = b.bytes
    BY <1>1, <2>1, SharedSound
  <2> QED  BY <2>1, <2>2, BecomesViewKeeps DEF b
<1>5. CASE CloneOf(v, w)
  <2>1. BecomesView(v, clone(b, FALSE), w)
    BY <1>5 DEF CloneOf, b
  <2>2. Sound(clone(b, FALSE)) /\ clone(b, FALSE).bytes = b.bytes
    BY <1>1, SharedSound
  <2> QED  BY <2>1, <2>2, BecomesViewKeeps DEF b
<1>6. CASE WrapOf(v, w)
  <2> DEFINE c == [clone(b, FALSE) EXCEPT !.mark = None]
  <2>1. BecomesView(v, c, w)
    BY <1>6 DEF WrapOf, b
  <2>2. Sound(c) /\ c.bytes = b.bytes
    BY <1>1, SharedSound
  <2> HIDE DEF c
  <2> QED  BY <2>1, <2>2, BecomesViewKeeps DEF b
<1>7. CASE ReadBytesOf(v, w)
  BY <1>7, ReadBytesKeeps
<1>8. CASE WrapBufferOf(v, w)
  <2> DEFINE c == wrap(toBuffer(b))
  <2>1. \/ GivesOwnBuffer(b, FALSE) /\ BecomesView(v, c, w)
        \/ BecomesNew(v, c)
    BY <1>8 DEF WrapBufferOf, b
  <2>2. Sound(c) /\ c.bytes = Window(b)
    BY <1>2, WrapSound DEF toBuffer, wrap
  <2>3. Len(Window(b)) <= Len(b.bytes)
    BY <1>1, <1>2, <1>3 DEF remaining
  <2>4. GivesOwnBuffer(b, FALSE) => Len(Window(b)) = Len(b.bytes)
    BY <1>1, <1>2, <1>3 DEF GivesOwnBuffer, remaining, capacity
  <2>5. Len(c.bytes) <= MaxBytes
    <3>1. Len(Window(b)) \in Nat /\ MaxBytes \in Nat
      BY <1>2, LenProperties, ViewsAssumption
    <3> QED  BY <1>1, <2>2, <2>3, <3>1
  <2> HIDE DEF c
  <2>6. CASE GivesOwnBuffer(b, FALSE) /\ BecomesView(v, c, w)
    BY <2>2, <2>4, <2>6, BecomesViewKeeps DEF b
  <2>7. CASE BecomesNew(v, c)
    BY <2>2, <2>5, <2>7, BecomesNewKeeps
  <2> QED  BY <2>1, <2>6, <2>7
<1>9. CASE CopyOf(v, w)
  <2>1. CanRange(b, None, None) /\ BecomesNew(v, copy(b, None, None))
    BY <1>9 DEF CopyOf, b
  <2>2. Sound(copy(b, None, None)) /\ Len(copy(b, None, None).bytes) <= MaxBytes
    BY <1>1, <2>1, CopySound
  <2> QED  BY <2>1, <2>2, BecomesNewKeeps
<1>10. CASE CopyingCloneOf(v, w)
  <2>1. BecomesNew(v, clone(b, TRUE))
    BY <1>10 DEF CopyingCloneOf, b
  <2>2. Sound(clone(b, TRUE)) /\ Len(clone(b, TRUE).bytes) <= MaxBytes
    BY <1>1, CopyingCloneSound
  <2> QED  BY <2>1, <2>2, BecomesNewKeeps
<1>11. CASE ConcatOf(v, w)
  <2> DEFINE c == concat(<<a, b>>)
  <2>1. BecomesNew(v, c) /\ Len(Window(a)) + Len(Window(b)) <= MaxBytes
    BY <1>11 DEF ConcatOf, a, b
  <2>2. /\ c = wrap(Window(a) \o Window(b)) /\ Window(a) \o Window(b) \in Seq(Octet)
        /\ Len(Window(a) \o Window(b)) = Len(Window(a)) + Len(Window(b))
    BY <1>1, ConcatOfTwo
  <2> HIDE DEF c
  <2>3. Sound(c) /\ c.bytes = Window(a) \o Window(b)
    BY <2>2, WrapSound DEF wrap
  <2> QED  BY <2>1, <2>2, <2>3, BecomesNewKeeps
<1>12. CASE AppendTo(v, w)
  <2>1. v # w /\ BecomesBoth(v, append(a, b, None), w, Used(b).offset)
    BY <1>12 DEF AppendTo, a, b
  <2>2. /\ Sound(append(a, b, None))
        /\ Used(b).offset \in Nat /\ Used(b).offset <= Len(b.bytes)
    BY <1>1, AppendSound
  <2> QED  BY <2>1, <2>2, BecomesBothKeeps DEF b
<1>13. CASE Prepend(v, w)
  <2>1. v # w /\ BecomesBoth(v, prepend(a, b, None), w, Used(b).offset)
    BY <1>13 DEF Prepend, a, b
  <2>2. Sound(prepend(a, b, None))
    BY <1>1, PrependProperties
  <2>3. Used(b).offset \in Nat /\ Used(b).offset <= Len(b.bytes)
    BY <1>1, AppendSound
  <2> QED  BY <2>1, <2>2, <2>3, BecomesBothKeeps DEF b
<1>14. CASE CopyTo(v, w)
  <2> DEFINE r == copyTo(a, b, None, None, None)
  <2>1. v # w /\ remaining(a) >= 0 /\ BecomesBoth(w, r.target, v, r.b.offset)
    BY <1>14 DEF CopyTo, a, b
  <2>2. Sound(r.target) /\ r.b.offset \in Nat /\ r.b.offset <= Len(a.bytes)
    BY <1>1, <2>1, CopyToSound
  <2> HIDE DEF r
  <2> QED  BY <2>1, <2>2, BecomesBothKeeps DEF a
<1> QED
  BY <1>4, <1>5, <1>6, <1>7, <1>8, <1>9, <1>10, <1>11, <1>12, <1>13, <1>14 DEF Together
-------------------------------------------------------------------------------
(* The theorems. *)

\* The invariant holds where a program starts: every view shows one buffer of one byte.
LEMMA ViewsInitially == ViewsInit => IInv
<1> SUFFICES ASSUME ViewsInit
             PROVE  IInv
  OBVIOUS
<1>1. PICK first \in Stores :
        /\ view = [v \in Views |-> [store |-> first, offset |-> 0, limit |-> 1, mark |-> None]]
        /\ store = [s \in Stores |-> IF s = first THEN Zeros(1) ELSE <<>>]
  BY DEF ViewsInit
<1>2. MaxBytes \in Nat /\ MaxBytes >= 1
  BY ViewsAssumption
<1>3. Zeros(1) \in Bytes /\ Len(Zeros(1)) = 1
  <2>1. Zeros(1) \in Seq(Octet) /\ Len(Zeros(1)) = 1
    BY ZerosType
  <2>2. Len(Zeros(1)) <= MaxBytes
    BY <1>2, <2>1
  <2> QED  BY <2>1, <2>2, BytesAreSeqs
<1>4. <<>> \in Bytes
  <2>1. <<>> \in Seq(Octet) /\ Len(<<>>) = 0
    BY EmptySeq
  <2>2. Len(<<>>) <= MaxBytes
    BY <1>2, <2>1
  <2> QED  BY <2>1, <2>2, BytesAreSeqs
<1>5. None \in (-MaxBytes - 1)..MaxBytes /\ None <= 1
  BY <1>2 DEF None
<1>6. ViewsTypeOK
  BY <1>1, <1>3, <1>4, <1>5 DEF ViewsTypeOK
<1>7. PositionsInside
  <2>1. \A v \in Views : /\ view[v].store = first /\ view[v].offset = 0 /\ view[v].limit = 1
                         /\ view[v].mark = None
    BY <1>1
  <2>2. Len(store[first]) = 1
    BY <1>1, <1>3
  <2>3. 0 \in 0..1 /\ 1 \in 0..1
    OBVIOUS
  <2>4. ASSUME NEW v \in Views
        PROVE  /\ view[v].offset \in 0..Len(store[view[v].store])
               /\ view[v].limit \in 0..Len(store[view[v].store])
               /\ view[v].mark <= Len(store[view[v].store])
    <3>1. Len(store[view[v].store]) = 1
      BY <2>1, <2>2
    <3>2. view[v].offset = 0 /\ view[v].limit = 1 /\ view[v].mark = None
      BY <2>1
    <3> QED  BY <1>5, <2>3, <3>1, <3>2
  <2> QED  BY <2>4 DEF PositionsInside
<1> QED  BY <1>6, <1>7 DEF IInv

\* Every call keeps the invariant, and grows its own view alone.
LEMMA ViewsStep == IInv /\ [ViewsNext]_viewVars => IInv' /\ [GrowsAlone]_viewVars
<1> SUFFICES ASSUME IInv, [ViewsNext]_viewVars
             PROVE  IInv' /\ [GrowsAlone]_viewVars
  OBVIOUS
<1>1. ASSUME NEW v \in Views, Alone(v)
      PROVE  IInv' /\ GrowsAlone
  BY <1>1, AloneKeeps
<1>2. ASSUME NEW v \in Views, NEW w \in Views, Together(v, w)
      PROVE  IInv' /\ GrowsAlone
  BY <1>2, TogetherKeeps
<1>3. CASE UNCHANGED viewVars
  BY <1>3 DEF IInv, ViewsTypeOK, PositionsInside, viewVars
<1> QED  BY <1>1, <1>2, <1>3 DEF ViewsNext

\* So the invariant holds always.
LEMMA ViewsInvariant == ViewsSpec => []IInv
<1> QED  BY ViewsInitially, ViewsStep, PTL DEF ViewsSpec

\* Every view keeps its positions in a buffer that is there, of bytes that were written.
THEOREM ViewsTypeCorrect == ViewsSpec => []ViewsTypeOK
<1>1. IInv => ViewsTypeOK
  BY DEF IInv
<1> QED  BY <1>1, ViewsInvariant, PTL

\* The positions stay inside the buffer whatever other views do to it, and the contents
\* survive growth, compaction and prepending (bytebuffer.js, resize, compact, prepend).
THEOREM ViewsKeepContentsAlways == ViewsSpec => []ViewsKeepContents
<1>1. IInv => ViewsKeepContents
  <2> SUFFICES ASSUME IInv
               PROVE  ViewsKeepContents
    OBVIOUS
  <2>1. PositionsInside
    BY DEF IInv
  <2>2. ContentsMoveAlong
    <3>1. ASSUME NEW v \in Views
          PROVE  /\ \A n \in 1..MaxBytes : Window(ensureCapacity(Buf(v), n)) = Window(Buf(v))
                 /\ CanRange(Buf(v), None, None) =>
                       Window(compact(Buf(v), None, None)) = Window(Buf(v))
      <4>1. Sound(Buf(v)) /\ \A n \in 1..MaxBytes : n \in Nat
        BY BufSound, ViewsAssumption
      <4> QED  BY <4>1, ContentsStay
    <3> QED  BY <3>1 DEF ContentsMoveAlong
  <2>3. PrependedInFront
    <3>1. ASSUME NEW v \in Views, NEW w \in Views, remaining(Buf(v)) >= 0
          PROVE  Window(prepend(Buf(v), Buf(w), None)) = Window(Buf(w)) \o Window(Buf(v))
      BY <3>1, BufSound, PrependProperties
    <3> QED  BY <3>1 DEF PrependedInFront
  <2> QED  BY <2>1, <2>2, <2>3 DEF ViewsKeepContents
<1> QED  BY <1>1, ViewsInvariant, PTL

\* A call that changes the size of the buffer of one view changes no byte that another one
\* goes on to show: growth never reaches a buffer that is shared.
THEOREM GrowingDisturbsNobodyEver == ViewsSpec => GrowingDisturbsNobody
<1> QED  BY ViewsInvariant, ViewsStep, PTL DEF ViewsSpec, GrowingDisturbsNobody
===============================================================================
