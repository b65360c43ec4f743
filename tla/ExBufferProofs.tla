---------------------------- MODULE ExBufferProofs ----------------------------
(***************************************************************************)
(* Theorems about ExBuffer, for any frames, any pieces they arrive in and  *)
(* any lengths of the buffer.                                              *)
(***************************************************************************)
EXTENDS ExBuffer, WellFoundedInduction, TLAPS

\* The piece that put has made room for fits, and is part of the stream
RoomInv ==
    pc = "store" => len > 0 /\ len + GetLen <= length /\ received + len <= ends[FrameCount]

\* The frame that is awaited is one of the stream, and dlen its body's length
AwaitInv ==
    /\ Len(delivered) <= FrameCount
    /\ dlen # 0 \/ pc = "body" =>
           /\ Len(delivered) < FrameCount
           /\ dlen = ends[Len(delivered) + 1] - ends[Len(delivered)] - HeadLen

\* A position counted past the end of the buffer goes on at its front
Pos(x, n) == IF x < n THEN x ELSE x - n

\* The i-th byte in the ring is the i-th that was put and not read
HoldsInv ==
    /\ GetLen = received - Consumed
    /\ \A i \in 1..GetLen : buf[Pos(readOffset + i - 1, length)] = Consumed + i

\* What holds until the offsets meet on a full buffer
StreamInv == ~overlapped => AwaitInv /\ HoldsInv /\ NothingLeftBehind

BufferInv == TypeOK /\ RoomInv /\ StreamInv

-------------------------------------------------------------------------------
(* Numbers *)

\* Every nonempty set of natural numbers has a least element.
LEMMA LeastNumber ==
  ASSUME NEW T, T \subseteq Nat, T # {}
  PROVE  \E n \in T : \A m \in T : n <= m
<1> DEFINE R == OpToRel(<, Nat)
<1>1. IsWellFoundedOn(R, Nat)
  BY NatLessThanWellFounded
<1>2. \A x, y \in Nat : x < y => <<x, y>> \in R
  BY DEF OpToRel
<1> HIDE DEF R
<1>3. PICK n \in T : \A m \in T : <<m, n>> \notin R
  BY <1>1, WFMin
<1>4. ASSUME NEW m \in T PROVE n <= m
  <2>1. m \in Nat /\ n \in Nat
    OBVIOUS
  <2>2. ~ (m < n)
    BY <1>2, <1>3, <2>1
  <2> QED  BY <2>1, <2>2
<1> QED  BY <1>4

\* The remainder of a position that is at most once round.
LEMMA ModOnce ==
  ASSUME NEW n \in Nat \ {0}, NEW x \in Nat, x < 2 * n
  PROVE  x % n = Pos(x, n)
<1>1. CASE x < n
  BY <1>1 DEF Pos
<1>2. CASE x >= n
  BY <1>2 DEF Pos
<1> QED  BY <1>1, <1>2

\* The length that the buffer grows to holds what it has to.
LEMMA CeilingHolds ==
  ASSUME NEW n \in Nat
  PROVE  Ceiling(n) \in Nat /\ n <= Ceiling(n)
<1> DEFINE q == (n + Chunk - 1) \div Chunk
           r == (n + Chunk - 1) % Chunk
<1>1. Chunk \in Nat \ {0} /\ n + Chunk - 1 \in Nat
  BY BufferAssumption
<1>2. q \in Nat /\ r \in 0..(Chunk - 1) /\ n + Chunk - 1 = Chunk * q + r
  BY <1>1
<1> HIDE DEF q, r
<1>3. Chunk * q = q * Chunk /\ q * Chunk \in Nat
  BY <1>1, <1>2
<1>4. n <= q * Chunk
  BY <1>1, <1>2, <1>3
<1> QED  BY <1>3, <1>4 DEF q, Ceiling

\* The frames of a stream end one behind the other.
LEMMA EndsGrow ==
  ASSUME NEW e \in Streams, NEW i \in 0..FrameCount, NEW j \in 0..FrameCount, i < j
  PROVE  e[i] < e[j]
<1>1. /\ FrameCount \in Nat /\ HeadLen \in Nat \ {0} /\ MaxFrame \in Nat
      /\ e \in [0..FrameCount -> Nat]
      /\ \A n \in 1..FrameCount : e[n] - e[n - 1] \in HeadLen..(HeadLen + MaxFrame)
  BY BufferAssumption
<1> DEFINE T == {n \in Nat : i < n /\ n <= FrameCount /\ ~(e[i] < e[n])}
<1> SUFFICES ASSUME ~(e[i] < e[j]) PROVE FALSE
  OBVIOUS
<1>0. j \in T /\ T \subseteq Nat
  BY <1>1
<1>2. PICK n \in T : \A m \in T : n <= m
  <2> HIDE DEF T
  <2> QED  BY <1>0, LeastNumber
<1>3. n \in 1..FrameCount /\ n - 1 \in 0..FrameCount /\ i <= n - 1 /\ i \in Nat
  BY <1>1
<1>4. e[n - 1] < e[n] /\ e[n] \in Nat /\ e[n - 1] \in Nat /\ e[i] \in Nat
  <2>1. e[n] \in Nat /\ e[n - 1] \in Nat /\ e[i] \in Nat
    BY <1>1, <1>3
  <2>2. e[n] - e[n - 1] \in HeadLen..(HeadLen + MaxFrame)
    BY <1>1, <1>3
  <2> QED  BY SMTT(30), <1>1, <2>1, <2>2
<1>5. n - 1 \notin T
  BY <1>2, <1>3
<1>6. i = n - 1 \/ e[i] < e[n - 1]
  BY <1>1, <1>3, <1>5
<1>7. e[i] < e[n]
  BY <1>3, <1>4, <1>6
<1> QED  BY <1>7

\* What the assumptions on a stream say of one frame.
LEMMA FrameFacts ==
  ASSUME TypeOK, NEW n \in 0..FrameCount
  PROVE  /\ ends[n] \in Nat /\ ends[n] <= ends[FrameCount] /\ ends[FrameCount] \in Nat
         /\ n > 0 => /\ n - 1 \in 0..FrameCount /\ ends[n - 1] \in Nat
                     /\ ends[n] - ends[n - 1] - HeadLen \in 0..MaxFrame
<1>1. /\ FrameCount \in Nat /\ HeadLen \in Nat /\ MaxFrame \in Nat
      /\ ends \in Streams /\ ends \in [0..FrameCount -> Nat]
      /\ \A k \in 1..FrameCount : ends[k] - ends[k - 1] \in HeadLen..(HeadLen + MaxFrame)
  BY BufferAssumption DEF TypeOK
<1>2. FrameCount \in 0..FrameCount /\ (n < FrameCount => ends[n] < ends[FrameCount])
  <2>1. FrameCount \in 0..FrameCount
    BY <1>1
  <2>2. ASSUME n < FrameCount PROVE ends[n] < ends[FrameCount]
    BY <1>1, <2>1, <2>2, EndsGrow
  <2> QED  BY <2>1, <2>2
<1>3. ends[n] \in Nat /\ ends[FrameCount] \in Nat
  BY <1>1, <1>2
<1>4. n > 0 => n \in 1..FrameCount /\ n - 1 \in 0..FrameCount
  BY <1>1
<1>5. n > 0 => /\ ends[n - 1] \in Nat
               /\ ends[n] - ends[n - 1] \in HeadLen..(HeadLen + MaxFrame)
  BY <1>1, <1>4
<1>6. n = FrameCount \/ n < FrameCount
  BY <1>1
<1>7. ends[n] <= ends[FrameCount]
  BY <1>2, <1>3, <1>6
<1>8. ASSUME n > 0
      PROVE  /\ n - 1 \in 0..FrameCount /\ ends[n - 1] \in Nat
             /\ ends[n] - ends[n - 1] - HeadLen \in 0..MaxFrame
  BY <1>1, <1>3, <1>4, <1>5, <1>8
<1> QED  BY <1>3, <1>7, <1>8

\* What GetLen counts.
LEMMA GetLenType == TypeOK => GetLen \in 0..length
BY DEF TypeOK, GetLen

\* What Skip does to the offsets and to GetLen.
LEMMA SkipEffect ==
  ASSUME TypeOK, NEW n \in 0..GetLen, Skip(n), putOffset' = putOffset, length' = length
  PROVE  /\ readOffset' \in 0..length
         /\ GetLen' = GetLen - n
         /\ \A i \in 1..(GetLen - n) :
               Pos(readOffset' + i - 1, length) = Pos(readOffset + (n + i) - 1, length)
<1>1. /\ length \in Nat \ {0} /\ readOffset \in 0..length /\ putOffset \in 0..length
      /\ n \in Nat /\ n <= GetLen
  BY GetLenType DEF TypeOK
<1>2. CASE putOffset >= readOffset
  <2>1. GetLen = putOffset - readOffset
    BY <1>2 DEF GetLen
  <2>2. readOffset' = readOffset + n /\ readOffset + n <= putOffset
    BY <1>1, <2>1 DEF Skip
  <2>3. GetLen' = putOffset - (readOffset + n)
    BY <1>1, <2>2 DEF GetLen
  <2> QED  BY <1>1, <2>1, <2>2, <2>3 DEF Pos
<1>3. CASE putOffset < readOffset
  <2>1. GetLen = length - readOffset + putOffset
    BY <1>1, <1>3 DEF GetLen
  <2>2. CASE readOffset + n > length
    <3>1. readOffset' = readOffset + n - length /\ readOffset + n - length <= putOffset
      BY <1>1, <2>1, <2>2 DEF Skip
    <3>2. GetLen' = putOffset - (readOffset + n - length)
      BY <1>1, <3>1 DEF GetLen
    <3> QED  BY <1>1, <1>3, <2>1, <2>2, <3>1, <3>2 DEF Pos
  <2>3. CASE readOffset + n <= length
    <3>1. readOffset' = readOffset + n
      BY <1>1, <2>3 DEF Skip
    <3>2. GetLen' = length - (readOffset + n) + putOffset
      BY <1>1, <1>3, <3>1 DEF GetLen
    <3> QED  BY <1>1, <1>3, <2>1, <2>3, <3>1, <3>2 DEF Pos
  <2> QED  BY <1>1, <2>2, <2>3
<1> QED  BY <1>1, <1>2, <1>3

\* What Peek returns.
LEMMA PeekEffect ==
  ASSUME TypeOK, NEW n \in 0..GetLen
  PROVE  /\ Peek(n) = [i \in 1..n |-> buf[Pos(readOffset + i - 1, length)]]
         /\ Peek(n) \in Seq(0..ends[FrameCount])
<1>1. /\ length \in Nat \ {0} /\ readOffset \in 0..length /\ n \in Nat /\ n <= length
      /\ buf \in [0..(length - 1) -> 0..ends[FrameCount]]
  BY GetLenType DEF TypeOK
<1>2. ASSUME NEW i \in 1..n
      PROVE  /\ (readOffset + i - 1) % length = Pos(readOffset + i - 1, length)
             /\ Pos(readOffset + i - 1, length) \in 0..(length - 1)
  <2>1. readOffset + i - 1 \in Nat /\ readOffset + i - 1 < 2 * length
    BY <1>1
  <2>2. (readOffset + i - 1) % length = Pos(readOffset + i - 1, length)
    BY <1>1, <2>1, ModOnce
  <2>3. Pos(readOffset + i - 1, length) \in 0..(length - 1)
    BY <1>1, <2>1 DEF Pos
  <2> QED  BY <2>2, <2>3
<1>3. \A i \in 1..n : buf[Pos(readOffset + i - 1, length)] \in 0..ends[FrameCount]
  BY <1>1, <1>2
<1>4. Peek(n) = [i \in 1..n |-> buf[Pos(readOffset + i - 1, length)]]
  BY <1>2 DEF Peek
<1> QED  BY <1>1, <1>3, <1>4

-------------------------------------------------------------------------------
(* Room for a piece, and the piece *)

\* The buffer grows around its contents: what put makes room for leaves the bytes
\* in the ring where readOffset finds them.
LEMMA PutEffect ==
  ASSUME TypeOK, NEW k \in PutLengths, Put(k)
  PROVE  /\ length' \in Nat \ {0} /\ buf' \in [0..(length' - 1) -> 0..ends[FrameCount]]
         /\ readOffset' = readOffset /\ readOffset' \in 0..length' /\ putOffset' \in 0..length'
         /\ GetLen' = GetLen /\ k + GetLen <= length'
         /\ \A i \in 1..GetLen :
               buf'[Pos(readOffset' + i - 1, length')] = buf[Pos(readOffset + i - 1, length)]
<1>1. /\ length \in Nat \ {0} /\ readOffset \in 0..length /\ putOffset \in 0..length
      /\ buf \in [0..(length - 1) -> 0..ends[FrameCount]]
      /\ k \in Nat /\ GetLen \in 0..length /\ 0 \in 0..ends[FrameCount]
  <2>1. ends[FrameCount] \in Nat
    BY FrameFacts, BufferAssumption
  <2>2. /\ length \in Nat \ {0} /\ readOffset \in 0..length /\ putOffset \in 0..length
        /\ buf \in [0..(length - 1) -> 0..ends[FrameCount]]
    BY DEF TypeOK
  <2>3. PutLengths \subseteq Nat
    BY BufferAssumption
  <2> QED  BY <2>1, <2>2, <2>3, GetLenType
<1>2. CASE k + GetLen <= length - 1
  <2>1. UNCHANGED ringVars
    BY <1>1, <1>2 DEF Put
  <2> QED  BY <1>1, <1>2, <2>1 DEF ringVars, GetLen
<1>3. CASE k + GetLen > length - 1
  <2> DEFINE n == Ceiling(k + GetLen)
  <2>1. /\ buf' = Grown(n) /\ putOffset' = GrownPutOffset(n) /\ length' = n
        /\ readOffset' = readOffset
    BY <1>3 DEF Put
  <2>2. n \in Nat \ {0} /\ length <= n /\ k + GetLen <= n
    <3>1. k + GetLen \in Nat
      BY <1>1
    <3>2. n \in Nat /\ k + GetLen <= n
      BY <3>1, CeilingHolds
    <3> QED  BY <1>1, <1>3, <3>1, <3>2
  <2> HIDE DEF n
  <2> DEFINE exlen == n - length
             moved == IF putOffset < readOffset THEN Min2(putOffset, exlen) ELSE 0
  <2>3. exlen \in Nat /\ moved \in Nat /\ moved <= exlen /\ moved <= putOffset
    BY <1>1, <2>2 DEF Min2
  <2>4. buf' = [i \in 0..(n - 1) |->
                   IF i >= length THEN (IF i < length + moved THEN buf[i - length] ELSE 0)
                   ELSE IF putOffset < readOffset /\ i < putOffset - moved THEN buf[i + moved]
                   ELSE buf[i]]
    BY <2>1 DEF Grown
  <2>5. putOffset' = IF putOffset >= readOffset THEN putOffset
                     ELSE IF putOffset <= exlen THEN putOffset + length ELSE putOffset - exlen
    BY <2>1 DEF GrownPutOffset
  <2>6. moved = IF putOffset < readOffset
                THEN (IF putOffset <= exlen THEN putOffset ELSE exlen) ELSE 0
    BY DEF Min2
  <2> HIDE DEF moved
  <2>7. buf' \in [0..(n - 1) -> 0..ends[FrameCount]]
    <3> SUFFICES ASSUME NEW i \in 0..(n - 1)
                 PROVE  (IF i >= length THEN (IF i < length + moved THEN buf[i - length] ELSE 0)
                         ELSE IF putOffset < readOffset /\ i < putOffset - moved THEN buf[i + moved]
                         ELSE buf[i]) \in 0..ends[FrameCount]
      BY <2>4
    <3>1. i >= length /\ i < length + moved => i - length \in 0..(length - 1)
      BY <1>1, <2>3
    <3>2. i < length /\ i < putOffset - moved => i + moved \in 0..(length - 1)
      BY <1>1, <2>3
    <3>3. i < length => i \in 0..(length - 1)
      BY <1>1
    <3> QED  BY <1>1, <3>1, <3>2, <3>3
  <2>8. CASE putOffset >= readOffset
    <3>1. putOffset' = putOffset /\ GetLen = putOffset - readOffset
      BY <1>1, <2>5, <2>8 DEF GetLen
    <3>2. GetLen' = GetLen
      BY <1>1, <2>1, <2>8, <3>1 DEF GetLen
    <3>3. ASSUME NEW i \in 1..GetLen
          PROVE  buf'[Pos(readOffset + i - 1, n)] = buf[Pos(readOffset + i - 1, length)]
      <4>1. /\ Pos(readOffset + i - 1, n) = readOffset + i - 1
            /\ Pos(readOffset + i - 1, length) = readOffset + i - 1
            /\ readOffset + i - 1 \in 0..(length - 1)
        BY <1>1, <2>2, <3>1 DEF Pos
      <4> QED  BY <1>1, <2>2, <2>4, <2>8, <4>1
    <3> QED  BY <1>1, <2>1, <2>2, <2>7, <3>1, <3>2, <3>3
  <2>9. CASE putOffset < readOffset /\ putOffset <= exlen
    <3>1. /\ putOffset' = putOffset + length /\ GetLen = length - readOffset + putOffset
          /\ moved = putOffset
      BY <1>1, <2>5, <2>6, <2>9 DEF GetLen
    <3>2. GetLen' = GetLen /\ putOffset' \in 0..n
      BY <1>1, <2>1, <2>2, <2>9, <3>1 DEF GetLen
    <3>3. ASSUME NEW i \in 1..GetLen
          PROVE  buf'[Pos(readOffset + i - 1, n)] = buf[Pos(readOffset + i - 1, length)]
      <4>1. /\ Pos(readOffset + i - 1, n) = readOffset + i - 1
            /\ readOffset + i - 1 \in 0..(n - 1)
        BY <1>1, <2>2, <2>9, <3>1 DEF Pos
      <4> QED  BY <1>1, <2>2, <2>3, <2>4, <2>9, <3>1, <4>1 DEF Pos
    <3> QED  BY <1>1, <2>1, <2>2, <2>7, <3>1, <3>2, <3>3
  <2>10. CASE putOffset < readOffset /\ putOffset > exlen
    <3>1. /\ putOffset' = putOffset - exlen /\ GetLen = length - readOffset + putOffset
          /\ moved = exlen
      BY <1>1, <2>3, <2>5, <2>6, <2>10 DEF GetLen
    <3>2. GetLen' = GetLen /\ putOffset' \in 0..n
      BY <1>1, <2>1, <2>2, <2>10, <3>1 DEF GetLen
    <3>3. ASSUME NEW i \in 1..GetLen
          PROVE  buf'[Pos(readOffset + i - 1, n)] = buf[Pos(readOffset + i - 1, length)]
      <4>1. CASE readOffset + i - 1 < n
        <5>1. /\ Pos(readOffset + i - 1, n) = readOffset + i - 1
              /\ readOffset + i - 1 \in 0..(n - 1)
          BY <1>1, <2>2, <4>1 DEF Pos
        <5> QED  BY <1>1, <2>2, <2>3, <2>4, <2>10, <3>1, <4>1, <5>1 DEF Pos
      <4>2. CASE readOffset + i - 1 >= n
        <5>1. /\ Pos(readOffset + i - 1, n) = readOffset + i - 1 - n
              /\ Pos(readOffset + i - 1, length) = readOffset + i - 1 - length
              /\ readOffset + i - 1 - n \in 0..(n - 1)
              /\ readOffset + i - 1 - n < length /\ readOffset + i - 1 - n < putOffset - moved
              /\ readOffset + i - 1 - n + moved = readOffset + i - 1 - length
          BY <1>1, <2>2, <2>10, <3>1, <4>2 DEF Pos
        <5>2. ~(readOffset + i - 1 - n >= length)
          BY <1>1, <2>2, <5>1
        <5> QED  BY <2>4, <2>10, <5>1, <5>2
      <4> QED  BY <1>1, <2>2, <4>1, <4>2
    <3> QED  BY <1>1, <2>1, <2>2, <2>7, <3>1, <3>2, <3>3
  <2> QED  BY <1>1, <2>2, <2>8, <2>9, <2>10
<1> QED  BY <1>1, <1>2, <1>3

\* The piece goes behind what the ring holds.  Unless the offsets meet, GetLen counts
\* both; an empty ring starts over at 0.
LEMMA StoreEffect ==
  ASSUME TypeOK, RoomInv, Store
  PROVE  /\ readOffset' \in 0..length /\ putOffset' \in 0..length
         /\ buf' \in [0..(length - 1) -> 0..ends[FrameCount]]
         /\ received' = received + len /\ received' \in 0..ends[FrameCount]
         /\ ~overlapped' =>
               /\ ~overlapped /\ GetLen' = GetLen + len
               /\ \A i \in 1..GetLen :
                     buf'[Pos(readOffset' + i - 1, length)] = buf[Pos(readOffset + i - 1, length)]
               /\ \A i \in (GetLen + 1)..(GetLen + len) :
                     buf'[Pos(readOffset' + i - 1, length)] = received + (i - GetLen)
<1> DEFINE read == IF GetLen = 0 THEN 0 ELSE readOffset
           put  == IF GetLen = 0 THEN 0 ELSE putOffset
           used == GetLen
<1>1. /\ length \in Nat \ {0} /\ readOffset \in 0..length /\ putOffset \in 0..length
      /\ buf \in [0..(length - 1) -> 0..ends[FrameCount]]
      /\ used \in 0..length /\ received \in Nat /\ ends[FrameCount] \in Nat
      /\ len \in Nat /\ len > 0 /\ len + used <= length /\ received + len <= ends[FrameCount]
  <2>1. ends[FrameCount] \in Nat
    BY FrameFacts, BufferAssumption
  <2>2. /\ length \in Nat \ {0} /\ readOffset \in 0..length /\ putOffset \in 0..length
        /\ buf \in [0..(length - 1) -> 0..ends[FrameCount]] /\ received \in Nat
    BY <2>1 DEF TypeOK
  <2>3. used \in 0..length
    BY GetLenType
  <2>4. len \in Nat
    <3>1. PutLengths \subseteq Nat
      BY BufferAssumption
    <3> QED  BY <3>1 DEF TypeOK
  <2>5. len > 0 /\ len + used <= length /\ received + len <= ends[FrameCount]
    BY DEF RoomInv, Store
  <2> QED  BY <2>1, <2>2, <2>3, <2>4, <2>5
<1>2. /\ readOffset' = read /\ length' = length /\ received' = received + len
      /\ putOffset' = IF put + len > length THEN put + len - length ELSE put + len
      /\ buf' = [i \in 0..(length - 1) |->
                         IF i \in put..(put + len - 1) THEN received + i - put + 1
                         ELSE IF i < put + len - length THEN received + length - put + i + 1
                         ELSE buf[i]]
      /\ overlapped' = (overlapped \/ putOffset' = readOffset')
  BY DEF Store
<1>3. /\ read \in 0..length /\ put \in 0..length
      /\ used = 0 => read = 0 /\ put = 0
      /\ used # 0 => read = readOffset /\ put = putOffset
      /\ used = IF put >= read THEN put - read ELSE length - read + put
  BY <1>1 DEF GetLen
<1> HIDE DEF read, put
<1>4. used = GetLen
  OBVIOUS
<1> HIDE DEF used
<1>5. putOffset' \in 0..length
  BY <1>1, <1>2, <1>3
<1>6. buf' \in [0..(length - 1) -> 0..ends[FrameCount]]
  <2> SUFFICES ASSUME NEW i \in 0..(length - 1)
               PROVE  (IF i \in put..(put + len - 1) THEN received + i - put + 1
                       ELSE IF i < put + len - length THEN received + length - put + i + 1
                       ELSE buf[i]) \in 0..ends[FrameCount]
    BY <1>2
  <2>1. i \in put..(put + len - 1) => received + i - put + 1 \in 0..ends[FrameCount]
    BY <1>1, <1>3
  <2>2. i < put + len - length => received + length - put + i + 1 \in 0..ends[FrameCount]
    BY <1>1, <1>3
  <2> QED  BY <1>1, <2>1, <2>2
<1>7. ASSUME ~overlapped'
      PROVE  /\ ~overlapped /\ GetLen' = used + len
             /\ \A i \in 1..used :
                   buf'[Pos(readOffset' + i - 1, length)] = buf[Pos(readOffset + i - 1, length)]
             /\ \A i \in (used + 1)..(used + len) :
                   buf'[Pos(readOffset' + i - 1, length)] = received + (i - used)
  <2>1. ~overlapped /\ putOffset' # read
    BY <1>2, <1>7
  <2>2. GetLen' = used + len
    <3>1. GetLen' = IF putOffset' >= read THEN putOffset' - read
                    ELSE length - read + putOffset'
      BY <1>2 DEF GetLen
    <3> QED  BY <1>1, <1>2, <1>3, <2>1, <3>1
  <2>3. ASSUME NEW i \in 1..used
        PROVE  buf'[Pos(read + i - 1, length)] = buf[Pos(readOffset + i - 1, length)]
    <3> DEFINE x == Pos(read + i - 1, length)
    <3>1. read = readOffset
      BY <1>1, <1>3
    <3>2. /\ x \in 0..(length - 1) /\ x \notin put..(put + len - 1)
          /\ ~(x < put + len - length)
      BY <1>1, <1>3 DEF Pos
    <3> HIDE DEF x
    <3>3. buf'[x] = buf[x]
      BY <1>2, <3>2
    <3> QED  BY <3>1, <3>3 DEF x
  <2>4. ASSUME NEW i \in (used + 1)..(used + len)
        PROVE  buf'[Pos(read + i - 1, length)] = received + (i - used)
    <3> DEFINE x == Pos(read + i - 1, length)
    <3>1. /\ x \in 0..(length - 1)
          /\ x \in put..(put + len - 1) => received + x - put + 1 = received + (i - used)
          /\ x \notin put..(put + len - 1) =>
                /\ x < put + len - length
                /\ received + length - put + x + 1 = received + (i - used)
      BY <1>1, <1>3 DEF Pos
    <3> HIDE DEF x
    <3>2. buf'[x] = IF x \in put..(put + len - 1) THEN received + x - put + 1
                    ELSE IF x < put + len - length THEN received + length - put + x + 1
                    ELSE buf[x]
      BY <1>2, <3>1
    <3>3. buf'[x] = received + (i - used)
      BY <3>1, <3>2
    <3> QED  BY <3>3 DEF x
  <2> QED  BY <1>2, <2>1, <2>2, <2>3, <2>4
<1>8. received' \in 0..ends[FrameCount]
  BY <1>1, <1>2
<1> QED  BY <1>2, <1>3, <1>4, <1>5, <1>6, <1>7, <1>8

-------------------------------------------------------------------------------
(* Types and room *)

\* An awaited body, or a header, is in the buffer before it is read.
LEMMA RoomStep == TypeOK /\ RoomInv /\ [Next]_vars => TypeOK' /\ RoomInv'
<1> SUFFICES ASSUME TypeOK, RoomInv, [Next]_vars PROVE TypeOK' /\ RoomInv'
  OBVIOUS
<1>1. /\ HeadLen \in Nat \ {0} /\ MaxFrame \in Nat /\ MaxRounds \in Nat \ {0}
      /\ PutLengths \subseteq Nat \ {0} /\ GetLen \in 0..length
      /\ ends[FrameCount] \in Nat
  BY FrameFacts, GetLenType, BufferAssumption
<1>2. ASSUME NEW k \in PutLengths, Put(k) PROVE TypeOK' /\ RoomInv'
  <2>1. /\ length' \in Nat \ {0} /\ buf' \in [0..(length' - 1) -> 0..ends[FrameCount]]
        /\ readOffset' \in 0..length' /\ putOffset' \in 0..length'
        /\ GetLen' = GetLen /\ k + GetLen <= length'
    BY <1>2, PutEffect
  <2>2. /\ received + k <= ends[FrameCount] /\ len' = k /\ pc' = "store"
        /\ UNCHANGED <<ends, received, delivered, dlen, count, overlapped>>
    BY <1>2 DEF Put, streamVars
  <2>3. k > 0
    BY <1>1
  <2>4. TypeOK'
    BY <2>1, <2>2 DEF TypeOK
  <2> QED  BY <2>1, <2>2, <2>3, <2>4 DEF RoomInv
<1>3. ASSUME Store PROVE TypeOK' /\ RoomInv'
  <2>1. /\ readOffset' \in 0..length /\ putOffset' \in 0..length
        /\ buf' \in [0..(length - 1) -> 0..ends[FrameCount]]
        /\ received' \in 0..ends[FrameCount]
    BY <1>3, StoreEffect
  <2>2. /\ count' = 0 /\ len' = 0 /\ pc' = "loop"
        /\ UNCHANGED <<ends, delivered, length, dlen>>
        /\ overlapped' \in BOOLEAN
    BY <1>3 DEF Store
  <2> QED  BY <1>1, <2>1, <2>2 DEF TypeOK, RoomInv
<1>4. ASSUME NEW n \in 0..GetLen, Skip(n), UNCHANGED <<ends, received, buf, length, putOffset>>,
             len' = len, overlapped' = overlapped, pc' # "store",
             pc' \in {"idle", "store", "loop", "body"},
             delivered' \in Seq(Seq(0..ends[FrameCount])),
             dlen' \in 0..MaxFrame, count' \in 0..(MaxRounds + 1)
      PROVE  TypeOK' /\ RoomInv'
  <2>1. readOffset' \in 0..length
    BY <1>4, SkipEffect
  <2> QED  BY <1>4, <2>1 DEF TypeOK, RoomInv
<1>5. ASSUME ReadHeader PROVE TypeOK' /\ RoomInv'
  <2>1. Lengths(Peek(HeadLen)) \subseteq 0..MaxFrame
    <3>1. ASSUME NEW n \in 1..FrameCount PROVE ends[n] - ends[n - 1] - HeadLen \in 0..MaxFrame
      <4>1. n \in 0..FrameCount /\ n > 0
        BY BufferAssumption
      <4> QED  BY <4>1, FrameFacts
    <3> QED  BY <3>1 DEF Lengths
  <2>2. HeadLen \in 0..GetLen
    BY <1>1, <1>5 DEF ReadHeader
  <2>3. count' \in 0..(MaxRounds + 1)
    BY <1>1, <1>5 DEF ReadHeader, TypeOK
  <2> QED  BY <1>4, <1>5, <2>1, <2>2, <2>3 DEF ReadHeader, TypeOK, streamVars
<1>6. ASSUME EmitBody PROVE TypeOK' /\ RoomInv'
  <2>1. dlen \in 0..GetLen
    BY <1>1, <1>6 DEF EmitBody, TypeOK
  <2>2. Peek(dlen) \in Seq(0..ends[FrameCount])
    BY <2>1, PeekEffect
  <2>3. delivered' \in Seq(Seq(0..ends[FrameCount]))
    BY <1>6, <2>2 DEF EmitBody, TypeOK
  <2>4. dlen' \in 0..MaxFrame
    BY <1>1, <1>6 DEF EmitBody
  <2> QED  BY <1>4, <1>6, <2>1, <2>3, <2>4 DEF EmitBody, TypeOK
<1>7. ASSUME UNCHANGED <<streamVars, ringVars, dlen, len, overlapped>>,
             count' \in 0..(MaxRounds + 1), pc' \in {"idle", "loop", "body"}
      PROVE  TypeOK' /\ RoomInv'
  BY <1>7 DEF TypeOK, RoomInv, streamVars, ringVars
<1>8. ASSUME BreakOff \/ AwaitHeader \/ KnownHeader \/ AwaitBody
      PROVE  TypeOK' /\ RoomInv'
  <2>1. count \in 0..(MaxRounds + 1) /\ MaxRounds \in Nat
    BY <1>1 DEF TypeOK
  <2>2. count' \in 0..(MaxRounds + 1)
    BY <1>8, <2>1 DEF BreakOff, AwaitHeader, KnownHeader, AwaitBody
  <2> QED  BY <1>7, <1>8, <2>2 DEF BreakOff, AwaitHeader, KnownHeader, AwaitBody
<1>9. CASE UNCHANGED vars
  BY <1>9 DEF TypeOK, RoomInv, vars, streamVars, ringVars, GetLen
<1> QED  BY <1>2, <1>3, <1>5, <1>6, <1>8, <1>9 DEF Next

-------------------------------------------------------------------------------
(* The ring and the stream *)

\* Facts about the frame that the loop has reached.
LEMMA NextFrame ==
  ASSUME TypeOK, AwaitInv, HoldsInv
  PROVE  /\ Len(delivered) \in 0..FrameCount /\ GetLen \in Nat /\ Consumed \in Nat
         /\ received = Consumed + GetLen /\ received <= ends[FrameCount]
         /\ ends[Len(delivered)] \in Nat
         /\ ends[Len(delivered)] < received => Len(delivered) < FrameCount
         /\ Len(delivered) < FrameCount =>
               /\ Len(delivered) + 1 \in 1..FrameCount
               /\ ends[Len(delivered) + 1] \in Nat
               /\ ends[Len(delivered) + 1] >= ends[Len(delivered)] + HeadLen
<1> DEFINE n == Len(delivered)
<1>1. /\ n \in Nat /\ n <= FrameCount /\ FrameCount \in Nat /\ HeadLen \in Nat
      /\ received \in Nat /\ received <= ends[FrameCount]
      /\ GetLen \in Nat /\ GetLen = received - Consumed
  <2>1. FrameCount \in Nat /\ HeadLen \in Nat
    BY BufferAssumption
  <2>2. n \in Nat /\ n <= FrameCount
    BY DEF TypeOK, AwaitInv
  <2>3. ends[FrameCount] \in Nat
    BY <2>1, FrameFacts
  <2>4. received \in Nat /\ received <= ends[FrameCount]
    BY <2>3 DEF TypeOK
  <2>5. GetLen \in Nat /\ GetLen = received - Consumed
    BY GetLenType DEF TypeOK, HoldsInv
  <2> QED  BY <2>1, <2>2, <2>4, <2>5
<1> HIDE DEF n
<1>2. n \in 0..FrameCount
  BY <1>1
<1>3. ends[n] \in Nat /\ ends[n] <= ends[FrameCount] /\ ends[FrameCount] \in Nat
  BY <1>2, FrameFacts
<1>4. Consumed \in Nat
  BY <1>1, <1>3 DEF Consumed, n
<1>5. ends[n] < received => n < FrameCount
  BY <1>1, <1>2, <1>3
<1>6. ASSUME n < FrameCount
      PROVE  /\ n + 1 \in 1..FrameCount /\ ends[n + 1] \in Nat
             /\ ends[n + 1] >= ends[n] + HeadLen
  <2>1. n + 1 \in 0..FrameCount /\ n + 1 > 0 /\ (n + 1) - 1 = n
    BY <1>1, <1>6
  <2>2. ends[n + 1] \in Nat /\ ends[n + 1] - ends[n] - HeadLen \in 0..MaxFrame
    BY <2>1, FrameFacts
  <2> QED  BY SMTT(30), <1>1, <1>3, <2>1, <2>2, BufferAssumption
<1> QED  BY <1>1, <1>2, <1>3, <1>4, <1>5, <1>6 DEF n

\* Making room for a piece changes nothing the stream can tell.
LEMMA PutStream ==
  ASSUME TypeOK, StreamInv, NEW k \in PutLengths, Put(k)
  PROVE  StreamInv'
<1> SUFFICES ASSUME ~overlapped' PROVE AwaitInv' /\ HoldsInv' /\ NothingLeftBehind'
  BY DEF StreamInv
<1>1. /\ pc = "idle" /\ pc' = "store"
      /\ UNCHANGED <<ends, received, delivered, dlen, count, overlapped>>
  BY DEF Put, streamVars
<1>2. AwaitInv /\ HoldsInv
  BY <1>1 DEF StreamInv
<1>3. /\ GetLen' = GetLen /\ readOffset' = readOffset
      /\ \A i \in 1..GetLen :
            buf'[Pos(readOffset' + i - 1, length')] = buf[Pos(readOffset + i - 1, length)]
  BY PutEffect
<1>4. Consumed' = Consumed
  BY <1>1 DEF Consumed
<1>5. AwaitInv'
  BY <1>1, <1>2 DEF AwaitInv
<1>6. HoldsInv'
  BY <1>1, <1>2, <1>3, <1>4 DEF HoldsInv
<1>7. NothingLeftBehind'
  BY <1>1 DEF NothingLeftBehind
<1> QED  BY <1>5, <1>6, <1>7

\* The piece continues the stream behind what the ring holds.
LEMMA StoreStream ==
  ASSUME TypeOK, RoomInv, StreamInv, Store
  PROVE  StreamInv'
<1> SUFFICES ASSUME ~overlapped' PROVE AwaitInv' /\ HoldsInv' /\ NothingLeftBehind'
  BY DEF StreamInv
<1>1. /\ pc = "store" /\ pc' = "loop" /\ UNCHANGED <<ends, delivered, length, dlen>>
      /\ received' = received + len
  BY DEF Store
<1>2. /\ ~overlapped /\ GetLen' = GetLen + len
      /\ \A i \in 1..GetLen :
            buf'[Pos(readOffset' + i - 1, length)] = buf[Pos(readOffset + i - 1, length)]
      /\ \A i \in (GetLen + 1)..(GetLen + len) :
            buf'[Pos(readOffset' + i - 1, length)] = received + (i - GetLen)
  BY StoreEffect
<1>3. AwaitInv /\ HoldsInv
  BY <1>2 DEF StreamInv
<1>4. /\ GetLen \in Nat /\ Consumed \in Nat /\ received = Consumed + GetLen
      /\ len \in Nat /\ Consumed' = Consumed
  BY <1>1, <1>3, NextFrame, BufferAssumption DEF TypeOK, Consumed
<1>5. AwaitInv'
  BY <1>1, <1>3 DEF AwaitInv
<1>6. \A i \in 1..(GetLen + len) : buf'[Pos(readOffset' + i - 1, length)] = Consumed + i
  <2> SUFFICES ASSUME NEW i \in 1..(GetLen + len)
               PROVE  buf'[Pos(readOffset' + i - 1, length)] = Consumed + i
    OBVIOUS
  <2>1. CASE i \in 1..GetLen
    BY <1>2, <1>3, <2>1 DEF HoldsInv
  <2>2. CASE i \notin 1..GetLen
    <3>1. i \in (GetLen + 1)..(GetLen + len) /\ received + (i - GetLen) = Consumed + i
      BY <1>4, <2>2
    <3> QED  BY <1>2, <3>1
  <2> QED  BY <2>1, <2>2
<1>7. HoldsInv'
  BY <1>1, <1>2, <1>4, <1>6 DEF HoldsInv
<1>8. NothingLeftBehind'
  BY <1>1 DEF NothingLeftBehind
<1> QED  BY <1>5, <1>7, <1>8

\* What the ring shows of the stream at readOffset.
LEMMA PeekStream ==
  ASSUME TypeOK, HoldsInv, NEW n \in 0..GetLen
  PROVE  Peek(n) = [i \in 1..n |-> Consumed + i]
<1>1. Peek(n) = [i \in 1..n |-> buf[Pos(readOffset + i - 1, length)]]
  BY PeekEffect
<1>2. \A i \in 1..n : i \in 1..GetLen
  BY GetLenType DEF TypeOK
<1> QED  BY <1>1, <1>2 DEF HoldsInv

\* What the ring holds after n bytes were read.
LEMMA SkipStream ==
  ASSUME TypeOK, HoldsInv, NEW n \in 0..GetLen, Skip(n), Consumed \in Nat,
         UNCHANGED <<buf, length, putOffset, received>>, Consumed' = Consumed + n
  PROVE  HoldsInv'
<1>1. /\ GetLen' = GetLen - n
      /\ \A i \in 1..(GetLen - n) :
            Pos(readOffset' + i - 1, length) = Pos(readOffset + (n + i) - 1, length)
  BY SkipEffect
<1>2. GetLen \in Nat /\ n \in Nat /\ received \in Nat /\ GetLen = received - Consumed
  BY GetLenType DEF TypeOK, HoldsInv
<1>3. ASSUME NEW i \in 1..(GetLen - n)
      PROVE  buf[Pos(readOffset' + i - 1, length)] = (Consumed + n) + i
  <2>1. n + i \in 1..GetLen
    BY <1>2
  <2>2. buf[Pos(readOffset + (n + i) - 1, length)] = Consumed + (n + i)
    BY <2>1 DEF HoldsInv
  <2> QED  BY <1>1, <1>2, <2>2
<1> QED  BY <1>1, <1>2, <1>3 DEF HoldsInv

\* The header that is read is the next frame's, so dlen becomes its body's length.
LEMMA ReadHeaderStream ==
  ASSUME TypeOK, StreamInv, ReadHeader
  PROVE  StreamInv'
<1> SUFFICES ASSUME ~overlapped' PROVE AwaitInv' /\ HoldsInv' /\ NothingLeftBehind'
  BY DEF StreamInv
<1> DEFINE n == Len(delivered)
<1>1. /\ pc = "loop" /\ pc' = "body" /\ dlen = 0 /\ GetLen >= HeadLen /\ Skip(HeadLen)
      /\ dlen' \in Lengths(Peek(HeadLen))
      /\ UNCHANGED <<ends, received, delivered, buf, length, putOffset, overlapped>>
  BY DEF ReadHeader, streamVars
<1>2. AwaitInv /\ HoldsInv
  BY <1>1 DEF StreamInv
<1>3. Consumed = ends[n] /\ Consumed' = ends[n] + HeadLen
  <2>1. Consumed = ends[n] + 0
    BY <1>1 DEF Consumed
  <2>2. ends[n] \in Nat
    BY <1>2, NextFrame
  <2> QED  BY <1>1, <2>1, <2>2 DEF Consumed
<1>4. /\ HeadLen \in Nat \ {0} /\ HeadLen \in 0..GetLen /\ GetLen \in Nat /\ ends[n] \in Nat
      /\ received = ends[n] + GetLen
  <2>1. GetLen \in Nat /\ ends[n] \in Nat /\ received = Consumed + GetLen
    BY <1>2, NextFrame
  <2> QED  BY <1>1, <1>3, <2>1, BufferAssumption
<1>5. /\ n \in 0..FrameCount /\ n < FrameCount /\ n + 1 \in 1..FrameCount
      /\ ends[n + 1] \in Nat
  <2>1. ends[n] < received
    BY <1>1, <1>4
  <2> QED  BY <1>2, <2>1, NextFrame
<1>6. Peek(HeadLen) = [i \in 1..HeadLen |-> ends[n] + i]
  BY <1>2, <1>3, <1>4, PeekStream
<1> HIDE DEF n
<1>7. ASSUME NEW m \in 1..FrameCount, Peek(HeadLen) = [i \in 1..HeadLen |-> ends[m - 1] + i]
      PROVE  m = n + 1
  <2>1. 1 \in 1..HeadLen
    BY <1>4
  <2>2. Peek(HeadLen)[1] = ends[n] + 1 /\ Peek(HeadLen)[1] = ends[m - 1] + 1
    BY <1>6, <1>7, <2>1
  <2>3. m \in 0..FrameCount /\ m > 0 /\ FrameCount \in Nat
    BY BufferAssumption
  <2>4. m - 1 \in 0..FrameCount /\ ends[m - 1] \in Nat
    BY <2>3, FrameFacts
  <2>5. ends[m - 1] = ends[n]
    BY <1>4, <2>2, <2>4
  <2>6. ends \in Streams
    BY DEF TypeOK
  <2>7. ~(m - 1 < n)
    <3> SUFFICES ASSUME m - 1 < n PROVE FALSE
      OBVIOUS
    <3>1. ends[m - 1] < ends[n]
      BY <1>5, <2>4, <2>6, EndsGrow
    <3> QED  BY <1>4, <2>5, <3>1
  <2>8. ~(n < m - 1)
    <3> SUFFICES ASSUME n < m - 1 PROVE FALSE
      OBVIOUS
    <3>1. ends[n] < ends[m - 1]
      BY <1>5, <2>4, <2>6, EndsGrow
    <3> QED  BY <1>4, <2>5, <3>1
  <2> QED  BY <1>5, <2>3, <2>7, <2>8
<1>8. dlen' = ends[n + 1] - ends[n] - HeadLen
  <2> DEFINE of == {m \in 1..FrameCount : Peek(HeadLen) = [i \in 1..HeadLen |-> ends[m - 1] + i]}
  <2>1. (n + 1) - 1 = n
    BY <1>5
  <2>2. n + 1 \in of
    BY <1>5, <1>6, <2>1
  <2>3. \A m \in of : m = n + 1
    BY <1>7
  <2>4. dlen' \in IF of = {} THEN 0..MaxFrame ELSE {ends[m] - ends[m - 1] - HeadLen : m \in of}
    BY <1>1 DEF Lengths
  <2> HIDE DEF of
  <2>5. PICK m \in of : dlen' = ends[m] - ends[m - 1] - HeadLen
    BY <2>2, <2>4
  <2> QED  BY <2>1, <2>3, <2>5
<1>9. AwaitInv'
  BY <1>1, <1>5, <1>8 DEF AwaitInv, n
<1>10. HoldsInv'
  <2>1. Consumed \in Nat /\ Consumed' = Consumed + HeadLen
    BY <1>3, <1>4
  <2> QED  BY <1>1, <1>2, <1>4, <2>1, SkipStream
<1>11. NothingLeftBehind'
  BY <1>1 DEF NothingLeftBehind
<1> QED  BY <1>9, <1>10, <1>11

\* What is emitted is the next frame's body, whole and arrived.
LEMMA EmitsFrame ==
  ASSUME TypeOK, AwaitInv, HoldsInv, EmitBody
  PROVE  /\ Len(delivered) + 1 \in 1..FrameCount /\ ends[Len(delivered) + 1] <= received
         /\ dlen = ends[Len(delivered) + 1] - ends[Len(delivered)] - HeadLen
         /\ dlen \in 0..GetLen
         /\ Consumed \in Nat /\ Consumed + dlen = ends[Len(delivered) + 1]
         /\ delivered' = Append(delivered,
                [i \in 1..dlen |-> ends[Len(delivered)] + HeadLen + i])
<1> DEFINE n == Len(delivered)
<1>1. pc = "body" /\ GetLen >= dlen /\ delivered' = Append(delivered, Peek(dlen))
  BY DEF EmitBody
<1>2. n < FrameCount /\ dlen = ends[n + 1] - ends[n] - HeadLen
  BY <1>1 DEF AwaitInv
<1>3. /\ GetLen \in Nat /\ ends[n] \in Nat /\ ends[n + 1] \in Nat /\ n + 1 \in 1..FrameCount
      /\ HeadLen \in Nat /\ dlen \in Nat /\ received = Consumed + GetLen
  <2>1. HeadLen \in Nat /\ dlen \in Nat
    BY BufferAssumption DEF TypeOK
  <2> QED  BY <1>2, <2>1, NextFrame
<1>4. Consumed = ends[n] + HeadLen
  BY <1>1 DEF Consumed
<1> HIDE DEF n
<1>5. dlen \in 0..GetLen /\ Consumed \in Nat /\ Consumed + dlen = ends[n + 1]
  <2>1. dlen \in 0..GetLen
    BY <1>1, <1>3
  <2> QED  BY <1>2, <1>3, <1>4, <2>1
<1>6. ends[n + 1] <= received
  BY <1>1, <1>3, <1>5
<1>7. Peek(dlen) = [i \in 1..dlen |-> ends[n] + HeadLen + i]
  BY <1>4, <1>5, PeekStream
<1> QED  BY <1>1, <1>2, <1>3, <1>5, <1>6, <1>7 DEF n

\* What is left begins with the frame after the one emitted.  An empty ring, where
\* the put may end, holds no part of it.
LEMMA EmitStream ==
  ASSUME TypeOK, StreamInv, EmitBody
  PROVE  StreamInv'
<1> SUFFICES ASSUME ~overlapped' PROVE AwaitInv' /\ HoldsInv' /\ NothingLeftBehind'
  BY DEF StreamInv
<1> DEFINE n == Len(delivered)
<1>1. /\ pc = "body" /\ Skip(dlen) /\ dlen' = 0
      /\ pc' = "loop" \/ (pc' = "idle" /\ readOffset' = putOffset)
      /\ UNCHANGED <<ends, received, buf, length, putOffset, overlapped>>
  BY DEF EmitBody
<1>2. AwaitInv /\ HoldsInv
  BY <1>1 DEF StreamInv
<1>3. /\ n + 1 \in 1..FrameCount /\ dlen \in 0..GetLen
      /\ Consumed \in Nat /\ Consumed + dlen = ends[n + 1]
  BY <1>2, EmitsFrame
<1>4. Len(delivered') = n + 1
  <2>1. delivered \in Seq(Seq(0..ends[FrameCount]))
    BY DEF TypeOK
  <2> QED  BY <1>2, <2>1, EmitsFrame
<1>5. n \in Nat /\ n + 1 \in 0..FrameCount /\ ends[n + 1] \in Nat /\ FrameCount \in Nat
  <2>1. n \in 0..FrameCount
    BY <1>2, NextFrame
  <2>2. FrameCount \in Nat
    BY BufferAssumption
  <2>3. n + 1 \in 0..FrameCount
    BY <1>3, <2>1, <2>2
  <2> QED  BY <2>1, <2>2, <2>3, FrameFacts
<1>6. Consumed' = Consumed + dlen
  <2>1. Consumed' = ends[n + 1] + 0
    BY <1>1, <1>4 DEF Consumed
  <2> QED  BY <1>3, <1>5, <2>1
<1>7. AwaitInv'
  <2>1. dlen' = 0 /\ pc' # "body"
    BY <1>1
  <2>2. Len(delivered') <= FrameCount
    BY <1>4, <1>5
  <2> QED  BY <2>1, <2>2 DEF AwaitInv
<1>8. HoldsInv'
  BY <1>1, <1>2, <1>3, <1>6, SkipStream
<1>9. NothingLeftBehind'
  <2> SUFFICES ASSUME pc' = "idle", n + 1 # FrameCount
               PROVE  ends[n + 1 + 1] > received
    BY <1>1, <1>4 DEF NothingLeftBehind
  <2>1. GetLen' = 0
    <3>1. readOffset' = putOffset' /\ putOffset \in Nat
      BY <1>1 DEF TypeOK
    <3> QED  BY <1>1, <3>1 DEF GetLen
  <2>2. received = ends[n + 1]
    <3>1. received' = received /\ received \in Nat /\ GetLen' = received' - Consumed'
      BY <1>1, <1>8 DEF HoldsInv, TypeOK
    <3> QED  BY <1>3, <1>5, <1>6, <2>1, <3>1
  <2>3. n + 1 + 1 \in 0..FrameCount /\ n + 1 < n + 1 + 1
    BY <1>5
  <2>4. ends[n + 1] < ends[n + 1 + 1]
    <3>1. ends \in Streams
      BY DEF TypeOK
    <3> QED  BY <1>5, <2>3, <3>1, EndsGrow
  <2>5. ends[n + 1 + 1] \in Nat
    BY <2>3, FrameFacts
  <2> QED  BY <1>5, <2>2, <2>4, <2>5
<1> QED  BY <1>7, <1>8, <1>9

\* A put that ends for want of bytes has too few for the next frame.
LEMMA AwaitStream ==
  ASSUME TypeOK, StreamInv, AwaitHeader \/ AwaitBody
  PROVE  StreamInv'
<1> SUFFICES ASSUME ~overlapped' PROVE AwaitInv' /\ HoldsInv' /\ NothingLeftBehind'
  BY DEF StreamInv
<1> DEFINE n == Len(delivered)
<1>1. /\ pc' = "idle" /\ UNCHANGED <<streamVars, ringVars, dlen, overlapped>>
      /\ (pc = "loop" /\ dlen = 0 /\ GetLen < HeadLen) \/ (pc = "body" /\ GetLen < dlen)
  BY DEF AwaitHeader, AwaitBody
<1>2. AwaitInv /\ HoldsInv
  BY <1>1 DEF StreamInv
<1>3. /\ n \in 0..FrameCount /\ GetLen \in Nat /\ ends[n] \in Nat /\ received = Consumed + GetLen
      /\ HeadLen \in Nat /\ dlen \in Nat
      /\ n < FrameCount =>
            /\ ends[n + 1] \in Nat
            /\ ends[n + 1] >= ends[n] + HeadLen
  BY <1>2, NextFrame, BufferAssumption DEF TypeOK
<1>4. Consumed = ends[n] + (IF dlen # 0 \/ pc = "body" THEN HeadLen ELSE 0)
  BY DEF Consumed
<1>5. dlen # 0 \/ pc = "body" => n < FrameCount /\ dlen = ends[n + 1] - ends[n] - HeadLen
  BY <1>2 DEF AwaitInv
<1>6. dlen # 0 \/ pc # "body"
  BY <1>1, <1>3
<1>7. AwaitInv' /\ HoldsInv'
  <2>1. Consumed' = Consumed
    BY <1>1, <1>6 DEF Consumed, streamVars
  <2>2. GetLen' = GetLen
    BY <1>1 DEF GetLen, ringVars
  <2> QED  BY <1>1, <1>2, <2>1, <2>2 DEF AwaitInv, HoldsInv, streamVars, ringVars
<1>8. NothingLeftBehind'
  <2> SUFFICES ASSUME n # FrameCount PROVE ends[n + 1] > received
    BY <1>1 DEF NothingLeftBehind, streamVars
  <2>1. n < FrameCount
    BY <1>3, BufferAssumption
  <2> HIDE DEF n
  <2>2. CASE pc = "loop" /\ dlen = 0 /\ GetLen < HeadLen
    <3>1. Consumed = ends[n] + 0
      BY <1>4, <2>2
    <3> QED  BY <1>3, <2>1, <2>2, <3>1
  <2>3. CASE pc = "body" /\ GetLen < dlen
    <3>1. Consumed = ends[n] + HeadLen /\ dlen = ends[n + 1] - ends[n] - HeadLen
      BY <1>4, <1>5, <2>3
    <3> QED  BY <1>3, <2>1, <2>3, <3>1
  <2> QED  BY <1>1, <2>2, <2>3
<1> QED  BY <1>7, <1>8

\* Every step keeps the ring and the stream together.
LEMMA StreamStep == BufferInv /\ [Next]_vars => StreamInv'
<1> SUFFICES ASSUME TypeOK, RoomInv, StreamInv, [Next]_vars PROVE StreamInv'
  BY DEF BufferInv
<1>1. ASSUME BreakOff PROVE StreamInv'
  <2>1. /\ pc = "loop" /\ pc' = "idle" /\ UNCHANGED <<streamVars, ringVars, dlen, overlapped>>
        /\ count' > MaxRounds
    BY <1>1, BufferAssumption DEF BreakOff
  <2>2. Consumed' = Consumed /\ GetLen' = GetLen
    BY <2>1 DEF Consumed, GetLen, streamVars, ringVars
  <2>3. NothingLeftBehind'
    <3>1. MaxRounds \in Nat /\ count' \in Nat
      BY <1>1, BufferAssumption DEF BreakOff, TypeOK
    <3> QED  BY <2>1, <3>1 DEF NothingLeftBehind
  <2> QED  BY <2>1, <2>2, <2>3 DEF StreamInv, AwaitInv, HoldsInv, streamVars, ringVars
<1>2. ASSUME KnownHeader PROVE StreamInv'
  <2>1. /\ dlen # 0 /\ pc' = "body" /\ UNCHANGED <<streamVars, ringVars, dlen, overlapped>>
    BY <1>2 DEF KnownHeader
  <2>2. Consumed' = Consumed /\ GetLen' = GetLen
    BY <2>1 DEF Consumed, GetLen, streamVars, ringVars
  <2>3. NothingLeftBehind'
    BY <2>1 DEF NothingLeftBehind
  <2> QED  BY <2>1, <2>2, <2>3 DEF StreamInv, AwaitInv, HoldsInv, streamVars, ringVars
<1>3. CASE UNCHANGED vars
  BY <1>3 DEF vars, StreamInv, AwaitInv, HoldsInv, NothingLeftBehind, Consumed, GetLen,
              streamVars, ringVars
<1> QED  BY <1>1, <1>2, <1>3, PutStream, StoreStream, ReadHeaderStream, EmitStream,
            AwaitStream DEF Next

\* The empty ring a buffer starts with holds what was put and not read: nothing.
LEMMA BufferInit == Init => BufferInv
<1> SUFFICES ASSUME Init PROVE BufferInv
  OBVIOUS
<1>1. /\ HeadLen \in Nat \ {0} /\ FrameCount \in Nat /\ InitialLength \in Nat \ {0}
      /\ MaxFrame \in Nat /\ MaxRounds \in Nat
      /\ ends \in Streams /\ ends \in [0..FrameCount -> Nat] /\ ends[0] = 0
  BY BufferAssumption DEF Init
<1>2. ends[FrameCount] \in Nat
  BY <1>1
<1>3. TypeOK
  BY <1>1, <1>2 DEF Init, TypeOK
<1>4. RoomInv
  BY DEF Init, RoomInv
<1>5. Len(delivered) = 0 /\ GetLen = 0 /\ Consumed = 0 /\ received = 0
  BY <1>1 DEF Init, GetLen, Consumed
<1>6. AwaitInv
  BY <1>1, <1>5 DEF Init, AwaitInv
<1>7. HoldsInv
  BY <1>5 DEF HoldsInv
<1>8. NothingLeftBehind
  <2> SUFFICES ASSUME FrameCount # 0 PROVE ends[1] > 0
    BY <1>5 DEF NothingLeftBehind
  <2>1. 1 \in 0..FrameCount /\ 0 \in 0..FrameCount
    BY <1>1
  <2>2. ends[0] < ends[1]
    BY <1>1, <2>1, EndsGrow
  <2> QED  BY <1>1, <2>1, <2>2
<1> QED  BY <1>3, <1>4, <1>6, <1>7, <1>8 DEF BufferInv, StreamInv

\* Room, ring and stream keep together whatever pieces the stream arrives in.
THEOREM BufferInvAlways == Spec => []BufferInv
<1>1. BufferInv /\ [Next]_vars => BufferInv'
  BY RoomStep, StreamStep DEF BufferInv
<1> QED  BY <1>1, BufferInit, PTL DEF Spec

-------------------------------------------------------------------------------
(* What the buffer promises *)

\* The offsets stay in a buffer of some length, and a body's length within a frame's.
THEOREM BufferTypeCorrect == Spec => []TypeOK
<1>1. BufferInv => TypeOK
  BY DEF BufferInv
<1> QED  BY <1>1, BufferInvAlways, PTL

\* The ring holds exactly the bytes put and not read, in order, through growth,
\* wrap-around and split headers, until a put fills it to the last byte.
THEOREM RingHoldsStreamAlways == Spec => []RingHoldsStream
<1>1. BufferInv => RingHoldsStream
  <2> SUFFICES ASSUME TypeOK, HoldsInv
               PROVE  /\ GetLen = received - Consumed
                      /\ \A i \in 1..GetLen : Peek(GetLen)[i] = Consumed + i
    BY DEF BufferInv, StreamInv, RingHoldsStream
  <2>1. GetLen \in 0..GetLen
    BY GetLenType DEF TypeOK
  <2>2. Peek(GetLen) = [i \in 1..GetLen |-> Consumed + i]
    BY <2>1, PeekStream
  <2> QED  BY <2>2 DEF HoldsInv
<1> QED  BY <1>1, BufferInvAlways, PTL

\* When put returns, every frame that has arrived whole has been emitted.
THEOREM NothingLeftBehindAlways == Spec => []NothingLeftBehind
<1>1. BufferInv => NothingLeftBehind
  <2>1. overlapped => NothingLeftBehind
    BY DEF NothingLeftBehind
  <2> QED  BY <2>1 DEF BufferInv, StreamInv
<1> QED  BY <1>1, BufferInvAlways, PTL

\* Under puts that never fill the buffer to the last byte the "data" events are the
\* frames of the stream, whole, in order and once each.
THEOREM ImplementsFrameStream == SpacedSpec => FrameStreamSpec
<1>1. Init => Stream!Init
  BY DEF Init, Stream!Init
<1>2. BufferInv /\ ~overlapped /\ [Next /\ ~overlapped']_vars => [Stream!Next]_(Stream!streamVars)
  <2> SUFFICES ASSUME TypeOK, RoomInv, AwaitInv, HoldsInv, [Next]_vars
               PROVE  [Stream!Next]_streamVars
    BY DEF BufferInv, StreamInv, streamVars, Stream!streamVars
  <2>1. ASSUME Store PROVE Stream!Arrive
    <3>1. received' \in 0..ends[FrameCount] /\ received' = received + len
      BY <2>1, StoreEffect
    <3>2. len \in Nat /\ received \in Nat /\ ends[FrameCount] \in Nat
      BY FrameFacts, BufferAssumption DEF TypeOK
    <3>3. received' \in received..ends[FrameCount]
      BY <3>1, <3>2
    <3> QED  BY <2>1, <3>3 DEF Store, Stream!Arrive
  <2>2. ASSUME EmitBody PROVE Stream!Deliver
    <3> DEFINE n == Len(delivered) + 1
    <3>1. /\ n \in 1..FrameCount /\ ends[n] <= received
          /\ dlen = ends[n] - ends[Len(delivered)] - HeadLen
          /\ delivered' = Append(delivered,
                [i \in 1..dlen |-> ends[Len(delivered)] + HeadLen + i])
      BY <2>2, EmitsFrame
    <3>2. n - 1 = Len(delivered) /\ n <= FrameCount
      BY <3>1, BufferAssumption DEF TypeOK
    <3>3. delivered' = Append(delivered, Stream!Body(n))
      BY <3>1, <3>2 DEF Stream!Body
    <3>4. UNCHANGED <<ends, received>>
      BY <2>2 DEF EmitBody
    <3> QED  BY <3>1, <3>2, <3>3, <3>4 DEF Stream!Deliver
  <2>3. ASSUME NEW k \in PutLengths, Put(k) PROVE UNCHANGED streamVars
    BY <2>3 DEF Put
  <2>4. ASSUME BreakOff \/ AwaitHeader \/ ReadHeader \/ KnownHeader \/ AwaitBody
        PROVE  UNCHANGED streamVars
    BY <2>4 DEF BreakOff, AwaitHeader, ReadHeader, KnownHeader, AwaitBody
  <2>5. CASE UNCHANGED vars
    BY <2>5 DEF vars
  <2> QED  BY <2>1, <2>2, <2>3, <2>4, <2>5 DEF Next, Stream!Next
<1>3. Init => ~overlapped
  BY DEF Init
<1>4. ~overlapped /\ [Next /\ ~overlapped']_vars => ~overlapped'
  BY DEF vars
<1>5. BufferInv /\ [Next /\ ~overlapped']_vars => BufferInv'
  BY RoomStep, StreamStep DEF BufferInv
<1> QED  BY <1>1, <1>2, <1>3, <1>4, <1>5, BufferInit, PTL
         DEF SpacedSpec, FrameStreamSpec, Stream!Spec
===============================================================================
