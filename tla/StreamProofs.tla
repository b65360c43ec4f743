----------------------------- MODULE StreamProofs -----------------------------
(***************************************************************************)
(* Proofs about BufferStream and MCBuffers: every field that a program     *)
(* writes into a ByteBuffer of bytebuffer.js comes back as it was written, *)
(* whatever is written in front of it, behind it and between, in either    *)
(* order of bytes, and whether the buffer grows, is compacted, copied,     *)
(* marked, reset or filled again.  StreamInv says which bytes lie where;   *)
(* what the methods do to a field is in FieldProofs.                       *)
(***************************************************************************)
EXTENDS FieldProofs, BufferViewsProofs

-------------------------------------------------------------------------------
(* What a program's calls do to the fields in its buffer *)

\* Bytes held one behind another are held together.
LEMMA HoldsJoined ==
    ASSUME NEW B \in Seq(Byte), NEW o \in Nat, NEW c \in Seq(Byte), NEW d \in Seq(Byte),
           Holds(B, o, c), Holds(B, o + Len(c), d)
    PROVE  Holds(B, o, c \o d)
<1> DEFINE m == Len(c)
           n == Len(d)
           N == Len(B)
           x == c \o d
<1>1. m \in Nat /\ n \in Nat /\ N \in Nat
  OBVIOUS
<1>2. Len(x) = m + n /\ \A i \in 1..(m + n) : x[i] = IF i <= m THEN c[i] ELSE d[i - m]
  BY ConcatProperties
<1>3. \A i \in 1..m : B[o + i] = c[i]
  BY DEF Holds
<1>4. o + m + n <= N /\ \A i \in 1..n : B[o + m + i] = d[i]
  BY DEF Holds
<1> HIDE DEF m, n, N, x
<1>5. ASSUME NEW i \in 1..(m + n) PROVE B[o + i] = x[i]
  <2>1. CASE i <= m
    <3>1. i \in 1..m /\ x[i] = c[i]
      BY <1>1, <1>2, <2>1
    <3> QED  BY <1>3, <3>1
  <2>2. CASE ~(i <= m)
    <3> DEFINE j == i - m
    <3>1. j \in 1..n /\ o + m + j = o + i
      BY <1>1, <2>2
    <3>2. x[i] = d[j]
      BY <1>2, <2>2
    <3> HIDE DEF j
    <3> QED  BY <1>4, <3>1, <3>2
  <2> QED  BY <2>1, <2>2
<1>6. o + (m + n) <= N
  BY <1>1, <1>4
<1> QED  BY <1>2, <1>5, <1>6 DEF Holds, N, x

\* Bytes that did not change are held still.
LEMMA HoldsStill ==
    ASSUME NEW B \in Seq(Byte), NEW C \in Seq(Byte), NEW o \in Nat, NEW c \in Seq(Byte),
           Holds(B, o, c), NEW n \in Nat, o + Len(c) <= n, n <= Len(C),
           \A i \in 1..n : C[i] = B[i]
    PROVE  Holds(C, o, c)
<1> DEFINE m == Len(c)
           N == Len(C)
<1>1. m \in Nat /\ N \in Nat /\ o + m <= n /\ n <= N
  OBVIOUS
<1>2. \A i \in 1..m : B[o + i] = c[i]
  BY DEF Holds
<1> HIDE DEF m, N
<1>3. ASSUME NEW i \in 1..m PROVE C[o + i] = c[i]
  <2> DEFINE j == o + i
  <2>1. j \in 1..n
    BY <1>1
  <2>2. B[j] = c[i]
    BY <1>2
  <2> HIDE DEF j
  <2>3. C[j] = c[i]
    BY <2>1, <2>2
  <2> QED  BY <2>3 DEF j
<1>4. o + m <= N
  BY <1>1
<1> QED  BY <1>3, <1>4 DEF Holds, m, N

\* No bytes are held anywhere inside.
LEMMA HoldsNothing ==
    ASSUME NEW B \in Seq(Byte), NEW o \in Nat, o <= Len(B)
    PROVE  Holds(B, o, <<>>)
<1>1. Len(<<>>) = 0 /\ o + 0 <= Len(B)
  OBVIOUS
<1> QED  BY <1>1 DEF Holds

\* A buffer holds all its bytes.
LEMMA HoldsItself ==
    ASSUME NEW B \in Seq(Byte)
    PROVE  Holds(B, 0, B) /\ Slice(B, 0, Len(B)) = B
<1>1. 0 + Len(B) <= Len(B) /\ \A i \in 1..Len(B) : 0 + i = i
  OBVIOUS
<1>2. \A i \in 1..Len(B) : B[0 + i] = B[i]
  BY <1>1
<1>3. Holds(B, 0, B)
  BY <1>1, <1>2 DEF Holds
<1> QED  BY <1>3, SliceHeld

\* The bytes of what is noted are those of the field.
LEMMA FormOfEntry ==
    ASSUME NEW f, NEW e, NEW g, g = [k |-> f.k, v |-> f.v, endian |-> e]
    PROVE  EntryBytes(g) = Form(f, e)
<1>1. g.k = f.k /\ g.v = f.v /\ g.endian = e
  OBVIOUS
<1> QED  BY <1>1 DEF EntryBytes, Form, Long32, Long64

\* A caller's field is noted as an entry.
LEMMA CallersEntry ==
    ASSUME NEW c \in Callers, NEW f \in c.fields, NEW e \in Endians
    PROVE  [k |-> f.k, v |-> f.v, endian |-> e] \in Entries /\ CanHold(f)
<1>1. f \in FieldsWritten
  BY DEF FieldsWritten
<1> QED  BY <1>1, StreamAssumption DEF Entries

\* Bytes put in front of all others, which move behind them.
LEMMA Prepending ==
    ASSUME NEW b \in ByteBuffers, b.mark = None, NEW s, NEW c \in Seq(Byte),
           remaining(s) = Len(c), Window(s) = c, NEW w, w = prepend(b, s, 0)
    PROVE  /\ w \in ByteBuffers
           /\ w.offset = b.offset + Len(c) /\ w.limit = b.limit + Len(c)
           /\ w.mark = None /\ w.endian = b.endian
           /\ Holds(w.bytes, 0, c) /\ Holds(w.bytes, Len(c), b.bytes)
<1> DEFINE n == Len(c)
           N == Len(b.bytes)
           B == b.bytes
           z == Zeros(n) \o B
           o == Overlay(z, 0, c)
<1>1. n \in Nat /\ N \in Nat /\ B \in Seq(Byte) /\ b.offset \in Nat /\ b.limit \in Nat
  BY DEF ByteBuffers
<1>2. CASE n = 0
  <2>1. w = b
    <3>1. remaining(s) <= 0
      BY <1>2
    <3> QED  BY <3>1 DEF prepend
  <2>2. c = <<>>
    BY <1>2
  <2>3. Holds(B, 0, c)
    BY <1>1, <2>2, HoldsNothing
  <2>4. Holds(B, n, B)
    BY <1>1, <1>2, HoldsItself
  <2>5. b.offset + n = b.offset /\ b.limit + n = b.limit
    BY <1>1, <1>2
  <2> QED  BY <2>1, <2>3, <2>4, <2>5
<1>3. CASE n # 0
  <2>1. At(b, 0) = 0 /\ 0 # None /\ n > 0 /\ ~(n <= 0) /\ n - 0 = n /\ 0 + n - n = 0 /\ N - 0 = N
    BY <1>1, <1>3 DEF At, None
  <2>2. Slice(B, 0, N - 0) = B
    BY <1>1, <2>1, HoldsItself
  <2> DEFINE room == [b EXCEPT !.bytes = z, !.offset = @ + n, !.limit = @ + n,
                               !.mark = IF @ >= 0 THEN @ + n ELSE @]
  <2>3. w = [room EXCEPT !.bytes = Overlay(@, 0, c)]
    <3> HIDE DEF n, N, B
    <3>1. remaining(s) = n /\ Window(s) = c /\ b.bytes = B /\ capacity(b) = N
      BY DEF n, N, B, capacity
    <3>2. prepend(b, s, 0) =
             [(IF n - 0 = 0 THEN b
               ELSE [b EXCEPT !.bytes = Zeros(n) \o Slice(@, 0, N - 0), !.offset = @ + (n - 0),
                              !.limit = @ + (n - 0), !.mark = IF @ >= 0 THEN @ + (n - 0) ELSE @])
              EXCEPT !.bytes = Overlay(@, 0 + (n - 0) - n, c)]
      BY <2>1, <3>1 DEF prepend
    <3>3. n - 0 = n /\ 0 + (n - 0) - n = 0 /\ n # 0
      BY <1>1, <2>1
    <3>4. Slice(b.bytes, 0, N - 0) = B
      BY <2>2, <3>1
    <3> QED  BY <3>2, <3>3, <3>4
  <2>4. ~(b.mark >= 0)
    BY DEF None
  <2>5. Zeros(n) \in Seq(Byte) /\ Len(Zeros(n)) = n
    BY <1>1, ZeroBytes
  <2>6. z \in Seq(Byte) /\ Len(z) = n + N /\ \A i \in 1..(n + N) : z[i] = IF i <= n THEN Zeros(n)[i] ELSE B[i - n]
    <3> DEFINE y == Zeros(n)
    <3>1. y \in Seq(Byte) /\ Len(y) = n /\ B \in Seq(Byte)
      BY <1>1, <2>5
    <3> HIDE DEF y
    <3>2. y \o B \in Seq(Byte) /\ Len(y \o B) = Len(y) + Len(B)
          /\ \A i \in 1..(Len(y) + Len(B)) : (y \o B)[i] = IF i <= Len(y) THEN y[i] ELSE B[i - Len(y)]
      BY <3>1, ConcatProperties
    <3> QED  BY <3>1, <3>2 DEF y
  <2> HIDE DEF z
  <2>7. 0 + n <= Len(z) /\ 0 \in Nat
    <3> HIDE DEF n, N
    <3> QED  BY <1>1, <2>6
  <2>8. /\ o \in Seq(Byte) /\ Len(o) = Len(z) /\ Holds(o, 0, c)
    BY <2>6, <2>7, Laying
  <2>9. \A i \in 1..N : o[n + i] = B[i]
    <3> SUFFICES ASSUME NEW i \in 1..N PROVE o[n + i] = B[i]
      OBVIOUS
    <3> DEFINE j == n + i
    <3>1. j \in 1..(n + N) /\ ~(j <= n) /\ j - n = i /\ j - 0 = j
      <4> HIDE DEF n, N
      <4> QED  BY <1>1
    <3>2. DOMAIN z = 1..(n + N) /\ DOMAIN c = 1..n
      BY <2>6
    <3> HIDE DEF j, n, N
    <3>3. j \notin 1..n
      BY <1>1, <3>1
    <3>4. o[j] = z[j]
      BY <3>1, <3>2, <3>3 DEF Overlay
    <3>5. z[j] = B[j - n]
      BY <2>6, <3>1
    <3> QED  BY <3>1, <3>4, <3>5 DEF j
  <2> HIDE DEF o
  <2>10. Holds(o, n, B)
    BY <2>6, <2>8, <2>9 DEF Holds
  <2>11. b.offset + n \in Nat /\ b.limit + n \in Nat
    BY <1>1
  <2> DEFINE p == b.offset + n
             q == b.limit + n
  <2>12. w = [b EXCEPT !.bytes = o, !.offset = p, !.limit = q]
    <3>1. room = [b EXCEPT !.bytes = z, !.offset = p, !.limit = q, !.mark = b.mark]
      BY <2>4
    <3>2. room \in [bytes : Seq(Byte), offset : Nat, limit : Nat, mark : Int, endian : Endians]
      <4> HIDE DEF p, q
      <4>1. p \in Nat /\ q \in Nat
        BY <2>11 DEF p, q
      <4> QED  BY <2>6, <3>1, <4>1 DEF ByteBuffers
    <3> HIDE DEF p, q
    <3>3. Overlay(room.bytes, 0, c) = o
      <4>1. room.bytes = z
        BY <3>1 DEF ByteBuffers
      <4> QED  BY <4>1 DEF o
    <3> QED  BY <2>3, <3>1, <3>3 DEF ByteBuffers
  <2> HIDE DEF p, q
  <2>13. p \in Nat /\ q \in Nat
    BY <2>11 DEF p, q
  <2>14. w \in ByteBuffers /\ w.bytes = o /\ w.offset = p /\ w.limit = q /\ w.mark = b.mark
         /\ w.endian = b.endian
    BY <2>8, <2>12, <2>13 DEF ByteBuffers
  <2> QED  BY <2>8, <2>10, <2>14 DEF p, q
<1> QED  BY <1>2, <1>3
-------------------------------------------------------------------------------
(* The invariant of a program that uses a ByteBuffer *)

\* From `at` to its limit b holds the bytes of the fields l, and nothing else.
HoldsFrom(b, at, l) ==
    /\ at \in Nat /\ at + Len(EncodedFields(l)) = b.limit
    /\ Holds(b.bytes, at, EncodedFields(l))

StreamTypes ==
    /\ caller \in Callers /\ mode \in {"write", "read", "cut"}
    /\ buf \in ByteBuffers /\ buf.offset <= Len(buf.bytes) /\ buf.limit <= Len(buf.bytes)
    /\ pending \in Seq(Entries) /\ Len(pending) <= caller.maxFields
    /\ kept \in Seq(Entries) /\ Len(kept) <= caller.maxFields

\* In front of the offset lie the bytes of the fields; there is no mark.
Writes ==
    /\ Len(EncodedFields(pending)) = buf.offset /\ Holds(buf.bytes, 0, EncodedFields(pending))
    /\ buf.mark = None

\* What is left lies behind the offset, and what was left at the mark behind the mark.
Reads ==
    /\ HoldsFrom(buf, buf.offset, pending)
    /\ buf.mark <= buf.offset
    /\ buf.mark >= 0 => HoldsFrom(buf, buf.mark, kept)

\* There is one field, and some of its bytes are missing.
CutOff == Len(pending) = 1 /\ HasFirst(buf, EncodedFields(pending), Len(buf.bytes))

StreamInv ==
    /\ StreamTypes
    /\ mode = "write" => Writes
    /\ mode = "read" => Reads
    /\ mode = "cut" => CutOff
    /\ last # NoField => last.read = last.wrote.v

\* It holds of a buffer that was just allocated.
LEMMA StreamInitInv == StreamInit => StreamInv
<1> SUFFICES ASSUME StreamInit PROVE StreamInv
  OBVIOUS
<1> DEFINE n == caller.capacity
<1>1. caller \in Callers /\ n \in Nat /\ caller.maxFields \in Nat
  BY StreamAssumption DEF StreamInit
<1>2. Zeros(n) \in Seq(Byte) /\ Len(Zeros(n)) = n
  BY <1>1, ZeroBytes
<1>3. buf = [bytes |-> Zeros(n), offset |-> 0, limit |-> n, mark |-> None, endian |-> "BE"]
  BY DEF StreamInit, allocate
<1> HIDE DEF n
<1>4. buf \in ByteBuffers /\ buf.offset = 0 /\ buf.limit = n /\ buf.mark = None /\ Len(buf.bytes) = n
  BY <1>1, <1>2, <1>3 DEF ByteBuffers, None, Endians
<1>5. buf.bytes \in Seq(Byte)
  BY <1>4 DEF ByteBuffers
<1>6. pending = <<>> /\ kept = <<>> /\ mode = "write" /\ last = NoField
  BY DEF StreamInit
<1>7. StreamTypes
  <2>1. <<>> \in Seq(Entries) /\ Len(<<>>) = 0
    OBVIOUS
  <2> QED  BY <1>1, <1>4, <1>6, <2>1 DEF StreamTypes
<1>8. EncodedFields(pending) = <<>> /\ Len(<<>>) = 0
  BY <1>6, EncodedLast
<1>9. Holds(buf.bytes, 0, <<>>)
  BY <1>1, <1>4, <1>5, HoldsNothing
<1>10. Writes
  BY <1>4, <1>8, <1>9 DEF Writes
<1> QED  BY <1>6, <1>7, <1>10 DEF StreamInv

\* The lists of fields and their bytes.
LEMMA StreamFacts ==
    ASSUME StreamInv
    PROVE  /\ buf.bytes \in Seq(Byte) /\ buf.offset \in Nat /\ buf.limit \in Nat /\ buf.mark \in Int
           /\ buf.endian \in Endians /\ Len(buf.bytes) \in Nat
           /\ EncodedFields(pending) \in Seq(Byte) /\ Len(EncodedFields(pending)) \in Nat
           /\ EncodedFields(kept) \in Seq(Byte) /\ Len(EncodedFields(kept)) \in Nat
           /\ Len(pending) \in Nat
<1>1. buf \in ByteBuffers /\ pending \in Seq(Entries) /\ kept \in Seq(Entries)
  BY DEF StreamInv, StreamTypes
<1>2. EncodedFields(pending) \in Seq(Byte) /\ EncodedFields(kept) \in Seq(Byte)
  BY <1>1, EncodedLast
<1> QED  BY <1>1, <1>2 DEF ByteBuffers

\* Changing the byte order moves nothing.
LEMMA OrderStep ==
    ASSUME StreamInv, Order, caller' = caller
    PROVE  StreamInv'
<1>1. PICK e \in Endians : buf' = [buf EXCEPT !.endian = e]
  BY DEF Order, LE, BE, order, Endians
<1>2. mode = "write" /\ UNCHANGED <<pending, kept, mode>> /\ last' = NoField
  BY DEF Order
<1>3. StreamTypes /\ Writes
  BY <1>2 DEF StreamInv
<1>4. buf' \in ByteBuffers /\ buf'.offset = buf.offset /\ buf'.limit = buf.limit
      /\ buf'.mark = buf.mark /\ buf'.bytes = buf.bytes
  BY <1>1, <1>3 DEF StreamTypes, ByteBuffers
<1>5. StreamTypes'
  BY <1>2, <1>3, <1>4 DEF StreamTypes
<1>6. Writes'
  BY <1>2, <1>3, <1>4 DEF Writes
<1> QED  BY <1>2, <1>5, <1>6 DEF StreamInv

\* A field is written behind the others.
LEMMA WriteStep ==
    ASSUME StreamInv, NEW f \in caller.fields, Write(f), caller' = caller
    PROVE  StreamInv'
<1> DEFINE e == Entry(f)
           c == Form(f, buf.endian)
           p == EncodedFields(pending)
           w == buf'
<1>1. StreamTypes /\ Writes /\ mode = "write"
  BY DEF StreamInv, Write
<1>2. buf \in ByteBuffers /\ buf.offset <= Len(buf.bytes) /\ buf.limit <= Len(buf.bytes)
      /\ caller \in Callers /\ pending \in Seq(Entries) /\ caller.maxFields \in Nat
  BY <1>1, StreamAssumption DEF StreamTypes
<1>3. e \in Entries /\ CanHold(f) /\ EntryBytes(e) = c
  BY <1>2, StreamFacts, CallersEntry, FormOfEntry DEF Entry
<1>4. c \in Seq(Byte) /\ Len(c) \in Nat
  BY <1>3, EntryFacts
<1>5. Wrote(buf, c, w)
  BY <1>2, <1>3, Writing DEF Write
<1>6. EncodedFields(pending') = p \o c
  BY <1>2, <1>3, EncodedLast DEF Write
<1>7. p \in Seq(Byte) /\ Len(p) = buf.offset /\ Holds(buf.bytes, 0, p) /\ buf.mark = None
      /\ buf.bytes \in Seq(Byte) /\ buf.offset \in Nat /\ buf.limit \in Nat /\ Len(buf.bytes) \in Nat
  BY <1>1, StreamFacts DEF Writes
<1>8. w \in ByteBuffers /\ w.bytes \in Seq(Byte) /\ Holds(w.bytes, buf.offset, c)
      /\ Len(buf.bytes) <= Len(w.bytes) /\ Len(w.bytes) \in Nat /\ w.offset = buf.offset + Len(c)
      /\ w.limit = buf.limit /\ w.mark = None /\ \A i \in 1..buf.offset : w.bytes[i] = buf.bytes[i]
  BY <1>5, <1>7 DEF Wrote, ByteBuffers
<1> HIDE DEF e, c, p, w
<1>9. Holds(w.bytes, 0, p \o c)
  <2> DEFINE o == buf.offset
  <2>1. o \in Nat /\ 0 + Len(p) = o /\ o <= Len(w.bytes) /\ 0 + Len(p) <= o /\ 0 \in Nat
    BY <1>2, <1>7, <1>8
  <2>2. \A i \in 1..o : w.bytes[i] = buf.bytes[i]
    BY <1>8
  <2>3. Holds(w.bytes, o, c)
    BY <1>8
  <2> HIDE DEF o
  <2>4. Holds(w.bytes, 0, p)
    BY <1>7, <1>8, <2>1, <2>2, HoldsStill
  <2>5. Holds(w.bytes, 0 + Len(p), c)
    BY <2>1, <2>3
  <2> QED  BY <1>4, <1>7, <1>8, <2>1, <2>4, <2>5, HoldsJoined
<1>10. Len(p \o c) = w.offset /\ w.offset <= Len(w.bytes)
  <2>1. Len(p \o c) = Len(p) + Len(c)
    BY <1>4, <1>7, ConcatProperties
  <2>2. buf.offset + Len(c) <= Len(w.bytes)
    BY <1>8 DEF Holds
  <2> QED  BY <1>7, <1>8, <2>1, <2>2
<1>11. w.limit <= Len(w.bytes)
  BY <1>2, <1>7, <1>8
<1>12. UNCHANGED <<kept, mode>> /\ last' = NoField /\ pending' = Append(pending, e)
  BY DEF Write, e
<1>13. pending' \in Seq(Entries) /\ Len(pending') <= caller.maxFields
  <2>1. Len(pending) < caller.maxFields /\ Len(pending) \in Nat
    BY <1>2 DEF Write
  <2>2. pending' \in Seq(Entries) /\ Len(pending') = Len(pending) + 1
    BY <1>2, <1>3, <1>12
  <2> QED  BY <1>2, <2>1, <2>2
<1>14. StreamTypes'
  BY <1>1, <1>8, <1>10, <1>11, <1>12, <1>13 DEF StreamTypes, w
<1>15. Writes'
  BY <1>6, <1>8, <1>9, <1>10 DEF Writes, w
<1> QED  BY <1>1, <1>12, <1>14, <1>15 DEF StreamInv

\* A field is put in front of the others, which keep their order.
LEMMA WriteInFrontStep ==
    ASSUME StreamInv, NEW f \in caller.fields, WriteInFront(f), caller' = caller
    PROVE  StreamInv'
<1> DEFINE e == Entry(f)
           c == Form(f, buf.endian)
           p == EncodedFields(pending)
           s == flip(WriteField(allocate(1, buf.endian), f))
           w == buf'
<1>1. StreamTypes /\ Writes /\ mode = "write"
  BY DEF StreamInv, WriteInFront
<1>2. buf \in ByteBuffers /\ buf.offset <= Len(buf.bytes) /\ buf.limit <= Len(buf.bytes)
      /\ caller \in Callers /\ pending \in Seq(Entries) /\ caller.maxFields \in Nat
      /\ buf.endian \in Endians
  BY <1>1, StreamAssumption, StreamFacts DEF StreamTypes
<1>3. e \in Entries /\ CanHold(f) /\ EntryBytes(e) = c
  BY <1>2, CallersEntry, FormOfEntry DEF Entry
<1>4. c \in Seq(Byte) /\ Len(c) \in Nat
  BY <1>3, EntryFacts
<1>5. s.offset = 0 /\ s.limit = Len(c) /\ Window(s) = c
  BY <1>2, <1>3, WrittenAlone
<1>6. w = prepend(buf, s, 0) /\ remaining(s) = Len(c)
  <2>1. Len(c) - 0 = Len(c)
    BY <1>4
  <2>2. w = prepend(buf, s, 0)
    BY DEF WriteInFront
  <2> HIDE DEF s, c
  <2> QED  BY <1>5, <2>1, <2>2 DEF remaining
<1> HIDE DEF s
<1>7. EncodedFields(pending') = c \o p
  BY <1>2, <1>3, EncodedFirst DEF WriteInFront
<1>8. p \in Seq(Byte) /\ Len(p) = buf.offset /\ Holds(buf.bytes, 0, p) /\ buf.mark = None
      /\ buf.bytes \in Seq(Byte) /\ buf.offset \in Nat /\ buf.limit \in Nat /\ Len(buf.bytes) \in Nat
  BY <1>1, StreamFacts DEF Writes
<1>12. UNCHANGED <<kept, mode>> /\ last' = NoField /\ pending' = <<e>> \o pending
  BY DEF WriteInFront
<1>13. pending' \in Seq(Entries) /\ Len(pending') <= caller.maxFields
  <2> HIDE DEF e
  <2>1. Len(pending) < caller.maxFields /\ Len(pending) \in Nat
    BY <1>2 DEF WriteInFront
  <2>2. pending' \in Seq(Entries) /\ Len(pending') = Len(pending) + 1
    BY <1>2, <1>3, <1>12
  <2> QED  BY <1>2, <2>1, <2>2
<1> HIDE DEF e, c, p, w
<1>9. /\ w \in ByteBuffers
      /\ w.offset = buf.offset + Len(c) /\ w.limit = buf.limit + Len(c)
      /\ w.mark = None /\ w.endian = buf.endian
      /\ Holds(w.bytes, 0, c) /\ Holds(w.bytes, Len(c), buf.bytes)
  BY <1>2, <1>4, <1>5, <1>6, <1>8, Prepending
<1>10. w.bytes \in Seq(Byte) /\ Len(w.bytes) \in Nat
  BY <1>9 DEF ByteBuffers
<1>11. Holds(w.bytes, 0, c \o p) /\ Len(c \o p) = w.offset
  <2> DEFINE n == Len(c)
             m == Len(p)
             N == Len(buf.bytes)
             B == buf.bytes
  <2>1. n + N <= Len(w.bytes) /\ (\A i \in 1..N : w.bytes[n + i] = B[i])
    BY <1>9 DEF Holds
  <2>2. 0 + m <= N /\ (\A i \in 1..m : B[0 + i] = p[i])
    BY <1>8 DEF Holds
  <2>3. n \in Nat /\ m \in Nat /\ N \in Nat /\ m = buf.offset
    BY <1>4, <1>8
  <2>4. Len(c \o p) = n + m
    BY <1>4, <1>8, ConcatProperties
  <2>5. 0 + n = n
    BY <2>3
  <2> HIDE DEF n, m, N, B
  <2>6. \A i \in 1..m : w.bytes[n + i] = p[i]
    <3>1. \A i \in 1..m : i \in 1..N /\ 0 + i = i
      BY <2>2, <2>3
    <3> QED  BY <2>1, <2>2, <3>1
  <2>7. n + m <= Len(w.bytes)
    BY <1>10, <2>1, <2>2, <2>3
  <2>8. Holds(w.bytes, n, p)
    BY <2>6, <2>7 DEF Holds, m
  <2>9. Holds(w.bytes, 0 + Len(c), p)
    BY <2>5, <2>8 DEF n
  <2>10. Holds(w.bytes, 0, c \o p)
    BY <1>4, <1>8, <1>9, <1>10, <2>9, HoldsJoined
  <2>11. w.offset = m + n
    BY <1>9, <2>3 DEF n
  <2> QED  BY <2>3, <2>4, <2>10, <2>11
<1>14. w.offset <= Len(w.bytes) /\ w.limit <= Len(w.bytes)
  <2> DEFINE n == Len(c)
             N == Len(buf.bytes)
             M == Len(w.bytes)
  <2>1. n + N <= M
    BY <1>9 DEF Holds
  <2>2. n \in Nat /\ N \in Nat /\ M \in Nat /\ w.offset = buf.offset + n /\ w.limit = buf.limit + n
    BY <1>4, <1>8, <1>9, <1>10
  <2>3. buf.offset <= N /\ buf.limit <= N /\ buf.offset \in Nat /\ buf.limit \in Nat
    BY <1>2, <1>8
  <2> HIDE DEF n, N, M
  <2>4. w.offset <= M /\ w.limit <= M
    BY <2>1, <2>2, <2>3
  <2> QED  BY <2>4 DEF M
<1>15. StreamTypes'
  BY <1>1, <1>9, <1>12, <1>13, <1>14 DEF StreamTypes, w
<1>16. Writes'
  BY <1>7, <1>9, <1>11 DEF Writes, w
<1> QED  BY <1>1, <1>12, <1>15, <1>16 DEF StreamInv

\* What was written is what there is to read.
LEMMA FlipStep ==
    ASSUME StreamInv, Flip, caller' = caller
    PROVE  StreamInv'
<1> DEFINE w == buf'
           p == EncodedFields(pending)
           o == buf.offset
<1>1. StreamTypes /\ Writes /\ mode = "write"
  BY DEF StreamInv, Flip
<1>2. mode' = "read" /\ UNCHANGED <<pending, kept>> /\ last' = NoField
  BY DEF Flip
<1>3. o \in Nat /\ buf \in ByteBuffers /\ o <= Len(buf.bytes) /\ Len(p) = o
      /\ Holds(buf.bytes, 0, p) /\ buf.mark = None
  BY <1>1, StreamFacts DEF StreamTypes, Writes
<1>4. w = [buf EXCEPT !.limit = o, !.offset = 0]
  BY DEF Flip, flip
<1> HIDE DEF w, o
<1>5. w \in ByteBuffers /\ w.bytes = buf.bytes /\ w.limit = o /\ w.offset = 0 /\ w.mark = None
  BY <1>3, <1>4 DEF ByteBuffers
<1>6. 0 \in Nat /\ 0 + Len(p) = o /\ None <= 0 /\ ~(None >= 0) /\ 0 <= Len(w.bytes)
  BY <1>3, <1>5 DEF None, ByteBuffers
<1>7. StreamTypes'
  BY <1>1, <1>2, <1>3, <1>5, <1>6 DEF StreamTypes, w
<1>8. Reads'
  BY <1>2, <1>3, <1>5, <1>6 DEF Reads, HoldsFrom, w
<1> QED  BY <1>2, <1>7, <1>8 DEF StreamInv

\* What is received begins as what was sent.
LEMMA ReceiveCutStep ==
    ASSUME StreamInv, ReceiveCut, caller' = caller
    PROVE  StreamInv'
<1> DEFINE w == buf'
           p == EncodedFields(pending)
           o == buf.offset
<1>1. StreamTypes /\ Reads /\ mode = "read" /\ Len(pending) = 1
  BY DEF StreamInv, ReceiveCut
<1>2. mode' = "cut" /\ UNCHANGED <<pending, kept>> /\ last' = NoField
  BY DEF ReceiveCut
<1>3. PICK n \in 0..(remaining(buf) - 1) :
          w = order(wrap(SubSeq(Window(buf), 1, n)), buf.endian)
  BY DEF ReceiveCut
<1>4. /\ o \in Nat /\ buf.limit \in Nat /\ p \in Seq(Byte) /\ Len(p) \in Nat /\ buf.bytes \in Seq(Byte)
      /\ o + Len(p) = buf.limit /\ Holds(buf.bytes, o, p) /\ buf.endian \in Endians
  BY <1>1, StreamFacts DEF Reads, HoldsFrom
<1>5. remaining(buf) = Len(p)
  BY <1>4 DEF remaining
<1>6. n \in Nat /\ n < Len(p) /\ o < buf.limit
  BY <1>3, <1>4, <1>5
<1>7. Window(buf) = p
  BY <1>4, <1>5, <1>6, SliceHeld DEF Window
<1> DEFINE q == SubSeq(p, 1, n)
<1>8. q \in Seq(Byte) /\ Len(q) = n /\ \A i \in 1..n : q[i] = p[i]
  <2> HIDE DEF p
  <2>1. \A i \in 1..n : p[i] \in Byte
    BY <1>4, <1>6
  <2>2. /\ SubSeq(p, 1, n) \in Seq(Byte)
        /\ Len(SubSeq(p, 1, n)) = IF 1 <= n THEN n - 1 + 1 ELSE 0
        /\ \A i \in 1..(n - 1 + 1) : SubSeq(p, 1, n)[i] = p[1 + i - 1]
    BY <1>4, <1>6, <2>1, SubSeqProperties
  <2>3. n - 1 + 1 = n /\ (1 <= n \/ n = 0) /\ \A i \in 1..n : 1 + i - 1 = i
    BY <1>6
  <2> QED  BY <2>2, <2>3
<1> HIDE DEF q
<1>9. w = [[bytes |-> q, offset |-> 0, limit |-> Len(q), mark |-> None, endian |-> "BE"]
           EXCEPT !.endian = buf.endian]
  BY <1>3, <1>7 DEF order, wrap, q
<1> HIDE DEF w
<1>10. w \in ByteBuffers /\ w.bytes = q /\ w.offset = 0 /\ w.limit = n /\ w.endian = buf.endian
  BY <1>4, <1>6, <1>8, <1>9 DEF ByteBuffers, None
<1>11. HasFirst(w, p, n) /\ n = Len(w.bytes)
  BY <1>4, <1>6, <1>8, <1>10 DEF HasFirst
<1>12. CutOff'
  <2>1. EncodedFields(pending)' = p /\ buf' = w
    BY <1>2 DEF w
  <2> HIDE DEF p
  <2>2. HasFirst(buf', p, Len(buf'.bytes))
    BY <1>11, <2>1
  <2>3. Len(pending') = 1 /\ pending' = pending
    BY <1>1, <1>2
  <2> QED  BY <2>1, <2>2, <2>3 DEF CutOff, p
<1>13. StreamTypes'
  <2>1. 0 <= Len(w.bytes) /\ n <= Len(w.bytes)
    BY <1>6, <1>8, <1>10
  <2> QED  BY <1>1, <1>2, <1>10, <2>1 DEF StreamTypes, w
<1> QED  BY <1>2, <1>12, <1>13 DEF StreamInv

\* What is read of a field's bytes is the field, wherever the buffer got them from.
LEMMA NextField ==
    ASSUME StreamInv, mode = "read", pending # <<>>,
           NEW f, f = Head(pending), NEW b, b = order(buf, f.endian)
    PROVE  /\ GivesBack(b, f, EntryBytes(f)) /\ f \in Entries
           /\ Tail(pending) \in Seq(Entries) /\ Len(Tail(pending)) <= caller.maxFields
           /\ LET w == Behind(b, EntryBytes(f))
              IN  /\ w \in ByteBuffers /\ w.bytes = buf.bytes /\ w.limit = buf.limit
                  /\ w.mark = buf.mark /\ buf.offset <= w.offset /\ w.offset <= w.limit
                  /\ HoldsFrom(w, w.offset, Tail(pending))
<1> DEFINE o == buf.offset
           c == EntryBytes(f)
           d == EncodedFields(Tail(pending))
           B == buf.bytes
<1>1. StreamTypes /\ Reads
  BY DEF StreamInv
<1>2. pending \in Seq(Entries) /\ Len(pending) <= caller.maxFields /\ caller.maxFields \in Nat
      /\ buf \in ByteBuffers /\ Len(B) \in Nat /\ buf.limit <= Len(B)
  BY <1>1, StreamAssumption, StreamFacts DEF StreamTypes
<1>3. f \in Entries /\ Tail(pending) \in Seq(Entries) /\ Len(Tail(pending)) = Len(pending) - 1
      /\ EncodedFields(pending) = c \o d
  BY <1>2, EncodedHead
<1>4. CanHold(f) /\ f.endian \in Endians /\ c \in Seq(Byte) /\ d \in Seq(Byte)
  BY <1>3, EntryFacts, EncodedLast
<1>5. o \in Nat /\ buf.limit \in Nat /\ B \in Seq(Byte) /\ o + Len(c \o d) = buf.limit
      /\ Holds(B, o, c \o d)
  BY <1>1, <1>3, StreamFacts DEF Reads, HoldsFrom
<1> HIDE DEF c, d
<1>6. Holds(B, o, c) /\ Holds(B, o + Len(c), d)
  BY <1>4, <1>5, HoldsBoth
<1>7. Len(c) \in Nat /\ Len(d) \in Nat /\ Len(c \o d) = Len(c) + Len(d)
  BY <1>4, ConcatProperties
<1>8. o + Len(c) <= buf.limit /\ (o + Len(c)) + Len(d) = buf.limit /\ o + Len(c) \in Nat
      /\ o <= o + Len(c)
  <2> DEFINE m == Len(c)
             n == Len(d)
             k == Len(c \o d)
  <2>1. m \in Nat /\ n \in Nat /\ k = m + n /\ o + k = buf.limit
    BY <1>5, <1>7
  <2> HIDE DEF m, n, k
  <2>2. o + m <= buf.limit /\ (o + m) + n = buf.limit /\ o + m \in Nat /\ o <= o + m
    BY <1>5, <2>1
  <2> QED  BY <2>2 DEF m, n
<1>9. b = [buf EXCEPT !.endian = f.endian]
  BY DEF order
<1>10. b \in ByteBuffers /\ b.bytes = B /\ b.offset = o /\ b.limit = buf.limit /\ b.mark = buf.mark
       /\ b.endian = f.endian
  BY <1>2, <1>4, <1>9 DEF ByteBuffers
<1>11. Holding(b, Form(f, b.endian)) /\ Form(f, b.endian) = c
  BY <1>2, <1>4, <1>6, <1>8, <1>10 DEF Holding, EntryBytes, c
<1>12. GivesBack(b, f, c)
  BY <1>4, <1>11, ReadingField
<1> DEFINE w == Behind(b, c)
           p == o + Len(c)
<1>13. w = [b EXCEPT !.offset = p] /\ p \in Nat
  BY <1>8, <1>10 DEF Behind
<1> HIDE DEF w
<1>14. w \in ByteBuffers /\ w.bytes = B /\ w.limit = buf.limit /\ w.mark = buf.mark /\ w.offset = p
  <2> HIDE DEF p
  <2> QED  BY <1>10, <1>13 DEF ByteBuffers
<1>15. HoldsFrom(w, w.offset, Tail(pending))
  BY <1>6, <1>8, <1>14 DEF HoldsFrom, d
<1>16. o <= w.offset /\ w.offset <= w.limit
  BY <1>8, <1>14
<1>17. Len(Tail(pending)) <= caller.maxFields
  BY <1>2, <1>3
<1> QED  BY <1>3, <1>12, <1>14, <1>15, <1>16, <1>17 DEF w, c

\* A field is read: the others are left.
LEMMA ReadStep ==
    ASSUME StreamInv, Read, caller' = caller
    PROVE  StreamInv'
<1> DEFINE f == Head(pending)
           b == order(buf, f.endian)
           r == ReadField(b, f)
           w == Behind(b, EntryBytes(f))
<1>1. mode = "read" /\ pending # <<>> /\ buf' = r.b /\ pending' = Tail(pending)
      /\ last' = [wrote |-> f, read |-> r.value] /\ UNCHANGED <<kept, mode>>
  BY DEF Read
<1>2. StreamTypes /\ Reads
  BY <1>1 DEF StreamInv
<1>3. /\ GivesBack(b, f, EntryBytes(f)) /\ Tail(pending) \in Seq(Entries)
      /\ Len(Tail(pending)) <= caller.maxFields
      /\ w \in ByteBuffers /\ w.bytes = buf.bytes /\ w.limit = buf.limit
      /\ w.mark = buf.mark /\ buf.offset <= w.offset /\ w.offset <= w.limit
      /\ HoldsFrom(w, w.offset, Tail(pending))
  BY <1>1, NextField
<1>4. buf' = w /\ r.value = f.v
  BY <1>1, <1>3 DEF GivesBack
<1> HIDE DEF f, b, r, w
<1>5. last'.read = last'.wrote.v
  BY <1>1, <1>4
<1>6. w.offset \in Nat /\ w.limit \in Nat /\ buf.offset \in Nat /\ buf.mark \in Int
      /\ w.limit <= Len(w.bytes) /\ Len(w.bytes) \in Nat
  BY <1>2, <1>3, StreamFacts DEF StreamTypes, ByteBuffers
<1>7. StreamTypes'
  <2>1. w.offset <= Len(w.bytes)
    BY <1>3, <1>6
  <2> QED  BY <1>1, <1>2, <1>3, <1>4, <1>6, <2>1 DEF StreamTypes
<1>8. Reads'
  <2>1. w.mark <= w.offset
    BY <1>2, <1>3, <1>6 DEF Reads
  <2>2. w.mark >= 0 => HoldsFrom(w, w.mark, kept)
    BY <1>2, <1>3 DEF Reads, HoldsFrom
  <2> QED  BY <1>1, <1>3, <1>4, <2>1, <2>2 DEF Reads
<1> QED  BY <1>1, <1>5, <1>7, <1>8 DEF StreamInv

\* What is left when the mark is set is kept.
LEMMA MarkStep ==
    ASSUME StreamInv, Mark, caller' = caller
    PROVE  StreamInv'
<1> DEFINE w == buf'
           o == buf.offset
<1>1. mode = "read" /\ kept' = pending /\ last' = NoField /\ UNCHANGED <<pending, mode>>
  BY DEF Mark
<1>2. StreamTypes /\ Reads
  BY <1>1 DEF StreamInv
<1>3. o \in Nat /\ buf \in ByteBuffers
  BY <1>2, StreamFacts DEF StreamTypes
<1>4. w = [buf EXCEPT !.mark = o]
  BY DEF Mark, mark, At
<1> HIDE DEF w, o
<1>5. w \in ByteBuffers /\ w.bytes = buf.bytes /\ w.offset = o /\ w.limit = buf.limit /\ w.mark = o
  BY <1>3, <1>4 DEF ByteBuffers, o
<1>6. StreamTypes'
  BY <1>1, <1>2, <1>5 DEF StreamTypes, w, o
<1>7. Reads'
  <2>1. HoldsFrom(w, o, pending)
    BY <1>2, <1>5 DEF Reads, HoldsFrom, o
  <2>2. w.mark <= w.offset
    BY <1>3, <1>5
  <2> QED  BY <1>1, <1>5, <2>1, <2>2 DEF Reads, w
<1> QED  BY <1>1, <1>6, <1>7 DEF StreamInv

\* What was kept is left again.
LEMMA ResetStep ==
    ASSUME StreamInv, Reset, caller' = caller
    PROVE  StreamInv'
<1> DEFINE w == buf'
           m == buf.mark
<1>1. mode = "read" /\ m >= 0 /\ pending' = kept /\ kept' = <<>> /\ last' = NoField /\ mode' = mode
  BY DEF Reset
<1>2. StreamTypes /\ Reads
  BY <1>1 DEF StreamInv
<1>3. m \in Nat /\ buf \in ByteBuffers /\ buf.offset \in Nat /\ HoldsFrom(buf, m, kept)
      /\ m <= buf.offset /\ buf.offset <= Len(buf.bytes) /\ Len(buf.bytes) \in Nat
  BY <1>1, <1>2, StreamFacts DEF StreamTypes, Reads
<1>4. w = [buf EXCEPT !.offset = m, !.mark = None]
  BY <1>1 DEF Reset, reset
<1> HIDE DEF w, m
<1>5. w \in ByteBuffers /\ w.bytes = buf.bytes /\ w.offset = m /\ w.limit = buf.limit /\ w.mark = None
  <2>1. None \in Int
    BY DEF None
  <2> QED  BY <1>3, <1>4, <2>1 DEF ByteBuffers
<1>6. StreamTypes'
  <2>1. <<>> \in Seq(Entries) /\ Len(<<>>) = 0 /\ caller.maxFields \in Nat
    BY <1>2, StreamAssumption DEF StreamTypes
  <2>2. w.offset <= Len(w.bytes)
    BY <1>3, <1>5
  <2> QED  BY <1>1, <1>2, <1>5, <2>1, <2>2 DEF StreamTypes, w
<1>7. Reads'
  <2>1. HoldsFrom(w, w.offset, kept)
    BY <1>3, <1>5 DEF HoldsFrom
  <2>2. w.mark <= w.offset /\ ~(w.mark >= 0)
    BY <1>3, <1>5 DEF None
  <2> QED  BY <1>1, <2>1, <2>2 DEF Reads, w
<1> QED  BY <1>1, <1>6, <1>7 DEF StreamInv

\* The buffer is empty again.
LEMMA ClearStep ==
    ASSUME StreamInv, Clear, caller' = caller
    PROVE  StreamInv'
<1> DEFINE w == buf'
           N == Len(buf.bytes)
<1>1. pending = <<>> /\ mode' = "write" /\ kept' = <<>> /\ last' = NoField /\ pending' = pending
  BY DEF Clear
<1>2. StreamTypes
  BY DEF StreamInv
<1>3. N \in Nat /\ buf \in ByteBuffers /\ buf.bytes \in Seq(Byte)
  BY <1>2, StreamFacts DEF StreamTypes
<1>4. w = [buf EXCEPT !.offset = 0, !.limit = N, !.mark = None]
  BY DEF Clear, clear, capacity
<1> HIDE DEF w, N
<1>5. w \in ByteBuffers /\ w.bytes = buf.bytes /\ w.offset = 0 /\ w.limit = N /\ w.mark = None
  <2>1. None \in Int /\ 0 \in Nat
    BY DEF None
  <2> QED  BY <1>3, <1>4, <2>1 DEF ByteBuffers
<1>6. 0 <= N /\ N <= N /\ Len(w.bytes) = N
  BY <1>3, <1>5 DEF N
<1>7. StreamTypes'
  <2>1. <<>> \in Seq(Entries) /\ Len(<<>>) = 0 /\ caller.maxFields \in Nat /\ 0 <= caller.maxFields
    BY <1>2, StreamAssumption DEF StreamTypes
  <2> QED  BY <1>1, <1>2, <1>5, <1>6, <2>1 DEF StreamTypes, w
<1>8. EncodedFields(<<>>) = <<>> /\ Len(<<>>) = 0 /\ Holds(w.bytes, 0, <<>>)
  BY <1>3, <1>5, <1>6, EncodedLast, HoldsNothing
<1>9. Writes'
  BY <1>1, <1>5, <1>8 DEF Writes, w
<1> QED  BY <1>1, <1>7, <1>9 DEF StreamInv

\* Compacting drops what was read; the mark goes along, or in front of the buffer.
LEMMA CompactRestStep ==
    ASSUME StreamInv, CompactRest, caller' = caller
    PROVE  StreamInv'
<1> DEFINE w == buf'
           p == EncodedFields(pending)
           q == EncodedFields(kept)
           o == buf.offset
           m == buf.mark
           B == buf.bytes
           size == buf.limit - o
<1>1. mode = "read" /\ last' = NoField /\ UNCHANGED <<pending, mode>>
      /\ kept' = IF w.mark >= 0 THEN kept ELSE <<>>
  BY DEF CompactRest
<1>2. StreamTypes /\ Reads
  BY <1>1 DEF StreamInv
<1>3. /\ o \in Nat /\ m \in Int /\ B \in Seq(Byte) /\ p \in Seq(Byte) /\ q \in Seq(Byte)
      /\ buf.limit \in Nat /\ Len(p) \in Nat /\ Len(q) \in Nat /\ buf \in ByteBuffers
      /\ o + Len(p) = buf.limit /\ Holds(B, o, p) /\ m <= o
      /\ m >= 0 => m + Len(q) = buf.limit /\ Holds(B, m, q)
  BY <1>2, StreamFacts DEF StreamTypes, Reads, HoldsFrom
<1>4. kept' \in Seq(Entries) /\ Len(kept') <= caller.maxFields
  <2>1. <<>> \in Seq(Entries) /\ Len(<<>>) = 0 /\ caller.maxFields \in Nat /\ 0 <= caller.maxFields
    BY <1>2, StreamAssumption DEF StreamTypes
  <2> QED  BY <1>1, <1>2, <2>1 DEF StreamTypes
<1>5. size = Len(p) /\ size \in Nat
  BY <1>3
<1>6. w = IF o = 0 /\ size = Len(B) THEN buf
          ELSE [buf EXCEPT !.bytes = Slice(B, o, size), !.offset = 0, !.limit = size,
                           !.mark = IF m >= 0 THEN m - o ELSE m]
  BY DEF CompactRest, compact, Begin, End, capacity
<1> HIDE DEF size
<1>7. CASE o = 0 /\ size = Len(B)
  <2>1. w = buf
    BY <1>6, <1>7
  <2> HIDE DEF w
  <2>2. StreamTypes'
    BY <1>1, <1>2, <1>4, <2>1 DEF StreamTypes, w
  <2>3. Reads'
    <3>1. w.mark >= 0 => kept' = kept
      BY <1>1
    <3> QED  BY <1>1, <1>2, <2>1, <3>1 DEF Reads, HoldsFrom, w
  <2> QED  BY <1>1, <2>2, <2>3 DEF StreamInv
<1>8. CASE ~(o = 0 /\ size = Len(B))
  <2> DEFINE mm == IF m >= 0 THEN m - o ELSE m
  <2>1. Slice(B, o, size) = p
    BY <1>3, <1>5, SliceHeld
  <2>2. w = [buf EXCEPT !.bytes = p, !.offset = 0, !.limit = size, !.mark = mm]
    <3> HIDE DEF w, o, B, p, m
    <3> QED  BY <1>6, <1>8, <2>1
  <2>3. mm \in Int /\ mm <= 0 /\ (mm >= 0 => m >= 0 /\ m = o /\ mm = 0)
    <3> HIDE DEF m, o
    <3> QED  BY <1>3
  <2> HIDE DEF mm, w, p
  <2>4. w \in ByteBuffers /\ w.bytes = p /\ w.offset = 0 /\ w.limit = size /\ w.mark = mm
    <3>1. 0 \in Nat
      OBVIOUS
    <3> QED  BY <1>3, <1>5, <2>2, <2>3, <3>1 DEF ByteBuffers
  <2>5. HoldsFrom(w, 0, pending)
    <3>1. Holds(p, 0, p) /\ 0 \in Nat /\ 0 + Len(p) = size
      BY <1>3, <1>5, HoldsItself
    <3> QED  BY <2>4, <3>1 DEF HoldsFrom, p
  <2>6. ASSUME mm >= 0 PROVE HoldsFrom(w, 0, kept) /\ mm = 0
    <3>1. mm = 0 /\ m = o /\ m >= 0
      BY <2>3, <2>6
    <3>2. o + Len(q) = buf.limit /\ Holds(B, o, q)
      BY <1>3, <3>1
    <3>3. Len(q) = Len(p)
      <4> DEFINE x == Len(p)
                 y == Len(q)
      <4>1. o + x = buf.limit /\ o + y = buf.limit /\ x \in Nat /\ y \in Nat
        BY <1>3, <3>2
      <4> HIDE DEF x, y, o
      <4>2. y = x
        BY <1>3, <4>1
      <4> QED  BY <4>2 DEF x, y
    <3>4. Slice(B, o, Len(q)) = q
      BY <1>3, <3>2, SliceHeld
    <3>5. q = p
      BY <1>5, <2>1, <3>3, <3>4
    <3> QED  BY <2>5, <3>1, <3>5 DEF HoldsFrom, p
  <2>7. StreamTypes'
    <3>1. 0 <= Len(w.bytes) /\ w.limit <= Len(w.bytes)
      BY <1>3, <1>5, <2>4
    <3> QED  BY <1>1, <1>2, <1>4, <2>4, <3>1 DEF StreamTypes, w
  <2>8. Reads'
    <3>1. w.mark <= w.offset
      BY <2>3, <2>4
    <3>2. w.mark >= 0 => kept' = kept /\ HoldsFrom(w, w.mark, kept)
      BY <1>1, <2>4, <2>6 DEF w
    <3> QED  BY <1>1, <2>4, <2>5, <3>1, <3>2 DEF Reads, w
  <2> QED  BY <1>1, <2>7, <2>8 DEF StreamInv
<1> QED  BY <1>7, <1>8

\* A copy has what is left, and no mark.
LEMMA CopyStep ==
    ASSUME StreamInv, Copy, caller' = caller
    PROVE  StreamInv'
<1> DEFINE w == buf'
           p == EncodedFields(pending)
           o == buf.offset
           B == buf.bytes
           l == buf.limit
           size == l - o
           a == allocate(size, buf.endian)
<1>1. mode = "read" /\ last' = NoField /\ UNCHANGED <<pending, mode>> /\ kept' = <<>>
  BY DEF Copy
<1>2. StreamTypes /\ Reads
  BY <1>1 DEF StreamInv
<1>3. /\ o \in Nat /\ B \in Seq(Byte) /\ p \in Seq(Byte) /\ buf.endian \in Endians
      /\ l \in Nat /\ Len(p) \in Nat /\ buf \in ByteBuffers
      /\ o + Len(p) = l /\ Holds(B, o, p)
  BY <1>2, StreamFacts DEF StreamTypes, Reads, HoldsFrom
<1>4. size = Len(p) /\ size \in Nat
  BY <1>3
<1>5. w = IF size = 0 THEN a ELSE copyTo(buf, a, 0, o, l).target
  BY DEF Copy, copy, Begin, End
<1> HIDE DEF size
<1>6. Zeros(size) \in Seq(Byte) /\ Len(Zeros(size)) = size
  BY <1>4, ZeroBytes
<1>7. a = [bytes |-> Zeros(size), offset |-> 0, limit |-> size, mark |-> None, endian |-> buf.endian]
  BY DEF allocate
<1> HIDE DEF a
<1>8. a \in ByteBuffers /\ a.bytes = Zeros(size) /\ a.offset = 0 /\ a.limit = size /\ a.mark = None
  BY <1>3, <1>4, <1>6, <1>7 DEF ByteBuffers, None
<1>9. w \in ByteBuffers /\ w.offset = 0 /\ w.limit = size /\ w.mark = None
      /\ Len(w.bytes) = size /\ Holds(w.bytes, 0, p)
  <2>1. CASE size = 0
    <3>1. w = a /\ p = <<>>
      <4>1. w = a
        BY <1>5, <2>1
      <4> HIDE DEF p
      <4>2. p = <<>>
        BY <1>3, <1>4, <2>1, EmptySeq
      <4> QED  BY <4>1, <4>2
    <3>2. Holds(a.bytes, 0, <<>>)
      BY <1>4, <1>6, <1>8, HoldsNothing
    <3> QED  BY <1>6, <1>8, <3>1, <3>2
  <2>2. CASE size # 0
    <3> DEFINE c == Overlay(Zeros(size), 0, p)
    <3>1. o # None /\ l # None /\ 0 # None
      BY <1>3 DEF None
    <3>2. CopyLength(buf, o, l) = size /\ Begin(buf, o) = o /\ At(a, 0) = 0
      BY <3>1 DEF CopyLength, Begin, End, At, size
    <3>3. ensureCapacity(a, 0 + size) = a
      <4>1. 0 + size = size /\ ~(size < size)
        BY <1>4
      <4>2. capacity(a) = size
        BY <1>6, <1>8 DEF capacity
      <4> QED  BY <4>1, <4>2 DEF ensureCapacity
    <3>4. Slice(B, o, size) = p
      BY <1>3, <1>4, SliceHeld
    <3>5. w = [a EXCEPT !.bytes = c]
      <4>1. copyTo(buf, a, 0, o, l).target
              = Moved([ensureCapacity(a, 0 + size) EXCEPT !.bytes = Overlay(@, 0, Slice(B, o, size))], 0, 0 + size)
        BY <2>2, <3>2 DEF copyTo
      <4>2. Moved([a EXCEPT !.bytes = Overlay(@, 0, p)], 0, 0 + size) = [a EXCEPT !.bytes = c]
        BY <1>8, <3>1 DEF Moved
      <4> QED  BY <1>5, <2>2, <3>3, <3>4, <4>1, <4>2
    <3>6. c \in Seq(Byte) /\ Len(c) = size /\ Holds(c, 0, p)
      <4>1. 0 + Len(p) <= Len(Zeros(size)) /\ 0 \in Nat
        BY <1>4, <1>6
      <4> QED  BY <1>3, <1>6, <4>1, Laying
    <3> HIDE DEF c, w
    <3>7. w \in ByteBuffers /\ w.bytes = c /\ w.offset = 0 /\ w.limit = size /\ w.mark = None
      BY <1>8, <3>5, <3>6 DEF ByteBuffers
    <3> QED  BY <3>6, <3>7
  <2> QED  BY <2>1, <2>2
<1>10. StreamTypes'
  <2>1. <<>> \in Seq(Entries) /\ Len(<<>>) = 0 /\ caller.maxFields \in Nat /\ 0 <= caller.maxFields
    BY <1>2, StreamAssumption DEF StreamTypes
  <2>2. w.offset <= Len(w.bytes) /\ w.limit <= Len(w.bytes)
    BY <1>4, <1>9
  <2> HIDE DEF w
  <2> QED  BY <1>1, <1>2, <1>9, <2>1, <2>2 DEF StreamTypes, w
<1>11. Reads'
  <2>1. 0 \in Nat /\ 0 + Len(p) = size
    BY <1>4
  <2> HIDE DEF w, p
  <2>2. HoldsFrom(w, w.offset, pending)
    BY <1>9, <2>1 DEF HoldsFrom, p
  <2>3. w.mark <= w.offset /\ ~(w.mark >= 0)
    BY <1>9 DEF None
  <2> QED  BY <1>1, <2>2, <2>3 DEF Reads, w
<1> QED  BY <1>1, <1>10, <1>11 DEF StreamInv
-------------------------------------------------------------------------------
\* Every call keeps the invariant.
LEMMA StreamStepInv ==
    ASSUME StreamInv, [StreamNext]_streamVars
    PROVE  StreamInv'
<1>1. CASE UNCHANGED streamVars
  BY <1>1 DEF StreamInv, StreamTypes, Writes, Reads, CutOff, HoldsFrom, streamVars
<1>2. CASE StreamNext
  <2>1. caller' = caller
    BY <1>2 DEF StreamNext
  <2>2. ASSUME NEW f \in caller.fields, Write(f) \/ WriteInFront(f) PROVE StreamInv'
    BY <2>1, <2>2, WriteStep, WriteInFrontStep
  <2> QED
    BY <1>2, <2>1, <2>2, OrderStep, FlipStep, ReceiveCutStep, ReadStep, MarkStep, ResetStep,
       CompactRestStep, CopyStep, ClearStep DEF StreamNext
<1> QED  BY <1>1, <1>2

\* So it holds throughout.
LEMMA StreamInvariant == StreamSpec => []StreamInv
<1>1. StreamInv /\ [StreamNext]_streamVars => StreamInv'
  BY StreamStepInv
<1> QED  BY StreamInitInv, <1>1, PTL DEF StreamSpec

\* The buffer's bytes are bytes and its positions lie inside it.
LEMMA StreamTypesHold == StreamInv => StreamTypeOK
<1> SUFFICES ASSUME StreamInv PROVE StreamTypeOK
  OBVIOUS
<1>1. StreamTypes /\ buf.bytes \in Seq(Byte) /\ buf.offset \in Nat /\ buf.limit \in Nat
      /\ buf.endian \in Endians /\ Len(buf.bytes) \in Nat
  BY StreamFacts DEF StreamInv
<1>2. \A i \in DOMAIN buf.bytes : buf.bytes[i] \in Byte
  BY <1>1
<1>3. buf.offset \in 0..capacity(buf) /\ buf.limit \in 0..capacity(buf)
  BY <1>1 DEF StreamTypes, capacity
<1> QED  BY <1>1, <1>2, <1>3 DEF StreamTypes, StreamTypeOK

\* The bytes between two positions are those that are held there.
LEMMA BetweenHeld ==
    ASSUME NEW B \in Seq(Byte), NEW o \in Nat, NEW c \in Seq(Byte), Holds(B, o, c),
           NEW l, l = o + Len(c)
    PROVE  SubSeq(B, o + 1, l) = c
BY SliceHeld DEF Slice

\* The invariant says of the fields what FieldsComeBack does.
LEMMA StreamFieldsComeBack == StreamInv => FieldsComeBack
<1> SUFFICES ASSUME StreamInv PROVE FieldsComeBack
  OBVIOUS
<1> DEFINE p == EncodedFields(pending)
           o == buf.offset
           B == buf.bytes
           f == Head(pending)
           b == order(buf, f.endian)
<1>1. B \in Seq(Byte) /\ o \in Nat /\ buf.limit \in Nat /\ p \in Seq(Byte) /\ Len(p) \in Nat
  BY StreamFacts
<1>2. BufferHoldsFields
  <2>1. ASSUME mode = "write" PROVE SubSeq(B, 1, o) = p
    <3>1. Len(p) = o /\ Holds(B, 0, p)
      BY <2>1 DEF StreamInv, Writes
    <3>2. 0 + 1 = 1 /\ o = 0 + Len(p) /\ 0 \in Nat
      BY <1>1, <3>1
    <3> HIDE DEF p, B, o
    <3> QED  BY <1>1, <3>1, <3>2, BetweenHeld
  <2>2. ASSUME mode = "read" PROVE Window(buf) = p
    <3>1. o + Len(p) = buf.limit /\ Holds(B, o, p)
      BY <2>2 DEF StreamInv, Reads, HoldsFrom
    <3>2. remaining(buf) = Len(p)
      BY <1>1, <3>1 DEF remaining
    <3>3. Slice(B, o, Len(p)) = p
      BY <1>1, <3>1, SliceHeld
    <3>4. CASE o < buf.limit
      BY <3>2, <3>3, <3>4 DEF Window
    <3>5. CASE ~(o < buf.limit)
      <4>1. Window(buf) = <<>>
        BY <3>5 DEF Window
      <4> HIDE DEF p
      <4>2. Len(p) = 0
        BY <1>1, <3>1, <3>5
      <4>3. p = <<>>
        BY <1>1, <4>2, EmptySeq
      <4> QED  BY <4>1, <4>3
    <3> QED  BY <3>4, <3>5
  <2> QED  BY <2>1, <2>2 DEF BufferHoldsFields
<1>3. FieldsSurvive
  BY DEF StreamInv, FieldsSurvive
<1>4. FieldsCanBeRead
  <2>1. ASSUME mode = "read", pending # <<>> PROVE CanReadField(b, f)
    BY <2>1, NextField DEF GivesBack
  <2> QED  BY <2>1 DEF FieldsCanBeRead
<1>5. CutTextIsReported
  <2> SUFFICES ASSUME mode = "cut", f.k \in {"cstring", "istring", "vstring", "utf8", "chars"}
               PROVE  ~CanReadField(b, f)
    BY DEF CutTextIsReported
  <2> DEFINE n == Len(B)
  <2>1. Len(pending) = 1 /\ HasFirst(buf, p, n) /\ pending \in Seq(Entries)
    BY DEF StreamInv, StreamTypes, CutOff
  <2>2. p = EntryBytes(f)
    <3>1. pending # <<>>
      <4>1. Len(<<>>) = 0 /\ Len(pending) = 1
        BY <2>1
      <4> QED  BY <4>1
    <3>2. f \in Entries /\ Tail(pending) \in Seq(Entries) /\ Len(Tail(pending)) = Len(pending) - 1
          /\ p = EntryBytes(f) \o EncodedFields(Tail(pending))
      BY <2>1, <3>1, EncodedHead
    <3>3. Tail(pending) = <<>>
      <4> DEFINE t == Tail(pending)
      <4>1. t \in Seq(Entries) /\ Len(t) = 0
        BY <2>1, <3>2
      <4> HIDE DEF t
      <4>2. t = <<>>
        BY <4>1, EmptySeq
      <4> QED  BY <4>2 DEF t
    <3>4. EntryBytes(f) \in Seq(Byte) /\ EncodedFields(<<>>) = <<>>
      BY <3>2, EntryFacts, EncodedLast
    <3> QED  BY <3>2, <3>3, <3>4, ConcatEmptySeq
  <2>3. f \in Entries
    <3>1. pending \in Seq(Entries) /\ pending # <<>>
      <4>1. Len(<<>>) = 0 /\ Len(pending) = 1
        BY <2>1
      <4>2. pending \in Seq(Entries)
        BY DEF StreamInv, StreamTypes
      <4> QED  BY <4>1, <4>2
    <3> QED  BY <3>1, EncodedHead
  <2>4. CanHold(f) /\ f.endian \in Endians
    BY <2>3, EntryFacts
  <2>5. b = [buf EXCEPT !.endian = f.endian] /\ buf \in ByteBuffers
    BY <2>1 DEF order, HasFirst
  <2> HIDE DEF b, f, n, p
  <2>6. b \in ByteBuffers /\ b.bytes = buf.bytes /\ b.offset = buf.offset /\ b.limit = buf.limit
        /\ b.endian = f.endian
    BY <2>4, <2>5 DEF ByteBuffers
  <2>7. HasFirst(b, p, n)
    BY <2>1, <2>6 DEF HasFirst
  <2>8. HasFirst(b, Form(f, b.endian), n)
    BY <2>2, <2>6, <2>7 DEF EntryBytes
  <2> QED  BY <2>4, <2>8, CutField
<1> QED  BY <1>2, <1>3, <1>4, <1>5 DEF FieldsComeBack

\* And of the mark.
LEMMA StreamMarkStays == StreamInv => MarkStaysPut
<1> SUFFICES ASSUME StreamInv, mode = "read", buf.mark >= 0
             PROVE  SubSeq(buf.bytes, buf.mark + 1, buf.limit) = EncodedFields(kept)
  BY DEF MarkStaysPut
<1>1. HoldsFrom(buf, buf.mark, kept)
  BY DEF StreamInv, Reads
<1>2. buf.mark \in Nat /\ buf.limit = buf.mark + Len(EncodedFields(kept))
      /\ Holds(buf.bytes, buf.mark, EncodedFields(kept))
  BY <1>1 DEF HoldsFrom
<1> DEFINE q == EncodedFields(kept)
           m == buf.mark
           B == buf.bytes
<1>3. B \in Seq(Byte) /\ q \in Seq(Byte)
  BY StreamFacts
<1> HIDE DEF q, m, B
<1>4. Holds(B, m, q) /\ m \in Nat /\ buf.limit = m + Len(q)
  BY <1>2 DEF q, m, B
<1>5. SubSeq(B, m + 1, buf.limit) = q
  BY <1>3, <1>4, BetweenHeld
<1> QED  BY <1>5 DEF q, m, B
-------------------------------------------------------------------------------
(* The theorems *)

\* Whatever a program does with the one buffer it has, the buffer's bytes are bytes and its
\* offset and limit lie inside it (bytebuffer.js).
THEOREM StreamTypeCorrect == StreamSpec => []StreamTypeOK
BY StreamInvariant, StreamTypesHold, PTL

\* The same for its fields: the buffer holds their bytes and no others, each is read as it was
\* written, reading one throws nothing, and a text that was cut is reported.
THEOREM StreamFieldsComeBackAlways == StreamSpec => []FieldsComeBack
BY StreamInvariant, StreamFieldsComeBack, PTL

\* The other uses of buffers leave the program's alone.
LEMMA StreamBesideOthers == Spec => []StreamInv
<1>1. Init => StreamInv
  BY StreamInitInv DEF Init
<1>2. StreamInv /\ [Next]_vars => StreamInv'
  <2>1. [Next]_vars => [StreamNext]_streamVars
    BY DEF Next, NodeStep, WebStep, StreamStep, ViewStep, vars
  <2> QED  BY <2>1, StreamStepInv
<1> QED  BY <1>1, <1>2, PTL DEF Spec

\* And those of the views.
LEMMA ViewsBesideOthers == Spec => []IInv
<1>1. Init => IInv
  BY ViewsInitially DEF Init
<1>2. IInv /\ [Next]_vars => IInv'
  <2>1. [Next]_vars => [ViewsNext]_viewVars
    BY DEF Next, NodeStep, WebStep, StreamStep, ViewStep, vars
  <2> QED  BY <2>1, ViewsStep
<1> QED  BY <1>1, <1>2, PTL DEF Spec

\* Whatever fields are written into a ByteBuffer of bytebuffer.js, behind one another or in
\* front, in whatever order of bytes, and however often the buffer grows, is compacted, copied,
\* reset to its mark or filled again: between writing and reading the buffer holds the bytes of
\* the fields alone, every field that is read is what was written, reading it throws nothing,
\* and a text of which bytes are missing is reported (lines 402-2925).
THEOREM FieldsComeBackAlways == Spec => []FieldsComeBack
BY StreamBesideOthers, StreamFieldsComeBack, PTL

\* A mark stays with the byte it was set on while the buffer is compacted around it: what lies
\* between it and limit are the fields that were left when it was set (mark, reset, compact).
THEOREM MarkStaysPutAlways == Spec => []MarkStaysPut
BY StreamBesideOthers, StreamMarkStays, PTL

\* The variables of all four uses of buffers have their types: lists and messages of both
\* message codecs, the buffer of a program, and the views that share a backing buffer.
THEOREM BuffersTypeCorrect == Spec => []TypeOK
<1>1. BuffersInv /\ StreamInv /\ IInv => TypeOK
  <2>1. BuffersInv /\ use = "node" => Server!TypeOK
    BY ServerTypes DEF BuffersInv
  <2>2. BuffersInv /\ use # "node" => WebTypeOK
    BY WebTypes DEF BuffersInv
  <2>3. IInv => ViewsTypeOK
    BY DEF IInv
  <2> QED  BY <2>1, <2>2, <2>3, StreamTypesHold DEF TypeOK
<1> QED  BY BuffersInvariant, StreamBesideOthers, ViewsBesideOthers, <1>1, PTL
===============================================================================
