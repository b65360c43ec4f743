----------------------------- MODULE MessageProofs -----------------------------
(***************************************************************************)
(* Proofs about the two message codecs, ByteBuffer.js and DataBuffer.js:   *)
(* whatever fields a message has and in whatever order they were put in,   *)
(* each codec reads back what it packed, they read each other's messages,  *)
(* and the header counts the bytes behind it.                              *)
(*                                                                         *)
(* What a loop computes is shown by a recursion over its turns: Counting   *)
(* is the induction, Recursion the existence of the function, and the      *)
(* rest is about one turn of a loop.  A message is Laid if each field's    *)
(* bytes (Code) stand where the fields before it end (Ends); the loops of  *)
(* pack lay it, the loops of reading need no more than that.               *)
(***************************************************************************)
EXTENDS MCBuffers, WellFoundedInduction, FiniteSetTheorems, SequenceTheorems, TLAPS

-------------------------------------------------------------------------------
(* Counting and recursion *)

\* A set that 0 is in, and with a number the next one, has every number.
LEMMA Counting ==
    ASSUME NEW U, 0 \in U, \A n \in Nat : n \in U => n + 1 \in U
    PROVE  Nat \subseteq U
<1> DEFINE R == OpToRel(<, Nat)
           T == Nat \ U
<1>1. IsWellFoundedOn(R, Nat)
  BY NatLessThanWellFounded
<1>2. \A x, y \in Nat : x < y => <<x, y>> \in R
  BY DEF OpToRel
<1> HIDE DEF R
<1>3. SUFFICES ASSUME T # {} PROVE FALSE
  OBVIOUS
<1>4. PICK n \in T : \A m \in T : <<m, n>> \notin R
  BY <1>1, <1>3, WFMin
<1>5. n \in Nat /\ n # 0 /\ n - 1 \in Nat
  OBVIOUS
<1>6. n - 1 \notin T
  <2>1. n - 1 < n
    BY <1>5
  <2>2. <<n - 1, n>> \in R
    BY <1>2, <1>5, <2>1
  <2> QED  BY <1>4, <2>2
<1>7. n - 1 + 1 = n
  BY <1>5
<1> QED  BY <1>5, <1>6, <1>7

\* f starts from base and each value comes from the one before by g.
Computes(f, g, base, n) ==
    f = [k \in 0..n |-> IF k = 0 THEN base ELSE g[<<f[k - 1], k>>]]

\* A recursion over 0..n has a solution in the set its steps stay in.
LEMMA Recursion ==
    ASSUME NEW S, NEW base \in S, NEW n \in Nat, NEW g \in [S \X (1..n) -> S]
    PROVE  \E f \in [0..n -> S] : Computes(f, g, base, n)
<1> DEFINE Solves(f, m) ==
               /\ f \in [0..m -> S]
               /\ f[0] = base
               /\ \A k \in 1..m : f[k] = g[<<f[k - 1], k>>]
           U == {m \in Nat : m <= n => \E f : Solves(f, m)}
<1>1. 0 \in U
  <2> DEFINE f == [k \in 0..0 |-> base]
  <2>1. Solves(f, 0)
    OBVIOUS
  <2> QED  BY <2>1
<1>2. ASSUME NEW m \in Nat, m \in U PROVE m + 1 \in U
  <2>1. SUFFICES ASSUME m + 1 <= n PROVE \E f : Solves(f, m + 1)
    BY <1>2
  <2>2. PICK f : Solves(f, m)
    BY <1>2, <2>1
  <2> DEFINE h == [k \in 0..(m + 1) |-> IF k = m + 1 THEN g[<<f[m], m + 1>>] ELSE f[k]]
  <2>3. m \in 0..m /\ f[m] \in S /\ m + 1 \in 1..n /\ m + 1 # 0
    BY <2>1, <2>2
  <2>4. g[<<f[m], m + 1>>] \in S
    BY <2>3
  <2>5. h \in [0..(m + 1) -> S] /\ h[0] = base
    BY <2>2, <2>3, <2>4
  <2>6. ASSUME NEW k \in 1..(m + 1) PROVE h[k] = g[<<h[k - 1], k>>]
    <3>1. CASE k = m + 1
      <4>1. h[k] = g[<<f[m], m + 1>>] /\ h[k - 1] = f[m]
        BY <2>3, <3>1
      <4> QED  BY <3>1, <4>1
    <3>2. CASE k # m + 1
      <4>1. k \in 1..m /\ h[k] = f[k] /\ h[k - 1] = f[k - 1]
        BY <3>2
      <4> QED  BY <2>2, <4>1
    <3> QED  BY <3>1, <3>2
  <2> HIDE DEF h
  <2>7. Solves(h, m + 1)
    BY <2>5, <2>6
  <2> QED  BY <2>7
<1> HIDE DEF U
<1>3. n \in U
  BY <1>1, <1>2, Counting
<1>4. PICK f : Solves(f, n)
  <2> HIDE DEF Solves
  <2> QED  BY <1>3 DEF U
<1>5. f \in [0..n -> S] /\ f[0] = base /\ \A k \in 1..n : f[k] = g[<<f[k - 1], k>>]
  BY <1>4
<1>6. \A k \in 0..n : f[k] = IF k = 0 THEN base ELSE g[<<f[k - 1], k>>]
  BY <1>5
<1>7. Computes(f, g, base, n)
  BY <1>5, <1>6 DEF Computes
<1> QED  BY <1>5, <1>7

-------------------------------------------------------------------------------
(* Numbers and their digits *)

\* A byte has at least two values.
LEMMA RadixFacts == Radix \in Nat /\ Radix >= 2
BY MessagesAssumption DEF RadixAssumption

\* The powers of Radix.
LEMMA Powers ==
    /\ RadixTo \in [0..8 -> Nat \ {0}]
    /\ RadixTo[0] = 1
    /\ \A n \in 1..8 : RadixTo[n] = Radix * RadixTo[n - 1]
<1> DEFINE S == Nat \ {0}
           g == [q \in S \X (1..8) |-> Radix * q[1]]
           Powers1(f) == [n \in 0..8 |-> IF n = 0 THEN 1 ELSE Radix * f[n - 1]]
<1>1. \A x \in S, i \in 1..8 : Radix * x \in S
  BY RadixFacts
<1>2. g \in [S \X (1..8) -> S] /\ \A x \in S, i \in 1..8 : g[<<x, i>>] = Radix * x
  BY <1>1
<1> HIDE DEF g
<1>3. PICK f \in [0..8 -> S] : Computes(f, g, 1, 8)
  <2>1. 1 \in S /\ 8 \in Nat
    OBVIOUS
  <2> HIDE DEF S
  <2> QED  BY <1>2, <2>1, Recursion
<1>4. \A n \in 0..8 : f[n] = IF n = 0 THEN 1 ELSE g[<<f[n - 1], n>>]
  BY <1>3 DEF Computes
<1>5. ASSUME NEW n \in 1..8 PROVE f[n] = Radix * f[n - 1]
  <2>1. n - 1 \in 0..8 /\ n \in 0..8 /\ n # 0
    OBVIOUS
  <2>2. f[n - 1] \in S
    BY <1>3, <2>1
  <2>3. f[n] = g[<<f[n - 1], n>>]
    BY <1>4, <2>1
  <2> QED  BY <1>2, <2>2, <2>3
<1>6. f = Powers1(f)
  BY <1>4, <1>5
<1>7. RadixTo = CHOOSE h : h = Powers1(h)
  BY DEF RadixTo
<1>8. RadixTo = Powers1(RadixTo)
  <2> HIDE DEF Body
  <2> QED  BY <1>6, <1>7
<1> DEFINE U == {n \in Nat : n <= 8 => RadixTo[n] \in S}
<1> HIDE DEF S
<1>9. RadixTo[0] = 1 /\ \A n \in 1..8 : RadixTo[n] = Radix * RadixTo[n - 1]
  BY <1>8
<1>10. 0 \in U
  BY <1>9 DEF S
<1>11. ASSUME NEW n \in Nat, n \in U PROVE n + 1 \in U
  <2>1. SUFFICES ASSUME n + 1 <= 8 PROVE RadixTo[n + 1] \in S
    OBVIOUS
  <2>2. RadixTo[n] \in S /\ n + 1 \in 1..8
    BY <1>11, <2>1
  <2>3. RadixTo[n + 1] = Radix * RadixTo[n]
    BY <1>9, <2>2
  <2>4. n + 1 \in 1..8
    BY <2>2
  <2> QED  BY <1>1, <2>2, <2>3, <2>4
<1> HIDE DEF U
<1>12. Nat \subseteq U
  BY <1>10, <1>11, Counting
<1>13. \A n \in 0..8 : RadixTo[n] \in S
  BY <1>12 DEF U
<1>14. RadixTo = [n \in 0..8 |-> RadixTo[n]]
  BY <1>8
<1> QED  BY <1>9, <1>13, <1>14 DEF S

\* What stands before a remainder is the quotient.
LEMMA Quotient ==
    ASSUME NEW m \in Nat, m > 0, NEW w \in Int, NEW p \in Int, NEW t \in 0..(m - 1), w = m * p + t
    PROVE  w \div m = p /\ w % m = t
<1> DEFINE q == w \div m
           r == w % m
<1>1. q \in Int /\ r \in 0..(m - 1) /\ w = m * q + r
  OBVIOUS
<1> HIDE DEF q, r
<1>2. q = p
  <2>1. m * q + r = m * p + t
    BY <1>1
  <2>2. ~ (q >= p + 1)
    <3>1. SUFFICES ASSUME q >= p + 1 PROVE FALSE
      OBVIOUS
    <3>2. m * (q - p) >= m
      <4>1. PICK d \in Nat : q - p = d + 1
        <5>1. q - p - 1 \in Nat /\ q - p = (q - p - 1) + 1
          BY <1>1, <3>1
        <5> QED  BY <5>1
      <4>2. m * (d + 1) = m * d + m /\ m * d >= 0 /\ m * d \in Int
        OBVIOUS
      <4> QED  BY <4>1, <4>2
    <3>3. m * (q - p) = m * q - m * p
      BY <1>1
    <3>4. m * q \in Int /\ m * p \in Int
      BY <1>1
    <3> QED  BY <1>1, <2>1, <3>2, <3>3, <3>4
  <2>3. ~ (p >= q + 1)
    <3>1. SUFFICES ASSUME p >= q + 1 PROVE FALSE
      OBVIOUS
    <3>2. m * (p - q) >= m
      <4>1. PICK d \in Nat : p - q = d + 1
        <5>1. p - q - 1 \in Nat /\ p - q = (p - q - 1) + 1
          BY <1>1, <3>1
        <5> QED  BY <5>1
      <4>2. m * (d + 1) = m * d + m /\ m * d >= 0 /\ m * d \in Int
        OBVIOUS
      <4> QED  BY <4>1, <4>2
    <3>3. m * (p - q) = m * p - m * q
      BY <1>1
    <3>4. m * q \in Int /\ m * p \in Int
      BY <1>1
    <3> QED  BY <1>1, <2>1, <3>2, <3>3, <3>4
  <2> QED  BY <1>1, <2>2, <2>3
<1>3. r = t
  BY <1>1, <1>2
<1> QED  BY <1>2, <1>3 DEF q, r

\* Dividing by a product is dividing twice.
LEMMA QuotientOfProduct ==
    ASSUME NEW w \in Nat, NEW a \in Nat, a > 0, NEW b \in Nat, b > 0
    PROVE  w \div (b * a) = (w \div a) \div b
<1> DEFINE q == w \div a
           r == w % a
           p == q \div b
           s == q % b
<1>1. q \in Int /\ r \in 0..(a - 1) /\ w = a * q + r
  OBVIOUS
<1> HIDE DEF q, r
<1>2. p \in Int /\ s \in 0..(b - 1) /\ q = b * p + s
  BY <1>1
<1> HIDE DEF p, s
<1> DEFINE t == a * s + r
           m == b * a
<1>3. m \in Nat /\ m > 0
  BY SMT
<1>4. t \in 0..(m - 1)
  <2>1. PICK c \in Nat : b = s + 1 + c
    <3>1. b - 1 - s \in Nat /\ b = s + 1 + (b - 1 - s)
      BY <1>2
    <3> QED  BY <3>1
  <2>2. m = s * a + a + c * a
    BY <1>2, <2>1
  <2>3. c * a \in Nat /\ s * a \in Nat /\ a * s = s * a
    BY <1>2, <2>1
  <2> HIDE DEF m
  <2> QED  BY <1>1, <1>2, <1>3, <2>2, <2>3
<1>5. w = m * p + t
  <2>1. a * (b * p + s) = (b * a) * p + a * s
    BY <1>2
  <2> QED  BY <1>1, <1>2, <2>1
<1> HIDE DEF t, m
<1>6. w \div m = p
  BY <1>2, <1>3, <1>4, <1>5, Quotient
<1> QED  BY <1>6 DEF m, p, q

\* A number is what its bytes add up to, one after the other.
LEMMA NumberByIndex ==
    ASSUME NEW bytes \in Seq(Nat)
    PROVE  \E h \in [0..Len(bytes) -> Nat] :
              /\ h[0] = 0
              /\ \A k \in 1..Len(bytes) : h[k] = Radix * h[k - 1] + bytes[k]
              /\ Number(bytes) = h[Len(bytes)]
<1> DEFINE n == Len(bytes)
           g == [q \in Nat \X (1..n) |-> Radix * q[1] + bytes[q[2]]]
           Sums(f) == [k \in 0..n |-> IF k = 0 THEN 0 ELSE Radix * f[k - 1] + bytes[k]]
           summed == CHOOSE f : f = Sums(f)
<1>1. n \in Nat /\ \A i \in 1..n : bytes[i] \in Nat
  OBVIOUS
<1>2. Number(bytes) = summed[n]
  BY DEF Number
<1> HIDE DEF n
<1>3. \A x \in Nat, i \in 1..n : Radix * x + bytes[i] \in Nat
  BY <1>1, RadixFacts
<1>4. g \in [Nat \X (1..n) -> Nat] /\ \A x \in Nat, i \in 1..n : g[<<x, i>>] = Radix * x + bytes[i]
  BY <1>3
<1> HIDE DEF g
<1>5. PICK f \in [0..n -> Nat] : Computes(f, g, 0, n)
  BY <1>1, <1>4, Recursion
<1>6. ASSUME NEW k \in 1..n PROVE f[k] = Radix * f[k - 1] + bytes[k]
  <2>1. k - 1 \in 0..n /\ k \in 0..n /\ k # 0
    BY <1>1
  <2>2. f[k - 1] \in Nat
    BY <1>5, <2>1
  <2>3. f[k] = g[<<f[k - 1], k>>]
    BY <1>5, <2>1 DEF Computes
  <2> QED  BY <1>4, <2>2, <2>3
<1>7. f[0] = 0
  BY <1>1, <1>5 DEF Computes
<1>8. f = Sums(f)
  BY <1>5, <1>6, <1>7
<1>9. summed = Sums(summed)
  <2> HIDE DEF Sums
  <2> QED  BY <1>8
<1> HIDE DEF summed
<1>10. summed[0] = 0 /\ \A k \in 1..n : summed[k] = Radix * summed[k - 1] + bytes[k]
  BY <1>1, <1>9
<1> DEFINE U == {k \in Nat : k <= n => summed[k] \in Nat}
<1>11. 0 \in U
  BY <1>10
<1>12. ASSUME NEW k \in Nat, k \in U PROVE k + 1 \in U
  <2>1. SUFFICES ASSUME k + 1 <= n PROVE summed[k + 1] \in Nat
    OBVIOUS
  <2>2. k + 1 \in 1..n /\ summed[k] \in Nat
    BY <1>1, <1>12, <2>1
  <2>3. summed[k + 1] = Radix * summed[k] + bytes[k + 1]
    BY <1>10, <2>2
  <2> QED  BY <1>3, <2>2, <2>3
<1> HIDE DEF U
<1>13. \A k \in 0..n : summed[k] \in Nat
  <2>1. Nat \subseteq U
    BY <1>11, <1>12, Counting
  <2> QED  BY <2>1 DEF U
<1>14. summed \in [0..n -> Nat]
  BY <1>9, <1>13
<1> QED  BY <1>2, <1>10, <1>14 DEF n

\* The digits of a number are bytes.
LEMMA DigitsType ==
    ASSUME NEW v \in Int, NEW n \in 0..8
    PROVE  Digits(v, n) \in Seq(Byte) /\ Len(Digits(v, n)) = n
<1>1. ASSUME NEW i \in 1..n PROVE ((v % RadixTo[n]) \div RadixTo[n - i]) % Radix \in Byte
  <2>1. n \in 0..8 /\ n - i \in 0..8
    OBVIOUS
  <2>2. RadixTo[n] \in Nat \ {0} /\ RadixTo[n - i] \in Nat \ {0}
    BY <2>1, Powers
  <2>3. v % RadixTo[n] \in Nat
    BY <2>2
  <2>4. (v % RadixTo[n]) \div RadixTo[n - i] \in Int
    BY <2>2, <2>3
  <2> QED  BY <2>4, RadixFacts DEF Byte
<1>2. Digits(v, n) \in [1..n -> Byte] /\ n \in Nat
  BY <1>1 DEF Digits
<1> QED  BY <1>2

\* The digits of a number add up to it, modulo what they have room for.
LEMMA NumberOfDigits ==
    ASSUME NEW v \in Int, NEW n \in 0..8
    PROVE  Number(Digits(v, n)) = v % RadixTo[n]
<1> DEFINE w == v % RadixTo[n]
           d == Digits(v, n)
<1>1. d \in Seq(Byte) /\ Len(d) = n /\ n \in Nat
  <2>1. n \in Nat
    OBVIOUS
  <2> QED  BY <2>1, DigitsType
<1>2. d \in Seq(Nat)
  <2>1. \A b \in Byte : b \in Nat
    BY RadixFacts DEF Byte
  <2> QED  BY <1>1, <2>1
<1>3. RadixTo[n] \in Nat \ {0} /\ w \in 0..(RadixTo[n] - 1)
  <2>1. RadixTo[n] \in Nat \ {0}
    BY Powers
  <2> QED  BY <2>1
<1>4. \A i \in 1..n : d[i] = (w \div RadixTo[n - i]) % Radix
  BY DEF Digits
<1> HIDE DEF d, w
<1>5. PICK h \in [0..n -> Nat] : /\ h[0] = 0
                                 /\ \A k \in 1..n : h[k] = Radix * h[k - 1] + d[k]
                                 /\ Number(d) = h[n]
  BY <1>1, <1>2, NumberByIndex
<1> DEFINE U == {k \in Nat : k <= n => h[k] = w \div RadixTo[n - k]}
<1>6. 0 \in U
  <2>1. w = RadixTo[n] * 0 + w /\ w \in Int /\ 0 \in Int
    BY <1>3
  <2>2. w \div RadixTo[n] = 0
    <3> DEFINE m == RadixTo[n]
    <3>1. m \in Nat /\ m > 0 /\ w \in 0..(m - 1) /\ w = m * 0 + w
      BY <1>3, <2>1
    <3> HIDE DEF m
    <3>2. w \div m = 0
      BY <2>1, <3>1, Quotient
    <3> QED  BY <3>2 DEF m
  <2> QED  BY <1>5, <2>2
<1>7. ASSUME NEW k \in Nat, k \in U PROVE k + 1 \in U
  <2>1. SUFFICES ASSUME k + 1 <= n PROVE h[k + 1] = w \div RadixTo[n - (k + 1)]
    OBVIOUS
  <2> DEFINE a == RadixTo[n - (k + 1)]
             q == w \div a
  <2>2. n - (k + 1) \in 0..8 /\ n - k \in 1..8 /\ n - k - 1 = n - (k + 1)
    BY <2>1
  <2>3. a \in Nat /\ a > 0 /\ RadixTo[n - k] = Radix * a
    <3>1. RadixTo[n - (k + 1)] \in Nat \ {0}
      <4>1. n - (k + 1) \in 0..8
        BY <2>2
      <4> QED  BY <4>1, Powers
    <3>2. RadixTo[n - k] = Radix * RadixTo[n - k - 1]
      BY <2>2, Powers
    <3> QED  BY <2>2, <3>1, <3>2
  <2>4. h[k] = w \div (Radix * a)
    BY <1>7, <2>1, <2>3
  <2>5. h[k + 1] = Radix * h[k] + d[k + 1] /\ d[k + 1] = q % Radix
    <3>1. k + 1 \in 1..n
      BY <2>1
    <3>2. h[k + 1] = Radix * h[k + 1 - 1] + d[k + 1] /\ k + 1 - 1 = k
      BY <1>5, <3>1
    <3> QED  BY <1>4, <3>1, <3>2
  <2> HIDE DEF a
  <2>6. w \in Nat /\ q \in Nat
    <3>1. w \in Nat
      BY <1>3
    <3> QED  BY <2>3, <3>1
  <2>7. h[k] = q \div Radix
    BY <2>3, <2>4, <2>6, RadixFacts, QuotientOfProduct
  <2> HIDE DEF q
  <2>8. q = (Radix * (q \div Radix)) + (q % Radix)
    BY <2>6, RadixFacts
  <2>9. h[k + 1] = q
    BY <2>5, <2>7, <2>8
  <2> QED  BY <2>9 DEF q, a
<1> HIDE DEF U
<1>8. n \in U
  BY <1>1, <1>6, <1>7, Counting
<1>9. h[n] = w \div RadixTo[0]
  BY <1>1, <1>8 DEF U
<1>10. h[n] = w
  BY <1>3, <1>9, Powers
<1> QED  BY <1>5, <1>10 DEF d, w

\* The bytes in the other order and back are the same bytes.
LEMMA OrderedTwice ==
    ASSUME NEW T, NEW s \in Seq(T), NEW e
    PROVE  /\ Ordered(s, e) \in Seq(T) /\ Len(Ordered(s, e)) = Len(s)
           /\ Ordered(Ordered(s, e), e) = s
<1>1. CASE e = "BE"
  BY <1>1 DEF Ordered
<1>2. CASE e # "BE"
  <2> DEFINE n == Len(s)
             r == [i \in 1..n |-> s[n - i + 1]]
  <2>1. n \in Nat /\ \A i \in 1..n : s[n - i + 1] \in T
    OBVIOUS
  <2>2. Ordered(s, e) = r
    BY <1>2 DEF Ordered, Reverse
  <2>3. r \in Seq(T) /\ Len(r) = n
    BY <2>1
  <2>4. \A i \in 1..n : r[n - i + 1] = s[i]
    BY <2>1
  <2>5. Ordered(r, e) = [i \in 1..n |-> r[n - i + 1]]
    BY <1>2, <2>3 DEF Ordered, Reverse
  <2> HIDE DEF r
  <2>6. [i \in 1..n |-> r[n - i + 1]] = s
    BY <2>4
  <2> QED  BY <2>2, <2>3, <2>5, <2>6
<1> QED  BY <1>1, <1>2

\* The server's operators on bytes are the browser's.
LEMMA SameBytes ==
    /\ \A v, n : Node!Digits(v, n) = Digits(v, n)
    /\ \A s : Node!Number(s) = Number(s) /\ Node!SignedNumber(s) = SignedNumber(s)
    /\ \A s, e : Node!Ordered(s, e) = Ordered(s, e)
    /\ \A s, at, n : Node!Slice(s, at, n) = Slice(s, at, n)
    /\ \A s, n : Node!Padded(s, n) = Padded(s, n)
    /\ \A s, at, t : Node!Overlay(s, at, t) = Overlay(s, at, t)
<1>1. Node!RadixTo = RadixTo
  BY DEF Node!RadixTo, RadixTo
<1>2. \A v, n : Node!Digits(v, n) = Digits(v, n)
  BY <1>1 DEF Node!Digits, Digits
<1>3. \A s : Node!Number(s) = Number(s)
  BY DEF Node!Number, Number
<1>4. \A s : Node!SignedNumber(s) = SignedNumber(s)
  BY <1>1, <1>3 DEF Node!SignedNumber, SignedNumber
<1>5. \A s, e : Node!Ordered(s, e) = Ordered(s, e)
  BY DEF Node!Ordered, Ordered, Reverse, Node!Reverse
<1>6. \A s, at, n : Node!Slice(s, at, n) = Slice(s, at, n)
  BY DEF Node!Slice, Slice
<1>7. \A s, n : Node!Padded(s, n) = Padded(s, n)
  BY DEF Node!Padded, Padded
<1>8. \A s, at, t : Node!Overlay(s, at, t) = Overlay(s, at, t)
  BY DEF Node!Overlay, Overlay
<1> QED  BY <1>2, <1>3, <1>4, <1>5, <1>6, <1>7, <1>8

-------------------------------------------------------------------------------
(* Texts and where they are cut *)

\* What a byte of a buffer may be; Garbage is a byte that nothing has been written to.
Stored == 0..Radix

\* Every byte begins a character of some length, or none.
LEMMA CharLengths == Byte \subseteq Stored /\ \A c \in Stored : CharLength[c] \in 0..4
BY MessagesAssumption, RadixFacts DEF CharLengthAssumption, Byte, Stored

\* The server's operators on texts are the browser's.
LEMMA SameTexts ==
    /\ \A s : (Node!Cut(s) <=> Cut(s)) /\ (Node!WellFormed(s) <=> WellFormed(s))
    /\ \A s : Node!WholeChars(s) = WholeChars(s)
    /\ \A f : Node!Split(f) <=> Split(f)
    /\ \A s, t : Node!IsPrefix(s, t) <=> IsPrefix(s, t)
<1>1. \A s, i : Node!EndsBehind(s, i) <=> EndsBehind(s, i)
  BY DEF Node!EndsBehind, EndsBehind
<1>2. \A s : Node!Cut(s) <=> Cut(s)
  BY <1>1 DEF Node!Cut, Cut
<1>3. \A s : Node!WellFormed(s) <=> WellFormed(s)
  BY <1>1 DEF Node!WellFormed, WellFormed
<1>4. \A s : Node!CutAt(s) = CutAt(s)
  BY DEF Node!CutAt, CutAt, Node!EndsBehind, EndsBehind
<1>5. \A s : Node!WholeChars(s) = WholeChars(s)
  BY <1>2, <1>4 DEF Node!WholeChars, WholeChars, Node!WholeLength, WholeLength
<1>6. \A f : Node!Split(f) <=> Split(f)
  BY <1>2 DEF Node!Split, Split
<1>7. \A s, t : Node!IsPrefix(s, t) <=> IsPrefix(s, t)
  BY DEF Node!IsPrefix, IsPrefix
<1> QED  BY <1>2, <1>3, <1>5, <1>6, <1>7

\* The first n elements of a sequence.
LEMMA FrontOf ==
    ASSUME NEW T, NEW s \in Seq(T), NEW n \in 0..Len(s)
    PROVE  /\ SubSeq(s, 1, n) \in Seq(T) /\ Len(SubSeq(s, 1, n)) = n
           /\ \A i \in 1..n : SubSeq(s, 1, n)[i] = s[i]
<1>1. n \in Nat /\ 1 \in Int /\ n \in Int /\ \A i \in 1..n : s[i] \in T
  OBVIOUS
<1>2. /\ SubSeq(s, 1, n) \in Seq(T)
      /\ Len(SubSeq(s, 1, n)) = IF 1 <= n THEN n - 1 + 1 ELSE 0
      /\ \A i \in 1..(n - 1 + 1) : SubSeq(s, 1, n)[i] = s[1 + i - 1]
  BY <1>1, SubSeqProperties
<1>3. n - 1 + 1 = n /\ (IF 1 <= n THEN n - 1 + 1 ELSE 0) = n /\ \A i \in 1..n : 1 + i - 1 = i
  BY <1>1
<1> QED  BY <1>2, <1>3

\* What is whole in the first w bytes stays whole, wherever the bytes are cut behind them.
LEMMA KeepsWhole ==
    ASSUME NEW T, T \subseteq Stored, NEW s \in Seq(T), NEW w \in 0..Len(s),
           \A i \in 1..w : i + CharLength[s[i]] - 1 <= w
    PROVE  /\ WholeLength(s) \in w..Len(s)
           /\ WholeChars(s) \in Seq(T) /\ Len(WholeChars(s)) = WholeLength(s)
           /\ \A i \in 1..WholeLength(s) : WholeChars(s)[i] = s[i]
           /\ Cut(s) => CutAt(s) \in (w + 1)..Len(s) /\ EndsBehind(s, CutAt(s))
<1>1. Len(s) \in Nat /\ DOMAIN s = 1..Len(s)
  OBVIOUS
<1>2. ASSUME Cut(s) PROVE CutAt(s) \in (w + 1)..Len(s) /\ EndsBehind(s, CutAt(s))
  <2>1. CutAt(s) \in DOMAIN s /\ EndsBehind(s, CutAt(s))
    BY <1>2 DEF Cut, CutAt
  <2> DEFINE i == CutAt(s)
  <2> HIDE DEF i
  <2>2. i \in 1..Len(s) /\ i + CharLength[s[i]] - 1 > Len(s)
    BY <1>1, <2>1 DEF EndsBehind, i
  <2>3. s[i] \in Stored
    BY <1>1, <2>2
  <2>4. CharLength[s[i]] \in 0..4
    BY <2>3, CharLengths
  <2>5. ~ (i \in 1..w)
    BY <1>1, <2>2, <2>4
  <2> QED  BY <1>1, <2>1, <2>2, <2>5 DEF i
<1>3. WholeLength(s) \in w..Len(s)
  BY <1>1, <1>2 DEF WholeLength
<1>4. WholeLength(s) \in 0..Len(s)
  BY <1>1, <1>3
<1> QED  BY <1>2, <1>3, <1>4, FrontOf DEF WholeChars

\* A text has no cut character.
LEMMA TextsWhole == \A d : WellFormed(d) => ~Cut(d)
BY DEF WellFormed, Cut

\* Of a text that is cut at n the whole characters end where its cut one begins.
LEMMA WholeEnds ==
    ASSUME NEW d \in Seq(Byte), WellFormed(d), NEW n \in 0..Len(d)
    PROVE  /\ WholeLength(SubSeq(d, 1, n)) \in 0..n
           /\ WholeChars(SubSeq(d, 1, n)) \in Seq(Byte)
           /\ Len(WholeChars(SubSeq(d, 1, n))) = WholeLength(SubSeq(d, 1, n))
           /\ \A i \in 1..WholeLength(SubSeq(d, 1, n)) :
                 /\ WholeChars(SubSeq(d, 1, n))[i] = d[i]
                 /\ i + CharLength[d[i]] - 1 <= WholeLength(SubSeq(d, 1, n))
<1> DEFINE x == SubSeq(d, 1, n)
           w == WholeLength(x)
<1>1. n \in Nat /\ n <= Len(d) /\ Len(d) \in Nat /\ DOMAIN d = 1..Len(d)
  OBVIOUS
<1>2. x \in Seq(Byte) /\ Len(x) = n /\ \A i \in 1..n : x[i] = d[i]
  BY FrontOf
<1> HIDE DEF x
<1>3. /\ w \in 0..n /\ WholeChars(x) \in Seq(Byte) /\ Len(WholeChars(x)) = w
      /\ \A i \in 1..w : WholeChars(x)[i] = x[i]
      /\ Cut(x) => CutAt(x) \in 1..n /\ EndsBehind(x, CutAt(x))
  <2>1. 0 \in 0..Len(x) /\ (\A i \in 1..0 : i + CharLength[x[i]] - 1 <= 0) /\ 0 + 1 = 1
    BY <1>1, <1>2
  <2> QED  BY <1>2, <2>1, CharLengths, KeepsWhole
<1>4. DOMAIN x = 1..n
  BY <1>2
<1>5. ASSUME NEW i \in 1..w PROVE i + CharLength[d[i]] - 1 <= w
  <2>1. i \in 1..n /\ i \in 1..Len(d) /\ x[i] = d[i] /\ w \in Nat
    BY <1>1, <1>2, <1>3
  <2>2. CharLength[d[i]] \in 0..4
    <3>1. d[i] \in Byte
      BY <2>1
    <3> QED  BY <3>1, CharLengths
  <2>3. CASE ~Cut(x)
    <3>1. w = n
      BY <1>2, <2>3 DEF WholeLength
    <3>2. ~EndsBehind(x, i)
      BY <1>4, <2>1, <2>3 DEF Cut
    <3>3. ~ (i + CharLength[d[i]] - 1 > n)
      BY <1>2, <2>1, <3>2 DEF EndsBehind
    <3> HIDE DEF w
    <3> QED  BY <1>1, <2>1, <2>2, <3>1, <3>3
  <2>4. CASE Cut(x)
    <3> DEFINE c == CutAt(x)
    <3>1. c \in 1..n /\ EndsBehind(x, c) /\ w = c - 1
      BY <1>3, <2>4 DEF WholeLength
    <3> HIDE DEF c, w
    <3>2. c + CharLength[d[c]] - 1 > n /\ c \in 1..Len(d)
      BY <1>1, <1>2, <3>1 DEF EndsBehind
    <3>3. CharLength[d[c]] # 0
      <4>1. CharLength[d[c]] \in 0..4
        <5>1. d[c] \in Byte
          BY <3>2
        <5> QED  BY <5>1, CharLengths
      <4> QED  BY <1>1, <3>1, <3>2, <4>1
    <3>4. \A j \in (i + 1)..(i + CharLength[d[i]] - 1) : CharLength[d[j]] = 0
      BY <1>1, <2>1 DEF WellFormed
    <3>5. ~ (c \in (i + 1)..(i + CharLength[d[i]] - 1))
      BY <3>3, <3>4
    <3>6. i + CharLength[d[i]] - 1 <= c - 1
      <4> DEFINE z == CharLength[d[i]]
      <4>1. z \in 0..4 /\ ~ (c \in (i + 1)..(i + z - 1))
        BY <2>2, <3>5
      <4> HIDE DEF z
      <4>2. i + z - 1 <= c - 1
        BY <1>1, <2>1, <3>1, <4>1
      <4> QED  BY <4>2 DEF z
    <3> QED  BY <3>1, <3>6
  <2> QED  BY <2>3, <2>4
<1>6. \A i \in 1..w : WholeChars(x)[i] = d[i]
  BY <1>1, <1>2, <1>3
<1> QED  BY <1>3, <1>5, <1>6 DEF x, w

-------------------------------------------------------------------------------
(* The kinds of field *)

\* The bytes of a field in its place: a string of fixed length is cut or filled up; of a text
\* cut inside a character they are those of the whole ones, and what is behind them is not known.
Code(f, e) ==
    IF Split(f) THEN WholeChars(SubSeq(f.d, 1, f.len))
    ELSE IF f.t = "vstring" THEN Padded(f.d, f.len)
    ELSE Encoded(f, e)

\* What the reader of a field gets that ends with a character.
Value(f) == IF f.t \in NumberTypes THEN Wrapped(f) ELSE Node!Expected(f)

\* The bytes c are in B from the offset o on.
Holds(B, o, c) == o + Len(c) <= Len(B) /\ \A i \in 1..Len(c) : B[o + i] = c[i]

\* A reader at o of the bytes B that has read the values vs.
Reader(B, o, vs) == [bytes |-> B, offset |-> o, values |-> vs]

\* The server's methods for a field are the browser's, but for those of texts and byte arrays.
LEMMA SameReads ==
    /\ \A r, n, v : Node!Took(r, n, v) = Took(r, n, v)
    /\ \A r, n, e : Node!read(r, n, e) = read(r, n, e)
    /\ \A r, t, e : t \in NumberTypes => Node!getNumber(r, t, e) = getNumber(r, t, e)
    /\ \A r, e : Node!getDouble(r, e) = getDouble(r, e) /\ Node!getFloat(r, e) = getFloat(r, e)
    /\ \A r : Node!getBuffer(r) = getBuffer(r)
<1>0. \A r, n, v : Node!Took(r, n, v) = Took(r, n, v)
  BY DEF Node!Took, Took
<1>1. \A r, n, e : Node!read(r, n, e) = read(r, n, e)
  BY SameBytes DEF Node!read, read
<1>2. \A r, t, e : t \in NumberTypes => Node!getNumber(r, t, e) = getNumber(r, t, e)
  BY SameBytes, <1>0, <1>1 DEF Node!getNumber, getNumber, Node!Width, Width
<1>3. \A r, e : Node!getDouble(r, e) = getDouble(r, e)
  BY <1>0, <1>1 DEF Node!getDouble, getDouble
<1>4. \A r, e : Node!getFloat(r, e) = getFloat(r, e)
  BY <1>0, <1>1 DEF Node!getFloat, getFloat
<1>5. \A r : Node!getBuffer(r) = getBuffer(r)
  BY SameBytes, <1>0 DEF Node!getBuffer, getBuffer
<1> QED  BY <1>0, <1>1, <1>2, <1>3, <1>4, <1>5

\* A number.
LEMMA NumberKind ==
    ASSUME NEW f, f.t \in NumberTypes
    PROVE  /\ Width[f.t] \in {1, 2, 4}
           /\ FieldLength(f) = Width[f.t] /\ Node!FieldLength(f) = Width[f.t]
           /\ Value(f) = Wrapped(f) /\ Node!Expected(f) = f.d
           /\ ~Split(f)
           /\ \A e : Encoded(f, e) = Ordered(Digits(f.d, Width[f.t]), e) /\ Code(f, e) = Encoded(f, e)
           /\ \A e, room : Node!Encoded(f, e, room) = Encoded(f, e)
           /\ \A r, e : get(r, f, e) = getNumber(r, f.t, e) /\ Node!get(r, f, e) = get(r, f, e)
<1>1. f.t \in {"byte", "short", "ushort", "int32", "uint32"} /\ f.t \in Node!NumberTypes
  BY DEF NumberTypes, Width, Node!NumberTypes, Node!Width
<1>2. Width[f.t] \in {1, 2, 4}
  BY <1>1 DEF Width
<1>3. FieldLength(f) = Width[f.t]
  BY <1>1 DEF FieldLength
<1>4. Node!FieldLength(f) = Width[f.t]
  BY <1>1 DEF Node!FieldLength, Node!Width, Width
<1>5. Value(f) = Wrapped(f) /\ Node!Expected(f) = f.d
  BY <1>1 DEF Value, Node!Expected
<1>6. \A e : Encoded(f, e) = Ordered(Digits(f.d, Width[f.t]), e)
  BY <1>1 DEF Encoded
<1>7. \A e, room : Node!Encoded(f, e, room) = Encoded(f, e)
  <2>1. \A e, room : Node!Encoded(f, e, room) = Node!Ordered(Node!Digits(f.d, Node!Width[f.t]), e)
    BY <1>1 DEF Node!Encoded
  <2>2. Node!Width = Width
    BY DEF Node!Width, Width
  <2> QED  BY <1>6, <2>1, <2>2, SameBytes
<1>8. ~Split(f) /\ \A e : Code(f, e) = Encoded(f, e)
  BY <1>1 DEF Code, Split
<1>9. \A r, e : get(r, f, e) = getNumber(r, f.t, e)
  BY <1>1 DEF get
<1>10. \A r, e : Node!get(r, f, e) = getNumber(r, f.t, e)
  BY <1>1, SameReads DEF Node!get
<1> QED  BY <1>2, <1>3, <1>4, <1>5, <1>6, <1>7, <1>8, <1>9, <1>10

\* Eight bytes as they are.
LEMMA DoubleKind ==
    ASSUME NEW f, f.t = "double"
    PROVE  /\ FieldLength(f) = 8 /\ Node!FieldLength(f) = 8
           /\ Value(f) = f.d /\ Node!Expected(f) = f.d
           /\ ~Split(f)
           /\ \A e : Encoded(f, e) = Ordered(f.d, e) /\ Code(f, e) = Encoded(f, e)
           /\ \A e, room : Node!Encoded(f, e, room) = Encoded(f, e)
           /\ \A r, e : get(r, f, e) = getDouble(r, e) /\ Node!get(r, f, e) = get(r, f, e)
<1>1. f.t \notin NumberTypes /\ f.t \notin Node!NumberTypes /\ f.t # "vstring" /\ f.t # "byteArray"
  BY DEF NumberTypes, Width, Node!NumberTypes, Node!Width
<1>2. FieldLength(f) = 8 /\ Node!FieldLength(f) = 8
  BY <1>1 DEF FieldLength, Node!FieldLength
<1>3. Value(f) = f.d /\ Node!Expected(f) = f.d
  BY <1>1 DEF Value, Node!Expected
<1>4. \A e, room : Encoded(f, e) = Ordered(f.d, e) /\ Node!Encoded(f, e, room) = Ordered(f.d, e)
  BY <1>1, SameBytes DEF Encoded, Node!Encoded
<1>5. ~Split(f) /\ \A e : Code(f, e) = Encoded(f, e)
  BY <1>1 DEF Code, Split
<1>6. \A r, e : get(r, f, e) = getDouble(r, e) /\ Node!get(r, f, e) = getDouble(r, e)
  BY <1>1, SameReads DEF get, Node!get
<1> QED  BY <1>2, <1>3, <1>4, <1>5, <1>6

\* The four bytes of a single.
LEMMA FloatKind ==
    ASSUME NEW f, f.t = "float"
    PROVE  /\ FieldLength(f) = 4 /\ Node!FieldLength(f) = 4
           /\ Value(f) = SingleOf[f.d] /\ Node!Expected(f) = SingleOf[f.d]
           /\ ~Split(f)
           /\ \A e : Encoded(f, e) = Ordered(SingleOf[f.d], e) /\ Code(f, e) = Encoded(f, e)
           /\ \A e, room : Node!Encoded(f, e, room) = Encoded(f, e)
           /\ \A r, e : get(r, f, e) = getFloat(r, e) /\ Node!get(r, f, e) = get(r, f, e)
<1>1. f.t \notin NumberTypes /\ f.t \notin Node!NumberTypes /\ f.t # "vstring" /\ f.t # "byteArray"
  BY DEF NumberTypes, Width, Node!NumberTypes, Node!Width
<1>2. FieldLength(f) = 4 /\ Node!FieldLength(f) = 4
  BY <1>1 DEF FieldLength, Node!FieldLength
<1>3. Value(f) = SingleOf[f.d] /\ Node!Expected(f) = SingleOf[f.d]
  BY <1>1 DEF Value, Node!Expected
<1>4. \A e, room : Encoded(f, e) = Ordered(SingleOf[f.d], e)
                   /\ Node!Encoded(f, e, room) = Ordered(SingleOf[f.d], e)
  BY <1>1, SameBytes DEF Encoded, Node!Encoded
<1>5. ~Split(f) /\ \A e : Code(f, e) = Encoded(f, e)
  BY <1>1 DEF Code, Split
<1>6. \A r, e : get(r, f, e) = getFloat(r, e) /\ Node!get(r, f, e) = getFloat(r, e)
  BY <1>1, SameReads DEF get, Node!get
<1> QED  BY <1>2, <1>3, <1>4, <1>5, <1>6

\* A string behind its length.
LEMMA StringKind ==
    ASSUME NEW f, f.t = "string"
    PROVE  /\ FieldLength(f) = Len(f.d) + 2 /\ Node!FieldLength(f) = Len(f.d) + 2
           /\ Value(f) = f.d /\ Node!Expected(f) = f.d
           /\ ~Split(f)
           /\ \A e : Encoded(f, e) = Ordered(Digits(Len(f.d), 2), e) \o f.d /\ Code(f, e) = Encoded(f, e)
           /\ \A e, room : Node!Encoded(f, e, room) = Encoded(f, e)
           /\ \A r, e : get(r, f, e) = getString(r, e) /\ Node!get(r, f, e) = Node!getString(r, e)
<1>1. f.t \notin NumberTypes /\ f.t \notin Node!NumberTypes /\ f.t # "vstring" /\ f.t # "byteArray"
  BY DEF NumberTypes, Width, Node!NumberTypes, Node!Width
<1>2. FieldLength(f) = Len(f.d) + 2 /\ Node!FieldLength(f) = Len(f.d) + 2
  BY <1>1 DEF FieldLength, Node!FieldLength
<1>3. Value(f) = f.d /\ Node!Expected(f) = f.d
  BY <1>1 DEF Value, Node!Expected
<1>4. \A e : Encoded(f, e) = Ordered(Digits(Len(f.d), 2), e) \o f.d
  BY <1>1 DEF Encoded
<1>5. \A e, room : Node!Encoded(f, e, room) = Node!Ordered(Node!Digits(Len(f.d), 2), e) \o f.d
  BY <1>1 DEF Node!Encoded
<1>6. ~Split(f) /\ \A e : Code(f, e) = Encoded(f, e)
  BY <1>1 DEF Code, Split
<1>7. \A r, e : get(r, f, e) = getString(r, e) /\ Node!get(r, f, e) = Node!getString(r, e)
  BY <1>1 DEF get, Node!get
<1> QED  BY <1>2, <1>3, <1>4, <1>5, <1>6, <1>7, SameBytes

\* A string of fixed length.
LEMMA VStringKind ==
    ASSUME NEW f, f.t = "vstring"
    PROVE  /\ FieldLength(f) = f.len /\ Node!FieldLength(f) = f.len
           /\ Value(f) = IF Len(f.d) > f.len THEN SubSeq(f.d, 1, f.len) ELSE f.d
           /\ Value(f) = Node!Expected(f)
           /\ \A e : /\ Encoded(f, e) = IF Len(f.d) < f.len THEN Padded(f.d, f.len) ELSE f.d
                     /\ Code(f, e) = IF Split(f) THEN WholeChars(SubSeq(f.d, 1, f.len))
                                     ELSE Padded(f.d, f.len)
           /\ \A e, room : Node!Encoded(f, e, room)
                              = Node!Fitting(f.d, room) \o [i \in 1..(f.len - Len(f.d)) |-> 0]
           /\ \A r, e : /\ get(r, f, e) = getVString(r, f.len)
                        /\ Node!get(r, f, e) = Node!getVString(r, f.len)
<1>1. f.t \notin NumberTypes /\ f.t \notin Node!NumberTypes /\ f.t # "string" /\ f.t # "byteArray"
      /\ f.t # "double" /\ f.t # "float" /\ f.t # "buffer"
  BY DEF NumberTypes, Width, Node!NumberTypes, Node!Width
<1>2. FieldLength(f) = f.len /\ Node!FieldLength(f) = f.len
  BY <1>1 DEF FieldLength, Node!FieldLength
<1>3. Value(f) = Node!Expected(f)
      /\ Node!Expected(f) = IF Len(f.d) > f.len THEN SubSeq(f.d, 1, f.len) ELSE f.d
  BY <1>1 DEF Value, Node!Expected
<1>4. \A e : Encoded(f, e) = IF Len(f.d) < f.len THEN Padded(f.d, f.len) ELSE f.d
  BY <1>1 DEF Encoded
<1>5. \A e, room : Node!Encoded(f, e, room)
                      = Node!Fitting(f.d, room) \o [i \in 1..(f.len - Len(f.d)) |-> 0]
  BY <1>1 DEF Node!Encoded
<1>6. \A e : Code(f, e) = IF Split(f) THEN WholeChars(SubSeq(f.d, 1, f.len))
                          ELSE Padded(f.d, f.len)
  BY DEF Code
<1>7. \A r, e : get(r, f, e) = getVString(r, f.len) /\ Node!get(r, f, e) = Node!getVString(r, f.len)
  BY <1>1 DEF get, Node!get
<1> QED  BY <1>2, <1>3, <1>4, <1>5, <1>6, <1>7

\* A byte array of fixed length.
LEMMA ByteArrayKind ==
    ASSUME NEW f, f.t = "byteArray"
    PROVE  /\ FieldLength(f) = f.len /\ Node!FieldLength(f) = f.len
           /\ Value(f) = Padded(f.d, f.len) /\ Node!Expected(f) = Value(f)
           /\ ~Split(f)
           /\ \A e : Encoded(f, e) = Padded(f.d, f.len) /\ Code(f, e) = Encoded(f, e)
           /\ \A e, room : Node!Encoded(f, e, room) = Encoded(f, e)
           /\ \A r, e : /\ get(r, f, e) = getByteArray(r, f.len)
                        /\ Node!get(r, f, e) = Node!getByteArray(r, f.len)
<1>1. f.t \notin NumberTypes /\ f.t \notin Node!NumberTypes /\ f.t # "string" /\ f.t # "vstring"
      /\ f.t # "double" /\ f.t # "float" /\ f.t # "buffer"
  BY DEF NumberTypes, Width, Node!NumberTypes, Node!Width
<1>2. FieldLength(f) = f.len /\ Node!FieldLength(f) = f.len
  BY <1>1 DEF FieldLength, Node!FieldLength
<1>3. Value(f) = Node!Expected(f) /\ Node!Expected(f) = Node!Padded(f.d, f.len)
  BY <1>1 DEF Value, Node!Expected
<1>4. \A e, room : /\ Encoded(f, e) = Padded(f.d, f.len)
                   /\ Node!Encoded(f, e, room) = Node!Padded(f.d, f.len)
  BY <1>1 DEF Encoded, Node!Encoded
<1>5. ~Split(f) /\ \A e : Code(f, e) = Encoded(f, e)
  BY <1>1 DEF Code, Split
<1>6. \A r, e : get(r, f, e) = getByteArray(r, f.len) /\ Node!get(r, f, e) = Node!getByteArray(r, f.len)
  BY <1>1 DEF get, Node!get
<1> QED  BY <1>2, <1>3, <1>4, <1>5, <1>6, SameBytes

\* A buffer, to the end of the message.
LEMMA BufferKind ==
    ASSUME NEW f, f.t = "buffer"
    PROVE  /\ FieldLength(f) = Len(f.d) /\ Node!FieldLength(f) = Len(f.d)
           /\ Value(f) = f.d /\ Node!Expected(f) = f.d
           /\ ~Split(f)
           /\ \A e : Encoded(f, e) = f.d /\ Code(f, e) = Encoded(f, e)
           /\ \A e, room : Node!Encoded(f, e, room) = Encoded(f, e)
           /\ \A r, e : get(r, f, e) = getBuffer(r) /\ Node!get(r, f, e) = get(r, f, e)
<1>1. f.t \notin NumberTypes /\ f.t \notin Node!NumberTypes /\ f.t # "vstring" /\ f.t # "byteArray"
      /\ f.t # "double" /\ f.t # "float" /\ f.t # "string"
  BY DEF NumberTypes, Width, Node!NumberTypes, Node!Width
<1>2. FieldLength(f) = Len(f.d) /\ Node!FieldLength(f) = Len(f.d)
  BY <1>1 DEF FieldLength, Node!FieldLength
<1>3. Value(f) = f.d /\ Node!Expected(f) = f.d
  BY <1>1 DEF Value, Node!Expected
<1>4. \A e, room : Encoded(f, e) = f.d /\ Node!Encoded(f, e, room) = f.d
  BY <1>1 DEF Encoded, Node!Encoded
<1>5. ~Split(f) /\ \A e : Code(f, e) = Encoded(f, e)
  BY <1>1 DEF Code, Split
<1>6. \A r, e : get(r, f, e) = getBuffer(r) /\ Node!get(r, f, e) = getBuffer(r)
  BY <1>1, SameReads DEF get, Node!get
<1> QED  BY <1>2, <1>3, <1>4, <1>5, <1>6

\* A field is of one of these kinds.
LEMMA FieldKinds ==
    ASSUME NEW f, Node!IsField(f)
    PROVE  \/ f.t \in NumberTypes /\ f.d \in Int
           \/ f.t = "double" /\ f.d \in Seq(Byte) /\ Len(f.d) = 8
           \/ f.t = "float" /\ SingleOf[f.d] \in Seq(Byte) /\ Len(SingleOf[f.d]) = 4
           \/ f.t = "string" /\ f.d \in Seq(Byte) /\ WellFormed(f.d)
           \/ f.t = "buffer" /\ f.d \in Seq(Byte)
           \/ f.t = "vstring" /\ f.d \in Seq(Byte \ {0}) /\ WellFormed(f.d) /\ f.len \in Nat \ {0}
           \/ f.t = "byteArray" /\ f.d \in Seq(Byte) /\ f.len \in Nat \ {0}
<1>1. Node!Byte = Byte /\ Node!NumberTypes = NumberTypes
  BY DEF Node!Byte, Byte, Node!NumberTypes, NumberTypes, Node!Width, Width
<1>2. \A n \in Nat : \A d \in [1..n -> Byte] : d \in Seq(Byte) /\ Len(d) = n
  OBVIOUS
<1>3. /\ \A d \in [1..8 -> Byte] : d \in Seq(Byte) /\ Len(d) = 8
      /\ \A d \in [1..4 -> Byte] : d \in Seq(Byte) /\ Len(d) = 4
  <2>1. 8 \in Nat /\ 4 \in Nat
    OBVIOUS
  <2> QED  BY <1>2, <2>1
<1>4. \A d : Node!WellFormed(d) <=> WellFormed(d)
  BY SameTexts
<1> QED  BY <1>1, <1>3, <1>4 DEF Node!IsField

\* A block filled up or cut is as long as its field.
LEMMA PaddedType ==
    ASSUME NEW d \in Seq(Byte), NEW n \in Nat
    PROVE  /\ Padded(d, n) \in Seq(Byte) /\ Len(Padded(d, n)) = n
           /\ \A i \in 1..n : Padded(d, n)[i] = IF i <= Len(d) THEN d[i] ELSE 0
<1>1. \A i \in 1..n : (IF i <= Len(d) THEN d[i] ELSE 0) \in Byte
  <2>1. 0 \in Byte
    BY RadixFacts DEF Byte
  <2> QED  BY <2>1
<1>2. Padded(d, n) \in [1..n -> Byte]
  BY <1>1 DEF Padded
<1> QED  BY <1>2 DEF Padded

\* The bytes of a field are as many as it adds to the message, or fewer if it cuts a character.
LEMMA CodeType ==
    ASSUME NEW f, Node!IsField(f), NEW e
    PROVE  /\ Code(f, e) \in Seq(Byte) /\ Len(Code(f, e)) <= FieldLength(f)
           /\ ~Split(f) => Len(Code(f, e)) = FieldLength(f)
           /\ FieldLength(f) \in Nat /\ Node!FieldLength(f) = FieldLength(f)
<1>1. CASE f.t \in NumberTypes /\ f.d \in Int
  <2> DEFINE n == Width[f.t]
             s == Digits(f.d, n)
  <2>1. /\ n \in {1, 2, 4} /\ FieldLength(f) = n /\ Node!FieldLength(f) = n
        /\ Code(f, e) = Ordered(s, e)
    BY <1>1, NumberKind
  <2> HIDE DEF n
  <2>2. n \in 0..8 /\ n \in Nat
    BY <2>1
  <2>3. s \in Seq(Byte) /\ Len(s) = n
    BY <1>1, <2>2, DigitsType
  <2> HIDE DEF s
  <2> QED  BY <2>1, <2>2, <2>3, OrderedTwice
<1>2. CASE f.t = "double" /\ f.d \in Seq(Byte) /\ Len(f.d) = 8
  <2>1. FieldLength(f) = 8 /\ Node!FieldLength(f) = 8 /\ Code(f, e) = Ordered(f.d, e)
    BY <1>2, DoubleKind
  <2>2. Ordered(f.d, e) \in Seq(Byte) /\ Len(Ordered(f.d, e)) = Len(f.d)
    BY <1>2, OrderedTwice
  <2> QED  BY <1>2, <2>1, <2>2
<1>7. CASE f.t = "float" /\ SingleOf[f.d] \in Seq(Byte) /\ Len(SingleOf[f.d]) = 4
  <2> DEFINE s == SingleOf[f.d]
  <2>1. FieldLength(f) = 4 /\ Node!FieldLength(f) = 4 /\ Code(f, e) = Ordered(s, e)
    BY <1>7, FloatKind
  <2>2. s \in Seq(Byte) /\ Len(s) = 4
    BY <1>7
  <2> HIDE DEF s
  <2>3. Ordered(s, e) \in Seq(Byte) /\ Len(Ordered(s, e)) = Len(s)
    BY <2>2, OrderedTwice
  <2> QED  BY <2>1, <2>2, <2>3
<1>3. CASE f.t = "string" /\ f.d \in Seq(Byte)
  <2> DEFINE s == Digits(Len(f.d), 2)
             h == Ordered(s, e)
             d == f.d
  <2>1. FieldLength(f) = Len(d) + 2 /\ Node!FieldLength(f) = Len(d) + 2 /\ Code(f, e) = h \o d
    BY <1>3, StringKind
  <2>2. Len(d) \in Nat /\ Len(d) \in Int /\ d \in Seq(Byte) /\ 2 \in 0..8
    BY <1>3
  <2>3. s \in Seq(Byte) /\ Len(s) = 2
    BY <2>2, DigitsType
  <2> HIDE DEF s
  <2>4. h \in Seq(Byte) /\ Len(h) = 2
    BY <2>3, OrderedTwice
  <2> HIDE DEF h, d
  <2>5. h \o d \in Seq(Byte) /\ Len(h \o d) = Len(h) + Len(d)
    <3>1. h \in Seq(Byte) /\ d \in Seq(Byte)
      BY <2>2, <2>4
    <3> QED  BY <3>1, ConcatProperties
  <2> QED  BY <2>1, <2>2, <2>4, <2>5
<1>4. CASE f.t = "buffer" /\ f.d \in Seq(Byte)
  <2>1. FieldLength(f) = Len(f.d) /\ Node!FieldLength(f) = Len(f.d) /\ Code(f, e) = f.d
    BY <1>4, BufferKind
  <2> QED  BY <1>4, <2>1
<1>5. CASE f.t \in {"vstring", "byteArray"} /\ f.d \in Seq(Byte) /\ f.len \in Nat /\ ~Split(f)
  <2>1. FieldLength(f) = f.len /\ Node!FieldLength(f) = f.len /\ Code(f, e) = Padded(f.d, f.len)
    BY <1>5, VStringKind, ByteArrayKind
  <2> QED  BY <1>5, <2>1, PaddedType
<1>8. CASE f.t = "vstring" /\ f.d \in Seq(Byte) /\ WellFormed(f.d) /\ f.len \in Nat /\ Split(f)
  <2> DEFINE n == f.len
             c == WholeChars(SubSeq(f.d, 1, n))
  <2>1. FieldLength(f) = n /\ Node!FieldLength(f) = n /\ Code(f, e) = c
    BY <1>8, VStringKind
  <2>2. n \in 0..Len(f.d)
    BY <1>8 DEF Split
  <2>3. c \in Seq(Byte) /\ Len(c) \in 0..n
    <3> HIDE DEF n
    <3> QED  BY <1>8, <2>2, WholeEnds
  <2> HIDE DEF c, n
  <2>4. Len(c) <= n /\ n \in Nat
    BY <1>8, <2>3 DEF n
  <2> QED  BY <1>8, <2>1, <2>3, <2>4
<1>6. \A s \in Seq(Byte \ {0}) : s \in Seq(Byte)
  OBVIOUS
<1>9. f.t = "byteArray" => ~Split(f)
  BY DEF Split
<1> QED  BY <1>1, <1>2, <1>3, <1>4, <1>5, <1>6, <1>7, <1>8, <1>9, FieldKinds

-------------------------------------------------------------------------------
(* Reading a field back *)

\* What holds bytes gives them out again.
LEMMA SliceBytes ==
    ASSUME NEW T, NEW B \in Seq(T), NEW o \in Nat, NEW c \in Seq(Byte), Holds(B, o, c)
    PROVE  Slice(B, o, Len(c)) = c
<1> DEFINE n == Len(c)
<1>1. n \in Nat /\ o + n <= Len(B) /\ \A i \in 1..n : B[o + i] = c[i]
  BY DEF Holds
<1>2. \A i \in (o + 1)..(o + n) : B[i] \in T
  BY <1>1
<1>3. /\ SubSeq(B, o + 1, o + n) \in Seq(T)
      /\ Len(SubSeq(B, o + 1, o + n)) = IF o + 1 <= o + n THEN o + n - (o + 1) + 1 ELSE 0
      /\ \A i \in 1..(o + n - (o + 1) + 1) : SubSeq(B, o + 1, o + n)[i] = B[o + 1 + i - 1]
  BY <1>1, <1>2, SubSeqProperties
<1> DEFINE s == SubSeq(B, o + 1, o + n)
<1> HIDE DEF s
<1>4. s \in Seq(T) /\ Len(s) = n /\ \A i \in 1..n : s[i] = c[i]
  <2>1. s \in Seq(T) /\ Len(s) = n
    BY <1>1, <1>3 DEF s
  <2>2. ASSUME NEW i \in 1..n PROVE s[i] = c[i]
    <3>1. i \in 1..(o + n - (o + 1) + 1) /\ o + 1 + i - 1 = o + i
      BY <1>1
    <3> QED  BY <1>1, <1>3, <3>1 DEF s
  <2> QED  BY <2>1, <2>2
<1> QED  BY <1>4 DEF s, Slice

\* The same of a buffer of bytes.
LEMMA SliceHeld ==
    ASSUME NEW B \in Seq(Byte), NEW o \in Nat, NEW c \in Seq(Byte), Holds(B, o, c)
    PROVE  Slice(B, o, Len(c)) = c
BY SliceBytes

\* Holding two blocks, one behind the other
LEMMA HoldsBoth ==
    ASSUME NEW T, NEW B \in Seq(T), NEW o \in Nat, NEW c \in Seq(Byte), NEW d \in Seq(Byte),
           Holds(B, o, c \o d)
    PROVE  Holds(B, o, c) /\ Holds(B, o + Len(c), d)
<1> DEFINE m == Len(c)
           n == Len(d)
<1>1. m \in Nat /\ n \in Nat /\ Len(B) \in Nat
  OBVIOUS
<1>2. Len(c \o d) = m + n /\ \A i \in 1..(m + n) : (c \o d)[i] = IF i <= m THEN c[i] ELSE d[i - m]
  BY ConcatProperties
<1>3. o + (m + n) <= Len(B) /\ \A i \in 1..(m + n) : B[o + i] = (c \o d)[i]
  BY <1>2 DEF Holds
<1>4. \A i \in 1..m : B[o + i] = c[i]
  BY <1>1, <1>2, <1>3
<1>5. ASSUME NEW i \in 1..n PROVE B[o + m + i] = d[i]
  <2>1. m + i \in 1..(m + n) /\ ~ (m + i <= m) /\ m + i - m = i /\ o + m + i = o + (m + i)
    BY <1>1
  <2>2. B[o + (m + i)] = (c \o d)[m + i]
    BY <1>3, <2>1
  <2>3. (c \o d)[m + i] = d[m + i - m]
    BY <1>2, <2>1
  <2> QED  BY <2>1, <2>2, <2>3
<1> QED  BY <1>1, <1>3, <1>4, <1>5 DEF Holds

\* What a call gives that reads n bytes and returns v
LEMMA ReadsOn ==
    ASSUME NEW B, NEW o, NEW vs, NEW n, NEW v
    PROVE  Took(Reader(B, o, vs), n, v) = Reader(B, o + n, Append(vs, v))
BY DEF Took, Reader

\* A number reads back modulo the range of its type.
LEMMA ReadNumber ==
    ASSUME NEW f, f.t \in NumberTypes, f.d \in Int, NEW e, NEW B \in Seq(Stored), NEW o \in Nat, NEW vs,
           Holds(B, o, Code(f, e))
    PROVE  get(Reader(B, o, vs), f, e) = Reader(B, o + FieldLength(f), Append(vs, Value(f)))
<1> DEFINE n == Width[f.t]
           s == Digits(f.d, n)
           r == Reader(B, o, vs)
<1>1. /\ n \in {1, 2, 4} /\ FieldLength(f) = n /\ Value(f) = Wrapped(f)
      /\ Code(f, e) = Ordered(s, e) /\ get(r, f, e) = getNumber(r, f.t, e)
  BY NumberKind
<1>2. n \in 0..8
  BY <1>1
<1>3. s \in Seq(Byte) /\ Len(s) = n
  <2> HIDE DEF n
  <2> QED  BY <1>2, DigitsType
<1>4. Number(s) = f.d % RadixTo[n]
  <2> HIDE DEF n
  <2> QED  BY <1>2, NumberOfDigits
<1>5. read(r, n, e) = s
  <2> DEFINE c == Ordered(s, e)
  <2> HIDE DEF s
  <2>1. c \in Seq(Byte) /\ Len(c) = n /\ Ordered(c, e) = s
    BY <1>3, OrderedTwice
  <2>2. Holds(B, o, c)
    BY <1>1
  <2> HIDE DEF c
  <2>3. Slice(B, o, n) = c
    BY <2>1, <2>2, SliceBytes
  <2> QED  BY <2>1, <2>3 DEF read, Reader
<1>6. (IF f.t \in {"short", "int32"} THEN SignedNumber(s) ELSE Number(s)) = Wrapped(f)
  BY <1>3, <1>4 DEF SignedNumber, Wrapped
<1>7. getNumber(r, f.t, e) = Reader(B, o + n, Append(vs, Wrapped(f)))
  <2> DEFINE v == IF f.t \in {"short", "int32"} THEN SignedNumber(read(r, n, e)) ELSE Number(read(r, n, e))
  <2>1. v = Wrapped(f)
    BY <1>5, <1>6
  <2>2. getNumber(r, f.t, e) = Took(r, n, v)
    BY DEF getNumber
  <2> HIDE DEF v, n, s
  <2> QED  BY <2>1, <2>2, ReadsOn
<1> QED  BY <1>1, <1>7

\* A double reads back as the eight bytes it was.
LEMMA ReadDouble ==
    ASSUME NEW f, f.t = "double", f.d \in Seq(Byte), Len(f.d) = 8, NEW e,
           NEW B \in Seq(Stored), NEW o \in Nat, NEW vs, Holds(B, o, Code(f, e))
    PROVE  get(Reader(B, o, vs), f, e) = Reader(B, o + FieldLength(f), Append(vs, Value(f)))
<1> DEFINE r == Reader(B, o, vs)
           c == Ordered(f.d, e)
<1>1. /\ FieldLength(f) = 8 /\ Value(f) = f.d /\ Code(f, e) = c /\ get(r, f, e) = getDouble(r, e)
  BY DoubleKind
<1>2. c \in Seq(Byte) /\ Len(c) = 8 /\ Ordered(c, e) = f.d
  BY OrderedTwice
<1> HIDE DEF c
<1>3. Slice(B, o, 8) = c
  BY <1>1, <1>2, SliceBytes
<1>4. read(r, 8, e) = f.d
  BY <1>2, <1>3 DEF read, Reader
<1>5. getDouble(r, e) = Took(r, 8, f.d)
  BY <1>4 DEF getDouble
<1> QED  BY <1>1, <1>5, ReadsOn

\* A float reads back as the four bytes of its single.
LEMMA ReadFloat ==
    ASSUME NEW f, f.t = "float", SingleOf[f.d] \in Seq(Byte), Len(SingleOf[f.d]) = 4, NEW e,
           NEW B \in Seq(Stored), NEW o \in Nat, NEW vs, Holds(B, o, Code(f, e))
    PROVE  get(Reader(B, o, vs), f, e) = Reader(B, o + FieldLength(f), Append(vs, Value(f)))
<1> DEFINE r == Reader(B, o, vs)
           s == SingleOf[f.d]
           c == Ordered(s, e)
<1>1. /\ FieldLength(f) = 4 /\ Value(f) = s /\ Code(f, e) = c /\ get(r, f, e) = getFloat(r, e)
  BY FloatKind
<1>2. s \in Seq(Byte) /\ Len(s) = 4
  OBVIOUS
<1> HIDE DEF s
<1>3. c \in Seq(Byte) /\ Len(c) = 4 /\ Ordered(c, e) = s
  BY <1>2, OrderedTwice
<1> HIDE DEF c
<1>4. Slice(B, o, 4) = c
  BY <1>1, <1>3, SliceBytes
<1>5. read(r, 4, e) = s
  BY <1>3, <1>4 DEF read, Reader
<1>6. getFloat(r, e) = Took(r, 4, s)
  BY <1>5 DEF getFloat
<1> QED  BY <1>1, <1>6, ReadsOn

\* The bytes of a whole text are read as that text, by either codec.
LEMMA WholeTextReads ==
    ASSUME NEW B \in Seq(Stored), NEW o \in Nat, NEW v \in Seq(Byte), ~Cut(v), Holds(B, o, v)
    PROVE  utf8Read(B, o, Len(v)) = v /\ Node!toString(Slice(B, o, Len(v))) = v
<1>1. Slice(B, o, Len(v)) = v
  BY SliceBytes
<1>2. utf8Read(B, o, Len(v)) = v
  BY <1>1 DEF utf8Read
<1>3. Node!toString(v) = v
  BY SameTexts DEF Node!toString
<1> QED  BY <1>1, <1>2, <1>3

\* A string reads back by the length before it.
LEMMA ReadString ==
    ASSUME NEW f, f.t = "string", f.d \in Seq(Byte), WellFormed(f.d), Len(f.d) < RadixTo[2], NEW e,
           NEW B \in Seq(Stored), NEW o \in Nat, NEW vs, Holds(B, o, Code(f, e))
    PROVE  /\ get(Reader(B, o, vs), f, e) = Reader(B, o + FieldLength(f), Append(vs, Value(f)))
           /\ Node!get(Reader(B, o, vs), f, e) = Reader(B, o + FieldLength(f), Append(vs, Value(f)))
<1> DEFINE r == Reader(B, o, vs)
           d == f.d
           n == Len(d)
           s == Digits(n, 2)
           c == Ordered(s, e)
<1>1. /\ FieldLength(f) = n + 2 /\ Value(f) = d /\ Code(f, e) = c \o d
      /\ get(r, f, e) = getString(r, e) /\ Node!get(r, f, e) = Node!getString(r, e)
  BY StringKind
<1>2. n \in Nat /\ n \in Int /\ 2 \in 0..8 /\ d \in Seq(Byte) /\ n < RadixTo[2]
  OBVIOUS
<1>3. s \in Seq(Byte) /\ Len(s) = 2
  <2> HIDE DEF n
  <2> QED  BY <1>2, DigitsType
<1>4. Number(s) = n
  <2>1. Number(s) = n % RadixTo[2]
    BY <1>2, NumberOfDigits
  <2>2. RadixTo[2] \in Nat \ {0}
    BY <1>2, Powers
  <2> HIDE DEF s, n
  <2> QED  BY <1>2, <2>1, <2>2
<1>5. c \in Seq(Byte) /\ Len(c) = 2 /\ Ordered(c, e) = s
  <2> HIDE DEF s
  <2> QED  BY <1>3, OrderedTwice
<1> HIDE DEF c
<1>6. Holds(B, o, c) /\ Holds(B, o + 2, d)
  <2>1. Holds(B, o, c \o d)
    BY <1>1
  <2> HIDE DEF d
  <2>2. Holds(B, o, c) /\ Holds(B, o + Len(c), d)
    BY <1>2, <1>5, <2>1, HoldsBoth
  <2> QED  BY <1>5, <2>2
<1>7. Slice(B, o, 2) = c
  BY <1>5, <1>6, SliceBytes
<1>8. utf8Read(B, o + 2, n) = d /\ Node!toString(Slice(B, o + 2, n)) = d
  <2>1. ~Cut(d)
    BY TextsWhole
  <2> HIDE DEF d
  <2>2. o + 2 \in Nat
    OBVIOUS
  <2> QED  BY <1>2, <1>6, <2>1, <2>2, WholeTextReads
<1>9. Number(read(r, 2, e)) = n
  BY <1>4, <1>5, <1>7 DEF read, Reader
<1>10. getString(r, e) = Took(r, 2 + n, d)
  <2> DEFINE len == Number(read(r, 2, e))
  <2>1. getString(r, e) = Took(r, 2 + len, utf8Read(r.bytes, r.offset + 2, len))
    BY DEF getString
  <2>2. r.bytes = B /\ r.offset = o
    BY DEF Reader
  <2>3. len = n
    BY <1>9
  <2> HIDE DEF len, n, d, r
  <2> QED  BY <1>8, <2>1, <2>2, <2>3
<1>13. Node!getString(r, e) = Took(r, 2 + n, d)
  <2> DEFINE len == Number(read(r, 2, e))
             v == Node!toString(Node!Slice(r.bytes, r.offset + 2, len))
  <2>1. Node!getString(r, e) = Node!Took(r, 2 + len, v)
    BY SameBytes, SameReads DEF Node!getString
  <2>2. r.bytes = B /\ r.offset = o
    BY DEF Reader
  <2>3. len = n
    BY <1>9
  <2>4. v = d
    <3> HIDE DEF len, n, d, r
    <3> QED  BY <1>8, <2>2, <2>3, SameBytes
  <2> HIDE DEF v, len, n, d, r
  <2> QED  BY <2>1, <2>3, <2>4, SameReads
<1>11. Took(r, 2 + n, d) = Reader(B, o + (2 + n), Append(vs, d))
  BY ReadsOn
<1>12. o + (2 + n) = o + (n + 2)
  <2> HIDE DEF n
  <2> QED  BY <1>2
<1> QED  BY <1>1, <1>10, <1>11, <1>12, <1>13

\* What the two codecs make of a vstring, wherever it stands.
LEMMA GetVString ==
    ASSUME NEW f, f.t = "vstring", NEW e, NEW B, NEW o, NEW vs
    PROVE  /\ get(Reader(B, o, vs), f, e)
                 = Reader(B, o + FieldLength(f), Append(vs, VText(B, o, f.len)))
           /\ Node!get(Reader(B, o, vs), f, e)
                 = Reader(B, o + FieldLength(f), Append(vs, Node!VText(B, o, f.len)))
<1> DEFINE r == Reader(B, o, vs)
           n == f.len
<1>1. FieldLength(f) = n /\ get(r, f, e) = getVString(r, n) /\ Node!get(r, f, e) = Node!getVString(r, n)
  BY VStringKind
<1>2. r.bytes = B /\ r.offset = o
  BY DEF Reader
<1> HIDE DEF r, n
<1>3. getVString(r, n) = Took(r, n, VText(B, o, n))
  BY <1>2 DEF getVString
<1>4. Node!getVString(r, n) = Took(r, n, Node!VText(B, o, n))
  BY <1>2, SameReads DEF Node!getVString
<1>5. Took(r, n, VText(B, o, n)) = Reader(B, o + n, Append(vs, VText(B, o, n)))
  BY ReadsOn DEF r
<1>6. Took(r, n, Node!VText(B, o, n)) = Reader(B, o + n, Append(vs, Node!VText(B, o, n)))
  BY ReadsOn DEF r
<1> QED  BY <1>1, <1>3, <1>4, <1>5, <1>6 DEF r, n

\* The two codecs count the bytes of a vstring that are not zero.
LEMMA VTextCounts ==
    \A B, o, n, m :
        Cardinality({i \in DOMAIN Slice(B, o, n) : Slice(B, o, n)[i] > 0}) = m =>
            /\ VText(B, o, n) = utf8Read(B, o, m)
            /\ Node!VText(B, o, n) = Node!toString(Slice(B, o, m))
<1>1. \A S : Node!Cardinality(S) = Cardinality(S)
  BY DEF Node!Cardinality, Cardinality, Node!IsFiniteSet, IsFiniteSet
<1> QED  BY <1>1, SameBytes DEF VText, Node!VText

\* A vstring reads back up to its first zero or its width: no text holds a zero itself.
LEMMA ReadVString ==
    ASSUME NEW f, f.t = "vstring", f.d \in Seq(Byte \ {0}), WellFormed(f.d), f.len \in Nat,
           ~Split(f), NEW e, NEW B \in Seq(Stored), NEW o \in Nat, Holds(B, o, Code(f, e))
    PROVE  VText(B, o, f.len) = Value(f) /\ Node!VText(B, o, f.len) = Value(f)
<1> DEFINE d == f.d
           n == f.len
           c == Padded(d, n)
           m == IF Len(d) > n THEN n ELSE Len(d)
<1>1. /\ Code(f, e) = c
      /\ Value(f) = IF Len(d) > n THEN SubSeq(d, 1, n) ELSE d
  BY VStringKind
<1>2. d \in Seq(Byte \ {0}) /\ d \in Seq(Byte) /\ n \in Nat /\ Len(d) \in Nat
  OBVIOUS
<1>13. ~Cut(IF Len(d) > n THEN SubSeq(d, 1, n) ELSE d)
  BY TextsWhole DEF Split
<1> HIDE DEF d, n
<1>3. c \in Seq(Byte) /\ Len(c) = n /\ \A i \in 1..n : c[i] = IF i <= Len(d) THEN d[i] ELSE 0
  BY <1>2, PaddedType
<1> HIDE DEF c
<1>4. Slice(B, o, n) = c
  BY <1>1, <1>3, SliceBytes
<1>5. m \in Nat /\ m <= n /\ m <= Len(d)
  BY <1>2
<1>6. {i \in DOMAIN c : c[i] > 0} = 1..m
  <2>1. DOMAIN c = 1..n
    BY <1>3
  <2>2. \A i \in 1..Len(d) : d[i] > 0
    <3>1. \A i \in 1..Len(d) : d[i] \in Byte \ {0}
      BY <1>2
    <3> QED  BY <3>1, RadixFacts DEF Byte
  <2>3. ASSUME NEW i \in 1..n PROVE c[i] > 0 <=> i <= Len(d)
    <3>1. CASE i <= Len(d)
      <4>1. i \in 1..Len(d)
        BY <1>2, <3>1
      <4> QED  BY <1>3, <2>2, <3>1, <4>1
    <3>2. CASE ~(i <= Len(d))
      BY <1>3, <3>2
    <3> QED  BY <3>1, <3>2
  <2> QED  BY <1>2, <2>1, <2>3
<1>7. Cardinality({i \in DOMAIN c : c[i] > 0}) = m
  <2>1. Cardinality(1..m) = m
    <3>1. 1 \in Int /\ m \in Int
      BY <1>5
    <3>2. Cardinality(1..m) = IF 1 > m THEN 0 ELSE m - 1 + 1
      BY <3>1, FS_Interval
    <3> QED  BY <1>5, <3>2
  <2> QED  BY <1>6, <2>1
<1> DEFINE v == IF Len(d) > n THEN SubSeq(d, 1, n) ELSE d
<1>8. v \in Seq(Byte) /\ Len(v) = m /\ \A i \in 1..m : v[i] = d[i]
  <2>1. CASE Len(d) > n
    <3>1. \A i \in 1..n : d[i] \in Byte
      BY <1>2, <2>1
    <3>2. /\ SubSeq(d, 1, n) \in Seq(Byte)
          /\ Len(SubSeq(d, 1, n)) = IF 1 <= n THEN n - 1 + 1 ELSE 0
          /\ \A i \in 1..(n - 1 + 1) : SubSeq(d, 1, n)[i] = d[1 + i - 1]
      <4>1. 1 \in Int /\ n \in Int
        BY <1>2
      <4> QED  BY <1>2, <3>1, <4>1, SubSeqProperties
    <3> QED  BY <1>2, <2>1, <3>2
  <2>2. CASE ~ (Len(d) > n)
    BY <1>2, <2>2
  <2> QED  BY <2>1, <2>2
<1> HIDE DEF v
<1>9. Holds(B, o, v)
  <2>1. o + n <= Len(B) /\ \A i \in 1..n : B[o + i] = c[i]
    BY <1>1, <1>3 DEF Holds
  <2>2. \A i \in 1..m : c[i] = d[i]
    BY <1>2, <1>3, <1>5
  <2>3. o + m <= Len(B)
    BY <1>2, <1>5, <2>1
  <2>4. \A i \in 1..m : i \in 1..n
    BY <1>2, <1>5
  <2> HIDE DEF m
  <2> QED  BY <1>8, <2>1, <2>2, <2>3, <2>4 DEF Holds
<1> HIDE DEF m
<1>10. utf8Read(B, o, m) = v /\ Node!toString(Slice(B, o, m)) = v
  <2>1. ~Cut(v)
    BY <1>13 DEF v
  <2> QED  BY <1>8, <1>9, <2>1, WholeTextReads
<1>11. Value(f) = v
  BY <1>1 DEF v
<1>12. VText(B, o, n) = utf8Read(B, o, m) /\ Node!VText(B, o, n) = Node!toString(Slice(B, o, m))
  BY <1>4, <1>7, VTextCounts
<1> QED  BY <1>10, <1>11, <1>12 DEF n

\* A block that a buffer holds begins whatever is read from its place on.
LEMMA HeldBegins ==
    ASSUME NEW B \in Seq(Stored), NEW o \in Nat, NEW c \in Seq(Byte), Holds(B, o, c),
           NEW m \in Nat, Len(c) <= m, o + m <= Len(B)
    PROVE  /\ Slice(B, o, m) \in Seq(Stored) /\ Len(Slice(B, o, m)) = m
           /\ \A i \in 1..m : Slice(B, o, m)[i] = B[o + i]
           /\ \A i \in 1..Len(c) : Slice(B, o, m)[i] = c[i]
<1> DEFINE n == Len(c)
<1>1. n \in Nat /\ n <= m /\ \A i \in 1..n : B[o + i] = c[i]
  BY DEF Holds
<1>2. \A i \in (o + 1)..(o + m) : B[i] \in Stored
  OBVIOUS
<1>3. /\ SubSeq(B, o + 1, o + m) \in Seq(Stored)
      /\ Len(SubSeq(B, o + 1, o + m)) = IF o + 1 <= o + m THEN o + m - (o + 1) + 1 ELSE 0
      /\ \A i \in 1..(o + m - (o + 1) + 1) : SubSeq(B, o + 1, o + m)[i] = B[o + 1 + i - 1]
  BY <1>2, SubSeqProperties
<1>4. /\ o + m - (o + 1) + 1 = m /\ (IF o + 1 <= o + m THEN o + m - (o + 1) + 1 ELSE 0) = m
      /\ \A i \in 1..m : o + 1 + i - 1 = o + i
  OBVIOUS
<1>5. /\ Slice(B, o, m) \in Seq(Stored) /\ Len(Slice(B, o, m)) = m
      /\ \A i \in 1..m : Slice(B, o, m)[i] = B[o + i]
  BY <1>3, <1>4 DEF Slice
<1>6. \A i \in 1..n : i \in 1..m
  BY <1>1
<1> QED  BY <1>1, <1>5, <1>6

\* Sequences of which the one begins with the other, for the library's operator.
LEMMA BeginsPrefix ==
    ASSUME NEW S, NEW T, NEW c \in Seq(S), NEW v \in Seq(T), Len(c) <= Len(v),
           \A i \in 1..Len(c) : v[i] = c[i]
    PROVE  IsPrefix(c, v)
<1> DEFINE n == Len(c)
<1>1. n \in Nat /\ n \in 0..Len(c) /\ n \in 0..Len(v)
  OBVIOUS
<1> HIDE DEF n
<1>2. /\ SubSeq(c, 1, n) \in Seq(S) /\ Len(SubSeq(c, 1, n)) = n
      /\ \A i \in 1..n : SubSeq(c, 1, n)[i] = c[i]
  BY <1>1, FrontOf
<1>3. /\ SubSeq(v, 1, n) \in Seq(T) /\ Len(SubSeq(v, 1, n)) = n
      /\ \A i \in 1..n : SubSeq(v, 1, n)[i] = v[i]
  BY <1>1, FrontOf
<1>4. \A i \in 1..n : SubSeq(c, 1, n)[i] = SubSeq(v, 1, n)[i]
  BY <1>2, <1>3 DEF n
<1> DEFINE x == SubSeq(c, 1, n)
           y == SubSeq(v, 1, n)
<1> HIDE DEF x, y
<1>5. x \in Seq(S) /\ y \in Seq(T) /\ Len(x) = Len(y) /\ \A i \in 1..Len(x) : x[i] = y[i]
  BY <1>2, <1>3, <1>4 DEF x, y
<1>6. x = y
  BY <1>5
<1> QED  BY <1>6 DEF IsPrefix, x, y, n

\* Of a text cut inside a character the server reads the whole characters and more, and so
\* does the browser, unless it throws.
LEMMA SplitReads ==
    ASSUME NEW f, f.t = "vstring", f.d \in Seq(Byte \ {0}), WellFormed(f.d), f.len \in Nat,
           Split(f), NEW e, NEW B \in Seq(Stored), NEW o \in Nat, Holds(B, o, Code(f, e)),
           o + f.len <= Len(B)
    PROVE  LET c == WholeChars(SubSeq(f.d, 1, f.len))
           IN  /\ VText(B, o, f.len) = Thrown \/ IsPrefix(c, VText(B, o, f.len))
               /\ IsPrefix(c, Node!VText(B, o, f.len))
<1> DEFINE d == f.d
           n == f.len
           c == WholeChars(SubSeq(d, 1, n))
           w == Len(c)
           field == Slice(B, o, n)
           P == {i \in DOMAIN field : field[i] > 0}
           m == Cardinality(P)
           text == Slice(B, o, m)
<1>1. Holds(B, o, c) /\ d \in Seq(Byte \ {0}) /\ d \in Seq(Byte) /\ n \in Nat /\ n \in 0..Len(d)
      /\ o + n <= Len(B)
  <2>1. Code(f, e) = c
    BY VStringKind
  <2>2. Len(f.d) > f.len
    BY DEF Split
  <2>3. f.d \in Seq(Byte)
    OBVIOUS
  <2>4. f.len \in 0..Len(f.d)
    <3>1. Len(f.d) \in Nat
      BY <2>3
    <3> QED  BY <2>2, <3>1
  <2> QED  BY <2>1, <2>3, <2>4
<1> HIDE DEF d, n
<1>2. /\ c \in Seq(Byte) /\ w \in 0..n
      /\ \A i \in 1..w : c[i] = d[i] /\ i + CharLength[d[i]] - 1 <= w
  BY <1>1, WholeEnds DEF d
<1> HIDE DEF c
<1>3. field \in Seq(Stored) /\ Len(field) = n /\ \A i \in 1..w : field[i] = c[i]
  <2>1. w <= n
    BY <1>1, <1>2
  <2> QED  BY <1>1, <1>2, <2>1, HeldBegins
<1> HIDE DEF w, field
<1>4. P \subseteq 1..n /\ 1..w \subseteq P
  <2>1. DOMAIN field = 1..n
    BY <1>3
  <2>2. ASSUME NEW i \in 1..w PROVE i \in P
    <3>1. i \in 1..n /\ i \in 1..Len(d)
      BY <1>1, <1>2
    <3>2. d[i] \in Byte \ {0}
      BY <1>1, <3>1
    <3>3. d[i] > 0
      BY <3>2, RadixFacts DEF Byte
    <3> QED  BY <1>2, <1>3, <2>1, <3>1, <3>3
  <2> QED  BY <2>1, <2>2
<1>5. m \in Nat /\ w <= m /\ m <= n
  <2> HIDE DEF P
  <2>1. w \in Nat /\ n \in Nat
    BY <1>1, <1>2
  <2>2. IsFiniteSet(1..n) /\ Cardinality(1..n) = n /\ IsFiniteSet(1..w) /\ Cardinality(1..w) = w
    <3>1. 1 \in Int /\ n \in Int /\ w \in Int
      BY <2>1
    <3>2. /\ IsFiniteSet(1..n) /\ Cardinality(1..n) = IF 1 > n THEN 0 ELSE n - 1 + 1
          /\ IsFiniteSet(1..w) /\ Cardinality(1..w) = IF 1 > w THEN 0 ELSE w - 1 + 1
      BY <3>1, FS_Interval
    <3> QED  BY <2>1, <3>2
  <2>3. IsFiniteSet(P) /\ Cardinality(P) <= Cardinality(1..n)
    BY <1>4, <2>2, FS_Subset
  <2>4. Cardinality(1..w) <= Cardinality(P)
    BY <1>4, <2>3, FS_Subset
  <2>5. Cardinality(P) \in Nat
    BY <2>3, FS_CardinalityType
  <2> QED  BY <2>2, <2>3, <2>4, <2>5
<1>6. VText(B, o, n) = utf8Read(B, o, m) /\ Node!VText(B, o, n) = Node!toString(text)
  BY VTextCounts DEF field
<1> HIDE DEF P, m, text
<1>7. /\ text \in Seq(Stored) /\ Len(text) = m /\ \A i \in 1..w : text[i] = c[i]
  <2>1. o + m <= Len(B) /\ Len(c) <= m
    BY <1>1, <1>5 DEF w
  <2> QED  BY <1>1, <1>2, <1>5, <2>1, HeldBegins DEF text, w
<1>8. /\ WholeLength(text) \in w..m
      /\ WholeChars(text) \in Seq(Stored) /\ Len(WholeChars(text)) = WholeLength(text)
      /\ \A i \in 1..WholeLength(text) : WholeChars(text)[i] = text[i]
      /\ Cut(text) => CutAt(text) \in (w + 1)..m /\ EndsBehind(text, CutAt(text))
  <2>1. \A i \in 1..w : i + CharLength[text[i]] - 1 <= w
    BY <1>2, <1>7
  <2>2. w \in 0..Len(text) /\ Stored \subseteq Stored
    BY <1>2, <1>5, <1>7
  <2> QED  BY <1>7, <2>1, <2>2, KeepsWhole
<1>9. IsPrefix(c, text)
  BY <1>2, <1>5, <1>7, BeginsPrefix DEF w
<1>10. IsPrefix(c, Node!VText(B, o, n))
  <2>1. CASE ~Cut(text)
    BY <1>6, <1>9, <2>1, SameTexts DEF Node!toString
  <2>2. CASE Cut(text)
    <3> DEFINE u == WholeChars(text)
               x == Node!Replacement
               v == Append(u, x)
               T == Stored \cup {x}
    <3>1. Node!VText(B, o, n) = v
      BY <1>6, <2>2, SameTexts DEF Node!toString
    <3>2. Len(u) \in w..m /\ \A i \in 1..Len(u) : u[i] = text[i]
      BY <1>8
    <3>3. u \in Seq(T) /\ x \in T
      <4>1. u \in Seq(Stored)
        BY <1>8
      <4> HIDE DEF u
      <4>2. Stored \subseteq T /\ x \in T
        OBVIOUS
      <4> HIDE DEF T
      <4> QED  BY <4>1, <4>2
    <3> HIDE DEF u, x, T
    <3>4. v \in Seq(T) /\ Len(v) = Len(u) + 1 /\ \A i \in 1..Len(u) : v[i] = u[i]
      BY <3>3, AppendProperties
    <3> HIDE DEF v
    <3>5. Len(c) <= Len(v) /\ \A i \in 1..Len(c) : v[i] = c[i]
      <4>1. \A i \in 1..w : i \in 1..Len(u)
        BY <1>2, <1>5, <3>2
      <4>2. w <= Len(v)
        BY <1>2, <1>5, <3>2, <3>4
      <4> QED  BY <1>7, <3>2, <3>4, <4>1, <4>2 DEF w
    <3> QED  BY <1>2, <3>1, <3>4, <3>5, BeginsPrefix
  <2> QED  BY <2>1, <2>2
<1>11. VText(B, o, n) = Thrown \/ IsPrefix(c, VText(B, o, n))
  <2> DEFINE at == CutAt(text)
             end == at + CharLength[text[at]] - 1
  <2>1. utf8Read(B, o, m) = IF ~Cut(text) THEN text
                            ELSE IF o + end > Len(B) THEN Thrown ELSE Slice(B, o, end)
    BY DEF utf8Read, text
  <2>2. CASE ~Cut(text)
    BY <1>6, <1>9, <2>1, <2>2
  <2>3. CASE Cut(text) /\ ~ (o + end > Len(B))
    <3>1. at \in (w + 1)..m /\ EndsBehind(text, at)
      BY <1>8, <2>3
    <3> HIDE DEF at
    <3>2. end > m
      BY <1>7, <3>1 DEF EndsBehind
    <3>3. CharLength[text[at]] \in 0..4
      <4>1. at \in 1..Len(text)
        BY <1>2, <1>5, <1>7, <3>1
      <4>2. text[at] \in Stored
        BY <1>7, <4>1
      <4> QED  BY <4>2, CharLengths
    <3>4. end \in Nat /\ Len(c) <= end /\ o + end <= Len(B)
      <4> DEFINE z == CharLength[text[at]]
      <4>1. z \in 0..4 /\ at \in (w + 1)..m /\ end = at + z - 1 /\ end > m /\ ~ (o + end > Len(B))
        BY <2>3, <3>1, <3>2, <3>3
      <4> HIDE DEF z, end
      <4>2. Len(B) \in Nat
        OBVIOUS
      <4> QED  BY <1>2, <1>5, <4>1, <4>2 DEF w
    <3> HIDE DEF end
    <3>5. /\ Slice(B, o, end) \in Seq(Stored) /\ Len(Slice(B, o, end)) = end
          /\ \A i \in 1..Len(c) : Slice(B, o, end)[i] = c[i]
      BY <1>1, <1>2, <3>4, HeldBegins
    <3>6. IsPrefix(c, Slice(B, o, end))
      BY <1>2, <3>4, <3>5, BeginsPrefix
    <3> QED  BY <1>6, <2>1, <2>3, <3>6
  <2>4. CASE Cut(text) /\ o + end > Len(B)
    BY <1>6, <2>1, <2>4
  <2> QED  BY <2>2, <2>3, <2>4
<1> QED  BY <1>10, <1>11 DEF c, d, n

\* Both readers of a byte array, in a message that has it whole
LEMMA ReadByteArray ==
    ASSUME NEW f, f.t = "byteArray", f.d \in Seq(Byte), f.len \in Nat, NEW e,
           NEW B \in Seq(Stored), NEW o \in Nat, NEW vs, Holds(B, o, Code(f, e))
    PROVE  /\ get(Reader(B, o, vs), f, e) = Reader(B, o + FieldLength(f), Append(vs, Value(f)))
           /\ Node!get(Reader(B, o, vs), f, e) = Reader(B, o + FieldLength(f), Append(vs, Value(f)))
<1> DEFINE r == Reader(B, o, vs)
           d == f.d
           n == f.len
           c == Padded(d, n)
<1>1. /\ FieldLength(f) = n /\ Code(f, e) = c /\ get(r, f, e) = getByteArray(r, n)
      /\ Node!get(r, f, e) = Node!getByteArray(r, n) /\ Value(f) = c
  BY ByteArrayKind
<1>2. d \in Seq(Byte) /\ n \in Nat
  OBVIOUS
<1> HIDE DEF d, n
<1>3. c \in Seq(Byte) /\ Len(c) = n
  BY <1>2, PaddedType
<1> HIDE DEF c
<1>4. Slice(B, o, n) = c /\ o + n <= Len(B)
  BY <1>1, <1>3, SliceBytes DEF Holds
<1>5. r.bytes = B /\ r.offset = o
  BY DEF Reader
<1>6. getByteArray(r, n) = Took(r, n, c)
  <2>1. (IF r.offset + n > Len(r.bytes) THEN Len(r.bytes) ELSE r.offset + n) = o + n
    <3>1. ~ (o + n > Len(B))
      BY <1>2, <1>4
    <3> QED  BY <1>5, <3>1
  <2>2. SubSeq(r.bytes, r.offset + 1, o + n) = c
    BY <1>4, <1>5 DEF Slice
  <2> HIDE DEF r
  <2> QED  BY <2>1, <2>2 DEF getByteArray
<1>7. Node!getByteArray(r, n) = Took(r, n, c)
  <2>1. Node!Padded(Node!Slice(r.bytes, r.offset, n), n) = c
    <3>1. Padded(c, n) = c
      <4>1. \A i \in 1..n : (IF i <= Len(c) THEN c[i] ELSE 0) = c[i]
        BY <1>2, <1>3
      <4>2. c = [i \in 1..n |-> c[i]]
        BY <1>3
      <4> QED  BY <4>1, <4>2 DEF Padded
    <3> QED  BY <1>4, <1>5, <3>1, SameBytes
  <2>2. Node!getByteArray(r, n) = Node!Took(r, n, c)
    BY <2>1 DEF Node!getByteArray
  <2> QED  BY <2>2, SameReads
<1> QED  BY <1>1, <1>6, <1>7, ReadsOn

\* A buffer reads back if it ends the message.
LEMMA ReadBuffer ==
    ASSUME NEW f, f.t = "buffer", f.d \in Seq(Byte), NEW e,
           NEW B \in Seq(Stored), NEW o \in Nat, NEW vs, Holds(B, o, Code(f, e)),
           o + FieldLength(f) = Len(B)
    PROVE  get(Reader(B, o, vs), f, e) = Reader(B, o + FieldLength(f), Append(vs, Value(f)))
<1> DEFINE r == Reader(B, o, vs)
           d == f.d
           n == Len(d)
<1>1. /\ FieldLength(f) = n /\ Code(f, e) = d /\ get(r, f, e) = getBuffer(r) /\ Value(f) = d
  BY BufferKind
<1>2. d \in Seq(Byte) /\ n \in Nat
  OBVIOUS
<1> HIDE DEF d
<1>3. Slice(B, o, n) = d
  BY <1>1, <1>2, SliceBytes
<1> HIDE DEF n
<1>4. Len(B) - o = n
  BY <1>1, <1>2
<1>5. r.bytes = B /\ r.offset = o
  BY DEF Reader
<1>6. getBuffer(r) = Took(r, n, d)
  <2> HIDE DEF r
  <2>1. Len(r.bytes) - r.offset = n
    BY <1>4, <1>5
  <2> QED  BY <1>3, <1>5, <2>1 DEF getBuffer
<1> QED  BY <1>1, <1>6, ReadsOn

\* The length of a string fits the two bytes before it.
TextFits(f) == f.t = "string" => Len(f.d) < RadixTo[2]

\* What is read where a field like f stands.
WebGot(f, B, o) == IF Split(f) THEN VText(B, o, f.len) ELSE Value(f)
NodeGot(f, B, o) == IF Split(f) THEN Node!VText(B, o, f.len) ELSE Value(f)

\* A call that reads a field like the one that is there stops behind it.
LEMMA GetReads ==
    ASSUME NEW f, Node!IsField(f), TextFits(f), NEW e,
           NEW B \in Seq(Stored), NEW o \in Nat, NEW vs, Holds(B, o, Code(f, e)),
           f.t = "buffer" => o + FieldLength(f) = Len(B)
    PROVE  /\ get(Reader(B, o, vs), f, e)
                 = Reader(B, o + FieldLength(f), Append(vs, WebGot(f, B, o)))
           /\ Node!get(Reader(B, o, vs), f, e)
                 = Reader(B, o + FieldLength(f), Append(vs, NodeGot(f, B, o)))
<1> DEFINE r == Reader(B, o, vs)
           Whole == Reader(B, o + FieldLength(f), Append(vs, Value(f)))
<1>1. CASE f.t \in NumberTypes /\ f.d \in Int
  <2>1. get(r, f, e) = Whole
    BY <1>1, ReadNumber
  <2> QED  BY <1>1, <2>1, NumberKind DEF WebGot, NodeGot
<1>2. CASE f.t = "double" /\ f.d \in Seq(Byte) /\ Len(f.d) = 8
  <2>1. get(r, f, e) = Whole
    BY <1>2, ReadDouble
  <2> QED  BY <1>2, <2>1, DoubleKind DEF WebGot, NodeGot
<1>7. CASE f.t = "float" /\ SingleOf[f.d] \in Seq(Byte) /\ Len(SingleOf[f.d]) = 4
  <2>1. get(r, f, e) = Whole
    BY <1>7, ReadFloat
  <2> QED  BY <1>7, <2>1, FloatKind DEF WebGot, NodeGot
<1>3. CASE f.t = "string" /\ f.d \in Seq(Byte) /\ WellFormed(f.d)
  <2>1. Len(f.d) < RadixTo[2]
    BY <1>3 DEF TextFits
  <2>2. get(r, f, e) = Whole /\ Node!get(r, f, e) = Whole
    BY <1>3, <2>1, ReadString
  <2> QED  BY <1>3, <2>2, StringKind DEF WebGot, NodeGot
<1>4. CASE f.t = "buffer" /\ f.d \in Seq(Byte)
  <2>1. o + FieldLength(f) = Len(B)
    BY <1>4
  <2>2. get(r, f, e) = Whole
    BY <1>4, <2>1, ReadBuffer
  <2> QED  BY <1>4, <2>2, BufferKind DEF WebGot, NodeGot
<1>5. CASE f.t = "vstring" /\ f.d \in Seq(Byte \ {0}) /\ WellFormed(f.d) /\ f.len \in Nat
  <2>1. /\ get(r, f, e) = Reader(B, o + FieldLength(f), Append(vs, VText(B, o, f.len)))
        /\ Node!get(r, f, e) = Reader(B, o + FieldLength(f), Append(vs, Node!VText(B, o, f.len)))
    BY <1>5, GetVString
  <2>2. VText(B, o, f.len) = WebGot(f, B, o) /\ Node!VText(B, o, f.len) = NodeGot(f, B, o)
    <3>1. CASE ~Split(f)
      BY <1>5, <3>1, ReadVString DEF WebGot, NodeGot
    <3>2. CASE Split(f)
      BY <3>2 DEF WebGot, NodeGot
    <3> QED  BY <3>1, <3>2
  <2> QED  BY <2>1, <2>2
<1>6. CASE f.t = "byteArray" /\ f.d \in Seq(Byte) /\ f.len \in Nat
  <2>1. get(r, f, e) = Whole /\ Node!get(r, f, e) = Whole
    BY <1>6, ReadByteArray
  <2> QED  BY <1>6, <2>1, ByteArrayKind DEF WebGot, NodeGot
<1> QED  BY <1>1, <1>2, <1>3, <1>4, <1>5, <1>6, <1>7, FieldKinds

\* It gets what the writer of the field meant; the browser may throw at a cut character.
LEMMA GetMeant ==
    ASSUME NEW f, Node!IsField(f), NEW e,
           NEW B \in Seq(Stored), NEW o \in Nat, Holds(B, o, Code(f, e)),
           o + FieldLength(f) <= Len(B)
    PROVE  /\ Meant(f, WebGot(f, B, o)) \/ Throws(f, WebGot(f, B, o))
           /\ Meant(f, NodeGot(f, B, o))
<1>1. CASE ~Split(f)
  <2>1. Meant(f, Value(f))
    BY <1>1, SameTexts DEF Meant, Value, Node!Understood
  <2> QED  BY <1>1, <2>1 DEF WebGot, NodeGot
<1>2. CASE Split(f)
  <2> DEFINE c == WholeChars(SubSeq(f.d, 1, f.len))
             web == VText(B, o, f.len)
             node == Node!VText(B, o, f.len)
  <2>1. f.t = "vstring" /\ f.t \notin NumberTypes
    BY <1>2 DEF Split, NumberTypes, Width
  <2>2. f.d \in Seq(Byte \ {0}) /\ WellFormed(f.d) /\ f.len \in Nat
    BY <2>1, FieldKinds
  <2>3. o + f.len <= Len(B)
    BY <2>1, VStringKind
  <2>4. (web = Thrown \/ IsPrefix(c, web)) /\ IsPrefix(c, node)
    BY <1>2, <2>1, <2>2, <2>3, SplitReads
  <2> HIDE DEF web, node
  <2>5. \A v : IsPrefix(c, v) => Meant(f, v)
    BY <1>2, <2>1, SameTexts DEF Meant, Node!Understood
  <2>6. WebGot(f, B, o) = web /\ NodeGot(f, B, o) = node
    BY <1>2 DEF WebGot, NodeGot, web, node
  <2> HIDE DEF c
  <2> QED  BY <1>2, <2>4, <2>5, <2>6 DEF Throws
<1> QED  BY <1>1, <1>2

-------------------------------------------------------------------------------
(* Lists of fields *)

\* The fields of the program are fields.
LEMMA FieldsAre == \A f \in Fields : Node!IsField(f)
BY MessagesAssumption DEF Node!NodeAssumption

\* A list with a field put in.
LEMMA Inserted ==
    ASSUME NEW l \in Seq(Fields), NEW f \in Fields, NEW i \in 0..Len(l)
    PROVE  /\ InsertAt(l, i + 1, f) \in Seq(Fields)
           /\ Len(InsertAt(l, i + 1, f)) = Len(l) + 1
           /\ \A k \in 1..(Len(l) + 1) :
                 InsertAt(l, i + 1, f)[k] = IF k <= i THEN l[k] ELSE IF k = i + 1 THEN f ELSE l[k - 1]
<1> DEFINE n == Len(l)
           a == SubSeq(l, 1, (i + 1) - 1)
           c == SubSeq(l, i + 1, n)
           m == <<f>>
<1>1. n \in Nat /\ i \in 0..n /\ i \in Nat /\ (i + 1) - 1 = i /\ \A k \in 1..n : l[k] \in Fields
  OBVIOUS
<1>2. a \in Seq(Fields) /\ Len(a) = i /\ \A k \in 1..i : a[k] = l[k]
  <2>1. \A k \in 1..i : l[k] \in Fields
    BY <1>1
  <2>2. /\ SubSeq(l, 1, i) \in Seq(Fields)
        /\ Len(SubSeq(l, 1, i)) = IF 1 <= i THEN i - 1 + 1 ELSE 0
        /\ \A k \in 1..(i - 1 + 1) : SubSeq(l, 1, i)[k] = l[1 + k - 1]
    BY <1>1, <2>1, SubSeqProperties
  <2>3. \A k \in 1..i : 1 + k - 1 = k /\ k \in 1..(i - 1 + 1)
    BY <1>1
  <2> QED  BY <1>1, <2>2, <2>3
<1>3. c \in Seq(Fields) /\ Len(c) = n - i /\ \A k \in 1..(n - i) : c[k] = l[i + k]
  <2> HIDE DEF n
  <2>1. \A k \in (i + 1)..n : l[k] \in Fields
    BY <1>1
  <2>2. /\ SubSeq(l, i + 1, n) \in Seq(Fields)
        /\ Len(SubSeq(l, i + 1, n)) = IF i + 1 <= n THEN n - (i + 1) + 1 ELSE 0
        /\ \A k \in 1..(n - (i + 1) + 1) : SubSeq(l, i + 1, n)[k] = l[i + 1 + k - 1]
    BY <1>1, <2>1, SubSeqProperties DEF n
  <2>3. n - (i + 1) + 1 = n - i /\ \A k \in 1..(n - i) : i + 1 + k - 1 = i + k
    BY <1>1
  <2>4. (IF i + 1 <= n THEN n - (i + 1) + 1 ELSE 0) = n - i
    BY <1>1
  <2> QED  BY <2>2, <2>3, <2>4
<1>4. InsertAt(l, i + 1, f) = (a \o m) \o c
  BY DEF InsertAt
<1>5. m \in Seq(Fields) /\ Len(m) = 1 /\ m[1] = f
  OBVIOUS
<1> HIDE DEF a, c, n, m
<1>6. /\ a \o m \in Seq(Fields) /\ Len(a \o m) = i + 1
      /\ \A k \in 1..(i + 1) : (a \o m)[k] = IF k <= i THEN l[k] ELSE f
  <2>1. /\ a \o m \in Seq(Fields) /\ Len(a \o m) = Len(a) + Len(m)
        /\ \A k \in 1..(Len(a) + Len(m)) : (a \o m)[k] = IF k <= Len(a) THEN a[k] ELSE m[k - Len(a)]
    BY <1>2, <1>5, ConcatProperties
  <2>2. ASSUME NEW k \in 1..(i + 1) PROVE (a \o m)[k] = IF k <= i THEN l[k] ELSE f
    <3>1. (a \o m)[k] = IF k <= i THEN a[k] ELSE m[k - i]
      BY <1>2, <1>5, <2>1
    <3>2. CASE k <= i
      <4>1. k \in 1..i
        BY <1>1, <3>2
      <4> QED  BY <1>2, <3>1, <3>2, <4>1
    <3>3. CASE ~ (k <= i)
      <4>1. k - i = 1
        BY <1>1, <3>3
      <4> QED  BY <1>5, <3>1, <3>3, <4>1
    <3> QED  BY <3>2, <3>3
  <2> QED  BY <1>2, <1>5, <2>1, <2>2
<1> DEFINE b == a \o m
<1> HIDE DEF b
<1>7. b \in Seq(Fields) /\ Len(b) = i + 1 /\ \A k \in 1..(i + 1) : b[k] = IF k <= i THEN l[k] ELSE f
  BY <1>6 DEF b
<1>8. /\ b \o c \in Seq(Fields) /\ Len(b \o c) = Len(b) + Len(c)
      /\ \A k \in 1..(Len(b) + Len(c)) : (b \o c)[k] = IF k <= Len(b) THEN b[k] ELSE c[k - Len(b)]
  BY <1>3, <1>7, ConcatProperties
<1>9. Len(b) + Len(c) = n + 1
  BY <1>1, <1>3, <1>7
<1>10. ASSUME NEW k \in 1..(n + 1)
       PROVE  (b \o c)[k] = IF k <= i THEN l[k] ELSE IF k = i + 1 THEN f ELSE l[k - 1]
  <2>1. (b \o c)[k] = IF k <= i + 1 THEN b[k] ELSE c[k - (i + 1)]
    BY <1>7, <1>8, <1>9
  <2>2. CASE k <= i + 1
    <3>1. k \in 1..(i + 1)
      BY <1>1, <2>2
    <3>2. (b \o c)[k] = IF k <= i THEN l[k] ELSE f
      BY <1>7, <2>1, <2>2, <3>1
    <3>3. k <= i \/ (~ (k <= i) /\ k = i + 1)
      BY <1>1, <2>2
    <3> QED  BY <3>2, <3>3
  <2>3. CASE ~ (k <= i + 1)
    <3>1. k - (i + 1) \in 1..(n - i) /\ i + (k - (i + 1)) = k - 1 /\ ~ (k <= i) /\ k # i + 1
      BY <1>1, <2>3
    <3> QED  BY <1>3, <2>1, <2>3, <3>1
  <2> QED  BY <2>2, <2>3
<1> QED  BY <1>4, <1>8, <1>9, <1>10 DEF b, n

\* Where each field of a list ends, counted from the first byte of the first one.
Ends(h, l) ==
    /\ h \in [0..Len(l) -> Nat]
    /\ h[0] = 0
    /\ \A k \in 1..Len(l) : h[k] = h[k - 1] + FieldLength(l[k])

\* A buffer, which has no length in front of it, closes the message.
BufferLast(l) == \A k \in 1..Len(l) : l[k].t = "buffer" => k = Len(l)

\* The fields of a list of the program, and their lengths.
LEMMA ListFields ==
    ASSUME NEW l \in Seq(Fields), NEW k \in 1..Len(l)
    PROVE  /\ l[k] \in Fields /\ Node!IsField(l[k])
           /\ FieldLength(l[k]) \in Nat /\ Node!FieldLength(l[k]) = FieldLength(l[k])
           /\ \A e : /\ Code(l[k], e) \in Seq(Byte) /\ Len(Code(l[k], e)) <= FieldLength(l[k])
                     /\ ~Split(l[k]) => Len(Code(l[k], e)) = FieldLength(l[k])
<1>1. l[k] \in Fields
  OBVIOUS
<1> QED  BY <1>1, FieldsAre, CodeType

\* A field put into a list moves the ends behind it by its length.
LEMMA EndsInserted ==
    ASSUME NEW l \in Seq(Fields), NEW f \in Fields, NEW i \in 0..Len(l), NEW h, Ends(h, l)
    PROVE  \E g : /\ Ends(g, InsertAt(l, i + 1, f))
                  /\ g[Len(l) + 1] = h[Len(l)] + FieldLength(f)
<1> DEFINE n == Len(l)
           w == FieldLength(f)
           s == InsertAt(l, i + 1, f)
           g == [k \in 0..(n + 1) |-> IF k <= i THEN h[k] ELSE h[k - 1] + w]
<1>1. w \in Nat /\ n \in Nat /\ i \in 0..n
  BY FieldsAre, CodeType
<1>2. s \in Seq(Fields) /\ Len(s) = n + 1
      /\ \A k \in 1..(n + 1) : s[k] = IF k <= i THEN l[k] ELSE IF k = i + 1 THEN f ELSE l[k - 1]
  BY Inserted
<1> HIDE DEF s, w
<1>3. h \in [0..n -> Nat] /\ h[0] = 0 /\ \A k \in 1..n : h[k] = h[k - 1] + FieldLength(l[k])
  BY DEF Ends
<1> HIDE DEF n
<1>4. g \in [0..(n + 1) -> Nat]
  <2>1. ASSUME NEW k \in 0..(n + 1) PROVE (IF k <= i THEN h[k] ELSE h[k - 1] + w) \in Nat
    <3>1. CASE k <= i
      <4>1. k \in 0..n
        BY <1>1, <3>1
      <4> QED  BY <1>3, <3>1, <4>1
    <3>2. CASE ~ (k <= i)
      <4>1. k - 1 \in 0..n
        BY <1>1, <3>2
      <4>2. h[k - 1] \in Nat
        BY <1>3, <4>1
      <4> QED  BY <1>1, <3>2, <4>2
    <3> QED  BY <3>1, <3>2
  <2> QED  BY <2>1
<1>5. g[0] = 0 /\ g[n + 1] = h[n] + w
  BY <1>1, <1>3
<1>6. ASSUME NEW k \in 1..(n + 1) PROVE g[k] = g[k - 1] + FieldLength(s[k])
  <2>1. k \in 0..(n + 1) /\ k - 1 \in 0..(n + 1)
    BY <1>1
  <2>2. CASE k <= i
    <3>1. k \in 1..n /\ k - 1 <= i
      BY <1>1, <2>2
    <3>2. g[k] = h[k] /\ g[k - 1] = h[k - 1] /\ s[k] = l[k]
      BY <1>2, <2>1, <2>2, <3>1
    <3> QED  BY <1>3, <3>1, <3>2
  <2>3. CASE k = i + 1
    <3>1. ~ (k <= i) /\ k - 1 <= i /\ k - 1 = i
      BY <1>1, <2>3
    <3>2. g[k] = h[k - 1] + w /\ g[k - 1] = h[k - 1] /\ s[k] = f
      BY <1>2, <2>1, <2>3, <3>1
    <3> QED  BY <3>2 DEF w
  <2>4. CASE k > i + 1
    <3>1. ~ (k <= i) /\ ~ (k - 1 <= i) /\ k # i + 1 /\ k - 1 \in 1..n /\ k - 1 - 1 \in 0..n
      BY <1>1, <2>4
    <3>2. g[k] = h[k - 1] + w /\ g[k - 1] = h[k - 1 - 1] + w /\ s[k] = l[k - 1]
      BY <1>2, <2>1, <3>1
    <3>3. h[k - 1] = h[k - 1 - 1] + FieldLength(l[k - 1])
      BY <1>3, <3>1
    <3>4. h[k - 1 - 1] \in Nat /\ FieldLength(l[k - 1]) \in Nat
      BY <1>3, <3>1, ListFields DEF n
    <3> QED  BY <1>1, <3>2, <3>3, <3>4
  <2> QED  BY <1>1, <2>2, <2>3, <2>4
<1> HIDE DEF g
<1>7. Ends(g, s)
  BY <1>2, <1>4, <1>5, <1>6 DEF Ends
<1> QED  BY <1>5, <1>7 DEF n, s, w

\* A field put into a list without a buffer, a buffer only at its end, leaves a buffer last.
LEMMA BufferStaysLast ==
    ASSUME NEW l \in Seq(Fields), NEW f \in Fields, NEW i \in 0..Len(l),
           \A k \in 1..Len(l) : l[k].t # "buffer", f.t = "buffer" => i = Len(l)
    PROVE  BufferLast(InsertAt(l, i + 1, f))
<1> DEFINE n == Len(l)
           s == InsertAt(l, i + 1, f)
<1>1. Len(s) = n + 1 /\ n \in Nat /\ i \in 0..n
      /\ \A k \in 1..(n + 1) : s[k] = IF k <= i THEN l[k] ELSE IF k = i + 1 THEN f ELSE l[k - 1]
  <2>1. n \in Nat /\ i \in 0..n
    OBVIOUS
  <2>2. Len(s) = n + 1
        /\ \A k \in 1..(n + 1) : s[k] = IF k <= i THEN l[k] ELSE IF k = i + 1 THEN f ELSE l[k - 1]
    BY Inserted
  <2> QED  BY <2>1, <2>2
<1> HIDE DEF s
<1>2. ASSUME NEW k \in 1..(n + 1), s[k].t = "buffer" PROVE k = n + 1
  <2>1. CASE k <= i
    <3>1. k \in 1..n /\ s[k] = l[k]
      BY <1>1, <2>1
    <3> QED  BY <1>2, <3>1
  <2>2. CASE k = i + 1
    <3>1. s[k] = f
      BY <1>1, <2>2
    <3> QED  BY <1>2, <2>2, <3>1
  <2>3. CASE k > i + 1
    <3>1. k - 1 \in 1..n /\ s[k] = l[k - 1]
      BY <1>1, <2>3
    <3> QED  BY <1>2, <3>1
  <2> QED  BY <1>1, <2>1, <2>2, <2>3
<1> QED  BY <1>1, <1>2 DEF BufferLast, s

\* The ends grow, and every byte is in some field.
LEMMA EndsCover ==
    ASSUME NEW l \in Seq(Fields), NEW h, Ends(h, l), NEW m \in 0..Len(l)
    PROVE  \A i \in 1..h[m] : \E k \in 1..m : h[k - 1] < i /\ i <= h[k]
<1> DEFINE n == Len(l)
           U == {k \in Nat : k <= n => \A i \in 1..h[k] : \E j \in 1..k : h[j - 1] < i /\ i <= h[j]}
<1>1. n \in Nat /\ h \in [0..n -> Nat] /\ h[0] = 0
  BY DEF Ends
<1> HIDE DEF n
<1>2. 0 \in U
  BY <1>1
<1>3. ASSUME NEW k \in Nat, k \in U PROVE k + 1 \in U
  <2>1. SUFFICES ASSUME k + 1 <= n, NEW i \in 1..h[k + 1]
                 PROVE  \E j \in 1..(k + 1) : h[j - 1] < i /\ i <= h[j]
    OBVIOUS
  <2>2. k \in 0..n /\ k + 1 \in 0..n
    BY <1>1, <2>1
  <2>3. h[k] \in Nat /\ h[k + 1] \in Nat
    BY <1>1, <2>2
  <2>4. CASE i <= h[k]
    <3>1. PICK j \in 1..k : h[j - 1] < i /\ i <= h[j]
      BY <1>3, <2>1, <2>2, <2>3, <2>4
    <3>2. j \in 1..(k + 1)
      OBVIOUS
    <3> QED  BY <3>1, <3>2
  <2>5. CASE ~ (i <= h[k])
    <3>1. k + 1 \in 1..(k + 1) /\ k + 1 - 1 = k
      OBVIOUS
    <3>2. h[k + 1 - 1] < i /\ i <= h[k + 1]
      BY <2>3, <2>5, <3>1
    <3> QED  BY <3>1, <3>2
  <2> QED  BY <2>4, <2>5
<1> HIDE DEF U
<1>4. m \in U /\ m <= n
  BY <1>1, <1>2, <1>3, Counting DEF n
<1> QED  BY <1>4 DEF U

\* The end of a field is not behind the end of a later one.
LEMMA EndsGrow ==
    ASSUME NEW l \in Seq(Fields), NEW h, Ends(h, l), NEW k \in 0..Len(l), NEW m \in k..Len(l)
    PROVE  h[k] <= h[m]
<1> DEFINE n == Len(l)
           U == {j \in Nat : k <= j /\ j <= n => h[k] <= h[j]}
<1>1. n \in Nat /\ h \in [0..n -> Nat] /\ \A j \in 1..n : h[j] = h[j - 1] + FieldLength(l[j])
  BY DEF Ends
<1>2. \A j \in 1..n : FieldLength(l[j]) \in Nat
  BY ListFields
<1> HIDE DEF n
<1>3. 0 \in U
  BY <1>1
<1>4. ASSUME NEW j \in Nat, j \in U PROVE j + 1 \in U
  <2>1. SUFFICES ASSUME k <= j + 1, j + 1 <= n PROVE h[k] <= h[j + 1]
    OBVIOUS
  <2>2. CASE k = j + 1
    <3>1. h[k] \in Nat
      BY <1>1 DEF n
    <3> QED  BY <2>2, <3>1
  <2>3. CASE k # j + 1
    <3>1. k <= j /\ j <= n /\ j \in 0..n /\ j + 1 \in 1..n /\ j + 1 - 1 = j
      BY <1>1, <2>1, <2>3
    <3>2. h[k] <= h[j] /\ h[j] \in Nat /\ h[k] \in Nat
      BY <1>1, <1>4, <3>1 DEF n
    <3>3. h[j + 1] = h[j] + FieldLength(l[j + 1]) /\ FieldLength(l[j + 1]) \in Nat
      BY <1>1, <1>2, <3>1
    <3> QED  BY <3>2, <3>3
  <2> QED  BY <2>2, <2>3
<1> HIDE DEF U
<1>5. m \in U /\ k <= m /\ m <= n
  BY <1>1, <1>3, <1>4, Counting DEF n
<1> QED  BY <1>5 DEF U

-------------------------------------------------------------------------------
(* Reading a message *)

\* r has read the fields l to the end of B: a value of each that its writer meant; the
\* browser may throw at a text that is cut inside a character.
ReadByWeb(r, B, l) ==
    /\ Len(r.values) = Len(l) /\ r.offset = Len(B)
    /\ \A i \in DOMAIN l : Meant(l[i], r.values[i]) \/ Throws(l[i], r.values[i])
ReadByNode(r, B, l) ==
    /\ Len(r.values) = Len(l) /\ r.offset = Len(B)
    /\ \A i \in DOMAIN l : Meant(l[i], r.values[i])

\* The first k values with the next one behind them.
LEMMA Appended ==
    ASSUME NEW n \in Nat, NEW w, NEW k \in 1..n
    PROVE  Append([i \in 1..(k - 1) |-> w[i]], w[k]) = [i \in 1..k |-> w[i]]
<1> DEFINE S == {w[i] : i \in 1..n}
           s == [i \in 1..(k - 1) |-> w[i]]
           u == [i \in 1..k |-> w[i]]
<1>1. k - 1 \in Nat /\ k \in Nat /\ \A i \in 1..k : i \in 1..n
  OBVIOUS
<1>2. \A i \in 1..n : w[i] \in S
  OBVIOUS
<1> HIDE DEF S
<1>3. s \in Seq(S) /\ Len(s) = k - 1 /\ \A i \in 1..(k - 1) : s[i] = w[i]
  BY <1>1, <1>2
<1>4. u \in Seq(S) /\ Len(u) = k /\ \A i \in 1..k : u[i] = w[i]
  BY <1>1, <1>2
<1>5. w[k] \in S
  BY <1>2
<1> HIDE DEF s, u
<1> DEFINE a == Append(s, w[k])
<1>6. a \in Seq(S) /\ Len(a) = Len(s) + 1 /\ (\A i \in 1..Len(s) : a[i] = s[i]) /\ a[Len(s) + 1] = w[k]
  BY <1>3, <1>5, AppendProperties
<1> HIDE DEF a
<1>7. Len(a) = k
  BY <1>1, <1>3, <1>6
<1>8. ASSUME NEW i \in 1..k PROVE a[i] = u[i]
  <2>1. i \in 1..(k - 1) \/ i = (k - 1) + 1
    BY <1>1
  <2> QED  BY <1>3, <1>4, <1>6, <2>1
<1>9. a = u
  BY <1>4, <1>6, <1>7, <1>8
<1> QED  BY <1>9 DEF a, s, u

\* A message that holds the bytes of the fields of a list, each in its place, reads back to
\* what was meant and to its end, in the browser and on the server.
LEMMA MessageReads ==
    ASSUME NEW l \in Seq(Fields), BufferLast(l), \A k \in 1..Len(l) : TextFits(l[k]),
           NEW h, Ends(h, l), NEW e,
           NEW B \in Seq(Stored), Len(B) = h[Len(l)],
           \A k \in 1..Len(l) : Holds(B, h[k - 1], Code(l[k], e))
    PROVE  ReadByWeb(ReadAll(B, l, e), B, l) /\ ReadByNode(Node!ReadAll(B, l, e), B, l)
<1> DEFINE n == Len(l)
           w == [i \in 1..n |-> WebGot(l[i], B, h[i - 1])]
           x == [i \in 1..n |-> NodeGot(l[i], B, h[i - 1])]
           V == [k \in 0..n |-> Reader(B, h[k], [i \in 1..k |-> w[i]])]
           X == [k \in 0..n |-> Reader(B, h[k], [i \in 1..k |-> x[i]])]
           WebStep1(f) == [k \in 0..n |-> IF k = 0 THEN [bytes |-> B, offset |-> 0, values |-> <<>>]
                                         ELSE get(f[k - 1], l[k], e)]
           NodeStep1(f) == [k \in 0..n |-> IF k = 0 THEN [bytes |-> B, offset |-> 0, values |-> <<>>]
                                          ELSE Node!get(f[k - 1], l[k], e)]
           webRead == CHOOSE f : f = WebStep1(f)
           nodeRead == CHOOSE f : f = NodeStep1(f)
<1>1. n \in Nat /\ h \in [0..n -> Nat] /\ h[0] = 0 /\ \A k \in 1..n : h[k] = h[k - 1] + FieldLength(l[k])
  BY DEF Ends
<1>2. /\ \A i \in 1..n : w[i] = WebGot(l[i], B, h[i - 1]) /\ x[i] = NodeGot(l[i], B, h[i - 1])
      /\ w = [i \in 1..n |-> w[i]] /\ x = [i \in 1..n |-> x[i]]
  OBVIOUS
<1>3. ReadAll(B, l, e) = webRead[n] /\ Node!ReadAll(B, l, e) = nodeRead[n]
  BY DEF ReadAll, Node!ReadAll
<1> HIDE DEF w, x
<1>4. ASSUME NEW k \in 1..n
      PROVE  /\ Node!IsField(l[k]) /\ TextFits(l[k]) /\ Holds(B, h[k - 1], Code(l[k], e))
             /\ k - 1 \in 0..n /\ k \in 0..n /\ h[k - 1] \in Nat
             /\ h[k - 1] + FieldLength(l[k]) <= Len(B)
             /\ l[k].t = "buffer" => h[k - 1] + FieldLength(l[k]) = Len(B)
  <2>1. k - 1 \in 0..n /\ k \in 0..n /\ n \in k..n /\ h[k - 1] \in Nat
    BY <1>1
  <2>2. h[k] <= h[n]
    BY <2>1, EndsGrow DEF n
  <2>3. l[k].t = "buffer" => h[k - 1] + FieldLength(l[k]) = Len(B)
    BY <1>1 DEF BufferLast
  <2> QED  BY <1>1, <2>1, <2>2, <2>3, ListFields
<1>5. ASSUME NEW k \in 1..n
      PROVE  get(V[k - 1], l[k], e) = V[k] /\ Node!get(X[k - 1], l[k], e) = X[k]
  <2> DEFINE a == [i \in 1..(k - 1) |-> w[i]]
             b == [i \in 1..(k - 1) |-> x[i]]
             f == l[k]
             o == h[k - 1]
  <2>1. V[k - 1] = Reader(B, o, a) /\ X[k - 1] = Reader(B, o, b)
    BY <1>4
  <2>2. V[k] = Reader(B, h[k], [i \in 1..k |-> w[i]]) /\ X[k] = Reader(B, h[k], [i \in 1..k |-> x[i]])
    BY <1>4
  <2>3. Append(a, w[k]) = [i \in 1..k |-> w[i]] /\ Append(b, x[k]) = [i \in 1..k |-> x[i]]
    BY <1>1, Appended
  <2>4. w[k] = WebGot(f, B, o) /\ x[k] = NodeGot(f, B, o) /\ h[k] = o + FieldLength(f)
    BY <1>1, <1>2
  <2>5. /\ Node!IsField(f) /\ TextFits(f) /\ Holds(B, o, Code(f, e)) /\ o \in Nat
        /\ f.t = "buffer" => o + FieldLength(f) = Len(B)
    BY <1>4
  <2> HIDE DEF a, b, f, o, V, X
  <2>6. /\ get(Reader(B, o, a), f, e) = Reader(B, o + FieldLength(f), Append(a, WebGot(f, B, o)))
        /\ Node!get(Reader(B, o, b), f, e) = Reader(B, o + FieldLength(f), Append(b, NodeGot(f, B, o)))
    BY <2>5, GetReads
  <2>7. get(V[k - 1], f, e) = V[k] /\ Node!get(X[k - 1], f, e) = X[k]
    BY <2>1, <2>2, <2>3, <2>4, <2>6
  <2> QED  BY <2>7 DEF f
<1>6. /\ V[0] = [bytes |-> B, offset |-> 0, values |-> <<>>]
      /\ X[0] = [bytes |-> B, offset |-> 0, values |-> <<>>]
  <2>1. [i \in 1..0 |-> w[i]] = <<>> /\ [i \in 1..0 |-> x[i]] = <<>>
    OBVIOUS
  <2>2. V[0] = Reader(B, 0, [i \in 1..0 |-> w[i]]) /\ X[0] = Reader(B, 0, [i \in 1..0 |-> x[i]])
    BY <1>1
  <2> QED  BY <2>1, <2>2 DEF Reader
<1>7. /\ V = [k \in 0..n |-> V[k]] /\ V[n] = Reader(B, h[n], w)
      /\ X = [k \in 0..n |-> X[k]] /\ X[n] = Reader(B, h[n], x)
  <2>1. n \in 0..n
    BY <1>1
  <2> QED  BY <1>2, <2>1
<1>8. Len(w) = n /\ Len(x) = n /\ DOMAIN l = 1..n
  BY <1>1, <1>2
<1>9. ASSUME NEW i \in 1..n PROVE (Meant(l[i], w[i]) \/ Throws(l[i], w[i])) /\ Meant(l[i], x[i])
  BY <1>2, <1>4, GetMeant
<1> HIDE DEF V, X, n
<1>10. V = WebStep1(V) /\ X = NodeStep1(X)
  <2>1. \A k \in 0..n : k # 0 => k \in 1..n
    BY <1>1
  <2> QED  BY <1>5, <1>6, <1>7, <2>1
<1>11. webRead = WebStep1(webRead)
  <2> HIDE DEF WebStep1
  <2> QED  BY <1>10
<1>12. nodeRead = NodeStep1(nodeRead)
  <2> HIDE DEF NodeStep1
  <2> QED  BY <1>10
<1> HIDE DEF webRead, nodeRead
<1> DEFINE U == {k \in Nat : k <= n => webRead[k] = V[k] /\ nodeRead[k] = X[k]}
<1>13. 0 \in U
  BY <1>1, <1>6, <1>11, <1>12
<1>14. ASSUME NEW k \in Nat, k \in U PROVE k + 1 \in U
  <2>1. SUFFICES ASSUME k + 1 <= n PROVE webRead[k + 1] = V[k + 1] /\ nodeRead[k + 1] = X[k + 1]
    OBVIOUS
  <2>2. k + 1 \in 0..n /\ k + 1 # 0 /\ k + 1 \in 1..n /\ (k + 1) - 1 = k
    BY <1>1, <2>1
  <2>3. webRead[k] = V[k] /\ nodeRead[k] = X[k]
    BY <1>1, <1>14, <2>1
  <2>4. webRead[k + 1] = get(webRead[(k + 1) - 1], l[k + 1], e)
    BY <1>11, <2>2
  <2>5. nodeRead[k + 1] = Node!get(nodeRead[(k + 1) - 1], l[k + 1], e)
    BY <1>12, <2>2
  <2>6. get(V[k], l[k + 1], e) = V[k + 1] /\ Node!get(X[k], l[k + 1], e) = X[k + 1]
    BY <1>5, <2>2
  <2> QED  BY <2>2, <2>3, <2>4, <2>5, <2>6
<1> HIDE DEF U
<1>15. webRead[n] = Reader(B, h[n], w) /\ nodeRead[n] = Reader(B, h[n], x)
  <2>1. n \in U
    BY <1>1, <1>13, <1>14, Counting
  <2> QED  BY <1>1, <1>7, <2>1 DEF U
<1>16. /\ ReadAll(B, l, e).values = w /\ ReadAll(B, l, e).offset = h[n]
       /\ Node!ReadAll(B, l, e).values = x /\ Node!ReadAll(B, l, e).offset = h[n]
  BY <1>3, <1>15 DEF Reader
<1> QED  BY <1>8, <1>9, <1>16 DEF ReadByWeb, ReadByNode, n

-------------------------------------------------------------------------------
(* Laying a message out *)

\* What is written over a buffer keeps its length, and what was in front of it.
LEMMA Overlaid ==
    ASSUME NEW T, NEW N \in Nat, NEW buf1 \in [1..N -> T], NEW at \in Int, NEW c \in Seq(T)
    PROVE  /\ Overlay(buf1, at, c) \in [1..N -> T]
           /\ \A i \in 1..N : i <= at => Overlay(buf1, at, c)[i] = buf1[i]
           /\ \A i \in 1..Len(c) : at >= 0 /\ at + i <= N => Overlay(buf1, at, c)[at + i] = c[i]
<1> DEFINE b == Overlay(buf1, at, c)
           m == Len(c)
<1>1. DOMAIN buf1 = 1..N /\ DOMAIN c = 1..m /\ m \in Nat /\ \A i \in 1..m : c[i] \in T
  OBVIOUS
<1>2. b = [i \in 1..N |-> IF i - at \in 1..m THEN c[i - at] ELSE buf1[i]]
  BY <1>1 DEF Overlay
<1> HIDE DEF b, m
<1>3. b \in [1..N -> T]
  BY <1>1, <1>2
<1>4. ASSUME NEW i \in 1..N, i <= at PROVE b[i] = buf1[i]
  <2>1. ~ (i - at \in 1..m)
    BY <1>1, <1>4
  <2> QED  BY <1>2, <2>1
<1>5. ASSUME NEW i \in 1..m, at >= 0, at + i <= N PROVE b[at + i] = c[i]
  <2>1. at + i \in 1..N /\ (at + i) - at = i
    BY <1>1, <1>5
  <2> QED  BY <1>2, <2>1
<1> QED  BY <1>3, <1>4, <1>5 DEF b, m

\* No text of a list is cut inside a character.
NoSplit(l) == \A k \in 1..Len(l) : ~Split(l[k])

\* The message B of the fields l behind a header of `head` bytes that counts them: every
\* byte of it is written, but for texts cut inside a character.
Laid(B, l, h, e, head) ==
    /\ Ends(h, l)
    /\ B \in Seq(Stored) /\ Len(B) = head + h[Len(l)]
    /\ NoSplit(l) => B \in Seq(Byte)
    /\ \A i \in 1..head : B[i] = Ordered(Digits(h[Len(l)], head), e)[i]
    /\ \A k \in 1..Len(l) : Holds(B, head + h[k - 1], Code(l[k], e))

\* c begins with d.
Begins(c, d) == Len(d) <= Len(c) /\ \A i \in 1..Len(d) : c[i] = d[i]

\* Buffers of which the first has the header and each later one one more field, as enc has it,
\* laid over the one before.
Layers(layer, enc, N, T, l, h, e, head) ==
    /\ N = head + h[Len(l)]
    /\ Byte \subseteq T /\ T \subseteq Stored
    /\ layer \in [0..Len(l) -> [1..N -> T]]
    /\ enc \in [1..Len(l) -> Seq(T)]
    /\ \A k \in 1..Len(l) : Begins(enc[k], Code(l[k], e))
    /\ \A i \in 1..head : layer[0][i] = Ordered(Digits(h[Len(l)], head), e)[i]
    /\ \A k \in 1..Len(l) : layer[k] = Overlay(layer[k - 1], head + h[k - 1], enc[k])

\* The last of such buffers is the message, whatever the first was filled with.
LEMMA LayersLay ==
    ASSUME NEW l \in Seq(Fields), NEW h, Ends(h, l), NEW e, NEW head \in 0..8,
           NEW layer, NEW enc, NEW N, NEW T, Layers(layer, enc, N, T, l, h, e, head)
    PROVE  Laid(layer[Len(l)], l, h, e, head) /\ layer[Len(l)] \in Seq(T)
<1> DEFINE n == Len(l)
           H == Ordered(Digits(h[n], head), e)
           Stand(m, k) == \A i \in 1..Len(Code(l[k], e)) :
                              layer[m][head + h[k - 1] + i] = Code(l[k], e)[i]
           U == {m \in Nat : m <= n => /\ \A i \in 1..head : layer[m][i] = H[i]
                                       /\ \A k \in 1..m : Stand(m, k)}
<1>1. n \in Nat /\ h \in [0..n -> Nat] /\ \A k \in 1..n : h[k] = h[k - 1] + FieldLength(l[k])
  BY DEF Ends
<1>2. N = head + h[n] /\ N \in Nat /\ \A k \in 0..n : head + h[k] <= N /\ head + h[k] \in Nat
  <2>1. ASSUME NEW k \in 0..n PROVE h[k] <= h[n] /\ h[k] \in Nat /\ h[n] \in Nat
    <3>1. n \in k..n /\ n \in 0..n
      BY <1>1
    <3> QED  BY <1>1, <3>1, EndsGrow
  <2>2. N = head + h[n]
    BY DEF Layers
  <2> QED  BY <1>1, <2>1, <2>2
<1>3. ASSUME NEW k \in 1..n
      PROVE  /\ k - 1 \in 0..n /\ k \in 0..n /\ h[k - 1] \in Nat /\ h[k] \in Nat
             /\ Code(l[k], e) \in Seq(Byte) /\ Len(Code(l[k], e)) \in Nat
             /\ h[k - 1] + Len(Code(l[k], e)) <= h[k]
             /\ ~Split(l[k]) => h[k] = h[k - 1] + Len(Code(l[k], e))
  <2>1. /\ Code(l[k], e) \in Seq(Byte) /\ Len(Code(l[k], e)) <= FieldLength(l[k])
        /\ FieldLength(l[k]) \in Nat
        /\ ~Split(l[k]) => Len(Code(l[k], e)) = FieldLength(l[k])
    BY ListFields
  <2>2. k - 1 \in 0..n /\ k \in 0..n
    BY <1>1
  <2>3. h[k - 1] \in Nat /\ h[k] \in Nat /\ h[k] = h[k - 1] + FieldLength(l[k])
    BY <1>1, <2>2
  <2>4. Len(Code(l[k], e)) \in Nat
    BY <2>1, LenProperties
  <2> QED  BY <2>1, <2>2, <2>3, <2>4
<1>4. h[n] \in Nat /\ \A i \in 1..head : H[i] \in Byte
  <2>1. h[n] \in Nat /\ h[n] \in Int
    BY <1>1
  <2> DEFINE d == Digits(h[n], head)
  <2>2. d \in Seq(Byte) /\ Len(d) = head
    BY <2>1, DigitsType
  <2> HIDE DEF d
  <2>3. Ordered(d, e) \in Seq(Byte) /\ Len(Ordered(d, e)) = head
    BY <2>2, OrderedTwice
  <2> QED  BY <2>1, <2>3 DEF d
<1> HIDE DEF n, H
<1>5. 0 \in U
  <2> HIDE DEF U, Stand
  <2>1. \A i \in 1..head : layer[0][i] = H[i]
    BY DEF H, n, Layers
  <2>2. \A k \in 1..0 : Stand(0, k)
    OBVIOUS
  <2> QED  BY <2>1, <2>2 DEF U
<1>6. ASSUME NEW m \in Nat, m \in U PROVE m + 1 \in U
  <2>1. SUFFICES ASSUME m + 1 <= n
                 PROVE  /\ \A i \in 1..head : layer[m + 1][i] = H[i]
                        /\ \A k \in 1..(m + 1) : Stand(m + 1, k)
    OBVIOUS
  <2> DEFINE at == head + h[m]
             c == enc[m + 1]
             old == layer[m]
             new == layer[m + 1]
  <2>2. m + 1 \in 1..n /\ (m + 1) - 1 = m /\ m \in 0..n /\ m + 1 \in 0..n
    BY <1>1, <2>1
  <2>3. new = Overlay(old, at, c) /\ at \in Nat /\ at \in Int
    <3>1. new = Overlay(layer[(m + 1) - 1], head + h[(m + 1) - 1], c)
      BY <2>2 DEF n, Layers
    <3> QED  BY <1>2, <2>2, <3>1
  <2>4. old \in [1..N -> T] /\ c \in Seq(T) /\ Len(c) \in Nat /\ Begins(c, Code(l[m + 1], e))
    <3>1. Begins(c, Code(l[m + 1], e))
      BY <2>2 DEF n, Layers
    <3>2. layer \in [0..n -> [1..N -> T]] /\ enc \in [1..n -> Seq(T)]
      BY DEF n, Layers
    <3> QED  BY <2>2, <3>1, <3>2
  <2>5. \A i \in 1..head : old[i] = H[i]
    BY <1>6, <2>1, <1>1
  <2>6. \A k \in 1..m : Stand(m, k)
    BY <1>6, <2>1, <1>1
  <2> HIDE DEF old, new, c, U
  <2>7. at <= N /\ head <= at /\ at = head + h[m]
    BY <1>1, <1>2, <2>2
  <2> HIDE DEF at
  <2>8. /\ \A i \in 1..N : i <= at => new[i] = old[i]
        /\ \A i \in 1..Len(c) : at >= 0 /\ at + i <= N => new[at + i] = c[i]
    <3>1. N \in Nat /\ at \in Int /\ old \in [1..N -> T] /\ c \in Seq(T)
      BY <1>2, <2>3, <2>4
    <3>2. \A i \in 1..N : i <= at => Overlay(old, at, c)[i] = old[i]
      BY <3>1, Overlaid
    <3>3. \A i \in 1..Len(c) : at >= 0 /\ at + i <= N => Overlay(old, at, c)[at + i] = c[i]
      BY <3>1, Overlaid
    <3> QED  BY <2>3, <3>2, <3>3
  <2>9. ASSUME NEW i \in 1..head PROVE new[i] = H[i]
    <3>1. i \in 1..N /\ i <= at
      BY <1>2, <2>3, <2>7
    <3> QED  BY <2>5, <2>8, <3>1
  <2>10. ASSUME NEW k \in 1..m, NEW i \in 1..Len(Code(l[k], e))
         PROVE  new[head + h[k - 1] + i] = Code(l[k], e)[i]
    <3>1. k \in 1..n /\ k \in 0..n
      BY <1>1, <2>1
    <3>2. h[k] <= h[m] /\ h[m] \in Nat
      <4>1. m \in k..n
        BY <1>1, <2>1
      <4> QED  BY <1>1, <2>2, <3>1, <4>1, EndsGrow DEF n
    <3>3. h[k - 1] + Len(Code(l[k], e)) <= h[k] /\ h[k - 1] \in Nat
          /\ Len(Code(l[k], e)) \in Nat /\ h[k] \in Nat
      BY <1>3, <3>1
    <3>4. head + h[k - 1] + i \in 1..N /\ head + h[k - 1] + i <= at
      <4> DEFINE x == h[k - 1]
                 y == Len(Code(l[k], e))
                 z == h[m]
      <4>1. i \in 1..y /\ x \in Nat /\ y \in Nat /\ z \in Nat /\ x + y <= z
        BY <3>2, <3>3
      <4>2. at = head + z /\ at <= N /\ N \in Nat /\ at \in Nat /\ head \in Nat
        BY <1>2, <2>3, <2>7
      <4> HIDE DEF x, y, z
      <4>3. head + x + i \in 1..N /\ head + x + i <= at
        BY <4>1, <4>2
      <4> QED  BY <4>3 DEF x
    <3>5. old[head + h[k - 1] + i] = Code(l[k], e)[i]
      BY <2>6 DEF old
    <3> QED  BY <2>8, <3>4, <3>5
  <2>11. ASSUME NEW i \in 1..Len(Code(l[m + 1], e))
         PROVE  new[head + h[(m + 1) - 1] + i] = Code(l[m + 1], e)[i]
    <3>1. Len(Code(l[m + 1], e)) <= Len(c) /\ c[i] = Code(l[m + 1], e)[i]
      BY <2>4 DEF Begins
    <3>2. /\ h[m] + Len(Code(l[m + 1], e)) <= h[m + 1] /\ Len(Code(l[m + 1], e)) \in Nat
          /\ h[m] \in Nat /\ h[m + 1] \in Nat
      BY <1>3, <2>2
    <3>3. i \in 1..Len(c)
      BY <2>4, <3>1, <3>2
    <3>4. head + h[m + 1] <= N /\ head + h[m + 1] \in Nat
      BY <1>2, <2>2
    <3>5. at >= 0 /\ at + i <= N
      <4> DEFINE x == h[m]
                 y == Len(Code(l[m + 1], e))
                 z == h[m + 1]
      <4>1. i \in 1..y /\ x \in Nat /\ y \in Nat /\ z \in Nat /\ x + y <= z
        BY <3>2
      <4>2. at = head + x /\ head + z <= N /\ N \in Nat /\ at \in Nat /\ head \in Nat
        BY <1>2, <2>3, <2>7, <3>4
      <4> HIDE DEF x, y, z
      <4> QED  BY <4>1, <4>2
    <3>6. new[at + i] = c[i]
      BY <2>8, <3>3, <3>5
    <3>7. head + h[(m + 1) - 1] + i = at + i
      BY <2>2, <2>7
    <3> QED  BY <3>1, <3>6, <3>7
  <2>12. \A k \in 1..(m + 1) : Stand(m + 1, k)
    <3>1. ASSUME NEW k \in 1..(m + 1) PROVE Stand(m + 1, k)
      <4>1. CASE k \in 1..m
        BY <2>10, <4>1 DEF new
      <4>2. CASE k = m + 1
        BY <2>11, <4>2 DEF new
      <4>3. k \in 1..m \/ k = m + 1
        OBVIOUS
      <4> QED  BY <4>1, <4>2, <4>3
    <3> QED  BY <3>1
  <2> QED  BY <2>9, <2>12 DEF new
<1>7. /\ \A i \in 1..head : layer[n][i] = H[i]
      /\ \A k \in 1..n : Stand(n, k)
  <2> HIDE DEF U
  <2>1. n \in U
    BY <1>1, <1>5, <1>6, Counting
  <2> QED  BY <1>1, <2>1 DEF U
<1> DEFINE B == layer[n]
<1>8. B \in [1..N -> T]
  <2>1. layer \in [0..n -> [1..N -> T]] /\ n \in 0..n
    BY <1>1 DEF n, Layers
  <2> QED  BY <2>1
<1> HIDE DEF B
<1>9. ASSUME NoSplit(l), NEW i \in 1..N PROVE B[i] \in Byte
  <2>1. CASE i <= head
    <3>1. i \in 1..head
      BY <2>1
    <3> QED  BY <1>4, <1>7, <3>1 DEF B
  <2>2. CASE ~ (i <= head)
    <3>1. i - head \in 1..h[n] /\ n \in 0..Len(l)
      BY <1>1, <1>2, <1>4, <2>2 DEF n
    <3>2. PICK k \in 1..n : h[k - 1] < i - head /\ i - head <= h[k]
      BY <3>1, EndsCover DEF n
    <3>3. h[k] = h[k - 1] + Len(Code(l[k], e)) /\ h[k - 1] \in Nat /\ Len(Code(l[k], e)) \in Nat
          /\ Code(l[k], e) \in Seq(Byte)
      BY <1>3, <1>9 DEF NoSplit, n
    <3> DEFINE j == i - head - h[k - 1]
    <3>4. j \in 1..Len(Code(l[k], e)) /\ head + h[k - 1] + j = i
      <4> DEFINE x == h[k - 1]
                 y == Len(Code(l[k], e))
      <4>1. x \in Nat /\ y \in Nat /\ x < i - head /\ i - head <= x + y
        BY <3>2, <3>3
      <4>2. i \in Nat /\ head \in Nat
        BY <1>2
      <4> HIDE DEF x, y
      <4>3. i - head - x \in 1..y /\ head + x + (i - head - x) = i
        BY <4>1, <4>2
      <4> QED  BY <4>3 DEF x, y
    <3> HIDE DEF j
    <3>5. B[head + h[k - 1] + j] = Code(l[k], e)[j]
      BY <1>7, <3>4 DEF B
    <3>6. Code(l[k], e)[j] \in Byte
      BY <3>3, <3>4
    <3> QED  BY <3>4, <3>5, <3>6
  <2> QED  BY <2>1, <2>2
<1>10. B \in Seq(T) /\ B \in Seq(Stored) /\ Len(B) = N /\ (NoSplit(l) => B \in Seq(Byte))
  <2>1. ASSUME NoSplit(l) PROVE B \in Seq(Byte)
    <3>1. B \in [1..N -> Byte]
      BY <1>8, <1>9, <2>1
    <3> QED  BY <1>2, <3>1
  <2>2. B \in Seq(T) /\ Len(B) = N
    BY <1>2, <1>8
  <2>3. T \subseteq Stored
    BY DEF Layers
  <2>4. B \in Seq(Stored)
    BY <2>2, <2>3
  <2> QED  BY <2>1, <2>2, <2>4
<1>11. ASSUME NEW k \in 1..n PROVE Holds(B, head + h[k - 1], Code(l[k], e))
  <2>1. head + h[k] <= N /\ h[k - 1] + Len(Code(l[k], e)) <= h[k] /\ h[k - 1] \in Nat
        /\ Len(Code(l[k], e)) \in Nat /\ h[k] \in Nat
    BY <1>2, <1>3
  <2>2. head + h[k - 1] + Len(Code(l[k], e)) <= Len(B)
    BY <1>10, <2>1
  <2> QED  BY <1>7, <2>2 DEF B, Holds
<1> QED  BY <1>2, <1>7, <1>10, <1>11 DEF Laid, B, H, n

\* What the server writes of a text is bytes, however little room there is.
LEMMA FittingType ==
    ASSUME NEW d \in Seq(Byte), NEW room \in Int
    PROVE  Node!Fitting(d, room) \in Seq(Byte)
<1> DEFINE x == SubSeq(d, 1, room)
<1>1. CASE Len(d) <= room
  BY <1>1 DEF Node!Fitting
<1>2. CASE ~ (Len(d) <= room)
  <2>1. Len(d) \in Nat /\ 1 \in Int /\ \A i \in 1..Len(d) : d[i] \in Byte
    OBVIOUS
  <2>2. \A i \in 1..room : d[i] \in Byte
    BY <1>2, <2>1
  <2>3. x \in Seq(Byte)
    BY <2>1, <2>2, SubSeqProperties
  <2> HIDE DEF x
  <2>4. Len(x) \in Nat
    BY <2>3
  <2>5. 0 \in 0..Len(x) /\ \A i \in 1..0 : i + CharLength[x[i]] - 1 <= 0
    BY <2>4
  <2>6. WholeChars(x) \in Seq(Byte)
    BY <2>3, <2>5, CharLengths, KeepsWhole
  <2>7. Node!Fitting(d, room) = WholeChars(x)
    BY <1>2, SameTexts DEF Node!Fitting, x
  <2> QED  BY <2>6, <2>7
<1> QED  BY <1>1, <1>2

\* The whole characters that there is room for are written.
LEMMA FittingBegins ==
    ASSUME NEW d \in Seq(Byte), NEW room \in Int, NEW w \in 0..Len(d), w <= room,
           \A i \in 1..w : i + CharLength[d[i]] - 1 <= w
    PROVE  w <= Len(Node!Fitting(d, room)) /\ \A i \in 1..w : Node!Fitting(d, room)[i] = d[i]
<1> DEFINE x == SubSeq(d, 1, room)
<1>1. CASE Len(d) <= room
  BY <1>1 DEF Node!Fitting
<1>2. CASE ~ (Len(d) <= room)
  <2>1. room \in 0..Len(d) /\ room \in Nat /\ w \in Nat
    BY <1>2
  <2>2. x \in Seq(Byte) /\ Len(x) = room /\ \A i \in 1..room : x[i] = d[i]
    BY <2>1, FrontOf
  <2> HIDE DEF x
  <2>3. \A i \in 1..w : x[i] = d[i] /\ i + CharLength[x[i]] - 1 <= w
    <3>1. \A i \in 1..w : i \in 1..room
      BY <2>1
    <3> QED  BY <2>2, <3>1
  <2>4. w \in 0..Len(x)
    BY <2>1, <2>2
  <2>5. /\ WholeLength(x) \in w..Len(x) /\ Len(WholeChars(x)) = WholeLength(x)
        /\ \A i \in 1..WholeLength(x) : WholeChars(x)[i] = x[i]
    BY <2>2, <2>3, <2>4, CharLengths, KeepsWhole
  <2>6. w <= WholeLength(x) /\ \A i \in 1..w : i \in 1..WholeLength(x)
    BY <2>1, <2>2, <2>5
  <2>7. Node!Fitting(d, room) = WholeChars(x)
    BY <1>2, SameTexts DEF Node!Fitting, x
  <2> QED  BY <2>3, <2>5, <2>6, <2>7
<1> QED  BY <1>1, <1>2

\* The bytes of a text that is longer than its field, in its place.
LEMMA LongText ==
    ASSUME NEW f, f.t = "vstring", f.d \in Seq(Byte), WellFormed(f.d), f.len \in Nat,
           Len(f.d) > f.len, NEW e
    PROVE  /\ Code(f, e) \in Seq(Byte) /\ Len(Code(f, e)) \in 0..f.len
           /\ \A i \in 1..Len(Code(f, e)) : /\ Code(f, e)[i] = f.d[i]
                                           /\ i + CharLength[f.d[i]] - 1 <= Len(Code(f, e))
<1> DEFINE d == f.d
           n == f.len
           x == SubSeq(d, 1, n)
<1>1. d \in Seq(Byte) /\ n \in Nat /\ Len(d) \in Nat /\ n \in 0..Len(d) /\ WellFormed(d) /\ Len(d) > n
  <2>1. Len(f.d) \in Nat
    OBVIOUS
  <2> QED  BY <2>1
<1>2. Code(f, e) = (IF Split(f) THEN WholeChars(x) ELSE Padded(d, n)) /\ (Split(f) <=> Cut(x))
  BY VStringKind DEF Split
<1> HIDE DEF d, n
<1>3. /\ WholeLength(x) \in 0..n /\ WholeChars(x) \in Seq(Byte) /\ Len(WholeChars(x)) = WholeLength(x)
      /\ \A i \in 1..WholeLength(x) : /\ WholeChars(x)[i] = d[i]
                                      /\ i + CharLength[d[i]] - 1 <= WholeLength(x)
  BY <1>1, WholeEnds
<1>4. x \in Seq(Byte) /\ Len(x) = n
  BY <1>1, FrontOf
<1> HIDE DEF x
<1>5. CASE Split(f)
  BY <1>2, <1>3, <1>5 DEF d, n
<1>6. CASE ~Split(f)
  <2> DEFINE c == Padded(d, n)
  <2>1. c \in Seq(Byte) /\ Len(c) = n /\ \A i \in 1..n : c[i] = IF i <= Len(d) THEN d[i] ELSE 0
    BY <1>1, PaddedType
  <2>2. Code(f, e) = c
    BY <1>2, <1>6
  <2> HIDE DEF c
  <2>3. WholeLength(x) = n
    BY <1>2, <1>4, <1>6 DEF WholeLength
  <2>4. \A i \in 1..n : c[i] = d[i] /\ i + CharLength[d[i]] - 1 <= n
    BY <1>1, <1>3, <2>1, <2>3
  <2>5. n \in 0..n
    BY <1>1
  <2> QED  BY <2>1, <2>2, <2>4, <2>5 DEF d, n
<1> QED  BY <1>5, <1>6

\* What a field writes begins with its bytes; a string too long for its field goes on.
LEMMA EncodedBegins ==
    ASSUME NEW f, Node!IsField(f), NEW e
    PROVE  /\ Encoded(f, e) \in Seq(Byte) /\ Begins(Encoded(f, e), Code(f, e))
           /\ \A room \in Int :
                 /\ Node!Encoded(f, e, room) \in Seq(Byte)
                 /\ FieldLength(f) <= room => Begins(Node!Encoded(f, e, room), Code(f, e))
<1>1. Code(f, e) \in Seq(Byte)
  BY CodeType
<1>2. CASE f.t # "vstring"
  <2>1. Encoded(f, e) = Code(f, e) /\ \A room : Node!Encoded(f, e, room) = Code(f, e)
    <3>1. \/ f.t \in NumberTypes \/ f.t = "double" \/ f.t = "float" \/ f.t = "string"
          \/ f.t = "buffer" \/ f.t = "byteArray"
      BY <1>2, FieldKinds
    <3>2. CASE f.t \in NumberTypes
      BY <3>2, NumberKind
    <3>3. CASE f.t = "double"
      BY <3>3, DoubleKind
    <3>7. CASE f.t = "float"
      BY <3>7, FloatKind
    <3>4. CASE f.t = "string"
      BY <3>4, StringKind
    <3>5. CASE f.t = "buffer"
      BY <3>5, BufferKind
    <3>6. CASE f.t = "byteArray"
      BY <3>6, ByteArrayKind
    <3> QED  BY <3>1, <3>2, <3>3, <3>4, <3>5, <3>6, <3>7
  <2> DEFINE c == Code(f, e)
  <2>2. c \in Seq(Byte)
    BY <1>1
  <2> HIDE DEF c
  <2>3. Begins(c, c)
    BY <2>2 DEF Begins
  <2> QED  BY <2>1, <2>2, <2>3 DEF c
<1>3. CASE f.t = "vstring"
  <2> DEFINE d == f.d
             n == f.len
             c == Code(f, e)
             z == [i \in 1..(n - Len(d)) |-> 0]
             Fit(room) == Node!Fitting(d, room)
  <2>1. /\ Encoded(f, e) = IF Len(d) < n THEN Padded(d, n) ELSE d
        /\ c = IF Split(f) THEN WholeChars(SubSeq(d, 1, n)) ELSE Padded(d, n)
        /\ FieldLength(f) = n
        /\ \A room : Node!Encoded(f, e, room) = Fit(room) \o z
    BY <1>3, VStringKind
  <2>2. f.t \notin NumberTypes
    BY <1>3 DEF NumberTypes, Width
  <2>3. d \in Seq(Byte) /\ n \in Nat /\ Len(d) \in Nat /\ WellFormed(d)
    <3>1. f.d \in Seq(Byte \ {0}) /\ f.len \in Nat \ {0} /\ WellFormed(f.d)
      BY <1>3, <2>2, FieldKinds
    <3>2. \A s \in Seq(Byte \ {0}) : s \in Seq(Byte)
      OBVIOUS
    <3> QED  BY <3>1, <3>2
  <2>4. Split(f) => Len(d) > n
    BY DEF Split
  <2>5. Len(d) > n => /\ Len(c) \in 0..n
                      /\ \A i \in 1..Len(c) : c[i] = d[i] /\ i + CharLength[d[i]] - 1 <= Len(c)
    BY <1>3, <2>3, LongText
  <2> HIDE DEF d, n
  <2>6. z \in Seq(Byte) /\ Len(z) = (IF Len(d) < n THEN n - Len(d) ELSE 0) /\ \A i \in 1..Len(z) : z[i] = 0
    <3>1. 0 \in Byte
      BY RadixFacts DEF Byte
    <3>2. CASE Len(d) < n
      <4> DEFINE m == n - Len(d)
      <4>1. m \in Nat
        BY <2>3, <3>2
      <4> HIDE DEF m
      <4>2. z = [i \in 1..m |-> 0]
        BY DEF m
      <4> HIDE DEF z
      <4>3. z \in Seq(Byte) /\ Len(z) = m /\ \A i \in 1..m : z[i] = 0
        BY <3>1, <4>1, <4>2
      <4> QED  BY <3>2, <4>3 DEF m
    <3>3. CASE ~ (Len(d) < n)
      <4>1. 1..(n - Len(d)) = {}
        BY <2>3, <3>3
      <4>2. z = <<>>
        BY <4>1
      <4> HIDE DEF z
      <4> QED  BY <3>3, <4>2
    <3> QED  BY <3>2, <3>3
  <2> HIDE DEF z
  <2>7. ASSUME NEW room \in Int
        PROVE  /\ Fit(room) \in Seq(Byte) /\ Fit(room) \o z \in Seq(Byte)
               /\ Len(Fit(room) \o z) = Len(Fit(room)) + Len(z)
               /\ \A i \in 1..(Len(Fit(room)) + Len(z)) :
                     (Fit(room) \o z)[i] = IF i <= Len(Fit(room)) THEN Fit(room)[i]
                                           ELSE z[i - Len(Fit(room))]
    <3> DEFINE y == Fit(room)
    <3>1. y \in Seq(Byte)
      BY <2>3, FittingType
    <3> HIDE DEF y
    <3>2. /\ y \o z \in Seq(Byte) /\ Len(y \o z) = Len(y) + Len(z)
          /\ \A i \in 1..(Len(y) + Len(z)) : (y \o z)[i] = IF i <= Len(y) THEN y[i] ELSE z[i - Len(y)]
      BY <2>6, <3>1, ConcatProperties
    <3> QED  BY <3>1, <3>2 DEF y
  <2> HIDE DEF Fit, c
  <2>8. CASE Len(d) > n
    <3>1. Encoded(f, e) = d
      BY <2>1, <2>3, <2>8
    <3>2. Len(c) \in 0..n /\ \A i \in 1..Len(c) : c[i] = d[i] /\ i + CharLength[d[i]] - 1 <= Len(c)
      BY <2>5, <2>8
    <3>3. Begins(d, c)
      <4>1. Len(c) <= Len(d)
        BY <2>3, <2>8, <3>2
      <4> QED  BY <3>2, <4>1 DEF Begins
    <3>4. Len(z) = 0
      BY <2>3, <2>6, <2>8
    <3>5. ASSUME NEW room \in Int, n <= room PROVE Begins(Fit(room) \o z, c)
      <4> DEFINE y == Fit(room)
                 w == Len(c)
      <4>1. w \in 0..Len(d) /\ w \in Nat /\ w <= room
        BY <2>3, <2>8, <3>2, <3>5
      <4>2. w <= Len(y) /\ \A i \in 1..w : y[i] = d[i]
        BY <2>3, <3>2, <4>1, FittingBegins DEF Fit
      <4>3. y \in Seq(Byte) /\ Len(y \o z) = Len(y) + Len(z)
            /\ \A i \in 1..(Len(y) + Len(z)) : (y \o z)[i] = IF i <= Len(y) THEN y[i] ELSE z[i - Len(y)]
        BY <2>7
      <4>4. Len(y) \in Nat
        BY <4>3
      <4> HIDE DEF y
      <4>5. \A i \in 1..w : i \in 1..(Len(y) + Len(z)) /\ i <= Len(y)
        BY <3>4, <4>1, <4>2, <4>4
      <4>6. \A i \in 1..w : (y \o z)[i] = c[i]
        BY <3>2, <4>2, <4>3, <4>5
      <4>7. w <= Len(y \o z)
        BY <3>4, <4>1, <4>2, <4>3, <4>4
      <4> QED  BY <4>6, <4>7 DEF Begins, y
    <3>6. ASSUME NEW room \in Int
          PROVE  /\ Node!Encoded(f, e, room) \in Seq(Byte)
                 /\ FieldLength(f) <= room => Begins(Node!Encoded(f, e, room), c)
      <4>1. Node!Encoded(f, e, room) = Fit(room) \o z /\ Fit(room) \o z \in Seq(Byte)
        BY <2>1, <2>7
      <4>2. FieldLength(f) <= room => Begins(Fit(room) \o z, c)
        BY <2>1, <3>5
      <4> QED  BY <4>1, <4>2
    <3> QED  BY <2>3, <3>1, <3>3, <3>6 DEF c
  <2>9. CASE ~ (Len(d) > n)
    <3>1. c = Padded(d, n)
      BY <2>1, <2>4, <2>9
    <3>2. c \in Seq(Byte) /\ Len(c) = n /\ \A i \in 1..n : c[i] = IF i <= Len(d) THEN d[i] ELSE 0
      BY <2>3, <3>1, PaddedType
    <3>3. Encoded(f, e) \in Seq(Byte) /\ Begins(Encoded(f, e), c)
      <4>1. CASE Len(d) < n
        <5>1. Begins(c, c)
          BY <2>3, <3>2 DEF Begins
        <5> QED  BY <2>1, <3>1, <3>2, <4>1, <5>1
      <4>2. CASE ~ (Len(d) < n)
        <5>1. Len(d) = n
          BY <2>3, <2>9, <4>2
        <5>2. Begins(d, c)
          BY <2>3, <3>2, <5>1 DEF Begins
        <5> QED  BY <2>1, <2>3, <4>2, <5>2
      <4> QED  BY <4>1, <4>2
    <3>4. ASSUME NEW room \in Int, n <= room PROVE Begins(Fit(room) \o z, c)
      <4> DEFINE y == d \o z
      <4>1. Fit(room) = d
        <5>1. Len(d) <= room
          BY <2>3, <2>9, <3>4
        <5> QED  BY <5>1 DEF Fit, Node!Fitting
      <4>2. Len(y) = Len(d) + Len(z)
            /\ \A i \in 1..(Len(d) + Len(z)) : y[i] = IF i <= Len(d) THEN d[i] ELSE z[i - Len(d)]
        BY <2>7, <4>1
      <4> HIDE DEF y
      <4>3. Len(d) + Len(z) = n /\ Len(z) \in Nat
        BY <2>3, <2>6, <2>9
      <4>4. ASSUME NEW i \in 1..n PROVE y[i] = c[i]
        <5>1. CASE i <= Len(d)
          BY <3>2, <4>2, <4>3, <5>1
        <5>2. CASE ~ (i <= Len(d))
          <6>1. i - Len(d) \in 1..Len(z)
            BY <2>3, <4>3, <5>2
          <6> QED  BY <2>6, <3>2, <4>2, <4>3, <5>2, <6>1
        <5> QED  BY <5>1, <5>2
      <4>5. Begins(y, c)
        BY <2>3, <3>2, <4>2, <4>3, <4>4 DEF Begins
      <4> QED  BY <4>1, <4>5 DEF y
    <3>5. ASSUME NEW room \in Int
          PROVE  /\ Node!Encoded(f, e, room) \in Seq(Byte)
                 /\ FieldLength(f) <= room => Begins(Node!Encoded(f, e, room), c)
      <4>1. Node!Encoded(f, e, room) = Fit(room) \o z /\ Fit(room) \o z \in Seq(Byte)
        BY <2>1, <2>7
      <4>2. FieldLength(f) <= room => Begins(Fit(room) \o z, c)
        BY <2>1, <3>4
      <4> QED  BY <4>1, <4>2
    <3> QED  BY <3>3, <3>5 DEF c
  <2> QED  BY <2>8, <2>9
<1> QED  BY <1>2, <1>3

\* Where a field goes: a buffer to the end of the N bytes, all others to the index.
Place(f, index, N) == IF f.t = "buffer" THEN N - Len(f.d) ELSE index

\* The bytes of a message being packed.
Filling(N, T) == [1..N -> T]

\* The states of the loop of the browser's pack, whose buffer is new and all zeros, and of
\* the server's, whose buffer is not.
WebLoop(N) == [buffer : Filling(N, Byte), index : Nat, fits : BOOLEAN]
NodeLoop(N) == [buffer : Filling(N, Stored), index : Nat]

\* Bytes and what nothing wrote to are in a message that the server packs.
LEMMA BytesFill == Byte \subseteq Stored /\ Radix \in Stored /\ 0 \in Byte
BY RadixFacts DEF Byte, Stored

\* A buffer of the loop with what a field writes laid over it.
LEMMA FilledOn ==
    ASSUME NEW N \in Nat, NEW T, Byte \subseteq T, NEW b \in Filling(N, T), NEW c \in Seq(Byte),
           NEW at \in Int
    PROVE  Overlay(b, at, c) \in Filling(N, T) /\ Len(b) = N
<1>2. b \in [1..N -> T]
  BY DEF Filling
<1>3. c \in Seq(T)
  OBVIOUS
<1>4. Overlay(b, at, c) \in [1..N -> T]
  BY <1>2, <1>3, Overlaid
<1>5. Len(b) = N
  BY <1>2
<1> QED  BY <1>4, <1>5 DEF Filling

\* Where a field goes is a number.
LEMMA PlaceType ==
    ASSUME NEW f \in Fields, NEW index \in Nat, NEW N \in Nat
    PROVE  Place(f, index, N) \in Int /\ FieldLength(f) \in Nat /\ Node!FieldLength(f) = FieldLength(f)
<1>1. Node!IsField(f)
  BY FieldsAre
<1>2. f.t = "buffer" => f.d \in Seq(Byte)
  <2>1. f.t = "buffer" => f.t \notin NumberTypes
    BY DEF NumberTypes, Width
  <2> QED  BY <1>1, <2>1, FieldKinds
<1>3. f.t = "buffer" => Len(f.d) \in Nat
  BY <1>2
<1> QED  BY <1>1, <1>3, CodeType DEF Place

\* One turn of the browser's loop.
LEMMA WebTurn ==
    ASSUME NEW N \in Nat, NEW p \in WebLoop(N), NEW f \in Fields, NEW e
    PROVE  /\ PackField(p, f, e) \in WebLoop(N)
           /\ PackField(p, f, e).buffer = Overlay(p.buffer, Place(f, p.index, N), Encoded(f, e))
           /\ PackField(p, f, e).index = p.index + FieldLength(f)
<1> DEFINE at == Place(f, p.index, N)
           b == Overlay(p.buffer, at, Encoded(f, e))
           j == p.index + FieldLength(f)
           t == p.fits /\ at + Len(Encoded(f, e)) <= Len(p.buffer)
<1>1. p.buffer \in Filling(N, Byte) /\ p.index \in Nat /\ p.fits \in BOOLEAN
  BY DEF WebLoop
<1>2. at \in Int /\ j \in Nat
  BY <1>1, PlaceType
<1>3. Encoded(f, e) \in Seq(Byte)
  BY FieldsAre, EncodedBegins
<1>4. b \in Filling(N, Byte) /\ Len(p.buffer) = N
  <2> HIDE DEF at
  <2> QED  BY <1>1, <1>2, <1>3, FilledOn
<1>5. PackField(p, f, e) = [buffer |-> b, index |-> j, fits |-> t]
  BY <1>4 DEF PackField, Place
<1>6. t \in BOOLEAN
  BY <1>1
<1> HIDE DEF b, j, t
<1> QED  BY <1>2, <1>4, <1>5, <1>6 DEF WebLoop, b, j

\* One turn of the server's loop.
LEMMA NodeTurn ==
    ASSUME NEW N \in Nat, NEW p \in NodeLoop(N), NEW f \in Fields, NEW e
    PROVE  /\ Node!PackField(p, f, e) \in NodeLoop(N)
           /\ Node!PackField(p, f, e).buffer
                 = Overlay(p.buffer, Place(f, p.index, N), Node!Encoded(f, e, N - p.index))
           /\ Node!PackField(p, f, e).index = p.index + FieldLength(f)
<1> DEFINE at == Place(f, p.index, N)
           c == Node!Encoded(f, e, N - p.index)
           b == Overlay(p.buffer, at, c)
           j == p.index + FieldLength(f)
<1>1. p.buffer \in Filling(N, Stored) /\ p.index \in Nat
  BY DEF NodeLoop
<1>2. at \in Int /\ j \in Nat /\ Node!FieldLength(f) = FieldLength(f)
  BY <1>1, PlaceType
<1>3. c \in Seq(Byte)
  <2>1. N - p.index \in Int
    BY <1>1
  <2> QED  BY <2>1, FieldsAre, EncodedBegins
<1>4. b \in Filling(N, Stored) /\ Len(p.buffer) = N
  <2> HIDE DEF at, c
  <2> QED  BY <1>1, <1>2, <1>3, BytesFill, FilledOn
<1>5. Node!PackField(p, f, e) = [buffer |-> b, index |-> j]
  <2>1. CASE f.t = "buffer"
    <3>1. FieldLength(f) = Len(f.d) /\ c = f.d
      BY <2>1, BufferKind
    <3>2. Node!PackField(p, f, e) = [buffer |-> Node!Overlay(p.buffer, Len(p.buffer) - Len(f.d), f.d),
                                     index |-> p.index + Len(f.d)]
      BY <2>1 DEF Node!PackField
    <3> QED  BY <1>4, <2>1, <3>1, <3>2, SameBytes DEF Place
  <2>2. CASE f.t # "buffer"
    <3>1. Node!PackField(p, f, e) = [buffer |-> Node!Overlay(p.buffer, p.index, c),
                                     index |-> p.index + Node!FieldLength(f)]
      BY <1>4, <2>2 DEF Node!PackField
    <3> QED  BY <1>2, <2>2, <3>1, SameBytes DEF Place
  <2> QED  BY <2>1, <2>2
<1> HIDE DEF b, j
<1> QED  BY <1>2, <1>4, <1>5 DEF NodeLoop, b, j

\* What the loop of pack goes through: layer is its buffer and index its index after each
\* field, and enc what the fields write, those that the buffer has room for.
Packs(layer, index, enc, N, T, l, e, head) ==
    /\ Byte \subseteq T /\ T \subseteq Stored
    /\ layer \in [0..Len(l) -> Filling(N, T)] /\ index \in [0..Len(l) -> Nat]
    /\ enc \in [1..Len(l) -> Seq(Byte)]
    /\ \A k \in 1..Len(l) :
          index[k - 1] + FieldLength(l[k]) <= N => Begins(enc[k], Code(l[k], e))
    /\ index[0] = head
    /\ \A k \in 1..Len(l) :
          /\ layer[k] = Overlay(layer[k - 1], Place(l[k], index[k - 1], N), enc[k])
          /\ index[k] = index[k - 1] + FieldLength(l[k])

\* After the loop the buffer is the message.
LEMMA PacksLaid ==
    ASSUME NEW l \in Seq(Fields), BufferLast(l), NEW h, Ends(h, l), NEW e, NEW head \in 0..8,
           NEW layer, NEW index, NEW enc, NEW N, N = head + h[Len(l)], NEW T,
           Packs(layer, index, enc, N, T, l, e, head),
           \A i \in 1..head : layer[0][i] = Ordered(Digits(h[Len(l)], head), e)[i]
    PROVE  Laid(layer[Len(l)], l, h, e, head) /\ layer[Len(l)] \in Seq(T)
<1> DEFINE n == Len(l)
           U == {k \in Nat : k <= n => index[k] = head + h[k]}
<1>1. n \in Nat /\ h \in [0..n -> Nat] /\ h[0] = 0 /\ \A k \in 1..n : h[k] = h[k - 1] + FieldLength(l[k])
  BY DEF Ends
<1>2. index \in [0..n -> Nat] /\ index[0] = head
      /\ \A k \in 1..n : index[k] = index[k - 1] + FieldLength(l[k])
  BY DEF Packs
<1>3. \A k \in 1..n : FieldLength(l[k]) \in Nat
  BY ListFields
<1> HIDE DEF n
<1>4. 0 \in U
  BY <1>1, <1>2
<1>5. ASSUME NEW k \in Nat, k \in U PROVE k + 1 \in U
  <2>1. SUFFICES ASSUME k + 1 <= n PROVE index[k + 1] = head + h[k + 1]
    OBVIOUS
  <2>2. k + 1 \in 1..n /\ (k + 1) - 1 = k /\ k \in 0..n
    BY <1>1, <2>1
  <2>3. index[k] = head + h[k] /\ h[k] \in Nat
    BY <1>1, <1>5, <2>1, <2>2
  <2>4. index[k + 1] = index[k] + FieldLength(l[k + 1]) /\ h[k + 1] = h[k] + FieldLength(l[k + 1])
    BY <1>1, <1>2, <2>2
  <2>5. FieldLength(l[k + 1]) \in Nat
    BY <1>3, <2>2
  <2> QED  BY <2>3, <2>4, <2>5
<1> HIDE DEF U
<1>6. \A k \in 0..n : index[k] = head + h[k]
  <2>1. Nat \subseteq U
    BY <1>4, <1>5, Counting
  <2> QED  BY <2>1 DEF U
<1>7. ASSUME NEW k \in 1..n PROVE Place(l[k], index[k - 1], N) = head + h[k - 1]
  <2>1. k - 1 \in 0..n /\ h[k - 1] \in Nat
    BY <1>1
  <2>2. index[k - 1] = head + h[k - 1]
    BY <1>6, <2>1
  <2>3. CASE l[k].t = "buffer"
    <3>1. k = n
      BY <2>3 DEF BufferLast, n
    <3>2. FieldLength(l[k]) = Len(l[k].d) /\ FieldLength(l[k]) \in Nat
      BY <1>3, <2>3, BufferKind
    <3>3. h[n] = h[k - 1] + Len(l[k].d) /\ N = head + h[n]
      BY <1>1, <3>1, <3>2 DEF n
    <3>4. N - Len(l[k].d) = head + h[k - 1]
      <4> DEFINE x == h[k - 1]
                 y == Len(l[k].d)
      <4>1. x \in Nat /\ y \in Nat /\ N = head + (x + y) /\ head \in Nat
        BY <2>1, <3>2, <3>3
      <4> HIDE DEF x, y
      <4>2. N - y = head + x
        BY <4>1
      <4> QED  BY <4>2 DEF x, y
    <3> QED  BY <2>3, <3>4 DEF Place
  <2>4. CASE l[k].t # "buffer"
    BY <2>2, <2>4 DEF Place
  <2> QED  BY <2>3, <2>4
<1>8. layer \in [0..n -> [1..N -> T]]
  BY DEF Packs, Filling, n
<1>9. enc \in [1..n -> Seq(T)]
  <2>1. Byte \subseteq T
    BY DEF Packs
  <2>2. \A s \in Seq(Byte) : s \in Seq(T)
    BY <2>1
  <2>3. enc \in [1..n -> Seq(Byte)]
    BY DEF Packs, n
  <2> QED  BY <2>2, <2>3
<1>10. \A k \in 1..n : layer[k] = Overlay(layer[k - 1], head + h[k - 1], enc[k])
  <2>1. \A k \in 1..n : layer[k] = Overlay(layer[k - 1], Place(l[k], index[k - 1], N), enc[k])
    BY DEF Packs, n
  <2> QED  BY <1>7, <2>1
<1>11. ASSUME NEW k \in 1..n PROVE Begins(enc[k], Code(l[k], e))
  <2>1. k - 1 \in 0..n /\ k \in 0..n /\ n \in k..n /\ n \in 0..n
    BY <1>1
  <2>2. h[k] <= h[n] /\ h[k] \in Nat /\ h[n] \in Nat /\ h[k - 1] \in Nat
    BY <1>1, <2>1, EndsGrow DEF n
  <2>3. index[k - 1] = head + h[k - 1] /\ h[k] = h[k - 1] + FieldLength(l[k]) /\ FieldLength(l[k]) \in Nat
    BY <1>1, <1>3, <1>6, <2>1
  <2>4. N = head + h[n]
    BY DEF n
  <2>5. index[k - 1] + FieldLength(l[k]) <= N
    <3> DEFINE x == h[k - 1]
               y == FieldLength(l[k])
    <3>1. x \in Nat /\ y \in Nat /\ x + y <= h[n] /\ h[n] \in Nat /\ head \in Nat /\ N = head + h[n]
      BY <2>2, <2>3, <2>4
    <3>2. index[k - 1] = head + x
      BY <2>3
    <3> HIDE DEF x, y
    <3>3. (head + x) + y <= N
      BY <3>1
    <3> QED  BY <3>2, <3>3 DEF y
  <2> QED  BY <2>5 DEF Packs, n
<1>12. Byte \subseteq T /\ T \subseteq Stored
  BY DEF Packs
<1>13. Layers(layer, enc, N, T, l, h, e, head)
  BY <1>8, <1>9, <1>10, <1>11, <1>12 DEF Layers, n
<1> QED  BY <1>13, LayersLay

\* The header of a message goes in front of the fresh buffer.
LEMMA Headed ==
    ASSUME NEW N \in Nat, NEW off \in Nat, NEW head \in 0..8, head <= N,
           NEW T, Byte \subseteq T, NEW fresh \in Filling(N, T), NEW e
    PROVE  LET H == Ordered(Digits(off, head), e)
               b == Overlay(fresh, 0, H)
           IN  b \in Filling(N, T) /\ \A i \in 1..head : b[i] = H[i]
<1> DEFINE d == Digits(off, head)
           H == Ordered(d, e)
           at == 0
           b == Overlay(fresh, at, H)
<1>1. d \in Seq(Byte) /\ Len(d) = head
  <2>1. off \in Int
    OBVIOUS
  <2> QED  BY <2>1, DigitsType
<1> HIDE DEF d
<1>2. H \in Seq(Byte) /\ Len(H) = head
  BY <1>1, OrderedTwice
<1> HIDE DEF H
<1>3. fresh \in [1..N -> T]
  BY DEF Filling
<1>4. H \in Seq(T) /\ at \in Int
  <2>1. at \in Int
    OBVIOUS
  <2> HIDE DEF at
  <2> QED  BY <1>2, <2>1
<1> HIDE DEF at
<1>5. b \in [1..N -> T]
  BY <1>3, <1>4, Overlaid
<1>6. \A i \in 1..Len(H) : at >= 0 /\ at + i <= N => b[at + i] = H[i]
  BY <1>3, <1>4, Overlaid
<1> HIDE DEF b
<1>7. \A i \in 1..head : b[i] = H[i]
  <2>1. \A i \in 1..head : at + i = i /\ i <= N /\ at >= 0
    BY DEF at
  <2> QED  BY <1>2, <1>6, <2>1
<1> QED  BY <1>5, <1>7 DEF Filling, b, H, d, at

\* What the browser packs is the message of its fields.
LEMMA WebLays ==
    ASSUME NEW l \in Seq(Fields), BufferLast(l), NEW h, Ends(h, l), NEW e, NEW head \in 0..8
    PROVE  /\ Laid(Packing(l, h[Len(l)], e, head).buffer, l, h, e, head)
           /\ Packing(l, h[Len(l)], e, head).buffer \in Seq(Byte)
<1> DEFINE n == Len(l)
           off == h[n]
           N == off + head
           S == WebLoop(N)
           fresh == [buffer |-> [i \in 1..N |-> 0], index |-> 0]
           start == IF head = 0 THEN fresh ELSE writeHead(fresh, off, head, e)
           base == [buffer |-> start.buffer, index |-> start.index, fits |-> TRUE]
           g == [q \in S \X (1..n) |-> PackField(q[1], l[q[2]], e)]
           Loop(f) == [k \in 0..n |-> IF k = 0 THEN base ELSE PackField(f[k - 1], l[k], e)]
           looped == CHOOSE f : f = Loop(f)
           H == Ordered(Digits(off, head), e)
<1>1. n \in Nat /\ off \in Nat /\ N \in Nat /\ head <= N /\ N = head + off /\ head \in Nat
  <2>1. h[n] \in Nat /\ n \in Nat
    BY DEF Ends
  <2> HIDE DEF n
  <2> QED  BY <2>1
<1>2. Packing(l, off, e, head) = looped[n]
  BY DEF Packing
<1>3. base \in S /\ base.index = head /\ \A i \in 1..head : base.buffer[i] = H[i]
  <2> DEFINE b0 == [i \in 1..N |-> 0]
             b1 == Overlay(b0, 0, H)
  <2>1. b0 \in Filling(N, Byte)
    <3>1. 0 \in Byte
      BY BytesFill
    <3> HIDE DEF N
    <3> QED  BY <3>1 DEF Filling
  <2>2. b1 \in Filling(N, Byte) /\ \A i \in 1..head : b1[i] = H[i]
    <3>1. head \in 0..8
      OBVIOUS
    <3> HIDE DEF N, off, b0
    <3> QED  BY <1>1, <2>1, <3>1, Headed, SMTT(30)
  <2>3. start.buffer = (IF head = 0 THEN b0 ELSE b1) /\ start.index = head
    BY DEF writeHead
  <2> HIDE DEF b0, b1, H, start, N
  <2>4. start.buffer \in Filling(N, Byte) /\ start.index \in Nat
    BY <1>1, <2>1, <2>2, <2>3
  <2>5. \A i \in 1..head : start.buffer[i] = H[i]
    BY <1>1, <2>2, <2>3
  <2> QED  BY <2>3, <2>4, <2>5 DEF WebLoop
<1>4. \A k \in 1..n : l[k] \in Fields
  OBVIOUS
<1> HIDE DEF n, off, N, base, H
<1>5. \A p \in S, k \in 1..n : PackField(p, l[k], e) \in S
  BY <1>1, <1>4, WebTurn
<1> HIDE DEF S
<1>6. g \in [S \X (1..n) -> S] /\ \A p \in S, k \in 1..n : g[<<p, k>>] = PackField(p, l[k], e)
  BY <1>5
<1> HIDE DEF g
<1>7. PICK f \in [0..n -> S] : Computes(f, g, base, n)
  BY <1>1, <1>3, <1>6, Recursion
<1>8. f = Loop(f)
  <2>1. \A k \in 0..n : f[k] = IF k = 0 THEN base ELSE g[<<f[k - 1], k>>]
    BY <1>7 DEF Computes
  <2>2. ASSUME NEW k \in 0..n, k # 0 PROVE f[k] = PackField(f[k - 1], l[k], e)
    <3>1. k - 1 \in 0..n /\ k \in 1..n
      BY <1>1, <2>2
    <3> QED  BY <1>6, <1>7, <2>1, <2>2, <3>1
  <2>3. f = [k \in 0..n |-> f[k]]
    BY <1>7
  <2> QED  BY <2>1, <2>2, <2>3
<1>9. looped = Loop(looped)
  <2> HIDE DEF Loop
  <2> QED  BY <1>8
<1> HIDE DEF looped
<1>10. looped[0] = base /\ \A k \in 1..n : looped[k] = PackField(looped[k - 1], l[k], e)
  BY <1>1, <1>9
<1> DEFINE U == {k \in Nat : k <= n => looped[k] \in S}
<1>11. 0 \in U
  BY <1>3, <1>10
<1>12. ASSUME NEW k \in Nat, k \in U PROVE k + 1 \in U
  <2>1. SUFFICES ASSUME k + 1 <= n PROVE looped[k + 1] \in S
    OBVIOUS
  <2>2. k + 1 \in 1..n /\ (k + 1) - 1 = k /\ looped[k] \in S
    BY <1>1, <1>12, <2>1
  <2>3. looped[k + 1] = PackField(looped[k], l[k + 1], e)
    BY <1>10, <2>2
  <2> QED  BY <1>5, <2>2, <2>3
<1> HIDE DEF U
<1>13. \A k \in 0..n : looped[k] \in S
  <2>1. Nat \subseteq U
    BY <1>11, <1>12, Counting
  <2> QED  BY <2>1 DEF U
<1> DEFINE layer == [k \in 0..n |-> looped[k].buffer]
           index == [k \in 0..n |-> looped[k].index]
           enc == [k \in 1..n |-> Encoded(l[k], e)]
<1>14. layer \in [0..n -> Filling(N, Byte)] /\ index \in [0..n -> Nat]
  BY <1>13 DEF S, WebLoop
<1>15. enc \in [1..n -> Seq(Byte)] /\ \A k \in 1..n : Begins(enc[k], Code(l[k], e))
  BY <1>4, FieldsAre, EncodedBegins
<1>16. index[0] = head /\ \A i \in 1..head : layer[0][i] = H[i]
  BY <1>1, <1>3, <1>10
<1>17. ASSUME NEW k \in 1..n
       PROVE  /\ layer[k] = Overlay(layer[k - 1], Place(l[k], index[k - 1], N), enc[k])
              /\ index[k] = index[k - 1] + FieldLength(l[k])
  <2>1. k - 1 \in 0..n /\ k \in 0..n
    BY <1>1
  <2> DEFINE p == looped[k - 1]
  <2>2. p \in S /\ looped[k] = PackField(p, l[k], e)
    BY <1>10, <1>13, <2>1
  <2>3. layer[k] = looped[k].buffer /\ index[k] = looped[k].index
        /\ layer[k - 1] = p.buffer /\ index[k - 1] = p.index /\ enc[k] = Encoded(l[k], e)
    BY <2>1
  <2> HIDE DEF layer, index, enc, p
  <2>4. /\ looped[k].buffer = Overlay(p.buffer, Place(l[k], p.index, N), Encoded(l[k], e))
        /\ looped[k].index = p.index + FieldLength(l[k])
    BY <1>1, <1>4, <2>2, WebTurn DEF S
  <2> QED  BY <2>3, <2>4
<1>18. layer[n] = looped[n].buffer
  BY <1>1
<1> HIDE DEF layer, index, enc
<1>19. Packs(layer, index, enc, N, Byte, l, e, head)
  BY <1>14, <1>15, <1>16, <1>17, BytesFill DEF Packs, n
<1>20. Laid(layer[n], l, h, e, head) /\ layer[n] \in Seq(Byte)
  <2>1. N = head + h[Len(l)] /\ \A i \in 1..head : layer[0][i] = Ordered(Digits(h[Len(l)], head), e)[i]
    BY <1>1, <1>16 DEF H, off, n
  <2> QED  BY <1>19, <2>1, PacksLaid DEF n
<1> QED  BY <1>2, <1>18, <1>20 DEF n, off

\* What the server packs is the message of its fields.
LEMMA NodeLays ==
    ASSUME NEW l \in Seq(Fields), BufferLast(l), NEW h, Ends(h, l), NEW e, NEW head \in 0..8
    PROVE  Laid(Node!PackBytes(l, h[Len(l)], e, head), l, h, e, head)
<1> DEFINE n == Len(l)
           off == h[n]
           N == off + head
           S == NodeLoop(N)
           fresh == [buffer |-> [i \in 1..N |-> Node!Garbage], index |-> 0]
           base == IF head = 0 THEN fresh ELSE Node!writeHead(fresh, off, head, e)
           g == [q \in S \X (1..n) |-> Node!PackField(q[1], l[q[2]], e)]
           Loop(f) == [k \in 0..n |-> IF k = 0 THEN base ELSE Node!PackField(f[k - 1], l[k], e)]
           looped == CHOOSE f : f = Loop(f)
           H == Ordered(Digits(off, head), e)
<1>1. n \in Nat /\ off \in Nat /\ N \in Nat /\ head <= N /\ N = head + off /\ head \in Nat
  <2>1. h[n] \in Nat /\ n \in Nat
    BY DEF Ends
  <2> HIDE DEF n
  <2> QED  BY <2>1
<1>2. Node!PackBytes(l, off, e, head) = looped[n].buffer
  BY DEF Node!PackBytes
<1>3. base \in S /\ base.index = head /\ \A i \in 1..head : base.buffer[i] = H[i]
  <2> DEFINE b0 == [i \in 1..N |-> Node!Garbage]
             b1 == Overlay(b0, 0, H)
  <2>0. Node!Garbage \in Stored
    BY BytesFill DEF Node!Garbage
  <2>1. b0 \in Filling(N, Stored)
    <3> HIDE DEF N
    <3> QED  BY <2>0 DEF Filling
  <2>2. b1 \in Filling(N, Stored) /\ \A i \in 1..head : b1[i] = H[i]
    <3>1. head \in 0..8
      OBVIOUS
    <3> HIDE DEF N, off, b0
    <3> QED  BY <1>1, <2>1, <3>1, BytesFill, Headed, SMTT(30)
  <2>3. base.buffer = (IF head = 0 THEN b0 ELSE b1) /\ base.index = head
    BY SameBytes DEF Node!writeHead
  <2>4. base = [buffer |-> base.buffer, index |-> base.index]
    BY SameBytes DEF Node!writeHead
  <2> HIDE DEF b0, b1, H, base, N
  <2>5. base.buffer \in Filling(N, Stored) /\ base.index \in Nat
    BY <1>1, <2>1, <2>2, <2>3
  <2>6. \A i \in 1..head : base.buffer[i] = H[i]
    BY <1>1, <2>2, <2>3
  <2> QED  BY <2>3, <2>4, <2>5, <2>6 DEF NodeLoop
<1>4. \A k \in 1..n : l[k] \in Fields
  OBVIOUS
<1> HIDE DEF n, off, N, base, H
<1>5. \A p \in S, k \in 1..n : Node!PackField(p, l[k], e) \in S
  BY <1>1, <1>4, NodeTurn
<1> HIDE DEF S
<1>6. g \in [S \X (1..n) -> S] /\ \A p \in S, k \in 1..n : g[<<p, k>>] = Node!PackField(p, l[k], e)
  BY <1>5
<1> HIDE DEF g
<1>7. PICK f \in [0..n -> S] : Computes(f, g, base, n)
  BY <1>1, <1>3, <1>6, Recursion
<1>8. f = Loop(f)
  <2>1. \A k \in 0..n : f[k] = IF k = 0 THEN base ELSE g[<<f[k - 1], k>>]
    BY <1>7 DEF Computes
  <2>2. ASSUME NEW k \in 0..n, k # 0 PROVE f[k] = Node!PackField(f[k - 1], l[k], e)
    <3>1. k - 1 \in 0..n /\ k \in 1..n
      BY <1>1, <2>2
    <3> QED  BY <1>6, <1>7, <2>1, <2>2, <3>1
  <2>3. f = [k \in 0..n |-> f[k]]
    BY <1>7
  <2> QED  BY <2>1, <2>2, <2>3
<1>9. looped = Loop(looped)
  <2> HIDE DEF Loop
  <2> QED  BY <1>8
<1> HIDE DEF looped
<1>10. looped[0] = base /\ \A k \in 1..n : looped[k] = Node!PackField(looped[k - 1], l[k], e)
  BY <1>1, <1>9
<1> DEFINE U == {k \in Nat : k <= n => looped[k] \in S}
<1>11. 0 \in U
  BY <1>3, <1>10
<1>12. ASSUME NEW k \in Nat, k \in U PROVE k + 1 \in U
  <2>1. SUFFICES ASSUME k + 1 <= n PROVE looped[k + 1] \in S
    OBVIOUS
  <2>2. k + 1 \in 1..n /\ (k + 1) - 1 = k /\ looped[k] \in S
    BY <1>1, <1>12, <2>1
  <2>3. looped[k + 1] = Node!PackField(looped[k], l[k + 1], e)
    BY <1>10, <2>2
  <2> QED  BY <1>5, <2>2, <2>3
<1> HIDE DEF U
<1>13. \A k \in 0..n : looped[k] \in S
  <2>1. Nat \subseteq U
    BY <1>11, <1>12, Counting
  <2> QED  BY <2>1 DEF U
<1> DEFINE layer == [k \in 0..n |-> looped[k].buffer]
           index == [k \in 0..n |-> looped[k].index]
           enc == [k \in 1..n |-> Node!Encoded(l[k], e, N - index[k - 1])]
<1>14. layer \in [0..n -> Filling(N, Stored)] /\ index \in [0..n -> Nat]
  BY <1>13 DEF S, NodeLoop
<1>15. /\ enc \in [1..n -> Seq(Byte)]
       /\ \A k \in 1..n : index[k - 1] + FieldLength(l[k]) <= N => Begins(enc[k], Code(l[k], e))
  <2>1. ASSUME NEW k \in 1..n
        PROVE  /\ Node!Encoded(l[k], e, N - index[k - 1]) \in Seq(Byte)
               /\ index[k - 1] + FieldLength(l[k]) <= N
                     => Begins(Node!Encoded(l[k], e, N - index[k - 1]), Code(l[k], e))
    <3> DEFINE room == N - index[k - 1]
    <3>1. k - 1 \in 0..n
      BY <1>1
    <3>2. index[k - 1] \in Nat
      BY <1>14, <3>1
    <3>3. Node!IsField(l[k]) /\ FieldLength(l[k]) \in Nat
      BY <1>4, FieldsAre, CodeType
    <3> HIDE DEF index
    <3>4. room \in Int /\ (index[k - 1] + FieldLength(l[k]) <= N => FieldLength(l[k]) <= room)
      BY <1>1, <3>2, <3>3
    <3> HIDE DEF room
    <3>5. /\ Node!Encoded(l[k], e, room) \in Seq(Byte)
          /\ FieldLength(l[k]) <= room => Begins(Node!Encoded(l[k], e, room), Code(l[k], e))
      BY <3>3, <3>4, EncodedBegins
    <3> QED  BY <3>4, <3>5 DEF room
  <2> HIDE DEF index
  <2> QED  BY <2>1
<1>16. index[0] = head /\ \A i \in 1..head : layer[0][i] = H[i]
  BY <1>1, <1>3, <1>10
<1>17. ASSUME NEW k \in 1..n
       PROVE  /\ layer[k] = Overlay(layer[k - 1], Place(l[k], index[k - 1], N), enc[k])
              /\ index[k] = index[k - 1] + FieldLength(l[k])
  <2>1. k - 1 \in 0..n /\ k \in 0..n
    BY <1>1
  <2> DEFINE p == looped[k - 1]
  <2>2. p \in S /\ looped[k] = Node!PackField(p, l[k], e)
    BY <1>10, <1>13, <2>1
  <2>3. layer[k] = looped[k].buffer /\ index[k] = looped[k].index
        /\ layer[k - 1] = p.buffer /\ index[k - 1] = p.index
        /\ enc[k] = Node!Encoded(l[k], e, N - p.index)
    BY <2>1
  <2> HIDE DEF layer, index, enc, p
  <2>4. /\ looped[k].buffer
              = Overlay(p.buffer, Place(l[k], p.index, N), Node!Encoded(l[k], e, N - p.index))
        /\ looped[k].index = p.index + FieldLength(l[k])
    BY <1>1, <1>4, <2>2, NodeTurn DEF S
  <2> QED  BY <2>3, <2>4
<1>18. layer[n] = looped[n].buffer
  BY <1>1
<1> HIDE DEF layer, index, enc
<1>19. Packs(layer, index, enc, N, Stored, l, e, head)
  BY <1>14, <1>15, <1>16, <1>17, BytesFill DEF Packs, n
<1>20. Laid(layer[n], l, h, e, head)
  <2>1. N = head + h[Len(l)] /\ \A i \in 1..head : layer[0][i] = Ordered(Digits(h[Len(l)], head), e)[i]
    BY <1>1, <1>16 DEF H, off, n
  <2> QED  BY <1>19, <2>1, PacksLaid DEF n
<1> QED  BY <1>2, <1>18, <1>20 DEF n, off

-------------------------------------------------------------------------------
(* A message and what its readers make of it *)

\* What is behind the header of a message.
BodyOf(B, head) == SubSeq(B, head + 1, Len(B))

\* The body of a message reads back to what its fields mean and to its end.
LEMMA BodyReads ==
    ASSUME NEW l \in Seq(Fields), BufferLast(l), NEW h, NEW e, NEW head \in 0..8,
           NEW B, Laid(B, l, h, e, head)
    PROVE  LET body == BodyOf(B, head)
           IN  /\ Len(body) = h[Len(l)] /\ h[Len(l)] \in Nat
               /\ TextsFit(l) =>
                     /\ ReadByWeb(ReadAll(body, l, e), body, l)
                     /\ ReadByNode(Node!ReadAll(body, l, e), body, l)
<1> DEFINE n == Len(l)
           off == h[n]
           N == Len(B)
           body == SubSeq(B, head + 1, N)
<1>1. /\ Ends(h, l) /\ B \in Seq(Stored) /\ N = head + off
      /\ \A k \in 1..n : Holds(B, head + h[k - 1], Code(l[k], e))
  BY DEF Laid
<1>2. h \in [0..n -> Nat] /\ n \in Nat
  BY <1>1 DEF Ends
<1>3. off \in Nat /\ N \in Nat /\ head \in Nat
  <2>1. off \in Nat
    BY <1>2
  <2>2. head \in Nat
    OBVIOUS
  <2> HIDE DEF off, N
  <2> QED  BY <1>1, <2>1, <2>2
<1> HIDE DEF off
<1>4. body \in Seq(Stored) /\ Len(body) = off /\ \A i \in 1..off : body[i] = B[head + i]
  <2>1. \A i \in 1..N : B[i] \in Stored
    BY <1>1
  <2> HIDE DEF N
  <2>2. \A i \in (head + 1)..N : B[i] \in Stored
    BY <1>3, <2>1
  <2>3. head + 1 \in Int /\ N \in Int
    BY <1>3
  <2>4. /\ body \in Seq(Stored) /\ Len(body) = (IF head + 1 <= N THEN N - (head + 1) + 1 ELSE 0)
        /\ \A i \in 1..(N - (head + 1) + 1) : body[i] = B[head + 1 + i - 1]
    BY <1>1, <2>2, <2>3, SubSeqProperties
  <2>5. N - (head + 1) + 1 = off /\ (IF head + 1 <= N THEN N - (head + 1) + 1 ELSE 0) = off
    BY <1>1, <1>3
  <2>6. \A i \in 1..off : head + 1 + i - 1 = head + i
    BY <1>3
  <2> QED  BY <2>4, <2>5, <2>6
<1>5. ASSUME NEW k \in 1..n PROVE Holds(body, h[k - 1], Code(l[k], e))
  <2> DEFINE x == h[k - 1]
             c == Code(l[k], e)
             m == Len(c)
  <2>1. x \in Nat /\ m \in Nat
    <3>1. k - 1 \in 0..n
      BY <1>2
    <3>2. c \in Seq(Byte)
      BY ListFields
    <3> QED  BY <1>2, <3>1, <3>2
  <2>2. (head + x) + m <= N /\ \A i \in 1..m : B[(head + x) + i] = c[i]
    BY <1>1 DEF Holds
  <2> HIDE DEF x, c, m, N, body
  <2>3. x + m <= off
    BY <1>1, <1>3, <2>1, <2>2
  <2>4. \A i \in 1..m : x + i \in 1..off /\ head + (x + i) = (head + x) + i
    BY <1>3, <2>1, <2>3
  <2>5. \A i \in 1..m : body[x + i] = c[i]
    BY <1>4, <2>2, <2>4
  <2> QED  BY <1>4, <2>3, <2>5 DEF Holds, x, c, m
<1> HIDE DEF body
<1>6. ASSUME TextsFit(l)
      PROVE  /\ ReadByWeb(ReadAll(body, l, e), body, l)
             /\ ReadByNode(Node!ReadAll(body, l, e), body, l)
  <2>1. \A k \in 1..n : TextFits(l[k])
    BY <1>6 DEF TextsFit, TextFits
  <2> QED  BY <1>1, <1>4, <1>5, <2>1, MessageReads DEF off
<1> QED  BY <1>3, <1>4, <1>6 DEF body, off, BodyOf

\* The header counts the bytes behind it, if it has room for the number.
LEMMA HeaderCounts ==
    ASSUME NEW l \in Seq(Fields), NEW h, NEW e, NEW head \in 0..8, NEW B, Laid(B, l, h, e, head),
           h[Len(l)] < RadixTo[head]
    PROVE  Number(Ordered(SubSeq(B, 1, head), e)) = h[Len(l)]
<1> DEFINE off == h[Len(l)]
           d == Digits(off, head)
           H == Ordered(d, e)
           s == SubSeq(B, 1, head)
<1>1. Ends(h, l) /\ B \in Seq(Stored) /\ Len(B) = head + off /\ \A i \in 1..head : B[i] = H[i]
  BY DEF Laid
<1>2. off \in Nat /\ off \in Int
  BY <1>1 DEF Ends
<1> HIDE DEF off
<1>3. d \in Seq(Byte) /\ Len(d) = head /\ Number(d) = off % RadixTo[head]
  BY <1>2, DigitsType, NumberOfDigits
<1>4. off % RadixTo[head] = off
  <2>1. RadixTo[head] \in Nat \ {0} /\ off < RadixTo[head]
    BY Powers DEF off
  <2> QED  BY <1>2, <2>1
<1> HIDE DEF d
<1>5. H \in Seq(Byte) /\ H \in Seq(Stored) /\ Len(H) = head /\ Ordered(H, e) = d
  <2>1. H \in Seq(Byte) /\ Len(H) = head /\ Ordered(H, e) = d
    BY <1>3, OrderedTwice
  <2> HIDE DEF H
  <2> QED  BY <2>1, BytesFill
<1> HIDE DEF H
<1>6. s = H
  <2>1. head \in Nat /\ head <= Len(B) /\ Len(B) \in Nat
    BY <1>1, <1>2
  <2>2. \A i \in 1..head : B[i] \in Stored
    BY <1>1, <2>1
  <2>3. 1 \in Int /\ head \in Int
    OBVIOUS
  <2>4. /\ s \in Seq(Stored) /\ Len(s) = (IF 1 <= head THEN head - 1 + 1 ELSE 0)
        /\ \A i \in 1..(head - 1 + 1) : s[i] = B[1 + i - 1]
    BY <1>1, <2>2, <2>3, SubSeqProperties
  <2>5. head - 1 + 1 = head /\ (IF 1 <= head THEN head - 1 + 1 ELSE 0) = head
    BY <2>1
  <2>6. \A i \in 1..head : 1 + i - 1 = i
    OBVIOUS
  <2> HIDE DEF s
  <2>7. s \in Seq(Stored) /\ Len(s) = head /\ \A i \in 1..head : s[i] = H[i]
    BY <1>1, <2>4, <2>5, <2>6
  <2> QED  BY <1>5, <2>7
<1> QED  BY <1>3, <1>4, <1>5, <1>6 DEF off

\* A number that fits its field comes back as it is.
LEMMA FittingNumber ==
    ASSUME NEW d \in Int, NEW R \in Nat \ {0}
    PROVE  /\ d \in 0..(R - 1) => d % R = d
           /\ 2 * d \in (-R)..(R - 1) =>
                 (IF 2 * (d % R) >= R THEN (d % R) - R ELSE d % R) = d
<1>1. R \in Nat /\ R > 0
  OBVIOUS
<1>2. ASSUME d \in 0..(R - 1) PROVE d % R = d
  <2>1. d = R * 0 + d
    OBVIOUS
  <2> QED  BY <1>1, <1>2, <2>1, Quotient
<1>3. ASSUME 2 * d \in (-R)..(R - 1)
      PROVE  (IF 2 * (d % R) >= R THEN (d % R) - R ELSE d % R) = d
  <2>1. CASE d >= 0
    <3>1. d \in 0..(R - 1)
      BY <1>3, <2>1
    <3> QED  BY <1>2, <1>3, <3>1
  <2>2. CASE d < 0
    <3> DEFINE t == d + R
    <3>1. t \in 0..(R - 1) /\ d = R * (-1) + t /\ 2 * t >= R /\ t - R = d
      BY <1>3, <2>2
    <3> HIDE DEF t
    <3>2. d % R = t
      BY <1>1, <3>1, Quotient
    <3> QED  BY <3>1, <3>2
  <2> QED  BY <2>1, <2>2
<1> QED  BY <1>2, <1>3

\* Of a list that the server packs every number is meant as it was given.
LEMMA FittingValues ==
    ASSUME NEW l \in Seq(Fields), Node!Fits(l)
    PROVE  TextsFit(l) /\ \A i \in DOMAIN l : \A v : Meant(l[i], v) <=> Node!Understood(l[i], v)
<1>1. Node!RadixTo = RadixTo /\ Node!Width = Width
  BY DEF Node!RadixTo, RadixTo, Node!Width, Width
<1>2. TextsFit(l)
  BY <1>1 DEF Node!Fits, TextsFit
<1>3. ASSUME NEW i \in 1..Len(l), NEW v PROVE Meant(l[i], v) <=> Node!Understood(l[i], v)
  <2> DEFINE f == l[i]
  <2>1. Node!IsField(f)
    BY ListFields
  <2>2. /\ f.t \in {"byte", "ushort", "uint32"} => f.d \in 0..(RadixTo[Width[f.t]] - 1)
        /\ f.t \in {"short", "int32"} =>
              2 * f.d \in (-(RadixTo[Width[f.t]]))..(RadixTo[Width[f.t]] - 1)
    BY <1>1 DEF Node!Fits
  <2> SUFFICES Meant(f, v) <=> Node!Understood(f, v)
    OBVIOUS
  <2> HIDE DEF f
  <2>3. CASE f.t \notin NumberTypes
    BY <2>3 DEF Meant
  <2>4. CASE f.t \in NumberTypes
    <3> SUFFICES Wrapped(f) = Node!Expected(f)
      BY <2>4, NumberKind, SameTexts DEF Meant, Node!Understood
    <3> DEFINE R == RadixTo[Width[f.t]]
    <3>1. f.t \in {"byte", "short", "ushort", "int32", "uint32"}
      BY <2>4 DEF NumberTypes, Width
    <3>2. f.d \in Int
      <4>1. f.t \notin {"double", "float", "string", "buffer", "vstring", "byteArray"}
        BY <3>1
      <4> QED  BY <2>1, <4>1, FieldKinds
    <3>3. R \in Nat \ {0}
      <4>1. Width[f.t] \in 0..8
        BY <2>4, NumberKind
      <4> QED  BY <4>1, Powers
    <3>4. Node!Expected(f) = f.d
      BY <2>4, NumberKind
    <3>5. Wrapped(f) = IF f.t \in {"short", "int32"} /\ 2 * (f.d % R) >= R
                       THEN (f.d % R) - R ELSE f.d % R
      BY DEF Wrapped
    <3>6. /\ f.d \in 0..(R - 1) => f.d % R = f.d
          /\ 2 * f.d \in (-R)..(R - 1) =>
                (IF 2 * (f.d % R) >= R THEN (f.d % R) - R ELSE f.d % R) = f.d
      <4> HIDE DEF R
      <4> QED  BY <3>2, <3>3, FittingNumber
    <3>7. CASE f.t \in {"short", "int32"}
      <4>1. 2 * f.d \in (-R)..(R - 1)
        BY <2>2, <3>7
      <4> HIDE DEF R
      <4> QED  BY <3>4, <3>5, <3>6, <3>7, <4>1
    <3>8. CASE f.t \in {"byte", "ushort", "uint32"}
      <4>1. f.d \in 0..(R - 1)
        BY <2>2, <3>8
      <4>2. f.t \notin {"short", "int32"}
        BY <3>8
      <4> HIDE DEF R
      <4> QED  BY <3>4, <3>5, <3>6, <4>1, <4>2
    <3> QED  BY <3>1, <3>7, <3>8
  <2> QED  BY <2>3, <2>4
<1>4. DOMAIN l = 1..Len(l)
  OBVIOUS
<1> QED  BY <1>2, <1>3, <1>4

-------------------------------------------------------------------------------
(* The server's ByteBuffer is the one the browser's model has of it *)

\* The two instances of ByteBuffer.js compute the same: only their variables differ.
LEMMA ServerIsNode ==
    /\ \A f : Server!FieldLength(f) = Node!FieldLength(f) /\ (Server!Split(f) <=> Node!Split(f))
    /\ \A f, v : Server!Understood(f, v) <=> Node!Understood(f, v)
    /\ \A l : Server!HasBuffer(l) = Node!HasBuffer(l) /\ Server!Fits(l) = Node!Fits(l)
    /\ \A l, off, e, head : Server!PackBytes(l, off, e, head) = Node!PackBytes(l, off, e, head)
    /\ \A bytes, l, e : Server!ReadAll(bytes, l, e) = Node!ReadAll(bytes, l, e)
    /\ \A s : Server!Number(s) = Number(s)
    /\ \A s, e : Server!Ordered(s, e) = Ordered(s, e)
    /\ Server!Byte = Byte /\ Server!Endians = Endians /\ Server!Garbage = Radix
    /\ Server!RadixTo = RadixTo
<1>1. \A f : Server!FieldLength(f) = Node!FieldLength(f)
  BY DEF Server!FieldLength, Node!FieldLength, Server!NumberTypes, Node!NumberTypes,
         Server!Width, Node!Width
<1>2. \A s, n : Server!Padded(s, n) = Node!Padded(s, n)
  BY DEF Server!Padded, Node!Padded
<1>3. \A f : Server!Expected(f) = Node!Expected(f)
  BY <1>2 DEF Server!Expected, Node!Expected
<1>12. \A s : /\ Server!Cut(s) <=> Node!Cut(s)
              /\ Server!WholeChars(s) = Node!WholeChars(s)
  BY DEF Server!Cut, Node!Cut, Server!EndsBehind, Node!EndsBehind, Server!WholeChars, Node!WholeChars,
         Server!WholeLength, Node!WholeLength, Server!CutAt, Node!CutAt
<1>13. \A f : Server!Split(f) <=> Node!Split(f)
  BY <1>12 DEF Server!Split, Node!Split
<1>14. \A f, v : Server!Understood(f, v) <=> Node!Understood(f, v)
  BY <1>3, <1>12, <1>13 DEF Server!Understood, Node!Understood, Server!IsPrefix, Node!IsPrefix
<1>15. \A d, room : Server!Fitting(d, room) = Node!Fitting(d, room)
  BY <1>12 DEF Server!Fitting, Node!Fitting
<1>16. \A bytes : Server!toString(bytes) = Node!toString(bytes)
  BY <1>12 DEF Server!toString, Node!toString, Server!Replacement, Node!Replacement
<1>4. \A l : Server!HasBuffer(l) = Node!HasBuffer(l)
  BY DEF Server!HasBuffer, Node!HasBuffer
<1>5. Server!RadixTo = RadixTo /\ Node!RadixTo = RadixTo
  BY DEF Server!RadixTo, Node!RadixTo, RadixTo
<1>6. \A l : Server!Fits(l) = Node!Fits(l)
  BY <1>5 DEF Server!Fits, Node!Fits, Server!Width, Node!Width
<1>7. \A l, off, e, head : Server!PackBytes(l, off, e, head) = Node!PackBytes(l, off, e, head)
  BY <1>15 DEF Server!PackBytes, Node!PackBytes, Server!PackField, Node!PackField,
         Server!writeHead, Node!writeHead, Server!Overlay, Node!Overlay,
         Server!Encoded, Node!Encoded, Server!FieldLength, Node!FieldLength,
         Server!NumberTypes, Node!NumberTypes, Server!Width, Node!Width,
         Server!Ordered, Node!Ordered, Server!Reverse, Node!Reverse,
         Server!Digits, Node!Digits, Server!RadixTo, Node!RadixTo,
         Server!Padded, Node!Padded, Server!Garbage, Node!Garbage
<1>8. \A bytes, l, e : Server!ReadAll(bytes, l, e) = Node!ReadAll(bytes, l, e)
  BY <1>16 DEF Server!ReadAll, Node!ReadAll, Server!get, Node!get,
         Server!getNumber, Node!getNumber, Server!getDouble, Node!getDouble,
         Server!getFloat, Node!getFloat, Server!VText, Node!VText,
         Server!getString, Node!getString, Server!getVString, Node!getVString,
         Server!getByteArray, Node!getByteArray, Server!getBuffer, Node!getBuffer,
         Server!read, Node!read, Server!Took, Node!Took, Server!Slice, Node!Slice,
         Server!NumberTypes, Node!NumberTypes, Server!Width, Node!Width,
         Server!Ordered, Node!Ordered, Server!Reverse, Node!Reverse,
         Server!Number, Node!Number, Server!SignedNumber, Node!SignedNumber,
         Server!RadixTo, Node!RadixTo, Server!Padded, Node!Padded,
         Server!Cardinality, Node!Cardinality, Server!IsFiniteSet, Node!IsFiniteSet
<1>9. \A s : Server!Number(s) = Number(s)
  BY DEF Server!Number, Number
<1>10. \A s, e : Server!Ordered(s, e) = Ordered(s, e)
  BY DEF Server!Ordered, Ordered, Server!Reverse, Reverse
<1>11. Server!Byte = Byte /\ Server!Endians = Endians /\ Server!Garbage = Radix
  BY DEF Server!Byte, Byte, Server!Endians, Endians, Server!Garbage
<1> QED  BY <1>1, <1>4, <1>5, <1>6, <1>7, <1>8, <1>9, <1>10, <1>11, <1>13, <1>14

-------------------------------------------------------------------------------
(* The invariant of both codecs *)

\* The types of the variables that both codecs keep their messages in.
MessageType ==
    /\ list \in [Instances -> Seq(Fields)] /\ offset \in [Instances -> Nat]
    /\ packed \in [Instances -> Seq(Stored)]
    /\ packedWith \in [Instances -> [endian : Endians, head : {0, 2, 4}, list : Seq(Fields)]]

\* off is where the last field of the list l ends, and a buffer can only be that one.
Listed(l, off) == BufferLast(l) /\ \E h : Ends(h, l) /\ off = h[Len(l)]

\* p is the message of the fields and the configuration w.
Packed(p, w) == BufferLast(w.list) /\ \E h : Laid(p, w.list, h, w.endian, w.head)

\* The fields end where the offset says, and a packed message is one of its fields.
MessageInv ==
    /\ MessageType
    /\ \A b \in Instances : Listed(list[b], offset[b])
    /\ \A b \in Instances : packed[b] # <<>> => Packed(packed[b], packedWith[b])

\* An empty list.
LEMMA NothingListed == Listed(<<>>, 0)
<1> DEFINE l == <<>>
           h == [k \in 0..0 |-> 0]
<1>1. Len(l) = 0 /\ h \in [0..0 -> Nat] /\ h[0] = 0
  OBVIOUS
<1> HIDE DEF l, h
<1>2. Ends(h, l)
  BY <1>1 DEF Ends
<1>3. BufferLast(l)
  BY <1>1 DEF BufferLast
<1> QED  BY <1>1, <1>2, <1>3 DEF Listed, l

\* A list with a field that Add puts in.
LEMMA AddLists ==
    ASSUME NEW l \in Seq(Fields), NEW off \in Nat, Listed(l, off), ~Node!HasBuffer(l),
           NEW f \in Fields, NEW i \in 0..Len(l), f.t = "buffer" => i = Len(l)
    PROVE  /\ InsertAt(l, i + 1, f) \in Seq(Fields)
           /\ off + FieldLength(f) \in Nat
           /\ Listed(InsertAt(l, i + 1, f), off + FieldLength(f))
<1> DEFINE s == InsertAt(l, i + 1, f)
<1>1. PICK h : Ends(h, l) /\ off = h[Len(l)]
  BY DEF Listed
<1>2. PICK g : Ends(g, s) /\ g[Len(l) + 1] = h[Len(l)] + FieldLength(f)
  BY <1>1, EndsInserted
<1>3. s \in Seq(Fields) /\ Len(s) = Len(l) + 1
  BY Inserted
<1>4. BufferLast(s)
  <2>1. \A k \in 1..Len(l) : l[k].t # "buffer"
    BY DEF Node!HasBuffer
  <2> QED  BY <2>1, BufferStaysLast
<1>5. FieldLength(f) \in Nat
  BY FieldsAre, CodeType
<1> HIDE DEF s
<1>6. off + FieldLength(f) = g[Len(s)]
  BY <1>1, <1>2, <1>3
<1>7. Listed(s, off + FieldLength(f))
  BY <1>2, <1>4, <1>6 DEF Listed
<1> QED  BY <1>3, <1>5, <1>7 DEF s

\* A field added to a list of either codec.
LEMMA AddKeeps ==
    ASSUME MessageInv, NEW b \in Instances, NEW f \in Fields, NEW i \in 0..Len(list[b]),
           ~Node!HasBuffer(list[b]), f.t = "buffer" => i = Len(list[b]),
           list' = [list EXCEPT ![b] = InsertAt(@, i + 1, f)],
           offset' = [offset EXCEPT ![b] = @ + FieldLength(f)],
           packed' = packed, packedWith' = packedWith
    PROVE  MessageInv'
<1> DEFINE l == list[b]
           s == InsertAt(l, i + 1, f)
           off == offset[b] + FieldLength(f)
<1>1. MessageType /\ Listed(l, offset[b]) /\ l \in Seq(Fields) /\ offset[b] \in Nat
  BY DEF MessageInv, MessageType
<1>2. s \in Seq(Fields) /\ off \in Nat /\ Listed(s, off)
  <2> HIDE DEF l
  <2>1. i \in 0..Len(l) /\ ~Node!HasBuffer(l) /\ (f.t = "buffer" => i = Len(l))
    BY DEF l
  <2> QED  BY <1>1, <2>1, AddLists
<1>3. list' = [list EXCEPT ![b] = s] /\ offset' = [offset EXCEPT ![b] = off]
  OBVIOUS
<1> HIDE DEF s, off
<1>4. MessageType'
  BY <1>1, <1>2, <1>3 DEF MessageType
<1>5. ASSUME NEW c \in Instances PROVE Listed(list[c], offset[c])'
  <2>1. Listed(list[c], offset[c])
    BY DEF MessageInv
  <2>2. CASE c = b
    <3>1. list'[c] = s /\ offset'[c] = off
      BY <1>1, <1>3, <2>2 DEF MessageType
    <3>2. Listed(s, off)
      BY <1>2
    <3>3. Listed(list'[c], offset'[c])
      BY <3>1, <3>2
    <3> QED  BY <3>3 DEF Listed, BufferLast, Ends, FieldLength
  <2>3. CASE c # b
    <3>1. list'[c] = list[c] /\ offset'[c] = offset[c]
      BY <1>1, <1>3, <2>3 DEF MessageType
    <3> QED  BY <2>1, <3>1 DEF Listed, BufferLast, Ends, FieldLength
  <2> QED  BY <2>2, <2>3
<1> QED  BY <1>4, <1>5 DEF MessageInv

\* A message packed by either codec.
LEMMA PackKeeps ==
    ASSUME MessageInv, NEW b \in Instances, NEW e \in Endians, NEW head \in {0, 2, 4}, NEW p,
           NEW h, Laid(p, list[b], h, e, head),
           packed' = [packed EXCEPT ![b] = p],
           packedWith' = [packedWith EXCEPT ![b] = [endian |-> e, head |-> head, list |-> list[b]]],
           list' = list, offset' = offset
    PROVE  MessageInv'
<1> DEFINE w == [endian |-> e, head |-> head, list |-> list[b]]
<1>1. MessageType /\ Listed(list[b], offset[b]) /\ list[b] \in Seq(Fields)
  BY DEF MessageInv, MessageType
<1>2. w \in [endian : Endians, head : {0, 2, 4}, list : Seq(Fields)]
  BY <1>1
<1>3. w.endian = e /\ w.head = head /\ w.list = list[b]
  OBVIOUS
<1>4. packedWith' = [packedWith EXCEPT ![b] = w]
  OBVIOUS
<1> HIDE DEF w
<1>5. p \in Seq(Stored)
  BY DEF Laid
<1>6. MessageType'
  BY <1>1, <1>2, <1>4, <1>5 DEF MessageType
<1>7. Packed(p, w)
  BY <1>1, <1>3 DEF Packed, Listed
<1>8. ASSUME NEW c \in Instances, packed'[c] # <<>> PROVE Packed(packed'[c], packedWith'[c])
  <2>1. CASE c = b
    <3>1. packed'[c] = p /\ packedWith'[c] = w
      BY <1>1, <1>4, <2>1 DEF MessageType
    <3> QED  BY <1>7, <3>1
  <2>2. CASE c # b
    <3>1. packed'[c] = packed[c] /\ packedWith'[c] = packedWith[c]
      BY <1>1, <1>4, <2>2 DEF MessageType
    <3> QED  BY <1>8, <3>1 DEF MessageInv
  <2> QED  BY <2>1, <2>2
<1> QED  BY <1>6, <1>8 DEF MessageInv

\* What leaves the messages alone.
LEMMA RestKeeps ==
    ASSUME MessageInv, UNCHANGED <<list, offset, packed, packedWith>>
    PROVE  MessageInv'
BY DEF MessageInv, MessageType

-------------------------------------------------------------------------------
(* The browser's codec *)

\* The invariant of the browser's codec, with its configuration: its messages are bytes.
WebInv ==
    /\ MessageInv /\ packed \in [Instances -> Seq(Byte)]
    /\ endian \in [Instances -> Endians] /\ headLen \in [Instances -> {0, 2, 4}]

\* It holds of new buffers.
LEMMA WebInitInv == WebInit => WebInv
<1> SUFFICES ASSUME WebInit PROVE WebInv
  OBVIOUS
<1>1. "BE" \in Endians
  BY DEF Endians
<1>2. /\ MessageType /\ packed \in [Instances -> Seq(Byte)]
      /\ endian \in [Instances -> Endians] /\ headLen \in [Instances -> {0, 2, 4}]
  <2>1. <<>> \in Seq(Fields) /\ <<>> \in Seq(Byte) /\ <<>> \in Seq(Stored)
    OBVIOUS
  <2> QED  BY <1>1, <2>1 DEF WebInit, MessageType
<1>3. \A b \in Instances : Listed(list[b], offset[b]) /\ packed[b] = <<>>
  BY NothingListed DEF WebInit
<1> QED  BY <1>2, <1>3 DEF WebInv, MessageInv

\* Every call of DataBuffer.js keeps it.
LEMMA WebStepInv ==
    ASSUME WebInv, WebNext
    PROVE  WebInv'
<1>1. CASE \E b \in Instances, e \in Endians : SetEndian(b, e)
  <2>1. PICK b \in Instances, e \in Endians : SetEndian(b, e)
    BY <1>1
  <2>2. UNCHANGED <<list, offset, packed, packedWith>>
        /\ headLen' = headLen /\ endian' \in [Instances -> Endians]
    BY <2>1 DEF SetEndian, WebInv
  <2> QED  BY <2>2, RestKeeps DEF WebInv
<1>2. CASE \E b \in Instances, n \in {2, 4} : SetHead(b, n)
  <2>1. PICK b \in Instances, n \in {2, 4} : SetHead(b, n)
    BY <1>2
  <2>2. UNCHANGED <<list, offset, packed, packedWith>>
        /\ endian' = endian /\ headLen' \in [Instances -> {0, 2, 4}]
    BY <2>1 DEF SetHead, WebInv
  <2> QED  BY <2>2, RestKeeps DEF WebInv
<1>3. CASE \E b \in Instances, f \in Fields : \E i \in 0..Len(list[b]) : Add(b, f, i)
  <2>1. PICK b \in Instances, f \in Fields : \E i \in 0..Len(list[b]) : Add(b, f, i)
    BY <1>3
  <2>2. PICK i \in 0..Len(list[b]) : Add(b, f, i)
    BY <2>1
  <2>3. MessageInv /\ UNCHANGED <<endian, headLen, packed>>
    BY <2>2 DEF WebInv, Add, splice
  <2>4. MessageInv'
    BY <2>2, <2>3, AddKeeps DEF Add, splice
  <2> QED  BY <2>3, <2>4 DEF WebInv
<1>4. CASE \E b \in Instances : pack(b)
  <2>1. PICK b \in Instances : pack(b)
    BY <1>4
  <2> DEFINE p == Packing(list[b], offset[b], endian[b], headLen[b])
  <2>2. /\ packed' = [packed EXCEPT ![b] = p.buffer]
        /\ packedWith' = [packedWith EXCEPT ![b] = [endian |-> endian[b], head |-> headLen[b],
                                                    list |-> list[b]]]
        /\ UNCHANGED <<endian, headLen, list, offset>>
    BY <2>1 DEF pack
  <2>3. /\ MessageInv /\ endian[b] \in Endians /\ headLen[b] \in {0, 2, 4} /\ headLen[b] \in 0..8
        /\ list[b] \in Seq(Fields) /\ Listed(list[b], offset[b])
    BY DEF WebInv, MessageInv, MessageType
  <2>4. PICK h : Ends(h, list[b]) /\ offset[b] = h[Len(list[b])]
    BY <2>3 DEF Listed
  <2>5. Laid(p.buffer, list[b], h, endian[b], headLen[b]) /\ p.buffer \in Seq(Byte)
    BY <2>3, <2>4, WebLays DEF Listed
  <2> HIDE DEF p
  <2>6. MessageInv'
    BY <2>2, <2>3, <2>5, PackKeeps
  <2>7. packed' \in [Instances -> Seq(Byte)]
    <3>1. packed \in [Instances -> Seq(Byte)]
      BY DEF WebInv
    <3> QED  BY <2>2, <2>5, <3>1
  <2> QED  BY <2>2, <2>6, <2>7 DEF WebInv
<1> QED  BY <1>1, <1>2, <1>3, <1>4 DEF WebNext

\* The lists and the messages of the browser have their types.
LEMMA WebTypes == WebInv => WebTypeOK
BY DEF WebInv, MessageInv, MessageType, WebTypeOK

\* What a message with a configuration reads back to, and what its header says.
Readable(B, w) ==
    LET body == BodyOf(B, w.head)
    IN  /\ Len(body) \in Nat /\ Len(B) = w.head + Len(body)
        /\ TextsFit(w.list) => /\ ReadByWeb(ReadAll(body, w.list, w.endian), body, w.list)
                               /\ ReadByNode(Node!ReadAll(body, w.list, w.endian), body, w.list)
        /\ Len(body) < RadixTo[w.head] =>
              Number(Ordered(SubSeq(B, 1, w.head), w.endian)) = Len(body)

\* A packed message reads back to what its fields mean, and its header counts its body.
LEMMA PackedReads ==
    ASSUME NEW B, NEW w, w.list \in Seq(Fields), w.head \in {0, 2, 4}, Packed(B, w)
    PROVE  Readable(B, w)
<1> DEFINE l == w.list
           e == w.endian
           head == w.head
           body == BodyOf(B, head)
<1>1. l \in Seq(Fields) /\ head \in 0..8 /\ BufferLast(l)
  BY DEF Packed
<1>2. PICK h : Laid(B, l, h, e, head)
  BY DEF Packed
<1> HIDE DEF l, e, head
<1>5. Len(B) = head + h[Len(l)]
  BY <1>2 DEF Laid
<1>3. /\ Len(body) = h[Len(l)] /\ h[Len(l)] \in Nat
      /\ TextsFit(l) => /\ ReadByWeb(ReadAll(body, l, e), body, l)
                        /\ ReadByNode(Node!ReadAll(body, l, e), body, l)
  BY <1>1, <1>2, BodyReads
<1> HIDE DEF body
<1>4. Len(body) < RadixTo[head] => Number(Ordered(SubSeq(B, 1, head), e)) = Len(body)
  BY <1>1, <1>2, <1>3, HeaderCounts
<1> QED  BY <1>3, <1>4, <1>5 DEF Readable, l, e, head, body

\* The messages of either codec are such.
LEMMA PackedBody ==
    ASSUME MessageInv, NEW b \in Instances, packed[b] # <<>>
    PROVE  /\ packedWith[b].list \in Seq(Fields) /\ packedWith[b].head \in {0, 2, 4}
           /\ Readable(packed[b], packedWith[b])
<1>1. /\ packedWith[b].list \in Seq(Fields) /\ packedWith[b].head \in {0, 2, 4}
      /\ Packed(packed[b], packedWith[b])
  BY DEF MessageInv, MessageType
<1> QED  BY <1>1, PackedReads

\* What the invariant says of the browser's messages.
LEMMA WebMessages ==
    ASSUME WebInv
    PROVE  WebRoundTrip /\ ServerReads
<1>1. MessageInv
  BY DEF WebInv
<1>2. ASSUME NEW b \in Instances, packed[b] # <<>>, TextsFit(packedWith[b].list)
      PROVE  LET l == packedWith[b].list
                 r == ReadAll(Body(b), l, packedWith[b].endian)
                 s == Node!ReadAll(Body(b), l, packedWith[b].endian)
             IN  ReadByWeb(r, Body(b), l) /\ ReadByNode(s, Body(b), l)
  BY <1>1, <1>2, PackedBody DEF Readable, Body, BodyOf
<1>3. ReadsBack /\ ServerReads
  BY <1>2 DEF ReadsBack, ServerReads, ReadByWeb, ReadByNode
<1>4. HeadIsBodyLength
  BY <1>1, PackedBody DEF Readable, HeadIsBodyLength, Body, BodyOf
<1> QED  BY <1>3, <1>4 DEF WebRoundTrip

\* The message of the same fields that the server packs, as the browser reads it.
LEMMA ServerMessages ==
    ASSUME WebInv
    PROVE  BrowserReads
<1> SUFFICES ASSUME NEW b \in Instances, Node!Fits(list[b])
             PROVE  LET l == list[b]
                        r == ReadAll(Node!PackBytes(l, offset[b], endian[b], 0), l, endian[b])
                    IN  /\ Len(r.values) = Len(l) /\ r.offset = offset[b]
                        /\ \A i \in DOMAIN l :
                              Node!Understood(l[i], r.values[i]) \/ Throws(l[i], r.values[i])
  BY DEF BrowserReads
<1> DEFINE l == list[b]
           e == endian[b]
           B == Node!PackBytes(l, offset[b], e, 0)
<1>1. l \in Seq(Fields) /\ Listed(l, offset[b])
  BY DEF WebInv, MessageInv, MessageType
<1>2. PICK h : Ends(h, l) /\ offset[b] = h[Len(l)]
  BY <1>1 DEF Listed
<1>3. BufferLast(l)
  BY <1>1 DEF Listed
<1>4. TextsFit(l) /\ \A i \in DOMAIN l : \A v : Meant(l[i], v) <=> Node!Understood(l[i], v)
  BY <1>1, FittingValues
<1> HIDE DEF l, e
<1>5. Laid(B, l, h, e, 0)
  BY <1>1, <1>2, <1>3, NodeLays
<1> HIDE DEF B
<1>6. /\ B \in Seq(Stored) /\ Len(B) = 0 + h[Len(l)] /\ h[Len(l)] \in Nat
      /\ \A k \in 1..Len(l) : Holds(B, 0 + h[k - 1], Code(l[k], e))
  BY <1>2, <1>5 DEF Laid, Ends
<1>7. \A k \in 1..Len(l) : h[k - 1] \in Nat
  <2>1. \A k \in 1..Len(l) : k - 1 \in 0..Len(l)
    BY <1>1
  <2> QED  BY <1>2, <2>1 DEF Ends
<1>8. Len(B) = h[Len(l)] /\ \A k \in 1..Len(l) : Holds(B, h[k - 1], Code(l[k], e))
  <2>1. \A x \in Nat : 0 + x = x
    OBVIOUS
  <2> QED  BY <1>6, <1>7, <2>1
<1>9. \A k \in 1..Len(l) : TextFits(l[k])
  BY <1>4 DEF TextsFit, TextFits
<1>10. ReadByWeb(ReadAll(B, l, e), B, l)
  BY <1>1, <1>2, <1>3, <1>6, <1>8, <1>9, MessageReads
<1> QED  BY <1>2, <1>4, <1>8, <1>10 DEF ReadByWeb, l, e, B

\* It is about the variables of the codec alone.
LEMMA WebUnchanged == WebInv /\ UNCHANGED webVars => WebInv'
BY RestKeeps DEF WebInv, webVars

\* The invariant of the browser's codec.
LEMMA WebInvariant == WebSpec => []WebInv
<1>1. WebInv /\ [WebNext]_webVars => WebInv'
  BY WebStepInv, WebUnchanged
<1> QED  BY WebInitInv, <1>1, PTL DEF WebSpec

\* Every list that the browser's codec builds, every message it packs and the
\* configuration it remembers of it have their types.
THEOREM WebTypeCorrect == WebSpec => []WebTypeOK
BY WebInvariant, WebTypes, PTL

\* Whatever fields a browser's message has, in whatever order they were put in, DataBuffer.js
\* reads it back field by field, and its header counts its bytes; a float comes back as its
\* single, and a text that its field cuts inside a character takes no other field with it.
THEOREM WebRoundTrips == WebSpec => []WebRoundTrip
<1>1. WebInv => WebRoundTrip
  BY WebMessages
<1> QED  BY WebInvariant, <1>1, PTL

\* DataBuffer.js and ByteBuffer.js read each other's messages, a text that is cut inside a
\* character as far as its whole characters go, unless the browser throws there.
THEOREM WebCrossReads == WebSpec => []WebCrossRead
<1>1. WebInv => WebCrossRead
  BY WebMessages, ServerMessages DEF WebCrossRead
<1> QED  BY WebInvariant, <1>1, PTL

-------------------------------------------------------------------------------
(* The server's codec *)

\* What was packed had numbers and texts that fit, and a header with room for the length.
PackedFits ==
    \A b \in Instances :
        packed[b] # <<>> =>
            LET w == packedWith[b] IN
            /\ Node!Fits(w.list)
            /\ w.head > 0 => Len(packed[b]) < w.head + RadixTo[w.head]

\* The invariant of the server's codec: what it packed fitted, or pack would have thrown.
ServerInv ==
    /\ MessageInv /\ PackedFits
    /\ Endian \in Endians /\ HeadLen \in {0, 2, 4}

\* It holds of new buffers.
LEMMA ServerInitInv == Server!Init => ServerInv
<1> SUFFICES ASSUME Server!Init PROVE ServerInv
  OBVIOUS
<1>1. Endian \in Endians /\ HeadLen \in {0, 2, 4} /\ "BE" \in Endians
  BY DEF Server!Init, Endians
<1>2. MessageType
  <2>1. <<>> \in Seq(Fields) /\ <<>> \in Seq(Stored)
    OBVIOUS
  <2> QED  BY <1>1, <2>1 DEF Server!Init, MessageType
<1>3. \A b \in Instances : Listed(list[b], offset[b]) /\ packed[b] = <<>>
  BY NothingListed DEF Server!Init
<1> QED  BY <1>1, <1>2, <1>3 DEF ServerInv, MessageInv, PackedFits

\* A message that the server packs fits.
LEMMA PackFits ==
    ASSUME ServerInv, NEW b \in Instances, Server!pack(b)
    PROVE  MessageInv' /\ PackedFits'
<1> DEFINE l == list[b]
           off == offset[b]
           p == Node!PackBytes(l, off, Endian, HeadLen)
           w == [endian |-> Endian, head |-> HeadLen, list |-> list[b]]
<1>1. /\ packed' = [packed EXCEPT ![b] = p] /\ packedWith' = [packedWith EXCEPT ![b] = w]
      /\ list' = list /\ offset' = offset
      /\ Node!Fits(l) /\ (HeadLen > 0 => off < RadixTo[HeadLen])
  BY ServerIsNode DEF Server!pack
<1>2. /\ MessageInv /\ Endian \in Endians /\ HeadLen \in {0, 2, 4} /\ HeadLen \in 0..8
      /\ l \in Seq(Fields) /\ off \in Nat /\ Listed(l, off)
  BY DEF ServerInv, MessageInv, MessageType
<1>3. PICK h : Ends(h, l) /\ off = h[Len(l)]
  BY <1>2 DEF Listed
<1>4. Laid(p, l, h, Endian, HeadLen)
  BY <1>2, <1>3, NodeLays DEF Listed
<1> HIDE DEF p
<1>5. Len(p) = HeadLen + off
  BY <1>3, <1>4 DEF Laid
<1>6. MessageInv'
  BY <1>1, <1>2, <1>4, PackKeeps
<1>7. ASSUME NEW c \in Instances, packed'[c] # <<>>
      PROVE  /\ Node!Fits(packedWith'[c].list)
             /\ packedWith'[c].head > 0 =>
                   Len(packed'[c]) < packedWith'[c].head + RadixTo[packedWith'[c].head]
  <2>1. DOMAIN packed = Instances /\ DOMAIN packedWith = Instances
    BY <1>2 DEF MessageInv, MessageType
  <2>2. CASE c = b
    <3>1. packed'[c] = p /\ packedWith'[c] = w
      BY <1>1, <2>1, <2>2
    <3>2. w.head = HeadLen /\ w.list = l
      OBVIOUS
    <3>3. ASSUME HeadLen > 0 PROVE HeadLen + off < HeadLen + RadixTo[HeadLen]
      <4>1. off < RadixTo[HeadLen] /\ RadixTo[HeadLen] \in Nat
        BY <1>1, <1>2, <3>3, Powers
      <4> QED  BY <1>2, <4>1
    <3> HIDE DEF w, l, off
    <3> QED  BY <1>1, <1>5, <3>1, <3>2, <3>3
  <2>3. CASE c # b
    <3>1. packed'[c] = packed[c] /\ packedWith'[c] = packedWith[c]
      BY <1>1, <2>1, <2>3
    <3> QED  BY <1>7, <3>1 DEF ServerInv, PackedFits
  <2> QED  BY <2>2, <2>3
<1>8. PackedFits'
  BY <1>7 DEF PackedFits
<1> QED  BY <1>6, <1>8

\* Every call of ByteBuffer.js keeps it.
LEMMA ServerStepInv ==
    ASSUME ServerInv, Server!Next
    PROVE  ServerInv'
<1>1. CASE \E e \in Server!Endians : Server!SetEndian(e)
  <2>1. PICK e \in Endians : Server!SetEndian(e)
    BY <1>1, ServerIsNode
  <2>2. UNCHANGED <<list, offset, packed, packedWith>> /\ HeadLen' = HeadLen /\ Endian' \in Endians
    BY <2>1 DEF Server!SetEndian
  <2>3. MessageInv'
    BY <2>2, RestKeeps DEF ServerInv
  <2> QED  BY <2>2, <2>3 DEF ServerInv, PackedFits
<1>2. CASE \E n \in {2, 4} : Server!SetHead(n)
  <2>1. PICK n \in {2, 4} : Server!SetHead(n)
    BY <1>2
  <2>2. UNCHANGED <<list, offset, packed, packedWith>> /\ Endian' = Endian /\ HeadLen' \in {0, 2, 4}
    BY <2>1 DEF Server!SetHead
  <2>3. MessageInv'
    BY <2>2, RestKeeps DEF ServerInv
  <2> QED  BY <2>2, <2>3 DEF ServerInv, PackedFits
<1>3. CASE \E b \in Instances, f \in Fields : \E i \in 0..Len(list[b]) : Server!Add(b, f, i)
  <2>1. PICK b \in Instances, f \in Fields : \E i \in 0..Len(list[b]) : Server!Add(b, f, i)
    BY <1>3
  <2>2. PICK i \in 0..Len(list[b]) : Server!Add(b, f, i)
    BY <2>1
  <2>3. /\ ~Node!HasBuffer(list[b]) /\ (f.t = "buffer" => i = Len(list[b]))
        /\ list' = [list EXCEPT ![b] = InsertAt(@, i + 1, f)]
        /\ offset' = [offset EXCEPT ![b] = @ + Server!FieldLength(f)]
        /\ UNCHANGED <<Endian, HeadLen, packed, packedWith>>
    BY <2>2, ServerIsNode DEF Server!Add, Server!splice, Server!InsertAt, InsertAt
  <2>4. Server!FieldLength(f) = FieldLength(f)
    BY ServerIsNode, FieldsAre, CodeType
  <2>5. MessageInv'
    BY <2>3, <2>4, AddKeeps DEF ServerInv
  <2> QED  BY <2>3, <2>5 DEF ServerInv, PackedFits
<1>4. CASE \E b \in Instances : Server!pack(b)
  <2>1. PICK b \in Instances : Server!pack(b)
    BY <1>4
  <2>2. UNCHANGED <<Endian, HeadLen>>
    BY <2>1 DEF Server!pack
  <2> QED  BY <2>1, <2>2, PackFits DEF ServerInv
<1> QED  BY <1>1, <1>2, <1>3, <1>4 DEF Server!Next

\* It has the types in it.
LEMMA ServerTypes == ServerInv => Server!TypeOK
<1>1. Stored \subseteq Server!Byte \cup {Server!Garbage}
  BY ServerIsNode, RadixFacts DEF Stored, Byte
<1>2. Seq(Stored) \subseteq Seq(Server!Byte \cup {Server!Garbage})
  BY <1>1
<1> QED  BY <1>2, ServerIsNode DEF ServerInv, MessageInv, MessageType, Server!TypeOK

\* What the invariant says of the server's messages.
LEMMA ServerRoundTrip ==
    ASSUME ServerInv
    PROVE  Server!RoundTrip
<1>1. MessageInv /\ PackedFits
  BY DEF ServerInv
<1>2. ASSUME NEW b \in Instances, packed[b] # <<>>
      PROVE  LET l == packedWith[b].list
                 r == Server!ReadAll(Server!Body(b), l, packedWith[b].endian)
             IN  /\ Len(r.values) = Len(l)
                 /\ \A i \in DOMAIN l : Server!Understood(l[i], r.values[i])
                 /\ r.offset = Len(Server!Body(b))
  <2> DEFINE l == packedWith[b].list
  <2>1. l \in Seq(Fields) /\ Node!Fits(l) /\ Readable(packed[b], packedWith[b])
    BY <1>1, <1>2, PackedBody DEF PackedFits
  <2>2. TextsFit(l) /\ \A i \in DOMAIN l : \A v : Meant(l[i], v) <=> Node!Understood(l[i], v)
    BY <2>1, FittingValues
  <2>3. ReadByNode(Node!ReadAll(Server!Body(b), l, packedWith[b].endian), Server!Body(b), l)
    BY <2>1, <2>2 DEF Readable, BodyOf, Server!Body
  <2> QED  BY <2>2, <2>3, ServerIsNode DEF ReadByNode
<1>3. ASSUME NEW b \in Instances, packed[b] # <<>>, packedWith[b].head > 0
      PROVE  Server!Number(Server!Ordered(SubSeq(packed[b], 1, packedWith[b].head),
                                          packedWith[b].endian))
                = Len(Server!Body(b))
  <2> DEFINE head == packedWith[b].head
             m == Len(Server!Body(b))
  <2>1. Readable(packed[b], packedWith[b]) /\ head \in {0, 2, 4}
        /\ Len(packed[b]) < head + RadixTo[head]
    BY <1>1, <1>3, PackedBody DEF PackedFits
  <2>2. m \in Nat /\ Len(packed[b]) = head + m
    BY <2>1 DEF Readable, BodyOf, Server!Body
  <2>3. RadixTo[head] \in Nat
    <3>1. head \in 0..8
      BY <2>1
    <3> QED  BY <3>1, Powers
  <2>4. m < RadixTo[head]
    <3> HIDE DEF head, m
    <3> QED  BY <2>1, <2>2, <2>3
  <2>5. Number(Ordered(SubSeq(packed[b], 1, head), packedWith[b].endian)) = m
    BY <2>1, <2>4 DEF Readable, BodyOf, Server!Body
  <2> QED  BY <2>5, ServerIsNode
<1>4. ASSUME NEW b \in Instances,
             \A i \in DOMAIN packedWith[b].list : ~Server!Split(packedWith[b].list[i]),
             NEW i \in DOMAIN packed[b]
      PROVE  packed[b][i] # Server!Garbage
  <2>1. packed[b] \in Seq(Byte)
    <3>1. CASE packed[b] = <<>>
      BY <3>1
    <3>2. CASE packed[b] # <<>>
      <4>1. /\ packedWith[b].list \in Seq(Fields)
            /\ \E h : Laid(packed[b], packedWith[b].list, h, packedWith[b].endian, packedWith[b].head)
        BY <1>1, <3>2 DEF MessageInv, MessageType, Packed
      <4>2. DOMAIN packedWith[b].list = 1..Len(packedWith[b].list)
        BY <4>1
      <4>3. NoSplit(packedWith[b].list)
        BY <1>4, <4>2, ServerIsNode, SameTexts DEF NoSplit
      <4> QED  BY <4>1, <4>3 DEF Laid
    <3> QED  BY <3>1, <3>2
  <2>2. packed[b][i] \in Byte
    BY <2>1
  <2> QED  BY <2>2, RadixFacts, ServerIsNode DEF Byte
<1> QED  BY <1>2, <1>3, <1>4
         DEF Server!RoundTrip, Server!ReadsBack, Server!HeadIsBodyLength, Server!EveryByteWritten

\* It is about the variables of the codec alone.
LEMMA ServerUnchanged == ServerInv /\ UNCHANGED Server!vars => ServerInv'
BY RestKeeps DEF ServerInv, PackedFits, Server!vars

\* The invariant of the server's codec.
LEMMA ServerInvariant == Server!Spec => []ServerInv
<1>1. ServerInv /\ [Server!Next]_(Server!vars) => ServerInv'
  BY ServerStepInv, ServerUnchanged
<1> QED  BY ServerInitInv, <1>1, PTL DEF Server!Spec

\* Every list that ByteBuffer.js builds, every message it packs and the configuration it
\* used have their types.
THEOREM ServerTypeCorrect == Server!Spec => []Server!TypeOK
BY ServerInvariant, ServerTypes, PTL

\* Whatever fields a message of the server has, in whatever order they were put in and
\* whoever sets the configuration all instances share, ByteBuffer.js reads it back field by
\* field and its header counts its bytes; if no text of it is cut inside a character, all its
\* bytes have been written, and if one is, it takes no other field with it.
THEOREM ServerRoundTrips == Server!Spec => []Server!RoundTrip
<1>1. ServerInv => Server!RoundTrip
  BY ServerRoundTrip
<1> QED  BY ServerInvariant, <1>1, PTL

-------------------------------------------------------------------------------
(* The two codecs beside each other *)

\* The two share the variables of the messages; only the server refuses what does not fit.
BuffersInv ==
    /\ use = "node" => ServerInv
    /\ use # "node" => WebInv

\* It holds at first, whichever codec runs.
LEMMA BuffersInitInv == Init => BuffersInv
BY WebInitInv, ServerInitInv DEF Init, BuffersInv

\* Each codec keeps it, and the other uses leave its variables alone.
LEMMA BuffersStepInv ==
    ASSUME BuffersInv, [Next]_vars
    PROVE  BuffersInv'
<1>1. CASE NodeStep
  <2>1. use = "node" /\ use' = "node" /\ Server!Next
    BY <1>1 DEF NodeStep, Runs
  <2>2. ServerInv'
    BY <2>1, ServerStepInv DEF BuffersInv
  <2> QED  BY <2>1, <2>2 DEF BuffersInv
<1>2. CASE WebStep
  <2>1. use = "web" /\ use' = "web" /\ WebNext
    BY <1>2 DEF WebStep, Runs
  <2>2. WebInv'
    BY <2>1, WebStepInv DEF BuffersInv
  <2> QED  BY <2>1, <2>2 DEF BuffersInv
<1>3. CASE UNCHANGED <<use, messageVars>>
  <2>1. UNCHANGED webVars /\ UNCHANGED Server!vars /\ use' = use
    BY <1>3 DEF messageVars, webVars, Server!vars
  <2> QED  BY <2>1, WebUnchanged, ServerUnchanged DEF BuffersInv
<1>4. CASE StreamStep
  <2>1. UNCHANGED <<use, messageVars>>
    BY <1>4 DEF StreamStep, Runs
  <2> QED  BY <1>3, <2>1
<1>5. CASE ViewStep
  <2>1. UNCHANGED <<use, messageVars>>
    BY <1>5 DEF ViewStep, Runs
  <2> QED  BY <1>3, <2>1
<1>6. CASE UNCHANGED vars
  <2>1. UNCHANGED <<use, messageVars>>
    BY <1>6 DEF vars
  <2> QED  BY <1>3, <2>1
<1> QED  BY <1>1, <1>2, <1>4, <1>5, <1>6 DEF Next

\* So it holds throughout.
LEMMA BuffersInvariant == Spec => []BuffersInv
<1>1. BuffersInv /\ [Next]_vars => BuffersInv'
  BY BuffersStepInv
<1> QED  BY BuffersInitInv, <1>1, PTL DEF Spec

\* ByteBuffer.js and DataBuffer.js each read back what they packed: every field, in whatever
\* order they were put in, a float as its single and a text that is cut inside a character as
\* far as its whole characters go; the message to its end, and a header that counts its bytes.
THEOREM MessagesComeBack == Spec => []RoundTrip
<1>1. BuffersInv => RoundTrip
  <2>1. BuffersInv /\ use = "node" => Server!RoundTrip
    BY ServerRoundTrip DEF BuffersInv
  <2>2. BuffersInv /\ use = "web" => WebRoundTrip
    BY WebMessages DEF BuffersInv
  <2> QED  BY <2>1, <2>2 DEF RoundTrip
<1> QED  BY BuffersInvariant, <1>1, PTL

\* ByteBuffer.js reads what DataBuffer.js packs to the same values, and the other way round,
\* a text that is cut inside a character as far as its whole characters go; the browser may
\* throw at one that its message ends with.
THEOREM CodecsUnderstand == Spec => []CrossRead
<1>1. BuffersInv => CrossRead
  BY WebMessages, ServerMessages DEF BuffersInv, CrossRead, WebCrossRead
<1> QED  BY BuffersInvariant, <1>1, PTL
=============================================================================
