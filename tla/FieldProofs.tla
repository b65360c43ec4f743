----------------------------- MODULE FieldProofs -----------------------------
(***************************************************************************)
(* Proofs about the methods of bytebuffer.js (BrowserByteBuffer) by which  *)
(* BufferStream writes and reads a field: a number of any width, a base    *)
(* 128 number and its zigzag form, a set of bits, a text.  Form gives the  *)
(* bytes of a field.  In whatever buffer, a field that is written lays     *)
(* them at the offset and disturbs nothing in front of it (Writing);       *)
(* a buffer that holds them there gives the value back and moves behind    *)
(* them (ReadingField); and where some of the bytes of a text are missing  *)
(* the methods throw (CutField).  EncodedFields are the bytes of a list.   *)
(***************************************************************************)
EXTENDS MessageProofs

-------------------------------------------------------------------------------
(* Powers and digits of any base *)

\* P has the powers of h up to the m-th.
PowersUpTo(P, h, m) ==
    /\ P \in [0..m -> Nat \ {0}] /\ P[0] = 1
    /\ \A n \in 1..m : P[n] = h * P[n - 1]

\* A table of powers that starts from one and multiplies has them.
LEMMA PowersOf ==
    ASSUME NEW h \in Nat \ {0}, NEW m \in Nat, NEW P,
           P = CHOOSE f : f = [n \in 0..m |-> IF n = 0 THEN 1 ELSE h * f[n - 1]]
    PROVE  PowersUpTo(P, h, m)
<1> DEFINE S == Nat \ {0}
           g == [q \in S \X (1..m) |-> h * q[1]]
           Unrolled(f) == [n \in 0..m |-> IF n = 0 THEN 1 ELSE h * f[n - 1]]
<1>1. \A x \in S : h * x \in S
  OBVIOUS
<1>2. g \in [S \X (1..m) -> S] /\ \A x \in S, i \in 1..m : g[<<x, i>>] = h * x
  BY <1>1
<1> HIDE DEF g
<1>3. PICK f \in [0..m -> S] : Computes(f, g, 1, m)
  <2>1. 1 \in S
    OBVIOUS
  <2> HIDE DEF S
  <2> QED  BY <1>2, <2>1, Recursion
<1>4. \A n \in 0..m : f[n] = IF n = 0 THEN 1 ELSE g[<<f[n - 1], n>>]
  BY <1>3 DEF Computes
<1>5. ASSUME NEW n \in 1..m PROVE f[n] = h * f[n - 1]
  <2>1. n - 1 \in 0..m /\ n \in 0..m /\ n # 0
    OBVIOUS
  <2>2. f[n - 1] \in S
    BY <1>3, <2>1
  <2>3. f[n] = g[<<f[n - 1], n>>]
    BY <1>4, <2>1
  <2> QED  BY <1>2, <2>2, <2>3
<1>6. f = Unrolled(f)
  <2>1. \A n \in 0..m : f[n] = IF n = 0 THEN 1 ELSE h * f[n - 1]
    <3>1. ASSUME NEW n \in 0..m PROVE f[n] = IF n = 0 THEN 1 ELSE h * f[n - 1]
      <4>1. CASE n = 0
        BY <1>4, <4>1
      <4>2. CASE n # 0
        <5>1. n \in 1..m
          BY <4>2
        <5> QED  BY <1>5, <4>2, <5>1
      <4> QED  BY <4>1, <4>2
    <3> QED  BY <3>1
  <2>2. f = [n \in 0..m |-> f[n]]
    BY <1>3
  <2> QED  BY <2>1, <2>2
<1>8. P = Unrolled(P)
  <2>1. P = CHOOSE x : x = Unrolled(x)
    OBVIOUS
  <2> HIDE DEF Unrolled
  <2> QED  BY <1>6, <2>1
<1> DEFINE U == {n \in Nat : n <= m => P[n] \in S}
<1> HIDE DEF S
<1>9. P[0] = 1 /\ \A n \in 1..m : P[n] = h * P[n - 1]
  <2>1. 0 \in 0..m /\ \A n \in 1..m : n \in 0..m /\ n # 0
    OBVIOUS
  <2> QED  BY <1>8, <2>1
<1>10. 0 \in U
  BY <1>9 DEF S
<1>11. ASSUME NEW n \in Nat, n \in U PROVE n + 1 \in U
  <2>1. SUFFICES ASSUME n + 1 <= m PROVE P[n + 1] \in S
    OBVIOUS
  <2>2. P[n] \in S /\ n + 1 \in 1..m /\ n + 1 - 1 = n
    BY <1>11, <2>1
  <2>3. P[n + 1] = h * P[n]
    BY <1>9, <2>2
  <2> QED  BY <1>1, <2>2, <2>3
<1> HIDE DEF U
<1>12. Nat \subseteq U
  BY <1>10, <1>11, Counting
<1>13. \A n \in 0..m : P[n] \in S
  BY <1>12 DEF U
<1>14. P = [n \in 0..m |-> P[n]]
  BY <1>8
<1> QED  BY <1>9, <1>13, <1>14 DEF S, PowersUpTo

\* What a loop adds up, turn by turn.
Sums(t, n) == CHOOSE f : f = [k \in 0..n |-> IF k = 0 THEN 0 ELSE f[k - 1] + t[k]]

\* It adds the next term to what there is.
LEMMA SumIs ==
    ASSUME NEW n \in Nat, NEW t \in [1..n -> Nat], NEW s, s = Sums(t, n)
    PROVE  s \in [0..n -> Nat] /\ s[0] = 0 /\ \A k \in 1..n : s[k] = s[k - 1] + t[k]
<1> DEFINE g == [q \in Nat \X (1..n) |-> q[1] + t[q[2]]]
           Unrolled(f) == [k \in 0..n |-> IF k = 0 THEN 0 ELSE f[k - 1] + t[k]]
<1>1. g \in [Nat \X (1..n) -> Nat] /\ \A x \in Nat, i \in 1..n : g[<<x, i>>] = x + t[i]
  OBVIOUS
<1> HIDE DEF g
<1>2. PICK f \in [0..n -> Nat] : Computes(f, g, 0, n)
  BY <1>1, Recursion
<1>3. \A k \in 0..n : f[k] = IF k = 0 THEN 0 ELSE f[k - 1] + t[k]
  <2>1. ASSUME NEW k \in 0..n PROVE f[k] = IF k = 0 THEN 0 ELSE f[k - 1] + t[k]
    <3>1. CASE k = 0
      BY <1>2, <3>1 DEF Computes
    <3>2. CASE k # 0
      <4>1. k \in 1..n /\ k - 1 \in 0..n
        BY <3>2
      <4>2. f[k - 1] \in Nat
        BY <1>2, <4>1
      <4>3. f[k] = g[<<f[k - 1], k>>]
        BY <1>2, <3>2 DEF Computes
      <4> QED  BY <1>1, <3>2, <4>1, <4>2, <4>3
    <3> QED  BY <3>1, <3>2
  <2> QED  BY <2>1
<1>4. f = Unrolled(f)
  <2>1. f = [k \in 0..n |-> f[k]]
    BY <1>2
  <2> QED  BY <1>3, <2>1
<1>5. s = Unrolled(s)
  <2>1. s = CHOOSE x : x = Unrolled(x)
    BY DEF Sums
  <2> HIDE DEF Unrolled
  <2> QED  BY <1>4, <2>1
<1>6. s[0] = 0 /\ \A k \in 1..n : s[k] = s[k - 1] + t[k]
  <2>1. 0 \in 0..n /\ \A k \in 1..n : k \in 0..n /\ k # 0
    OBVIOUS
  <2>2. \A k \in 0..n : s[k] = IF k = 0 THEN 0 ELSE s[k - 1] + t[k]
    BY <1>5
  <2> QED  BY <2>1, <2>2
<1> DEFINE U == {k \in Nat : k <= n => s[k] \in Nat}
<1>7. 0 \in U
  BY <1>6
<1>8. ASSUME NEW k \in Nat, k \in U PROVE k + 1 \in U
  <2>1. SUFFICES ASSUME k + 1 <= n PROVE s[k + 1] \in Nat
    OBVIOUS
  <2> DEFINE j == k + 1
  <2>2. j \in 1..n /\ j - 1 = k /\ s[k] \in Nat
    BY <1>8, <2>1
  <2> HIDE DEF j
  <2>3. s[j] = s[k] + t[j] /\ t[j] \in Nat
    BY <1>6, <2>2
  <2> QED  BY <2>2, <2>3 DEF j
<1> HIDE DEF U
<1>9. \A k \in 0..n : s[k] \in Nat
  <2>1. Nat \subseteq U
    BY <1>7, <1>8, Counting
  <2> QED  BY <2>1 DEF U
<1>10. s = [k \in 0..n |-> s[k]]
  BY <1>5
<1> QED  BY <1>6, <1>9, <1>10

\* s[k] is what the first k of the digits d add up to.
AddsUp(s, d, P, n) ==
    /\ s \in [0..n -> Nat] /\ s[0] = 0
    /\ \A k \in 1..n : s[k] = s[k - 1] + d[k] * P[k - 1]

\* Digits of base h add up to less than the next power.
LEMMA SumBelow ==
    ASSUME NEW h \in Nat \ {0}, NEW m \in Nat, NEW P, PowersUpTo(P, h, m), NEW n \in 0..m,
           NEW d \in [1..n -> 0..(h - 1)], NEW s, AddsUp(s, d, P, n)
    PROVE  \A k \in 0..n : s[k] < P[k]
<1> DEFINE U == {k \in Nat : k <= n => s[k] < P[k]}
<1>1. 0 \in U
  BY DEF AddsUp, PowersUpTo
<1>2. ASSUME NEW k \in Nat, k \in U PROVE k + 1 \in U
  <2>1. SUFFICES ASSUME k + 1 <= n PROVE s[k + 1] < P[k + 1]
    OBVIOUS
  <2>2. k \in 0..m /\ k + 1 \in 1..n /\ k + 1 \in 1..m /\ k \in 0..n /\ k + 1 - 1 = k
    BY <2>1
  <2> DEFINE p == P[k]
             x == d[k + 1]
             t == s[k]
  <2>3. s[k + 1] = t + x * p /\ P[k + 1] = h * p
    <3> DEFINE i == k + 1
    <3>1. i \in 1..n /\ i \in 1..m /\ i - 1 = k
      BY <2>2
    <3> HIDE DEF i
    <3>2. P[i] = h * P[i - 1]
      BY <3>1 DEF PowersUpTo
    <3>3. s[i] = s[i - 1] + d[i] * P[i - 1]
      BY <3>1 DEF AddsUp
    <3>4. P[i] = h * P[k] /\ s[i] = s[k] + d[i] * P[k]
      BY <3>1, <3>2, <3>3
    <3> QED  BY <3>4 DEF i
  <2>4. p \in Nat \ {0} /\ t \in Nat /\ x \in 0..(h - 1) /\ t < p
    <3>1. k <= n
      BY <2>1
    <3>2. t < p
      BY <1>2, <3>1
    <3>3. p \in Nat \ {0} /\ t \in Nat /\ x \in 0..(h - 1)
      BY <2>2 DEF AddsUp, PowersUpTo
    <3> QED  BY <3>2, <3>3
  <2> HIDE DEF p, x, t
  <2>5. x * p + p <= h * p
    <3>1. PICK c \in Nat : h = x + 1 + c
      <4>1. h - 1 - x \in Nat /\ h = x + 1 + (h - 1 - x)
        BY <2>4
      <4> QED  BY <4>1
    <3>2. h * p = x * p + p + c * p /\ c * p \in Nat /\ x * p \in Nat
      BY <2>4, <3>1
    <3> QED  BY <2>4, <3>2
  <2>6. x * p \in Nat /\ h * p \in Nat
    BY <2>4
  <2>7. t + x * p < h * p
    BY <2>4, <2>5, <2>6
  <2> QED  BY <2>3, <2>7
<1> HIDE DEF U
<1>3. Nat \subseteq U
  BY <1>1, <1>2, Counting
<1> QED  BY <1>3 DEF U

\* d has the lower n digits of w.
HasDigits(d, w, P, h, n) == \A k \in 1..n : d[k] = (w \div P[k - 1]) % h

\* The digits of w add up to it, modulo the power.
LEMMA DigitsAddUp ==
    ASSUME NEW h \in Nat \ {0}, NEW m \in Nat, NEW P, PowersUpTo(P, h, m), NEW n \in 0..m,
           NEW w \in Nat, NEW d, HasDigits(d, w, P, h, n),
           NEW s, AddsUp(s, d, P, n)
    PROVE  \A k \in 0..n : s[k] = w % P[k]
<1> DEFINE U == {k \in Nat : k <= n => s[k] = w % P[k]}
<1>1. 0 \in U
  <2>1. w % 1 = 0
    OBVIOUS
  <2> QED  BY <2>1 DEF AddsUp, PowersUpTo
<1>2. ASSUME NEW k \in Nat, k \in U PROVE k + 1 \in U
  <2>1. SUFFICES ASSUME k + 1 <= n PROVE s[k + 1] = w % P[k + 1]
    OBVIOUS
  <2>2. k \in 0..m /\ k + 1 \in 1..n /\ k + 1 \in 1..m /\ k \in 0..n /\ k + 1 - 1 = k
    BY <2>1
  <2> DEFINE p == P[k]
             x == (w \div p) % h
             t == w % p
  <2>3. s[k + 1] = t + x * p /\ P[k + 1] = h * p
    <3> DEFINE i == k + 1
    <3>1. i \in 1..n /\ i \in 1..m /\ i - 1 = k /\ s[k] = t
      BY <1>2, <2>2
    <3> HIDE DEF i
    <3>2. P[i] = h * P[i - 1]
      BY <3>1 DEF PowersUpTo
    <3>3. s[i] = s[i - 1] + d[i] * P[i - 1]
      BY <3>1 DEF AddsUp
    <3>4. d[i] = (w \div P[i - 1]) % h
      BY <3>1 DEF HasDigits
    <3>5. P[i] = h * p /\ d[i] = x
      BY <3>1, <3>2, <3>4
    <3>6. s[i] = t + d[i] * p
      BY <3>1, <3>3
    <3> HIDE DEF t, x
    <3>7. s[i] = t + x * p
      BY <3>5, <3>6
    <3> QED  BY <3>5, <3>7 DEF i
  <2>4. p \in Nat /\ p > 0
    BY <2>2 DEF PowersUpTo
  <2> HIDE DEF p
  <2>5. t \in 0..(p - 1) /\ w = p * (w \div p) + t /\ w \div p \in Nat
    BY <2>4
  <2> DEFINE q == w \div p
             z == q \div h
  <2>7. q \in Nat /\ w = p * q + t /\ x = q % h
    BY <2>5
  <2> HIDE DEF x, t, q
  <2>6. x \in 0..(h - 1) /\ q = h * z + x /\ z \in Int
    BY <2>7
  <2> HIDE DEF z
  <2> DEFINE a == h * p
             r == t + x * p
  <2>8. a \in Nat /\ a > 0
    BY <2>4 DEF a
  <2>9. w = a * z + r
    <3>1. p * (h * z + x) = (h * p) * z + x * p
      BY <2>4, <2>6
    <3> QED  BY <2>4, <2>5, <2>6, <2>7, <3>1
  <2>10. r \in 0..(a - 1)
    <3>1. PICK c \in Nat : h = x + 1 + c
      <4>1. h - 1 - x \in Nat /\ h = x + 1 + (h - 1 - x)
        BY <2>6
      <4> QED  BY <4>1
    <3>2. h * p = x * p + p + c * p /\ c * p \in Nat /\ x * p \in Nat
      BY <2>4, <2>6, <3>1
    <3> QED  BY <2>4, <2>5, <3>2
  <2> HIDE DEF a, r
  <2>11. w % a = r
    <3>1. w \in Int
      OBVIOUS
    <3> QED  BY <2>6, <2>8, <2>9, <2>10, <3>1, Quotient
  <2> QED  BY <2>3, <2>11 DEF a, r
<1> HIDE DEF U
<1>3. Nat \subseteq U
  BY <1>1, <1>2, Counting
<1> QED  BY <1>3 DEF U

\* Any digit can be told from the sum.
LEMMA DigitOfSum ==
    ASSUME NEW h \in Nat \ {0}, NEW m \in Nat, NEW P, PowersUpTo(P, h, m), NEW n \in 0..m,
           NEW d \in [1..n -> 0..(h - 1)], NEW s, AddsUp(s, d, P, n)
    PROVE  \A j \in 1..n : (s[n] \div P[j - 1]) % h = d[j]
<1> SUFFICES ASSUME NEW j \in 1..n PROVE (s[n] \div P[j - 1]) % h = d[j]
  OBVIOUS
<1> DEFINE p == P[j - 1]
<1>1. j - 1 \in 0..m /\ j - 1 \in 0..n /\ j \in 1..m /\ j \in 0..n
  OBVIOUS
<1>2. p \in Nat /\ p > 0 /\ P[j] = h * p
  <2>1. P[j] = h * P[j - 1]
    BY <1>1 DEF PowersUpTo
  <2>2. P[j - 1] \in Nat \ {0}
    BY <1>1 DEF PowersUpTo
  <2> HIDE DEF p
  <2>3. p \in Nat \ {0} /\ P[j] = h * p
    BY <2>1, <2>2 DEF p
  <2> QED  BY <2>3
<1>3. s[j - 1] \in Nat /\ s[j - 1] < p /\ s[j] = s[j - 1] + d[j] * p /\ d[j] \in 0..(h - 1)
  <2>1. s[j - 1] < P[j - 1]
    BY <1>1, SumBelow
  <2> QED  BY <1>1, <2>1 DEF AddsUp
\* what comes later is a multiple of h * p
<1> DEFINE U == {k \in Nat : k <= n /\ k >= j =>
                    \E c \in Nat : s[k] = s[j] + c * (h * p) /\ \E e \in Nat \ {0} : P[k] = e * (h * p)}
<1>4. 0 \in U
  OBVIOUS
<1>5. ASSUME NEW k \in Nat, k \in U PROVE k + 1 \in U
  <2>1. SUFFICES ASSUME k + 1 <= n, k + 1 >= j
        PROVE  \E c \in Nat : s[k + 1] = s[j] + c * (h * p) /\ \E e \in Nat \ {0} : P[k + 1] = e * (h * p)
    OBVIOUS
  <2> DEFINE a == h * p
  <2>0. a \in Nat
    BY <1>2
  <2>2. CASE k + 1 = j
    <3> DEFINE t == s[j]
    <3>0. t \in Nat /\ P[j] = a
      BY <1>1, <1>2 DEF AddsUp
    <3> HIDE DEF a, t
    <3>1. t = t + 0 * a /\ P[j] = 1 * a
      BY <2>0, <3>0
    <3> USE DEF t
    <3>2. \E c \in Nat : s[j] = s[j] + c * a /\ \E e \in Nat \ {0} : P[j] = e * a
      BY <3>1
    <3> QED  BY <2>2, <3>2 DEF a
  <2>3. CASE k + 1 # j
    <3>1. k >= j /\ k <= n /\ k + 1 \in 1..n /\ k + 1 \in 1..m /\ k + 1 - 1 = k
      BY <2>1, <2>3
    <3>2. PICK c \in Nat, e \in Nat \ {0} : s[k] = s[j] + c * a /\ P[k] = e * a
      BY <1>5, <3>1
    <3> DEFINE x == d[k + 1]
    <3>3. s[k + 1] = s[k] + x * P[k] /\ P[k + 1] = h * P[k] /\ x \in Nat
      <4>1. x \in 0..(h - 1)
        BY <3>1
      <4> DEFINE i == k + 1
      <4>2. i \in 1..n /\ i \in 1..m /\ i - 1 = k
        BY <3>1
      <4> HIDE DEF i
      <4>3. s[i] = s[i - 1] + d[i] * P[i - 1] /\ P[i] = h * P[i - 1]
        BY <4>2 DEF AddsUp, PowersUpTo
      <4>4. s[k + 1] = s[k] + x * P[k] /\ P[k + 1] = h * P[k]
        BY <4>2, <4>3 DEF i
      <4> QED  BY <4>1, <4>4
    <3> HIDE DEF a, x
    <3>4. c * a + x * (e * a) = (c + x * e) * a /\ h * (e * a) = (h * e) * a
      BY <2>0, <3>3
    <3>5. c + x * e \in Nat /\ h * e \in Nat \ {0} /\ c * a \in Nat /\ x * (e * a) \in Nat
      <4>1. x * e \in Nat /\ c * a \in Nat
        BY <2>0, <3>3
      <4>2. h * e \in Nat \ {0}
        OBVIOUS
      <4>3. e * a \in Nat
        BY <2>0
      <4>4. x * (e * a) \in Nat
        <5> DEFINE y == e * a
        <5>1. y \in Nat
          BY <4>3
        <5> HIDE DEF y
        <5>2. x * y \in Nat
          BY <3>3, <5>1
        <5> QED  BY <5>2 DEF y
      <4> QED  BY <4>1, <4>2, <4>4
    <3>6. s[j] \in Nat
      BY <1>1 DEF AddsUp
    <3>7. s[k + 1] = s[j] + (c + x * e) * a
      <4> DEFINE u == c * a
                 y == x * (e * a)
      <4>1. s[k + 1] = (s[j] + u) + y
        BY <3>2, <3>3
      <4>2. u \in Nat /\ y \in Nat /\ u + y = (c + x * e) * a
        BY <3>4, <3>5
      <4> HIDE DEF u, y
      <4>3. (s[j] + u) + y = s[j] + (u + y)
        BY <3>6, <4>2
      <4> QED  BY <4>1, <4>2, <4>3
    <3>8. P[k + 1] = (h * e) * a
      BY <3>2, <3>3, <3>4
    <3> QED  BY <3>5, <3>7, <3>8 DEF a
  <2> QED  BY <2>2, <2>3
<1> HIDE DEF U
<1>6. n \in U
  <2>1. Nat \subseteq U
    BY <1>4, <1>5, Counting
  <2> QED  BY <2>1
<1>7. PICK c \in Nat : s[n] = s[j] + c * (h * p)
  BY <1>6 DEF U
<1> DEFINE x == d[j]
           t == s[j - 1]
<1>8. t \in 0..(p - 1) /\ x \in 0..(h - 1) /\ s[n] = t + x * p + c * (h * p)
  BY <1>2, <1>3, <1>7
<1> HIDE DEF p, x, t
<1>9. s[n] = p * (x + h * c) + t
  <2>1. p * (x + h * c) = x * p + c * (h * p)
    BY <1>2, <1>8
  <2>2. x * p \in Nat /\ c * (h * p) \in Nat
    BY <1>2, <1>8
  <2> QED  BY <1>8, <2>1, <2>2
<1>10. s[n] \div p = x + h * c
  <2>1. s[n] \in Int /\ x + h * c \in Int
    BY <1>8 DEF AddsUp
  <2> QED  BY <1>2, <1>8, <1>9, <2>1, Quotient
<1>11. (x + h * c) % h = x
  <2> DEFINE y == x + h * c
  <2>1. y \in Int /\ y = h * c + x /\ c \in Int /\ h > 0 /\ h \in Nat
    BY <1>8
  <2> HIDE DEF y
  <2>2. y % h = x
    BY <1>8, <2>1, Quotient
  <2> QED  BY <2>2 DEF y
<1> QED  BY <1>10, <1>11 DEF p, x

\* The digit of x behind the lower ones that a counts; a number of three factors.
DigitAt(x, a, h) == (x \div a) % h
Factors(m, a, h, c) == a \in Nat \ {0} /\ h \in Nat \ {0} /\ c \in Nat \ {0} /\ m = a * h * c

\* The lower digits of a remainder are those of the number.
LEMMA DigitOfRemainder ==
    ASSUME NEW x \in Nat, NEW m, NEW a, NEW h, NEW c, Factors(m, a, h, c),
           NEW low, low = x % m
    PROVE  DigitAt(low, a, h) = DigitAt(x, a, h)
<1>0. a \in Nat /\ a > 0 /\ h \in Nat /\ h > 0 /\ c \in Nat /\ c > 0 /\ m = a * h * c
  BY DEF Factors
<1> DEFINE q == x \div m
           r == x % m
           y == r \div a
           t == r % a
           k == h * c * q
<1>1. m \in Nat /\ m > 0
  <2>1. a * h \in Nat /\ a * h > 0
    BY <1>0, SMT
  <2> DEFINE b == a * h
  <2> HIDE DEF b
  <2>2. b * c \in Nat /\ b * c > 0
    BY <1>0, <2>1 DEF b
  <2> QED  BY <1>0, <2>2 DEF b
<1>2. q \in Nat /\ r \in 0..(m - 1) /\ x = m * q + r
  BY <1>0, <1>1
<1> HIDE DEF q, r
<1>3. y \in Nat /\ t \in 0..(a - 1) /\ r = a * y + t
  BY <1>0, <1>2
<1> HIDE DEF y, t
<1>4. x = a * (k + y) + t
  <2>1. m * q = a * k
    BY <1>0, <1>2
  <2>2. a * (k + y) = a * k + a * y /\ a * k \in Nat /\ a * y \in Nat
    BY <1>0, <1>2, <1>3
  <2> HIDE DEF k
  <2> QED  BY <1>0, <1>2, <1>3, <2>1, <2>2
<1>5. k + y \in Int
  BY <1>0, <1>2, <1>3
<1>6. x \div a = k + y
  <2> DEFINE u == k + y
  <2>1. u \in Int /\ x = a * u + t
    BY <1>0, <1>4, <1>5
  <2> HIDE DEF u
  <2>2. x \div a = u
    BY <1>0, <1>3, <2>1, Quotient
  <2> QED  BY <2>2 DEF u
<1> DEFINE z == y \div h
           e == y % h
<1>7. e \in 0..(h - 1) /\ y = h * z + e /\ z \in Nat
  BY <1>0, <1>3
<1> HIDE DEF z, e
<1>8. k + y = h * (c * q + z) + e /\ c * q + z \in Int
  BY <1>0, <1>2, <1>7
<1>9. (k + y) % h = e
  <2> DEFINE u == k + y
             v == c * q + z
  <2>1. u \in Int /\ v \in Int /\ u = h * v + e
    BY <1>0, <1>5, <1>8
  <2> HIDE DEF u, v
  <2>2. u % h = e
    BY <1>0, <1>7, <2>1, Quotient
  <2> QED  BY <2>2 DEF u
<1>10. y % h = e
  BY <1>7 DEF e
<1>11. DigitAt(low, a, h) = (r \div a) % h
  BY DEF DigitAt, r
<1>12. DigitAt(x, a, h) = (x \div a) % h
  BY DEF DigitAt
<1> QED  BY <1>6, <1>9, <1>10, <1>11, <1>12 DEF y
-------------------------------------------------------------------------------
(* Base 128 numbers *)

\* The powers of two, and of half the values of a byte.
LEMMA TwoPowers == PowersUpTo(TwoTo, 2, 8)
<1>1. TwoTo = CHOOSE f : f = [n \in 0..8 |-> IF n = 0 THEN 1 ELSE 2 * f[n - 1]]
  BY DEF TwoTo
<1>2. 2 \in Nat \ {0} /\ 8 \in Nat
  OBVIOUS
<1> QED  BY <1>1, <1>2, PowersOf

\* A byte has at least two bits; it is worth twice its half.
LEMMA ByteFacts ==
    /\ ByteBits \in 1..8 /\ TwoTo[ByteBits] = Radix
    /\ Half \in Nat /\ Half >= 2 /\ Radix = 2 * Half
<1>1. PICK n \in 2..8 : TwoTo[n] = Radix
  BY StreamAssumption DEF VarintAssumption, ByteAssumption
<1>2. ByteBits \in 1..8 /\ TwoTo[ByteBits] = Radix
  <2>1. \E k \in 1..8 : TwoTo[k] = Radix
    BY <1>1
  <2> QED  BY <2>1 DEF ByteBits
<1>3. Radix >= 4
  <2>1. \A k \in 1..8 : TwoTo[k] = 2 * TwoTo[k - 1] /\ TwoTo[k - 1] \in Nat
    BY TwoPowers DEF PowersUpTo
  <2>2. TwoTo[1] = 2 * TwoTo[0] /\ TwoTo[0] = 1
    BY <2>1, TwoPowers DEF PowersUpTo
  <2>3. TwoTo[2] = 2 * TwoTo[1]
    BY <2>1
  <2>4. TwoTo[3] = 2 * TwoTo[2] /\ TwoTo[4] = 2 * TwoTo[3] /\ TwoTo[5] = 2 * TwoTo[4]
    BY <2>1
  <2>5. TwoTo[6] = 2 * TwoTo[5] /\ TwoTo[7] = 2 * TwoTo[6] /\ TwoTo[8] = 2 * TwoTo[7]
    BY <2>1
  <2>6. TwoTo[2] = 4 /\ TwoTo[3] = 8 /\ TwoTo[4] = 16 /\ TwoTo[5] = 32 /\ TwoTo[6] = 64
        /\ TwoTo[7] = 128 /\ TwoTo[8] = 256
    BY <2>2, <2>3, <2>4, <2>5
  <2> QED  BY <1>1, <2>6
<1>4. Radix \in Nat /\ Radix % 2 = 0
  BY StreamAssumption DEF RadixAssumption
<1>5. Half \in Nat /\ Half >= 2 /\ Radix = 2 * Half
  BY <1>3, <1>4 DEF Half
<1> QED  BY <1>2, <1>5

\* The powers of half the base.
LEMMA HalfPowers == PowersUpTo(HalfTo, Half, 10)
<1>1. HalfTo = CHOOSE f : f = [n \in 0..10 |-> IF n = 0 THEN 1 ELSE Half * f[n - 1]]
  BY DEF HalfTo
<1>2. Half \in Nat \ {0} /\ 10 \in Nat
  BY ByteFacts
<1> HIDE DEF Half
<1> QED  BY <1>1, <1>2, PowersOf

\* One by one, as far as a varint needs them.
LEMMA HalfSteps ==
    /\ \A n \in 0..10 : HalfTo[n] \in Nat /\ HalfTo[n] > 0
    /\ \A n \in 1..10 : HalfTo[n] = Half * HalfTo[n - 1]
    /\ HalfTo[0] = 1 /\ HalfTo[1] = Half /\ HalfTo[2] = Half * HalfTo[1]
    /\ HalfTo[3] = Half * HalfTo[2] /\ HalfTo[4] = Half * HalfTo[3]
    /\ HalfTo[5] = Half * HalfTo[4] /\ HalfTo[6] = Half * HalfTo[5]
    /\ HalfTo[7] = Half * HalfTo[6] /\ HalfTo[8] = Half * HalfTo[7]
    /\ HalfTo[9] = Half * HalfTo[8] /\ HalfTo[10] = Half * HalfTo[9]
<1>1. /\ \A n \in 0..10 : HalfTo[n] \in Nat /\ HalfTo[n] > 0
      /\ \A n \in 1..10 : HalfTo[n] = Half * HalfTo[n - 1]
      /\ HalfTo[0] = 1
  BY HalfPowers DEF PowersUpTo
<1>2. \A n \in 0..9 : n + 1 \in 1..10 /\ (n + 1) - 1 = n
  OBVIOUS
<1>3. ASSUME NEW n \in 0..9 PROVE HalfTo[n + 1] = Half * HalfTo[n]
  <2> DEFINE k == n + 1
  <2>1. k \in 1..10 /\ k - 1 = n
    OBVIOUS
  <2> HIDE DEF k
  <2>2. HalfTo[k] = Half * HalfTo[n]
    BY <1>1, <2>1
  <2> QED  BY <2>2 DEF k
<1> HIDE DEF HalfTo
<1>4. HalfTo[0 + 1] = Half * HalfTo[0]
  BY <1>3
<1>5. HalfTo[1 + 1] = Half * HalfTo[1] /\ HalfTo[2 + 1] = Half * HalfTo[2]
      /\ HalfTo[3 + 1] = Half * HalfTo[3] /\ HalfTo[4 + 1] = Half * HalfTo[4]
      /\ HalfTo[5 + 1] = Half * HalfTo[5] /\ HalfTo[6 + 1] = Half * HalfTo[6]
      /\ HalfTo[7 + 1] = Half * HalfTo[7] /\ HalfTo[8 + 1] = Half * HalfTo[8]
      /\ HalfTo[9 + 1] = Half * HalfTo[9]
  BY <1>3
<1>6. 0 + 1 = 1 /\ 1 + 1 = 2 /\ 2 + 1 = 3 /\ 3 + 1 = 4 /\ 4 + 1 = 5 /\ 5 + 1 = 6
      /\ 6 + 1 = 7 /\ 7 + 1 = 8 /\ 8 + 1 = 9 /\ 9 + 1 = 10
  OBVIOUS
<1>7. HalfTo[1] = Half
  BY <1>1, <1>4, <1>6, ByteFacts
<1> QED  BY <1>1, <1>5, <1>6, <1>7

\* A word has the groups that a fifth byte is needed for.
LEMMA WordFacts ==
    /\ Word \in Nat /\ HalfTo[4] < Word /\ Word <= HalfTo[5] /\ Word * Word = 2 * HalfTo[9]
    /\ \E c \in Nat \ {0} : Word = HalfTo[4] * c
<1> DEFINE W == Word
           p == HalfTo[4]
           c == W \div p
<1>1. W \in Nat /\ p < W /\ W <= HalfTo[5] /\ W * W = 2 * HalfTo[9] /\ W % p = 0
  <2> HIDE DEF Word
  <2> QED  BY StreamAssumption DEF VarintAssumption
<1>2. p \in Nat /\ p > 0
  <2>1. 4 \in 0..10
    OBVIOUS
  <2> QED  BY <2>1, HalfSteps
<1> HIDE DEF W, p
<1>3. c \in Nat /\ W = p * c
  BY <1>1, <1>2
<1>4. c # 0
  BY <1>1, <1>2, <1>3
<1> HIDE DEF c
<1>5. \E x \in Nat \ {0} : W = p * x
  BY <1>3, <1>4
<1> QED  BY <1>1, <1>5 DEF W, p

\* The lower four groups of a number are those of its lowest word.
LEMMA WordDigits ==
    ASSUME NEW x \in Nat, NEW j \in 0..3
    PROVE  ((x % Word) \div HalfTo[j]) % Half = (x \div HalfTo[j]) % Half
<1> DEFINE a == HalfTo[j]
           e == HalfTo[3 - j]
<1>1. PICK c \in Nat \ {0} : Word = HalfTo[4] * c
  BY WordFacts
<1>2. a \in Nat /\ a > 0 /\ e \in Nat /\ e > 0
  <2>1. j \in 0..10 /\ 3 - j \in 0..10
    OBVIOUS
  <2> QED  BY <2>1, HalfSteps
<1>3. HalfTo[4] = a * Half * e
  <2> DEFINE h == Half
             p == HalfTo[1]
             q == HalfTo[2]
             r == HalfTo[3]
             s == HalfTo[4]
  <2>1. h \in Nat /\ p \in Nat /\ q \in Nat /\ r \in Nat /\ p = h /\ q = h * p /\ r = h * q /\ s = h * r
        /\ HalfTo[0] = 1
    <3>1. 1 \in 0..10 /\ 2 \in 0..10 /\ 3 \in 0..10
      OBVIOUS
    <3> QED  BY <3>1, HalfSteps, ByteFacts
  <2> HIDE DEF h, p, q, r, s
  <2>2. s = h * (h * (h * h)) /\ q = h * h /\ r = h * (h * h)
    BY <2>1
  <2>3. s = 1 * h * r /\ s = p * h * q /\ s = q * h * p /\ s = r * h * 1
    BY <2>1, <2>2
  <2>4. j = 0 \/ j = 1 \/ j = 2 \/ j = 3
    OBVIOUS
  <2>5. 3 - 0 = 3 /\ 3 - 1 = 2 /\ 3 - 2 = 1 /\ 3 - 3 = 0
    OBVIOUS
  <2> QED  BY <2>1, <2>3, <2>4, <2>5 DEF p, q, r, s, h
<1> DEFINE k == e * c
           h == Half
<1>4. k \in Nat /\ k > 0 /\ h \in Nat /\ h > 0
  <2>1. h \in Nat /\ h > 0
    BY ByteFacts
  <2> HIDE DEF e
  <2>2. k \in Nat /\ k > 0
    BY <1>2
  <2> QED  BY <2>1, <2>2
<1> DEFINE m == Word
<1> HIDE DEF m
<1>5. m = a * h * k
  <2>1. m = (a * h * e) * c
    BY <1>1, <1>3 DEF m
  <2> HIDE DEF a, h, e
  <2>2. (a * h * e) * c = a * h * (e * c)
    BY <1>2, <1>4
  <2> QED  BY <2>1, <2>2
<1> HIDE DEF a, h, k
<1>6. Factors(m, a, h, k)
  BY <1>2, <1>4, <1>5 DEF Factors
<1> DEFINE low == x % m
<1>7. DigitAt(low, a, h) = DigitAt(x, a, h)
  <2>1. low = x % m
    OBVIOUS
  <2> HIDE DEF low
  <2> QED  BY <1>6, <2>1, DigitOfRemainder
<1> QED  BY <1>7 DEF DigitAt, a, h, m
-------------------------------------------------------------------------------
\* c is w in base 128, in `most` bytes or less.
IsVarint(c, w, most) ==
    /\ c \in Seq(Byte) /\ Len(c) \in 1..most /\ w < HalfTo[Len(c)]
    /\ \A i \in 1..Len(c) :
          c[i] = ((w \div HalfTo[i - 1]) % Half) + IF i < Len(c) THEN Half ELSE 0

\* A group with the bit that says that one follows, or without.
LEMMA GroupBytes ==
    ASSUME NEW g \in 0..(Half - 1)
    PROVE  /\ g + Half \in Byte /\ g + 0 \in Byte /\ g + Half >= Half /\ g + 0 < Half
           /\ (g + Half) % Half = g /\ (g + 0) % Half = g
<1> DEFINE h == Half
<1>1. h \in Nat /\ h >= 2 /\ Byte = 0..(2 * h - 1)
  BY ByteFacts DEF Byte
<1> HIDE DEF h
<1>2. g \in 0..(h - 1)
  BY DEF h
<1>3. g + h = h * 1 + g /\ g + 0 = h * 0 + g /\ g + h \in Int /\ g + 0 \in Int
  BY <1>1, <1>2
<1> DEFINE x == g + h
<1>4. x % h = g
  <2>1. x = h * 1 + g /\ x \in Int /\ h > 0
    BY <1>1, <1>3
  <2> HIDE DEF x
  <2> QED  BY <1>1, <1>2, <2>1, Quotient
<1>5. (g + 0) % h = g
  BY <1>1, <1>2
<1>6. g + h \in Byte /\ g + 0 \in Byte /\ g + h >= h /\ g + 0 < h
  BY <1>1, <1>2
<1> QED  BY <1>4, <1>5, <1>6 DEF h

\* The groups of a number, marked, are a base 128 number.
LEMMA GroupedIsVarint ==
    ASSUME NEW w \in Nat, NEW most \in 1..10, NEW n \in 1..most, w < HalfTo[n], NEW groups,
           DOMAIN groups = 1..n, Len(groups) = n,
           \A i \in 1..n : groups[i] % Half = (w \div HalfTo[i - 1]) % Half
    PROVE  IsVarint(Grouped(groups), w, most)
<1> DEFINE c == Grouped(groups)
           g(i) == (w \div HalfTo[i - 1]) % Half
<1>1. c = [i \in 1..n |-> g(i) + IF i < n THEN Half ELSE 0]
  BY DEF Grouped
<1>2. ASSUME NEW i \in 1..n PROVE g(i) \in 0..(Half - 1)
  <2> DEFINE p == HalfTo[i - 1]
             h == Half
             q == w \div p
  <2>1. p \in Nat /\ p > 0
    <3>1. i - 1 \in 0..10
      OBVIOUS
    <3> QED  BY <3>1, HalfSteps
  <2>2. h \in Nat /\ h > 0
    BY ByteFacts
  <2> HIDE DEF p, h
  <2>3. q \in Int
    BY <2>1
  <2> HIDE DEF q
  <2>4. q % h \in 0..(h - 1)
    BY <2>2, <2>3
  <2> QED  BY <2>4 DEF p, h, q
<1>3. ASSUME NEW i \in 1..n PROVE c[i] \in Byte
  <2>1. c[i] = g(i) + IF i < n THEN Half ELSE 0
    BY <1>1
  <2>2. g(i) \in 0..(Half - 1)
    BY <1>2
  <2> DEFINE y == g(i)
  <2> HIDE DEF y
  <2>3. y + Half \in Byte /\ y + 0 \in Byte
    BY <2>2, GroupBytes DEF y
  <2>4. c[i] = IF i < n THEN y + Half ELSE y + 0
    BY <2>1 DEF y
  <2> HIDE DEF c
  <2> QED  BY <2>3, <2>4
<1>4. c \in Seq(Byte) /\ Len(c) = n
  <2>1. c = [i \in 1..n |-> c[i]] /\ n \in Nat
    BY <1>1
  <2> HIDE DEF c
  <2> QED  BY <1>3, <2>1
<1> QED  BY <1>1, <1>4 DEF IsVarint

\* A 32-bit number is five bytes at most.
LEMMA Varint32Is ==
    ASSUME NEW v \in Int
    PROVE  v % Word \in Nat /\ v % Word < Word /\ IsVarint(Varint32(v), v % Word, 5)
<1> DEFINE W == Word
           w == v % W
           n == calculateVarint32(v)
           groups == [i \in 1..n |-> w \div HalfTo[i - 1]]
<1>1. W \in Nat /\ W > 0 /\ W <= HalfTo[5]
  <2>1. HalfTo[4] \in Nat /\ HalfTo[4] < Word /\ Word \in Nat /\ Word <= HalfTo[5]
    <3>1. 4 \in 0..10
      OBVIOUS
    <3> QED  BY <3>1, HalfSteps, WordFacts
  <2> HIDE DEF Word
  <2> QED  BY <2>1
<1> HIDE DEF W
<1>2. w \in Nat /\ w < W
  BY <1>1
<1>3. n = IF w < Half THEN 1 ELSE IF w < HalfTo[2] THEN 2 ELSE IF w < HalfTo[3] THEN 3
          ELSE IF w < HalfTo[4] THEN 4 ELSE 5
  BY DEF calculateVarint32, W
<1> HIDE DEF n, w
<1>4. n \in 1..5
  BY <1>3
<1>5. w < HalfTo[n]
  <2>1. HalfTo[1] = Half /\ HalfTo[5] \in Nat
    <3>1. 5 \in 0..10
      OBVIOUS
    <3> QED  BY <3>1, HalfSteps
  <2>2. w < HalfTo[5]
    BY <1>1, <1>2, <2>1
  <2> QED  BY <1>3, <2>1, <2>2
<1>6. DOMAIN groups = 1..n /\ Len(groups) = n /\ \A i \in 1..n : groups[i] = w \div HalfTo[i - 1]
  <2>1. n \in Nat
    BY <1>4
  <2> QED  BY <2>1
<1> HIDE DEF groups
<1>7. IsVarint(Grouped(groups), w, 5)
  <2>1. 5 \in 1..10
    OBVIOUS
  <2> QED  BY <1>2, <1>4, <1>5, <1>6, <2>1, GroupedIsVarint
<1>8. Varint32(v) = Grouped(groups)
  BY DEF Varint32, groups, n, w, W
<1> QED  BY <1>2, <1>7, <1>8 DEF w, W

\* A quotient is below what the number is that many times below.
LEMMA QuotientBelow ==
    ASSUME NEW x \in Nat, NEW p \in Nat, p > 0, NEW q \in Nat
    PROVE  x \div p \in Nat /\ (x < p * q <=> x \div p < q)
<1> DEFINE y == x \div p
           r == x % p
<1>1. y \in Nat /\ r \in 0..(p - 1) /\ x = p * y + r
  OBVIOUS
<1> HIDE DEF y, r
<1>2. ASSUME y < q PROVE x < p * q
  <2>1. PICK c \in Nat : q = y + 1 + c
    <3>1. q - 1 - y \in Nat /\ q = y + 1 + (q - 1 - y)
      BY <1>1, <1>2
    <3> QED  BY <3>1
  <2>2. p * q = p * y + p + p * c /\ p * c \in Nat /\ p * y \in Nat
    BY <1>1, <2>1
  <2> QED  BY <1>1, <2>2
<1>3. ASSUME y >= q PROVE x >= p * q
  <2>1. PICK c \in Nat : y = q + c
    <3>1. y - q \in Nat /\ y = q + (y - q)
      BY <1>1, <1>3
    <3> QED  BY <3>1
  <2>2. p * y = p * q + p * c /\ p * c \in Nat /\ p * q \in Nat
    BY <1>1, <2>1
  <2> QED  BY <1>1, <2>2
<1>4. p * q \in Nat
  OBVIOUS
<1> QED  BY <1>1, <1>2, <1>3, <1>4 DEF y

\* Powers of Half, multiplied.
LEMMA HalfProducts ==
    /\ \A j \in 0..4 : HalfTo[4 + j] = HalfTo[j] * HalfTo[4]
    /\ \A j \in 0..2 : HalfTo[8 + j] = HalfTo[j] * HalfTo[8]
<1> DEFINE h == Half
           p1 == HalfTo[1]
           p2 == HalfTo[2]
           p3 == HalfTo[3]
           p4 == HalfTo[4]
           p5 == HalfTo[5]
           p6 == HalfTo[6]
           p7 == HalfTo[7]
           p8 == HalfTo[8]
           p9 == HalfTo[9]
           p10 == HalfTo[10]
<1>1. /\ h \in Nat /\ HalfTo[0] = 1
      /\ p1 = h /\ p2 = h * p1 /\ p3 = h * p2 /\ p4 = h * p3 /\ p5 = h * p4 /\ p6 = h * p5
      /\ p7 = h * p6 /\ p8 = h * p7 /\ p9 = h * p8 /\ p10 = h * p9
  BY HalfSteps, ByteFacts
<1>2. p1 \in Nat /\ p2 \in Nat /\ p3 \in Nat /\ p4 \in Nat /\ p8 \in Nat
  <2>1. 1 \in 0..10 /\ 2 \in 0..10 /\ 3 \in 0..10 /\ 4 \in 0..10 /\ 8 \in 0..10
    OBVIOUS
  <2> QED  BY <2>1, HalfSteps
<1> HIDE DEF h, p1, p2, p3, p4, p5, p6, p7, p8, p9, p10
<1>3. p4 = 1 * p4 /\ p5 = p1 * p4 /\ p8 = 1 * p8 /\ p9 = p1 * p8
  BY <1>1, <1>2
<1>4. \A x \in Nat, y \in Nat : h * (x * y) = (h * x) * y
  BY <1>1
<1>5. p6 = p2 * p4
  BY <1>1, <1>2, <1>3, <1>4
<1>6. p7 = p3 * p4
  BY <1>1, <1>2, <1>4, <1>5
<1>7. p8 = p4 * p4
  BY <1>1, <1>2, <1>4, <1>6
<1>8. p10 = p2 * p8
  BY <1>1, <1>2, <1>3, <1>4
<1>9. ASSUME NEW j \in 0..4 PROVE HalfTo[4 + j] = HalfTo[j] * HalfTo[4]
  <2>1. j = 0 \/ j = 1 \/ j = 2 \/ j = 3 \/ j = 4
    OBVIOUS
  <2>2. 4 + 0 = 4 /\ 4 + 1 = 5 /\ 4 + 2 = 6 /\ 4 + 3 = 7 /\ 4 + 4 = 8
    OBVIOUS
  <2> QED  BY <1>1, <1>3, <1>5, <1>6, <1>7, <2>1, <2>2 DEF p1, p2, p3, p4, p5, p6, p7, p8
<1>10. ASSUME NEW j \in 0..2 PROVE HalfTo[8 + j] = HalfTo[j] * HalfTo[8]
  <2>1. j = 0 \/ j = 1 \/ j = 2
    OBVIOUS
  <2>2. 8 + 0 = 8 /\ 8 + 1 = 9 /\ 8 + 2 = 10
    OBVIOUS
  <2> QED  BY <1>1, <1>3, <1>8, <2>1, <2>2 DEF p1, p2, p8, p9, p10
<1> QED  BY <1>9, <1>10

\* A part of a Long from its e-th group on has its groups.
LEMMA PartDigits ==
    ASSUME NEW x \in Nat, NEW e \in {4, 8}, NEW j \in 0..3, e + j \in 0..9
    PROVE  (((x \div HalfTo[e]) % Word) \div HalfTo[j]) % Half = (x \div HalfTo[e + j]) % Half
<1> DEFINE p == HalfTo[e]
           q == HalfTo[j]
           y == x \div p
<1>1. p \in Nat /\ p > 0 /\ q \in Nat /\ q > 0
  <2>1. e \in 0..10 /\ j \in 0..10
    OBVIOUS
  <2> QED  BY <2>1, HalfSteps
<1>2. HalfTo[e + j] = q * p
  <2>1. CASE e = 4
    <3>1. j \in 0..4
      OBVIOUS
    <3> QED  BY <2>1, <3>1, HalfProducts
  <2>2. CASE e = 8
    <3>1. j \in 0..2
      BY <2>2
    <3> QED  BY <2>2, <3>1, HalfProducts
  <2> QED  BY <2>1, <2>2
<1>3. y \in Nat /\ x \div (q * p) = y \div q
  <2> HIDE DEF p, q
  <2>1. x \div p \in Nat
    BY <1>1
  <2> QED  BY <1>1, <2>1, QuotientOfProduct
<1> HIDE DEF y
<1>4. ((y % Word) \div q) % Half = (y \div q) % Half
  BY <1>3, WordDigits
<1> QED  BY <1>2, <1>3, <1>4 DEF y

\* A 64-bit number is ten bytes at most.
LEMMA Varint64Is ==
    ASSUME NEW v \in Int
    PROVE  /\ Word * Word \in Nat /\ Word * Word > 0
           /\ v % (Word * Word) \in Nat /\ v % (Word * Word) < Word * Word
           /\ IsVarint(Varint64(v), v % (Word * Word), 10)
<1> DEFINE W == Word
           D == W * W
           x == v % D
           part == Parts(x)
           n == calculateVarint64(x)
           h == Half
           p4 == HalfTo[4]
           p8 == HalfTo[8]
           p9 == HalfTo[9]
           p10 == HalfTo[10]
           size(p) == IF p < Half THEN 1 ELSE IF p < HalfTo[2] THEN 2
                      ELSE IF p < HalfTo[3] THEN 3 ELSE 4
           group(i) == IF i <= 4 THEN part[1] \div HalfTo[i - 1]
                       ELSE IF i <= 8 THEN part[2] \div HalfTo[i - 5]
                       ELSE part[3] \div HalfTo[i - 9]
           groups == [i \in 1..n |-> group(i)]
<1>1. /\ W \in Nat /\ p4 < W /\ D = 2 * p9
      /\ h \in Nat /\ h >= 2 /\ p4 \in Nat /\ p4 > 0 /\ p8 \in Nat /\ p8 > 0 /\ p9 \in Nat /\ p9 > 0
      /\ p9 = h * p8 /\ p10 = h * p9 /\ p8 = p4 * p4
  <2>1. 4 \in 0..10 /\ 8 \in 0..10 /\ 9 \in 0..10
    OBVIOUS
  <2>2. p4 \in Nat /\ p4 > 0 /\ p8 \in Nat /\ p8 > 0 /\ p9 \in Nat /\ p9 > 0 /\ p9 = h * p8 /\ p10 = h * p9
    BY <2>1, HalfSteps
  <2>3. h \in Nat /\ h >= 2
    BY ByteFacts
  <2>4. W \in Nat /\ p4 < W /\ D = 2 * p9
    <3> HIDE DEF Word
    <3> QED  BY WordFacts
  <2>5. p8 = p4 * p4
    <3>1. 4 \in 0..4 /\ 4 + 4 = 8
      OBVIOUS
    <3>2. HalfTo[4 + 4] = HalfTo[4] * HalfTo[4]
      BY <3>1, HalfProducts
    <3> QED  BY <3>1, <3>2
  <2> QED  BY <2>2, <2>3, <2>4, <2>5
<1>2. 2 * h <= W
  <2> DEFINE q == HalfTo[2]
             r == HalfTo[3]
  <2>1. q = h * h /\ r = h * q /\ p4 = h * r
    BY HalfSteps
  <2> HIDE DEF q, r, h, p4
  <2>2. q \in Nat /\ q >= 2
    <3>1. PICK c \in Nat : h = c + 2
      <4>1. h - 2 \in Nat /\ h = (h - 2) + 2
        BY <1>1
      <4> QED  BY <4>1
    <3>2. h * h = c * c + 4 * c + 4 /\ c * c \in Nat
      BY <3>1
    <3> QED  BY <2>1, <3>1, <3>2
  <2>3. r \in Nat /\ r >= 2
    <3>1. PICK c \in Nat, e \in Nat : h = c + 2 /\ q = e + 2
      <4>1. h - 2 \in Nat /\ h = (h - 2) + 2 /\ q - 2 \in Nat /\ q = (q - 2) + 2
        BY <1>1, <2>2
      <4> QED  BY <4>1
    <3>2. h * q = c * e + 2 * c + 2 * e + 4 /\ c * e \in Nat
      BY <3>1
    <3> QED  BY <2>1, <3>1, <3>2
  <2>4. PICK c \in Nat : r = c + 2
    <3>1. r - 2 \in Nat /\ r = (r - 2) + 2
      BY <2>3
    <3> QED  BY <3>1
  <2>5. p4 = h * c + 2 * h /\ h * c \in Nat
    BY <1>1, <2>1, <2>4
  <2> QED  BY <1>1, <2>5
<1>3. D \in Nat /\ D > 0
  <2> HIDE DEF D, p9
  <2> QED  BY <1>1
<1> HIDE DEF W, D
<1>4. x \in Nat /\ x < D
  BY <1>3
<1>5. part = <<x % W, (x \div p4) % W, (x \div p8) % W>>
  BY DEF Parts, W
<1>6. n = IF part[3] # 0 THEN IF part[3] < Half THEN 9 ELSE 10
          ELSE IF part[2] # 0 THEN 4 + size(part[2]) ELSE size(part[1])
  BY DEF calculateVarint64
<1>7. Varint64(v) = Grouped(groups)
  BY DEF Varint64, W, D
<1> HIDE DEF x, n, part
<1> DEFINE y == x \div p4
           z == x \div p8
<1>8. y \in Nat /\ z \in Nat
  <2> HIDE DEF p4, p8
  <2> QED  BY <1>1, <1>4
<1>9. \A q \in Nat : (x < p4 * q <=> y < q) /\ (x < p8 * q <=> z < q)
  <2> HIDE DEF p4, p8
  <2> QED  BY <1>1, <1>4, QuotientBelow
<1>10. part[1] = x % W /\ part[2] = y % W /\ part[3] = z % W
  BY <1>5
<1> HIDE DEF y, z
<1>11. z < 2 * h /\ part[3] = z
  <2> HIDE DEF h, p8, p9
  <2>1. 2 * p9 = p8 * (2 * h) /\ 2 * h \in Nat
    BY <1>1
  <2>2. z < 2 * h
    BY <1>1, <1>4, <1>9, <2>1
  <2>3. z % W = z
    BY <1>1, <1>2, <1>8, <2>2
  <2> QED  BY <1>10, <2>2, <2>3
<1>12. z = 0 => part[2] = y /\ y < p4
  <2> SUFFICES ASSUME z = 0 PROVE part[2] = y /\ y < p4
    OBVIOUS
  <2> HIDE DEF p4, p8
  <2>1. x < p8 * 1
    BY <1>9
  <2>2. y < p4
    BY <1>1, <1>9, <2>1
  <2>3. y % W = y
    BY <1>1, <1>8, <2>2
  <2> QED  BY <1>10, <2>2, <2>3
<1>13. z = 0 /\ y = 0 => part[1] = x /\ x < p4
  <2> SUFFICES ASSUME z = 0, y = 0 PROVE part[1] = x /\ x < p4
    OBVIOUS
  <2> HIDE DEF p4, p8
  <2>1. x < p4 * 1
    BY <1>9
  <2>2. x % W = x
    BY <1>1, <1>4, <2>1
  <2> QED  BY <1>1, <1>10, <2>1, <2>2
<1>14. \A p \in Nat : p < p4 => size(p) \in 1..4 /\ p < HalfTo[size(p)]
  <2>1. HalfTo[1] = Half
    BY HalfSteps
  <2> QED  BY <2>1
<1>15. n \in 1..10 /\ x < HalfTo[n]
  <2>1. CASE z # 0 /\ z < h
    <3>1. n = 9
      BY <1>6, <1>11, <2>1
    <3>2. x < p8 * h /\ p8 * h = h * p8
      <4> HIDE DEF h, p8
      <4> QED  BY <1>1, <1>9, <2>1
    <3> QED  BY <1>1, <3>1, <3>2
  <2>2. CASE z # 0 /\ ~(z < h)
    <3>1. n = 10
      BY <1>6, <1>11, <2>2
    <3>2. x < p10
      <4> HIDE DEF h, p9, p10
      <4>1. 2 * p9 <= h * p9
        <5>1. PICK c \in Nat : h = c + 2
          <6>1. h - 2 \in Nat /\ h = (h - 2) + 2
            BY <1>1
          <6> QED  BY <6>1
        <5>2. h * p9 = c * p9 + 2 * p9 /\ c * p9 \in Nat
          BY <1>1, <5>1
        <5> QED  BY <1>1, <5>2
      <4>2. h * p9 \in Nat
        BY <1>1
      <4> QED  BY <1>1, <1>4, <4>1, <4>2
    <3> QED  BY <3>1, <3>2
  <2>3. CASE z = 0 /\ y # 0
    <3> DEFINE s == size(y)
    <3>1. s \in 1..4 /\ y < HalfTo[s]
      BY <1>8, <1>12, <1>14, <2>3
    <3>2. n = 4 + s
      BY <1>6, <1>11, <1>12, <2>3
    <3> HIDE DEF s
    <3>3. HalfTo[4 + s] = HalfTo[s] * p4 /\ HalfTo[s] \in Nat
      <4>1. s \in 0..4 /\ s \in 0..10
        BY <3>1
      <4> QED  BY <4>1, HalfProducts, HalfSteps
    <3> DEFINE t == HalfTo[s]
    <3>4. x < p4 * t /\ p4 * t = t * p4
      <4> HIDE DEF p4, t
      <4> QED  BY <1>1, <1>9, <3>1, <3>3 DEF t
    <3> QED  BY <3>1, <3>2, <3>3, <3>4
  <2>4. CASE z = 0 /\ y = 0
    <3>1. n = size(x)
      BY <1>6, <1>11, <1>12, <1>13, <2>4
    <3>2. size(x) \in 1..4 /\ x < HalfTo[size(x)]
      BY <1>4, <1>13, <1>14, <2>4
    <3> QED  BY <3>1, <3>2
  <2> QED  BY <2>1, <2>2, <2>3, <2>4
<1>16. ASSUME NEW i \in 1..n PROVE groups[i] % Half = (x \div HalfTo[i - 1]) % Half
  <2>0. groups[i] = group(i) /\ i \in 1..10
    BY <1>15
  <2>1. CASE i <= 4
    <3>1. i - 1 \in 0..3 /\ groups[i] = (x % Word) \div HalfTo[i - 1]
      BY <1>10, <2>0, <2>1 DEF W
    <3> QED  BY <1>4, <3>1, WordDigits
  <2>2. CASE i > 4 /\ i <= 8
    <3> DEFINE j == i - 5
    <3>1. j \in 0..3 /\ 4 + j = i - 1 /\ 4 + j \in 0..9
      BY <2>0, <2>2
    <3>2. groups[i] = ((x \div HalfTo[4]) % Word) \div HalfTo[j]
      BY <1>10, <2>0, <2>2 DEF W, y
    <3> HIDE DEF j, groups
    <3>3. (((x \div HalfTo[4]) % Word) \div HalfTo[j]) % Half = (x \div HalfTo[4 + j]) % Half
      BY <1>4, <3>1, PartDigits
    <3> QED  BY <3>1, <3>2, <3>3
  <2>3. CASE i > 8
    <3> DEFINE j == i - 9
    <3>1. j \in 0..3 /\ 8 + j = i - 1 /\ 8 + j \in 0..9
      BY <2>0, <2>3
    <3>2. groups[i] = ((x \div HalfTo[8]) % Word) \div HalfTo[j]
      BY <1>10, <2>0, <2>3 DEF W, z
    <3> HIDE DEF j, groups
    <3>3. (((x \div HalfTo[8]) % Word) \div HalfTo[j]) % Half = (x \div HalfTo[8 + j]) % Half
      BY <1>4, <3>1, PartDigits
    <3> QED  BY <3>1, <3>2, <3>3
  <2> QED  BY <2>0, <2>1, <2>2, <2>3
<1>17. DOMAIN groups = 1..n /\ Len(groups) = n
  BY <1>15
<1> HIDE DEF groups
<1>18. IsVarint(Grouped(groups), x, 10)
  <2>1. 10 \in 1..10
    OBVIOUS
  <2> QED  BY <1>4, <1>15, <1>16, <1>17, <2>1, GroupedIsVarint
<1> QED  BY <1>3, <1>4, <1>7, <1>18 DEF x, D, W

\* The bytes of a varint are those up to the first that is less than Half.
LEMMA VarintBytesAre ==
    ASSUME NEW b, NEW at \in Nat, Len(b.bytes) \in Nat, NEW n \in 1..(Len(b.bytes) + 1),
           ByteAt(b, at + n - 1) < Half,
           \A i \in 1..(n - 1) : ByteAt(b, at + i - 1) \in Nat /\ ByteAt(b, at + i - 1) >= Half,
           ByteAt(b, at + n - 1) \in Nat
    PROVE  VarintBytes(b, at) = [i \in 1..n |-> ByteAt(b, at + i - 1)]
<1> DEFINE P(m) == /\ ByteAt(b, at + m - 1) < Half
                   /\ \A i \in 1..(m - 1) : ByteAt(b, at + i - 1) >= Half
           last1 == CHOOSE m \in 1..(capacity(b) + 1) : P(m)
<1>1. capacity(b) = Len(b.bytes)
  BY DEF capacity
<1>2. P(n)
  OBVIOUS
<1>3. last1 \in 1..(capacity(b) + 1) /\ P(last1)
  <2> HIDE DEF P
  <2> QED  BY <1>1, <1>2
<1>4. VarintBytes(b, at) = [i \in 1..last1 |-> ByteAt(b, at + i - 1)]
  BY DEF VarintBytes
<1> HIDE DEF last1
<1>5. last1 = n
  <2>1. Half \in Nat
    BY ByteFacts
  <2>2. last1 \in Nat
    BY <1>1, <1>3
  <2> HIDE DEF Half
  <2>3. CASE last1 < n
    <3>1. last1 \in 1..(n - 1)
      BY <1>1, <1>3, <2>3
    <3> QED  BY <1>3, <2>1, <3>1
  <2>4. CASE last1 > n
    <3>1. n \in 1..(last1 - 1)
      BY <2>2, <2>4
    <3> QED  BY <1>3, <2>1, <3>1
  <2> QED  BY <2>2, <2>3, <2>4
<1> QED  BY <1>4, <1>5

\* What stands in the bytes is what & sees.
LEMMA ByteAtHeld ==
    ASSUME NEW b, NEW at \in Nat, b.bytes \in Seq(Byte), NEW c \in Seq(Byte), Holds(b.bytes, at, c)
    PROVE  \A i \in 1..Len(c) : ByteAt(b, at + i - 1) = c[i]
<1> SUFFICES ASSUME NEW i \in 1..Len(c) PROVE ByteAt(b, at + i - 1) = c[i]
  OBVIOUS
<1> DEFINE N == Len(b.bytes)
           n == Len(c)
<1>1. N \in Nat /\ n \in Nat /\ at + n <= N /\ b.bytes[at + i] = c[i]
  BY DEF Holds
<1>2. at + i - 1 < N /\ (at + i - 1) + 1 = at + i
  <2> HIDE DEF N
  <2> QED  BY <1>1
<1> DEFINE k == at + i - 1
<1> HIDE DEF k
<1>3. ByteAt(b, k) = b.bytes[k + 1]
  BY <1>2 DEF ByteAt, capacity, k
<1>4. k + 1 = at + i
  BY <1>2 DEF k
<1> QED  BY <1>1, <1>3, <1>4 DEF k

\* Bytes of a varint: all but the last are Half or more.
LEMMA VarintShape ==
    ASSUME NEW c, NEW w \in Nat, NEW most \in 1..10, IsVarint(c, w, most)
    PROVE  /\ Len(c) \in 1..10
           /\ \A i \in 1..Len(c) : /\ (w \div HalfTo[i - 1]) % Half \in 0..(Half - 1)
                                   /\ c[i] \in Nat /\ c[i] % Half = (w \div HalfTo[i - 1]) % Half
                                   /\ i < Len(c) => c[i] >= Half
                                   /\ i = Len(c) => c[i] < Half
<1>1. Len(c) \in 1..10
  <2> DEFINE n == Len(c)
  <2>1. n \in 1..most
    BY DEF IsVarint
  <2> HIDE DEF n
  <2>2. n \in 1..10
    BY <2>1
  <2> QED  BY <2>2 DEF n
<1> SUFFICES ASSUME NEW i \in 1..Len(c)
             PROVE  /\ (w \div HalfTo[i - 1]) % Half \in 0..(Half - 1)
                    /\ c[i] \in Nat /\ c[i] % Half = (w \div HalfTo[i - 1]) % Half
                    /\ i < Len(c) => c[i] >= Half
                    /\ i = Len(c) => c[i] < Half
  BY <1>1
<1> DEFINE p == HalfTo[i - 1]
           h == Half
           q == w \div p
           g == q % h
           n == Len(c)
<1>2. p \in Nat /\ p > 0 /\ h \in Nat /\ h > 0
  <2>1. i - 1 \in 0..10
    <3> HIDE DEF n
    <3>1. i \in 1..n /\ n \in 1..10
      BY <1>1 DEF n
    <3> QED  BY <3>1
  <2>2. p \in Nat /\ p > 0
    BY <2>1, HalfSteps
  <2>3. h \in Nat /\ h > 0
    BY ByteFacts
  <2> QED  BY <2>2, <2>3
<1>3. g \in 0..(h - 1)
  <2> HIDE DEF p, h
  <2>1. q \in Int
    BY <1>2
  <2> HIDE DEF q
  <2> QED  BY <1>2, <2>1
<1>4. c[i] = g + IF i < n THEN h ELSE 0
  BY DEF IsVarint
<1> HIDE DEF g
<1>5. g + h \in Byte /\ g + 0 \in Byte /\ g + h >= h /\ g + 0 < h /\ (g + h) % h = g /\ (g + 0) % h = g
  BY <1>3, GroupBytes
<1>6. \A x \in Byte : x \in Nat
  BY RadixFacts DEF Byte
<1> HIDE DEF h, n
<1>7. c[i] = IF i < n THEN g + h ELSE g + 0
  BY <1>4
<1>8. c[i] \in Nat /\ c[i] % h = g /\ (i < n => c[i] >= h) /\ (i = n => c[i] < h)
  <2>1. CASE i < n
    <3>1. c[i] = g + h /\ i # n
      <4>1. i \in Int
        BY <1>1
      <4> QED  BY <1>7, <2>1, <4>1
    <3> QED  BY <1>5, <1>6, <2>1, <3>1
  <2>2. CASE ~(i < n)
    <3>1. c[i] = g + 0
      BY <1>7, <2>2
    <3> QED  BY <1>5, <1>6, <2>2, <3>1
  <2> QED  BY <2>1, <2>2
<1> QED  BY <1>3, <1>8 DEF g, h, n

\* A varint is found by its bytes.
LEMMA VarintHeld ==
    ASSUME NEW b, NEW at \in Nat, b.bytes \in Seq(Byte), NEW c, NEW w \in Nat, NEW most \in 1..10,
           IsVarint(c, w, most), Holds(b.bytes, at, c)
    PROVE  VarintBytes(b, at) = c
<1> DEFINE n == Len(c)
<1>1. c \in Seq(Byte) /\ n \in 1..10
  BY VarintShape DEF IsVarint
<1>2. \A i \in 1..n : ByteAt(b, at + i - 1) = c[i]
  BY <1>1, ByteAtHeld
<1>3. \A i \in 1..n : c[i] \in Nat /\ (i < n => c[i] >= Half) /\ (i = n => c[i] < Half)
  BY VarintShape
<1>4. Len(b.bytes) \in Nat /\ n \in 1..(Len(b.bytes) + 1)
  <2>1. at + n <= Len(b.bytes) /\ Len(b.bytes) \in Nat
    BY DEF Holds
  <2> DEFINE N == Len(b.bytes)
  <2>2. at + n <= N /\ N \in Nat
    BY <2>1
  <2> HIDE DEF n, N
  <2>3. N \in Nat /\ n \in 1..(N + 1)
    BY <1>1, <2>2
  <2> QED  BY <2>3 DEF N
<1> HIDE DEF n
<1>5. ByteAt(b, at + n - 1) < Half /\ ByteAt(b, at + n - 1) \in Nat
  <2>1. n \in 1..n
    BY <1>1
  <2> QED  BY <1>2, <1>3, <2>1
<1>6. \A i \in 1..(n - 1) : ByteAt(b, at + i - 1) \in Nat /\ ByteAt(b, at + i - 1) >= Half
  <2>1. ASSUME NEW i \in 1..(n - 1)
        PROVE  ByteAt(b, at + i - 1) \in Nat /\ ByteAt(b, at + i - 1) >= Half
    <3>1. i \in 1..n /\ i < n
      BY <1>1
    <3> QED  BY <1>2, <1>3, <3>1
  <2> QED  BY <2>1
<1>7. VarintBytes(b, at) = [i \in 1..n |-> ByteAt(b, at + i - 1)]
  BY <1>4, <1>5, <1>6, VarintBytesAre
<1>8. c = [i \in 1..n |-> c[i]]
  BY <1>1 DEF n
<1> QED  BY <1>2, <1>7, <1>8

\* What the groups of bytes add up to, group by group.
LEMMA UngroupedSum ==
    ASSUME NEW bytes \in Seq(Nat), NEW most \in 1..10, Len(bytes) <= most,
           NEW d \in [1..Len(bytes) -> 0..(Half - 1)], \A i \in 1..Len(bytes) : d[i] = bytes[i] % Half
    PROVE  \E s : AddsUp(s, d, HalfTo, Len(bytes)) /\ Ungrouped(bytes, most) = s[Len(bytes)]
<1> DEFINE n == Len(bytes)
           group(i) == IF i <= most THEN (bytes[i] % Half) * HalfTo[i - 1] ELSE 0
           t == [i \in 1..n |-> d[i] * HalfTo[i - 1]]
           Groups(f) == [i \in 0..n |-> IF i = 0 THEN 0 ELSE f[i - 1] + group(i)]
           Added(f) == [i \in 0..n |-> IF i = 0 THEN 0 ELSE f[i - 1] + t[i]]
           summed == CHOOSE f : f = Groups(f)
<1>1. n \in Nat /\ n <= 10
  OBVIOUS
<1>2. Ungrouped(bytes, most) = summed[n]
  BY DEF Ungrouped
<1> HIDE DEF n
<1>3. \A i \in 1..n : group(i) = t[i] /\ t[i] = d[i] * HalfTo[i - 1] /\ t[i] \in Nat
  <2> SUFFICES ASSUME NEW i \in 1..n
               PROVE  group(i) = t[i] /\ t[i] = d[i] * HalfTo[i - 1] /\ t[i] \in Nat
    OBVIOUS
  <2> DEFINE x == d[i]
             p == HalfTo[i - 1]
  <2>1. i <= most /\ i - 1 \in 0..10 /\ i \in 1..Len(bytes)
    BY <1>1 DEF n
  <2>2. p \in Nat /\ x \in Nat /\ x = bytes[i] % Half
    <3>1. x \in 0..(Half - 1) /\ x = bytes[i] % Half
      BY <2>1
    <3>2. p \in Nat
      BY <2>1, HalfSteps
    <3>3. x \in Nat
      <4> HIDE DEF x
      <4> QED  BY <3>1, ByteFacts
    <3> QED  BY <3>1, <3>2, <3>3
  <2>3. group(i) = x * p /\ t[i] = x * p
    BY <2>1, <2>2
  <2> HIDE DEF x, p
  <2>4. x * p \in Nat
    BY <2>2
  <2> QED  BY <2>3, <2>4 DEF x, p
<1>4. t \in [1..n -> Nat]
  BY <1>3
<1> HIDE DEF t, group
<1>5. summed = Sums(t, n)
  <2>1. \A k \in 0..n : k = 0 \/ k \in 1..n
    BY <1>1
  <2>2. \A f : Groups(f) = Added(f)
    BY <1>3, <2>1
  <2>3. Sums(t, n) = CHOOSE f : f = Added(f)
    BY DEF Sums
  <2> HIDE DEF Groups, Added
  <2> QED  BY <2>2, <2>3
<1> HIDE DEF summed
<1>6. summed \in [0..n -> Nat] /\ summed[0] = 0
      /\ \A k \in 1..n : summed[k] = summed[k - 1] + t[k]
  BY <1>1, <1>4, <1>5, SumIs
<1>7. AddsUp(summed, d, HalfTo, n)
  BY <1>3, <1>6 DEF AddsUp
<1> QED  BY <1>2, <1>7 DEF n

\* A varint reads back.
LEMMA VarintValue ==
    ASSUME NEW c, NEW w \in Nat, NEW most \in 1..10, IsVarint(c, w, most)
    PROVE  Ungrouped(c, most) = w
<1> DEFINE n == Len(c)
           d == [i \in 1..n |-> c[i] % Half]
<1>1. n \in 1..10 /\ n <= most /\ w < HalfTo[n]
  <2>1. n \in 1..most /\ w < HalfTo[n]
    BY DEF IsVarint
  <2> HIDE DEF n
  <2> QED  BY <2>1
<1>2. \A i \in 1..n : /\ c[i] \in Nat /\ c[i] % Half = (w \div HalfTo[i - 1]) % Half
                      /\ (w \div HalfTo[i - 1]) % Half \in 0..(Half - 1)
  BY VarintShape
<1>3. c \in Seq(Nat)
  <2>1. c \in Seq(Byte)
    BY DEF IsVarint
  <2>2. \A i \in 1..Len(c) : c[i] \in Nat
    BY <1>2
  <2> QED  BY <2>1, <2>2
<1> HIDE DEF n
<1>4. d \in [1..n -> 0..(Half - 1)] /\ \A i \in 1..n : d[i] = c[i] % Half
  <2>1. \A i \in 1..n : c[i] % Half \in 0..(Half - 1)
    BY <1>2
  <2> QED  BY <2>1
<1>5. HasDigits(d, w, HalfTo, Half, n)
  BY <1>2 DEF n, HasDigits
<1> HIDE DEF d
<1>6. PICK s : AddsUp(s, d, HalfTo, n) /\ Ungrouped(c, most) = s[n]
  BY <1>1, <1>3, <1>4, UngroupedSum DEF n
<1>7. s[n] = w % HalfTo[n]
  <2>1. Half \in Nat \ {0} /\ 10 \in Nat /\ n \in 0..10 /\ n \in 0..n
    BY <1>1, ByteFacts
  <2> QED  BY <1>5, <1>6, <2>1, HalfPowers, DigitsAddUp
<1>8. w % HalfTo[n] = w
  <2> DEFINE p == HalfTo[n]
  <2>1. p \in Nat /\ p > 0
    <3>1. n \in 0..10
      BY <1>1
    <3> QED  BY <3>1, HalfSteps
  <2>2. w < p
    BY <1>1
  <2> HIDE DEF p
  <2>3. w % p = w
    BY <2>1, <2>2
  <2> QED  BY <2>3 DEF p
<1> QED  BY <1>6, <1>7, <1>8

\* A signed number comes back from its remainder.
LEMMA SignedBack ==
    ASSUME NEW m \in Nat, m > 0, NEW v \in Int, -m <= 2 * v, 2 * v < m
    PROVE  /\ v % m \in 0..(m - 1)
           /\ (IF 2 * (v % m) >= m THEN (v % m) - m ELSE v % m) = v
<1> DEFINE x == v % m
<1>1. x \in 0..(m - 1)
  OBVIOUS
<1>2. CASE v >= 0
  <2>1. v \in 0..(m - 1) /\ v = m * 0 + v
    BY <1>2
  <2>2. x = v
    BY <2>1, Quotient
  <2> HIDE DEF x
  <2> QED  BY <1>1, <2>1, <2>2 DEF x
<1>3. CASE v < 0
  <2> DEFINE t == v + m
  <2>1. t \in 0..(m - 1) /\ v = m * (-1) + t /\ 2 * t >= m
    BY <1>3
  <2>2. -1 \in Int
    OBVIOUS
  <2>3. x = t
    <3> HIDE DEF t
    <3> QED  BY <2>1, <2>2, Quotient
  <2> HIDE DEF x
  <2> QED  BY <1>1, <2>1, <2>3 DEF x
<1> QED  BY <1>2, <1>3

\* The zigzag form of a number, and back.
LEMMA ZigZagBack ==
    ASSUME NEW m \in Nat, m > 0, NEW v \in Int, -m <= 2 * v, 2 * v < m,
           NEW z, z = IF v >= 0 THEN 2 * v ELSE -2 * v - 1
    PROVE  /\ z \in Nat /\ z < m /\ z % m = z
           /\ (IF z % 2 = 0 THEN z \div 2 ELSE -((z + 1) \div 2)) = v
<1>1. z \in Nat /\ z < m
  <2>1. CASE v >= 0
    BY <2>1
  <2>2. CASE v < 0
    BY <2>2
  <2> QED  BY <2>1, <2>2
<1>2. z % m = z
  <2>1. z = m * 0 + z /\ z \in 0..(m - 1) /\ 0 \in Int
    BY <1>1
  <2> QED  BY <1>1, <2>1, Quotient
<1>3. (IF z % 2 = 0 THEN z \div 2 ELSE -((z + 1) \div 2)) = v
  <2>1. CASE v >= 0
    BY <2>1
  <2>2. CASE v < 0
    BY <2>2
  <2> QED  BY <2>1, <2>2
<1> QED  BY <1>1, <1>2, <1>3
-------------------------------------------------------------------------------
(* Bits *)

\* The k-th bit, or what fills the last byte up.
BitOf(bits, k) == IF k \in DOMAIN bits /\ bits[k] THEN 1 ELSE 0

BitCount(bits) == (Len(bits) + ByteBits - 1) \div ByteBits

\* Each byte has ByteBits of the bits, the first of them the lowest.
LEMMA BitBytesAre ==
    ASSUME NEW bits \in Seq(BOOLEAN)
    PROVE  /\ BitCount(bits) \in Nat
           /\ BitBytes(bits) \in Seq(Byte) /\ Len(BitBytes(bits)) = BitCount(bits)
           /\ \A i \in 1..BitCount(bits), m \in 1..ByteBits :
                 (BitBytes(bits)[i] \div TwoTo[m - 1]) % 2 = BitOf(bits, (i - 1) * ByteBits + m)
<1> DEFINE B == ByteBits
           N == BitCount(bits)
           bit(k) == IF k \in DOMAIN bits /\ bits[k] THEN 1 ELSE 0
           Loop(i) == LET upTo[m \in 0..ByteBits] ==
                              IF m = 0 THEN 0
                              ELSE upTo[m - 1] + bit((i - 1) * ByteBits + m) * TwoTo[m - 1]
                      IN  upTo[ByteBits]
<1>1. B \in 1..8 /\ TwoTo[B] = Radix
  BY ByteFacts
<1>2. N \in Nat
  <2> DEFINE L == Len(bits)
  <2>1. L \in Nat
    OBVIOUS
  <2>2. N = (L + B - 1) \div B
    BY DEF BitCount
  <2> HIDE DEF B, L, N
  <2> DEFINE y == L + B - 1
  <2>3. y \in Nat /\ B \in Nat /\ B > 0
    BY <1>1, <2>1
  <2> HIDE DEF y
  <2>4. y \div B \in Nat
    BY <2>3
  <2> QED  BY <2>2, <2>4 DEF y
<1>3. BitBytes(bits) = [i \in 1..N |-> Loop(i)]
  BY DEF BitBytes, BitCount
<1>4. ASSUME NEW i \in 1..N
      PROVE  /\ Loop(i) \in Byte
             /\ \A m \in 1..B : (Loop(i) \div TwoTo[m - 1]) % 2 = bit((i - 1) * B + m)
  <2> DEFINE e(m) == bit((i - 1) * B + m)
             d == [m \in 1..B |-> e(m)]
             t == [m \in 1..B |-> e(m) * TwoTo[m - 1]]
             Turns(f) == [m \in 0..B |-> IF m = 0 THEN 0 ELSE f[m - 1] + e(m) * TwoTo[m - 1]]
             Added(f) == [m \in 0..B |-> IF m = 0 THEN 0 ELSE f[m - 1] + t[m]]
             s == CHOOSE f : f = Turns(f)
  <2>1. Loop(i) = s[B]
    OBVIOUS
  <2>2. \A m \in 1..B : e(m) \in 0..1
    OBVIOUS
  <2>3. B \in Nat /\ B \in 0..8
    <3> HIDE DEF B
    <3> QED  BY <1>1
  <2> HIDE DEF e, Loop, B
  <2>4. \A m \in 1..B : TwoTo[m - 1] \in Nat
    <3>1. \A m \in 1..B : m - 1 \in 0..8
      BY <2>3
    <3> QED  BY <3>1, TwoPowers DEF PowersUpTo
  <2>5. \A m \in 1..B : e(m) * TwoTo[m - 1] \in Nat
    <3> SUFFICES ASSUME NEW m \in 1..B PROVE e(m) * TwoTo[m - 1] \in Nat
      OBVIOUS
    <3> DEFINE x == e(m)
               p == TwoTo[m - 1]
    <3>1. x \in Nat /\ p \in Nat
      BY <2>2, <2>4
    <3> HIDE DEF x, p
    <3>2. x * p \in Nat
      BY <3>1
    <3> QED  BY <3>2 DEF x, p
  <2>6. t \in [1..B -> Nat]
    BY <2>5
  <2>7. s = Sums(t, B)
    <3>1. \A m \in 0..B : m = 0 \/ m \in 1..B
      BY <2>3
    <3>2. \A f : Turns(f) = Added(f)
      BY <3>1
    <3>3. Sums(t, B) = CHOOSE f : f = Added(f)
      BY DEF Sums
    <3> HIDE DEF Turns, Added
    <3> QED  BY <3>2, <3>3
  <2> HIDE DEF s, t
  <2>8. s \in [0..B -> Nat] /\ s[0] = 0 /\ \A k \in 1..B : s[k] = s[k - 1] + t[k]
    BY <2>3, <2>6, <2>7, SumIs
  <2>9. AddsUp(s, d, TwoTo, B)
    BY <2>8 DEF AddsUp, t
  <2>10. d \in [1..B -> 0..(2 - 1)]
    <3>1. 2 - 1 = 1
      OBVIOUS
    <3>2. d \in [1..B -> 0..1]
      BY <2>2
    <3> HIDE DEF d
    <3> QED  BY <3>1, <3>2
  <2>11. \A m \in 1..B : d[m] = e(m)
    OBVIOUS
  <2> HIDE DEF d, t
  <2>12. 2 \in Nat \ {0} /\ 8 \in Nat /\ B \in 0..B
    BY <2>3
  <2>13. s[B] < TwoTo[B]
    <3> DEFINE two == 2
               eight == 8
    <3>1. two \in Nat \ {0} /\ eight \in Nat /\ PowersUpTo(TwoTo, two, eight) /\ B \in 0..eight
          /\ d \in [1..B -> 0..(two - 1)] /\ B \in 0..B
      BY <2>3, <2>10, <2>12, TwoPowers
    <3> HIDE DEF two, eight
    <3>2. \A k \in 0..B : s[k] < TwoTo[k]
      BY <2>9, <3>1, SumBelow
    <3> QED  BY <3>1, <3>2
  <2>14. \A m \in 1..B : (s[B] \div TwoTo[m - 1]) % 2 = d[m]
    <3> DEFINE two == 2
               eight == 8
    <3>1. two \in Nat \ {0} /\ eight \in Nat /\ PowersUpTo(TwoTo, two, eight) /\ B \in 0..eight
          /\ d \in [1..B -> 0..(two - 1)]
      BY <2>3, <2>10, <2>12, TwoPowers
    <3> HIDE DEF two, eight
    <3>2. \A m \in 1..B : (s[B] \div TwoTo[m - 1]) % two = d[m]
      BY <2>9, <3>1, DigitOfSum
    <3> QED  BY <3>2 DEF two
  <2>15. s[B] \in Byte
    BY <1>1, <2>8, <2>12, <2>13, RadixFacts DEF Byte, B
  <2> QED  BY <2>1, <2>11, <2>14, <2>15 DEF e
<1> HIDE DEF Loop
<1>5. BitBytes(bits) \in Seq(Byte) /\ Len(BitBytes(bits)) = N
  <2>1. [i \in 1..N |-> Loop(i)] \in [1..N -> Byte]
    BY <1>4
  <2> HIDE DEF N
  <2> QED  BY <1>2, <1>3, <2>1
<1>6. \A i \in 1..N : BitBytes(bits)[i] = Loop(i)
  BY <1>3
<1> QED  BY <1>2, <1>4, <1>5, <1>6 DEF BitOf

\* Where a bit is.
LEMMA BitPlace ==
    ASSUME NEW bits \in Seq(BOOLEAN), NEW k \in 1..Len(bits)
    PROVE  /\ (k - 1) \div ByteBits + 1 \in 1..BitCount(bits)
           /\ ((k - 1) % ByteBits) + 1 \in 1..ByteBits
           /\ ((k - 1) \div ByteBits) * ByteBits + (((k - 1) % ByteBits) + 1) = k
<1> DEFINE B == ByteBits
           L == Len(bits)
           q == (k - 1) \div B
           r == (k - 1) % B
           N == (L + B - 1) \div B
           y == (L + B - 1) % B
<1>1. B \in Nat /\ B > 0 /\ L \in Nat /\ k \in 1..L
  BY ByteFacts
<1> HIDE DEF B, L
<1>2. k - 1 \in Nat /\ L + B - 1 \in Nat
  BY <1>1
<1>3. q \in Nat /\ r \in 0..(B - 1) /\ k - 1 = B * q + r
  BY <1>1, <1>2
<1>4. N \in Nat /\ y \in 0..(B - 1) /\ L + B - 1 = B * N + y
  BY <1>1, <1>2
<1> HIDE DEF q, r, N, y
<1>5. q < N
  <2>1. SUFFICES ASSUME q >= N PROVE FALSE
    BY <1>3, <1>4
  <2>2. PICK c \in Nat : q = N + c
    <3>1. q - N \in Nat /\ q = N + (q - N)
      BY <1>3, <1>4, <2>1
    <3> QED  BY <3>1
  <2>3. B * q = B * N + B * c /\ B * c \in Nat /\ B * N \in Nat
    BY <1>1, <1>4, <2>2
  <2> QED  BY <1>1, <1>3, <1>4, <2>3
<1>6. q + 1 \in 1..N
  BY <1>3, <1>4, <1>5
<1>7. q * B + (r + 1) = k
  <2>1. q * B = B * q /\ B * q \in Nat
    BY <1>1, <1>3
  <2> QED  BY <1>1, <1>3, <2>1
<1>8. r + 1 \in 1..B
  BY <1>1, <1>3
<1> QED  BY <1>6, <1>7, <1>8 DEF B, L, q, r, N, BitCount

\* The bits come back from their bytes.
LEMMA BitsBack ==
    ASSUME NEW bits \in Seq(BOOLEAN), NEW k \in 1..Len(bits)
    PROVE  /\ (k - 1) \div ByteBits \in 0..(BitCount(bits) - 1)
           /\ ((BitBytes(bits)[(k - 1) \div ByteBits + 1] \div TwoTo[(k - 1) % ByteBits]) % 2 = 1) = bits[k]
<1> DEFINE B == ByteBits
           q == (k - 1) \div B
           r == (k - 1) % B
           i == q + 1
           m == r + 1
<1>1. i \in 1..BitCount(bits) /\ m \in 1..B /\ q * B + m = k
  BY BitPlace
<1>2. B \in Nat /\ B > 0 /\ k - 1 \in Nat
  BY ByteFacts
<1>3. q \in Nat /\ r \in Nat
  <2> HIDE DEF B
  <2> QED  BY <1>2
<1> HIDE DEF q, r
<1>4. m - 1 = r /\ q + 1 = i /\ i - 1 = q
  BY <1>3
<1> HIDE DEF i, m
<1>5. (BitBytes(bits)[i] \div TwoTo[m - 1]) % 2 = BitOf(bits, (i - 1) * B + m)
  BY <1>1, BitBytesAre
<1>6. (BitBytes(bits)[i] \div TwoTo[m - 1]) % 2 = BitOf(bits, k)
  BY <1>1, <1>4, <1>5
<1>7. (BitOf(bits, k) = 1) = bits[k]
  <2>1. k \in DOMAIN bits /\ bits[k] \in BOOLEAN
    OBVIOUS
  <2> QED  BY <2>1 DEF BitOf
<1>8. q \in 0..(BitCount(bits) - 1)
  <2> DEFINE N == BitCount(bits)
  <2>1. N \in Nat /\ q + 1 \in 1..N
    BY <1>1, <1>4, BitBytesAre
  <2> HIDE DEF N
  <2>2. q \in 0..(N - 1)
    BY <1>3, <2>1
  <2> QED  BY <2>2 DEF N
<1>9. ((BitBytes(bits)[i] \div TwoTo[r]) % 2 = 1) = bits[k]
  BY <1>4, <1>6, <1>7
<1> QED  BY <1>4, <1>8, <1>9 DEF q, r
-------------------------------------------------------------------------------
(* Writing a field *)

ByteBuffers == [bytes : Seq(Byte), offset : Nat, limit : Nat, mark : Int, endian : Endians]

\* w is b but for its bytes, of which there are as many or more; the first `at` are those of b.
Grew(b, w, at) ==
    /\ w \in ByteBuffers
    /\ w.offset = b.offset /\ w.limit = b.limit /\ w.mark = b.mark /\ w.endian = b.endian
    /\ Len(b.bytes) <= Len(w.bytes)
    /\ \A i \in 1..at : w.bytes[i] = b.bytes[i]

\* w is b with c written at its offset.
Wrote(b, c, w) ==
    /\ w \in ByteBuffers
    /\ w.offset = b.offset + Len(c)
    /\ w.limit = b.limit /\ w.mark = b.mark /\ w.endian = b.endian
    /\ Len(b.bytes) <= Len(w.bytes)
    /\ \A i \in 1..b.offset : w.bytes[i] = b.bytes[i]
    /\ Holds(w.bytes, b.offset, c)

\* Zeros that a buffer is filled up with are bytes.
LEMMA ZeroBytes ==
    ASSUME NEW n \in Nat
    PROVE  Zeros(n) \in Seq(Byte) /\ Len(Zeros(n)) = n
<1>1. 0 \in Byte
  BY RadixFacts DEF Byte
<1>2. Zeros(n) \in [1..n -> Byte]
  BY <1>1 DEF Zeros
<1> QED  BY <1>2

\* Growing adds bytes behind those that are there.
LEMMA Growing ==
    ASSUME NEW b \in ByteBuffers, NEW end \in Nat
    PROVE  /\ Grew(b, ensureCapacity(b, end), Len(b.bytes))
           /\ end <= Len(ensureCapacity(b, end).bytes)
<1> DEFINE N == Len(b.bytes)
           size == IF 2 * N > end THEN 2 * N ELSE end
           w == ensureCapacity(b, end)
<1>1. N \in Nat /\ b.bytes \in Seq(Byte)
  BY DEF ByteBuffers
<1>2. w = IF N < end THEN resize(b, size) ELSE b
  BY DEF ensureCapacity, capacity
<1> HIDE DEF w
<1>3. CASE ~(N < end)
  <2>1. w = b
    BY <1>2, <1>3
  <2>2. \A i \in 1..N : w.bytes[i] = b.bytes[i]
    BY <2>1
  <2> HIDE DEF N
  <2>3. end <= N /\ N <= N
    BY <1>1, <1>3
  <2> QED  BY <2>1, <2>2, <2>3 DEF N, Grew, w
<1>4. CASE N < end
  <2> DEFINE z == Zeros(size - N)
             c == b.bytes \o z
  <2>1. N < size /\ end <= size /\ size - N \in Nat /\ size \in Nat
    <3> HIDE DEF N
    <3> QED  BY <1>1, <1>4
  <2>2. w = [b EXCEPT !.bytes = c]
    BY <1>2, <1>4, <2>1 DEF resize, capacity
  <2>3. z \in Seq(Byte) /\ Len(z) = size - N
    BY <2>1, ZeroBytes
  <2> HIDE DEF z
  <2>4. c \in Seq(Byte) /\ Len(c) = N + Len(z) /\ \A i \in 1..(N + Len(z)) : c[i] = IF i <= N THEN b.bytes[i] ELSE z[i - N]
    BY <1>1, <2>3, ConcatProperties
  <2> HIDE DEF c
  <2>5. w \in ByteBuffers /\ w.offset = b.offset /\ w.limit = b.limit /\ w.mark = b.mark
        /\ w.endian = b.endian /\ w.bytes = c
    BY <2>2, <2>4 DEF ByteBuffers
  <2>6. Len(c) = size
    <3> HIDE DEF N, size
    <3> QED  BY <1>1, <2>1, <2>3, <2>4
  <2>7. \A i \in 1..N : c[i] = b.bytes[i]
    <3>1. N + Len(z) = size
      BY <2>4, <2>6
    <3> HIDE DEF N, size
    <3>2. \A i \in 1..N : i \in 1..size /\ i <= N
      BY <1>1, <2>1
    <3> QED  BY <2>4, <3>1, <3>2
  <2>8. N <= Len(c) /\ end <= Len(c)
    <3> HIDE DEF N, size
    <3> QED  BY <1>1, <2>1, <2>6
  <2> QED  BY <2>5, <2>7, <2>8 DEF Grew, w
<1> QED  BY <1>3, <1>4

\* What is laid over the bytes where there is room for it.
LEMMA Laying ==
    ASSUME NEW s \in Seq(Byte), NEW at \in Nat, NEW c \in Seq(Byte), at + Len(c) <= Len(s)
    PROVE  /\ Overlay(s, at, c) \in Seq(Byte) /\ Len(Overlay(s, at, c)) = Len(s)
           /\ \A i \in 1..at : Overlay(s, at, c)[i] = s[i]
           /\ Holds(Overlay(s, at, c), at, c)
<1> DEFINE N == Len(s)
           n == Len(c)
           o == Overlay(s, at, c)
<1>1. N \in Nat /\ n \in Nat /\ s \in [1..N -> Byte] /\ at \in Int
  OBVIOUS
<1>2. /\ o \in [1..N -> Byte]
      /\ \A i \in 1..N : i <= at => o[i] = s[i]
      /\ \A i \in 1..n : at >= 0 /\ at + i <= N => o[at + i] = c[i]
  BY <1>1, Overlaid
<1> HIDE DEF o
<1>3. at + n <= N
  OBVIOUS
<1> HIDE DEF N, n
<1>4. o \in Seq(Byte) /\ Len(o) = N
  BY <1>1, <1>2
<1>5. \A i \in 1..at : o[i] = s[i]
  <2>1. \A i \in 1..at : i \in 1..N /\ i <= at
    BY <1>1, <1>3
  <2> QED  BY <1>2, <2>1
<1>6. \A i \in 1..n : o[at + i] = c[i]
  <2>1. \A i \in 1..n : at >= 0 /\ at + i <= N
    BY <1>1, <1>3
  <2> QED  BY <1>2, <2>1
<1>7. Holds(o, at, c)
  BY <1>3, <1>4, <1>6 DEF Holds, n
<1> QED  BY <1>4, <1>5, <1>7 DEF o, N

\* Bytes put at a place; what is in front of it stays if the buffer reaches to it.
LEMMA PuttingAt ==
    ASSUME NEW b \in ByteBuffers, NEW at \in Nat, NEW c \in Seq(Byte)
    PROVE  /\ Put(b, at, c) \in ByteBuffers /\ Holds(Put(b, at, c).bytes, at, c)
           /\ at <= Len(b.bytes) => Grew(b, Put(b, at, c), at)
<1> DEFINE n == Len(c)
           g == ensureCapacity(b, at + n)
           o == Overlay(g.bytes, at, c)
           w == Put(b, at, c)
           N == Len(b.bytes)
<1>1. at \in Nat /\ n \in Nat /\ at + n \in Nat /\ N \in Nat /\ at # None
  BY DEF ByteBuffers, None
<1>2. w = [g EXCEPT !.bytes = o]
  BY <1>1 DEF Put, At, Moved
<1>3. Grew(b, g, N) /\ at + n <= Len(g.bytes)
  <2> HIDE DEF n, N
  <2> QED  BY <1>1, Growing DEF N
<1> HIDE DEF g
<1>4. /\ o \in Seq(Byte) /\ Len(o) = Len(g.bytes)
      /\ \A i \in 1..at : o[i] = g.bytes[i]
      /\ Holds(o, at, c)
  BY <1>1, <1>3, Laying DEF Grew, ByteBuffers
<1> HIDE DEF o
<1>5. w \in ByteBuffers /\ w.offset = g.offset /\ w.limit = g.limit /\ w.mark = g.mark
      /\ w.endian = g.endian /\ w.bytes = o
  BY <1>2, <1>3, <1>4 DEF ByteBuffers, Grew
<1> HIDE DEF w
<1>6. ASSUME at <= N PROVE Grew(b, w, at)
  <2>1. \A i \in 1..at : i \in 1..N
    <3> HIDE DEF N
    <3> QED  BY <1>1, <1>6
  <2>2. \A i \in 1..at : o[i] = b.bytes[i]
    BY <1>3, <1>4, <2>1 DEF Grew
  <2> QED  BY <1>3, <1>4, <1>5, <2>2 DEF Grew
<1> QED  BY <1>4, <1>5, <1>6 DEF w, N

\* Bytes put at the offset, which moves behind them.
LEMMA Putting ==
    ASSUME NEW b \in ByteBuffers, b.offset <= Len(b.bytes), NEW c \in Seq(Byte)
    PROVE  Wrote(b, c, Put(b, None, c))
<1> DEFINE at == b.offset
           w == Put(b, at, c)
           u == Put(b, None, c)
<1>1. at \in Nat /\ at <= Len(b.bytes) /\ at # None /\ Len(c) \in Nat
  BY DEF ByteBuffers, None
<1>2. u = [w EXCEPT !.offset = at + Len(c)]
  <2>1. u = Moved([ensureCapacity(b, at + Len(c)) EXCEPT !.bytes = Overlay(@, at, c)], None, at + Len(c))
    BY DEF Put, At
  <2>2. w = [ensureCapacity(b, at + Len(c)) EXCEPT !.bytes = Overlay(@, at, c)]
    BY <1>1 DEF Put, At, Moved
  <2> HIDE DEF w, u
  <2> QED  BY <2>1, <2>2 DEF Moved
<1>3. Grew(b, w, at) /\ Holds(w.bytes, at, c)
  BY <1>1, PuttingAt
<1> HIDE DEF w, u
<1>4. u \in ByteBuffers /\ u.offset = at + Len(c) /\ u.limit = w.limit /\ u.mark = w.mark
      /\ u.endian = w.endian /\ u.bytes = w.bytes
  <2> DEFINE end == at + Len(c)
  <2>1. end \in Nat
    BY <1>1
  <2>2. u = [w EXCEPT !.offset = end] /\ w \in ByteBuffers
    BY <1>2, <1>3 DEF Grew
  <2> HIDE DEF end
  <2>3. u \in ByteBuffers /\ u.offset = end /\ u.limit = w.limit /\ u.mark = w.mark
        /\ u.endian = w.endian /\ u.bytes = w.bytes
    BY <2>1, <2>2 DEF ByteBuffers
  <2> QED  BY <2>3 DEF end
<1> QED  BY <1>3, <1>4 DEF Grew, Wrote, u
-------------------------------------------------------------------------------
\* The bytes of a field.
NumberWidth(k) ==
    CASE k \in {"int8", "uint8"} -> 1
      [] k \in {"int16", "uint16"} -> 2
      [] k \in {"int32", "uint32"} -> 4
      [] k \in {"int64", "uint64"} -> 8
SignedKinds == {"int8", "int16", "int32", "int64"}
UnsignedKinds == {"uint8", "uint16", "uint32", "uint64"}
FloatWidth(k) == IF k = "float32" THEN 4 ELSE 8
Long32(f) == IF f.k = "zigzag32" THEN zigZagEncode32(f.v) ELSE f.v
Long64(f) == IF f.k = "zigzag64" THEN zigZagEncode64(f.v) ELSE f.v

Form(f, e) ==
    CASE f.k \in SignedKinds \cup UnsignedKinds -> Ordered(Digits(f.v, NumberWidth(f.k)), e)
      [] f.k \in {"float32", "float64"} -> Ordered(f.v, e)
      [] f.k \in {"varint32", "zigzag32"} -> Varint32(Long32(f))
      [] f.k \in {"varint64", "zigzag64"} -> Varint64(Long64(f))
      [] f.k = "bits" -> Varint32(Len(f.v)) \o BitBytes(f.v)
      [] f.k \in {"utf8", "chars"} -> Utf8(f.v)
      [] f.k = "cstring" -> Append(Utf8(f.v), 0)
      [] f.k = "istring" -> Ordered(Digits(Len(Utf8(f.v)), 4), e) \o Utf8(f.v)
      [] f.k = "vstring" -> Varint32(Len(Utf8(f.v))) \o Utf8(f.v)

\* One byte has one order.
LEMMA OneByte ==
    ASSUME NEW v \in Int, NEW e
    PROVE  Ordered(Digits(v, 1), e) = <<v % Radix>>
<1> DEFINE R == Radix
           x == v % R
           d == Digits(v, 1)
<1>1. R \in Nat /\ R > 0 /\ RadixTo[0] = 1 /\ RadixTo[1] = R
  <2>1. 1 \in 1..8 /\ 1 - 1 = 0
    OBVIOUS
  <2>2. RadixTo[1] = Radix * RadixTo[1 - 1] /\ RadixTo[0] = 1
    BY <2>1, Powers
  <2> QED  BY <2>1, <2>2, RadixFacts
<1>2. x \in 0..(R - 1)
  BY <1>1
<1>3. d = [i \in 1..1 |-> ((v % RadixTo[1]) \div RadixTo[1 - i]) % R]
  BY DEF Digits
<1> HIDE DEF d
<1>4. d = [i \in 1..1 |-> x]
  <2>1. (x \div 1) % R = x
    <3> HIDE DEF x, R
    <3>1. x \div 1 = x
      BY <1>2
    <3>2. x = R * 0 + x /\ 0 \in Int /\ x \in Int
      BY <1>1, <1>2
    <3>3. x % R = x
      BY <1>1, <1>2, <3>2, Quotient
    <3> QED  BY <3>1, <3>3
  <2>2. ASSUME NEW i \in 1..1 PROVE ((v % RadixTo[1]) \div RadixTo[1 - i]) % R = x
    <3>1. 1 - i = 0
      OBVIOUS
    <3>2. ((v % RadixTo[1]) \div RadixTo[1 - i]) % R = (x \div 1) % R
      BY <1>1, <3>1
    <3> QED  BY <2>1, <3>2
  <2> QED  BY <1>3, <2>2
<1> HIDE DEF x
<1>5. d = <<x>>
  BY <1>4
<1>6. Ordered(d, e) = <<x>>
  BY <1>5 DEF Ordered, Reverse
<1> QED  BY <1>6 DEF d, x, R

\* A field is of one of these kinds.
LEMMA StreamKinds ==
    ASSUME NEW f, CanHold(f)
    PROVE  \/ f.k \in SignedKinds /\ SignedIn(f.v, RadixTo[NumberWidth(f.k)])
           \/ f.k \in UnsignedKinds /\ Unsigned(f.v, NumberWidth(f.k))
           \/ f.k \in {"float32", "float64"} /\ f.v \in Seq(Byte) /\ Len(f.v) = FloatWidth(f.k)
           \/ f.k \in {"varint32", "zigzag32"} /\ SignedIn(f.v, Word)
           \/ f.k \in {"varint64", "zigzag64"} /\ SignedIn(f.v, Word * Word)
           \/ f.k = "bits" /\ f.v \in Seq(BOOLEAN) /\ 2 * Len(f.v) < Word
           \/ f.k \in {"utf8", "chars"} /\ f.v \in Texts
           \/ f.k = "cstring" /\ f.v \in Texts /\ \A i \in DOMAIN Utf8(f.v) : Utf8(f.v)[i] # 0
           \/ f.k = "istring" /\ f.v \in Texts /\ Len(Utf8(f.v)) < RadixTo[4]
           \/ f.k = "vstring" /\ f.v \in Texts /\ 2 * Len(Utf8(f.v)) < Word
<1>1. CASE f.k \in {"int8", "int16", "int32", "int64"}
  BY <1>1 DEF CanHold, SignedKinds, NumberWidth
<1>2. CASE f.k \in {"uint8", "uint16", "uint32", "uint64"}
  BY <1>2 DEF CanHold, UnsignedKinds, NumberWidth
<1>3. CASE f.k \in {"float32", "float64"}
  BY <1>3 DEF CanHold, FloatWidth
<1>4. CASE f.k \in {"varint32", "zigzag32", "varint64", "zigzag64", "bits"}
  BY <1>4 DEF CanHold
<1>5. CASE f.k \in {"utf8", "chars", "cstring", "istring", "vstring"}
  BY <1>5 DEF CanHold
<1> QED  BY <1>1, <1>2, <1>3, <1>4, <1>5 DEF CanHold

\* The bytes of a text.
LEMMA TextBytes ==
    ASSUME NEW t \in Texts
    PROVE  Utf8(t) \in Seq(Byte) /\ t \in Seq(DOMAIN CharBytes) /\ Len(Utf8(t)) \in Nat
<1>1. Utf8(t) \in Seq(Byte) /\ t \in Seq(DOMAIN CharBytes)
  BY StreamAssumption DEF TextsAssumption
<1> QED  BY <1>1

\* The bytes of a varint.
LEMMA VarintBytesType ==
    ASSUME NEW v \in Int
    PROVE  /\ Varint32(v) \in Seq(Byte) /\ Len(Varint32(v)) \in 1..5
           /\ Len(Varint32(v)) = calculateVarint32(v)
           /\ Varint64(v) \in Seq(Byte)
<1>1. Varint32(v) \in Seq(Byte) /\ Len(Varint32(v)) \in 1..5
  BY Varint32Is DEF IsVarint
<1>2. Varint64(v) \in Seq(Byte)
  BY Varint64Is DEF IsVarint
<1>3. Len(Varint32(v)) = calculateVarint32(v)
  <2> DEFINE n == calculateVarint32(v)
             s == [i \in 1..n |-> (v % Word) \div HalfTo[i - 1]]
  <2>1. n \in 1..5
    BY DEF calculateVarint32
  <2>2. Varint32(v) = [i \in 1..n |-> (s[i] % Half) + IF i < Len(s) THEN Half ELSE 0]
    BY DEF Varint32, Grouped
  <2> HIDE DEF s, n
  <2>3. DOMAIN Varint32(v) = 1..n
    BY <2>2
  <2>4. DOMAIN Varint32(v) = 1..Len(Varint32(v))
    BY <1>1
  <2> DEFINE m == Len(Varint32(v))
  <2>5. 1..m = 1..n /\ m \in 1..5
    BY <1>1, <2>3, <2>4
  <2> HIDE DEF m
  <2>6. m = n
    <3>1. m \in 1..n /\ n \in 1..m
      BY <2>1, <2>5
    <3> QED  BY <2>1, <2>5, <3>1
  <2> QED  BY <2>6 DEF m, n
<1> QED  BY <1>1, <1>2, <1>3

\* The zigzag form of a number is one.
LEMMA LongType ==
    ASSUME NEW f, f.v \in Int
    PROVE  Long32(f) \in Int /\ Long64(f) \in Int
BY DEF Long32, Long64, zigZagEncode32, zigZagEncode64

\* The form of each kind, and how it is written.
LEMMA NumberForm ==
    ASSUME NEW f, f.k \in SignedKinds \cup UnsignedKinds, f.v \in Int
    PROVE  /\ NumberWidth(f.k) \in {1, 2, 4, 8}
           /\ \A e : Form(f, e) = Ordered(Digits(f.v, NumberWidth(f.k)), e)
           /\ \A b : WriteField(b, f) = Put(b, None, Form(f, b.endian))
<1>1. f.k \in {"int8", "int16", "int32", "int64", "uint8", "uint16", "uint32", "uint64"}
  BY DEF SignedKinds, UnsignedKinds
<1>2. NumberWidth(f.k) \in {1, 2, 4, 8}
  BY <1>1 DEF NumberWidth
<1>3. \A e : Form(f, e) = Ordered(Digits(f.v, NumberWidth(f.k)), e)
  BY <1>1 DEF Form, SignedKinds, UnsignedKinds
<1>4. \A b : WriteField(b, f) = Put(b, None, Form(f, b.endian))
  <2> SUFFICES ASSUME NEW b PROVE WriteField(b, f) = Put(b, None, Form(f, b.endian))
    OBVIOUS
  <2>1. CASE f.k \in {"int8", "uint8"}
    <3>1. NumberWidth(f.k) = 1
      BY <2>1 DEF NumberWidth
    <3>2. WriteField(b, f) = Put(b, None, <<f.v % Radix>>)
      BY <2>1 DEF WriteField, writeInt8, writeUint8
    <3> QED  BY <1>3, <3>1, <3>2, OneByte
  <2>2. CASE f.k \in {"int16", "uint16"}
    BY <1>3, <2>2 DEF WriteField, writeInt16, writeUint16, PutNumber, NumberWidth
  <2>3. CASE f.k \in {"int32", "uint32"}
    BY <1>3, <2>3 DEF WriteField, writeInt32, writeUint32, PutNumber, NumberWidth
  <2>4. CASE f.k \in {"int64", "uint64"}
    BY <1>3, <2>4 DEF WriteField, writeInt64, writeUint64, PutNumber, NumberWidth
  <2> QED  BY <1>1, <2>1, <2>2, <2>3, <2>4
<1> QED  BY <1>2, <1>3, <1>4

\* The bytes of the other kinds of field.
LEMMA OtherForms ==
    ASSUME NEW f
    PROVE  /\ f.k \in {"float32", "float64"} =>
                 /\ \A e : Form(f, e) = Ordered(f.v, e)
                 /\ \A b : WriteField(b, f) = Put(b, None, Form(f, b.endian))
           /\ f.k \in {"varint32", "zigzag32"} =>
                 /\ \A e : Form(f, e) = Varint32(Long32(f))
                 /\ \A b : WriteField(b, f) = Put(b, None, Form(f, b.endian))
           /\ f.k \in {"varint64", "zigzag64"} =>
                 /\ \A e : Form(f, e) = Varint64(Long64(f))
                 /\ \A b : WriteField(b, f) = Put(b, None, Form(f, b.endian))
           /\ f.k = "bits" =>
                 /\ \A e : Form(f, e) = Varint32(Len(f.v)) \o BitBytes(f.v)
                 /\ \A b : WriteField(b, f) = writeBitSet(b, f.v, None)
           /\ f.k \in {"utf8", "chars"} =>
                 /\ \A e : Form(f, e) = Utf8(f.v)
                 /\ \A b : WriteField(b, f) = Put(b, None, Form(f, b.endian))
           /\ f.k = "cstring" =>
                 /\ \A e : Form(f, e) = Append(Utf8(f.v), 0)
                 /\ \A b : WriteField(b, f) = Put(b, None, Form(f, b.endian))
           /\ f.k = "istring" =>
                 /\ \A e : Form(f, e) = Ordered(Digits(Len(Utf8(f.v)), 4), e) \o Utf8(f.v)
                 /\ \A b : WriteField(b, f) = Put(b, None, Form(f, b.endian))
           /\ f.k = "vstring" =>
                 /\ \A e : Form(f, e) = Varint32(Len(Utf8(f.v))) \o Utf8(f.v)
                 /\ \A b : WriteField(b, f) = Put(b, None, Form(f, b.endian))
<1>1. ASSUME f.k \in {"float32", "float64"}
      PROVE  /\ \A e : Form(f, e) = Ordered(f.v, e)
             /\ \A b : WriteField(b, f) = Put(b, None, Form(f, b.endian))
  BY <1>1 DEF Form, SignedKinds, UnsignedKinds, WriteField, writeFloat32, writeFloat64
<1>2. ASSUME f.k \in {"varint32", "zigzag32"}
      PROVE  /\ \A e : Form(f, e) = Varint32(Long32(f))
             /\ \A b : WriteField(b, f) = Put(b, None, Form(f, b.endian))
  <2>1. \A e : Form(f, e) = Varint32(Long32(f))
    BY <1>2 DEF Form, SignedKinds, UnsignedKinds
  <2> QED  BY <1>2, <2>1 DEF WriteField, writeVarint32, writeVarint32ZigZag, Long32
<1>3. ASSUME f.k \in {"varint64", "zigzag64"}
      PROVE  /\ \A e : Form(f, e) = Varint64(Long64(f))
             /\ \A b : WriteField(b, f) = Put(b, None, Form(f, b.endian))
  <2>1. \A e : Form(f, e) = Varint64(Long64(f))
    BY <1>3 DEF Form, SignedKinds, UnsignedKinds
  <2> QED  BY <1>3, <2>1 DEF WriteField, writeVarint64, writeVarint64ZigZag, Long64
<1>4. ASSUME f.k = "bits"
      PROVE  /\ \A e : Form(f, e) = Varint32(Len(f.v)) \o BitBytes(f.v)
             /\ \A b : WriteField(b, f) = writeBitSet(b, f.v, None)
  BY <1>4 DEF Form, SignedKinds, UnsignedKinds, WriteField
<1>5. ASSUME f.k \in {"utf8", "chars"}
      PROVE  /\ \A e : Form(f, e) = Utf8(f.v)
             /\ \A b : WriteField(b, f) = Put(b, None, Form(f, b.endian))
  BY <1>5 DEF Form, SignedKinds, UnsignedKinds, WriteField, writeUTF8String
<1>6. ASSUME f.k = "cstring"
      PROVE  /\ \A e : Form(f, e) = Append(Utf8(f.v), 0)
             /\ \A b : WriteField(b, f) = Put(b, None, Form(f, b.endian))
  BY <1>6 DEF Form, SignedKinds, UnsignedKinds, WriteField, writeCString
<1>7. ASSUME f.k = "istring"
      PROVE  /\ \A e : Form(f, e) = Ordered(Digits(Len(Utf8(f.v)), 4), e) \o Utf8(f.v)
             /\ \A b : WriteField(b, f) = Put(b, None, Form(f, b.endian))
  BY <1>7 DEF Form, SignedKinds, UnsignedKinds, WriteField, writeIString
<1>8. ASSUME f.k = "vstring"
      PROVE  /\ \A e : Form(f, e) = Varint32(Len(Utf8(f.v))) \o Utf8(f.v)
             /\ \A b : WriteField(b, f) = Put(b, None, Form(f, b.endian))
  BY <1>8 DEF Form, SignedKinds, UnsignedKinds, WriteField, writeVString
<1> QED  BY <1>1, <1>2, <1>3, <1>4, <1>5, <1>6, <1>7, <1>8

\* A number's bytes are as many as it is wide.
LEMMA NumberBytes ==
    ASSUME NEW v \in Int, NEW n \in {1, 2, 4, 8}, NEW e
    PROVE  /\ Digits(v, n) \in Seq(Byte) /\ Len(Digits(v, n)) = n
           /\ Ordered(Digits(v, n), e) \in Seq(Byte) /\ Len(Ordered(Digits(v, n), e)) = n
           /\ Ordered(Ordered(Digits(v, n), e), e) = Digits(v, n)
           /\ Number(Digits(v, n)) = v % RadixTo[n]
<1> DEFINE d == Digits(v, n)
<1>1. n \in 0..8
  OBVIOUS
<1>2. d \in Seq(Byte) /\ Len(d) = n /\ Number(d) = v % RadixTo[n]
  BY <1>1, DigitsType, NumberOfDigits
<1> HIDE DEF d
<1>3. Ordered(d, e) \in Seq(Byte) /\ Len(Ordered(d, e)) = Len(d) /\ Ordered(Ordered(d, e), e) = d
  BY <1>2, OrderedTwice
<1> QED  BY <1>2, <1>3 DEF d

\* The form of a field is bytes.
LEMMA FormType ==
    ASSUME NEW f, CanHold(f), NEW e
    PROVE  Form(f, e) \in Seq(Byte) /\ Len(Form(f, e)) \in Nat
<1> SUFFICES Form(f, e) \in Seq(Byte)
  OBVIOUS
<1>1. CASE f.k \in SignedKinds \cup UnsignedKinds /\ f.v \in Int
  <2>1. NumberWidth(f.k) \in {1, 2, 4, 8} /\ Form(f, e) = Ordered(Digits(f.v, NumberWidth(f.k)), e)
    BY <1>1, NumberForm
  <2> QED  BY <1>1, <2>1, NumberBytes
<1>2. CASE f.k \in {"float32", "float64"} /\ f.v \in Seq(Byte)
  <2>1. Form(f, e) = Ordered(f.v, e)
    BY <1>2, OtherForms
  <2> QED  BY <1>2, <2>1, OrderedTwice
<1>3. CASE f.k \in {"varint32", "zigzag32", "varint64", "zigzag64"} /\ f.v \in Int
  <2>1. Form(f, e) = Varint32(Long32(f)) \/ Form(f, e) = Varint64(Long64(f))
    BY <1>3, OtherForms
  <2> QED  BY <1>3, <2>1, LongType, VarintBytesType
<1>4. CASE f.k = "bits" /\ f.v \in Seq(BOOLEAN)
  <2>1. Form(f, e) = Varint32(Len(f.v)) \o BitBytes(f.v) /\ Len(f.v) \in Int
    BY <1>4, OtherForms
  <2>2. Varint32(Len(f.v)) \in Seq(Byte) /\ BitBytes(f.v) \in Seq(Byte)
    BY <1>4, <2>1, VarintBytesType, BitBytesAre
  <2> QED  BY <2>1, <2>2
<1>5. CASE f.k \in {"utf8", "chars", "cstring", "istring", "vstring"} /\ f.v \in Texts
  <2>1. Utf8(f.v) \in Seq(Byte) /\ Len(Utf8(f.v)) \in Int /\ 0 \in Byte
    <3>1. 0 \in Byte
      BY RadixFacts DEF Byte
    <3> QED  BY <1>5, <3>1, TextBytes
  <2>2. /\ Ordered(Digits(Len(Utf8(f.v)), 4), e) \in Seq(Byte)
        /\ Varint32(Len(Utf8(f.v))) \in Seq(Byte)
    BY <2>1, NumberBytes, VarintBytesType
  <2>3. \/ Form(f, e) = Utf8(f.v)
        \/ Form(f, e) = Append(Utf8(f.v), 0)
        \/ Form(f, e) = Ordered(Digits(Len(Utf8(f.v)), 4), e) \o Utf8(f.v)
        \/ Form(f, e) = Varint32(Len(Utf8(f.v))) \o Utf8(f.v)
    BY <1>5, OtherForms
  <2>4. /\ Append(Utf8(f.v), 0) \in Seq(Byte)
        /\ Ordered(Digits(Len(Utf8(f.v)), 4), e) \o Utf8(f.v) \in Seq(Byte)
        /\ Varint32(Len(Utf8(f.v))) \o Utf8(f.v) \in Seq(Byte)
    <3> DEFINE u == Utf8(f.v)
               x == Ordered(Digits(Len(u), 4), e)
               y == Varint32(Len(u))
    <3> HIDE DEF u, x, y
    <3>1. u \in Seq(Byte) /\ x \in Seq(Byte) /\ y \in Seq(Byte)
      BY <2>1, <2>2 DEF u, x, y
    <3>2. Append(u, 0) \in Seq(Byte) /\ x \o u \in Seq(Byte) /\ y \o u \in Seq(Byte)
      BY <2>1, <3>1
    <3> QED  BY <3>2 DEF u, x, y
  <2> QED  BY <2>1, <2>3, <2>4
<1>6. \A n : (SignedIn(f.v, n) => f.v \in Int) /\ (Unsigned(f.v, n) => f.v \in Int)
  BY DEF SignedIn, Unsigned
<1> QED  BY <1>1, <1>2, <1>3, <1>4, <1>5, <1>6, StreamKinds

\* The bits are written a byte at a time, behind their number.
LEMMA WritingBits ==
    ASSUME NEW b \in ByteBuffers, b.offset <= Len(b.bytes), NEW bits \in Seq(BOOLEAN)
    PROVE  Wrote(b, Varint32(Len(bits)) \o BitBytes(bits), writeBitSet(b, bits, None))
<1> DEFINE pre == Varint32(Len(bits))
           bytes == BitBytes(bits)
           p == Len(pre)
           n == Len(bytes)
           o == b.offset
           start == o + p
           first == Put(b, o, pre)
           Turns(f) == [i \in 0..n |-> IF i = 0 THEN first
                                       ELSE Put(f[i - 1], start + i - 1, <<bytes[i]>>)]
           after == CHOOSE f : f = Turns(f)
           u == writeBitSet(b, bits, None)
<1>1. /\ pre \in Seq(Byte) /\ p \in Nat /\ p = calculateVarint32(Len(bits))
      /\ bytes \in Seq(Byte) /\ n \in Nat /\ o \in Nat /\ o <= Len(b.bytes) /\ o # None
      /\ start \in Nat /\ \A i \in 1..n : bytes[i] \in Byte
  <2>1. Len(bits) \in Int
    OBVIOUS
  <2>2. pre \in Seq(Byte) /\ p \in Nat /\ p = calculateVarint32(Len(bits))
    BY <2>1, VarintBytesType
  <2>3. bytes \in Seq(Byte)
    BY BitBytesAre
  <2> HIDE DEF pre, bytes
  <2>4. n \in Nat /\ \A i \in 1..n : bytes[i] \in Byte
    BY <2>3
  <2>5. o \in Nat /\ o <= Len(b.bytes) /\ o # None
    BY DEF ByteBuffers, None
  <2> QED  BY <2>2, <2>3, <2>4, <2>5
<1>2. u = [after[n] EXCEPT !.offset = start + n]
  <2>1. start = b.offset + calculateVarint32(Len(bits)) /\ first = writeVarint32(b, Len(bits), b.offset)
    BY <1>1 DEF writeVarint32
  <2> QED  BY <2>1 DEF writeBitSet, At, Moved
<1> HIDE DEF pre, bytes, p, n, o, start, u
<1>3. /\ first \in ByteBuffers /\ Grew(b, first, o) /\ Holds(first.bytes, o, pre)
  BY <1>1, PuttingAt DEF o
<1> DEFINE g == [q \in ByteBuffers \X (1..n) |-> Put(q[1], start + q[2] - 1, <<bytes[q[2]]>>)]
<1>4. ASSUME NEW x \in ByteBuffers, NEW i \in 1..n
      PROVE  /\ start + i - 1 \in Nat /\ <<bytes[i]>> \in Seq(Byte) /\ Len(<<bytes[i]>>) = 1
             /\ Put(x, start + i - 1, <<bytes[i]>>) \in ByteBuffers
  <2> DEFINE at == start + i - 1
             c == <<bytes[i]>>
  <2>1. at \in Nat
    BY <1>1
  <2>2. c \in Seq(Byte) /\ Len(c) = 1
    BY <1>1
  <2> HIDE DEF at, c
  <2>3. Put(x, at, c) \in ByteBuffers
    BY <2>1, <2>2, PuttingAt
  <2> QED  BY <2>1, <2>2, <2>3 DEF at, c
<1>5. /\ g \in [ByteBuffers \X (1..n) -> ByteBuffers]
      /\ \A x \in ByteBuffers, i \in 1..n : g[<<x, i>>] = Put(x, start + i - 1, <<bytes[i]>>)
  BY <1>4
<1> HIDE DEF g, first
<1>6. PICK f \in [0..n -> ByteBuffers] : Computes(f, g, first, n)
  <2> HIDE DEF ByteBuffers
  <2> QED  BY <1>1, <1>3, <1>5, Recursion
<1>7. f[0] = first /\ \A i \in 1..n : f[i] = Put(f[i - 1], start + i - 1, <<bytes[i]>>)
  <2>1. f[0] = first
    BY <1>1, <1>6 DEF Computes
  <2>2. ASSUME NEW i \in 1..n PROVE f[i] = Put(f[i - 1], start + i - 1, <<bytes[i]>>)
    <3>1. i - 1 \in 0..n /\ i \in 0..n /\ i # 0
      BY <1>1
    <3>2. f[i - 1] \in ByteBuffers
      <4> HIDE DEF ByteBuffers
      <4> QED  BY <1>6, <3>1
    <3>3. f[i] = g[<<f[i - 1], i>>]
      BY <1>6, <3>1 DEF Computes
    <3> HIDE DEF ByteBuffers
    <3> QED  BY <1>5, <3>2, <3>3
  <2> QED  BY <2>1, <2>2
<1>8. f = Turns(f)
  <2>1. \A i \in 0..n : f[i] = IF i = 0 THEN first ELSE Put(f[i - 1], start + i - 1, <<bytes[i]>>)
    <3>1. ASSUME NEW i \in 0..n
          PROVE  f[i] = IF i = 0 THEN first ELSE Put(f[i - 1], start + i - 1, <<bytes[i]>>)
      <4>1. CASE i = 0
        BY <1>7, <4>1
      <4>2. CASE i # 0
        <5>1. i \in 1..n
          BY <1>1, <4>2
        <5> QED  BY <1>7, <4>2, <5>1
      <4> QED  BY <4>1, <4>2
    <3> QED  BY <3>1
  <2>2. f = [i \in 0..n |-> f[i]]
    BY <1>6
  <2> QED  BY <2>1, <2>2
<1>9. after = Turns(after)
  <2> HIDE DEF Turns
  <2> QED  BY <1>8
<1> HIDE DEF after
<1>10. after[0] = first /\ \A i \in 1..n : after[i] = Put(after[i - 1], start + i - 1, <<bytes[i]>>)
  <2>1. 0 \in 0..n /\ \A i \in 1..n : i \in 0..n /\ i # 0
    BY <1>1
  <2>2. \A i \in 0..n : after[i] = IF i = 0 THEN first ELSE Put(after[i - 1], start + i - 1, <<bytes[i]>>)
    BY <1>9
  <2> QED  BY <2>1, <2>2
<1> DEFINE c == pre \o bytes
<1>11. c \in Seq(Byte) /\ Len(c) = p + n
       /\ (\A i \in 1..(p + n) : c[i] = IF i <= p THEN pre[i] ELSE bytes[i - p])
  <2>1. pre \in Seq(Byte) /\ bytes \in Seq(Byte)
    BY <1>1
  <2>2. /\ pre \o bytes \in Seq(Byte) /\ Len(pre \o bytes) = Len(pre) + Len(bytes)
        /\ \A i \in 1..(Len(pre) + Len(bytes)) :
              (pre \o bytes)[i] = IF i <= Len(pre) THEN pre[i] ELSE bytes[i - Len(pre)]
    BY <2>1, ConcatProperties
  <2> QED  BY <2>2 DEF p, n
<1> HIDE DEF c
<1> DEFINE Done(k) == /\ after[k] \in ByteBuffers /\ Grew(b, after[k], o)
                      /\ start + k <= Len(after[k].bytes)
                      /\ \A i \in 1..(p + k) : after[k].bytes[o + i] = c[i]
           U == {k \in Nat : k <= n => Done(k)}
<1>12. 0 \in U
  <2>1. Done(0)
    <3>1. start + 0 <= Len(first.bytes)
      BY <1>1, <1>3 DEF Holds, p, start
    <3>2. ASSUME NEW i \in 1..(p + 0) PROVE first.bytes[o + i] = c[i]
      <4>1. i \in 1..p /\ i \in 1..(p + n) /\ i <= p
        BY <1>1
      <4> QED  BY <1>3, <1>11, <4>1 DEF Holds, p
    <3> QED  BY <1>3, <1>10, <3>1, <3>2
  <2> QED  BY <2>1
<1>13. ASSUME NEW k \in Nat, k \in U PROVE k + 1 \in U
  <2>1. SUFFICES ASSUME k + 1 <= n PROVE Done(k + 1)
    OBVIOUS
  <2> DEFINE j == k + 1
             at == start + k
             s == <<bytes[j]>>
             x == after[k]
             y == after[j]
  <2>2. j \in 1..n /\ j - 1 = k /\ start + j - 1 = at /\ at \in Nat /\ k <= n
    BY <1>1, <2>1
  <2>3. Done(k)
    BY <1>13, <2>2
  <2>4. x \in ByteBuffers /\ Grew(b, x, o) /\ at <= Len(x.bytes)
        /\ \A i \in 1..(p + k) : x.bytes[o + i] = c[i]
    BY <2>3
  <2> HIDE DEF Done, U
  <2>5. s \in Seq(Byte) /\ Len(s) = 1 /\ s[1] = bytes[j]
    BY <1>1, <2>2
  <2>6. y = Put(x, at, s)
    <3> HIDE DEF j, at
    <3>1. y = Put(after[j - 1], start + j - 1, <<bytes[j]>>)
      BY <1>10, <2>2
    <3> QED  BY <2>2, <3>1
  <2> HIDE DEF x, y, s, at, j
  <2>7. y \in ByteBuffers /\ Grew(x, y, at) /\ Holds(y.bytes, at, s)
    BY <2>2, <2>4, <2>5, <2>6, PuttingAt
  <2>8. at + 1 <= Len(y.bytes) /\ y.bytes[at + 1] = bytes[j]
    <3>1. 1 \in 1..Len(s)
      BY <2>5
    <3> QED  BY <2>5, <2>7, <3>1 DEF Holds
  <2>9. Grew(b, y, o)
    <3>1. Len(b.bytes) <= Len(y.bytes)
      <4> DEFINE l1 == Len(b.bytes)
                 l2 == Len(x.bytes)
                 l3 == Len(y.bytes)
      <4>1. l1 \in Nat /\ l2 \in Nat /\ l3 \in Nat /\ l1 <= l2 /\ l2 <= l3
        BY <2>4, <2>7 DEF Grew, ByteBuffers
      <4> HIDE DEF l1, l2, l3
      <4>2. l1 <= l3
        BY <4>1
      <4> QED  BY <4>2 DEF l1, l3
    <3>2. \A i \in 1..o : i \in 1..at
      <4>1. at = (o + p) + k
        BY DEF at, start
      <4>2. o \in Nat /\ p \in Nat
        BY <1>1
      <4> HIDE DEF o, p
      <4> QED  BY <4>1, <4>2
    <3>3. \A i \in 1..o : y.bytes[i] = b.bytes[i]
      BY <2>4, <2>7, <3>2 DEF Grew
    <3> QED  BY <2>4, <2>7, <3>1, <3>3 DEF Grew
  <2>10. ASSUME NEW i \in 1..(p + j) PROVE y.bytes[o + i] = c[i]
    <3>1. CASE i <= p + k
      <4>1. i \in 1..(p + k) /\ o + i \in 1..at
        <5>1. at = (o + p) + k
          BY DEF at, start
        <5>2. o \in Nat /\ p \in Nat
          BY <1>1
        <5> HIDE DEF o, p
        <5> QED  BY <2>10, <3>1, <5>1, <5>2
      <4> QED  BY <2>4, <2>7, <4>1 DEF Grew
    <3>2. CASE ~(i <= p + k)
      <4>1. i = p + j /\ o + i = at + 1 /\ i \in 1..(p + n) /\ ~(i <= p) /\ i - p = j
        <5>1. j = k + 1 /\ at = start + k /\ start = o + p /\ j <= n
          BY <2>2 DEF j, at, start
        <5>2. o \in Nat /\ p \in Nat /\ n \in Nat /\ j \in Nat /\ start \in Nat /\ at \in Nat
          BY <1>1, <2>2
        <5> HIDE DEF o, p, n, start
        <5>3. i = p + j
          BY <2>10, <3>2, <5>1, <5>2
        <5> QED  BY <5>1, <5>2, <5>3
      <4> QED  BY <1>11, <2>8, <4>1
    <3> QED  BY <3>1, <3>2
  <2>11. start + j <= Len(y.bytes)
    <3>1. start + j = at + 1
      BY <1>1, <2>2 DEF at, j
    <3> QED  BY <2>8, <3>1
  <2> QED  BY <2>7, <2>9, <2>10, <2>11 DEF Done, y, j
<1> HIDE DEF U
<1>14. Nat \subseteq U
  BY <1>12, <1>13, Counting
<1>15. Done(n)
  BY <1>1, <1>14 DEF U
<1> DEFINE w == after[n]
<1>16. w \in ByteBuffers /\ Grew(b, w, o) /\ start + n <= Len(w.bytes)
       /\ \A i \in 1..(p + n) : w.bytes[o + i] = c[i]
  BY <1>15
<1> HIDE DEF w, Done
<1>17. u \in ByteBuffers /\ u.offset = start + n /\ u.limit = w.limit /\ u.mark = w.mark
       /\ u.endian = w.endian /\ u.bytes = w.bytes
  <2>1. u = [w EXCEPT !.offset = start + n]
    BY <1>2 DEF w
  <2>2. start + n \in Nat
    BY <1>1
  <2> DEFINE end == start + n
  <2> HIDE DEF end
  <2>3. u = [w EXCEPT !.offset = end] /\ end \in Nat
    BY <2>1, <2>2 DEF end
  <2>4. u \in ByteBuffers /\ u.offset = end /\ u.limit = w.limit /\ u.mark = w.mark
        /\ u.endian = w.endian /\ u.bytes = w.bytes
    BY <1>16, <2>3 DEF ByteBuffers
  <2> QED  BY <2>4 DEF end
<1>18. start + n = o + Len(c)
  BY <1>1, <1>11 DEF start
<1>19. Holds(w.bytes, o, c)
  BY <1>11, <1>16, <1>18 DEF Holds
<1> QED  BY <1>16, <1>17, <1>18, <1>19 DEF Wrote, Grew, o, u, c, pre, bytes

\* Writing a field puts its bytes at the offset, and changes nothing else.
LEMMA Writing ==
    ASSUME NEW b \in ByteBuffers, b.offset <= Len(b.bytes), NEW f, CanHold(f)
    PROVE  Wrote(b, Form(f, b.endian), WriteField(b, f))
<1> DEFINE c == Form(f, b.endian)
<1>1. c \in Seq(Byte)
  BY FormType
<1> HIDE DEF c
<1>2. ASSUME WriteField(b, f) = Put(b, None, c) PROVE Wrote(b, c, WriteField(b, f))
  BY <1>1, <1>2, Putting
<1> USE DEF c
<1>3. CASE f.k \in SignedKinds \cup UnsignedKinds /\ f.v \in Int
  BY <1>2, <1>3, NumberForm
<1>4. CASE f.k = "bits" /\ f.v \in Seq(BOOLEAN)
  BY <1>4, OtherForms, WritingBits
<1>5. CASE f.k \in {"float32", "float64", "varint32", "zigzag32", "varint64", "zigzag64",
                    "utf8", "chars", "cstring", "istring", "vstring"}
  <2>1. WriteField(b, f) = Put(b, None, Form(f, b.endian))
    BY <1>5, OtherForms
  <2> QED  BY <1>2, <2>1
<1>6. \A n : (SignedIn(f.v, n) => f.v \in Int) /\ (Unsigned(f.v, n) => f.v \in Int)
  BY DEF SignedIn, Unsigned
<1> QED  BY <1>3, <1>4, <1>5, <1>6, StreamKinds

\* A field alone in a buffer, flipped to be read.
LEMMA WrittenAlone ==
    ASSUME NEW f, CanHold(f), NEW e \in Endians, NEW s, s = flip(WriteField(allocate(1, e), f))
    PROVE  /\ s \in ByteBuffers /\ s.offset = 0 /\ s.limit = Len(Form(f, e))
           /\ Window(s) = Form(f, e)
<1> DEFINE a == allocate(1, e)
           w == WriteField(a, f)
           c == Form(f, e)
<1>1. a \in ByteBuffers /\ a.offset = 0 /\ a.endian = e /\ a.offset <= Len(a.bytes)
  <2>1. Zeros(1) \in Seq(Byte) /\ Len(Zeros(1)) = 1
    BY ZeroBytes
  <2> QED  BY <2>1 DEF allocate, ByteBuffers, None
<1>2. c \in Seq(Byte) /\ Len(c) \in Nat
  BY FormType
<1> HIDE DEF a
<1>3. Wrote(a, c, w)
  BY <1>1, Writing
<1> HIDE DEF w, c
<1>4. w \in ByteBuffers /\ w.offset = Len(c) /\ Holds(w.bytes, 0, c)
  BY <1>1, <1>2, <1>3 DEF Wrote
<1>5. s = [w EXCEPT !.limit = w.offset, !.offset = 0]
  BY DEF flip, w, a
<1>6. s \in ByteBuffers /\ s.offset = 0 /\ s.limit = Len(c) /\ s.bytes = w.bytes
  <2> DEFINE o == w.offset
  <2>1. s = [w EXCEPT !.limit = o, !.offset = 0] /\ o \in Nat /\ o = Len(c) /\ w \in ByteBuffers
    BY <1>2, <1>4, <1>5
  <2> HIDE DEF o
  <2> DEFINE u == [w EXCEPT !.limit = o]
  <2>2. u \in ByteBuffers /\ u.limit = o /\ u.bytes = w.bytes /\ s = [u EXCEPT !.offset = 0]
    BY <2>1 DEF ByteBuffers
  <2> HIDE DEF u
  <2>3. s \in ByteBuffers /\ s.offset = 0 /\ s.limit = o /\ s.bytes = w.bytes
    BY <2>2 DEF ByteBuffers
  <2> QED  BY <2>1, <2>3
<1>7. Window(s) = c
  <2>1. remaining(s) = Len(c)
    BY <1>2, <1>6 DEF remaining
  <2>2. Slice(w.bytes, 0, Len(c)) = c
    BY <1>2, <1>4, SliceHeld DEF ByteBuffers
  <2>3. CASE 0 < Len(c)
    BY <1>6, <2>1, <2>2, <2>3 DEF Window
  <2>4. CASE ~(0 < Len(c))
    <3>1. c = <<>>
      BY <1>2, <2>4
    <3> QED  BY <1>6, <2>4, <3>1 DEF Window
  <2> QED  BY <2>3, <2>4
<1> QED  BY <1>6, <1>7 DEF c
-------------------------------------------------------------------------------
(* The bytes of several fields *)

\* The fields that are noted: what callers write, with a byte order.
FieldsWritten == UNION {c.fields : c \in Callers}
Entries == {[k |-> f.k, v |-> f.v, endian |-> e] : f \in FieldsWritten, e \in Endians}
EntryBytes(f) == Form(f, f.endian)

\* h are the bytes of the first fields of l.
Joins(l, h) ==
    /\ h \in [0..Len(l) -> Seq(Byte)] /\ h[0] = <<>>
    /\ \A k \in 1..Len(l) : h[k] = h[k - 1] \o EntryBytes(l[k])

\* What is noted can be held.
LEMMA EntryFacts ==
    ASSUME NEW f \in Entries
    PROVE  CanHold(f) /\ f.endian \in Endians /\ EntryBytes(f) \in Seq(Byte)
<1>1. PICK g \in FieldsWritten, e \in Endians : f = [k |-> g.k, v |-> g.v, endian |-> e]
  BY DEF Entries
<1>2. CanHold(g)
  BY StreamAssumption DEF FieldsWritten
<1>3. f.k = g.k /\ f.v = g.v /\ f.endian \in Endians
  BY <1>1
<1>4. CanHold(f)
  BY <1>2, <1>3 DEF CanHold
<1> QED  BY <1>3, <1>4, FormType DEF EntryBytes

\* The bytes of fields are joined one field after another.
LEMMA EncodedByIndex ==
    ASSUME NEW l \in Seq(Entries)
    PROVE  \E h : Joins(l, h) /\ EncodedFields(l) = h[Len(l)]
<1> DEFINE S == Seq(Byte)
           n == Len(l)
           g == [q \in S \X (1..n) |-> q[1] \o EntryBytes(l[q[2]])]
           bytes(f) == Window(flip(WriteField(allocate(1, f.endian), f)))
           Whole(h) == [k \in 0..n |-> IF k = 0 THEN <<>> ELSE h[k - 1] \o bytes(l[k])]
           upTo == CHOOSE h : h = Whole(h)
<1>1. n \in Nat /\ \A k \in 1..n : l[k] \in Entries
  OBVIOUS
<1>2. \A k \in 1..n : bytes(l[k]) = EntryBytes(l[k]) /\ EntryBytes(l[k]) \in S
  <2> SUFFICES ASSUME NEW k \in 1..n PROVE bytes(l[k]) = EntryBytes(l[k]) /\ EntryBytes(l[k]) \in S
    OBVIOUS
  <2> DEFINE f == l[k]
  <2>1. f \in Entries
    BY <1>1
  <2> HIDE DEF f
  <2>2. CanHold(f) /\ f.endian \in Endians /\ EntryBytes(f) \in S
    BY <2>1, EntryFacts
  <2>3. bytes(f) = EntryBytes(f)
    BY <2>2, WrittenAlone DEF EntryBytes
  <2> QED  BY <2>2, <2>3 DEF f
<1>3. g \in [S \X (1..n) -> S] /\ <<>> \in S
  <2>1. \A x \in S, k \in 1..n : x \o EntryBytes(l[k]) \in S
    BY <1>2
  <2> QED  BY <2>1
<1>4. \A x \in S, k \in 1..n : g[<<x, k>>] = x \o EntryBytes(l[k])
  OBVIOUS
<1> HIDE DEF g, bytes
<1>5. PICK h \in [0..n -> S] : Computes(h, g, <<>>, n)
  <2> HIDE DEF n, S
  <2> QED  BY <1>1, <1>3, Recursion
<1>6. h[0] = <<>> /\ \A k \in 1..n : h[k] = h[k - 1] \o EntryBytes(l[k])
  <2>1. h[0] = <<>>
    BY <1>1, <1>5 DEF Computes
  <2>2. ASSUME NEW k \in 1..n PROVE h[k] = h[k - 1] \o EntryBytes(l[k])
    <3>1. k \in 0..n /\ k # 0 /\ k - 1 \in 0..n
      BY <1>1
    <3>2. h[k - 1] \in S
      BY <1>5, <3>1
    <3>3. h[k] = g[<<h[k - 1], k>>]
      BY <1>5, <3>1 DEF Computes
    <3> QED  BY <1>4, <3>2, <3>3
  <2> QED  BY <2>1, <2>2
<1>7. h = Whole(h)
  <2>1. ASSUME NEW k \in 0..n PROVE h[k] = IF k = 0 THEN <<>> ELSE h[k - 1] \o bytes(l[k])
    <3>1. CASE k = 0
      BY <1>6, <3>1
    <3>2. CASE k # 0
      <4>1. k \in 1..n
        BY <1>1, <3>2
      <4> QED  BY <1>2, <1>6, <3>2, <4>1
    <3> QED  BY <3>1, <3>2
  <2>2. h = [k \in 0..n |-> h[k]]
    BY <1>5
  <2> QED  BY <2>1, <2>2
<1>8. upTo = Whole(upTo)
  <2> HIDE DEF Whole
  <2> QED  BY <1>7
<1>9. EncodedFields(l) = upTo[n]
  BY DEF EncodedFields, bytes
<1> HIDE DEF upTo
<1>10. upTo[0] = <<>> /\ \A k \in 1..n : upTo[k] = upTo[k - 1] \o EntryBytes(l[k])
  <2>1. 0 \in 0..n /\ \A k \in 1..n : k \in 0..n /\ k # 0
    BY <1>1
  <2>2. \A k \in 0..n : upTo[k] = IF k = 0 THEN <<>> ELSE upTo[k - 1] \o bytes(l[k])
    BY <1>8
  <2> QED  BY <1>2, <2>1, <2>2
<1> DEFINE U == {k \in Nat : k <= n => upTo[k] \in S}
<1>11. 0 \in U
  BY <1>3, <1>10
<1>12. ASSUME NEW k \in Nat, k \in U PROVE k + 1 \in U
  <2>1. SUFFICES ASSUME k + 1 <= n PROVE upTo[k + 1] \in S
    OBVIOUS
  <2> DEFINE j == k + 1
  <2>2. j \in 1..n /\ j - 1 = k /\ upTo[k] \in S
    BY <1>1, <1>12, <2>1
  <2> HIDE DEF j
  <2>3. upTo[j] = upTo[k] \o EntryBytes(l[j])
    BY <1>10, <2>2
  <2>4. upTo[j] \in S
    BY <1>2, <2>2, <2>3
  <2> QED  BY <2>4 DEF j
<1> HIDE DEF U
<1>13. \A k \in 0..n : upTo[k] \in S
  <2>1. Nat \subseteq U
    BY <1>11, <1>12, Counting
  <2> HIDE DEF n, S
  <2> QED  BY <1>1, <2>1 DEF U
<1>14. Joins(l, upTo)
  <2>1. upTo = [k \in 0..n |-> upTo[k]]
    BY <1>8
  <2>2. upTo \in [0..n -> S]
    BY <1>13, <2>1
  <2> QED  BY <1>10, <2>2 DEF Joins
<1> QED  BY <1>9, <1>14

\* Lists that begin with the same fields begin with the same bytes.
LEMMA SameBeginning ==
    ASSUME NEW l \in Seq(Entries), NEW m \in Seq(Entries), NEW h, NEW j, Joins(l, h), Joins(m, j),
           NEW n \in Nat, n <= Len(l), n <= Len(m), \A k \in 1..n : l[k] = m[k]
    PROVE  h[n] = j[n]
<1> DEFINE U == {k \in Nat : k <= n => h[k] = j[k]}
<1>1. 0 \in U
  BY DEF Joins
<1>2. ASSUME NEW k \in Nat, k \in U PROVE k + 1 \in U
  <2>1. SUFFICES ASSUME k + 1 <= n PROVE h[k + 1] = j[k + 1]
    OBVIOUS
  <2> DEFINE i == k + 1
  <2>2. i \in 1..Len(l) /\ i \in 1..Len(m) /\ i \in 1..n /\ i - 1 = k /\ k <= n
    BY <2>1
  <2> HIDE DEF i
  <2>3. h[i] = h[k] \o EntryBytes(l[i]) /\ j[i] = j[k] \o EntryBytes(m[i])
    BY <2>2 DEF Joins
  <2>4. h[i] = j[i]
    BY <1>2, <2>2, <2>3
  <2> QED  BY <2>4 DEF i
<1> HIDE DEF U
<1>3. Nat \subseteq U
  BY <1>1, <1>2, Counting
<1> QED  BY <1>3 DEF U

\* The bytes of no field, and of one more behind the others.
LEMMA EncodedLast ==
    /\ EncodedFields(<<>>) = <<>>
    /\ \A l \in Seq(Entries) : EncodedFields(l) \in Seq(Byte)
    /\ \A l \in Seq(Entries), f \in Entries :
          EncodedFields(Append(l, f)) = EncodedFields(l) \o EntryBytes(f)
<1>1. EncodedFields(<<>>) = <<>>
  <2> DEFINE l == <<>>
  <2>1. l \in Seq(Entries) /\ Len(l) = 0
    OBVIOUS
  <2> HIDE DEF l
  <2>2. PICK h : Joins(l, h) /\ EncodedFields(l) = h[Len(l)]
    BY <2>1, EncodedByIndex
  <2>3. EncodedFields(l) = <<>>
    BY <2>1, <2>2 DEF Joins
  <2> QED  BY <2>3 DEF l
<1>2. ASSUME NEW l \in Seq(Entries) PROVE EncodedFields(l) \in Seq(Byte)
  <2>1. PICK h : Joins(l, h) /\ EncodedFields(l) = h[Len(l)]
    BY EncodedByIndex
  <2>2. Len(l) \in 0..Len(l)
    OBVIOUS
  <2> QED  BY <2>1, <2>2 DEF Joins
<1>3. ASSUME NEW l \in Seq(Entries), NEW f \in Entries
      PROVE  EncodedFields(Append(l, f)) = EncodedFields(l) \o EntryBytes(f)
  <2> DEFINE m == Append(l, f)
             n == Len(l)
  <2>1. m \in Seq(Entries) /\ Len(m) = n + 1 /\ n \in Nat /\ m[n + 1] = f
        /\ \A k \in 1..n : m[k] = l[k]
    OBVIOUS
  <2> HIDE DEF m
  <2>2. PICK h : Joins(l, h) /\ EncodedFields(l) = h[n]
    BY EncodedByIndex
  <2>3. PICK j : Joins(m, j) /\ EncodedFields(m) = j[n + 1]
    BY <2>1, EncodedByIndex
  <2>4. h[n] = j[n]
    <3>1. n <= Len(l) /\ n <= Len(m) /\ \A k \in 1..n : l[k] = m[k]
      BY <2>1
    <3> HIDE DEF n
    <3> QED  BY <2>1, <2>2, <2>3, <3>1, SameBeginning
  <2>5. j[n + 1] = j[n] \o EntryBytes(f)
    <3> DEFINE i == n + 1
    <3>1. i \in 1..Len(m) /\ i - 1 = n /\ m[i] = f
      BY <2>1
    <3> HIDE DEF i
    <3>2. j[i] = j[n] \o EntryBytes(f)
      BY <2>3, <3>1 DEF Joins
    <3> QED  BY <3>2 DEF i
  <2> QED  BY <2>2, <2>3, <2>4, <2>5 DEF m
<1> QED  BY <1>1, <1>2, <1>3

\* The bytes of one more field in front of the others.
LEMMA EncodedFirst ==
    ASSUME NEW l \in Seq(Entries), NEW f \in Entries
    PROVE  EncodedFields(<<f>> \o l) = EntryBytes(f) \o EncodedFields(l)
<1> DEFINE m == <<f>> \o l
           n == Len(l)
           c == EntryBytes(f)
<1>1. m \in Seq(Entries) /\ Len(m) = n + 1 /\ n \in Nat /\ m[1] = f
      /\ \A k \in 1..n : m[k + 1] = l[k] /\ l[k] \in Entries
  OBVIOUS
<1> HIDE DEF m
<1>2. c \in Seq(Byte) /\ \A k \in 1..n : EntryBytes(l[k]) \in Seq(Byte)
  BY <1>1, EntryFacts
<1>3. PICK h : Joins(l, h) /\ EncodedFields(l) = h[n]
  BY EncodedByIndex
<1>4. PICK j : Joins(m, j) /\ EncodedFields(m) = j[n + 1]
  BY <1>1, EncodedByIndex
<1>5. h[0] = <<>> /\ (\A k \in 0..n : h[k] \in Seq(Byte))
      /\ \A k \in 1..n : h[k] = h[k - 1] \o EntryBytes(l[k])
  BY <1>3 DEF Joins
<1>6. j[0] = <<>> /\ \A k \in 1..(n + 1) : j[k] = j[k - 1] \o EntryBytes(m[k])
  BY <1>1, <1>4 DEF Joins
<1> HIDE DEF c, n
<1> DEFINE U == {k \in Nat : k <= n => j[k + 1] = c \o h[k]}
<1>7. 0 \in U
  <2>1. 1 \in 1..(n + 1) /\ 1 - 1 = 0 /\ 0 + 1 = 1
    BY <1>1
  <2>2. j[1] = <<>> \o c
    BY <1>1, <1>6, <2>1 DEF c
  <2>3. <<>> \o c = c /\ c \o <<>> = c
    BY <1>2, ConcatEmptySeq
  <2> QED  BY <1>5, <2>1, <2>2, <2>3
<1>8. ASSUME NEW k \in Nat, k \in U PROVE k + 1 \in U
  <2>1. SUFFICES ASSUME k + 1 <= n PROVE j[k + 1 + 1] = c \o h[k + 1]
    OBVIOUS
  <2> DEFINE i == k + 1
             p == i + 1
             x == EntryBytes(l[i])
  <2>2. i \in 1..n /\ i - 1 = k /\ p \in 1..(n + 1) /\ p - 1 = i /\ k \in 0..n /\ k <= n
    BY <1>1, <2>1
  <2>3. j[i] = c \o h[k] /\ h[k] \in Seq(Byte)
    BY <1>5, <1>8, <2>2
  <2>4. m[p] = l[i] /\ x \in Seq(Byte)
    BY <1>1, <1>2, <2>2
  <2> HIDE DEF i
  <2>5. j[p] = j[i] \o x /\ h[i] = h[k] \o x
    <3> HIDE DEF p
    <3> QED  BY <1>5, <1>6, <2>2, <2>4
  <2> HIDE DEF x
  <2>6. (c \o h[k]) \o x = c \o (h[k] \o x)
    <3> DEFINE y == h[k]
    <3>1. c \in Seq(Byte) /\ y \in Seq(Byte) /\ x \in Seq(Byte)
      BY <1>2, <2>3, <2>4 DEF x
    <3> HIDE DEF y
    <3>2. (c \o y) \o x = c \o (y \o x)
      BY <3>1, ConcatAssociative
    <3> QED  BY <3>2 DEF y
  <2>7. j[p] = c \o h[i]
    BY <2>3, <2>5, <2>6
  <2> QED  BY <2>7 DEF i
<1> HIDE DEF U
<1>9. Nat \subseteq U
  BY <1>7, <1>8, Counting
<1>10. j[n + 1] = c \o h[n]
  <2>1. n \in U /\ n <= n
    BY <1>1, <1>9
  <2> QED  BY <2>1 DEF U
<1> QED  BY <1>3, <1>4, <1>10 DEF m, c

\* The first field and the rest.
LEMMA EncodedHead ==
    ASSUME NEW l \in Seq(Entries), l # <<>>
    PROVE  /\ Head(l) \in Entries /\ Tail(l) \in Seq(Entries) /\ Len(Tail(l)) = Len(l) - 1
           /\ EncodedFields(l) = EntryBytes(Head(l)) \o EncodedFields(Tail(l))
<1>1. Head(l) \in Entries /\ Tail(l) \in Seq(Entries) /\ Len(Tail(l)) = Len(l) - 1
  OBVIOUS
<1>2. l = <<Head(l)>> \o Tail(l)
  OBVIOUS
<1> QED  BY <1>1, <1>2, EncodedFirst
-------------------------------------------------------------------------------
(* Reading a field *)

\* b has the bytes c at its offset, in front of its limit.
Holding(b, c) ==
    /\ b \in ByteBuffers /\ c \in Seq(Byte) /\ Holds(b.bytes, b.offset, c)
    /\ b.offset + Len(c) <= b.limit /\ b.limit <= Len(b.bytes)

\* A buffer whose offset moved behind c.
Behind(b, c) == [b EXCEPT !.offset = b.offset + Len(c)]

\* Bytes that a buffer holds are inside it.
LEMMA HeldInside ==
    ASSUME NEW b, NEW c, Holding(b, c)
    PROVE  /\ b.offset \in Nat /\ b.limit \in Nat /\ Len(b.bytes) \in Nat /\ Len(c) \in Nat
           /\ b.bytes \in Seq(Byte) /\ b.offset # None /\ At(b, None) = b.offset
           /\ CanGet(b, None, Len(c)) /\ Slice(b.bytes, b.offset, Len(c)) = c
           /\ Moved(b, None, b.offset + Len(c)) = Behind(b, c)
           /\ \A at \in Nat : /\ At(b, at) = at /\ at # None
                              /\ \A end : Moved(b, at, end) = b
                              /\ \A n : CanGet(b, at, n) <=> at + n <= Len(b.bytes)
<1>1. b.offset \in Nat /\ b.limit \in Nat /\ b.bytes \in Seq(Byte) /\ c \in Seq(Byte)
      /\ Len(b.bytes) \in Nat /\ Len(c) \in Nat
  BY DEF Holding, ByteBuffers
<1>2. At(b, None) = b.offset /\ b.offset # None
  BY <1>1 DEF At, None
<1>3. Holds(b.bytes, b.offset, c) /\ b.offset + Len(c) <= Len(b.bytes)
  BY DEF Holding, Holds
<1>4. CanGet(b, None, Len(c))
  <2> DEFINE o == b.offset
             n == Len(c)
             N == Len(b.bytes)
  <2>1. o \in Nat /\ n \in Nat /\ N \in Nat /\ o + n <= N
    BY <1>1, <1>3
  <2>2. CanGet(b, None, n) <=> o >= 0 /\ o + n <= N
    BY <1>2 DEF CanGet, capacity
  <2> HIDE DEF o, n, N
  <2>3. CanGet(b, None, n)
    BY <2>1, <2>2
  <2> QED  BY <2>3 DEF n
<1>5. Slice(b.bytes, b.offset, Len(c)) = c
  BY <1>1, <1>3, SliceHeld
<1>6. Moved(b, None, b.offset + Len(c)) = Behind(b, c)
  BY DEF Moved, Behind
<1>7. ASSUME NEW at \in Nat
      PROVE  /\ At(b, at) = at /\ at # None /\ \A end : Moved(b, at, end) = b
             /\ \A n : CanGet(b, at, n) <=> at + n <= Len(b.bytes)
  <2>1. at # None /\ at >= 0
    BY DEF None
  <2>2. At(b, at) = at
    BY <2>1 DEF At
  <2> QED  BY <2>1, <2>2 DEF Moved, CanGet, capacity
<1> QED  BY <1>1, <1>2, <1>4, <1>5, <1>6, <1>7

\* What n bytes are read as.
LEMMA GetsHeld ==
    ASSUME NEW b, NEW c, Holding(b, c), NEW n, n = Len(c)
    PROVE  /\ GetSigned(b, n, None) = [value |-> SignedNumber(Ordered(c, b.endian)), b |-> Behind(b, c)]
           /\ GetUnsigned(b, n, None) = [value |-> Number(Ordered(c, b.endian)), b |-> Behind(b, c)]
           /\ GetFloat(b, n, None) = [value |-> Ordered(c, b.endian), b |-> Behind(b, c)]
           /\ readUTF8Bytes(b, n, None) = [value |-> TextOf(c), b |-> Behind(b, c)]
<1>1. At(b, None) = b.offset /\ Slice(b.bytes, b.offset, n) = c
      /\ Moved(b, None, b.offset + n) = Behind(b, c)
  BY HeldInside
<1>2. GetSigned(b, n, None) = [value |-> SignedNumber(Ordered(c, b.endian)), b |-> Behind(b, c)]
  BY <1>1 DEF GetSigned, Get
<1>3. GetUnsigned(b, n, None) = [value |-> Number(Ordered(c, b.endian)), b |-> Behind(b, c)]
  BY <1>1 DEF GetUnsigned, Get
<1>4. GetFloat(b, n, None) = [value |-> Ordered(c, b.endian), b |-> Behind(b, c)]
  BY <1>1 DEF GetFloat, Get
<1>5. readUTF8Bytes(b, n, None) = [value |-> TextOf(c), b |-> Behind(b, c)]
  BY <1>1 DEF readUTF8Bytes, Get
<1> QED  BY <1>2, <1>3, <1>4, <1>5

\* The field f is read at its bytes c.
GivesBack(b, f, c) ==
    CanReadField(b, f) /\ ReadField(b, f).value = f.v /\ ReadField(b, f).b = Behind(b, c)

\* A signed number is read back, and one without a sign.
LEMMA NumbersBack ==
    ASSUME NEW v \in Int, NEW n \in {1, 2, 4, 8}
    PROVE  /\ SignedIn(v, RadixTo[n]) => SignedNumber(Digits(v, n)) = v
           /\ Unsigned(v, n) => Number(Digits(v, n)) = v
<1> DEFINE m == RadixTo[n]
           d == Digits(v, n)
<1>1. d \in Seq(Byte) /\ Len(d) = n /\ Number(d) = v % m
  BY NumberBytes
<1>2. m \in Nat /\ m > 0
  <2>1. n \in 0..8
    OBVIOUS
  <2> QED  BY <2>1, Powers
<1> HIDE DEF m, d
<1>3. ASSUME SignedIn(v, m) PROVE SignedNumber(d) = v
  <2>1. -m <= 2 * v /\ 2 * v < m
    BY <1>3 DEF SignedIn
  <2>2. (IF 2 * (v % m) >= m THEN (v % m) - m ELSE v % m) = v
    BY <1>2, <2>1, SignedBack
  <2>3. SignedNumber(d) = IF 2 * (v % m) >= m THEN (v % m) - m ELSE v % m
    BY <1>1 DEF SignedNumber, m
  <2> QED  BY <2>2, <2>3
<1>4. ASSUME Unsigned(v, n) PROVE Number(d) = v
  <2>1. v \in Nat /\ v < m
    BY <1>4 DEF Unsigned, m
  <2>2. v = m * 0 + v /\ v \in 0..(m - 1) /\ 0 \in Int
    BY <1>2, <2>1
  <2> QED  BY <1>1, <1>2, <2>2, Quotient
<1> QED  BY <1>3, <1>4 DEF m, d

\* Numbers of a fixed width.
LEMMA ReadingNumber ==
    ASSUME NEW f, CanHold(f), f.k \in SignedKinds \cup UnsignedKinds, NEW b, Holding(b, Form(f, b.endian))
    PROVE  GivesBack(b, f, Form(f, b.endian))
<1> DEFINE n == NumberWidth(f.k)
           d == Digits(f.v, n)
           c == Form(f, b.endian)
<1>1. /\ f.k \in SignedKinds => SignedIn(f.v, RadixTo[n])
      /\ f.k \in UnsignedKinds => Unsigned(f.v, n)
      /\ f.v \in Int
  <2>1. \/ f.k \in SignedKinds /\ SignedIn(f.v, RadixTo[n])
        \/ f.k \in UnsignedKinds /\ Unsigned(f.v, n)
    BY StreamKinds DEF SignedKinds, UnsignedKinds
  <2> HIDE DEF n
  <2>2. f.v \in Int
    BY <2>1 DEF SignedIn, Unsigned
  <2> QED  BY <2>1, <2>2 DEF SignedKinds, UnsignedKinds
<1>2. n \in {1, 2, 4, 8} /\ c = Ordered(d, b.endian)
  BY <1>1, NumberForm
<1> HIDE DEF n, c
<1>3. Ordered(c, b.endian) = d /\ Len(c) = n
  BY <1>1, <1>2, NumberBytes
<1>4. /\ f.k \in SignedKinds => SignedNumber(d) = f.v
      /\ f.k \in UnsignedKinds => Number(d) = f.v
  BY <1>1, <1>2, NumbersBack
<1> HIDE DEF d
<1>5. Holding(b, c)
  BY DEF c
<1>6. /\ GetSigned(b, n, None) = [value |-> SignedNumber(d), b |-> Behind(b, c)]
      /\ GetUnsigned(b, n, None) = [value |-> Number(d), b |-> Behind(b, c)]
      /\ CanGet(b, None, n)
  BY <1>3, <1>5, GetsHeld, HeldInside
<1>7. /\ f.k \in SignedKinds => ReadField(b, f) = GetSigned(b, n, None)
      /\ f.k \in UnsignedKinds => ReadField(b, f) = GetUnsigned(b, n, None)
  <2>1. CASE f.k \in {"int8", "uint8"}
    BY <2>1 DEF ReadField, readInt8, readUint8, n, NumberWidth, SignedKinds, UnsignedKinds
  <2>2. CASE f.k \in {"int16", "uint16"}
    BY <2>2 DEF ReadField, readInt16, readUint16, n, NumberWidth, SignedKinds, UnsignedKinds
  <2>3. CASE f.k \in {"int32", "uint32"}
    BY <2>3 DEF ReadField, readInt32, readUint32, n, NumberWidth, SignedKinds, UnsignedKinds
  <2>4. CASE f.k \in {"int64", "uint64"}
    BY <2>4 DEF ReadField, readInt64, readUint64, n, NumberWidth, SignedKinds, UnsignedKinds
  <2> QED  BY <2>1, <2>2, <2>3, <2>4 DEF SignedKinds, UnsignedKinds
<1>8. CanReadField(b, f) <=> CanGet(b, None, n)
  <2>1. f.k \in {"int8", "uint8", "int16", "uint16", "int32", "uint32", "int64", "uint64"}
    BY DEF SignedKinds, UnsignedKinds
  <2> QED  BY <2>1 DEF CanReadField, n, NumberWidth
<1> QED  BY <1>4, <1>6, <1>7, <1>8 DEF GivesBack, c

\* Floats, which are bytes here.
LEMMA ReadingFloat ==
    ASSUME NEW f, f.k \in {"float32", "float64"}, f.v \in Seq(Byte), Len(f.v) = FloatWidth(f.k),
           NEW b, Holding(b, Form(f, b.endian))
    PROVE  GivesBack(b, f, Form(f, b.endian))
<1> DEFINE n == FloatWidth(f.k)
           c == Form(f, b.endian)
<1>1. c = Ordered(f.v, b.endian)
  BY OtherForms
<1> HIDE DEF n, c
<1>2. Ordered(c, b.endian) = f.v /\ Len(c) = n
  BY <1>1, OrderedTwice DEF n
<1>3. Holding(b, c)
  BY DEF c
<1>4. GetFloat(b, n, None) = [value |-> f.v, b |-> Behind(b, c)] /\ CanGet(b, None, n)
  BY <1>2, <1>3, GetsHeld, HeldInside
<1>5. ReadField(b, f) = GetFloat(b, n, None) /\ (CanReadField(b, f) <=> CanGet(b, None, n))
  BY DEF ReadField, CanReadField, readFloat32, readFloat64, n, FloatWidth
<1> QED  BY <1>4, <1>5 DEF GivesBack, c

\* A varint of 32 bits, at the offset or at a place that is given.
LEMMA ReadingVarint32 ==
    ASSUME NEW b \in ByteBuffers, NEW at \in Nat, NEW v \in Int, Holds(b.bytes, at, Varint32(v)),
           at + Len(Varint32(v)) <= b.limit, b.limit <= Len(b.bytes),
           NEW place, At(b, place) = at
    PROVE  /\ CanReadVarint32(b, place)
           /\ readVarint32(b, place) = [value |-> SignedWord(v % Word), length |-> Len(Varint32(v)),
                                         b |-> Moved(b, place, at + Len(Varint32(v)))]
<1> DEFINE c == Varint32(v)
           w == v % Word
<1>1. c \in Seq(Byte) /\ Len(c) \in 1..5 /\ IsVarint(c, w, 5) /\ w \in Nat
  BY VarintBytesType, Varint32Is
<1> HIDE DEF c, w
<1>2. Holds(b.bytes, at, c) /\ at + Len(c) <= b.limit
  BY DEF c
<1>3. b.bytes \in Seq(Byte) /\ Len(b.bytes) \in Nat /\ b.limit \in Nat
  BY DEF ByteBuffers
<1>4. VarintBytes(b, at) = c
  <2>1. 5 \in 1..10
    OBVIOUS
  <2> QED  BY <1>1, <1>2, <1>3, <2>1, VarintHeld
<1>5. Ungrouped(c, 5) = w
  <2>1. 5 \in 1..10
    OBVIOUS
  <2> QED  BY <1>1, <2>1, VarintValue
<1>6. CanGet(b, place, 1) /\ at + Len(c) - 1 <= b.limit
  <2> DEFINE n == Len(c)
             N == Len(b.bytes)
             l == b.limit
  <2>1. n \in 1..5 /\ N \in Nat /\ l \in Nat /\ at + n <= l /\ l <= N
    BY <1>1, <1>2, <1>3
  <2>2. CanGet(b, place, 1) <=> at >= 0 /\ at + 1 <= N
    BY DEF CanGet, capacity
  <2> HIDE DEF n, N, l
  <2>3. at >= 0 /\ at + 1 <= N /\ at + n - 1 <= l
    BY <2>1
  <2> QED  BY <2>2, <2>3 DEF n, l
<1>7. CanReadVarint32(b, place)
  BY <1>4, <1>6 DEF CanReadVarint32
<1>8. readVarint32(b, place) = [value |-> SignedWord(w), length |-> Len(c), b |-> Moved(b, place, at + Len(c))]
  BY <1>4, <1>5 DEF readVarint32
<1> QED  BY <1>7, <1>8 DEF c, w

\* The signed word that a remainder stands for.
LEMMA WordBack ==
    /\ Word \in Nat /\ Word > 0
    /\ \A v \in Int : SignedIn(v, Word) => SignedWord(v % Word) = v
    /\ \A w \in 0..(Word - 1) : SignedWord(w) % Word = w
<1> DEFINE W == Word
<1>1. W \in Nat /\ W > 0
  <2>1. 4 \in 0..10
    OBVIOUS
  <2>2. HalfTo[4] \in Nat /\ HalfTo[4] < W /\ W \in Nat
    BY <2>1, HalfSteps, WordFacts
  <2> HIDE DEF W
  <2> QED  BY <2>2
<1>2. \A w : SignedWord(w) = IF 2 * (w % W) >= W THEN (w % W) - W ELSE w % W
  BY DEF SignedWord
<1> HIDE DEF W
<1>3. ASSUME NEW w \in 0..(W - 1) PROVE w % W = w
  <2>1. w = W * 0 + w /\ 0 \in Int /\ w \in Int
    BY <1>1
  <2> QED  BY <1>1, <2>1, Quotient
<1>4. ASSUME NEW v \in Int, SignedIn(v, W) PROVE SignedWord(v % W) = v
  <2>1. -W <= 2 * v /\ 2 * v < W
    BY <1>4 DEF SignedIn
  <2> DEFINE x == v % W
  <2>2. x \in 0..(W - 1) /\ (IF 2 * x >= W THEN x - W ELSE x) = v
    BY <1>1, <2>1, SignedBack
  <2> HIDE DEF x
  <2>3. x % W = x
    BY <1>3, <2>2
  <2>4. SignedWord(x) = v
    BY <1>2, <2>2, <2>3
  <2> QED  BY <2>4 DEF x
<1>5. ASSUME NEW w \in 0..(W - 1) PROVE SignedWord(w) % W = w
  <2>1. SignedWord(w) = IF 2 * w >= W THEN w - W ELSE w
    BY <1>2, <1>3
  <2>2. (w - W) % W = w
    <3> DEFINE y == w - W
    <3>1. y = W * (-1) + w /\ y \in Int /\ -1 \in Int
      BY <1>1
    <3> HIDE DEF y
    <3>2. y % W = w
      BY <1>1, <3>1, Quotient
    <3> QED  BY <3>2 DEF y
  <2> QED  BY <1>3, <2>1, <2>2
<1> QED  BY <1>1, <1>4, <1>5 DEF W

\* Varints of 32 bits, the zigzag form among them.
LEMMA ReadingWord ==
    ASSUME NEW f, f.k \in {"varint32", "zigzag32"}, SignedIn(f.v, Word),
           NEW b, Holding(b, Form(f, b.endian))
    PROVE  GivesBack(b, f, Form(f, b.endian))
<1> DEFINE v == Long32(f)
           c == Form(f, b.endian)
<1>1. f.v \in Int /\ v \in Int
  BY LongType DEF SignedIn
<1>2. c = Varint32(v)
  BY OtherForms
<1> HIDE DEF c
<1>3. Holding(b, c)
  BY DEF c
<1>4. b \in ByteBuffers /\ b.offset \in Nat /\ At(b, None) = b.offset /\ Holds(b.bytes, b.offset, c)
      /\ b.offset + Len(c) <= b.limit /\ b.limit <= Len(b.bytes)
      /\ Moved(b, None, b.offset + Len(c)) = Behind(b, c)
  BY <1>3, HeldInside DEF Holding
<1>5. /\ CanReadVarint32(b, None)
      /\ readVarint32(b, None) = [value |-> SignedWord(v % Word), length |-> Len(c), b |-> Behind(b, c)]
  <2> DEFINE at == b.offset
  <2>1. b \in ByteBuffers /\ at \in Nat /\ v \in Int /\ Holds(b.bytes, at, Varint32(v))
        /\ at + Len(Varint32(v)) <= b.limit /\ b.limit <= Len(b.bytes) /\ At(b, None) = at
    BY <1>1, <1>2, <1>4
  <2>2. Moved(b, None, at + Len(Varint32(v))) = Behind(b, c) /\ Varint32(v) = c
    BY <1>2, <1>4
  <2> HIDE DEF v, at
  <2>3. /\ CanReadVarint32(b, None)
        /\ readVarint32(b, None) = [value |-> SignedWord(v % Word), length |-> Len(Varint32(v)),
                                    b |-> Moved(b, None, at + Len(Varint32(v)))]
    BY <2>1, ReadingVarint32
  <2> QED  BY <2>2, <2>3
<1>6. CanReadField(b, f)
  BY <1>5 DEF CanReadField
<1>7. CASE f.k = "varint32"
  <2>1. v = f.v
    BY <1>7 DEF Long32
  <2>2. SignedWord(v % Word) = f.v
    BY <1>1, <2>1, WordBack
  <2>3. ReadField(b, f) = readVarint32(b, None)
    BY <1>7 DEF ReadField
  <2> QED  BY <1>5, <1>6, <2>2, <2>3 DEF GivesBack, c
<1>8. CASE f.k = "zigzag32"
  <2> DEFINE W == Word
             z == IF f.v >= 0 THEN 2 * f.v ELSE -2 * f.v - 1
  <2>1. v = z
    BY <1>8 DEF Long32, zigZagEncode32
  <2>2. W \in Nat /\ W > 0 /\ -W <= 2 * f.v /\ 2 * f.v < W
    BY WordBack DEF SignedIn
  <2> HIDE DEF W, v
  <2>3. /\ z \in Nat /\ z < W /\ z % W = z
        /\ (IF z % 2 = 0 THEN z \div 2 ELSE -((z + 1) \div 2)) = f.v
    <3> DEFINE x == f.v
    <3>1. x \in Int /\ -W <= 2 * x /\ 2 * x < W /\ z = IF x >= 0 THEN 2 * x ELSE -2 * x - 1
      BY <1>1, <2>2
    <3> HIDE DEF x, z
    <3>2. /\ z \in Nat /\ z < W /\ z % W = z
          /\ (IF z % 2 = 0 THEN z \div 2 ELSE -((z + 1) \div 2)) = x
      BY <2>2, <3>1, ZigZagBack
    <3> QED  BY <3>2 DEF x
  <2> HIDE DEF z
  <2>4. z \in 0..(W - 1)
    BY <2>2, <2>3
  <2>5. SignedWord(z) % W = z
    BY <2>4, WordBack DEF W
  <2>6. readVarint32(b, None) = [value |-> SignedWord(z), length |-> Len(c), b |-> Behind(b, c)]
    BY <1>5, <2>1, <2>3 DEF W
  <2>7. ReadField(b, f) = [readVarint32(b, None) EXCEPT !.value = zigZagDecode32(readVarint32(b, None).value % Word)]
    BY <1>8 DEF ReadField, readVarint32ZigZag
  <2>8. zigZagDecode32(z) = f.v
    BY <2>3 DEF zigZagDecode32
  <2>9. ReadField(b, f).value = f.v /\ ReadField(b, f).b = Behind(b, c)
    BY <2>5, <2>6, <2>7, <2>8 DEF W
  <2> QED  BY <1>6, <2>9 DEF GivesBack, c
<1> QED  BY <1>7, <1>8

\* Varints of 64 bits, the zigzag form among them.
LEMMA ReadingLong ==
    ASSUME NEW f, f.k \in {"varint64", "zigzag64"}, SignedIn(f.v, Word * Word),
           NEW b, Holding(b, Form(f, b.endian))
    PROVE  GivesBack(b, f, Form(f, b.endian))
<1> DEFINE v == Long64(f)
           D == Word * Word
           w == v % D
           c == Form(f, b.endian)
           signed(x) == IF 2 * x >= D THEN x - D ELSE x
<1>1. f.v \in Int /\ v \in Int
  BY LongType DEF SignedIn
<1>2. c = Varint64(v)
  BY OtherForms
<1>3. D \in Nat /\ D > 0 /\ w \in Nat /\ w < D /\ IsVarint(Varint64(v), w, 10)
  <2> HIDE DEF v
  <2> QED  BY <1>1, Varint64Is
<1> HIDE DEF c
<1>4. Holding(b, c) /\ IsVarint(c, w, 10)
  BY <1>2, <1>3 DEF c
<1> HIDE DEF v
<1>5. b.bytes \in Seq(Byte) /\ b.offset \in Nat /\ At(b, None) = b.offset /\ Holds(b.bytes, b.offset, c)
      /\ Moved(b, None, b.offset + Len(c)) = Behind(b, c) /\ Len(c) \in 1..10
      /\ b.offset + Len(c) <= Len(b.bytes) /\ Len(b.bytes) \in Nat
  BY <1>4, HeldInside DEF Holding, Holds, IsVarint
<1> HIDE DEF w
<1>6. VarintBytes(b, b.offset) = c /\ Ungrouped(c, 10) = w
  <2> DEFINE at == b.offset
             ten == 10
  <2>1. ten \in 1..10 /\ at \in Nat /\ Holds(b.bytes, at, c) /\ IsVarint(c, w, ten) /\ w \in Nat
    BY <1>3, <1>4, <1>5
  <2> HIDE DEF at, ten
  <2>2. VarintBytes(b, at) = c /\ Ungrouped(c, ten) = w
    BY <1>5, <2>1, VarintHeld, VarintValue
  <2> QED  BY <2>2 DEF at, ten
<1>7. CanReadField(b, f)
  <2>1. CanGet(b, None, 1)
    <3> DEFINE o == b.offset
               n == Len(c)
               N == Len(b.bytes)
    <3>1. o \in Nat /\ n \in 1..10 /\ N \in Nat /\ o + n <= N
      BY <1>5
    <3>2. CanGet(b, None, 1) <=> o >= 0 /\ o + 1 <= N
      BY <1>5 DEF CanGet, capacity
    <3> HIDE DEF o, n, N
    <3> QED  BY <3>1, <3>2
  <2>2. Len(c) <= 10
    <3> DEFINE n == Len(c)
    <3>1. n \in 1..10
      BY <1>5
    <3> HIDE DEF n
    <3>2. n <= 10
      BY <3>1
    <3> QED  BY <3>2 DEF n
  <2> QED  BY <1>5, <1>6, <2>1, <2>2 DEF CanReadField, CanReadVarint64
<1>8. w % D = w
  <2> HIDE DEF D
  <2>1. w = D * 0 + w /\ w \in 0..(D - 1) /\ 0 \in Int
    BY <1>3
  <2> QED  BY <1>3, <2>1, Quotient
<1>9. readVarint64(b, None) = [value |-> signed(w), length |-> Len(c), b |-> Behind(b, c)]
  BY <1>5, <1>6, <1>8 DEF readVarint64
<1> HIDE DEF D
<1>10. -D <= 2 * f.v /\ 2 * f.v < D
  BY DEF SignedIn, D
<1>11. CASE f.k = "varint64"
  <2>1. v = f.v
    BY <1>11 DEF v, Long64
  <2>2. signed(w) = f.v
    BY <1>1, <1>3, <1>10, <2>1, SignedBack DEF w
  <2>3. ReadField(b, f) = readVarint64(b, None)
    BY <1>11 DEF ReadField
  <2> HIDE DEF signed
  <2>4. ReadField(b, f).value = f.v /\ ReadField(b, f).b = Behind(b, c)
    BY <1>9, <2>2, <2>3
  <2> QED  BY <1>7, <2>4 DEF GivesBack, c
<1>12. CASE f.k = "zigzag64"
  <2> DEFINE z == IF f.v >= 0 THEN 2 * f.v ELSE -2 * f.v - 1
  <2>1. v = z
    BY <1>12 DEF v, Long64, zigZagEncode64
  <2>2. /\ z \in Nat /\ z < D /\ z % D = z
        /\ (IF z % 2 = 0 THEN z \div 2 ELSE -((z + 1) \div 2)) = f.v
    <3> DEFINE x == f.v
    <3>1. x \in Int /\ -D <= 2 * x /\ 2 * x < D /\ z = IF x >= 0 THEN 2 * x ELSE -2 * x - 1
      BY <1>1, <1>10
    <3>3. D \in Nat /\ D > 0
      BY <1>3
    <3> HIDE DEF x, z
    <3>2. /\ z \in Nat /\ z < D /\ z % D = z
          /\ (IF z % 2 = 0 THEN z \div 2 ELSE -((z + 1) \div 2)) = x
      BY <3>1, <3>3, ZigZagBack
    <3> QED  BY <3>2 DEF x
  <2> HIDE DEF z
  <2>3. w = z
    BY <2>1, <2>2 DEF w
  <2>4. signed(z) % D = z
    <3>1. (z - D) % D = z
      <4> DEFINE y == z - D
      <4>1. y = D * (-1) + z /\ y \in Int /\ -1 \in Int /\ z \in 0..(D - 1)
        BY <1>3, <2>2
      <4> HIDE DEF y
      <4>2. y % D = z
        BY <1>3, <4>1, Quotient
      <4> QED  BY <4>2 DEF y
    <3> QED  BY <2>2, <3>1
  <2> HIDE DEF signed
  <2>5. ReadField(b, f) = [readVarint64(b, None) EXCEPT !.value = zigZagDecode64(readVarint64(b, None).value % D)]
    BY <1>12 DEF ReadField, readVarint64ZigZag, D
  <2>6. zigZagDecode64(z) = f.v
    BY <2>2 DEF zigZagDecode64
  <2>7. ReadField(b, f).value = f.v /\ ReadField(b, f).b = Behind(b, c)
    BY <1>9, <2>3, <2>4, <2>5, <2>6
  <2> QED  BY <1>7, <2>7 DEF GivesBack, c
<1> QED  BY <1>11, <1>12

\* Bits behind their number.
LEMMA ReadingBits ==
    ASSUME NEW f, f.k = "bits", f.v \in Seq(BOOLEAN), 2 * Len(f.v) < Word,
           NEW b, Holding(b, Form(f, b.endian))
    PROVE  GivesBack(b, f, Form(f, b.endian))
<1> DEFINE L == Len(f.v)
           pre == Varint32(L)
           bytes == BitBytes(f.v)
           o == b.offset
           p == Len(pre)
           n == BitCount(f.v)
           c == Form(f, b.endian)
           start == o + p
<1>1. L \in Nat /\ pre \in Seq(Byte) /\ p \in 1..5 /\ n \in Nat /\ bytes \in Seq(Byte) /\ Len(bytes) = n
  <2>1. L \in Nat /\ L \in Int
    OBVIOUS
  <2>2. n \in Nat /\ bytes \in Seq(Byte) /\ Len(bytes) = n
    BY BitBytesAre
  <2> HIDE DEF L
  <2>3. pre \in Seq(Byte) /\ p \in 1..5
    BY <2>1, VarintBytesType
  <2> QED  BY <2>1, <2>2, <2>3
<1>2. c = pre \o bytes
  BY OtherForms
<1> HIDE DEF c, pre, bytes, L
<1>3. Holding(b, c)
  BY DEF c
<1>4. b \in ByteBuffers /\ o \in Nat /\ At(b, None) = o /\ At(b, o) = o /\ Holds(b.bytes, o, c)
      /\ b.bytes \in Seq(Byte) /\ Len(b.bytes) \in Nat /\ b.limit \in Nat
      /\ o + Len(c) <= b.limit /\ b.limit <= Len(b.bytes)
      /\ Moved(b, None, o + Len(c)) = Behind(b, c)
  BY <1>3, HeldInside DEF Holding
<1>5. Len(c) = p + n
  BY <1>1, <1>2, ConcatProperties
<1>6. Holds(b.bytes, o, pre) /\ Holds(b.bytes, start, bytes)
  <2> HIDE DEF o
  <2> QED  BY <1>1, <1>2, <1>4, HoldsBoth
<1> HIDE DEF p, n, o
<1>7. start \in Nat /\ o + p <= b.limit
  BY <1>1, <1>4, <1>5
<1>8. SignedWord(L % Word) = L
  <2> DEFINE W == Word
  <2>1. W \in Nat /\ W > 0 /\ 2 * L < W
    BY WordBack DEF L
  <2> HIDE DEF W
  <2>2. SignedIn(L, W)
    BY <1>1, <2>1 DEF SignedIn
  <2> QED  BY <1>1, <2>2, WordBack DEF W
<1> DEFINE count == readVarint32(b, o)
<1>9. CanReadVarint32(b, o) /\ count.value = L /\ count.length = p
  <2>1. /\ CanReadVarint32(b, o)
        /\ count = [value |-> SignedWord(L % Word), length |-> p, b |-> Moved(b, o, o + p)]
    BY <1>1, <1>4, <1>6, <1>7, ReadingVarint32 DEF pre, p
  <2> QED  BY <1>8, <2>1
<1> HIDE DEF count
<1>10. BitSetEnd(b, o) = o + Len(c)
  <2>1. BitSetEnd(b, o) = o + p + n
    BY <1>9 DEF BitSetEnd, count, n, BitCount, L
  <2> QED  BY <1>1, <1>4, <1>5, <2>1
<1>11. CanReadField(b, f)
  <2>1. o + Len(c) <= Len(b.bytes)
    BY <1>1, <1>4, <1>5
  <2> QED  BY <1>4, <1>9, <1>10, <2>1 DEF CanReadField, CanReadBitSet, capacity
<1> DEFINE bit(k) == ByteAt(b, start + ((k - 1) \div ByteBits)) \div TwoTo[(k - 1) % ByteBits]
<1>12. ReadField(b, f) = [value |-> [k \in 1..L |-> bit(k) % 2 = 1], b |-> Behind(b, c)]
  BY <1>4, <1>9, <1>10 DEF ReadField, readBitSet, count
<1>13. ASSUME NEW k \in 1..L PROVE (bit(k) % 2 = 1) = f.v[k]
  <2> DEFINE q == (k - 1) \div ByteBits
             r == (k - 1) % ByteBits
             i == q + 1
  <2>1. q \in 0..(n - 1) /\ ((bytes[i] \div TwoTo[r]) % 2 = 1) = f.v[k]
    BY BitsBack DEF L, n, bytes
  <2> HIDE DEF r, q
  <2>2. i \in 1..n /\ start + i - 1 = start + q
    BY <1>1, <1>7, <2>1
  <2>3. ByteAt(b, start + q) = bytes[i]
    <3> HIDE DEF start, i
    <3>1. \A j \in 1..Len(bytes) : ByteAt(b, start + j - 1) = bytes[j]
      BY <1>1, <1>4, <1>6, <1>7, ByteAtHeld
    <3>2. ByteAt(b, start + i - 1) = bytes[i]
      BY <1>1, <2>2, <3>1
    <3> QED  BY <2>2, <3>2
  <2>4. bit(k) = bytes[i] \div TwoTo[r]
    BY <2>3 DEF q, r
  <2> HIDE DEF bit
  <2> QED  BY <2>1, <2>4
<1> HIDE DEF bit
<1>14. [k \in 1..L |-> bit(k) % 2 = 1] = f.v
  <2>1. f.v = [k \in 1..L |-> f.v[k]]
    BY DEF L
  <2>2. [k \in 1..L |-> bit(k) % 2 = 1] = [k \in 1..L |-> f.v[k]]
    BY <1>13
  <2> QED  BY <2>1, <2>2
<1> QED  BY <1>11, <1>12, <1>14 DEF GivesBack, c

\* A text is found by its bytes; none begins with another of as many characters.
LEMMA TextBack ==
    ASSUME NEW t \in Texts
    PROVE  /\ IsText(Utf8(t)) /\ TextOf(Utf8(t)) = t
           /\ \A s \in Texts : Len(s) = Len(t) /\ (\E n \in 0..Len(Utf8(t)) : Utf8(s) = SubSeq(Utf8(t), 1, n)) => s = t
           /\ \A c : IsText(c) => TextOf(c) \in Texts /\ Utf8(TextOf(c)) = c
<1>1. \A s \in Texts : Utf8(s) = Utf8(t) => s = t
  BY StreamAssumption DEF TextsAssumption
<1>2. \A s \in Texts : Len(s) = Len(t) /\ (\E n \in 0..Len(Utf8(t)) : Utf8(s) = SubSeq(Utf8(t), 1, n)) => s = t
  BY StreamAssumption DEF TextsAssumption
<1>3. IsText(Utf8(t))
  BY DEF IsText
<1>4. \A c : IsText(c) => TextOf(c) \in Texts /\ Utf8(TextOf(c)) = c
  BY DEF IsText, TextOf
<1>5. TextOf(Utf8(t)) = t
  BY <1>1, <1>3, <1>4
<1> QED  BY <1>2, <1>3, <1>4, <1>5

\* A string whose bytes are counted.
LEMMA ReadingUtf8 ==
    ASSUME NEW f, f.k = "utf8", f.v \in Texts, NEW b, Holding(b, Form(f, b.endian))
    PROVE  GivesBack(b, f, Form(f, b.endian))
<1> DEFINE c == Form(f, b.endian)
<1>1. c = Utf8(f.v)
  BY OtherForms
<1> HIDE DEF c
<1>2. Holding(b, c) /\ calculateUTF8Bytes(f.v) = Len(c)
  BY <1>1 DEF c, calculateUTF8Bytes
<1>3. CanGet(b, None, Len(c)) /\ readUTF8Bytes(b, Len(c), None) = [value |-> TextOf(c), b |-> Behind(b, c)]
  BY <1>2, HeldInside, GetsHeld
<1>4. TextOf(c) = f.v
  BY <1>1, TextBack
<1> QED  BY <1>2, <1>3, <1>4 DEF GivesBack, CanReadField, ReadField, c

\* A stretch of a buffer of bytes: as long as it was asked for, with the bytes from there on.
LEMMA SlicePart ==
    ASSUME NEW B \in Seq(Byte), NEW o \in Nat, NEW s \in Nat, o + s <= Len(B)
    PROVE  /\ Slice(B, o, s) \in Seq(Byte) /\ Len(Slice(B, o, s)) = s
           /\ \A i \in 1..s : Slice(B, o, s)[i] = B[o + i]
<1>1. \A i \in (o + 1)..(o + s) : B[i] \in Byte
  OBVIOUS
<1>2. /\ SubSeq(B, o + 1, o + s) \in Seq(Byte)
      /\ Len(SubSeq(B, o + 1, o + s)) = IF o + 1 <= o + s THEN o + s - (o + 1) + 1 ELSE 0
      /\ \A i \in 1..(o + s - (o + 1) + 1) : SubSeq(B, o + 1, o + s)[i] = B[o + 1 + i - 1]
  BY <1>1, SubSeqProperties
<1> DEFINE x == SubSeq(B, o + 1, o + s)
<1> HIDE DEF x
<1>3. x \in Seq(Byte) /\ Len(x) = s
  BY <1>2 DEF x
<1>4. ASSUME NEW i \in 1..s PROVE x[i] = B[o + i]
  <2>1. i \in 1..(o + s - (o + 1) + 1) /\ o + 1 + i - 1 = o + i
    OBVIOUS
  <2> QED  BY <1>2, <2>1 DEF x
<1> QED  BY <1>3, <1>4 DEF x, Slice

\* A string whose characters are counted: no other number of bytes fits.
LEMMA ReadingChars ==
    ASSUME NEW f, f.k = "chars", f.v \in Texts, NEW b, Holding(b, Form(f, b.endian))
    PROVE  GivesBack(b, f, Form(f, b.endian))
<1> DEFINE c == Form(f, b.endian)
           o == b.offset
           n == Len(c)
           B == b.bytes
           l == b.limit
           fit == CharsFit(b, o, Len(f.v))
<1>1. c = Utf8(f.v) /\ calculateUTF8Chars(f.v) = Len(f.v)
  BY OtherForms DEF calculateUTF8Chars
<1> HIDE DEF c
<1>2. Holding(b, c)
  BY DEF c
<1>3. /\ o \in Nat /\ n \in Nat /\ l \in Nat /\ Len(B) \in Nat /\ o + n <= l /\ l <= Len(B)
      /\ B \in Seq(Byte) /\ At(b, None) = o /\ Slice(B, o, n) = c /\ c \in Seq(Byte)
      /\ readUTF8Bytes(b, n, None) = [value |-> TextOf(c), b |-> Behind(b, c)]
  BY <1>2, HeldInside, GetsHeld DEF Holding
<1>4. fit = {s \in 0..(l - o) : IsText(Slice(B, o, s)) /\ Len(TextOf(Slice(B, o, s))) = Len(f.v)}
  BY DEF CharsFit
<1>5. IsText(c) /\ TextOf(c) = f.v
  BY <1>1, TextBack
<1> HIDE DEF fit, o, n, B, l
<1>6. n \in fit
  <2>1. n \in 0..(l - o)
    BY <1>3
  <2> QED  BY <1>3, <1>4, <1>5, <2>1
<1>7. ASSUME NEW s \in fit PROVE s = n
  <2> DEFINE d == Slice(B, o, s)
             t == TextOf(d)
  <2>1. s \in 0..(l - o) /\ IsText(d) /\ Len(t) = Len(f.v)
    BY <1>4
  <2>2. s \in Nat /\ o + s <= Len(B)
    BY <1>3, <2>1
  <2>3. /\ d \in Seq(Byte) /\ Len(d) = s /\ \A i \in 1..s : d[i] = B[o + i]
    <3>1. B \in Seq(Byte) /\ o \in Nat
      BY <1>3
    <3> QED  BY <2>2, <3>1, SlicePart, Zenon
  <2>4. t \in Texts /\ Utf8(t) = d
    BY <2>1, TextBack
  <2>5. \A i \in 1..n : c[i] = B[o + i]
    BY <1>2 DEF Holding, Holds, o, n, B
  <2> HIDE DEF d, t
  <2>6. t = f.v
    <3>1. CASE s <= n
      <4>1. SubSeq(c, 1, s) = d
        <5>1. \A i \in 1..s : c[i] \in Byte /\ c[i] = d[i]
          <6>1. \A i \in 1..s : i \in 1..n
            BY <1>3, <2>2, <3>1
          <6>2. \A i \in 1..n : c[i] \in Byte
            BY <1>3 DEF n
          <6> QED  BY <2>3, <2>5, <6>1, <6>2
        <5>2. SubSeq(c, 1, s) \in Seq(Byte) /\ Len(SubSeq(c, 1, s)) = s /\ \A i \in 1..s : SubSeq(c, 1, s)[i] = c[i]
          BY <1>3, <2>2, <3>1 DEF n
        <5> DEFINE x == SubSeq(c, 1, s)
        <5> HIDE DEF x
        <5>3. x \in Seq(Byte) /\ d \in Seq(Byte) /\ Len(x) = Len(d) /\ \A i \in 1..Len(x) : x[i] = d[i]
          BY <2>3, <5>1, <5>2 DEF x
        <5>4. x = d
          BY <5>3, SeqEqual
        <5> QED  BY <5>4 DEF x
      <4>2. s \in 0..Len(Utf8(f.v))
        BY <1>1, <2>2, <3>1 DEF n
      <4> QED  BY <1>1, <2>1, <2>4, <4>1, <4>2, TextBack DEF d, t
    <3>2. CASE ~(s <= n)
      <4>1. SubSeq(d, 1, n) = c
        <5>1. \A i \in 1..n : d[i] \in Byte /\ c[i] = d[i]
          <6>1. \A i \in 1..n : i \in 1..s
            BY <1>3, <2>2, <3>2
          <6>2. \A i \in 1..s : d[i] \in Byte
            BY <2>3
          <6> QED  BY <2>3, <2>5, <6>1, <6>2
        <5>2. SubSeq(d, 1, n) \in Seq(Byte) /\ Len(SubSeq(d, 1, n)) = n /\ \A i \in 1..n : SubSeq(d, 1, n)[i] = d[i]
          BY <1>3, <2>2, <2>3, <3>2
        <5> DEFINE x == SubSeq(d, 1, n)
        <5> HIDE DEF x
        <5>3. x \in Seq(Byte) /\ c \in Seq(Byte) /\ Len(x) = Len(c) /\ \A i \in 1..Len(x) : x[i] = c[i]
          BY <1>3, <5>1, <5>2 DEF x, n
        <5>4. x = c
          BY <5>3, SeqEqual
        <5> QED  BY <5>4 DEF x
      <4>2. n \in 0..Len(Utf8(t))
        BY <1>3, <2>2, <2>3, <2>4, <3>2
      <4>3. Len(f.v) = Len(t)
        BY <2>1 DEF t, d
      <4>4. f.v \in Texts /\ Utf8(f.v) = SubSeq(Utf8(t), 1, n)
        BY <1>1, <2>4, <4>1
      <4> QED  BY <2>4, <4>2, <4>3, <4>4, TextBack
    <3> QED  BY <3>1, <3>2
  <2>7. d = c
    BY <1>1, <2>4, <2>6
  <2> QED  BY <2>3, <2>7 DEF n
<1>8. fit # {} /\ (CHOOSE s \in fit : TRUE) = n
  BY <1>6, <1>7
<1>9. ReadField(b, f) = readUTF8Bytes(b, n, None)
  BY <1>1, <1>3, <1>8 DEF ReadField, readUTF8Chars, readUTF8Bytes, fit, o
<1>10. CanReadField(b, f)
  <2>1. CanGet(b, None, 0)
    <3>1. CanGet(b, None, 0) <=> o >= 0 /\ o + 0 <= Len(B)
      BY <1>3 DEF CanGet, capacity, B
    <3>2. o >= 0 /\ o + 0 <= Len(B)
      BY <1>3
    <3> QED  BY <3>1, <3>2
  <2> QED  BY <1>1, <1>3, <1>8, <2>1 DEF CanReadField, CanReadUTF8Chars, fit, o
<1> QED  BY <1>3, <1>5, <1>9, <1>10 DEF GivesBack, c

\* A string that ends with a zero: the first zero is the one behind it.
LEMMA ReadingCString ==
    ASSUME NEW f, f.k = "cstring", f.v \in Texts, \A i \in DOMAIN Utf8(f.v) : Utf8(f.v)[i] # 0,
           NEW b, Holding(b, Form(f, b.endian))
    PROVE  GivesBack(b, f, Form(f, b.endian))
<1> DEFINE c == Form(f, b.endian)
           u == Utf8(f.v)
           o == b.offset
           n == Len(u)
           B == b.bytes
           l == b.limit
           ends == CStringEnds(b, o)
<1>1. c = Append(u, 0)
  BY OtherForms
<1>2. u \in Seq(Byte) /\ n \in Nat /\ 0 \in Byte /\ (\A i \in 1..n : u[i] # 0)
  <2>1. 0 \in Byte
    BY RadixFacts DEF Byte
  <2>2. u \in Seq(Byte)
    BY TextBytes
  <2>3. DOMAIN u = 1..n
    BY <2>2
  <2> QED  BY <2>1, <2>2, <2>3
<1> HIDE DEF c, u
<1>3. Holding(b, c)
  BY DEF c
<1>4. Len(c) = n + 1 /\ c[n + 1] = 0 /\ \A i \in 1..n : c[i] = u[i]
  BY <1>1, <1>2
<1>5. /\ o \in Nat /\ l \in Nat /\ Len(B) \in Nat /\ o + Len(c) <= l /\ l <= Len(B)
      /\ At(b, None) = o /\ Slice(B, o, Len(c)) = c
      /\ Moved(b, None, o + Len(c)) = Behind(b, c)
      /\ \A i \in 1..Len(c) : B[o + i] = c[i]
  BY <1>3, HeldInside DEF Holding, Holds
<1>6. ends = {m \in 0..(l - o - 1) : B[o + m + 1] = 0 /\ \A i \in 1..m : B[o + i] # 0}
  BY DEF CStringEnds
<1> HIDE DEF ends, o, n, B, l
<1>7. B[o + n + 1] = 0 /\ \A i \in 1..n : B[o + i] # 0
  <2>1. n + 1 \in 1..Len(c) /\ o + (n + 1) = o + n + 1 /\ \A i \in 1..n : i \in 1..Len(c)
    BY <1>2, <1>4, <1>5
  <2>2. B[o + (n + 1)] = 0
    BY <1>4, <1>5, <2>1
  <2> QED  BY <1>2, <1>4, <1>5, <2>1, <2>2
<1>8. n \in ends
  <2>1. n \in 0..(l - o - 1)
    BY <1>2, <1>4, <1>5
  <2> QED  BY <1>6, <1>7, <2>1
<1>9. ASSUME NEW m \in ends PROVE m = n
  <2>1. m \in 0..(l - o - 1) /\ B[o + m + 1] = 0 /\ \A i \in 1..m : B[o + i] # 0
    BY <1>6
  <2>2. m \in Nat
    BY <2>1
  <2>3. ~(m < n)
    <3>1. SUFFICES ASSUME m < n PROVE FALSE
      OBVIOUS
    <3>2. m + 1 \in 1..n /\ o + (m + 1) = o + m + 1
      BY <1>2, <1>5, <2>2, <3>1
    <3> QED  BY <1>7, <2>1, <3>2
  <2>4. ~(n < m)
    <3>1. SUFFICES ASSUME n < m PROVE FALSE
      OBVIOUS
    <3>2. n + 1 \in 1..m /\ o + (n + 1) = o + n + 1
      BY <1>2, <1>5, <2>2, <3>1
    <3> QED  BY <1>7, <2>1, <3>2
  <2> QED  BY <1>2, <2>2, <2>3, <2>4
<1>10. ends # {} /\ (CHOOSE m \in ends : TRUE) = n
  BY <1>8, <1>9
<1>11. Front(c) = u
  <2>1. Front(c) = SubSeq(c, 1, Len(c) - 1)
    BY DEF Front
  <2>2. SubSeq(Append(u, 0), 1, n) = u
    BY <1>2 DEF n
  <2>3. Len(c) - 1 = n
    BY <1>2, <1>4
  <2> QED  BY <1>1, <2>1, <2>2, <2>3
<1>12. TextOf(u) = f.v
  BY TextBack DEF u
<1>13. ReadField(b, f) = [value |-> f.v, b |-> Behind(b, c)]
  <2>1. ReadField(b, f) = [value |-> TextOf(Front(Slice(B, o, n + 1))), b |-> Moved(b, None, o + (n + 1))]
    BY <1>5, <1>10 DEF ReadField, readCString, Get, ends, o, B
  <2> QED  BY <1>4, <1>5, <1>11, <1>12, <2>1
<1>14. CanReadField(b, f)
  <2>1. CanGet(b, None, 1)
    <3>1. CanGet(b, None, 1) <=> o >= 0 /\ o + 1 <= Len(B)
      BY <1>5 DEF CanGet, capacity, B
    <3>2. o >= 0 /\ o + 1 <= Len(B)
      BY <1>2, <1>4, <1>5
    <3> QED  BY <3>1, <3>2
  <2> QED  BY <1>5, <1>10, <2>1 DEF CanReadField, CanReadCString, ends, o
<1> QED  BY <1>13, <1>14 DEF GivesBack, c

\* A string behind its length in four bytes.
LEMMA ReadingIString ==
    ASSUME NEW f, f.k = "istring", f.v \in Texts, Len(Utf8(f.v)) < RadixTo[4],
           NEW b, Holding(b, Form(f, b.endian))
    PROVE  GivesBack(b, f, Form(f, b.endian))
<1> DEFINE c == Form(f, b.endian)
           u == Utf8(f.v)
           n == Len(u)
           o == b.offset
           B == b.bytes
           x == Ordered(Digits(n, 4), b.endian)
<1>1. c = x \o u
  BY OtherForms
<1>2. u \in Seq(Byte) /\ n \in Nat /\ TextOf(u) = f.v
  BY TextBytes, TextBack
<1>3. x \in Seq(Byte) /\ Len(x) = 4 /\ Ordered(x, b.endian) = Digits(n, 4) /\ Number(Digits(n, 4)) = n
  <2>1. n \in Int /\ 4 \in {1, 2, 4, 8} /\ Unsigned(n, 4)
    BY <1>2 DEF Unsigned
  <2> HIDE DEF n
  <2> QED  BY <2>1, NumberBytes, NumbersBack
<1> HIDE DEF c, x, u
<1>4. Holding(b, c)
  BY DEF c
<1>5. /\ o \in Nat /\ B \in Seq(Byte) /\ At(b, None) = o /\ Holds(B, o, c) /\ Len(B) \in Nat
      /\ o + Len(c) <= Len(B) /\ Moved(b, None, o + Len(c)) = Behind(b, c)
      /\ CanGet(b, None, Len(c))
  BY <1>4, HeldInside DEF Holding, Holds
<1>6. Len(c) = 4 + n
  <2>1. Len(x \o u) = Len(x) + Len(u)
    BY <1>2, <1>3, ConcatProperties
  <2> QED  BY <1>1, <1>3, <2>1
<1>7. Holds(B, o, x) /\ Holds(B, o + 4, u)
  <2> HIDE DEF o, B
  <2> QED  BY <1>1, <1>2, <1>3, <1>5, HoldsBoth
<1>8. o + 4 \in Nat
  BY <1>5
<1>9. Slice(B, o, 4) = x /\ Slice(B, o + 4, n) = u
  <2> DEFINE at == o + 4
  <2> HIDE DEF o, B, at
  <2>1. at \in Nat /\ Holds(B, at, u)
    BY <1>7, <1>8 DEF at
  <2>2. Slice(B, o, Len(x)) = x /\ Slice(B, at, Len(u)) = u
    BY <1>2, <1>3, <1>5, <1>7, <2>1, SliceHeld
  <2> QED  BY <1>3, <2>2 DEF at, n
<1> HIDE DEF n
<1>10. At(b, o) = o /\ At(b, o + 4) = o + 4 /\ (CanGet(b, o + 4, n) <=> o + 4 + n <= Len(B))
  BY <1>4, <1>5, <1>8, HeldInside
<1>11. readUint32(b, o).value = n
  <2>1. readUint32(b, o).value = Number(Ordered(Slice(B, o, 4), b.endian))
    BY <1>10 DEF readUint32, GetUnsigned, Get
  <2> QED  BY <1>3, <1>9, <2>1
<1>12. readUTF8Bytes(b, n, o + 4).value = f.v
  <2>1. readUTF8Bytes(b, n, o + 4).value = TextOf(Slice(B, o + 4, n))
    BY <1>10 DEF readUTF8Bytes, Get
  <2> QED  BY <1>2, <1>9, <2>1
<1>13. ReadField(b, f).value = f.v /\ ReadField(b, f).b = Behind(b, c)
  <2>1. ReadField(b, f) = readIString(b, None)
    BY DEF ReadField
  <2>2. readIString(b, None) = [value |-> readUTF8Bytes(b, readUint32(b, o).value, o + 4).value,
                                b |-> Moved(b, None, o + 4 + readUint32(b, o).value)]
    <3>1. At(b, None) = o
      BY <1>5
    <3> HIDE DEF o
    <3> QED  BY <3>1 DEF readIString
  <2>3. o + 4 + n = o + Len(c)
    BY <1>2, <1>5, <1>6
  <2> QED  BY <1>5, <1>11, <1>12, <2>1, <2>2, <2>3
<1>14. CanReadField(b, f)
  <2> DEFINE N == Len(B)
             m == Len(c)
  <2>1. o \in Nat /\ n \in Nat /\ N \in Nat /\ m = 4 + n /\ o + m <= N
    BY <1>2, <1>5, <1>6 DEF n
  <2>2. (CanGet(b, None, 4) <=> o >= 0 /\ o + 4 <= N) /\ (CanGet(b, o + 4, n) <=> o + 4 + n <= N)
    BY <1>5, <1>10 DEF CanGet, capacity
  <2> HIDE DEF o, N, m
  <2>3. CanGet(b, None, 4) /\ CanGet(b, o + 4, n)
    BY <2>1, <2>2
  <2> QED  BY <1>5, <1>11, <2>3 DEF CanReadField, CanReadIString, o
<1> QED  BY <1>13, <1>14 DEF GivesBack, c

\* A string behind its length as a varint.
LEMMA ReadingVString ==
    ASSUME NEW f, f.k = "vstring", f.v \in Texts, 2 * Len(Utf8(f.v)) < Word,
           NEW b, Holding(b, Form(f, b.endian))
    PROVE  GivesBack(b, f, Form(f, b.endian))
<1> DEFINE c == Form(f, b.endian)
           u == Utf8(f.v)
           n == Len(u)
           o == b.offset
           B == b.bytes
           x == Varint32(n)
           p == Len(x)
<1>1. c = x \o u
  BY OtherForms
<1>2. u \in Seq(Byte) /\ n \in Nat /\ TextOf(u) = f.v /\ 2 * n < Word
  BY TextBytes, TextBack
<1> HIDE DEF c, u
<1>3. x \in Seq(Byte) /\ p \in 1..5
  <2>1. n \in Int
    BY <1>2
  <2> HIDE DEF n
  <2> QED  BY <2>1, VarintBytesType
<1>4. Holding(b, c)
  BY DEF c
<1>5. /\ b \in ByteBuffers /\ o \in Nat /\ B \in Seq(Byte) /\ At(b, None) = o /\ Holds(B, o, c)
      /\ Len(B) \in Nat /\ b.limit \in Nat /\ b.limit <= Len(B)
      /\ o + Len(c) <= b.limit /\ Moved(b, None, o + Len(c)) = Behind(b, c)
  BY <1>4, HeldInside DEF Holding
<1> HIDE DEF x, p
<1>6. Len(c) = p + n
  BY <1>1, <1>2, <1>3, ConcatProperties DEF p
<1>7. Holds(B, o, x) /\ Holds(B, o + p, u)
  <2> HIDE DEF o, B
  <2> QED  BY <1>1, <1>2, <1>3, <1>5, HoldsBoth DEF p
<1> HIDE DEF n
<1>8. o + p \in Nat /\ o + p <= b.limit /\ o + p + n = o + Len(c) /\ o + p + n <= Len(B)
  <2> DEFINE l == b.limit
             N == Len(B)
             m == Len(c)
  <2>1. o \in Nat /\ p \in Nat /\ n \in Nat /\ l \in Nat /\ N \in Nat /\ m = p + n /\ o + m <= l /\ l <= N
    BY <1>2, <1>3, <1>5, <1>6
  <2> HIDE DEF l, N, m, o
  <2>2. o + p \in Nat /\ o + p <= l /\ o + p + n = o + m /\ o + p + n <= N
    BY <2>1
  <2> QED  BY <2>2 DEF l, m, N
<1>9. Slice(B, o + p, n) = u
  <2> DEFINE at == o + p
  <2>1. at \in Nat /\ Holds(B, at, u)
    BY <1>7, <1>8
  <2> HIDE DEF o, B, at
  <2>2. Slice(B, at, Len(u)) = u
    BY <1>2, <1>5, <2>1, SliceHeld
  <2> QED  BY <2>2 DEF at, n
<1>10. At(b, o) = o /\ At(b, o + p) = o + p /\ (CanGet(b, o + p, n) <=> o + p + n <= Len(B))
  BY <1>4, <1>5, <1>8, HeldInside
<1>11. SignedWord(n % Word) = n
  <2> DEFINE W == Word
  <2>1. W \in Nat /\ W > 0 /\ 2 * n < W
    BY <1>2, WordBack
  <2> HIDE DEF W
  <2>2. SignedIn(n, W)
    BY <1>2, <2>1 DEF SignedIn
  <2> QED  BY <1>2, <2>2, WordBack DEF W
<1>12. ASSUME NEW place, At(b, place) = o
       PROVE  CanReadVarint32(b, place) /\ readVarint32(b, place).value = n /\ readVarint32(b, place).length = p
  <2>1. /\ CanReadVarint32(b, place)
        /\ readVarint32(b, place) = [value |-> SignedWord(n % Word), length |-> p, b |-> Moved(b, place, o + p)]
    <3> DEFINE y == Varint32(n)
    <3>1. n \in Int /\ b \in ByteBuffers /\ o \in Nat /\ Holds(b.bytes, o, y) /\ o + Len(y) <= b.limit
          /\ b.limit <= Len(b.bytes)
      BY <1>2, <1>5, <1>7, <1>8 DEF x, p
    <3> HIDE DEF o
    <3>2. /\ CanReadVarint32(b, place)
          /\ readVarint32(b, place) = [value |-> SignedWord(n % Word), length |-> Len(y),
                                        b |-> Moved(b, place, o + Len(y))]
      BY <1>12, <3>1, ReadingVarint32
    <3> QED  BY <3>2 DEF x, p
  <2> QED  BY <1>11, <2>1
<1>13. readUTF8Bytes(b, n, o + p).value = f.v
  <2>1. readUTF8Bytes(b, n, o + p).value = TextOf(Slice(B, o + p, n))
    BY <1>10 DEF readUTF8Bytes, Get
  <2> QED  BY <1>2, <1>9, <2>1
<1> DEFINE count == readVarint32(b, o)
<1>14. count.value = n /\ count.length = p /\ CanReadVarint32(b, None)
  BY <1>5, <1>10, <1>12
<1> HIDE DEF count
<1>15. ReadField(b, f).value = f.v /\ ReadField(b, f).b = Behind(b, c)
  <2>1. ReadField(b, f) = [value |-> readUTF8Bytes(b, count.value, o + count.length).value,
                           b |-> Moved(b, None, o + count.length + count.value)]
    BY <1>5 DEF ReadField, readVString, count
  <2> QED  BY <1>5, <1>8, <1>13, <1>14, <2>1
<1>16. CanReadField(b, f)
  <2>1. CanReadField(b, f) <=> CanReadVarint32(b, None) /\ CanGet(b, o + count.length, count.value)
    BY <1>5 DEF CanReadField, CanReadVString, count
  <2> QED  BY <1>8, <1>10, <1>14, <2>1
<1> QED  BY <1>15, <1>16 DEF GivesBack, c

\* Every field that a buffer holds in front of its limit is read as it was written.
LEMMA ReadingField ==
    ASSUME NEW f, CanHold(f), NEW b, Holding(b, Form(f, b.endian))
    PROVE  GivesBack(b, f, Form(f, b.endian))
<1>1. CASE f.k \in SignedKinds \cup UnsignedKinds
  BY <1>1, ReadingNumber
<1>2. CASE f.k \in {"float32", "float64"} /\ f.v \in Seq(Byte) /\ Len(f.v) = FloatWidth(f.k)
  BY <1>2, ReadingFloat
<1>3. CASE f.k \in {"varint32", "zigzag32"} /\ SignedIn(f.v, Word)
  BY <1>3, ReadingWord
<1>4. CASE f.k \in {"varint64", "zigzag64"} /\ SignedIn(f.v, Word * Word)
  BY <1>4, ReadingLong
<1>5. CASE f.k = "bits" /\ f.v \in Seq(BOOLEAN) /\ 2 * Len(f.v) < Word
  BY <1>5, ReadingBits
<1>6. CASE f.k \in {"utf8", "chars"} /\ f.v \in Texts
  BY <1>6, ReadingUtf8, ReadingChars
<1>7. CASE f.k = "cstring" /\ f.v \in Texts /\ \A i \in DOMAIN Utf8(f.v) : Utf8(f.v)[i] # 0
  BY <1>7, ReadingCString
<1>8. CASE f.k = "istring" /\ f.v \in Texts /\ Len(Utf8(f.v)) < RadixTo[4]
  BY <1>8, ReadingIString
<1>9. CASE f.k = "vstring" /\ f.v \in Texts /\ 2 * Len(Utf8(f.v)) < Word
  BY <1>9, ReadingVString
<1> QED  BY <1>1, <1>2, <1>3, <1>4, <1>5, <1>6, <1>7, <1>8, <1>9, StreamKinds
-------------------------------------------------------------------------------
(* A field that did not arrive in full *)

\* b has the first n bytes of c and no others.
HasFirst(b, c, n) ==
    /\ b \in ByteBuffers /\ b.offset = 0 /\ b.limit = n /\ Len(b.bytes) = n
    /\ c \in Seq(Byte) /\ n \in Nat /\ n < Len(c) /\ \A i \in 1..n : b.bytes[i] = c[i]

\* What can be said of such a buffer.
LEMMA FirstBytes ==
    ASSUME NEW b, NEW c, NEW n, HasFirst(b, c, n)
    PROVE  /\ b.bytes \in Seq(Byte) /\ n \in Nat /\ Len(c) \in Nat /\ At(b, None) = 0
           /\ \A at \in Nat, m \in Nat : At(b, at) = at /\ (CanGet(b, at, m) => at + m <= n)
           /\ \A m \in Nat : CanGet(b, None, m) => m <= n
<1>1. b.bytes \in Seq(Byte) /\ n \in Nat /\ Len(c) \in Nat /\ b.offset = 0 /\ Len(b.bytes) = n
  BY DEF HasFirst, ByteBuffers
<1>2. At(b, None) = 0
  BY <1>1 DEF At
<1>3. \A at \in Nat : At(b, at) = at
  BY DEF At, None
<1> QED  BY <1>1, <1>2, <1>3 DEF CanGet, capacity

\* A text whose bytes are counted asks for more than there are.
LEMMA CutUtf8 ==
    ASSUME NEW f, f.k = "utf8", f.v \in Texts, NEW b, NEW e, NEW n, HasFirst(b, Form(f, e), n)
    PROVE  ~CanReadField(b, f)
<1>1. Form(f, e) = Utf8(f.v) /\ Len(Utf8(f.v)) \in Nat /\ n < Len(Utf8(f.v)) /\ n \in Nat
  BY OtherForms, TextBytes DEF HasFirst
<1>2. CanReadField(b, f) <=> CanGet(b, None, Len(Utf8(f.v)))
  BY DEF CanReadField, calculateUTF8Bytes
<1>3. CanGet(b, None, Len(Utf8(f.v))) => Len(Utf8(f.v)) <= n
  BY <1>1, FirstBytes
<1> QED  BY <1>1, <1>2, <1>3

\* A text whose characters are counted: no beginning of it has as many.
LEMMA CutChars ==
    ASSUME NEW f, f.k = "chars", f.v \in Texts, NEW b, NEW e, NEW n, HasFirst(b, Form(f, e), n)
    PROVE  ~CanReadField(b, f)
<1> DEFINE u == Utf8(f.v)
           B == b.bytes
<1>1. Form(f, e) = u /\ u \in Seq(Byte) /\ Len(u) \in Nat /\ n \in Nat /\ n < Len(u)
      /\ b.limit = n /\ B \in Seq(Byte) /\ Len(B) = n /\ \A i \in 1..n : B[i] = u[i]
  BY OtherForms, TextBytes DEF HasFirst, ByteBuffers
<1>2. CanReadField(b, f) => CharsFit(b, 0, Len(f.v)) # {}
  BY FirstBytes DEF CanReadField, CanReadUTF8Chars, calculateUTF8Chars
<1>3. ASSUME NEW s \in CharsFit(b, 0, Len(f.v)) PROVE FALSE
  <2> DEFINE d == Slice(B, 0, s)
             t == TextOf(d)
  <2>1. s \in 0..(n - 0) /\ IsText(d) /\ Len(t) = Len(f.v)
    BY <1>1, <1>3 DEF CharsFit
  <2> HIDE DEF u, B
  <2>2. s \in Nat /\ s <= n
    BY <1>1, <2>1
  <2>3. d = SubSeq(B, 1, s)
    BY <2>2 DEF Slice
  <2>4. d \in Seq(Byte) /\ Len(d) = s /\ \A i \in 1..s : d[i] = B[i]
    BY <1>1, <2>2, <2>3
  <2>5. SubSeq(u, 1, s) \in Seq(Byte) /\ Len(SubSeq(u, 1, s)) = s /\ \A i \in 1..s : SubSeq(u, 1, s)[i] = u[i]
    BY <1>1, <2>2
  <2> DEFINE x == SubSeq(u, 1, s)
  <2> HIDE DEF x, d
  <2>6. x = d
    <3>1. \A i \in 1..s : i \in 1..n
      BY <1>1, <2>2
    <3>2. \A i \in 1..s : x[i] = d[i]
      BY <1>1, <2>4, <2>5, <3>1 DEF x
    <3>3. x \in Seq(Byte) /\ Len(x) = s
      BY <2>5 DEF x
    <3> QED  BY <2>4, <3>2, <3>3, SeqEqual
  <2>7. t \in Texts /\ Utf8(t) = d
    BY <2>1, TextBack
  <2>8. s \in 0..Len(u)
    BY <1>1, <2>2
  <2> HIDE DEF t
  <2>9. t = f.v
    BY <2>1, <2>6, <2>7, <2>8, TextBack DEF x, u
  <2>10. Len(u) = s
    BY <2>4, <2>7, <2>9 DEF u
  <2> QED  BY <1>1, <2>2, <2>10
<1> QED  BY <1>2, <1>3

\* A text that ends with a zero: there is none.
LEMMA CutCString ==
    ASSUME NEW f, f.k = "cstring", f.v \in Texts, \A i \in DOMAIN Utf8(f.v) : Utf8(f.v)[i] # 0,
           NEW b, NEW e, NEW n, HasFirst(b, Form(f, e), n)
    PROVE  ~CanReadField(b, f)
<1> DEFINE u == Utf8(f.v)
           N == Len(u)
           c == Form(f, e)
           B == b.bytes
<1>1. u \in Seq(Byte) /\ N \in Nat /\ c = Append(u, 0) /\ \A i \in 1..N : u[i] # 0
  <2>1. u \in Seq(Byte)
    BY TextBytes
  <2>2. DOMAIN u = 1..N /\ N \in Nat
    BY <2>1
  <2>3. \A i \in 1..N : u[i] # 0
    BY <2>2
  <2>4. c = Append(u, 0)
    BY OtherForms
  <2> HIDE DEF u, c
  <2> QED  BY <2>1, <2>2, <2>3, <2>4
<1> HIDE DEF u
<1>2. Len(c) = N + 1 /\ \A i \in 1..N : c[i] = u[i]
  <2> HIDE DEF c
  <2> QED  BY <1>1
<1>3. b.limit = n /\ n \in Nat /\ n < Len(c) /\ \A i \in 1..n : B[i] = c[i]
  BY DEF HasFirst
<1> HIDE DEF c, N, B
<1>4. \A i \in 1..n : B[i] # 0
  <2>1. \A i \in 1..n : i \in 1..N
    BY <1>1, <1>2, <1>3
  <2> QED  BY <1>1, <1>2, <1>3, <2>1
<1>5. CanReadField(b, f) => CStringEnds(b, 0) # {}
  BY FirstBytes DEF CanReadField, CanReadCString
<1>6. ASSUME NEW m \in CStringEnds(b, 0) PROVE FALSE
  <2>1. m \in 0..(n - 0 - 1) /\ B[0 + m + 1] = 0
    BY <1>3, <1>6 DEF CStringEnds, B
  <2>2. m + 1 \in 1..n /\ 0 + m + 1 = m + 1
    BY <1>3, <2>1
  <2> QED  BY <1>4, <2>1, <2>2
<1> QED  BY <1>5, <1>6

\* A text behind its length: the length did not arrive, or the text did not.
LEMMA CutIString ==
    ASSUME NEW f, f.k = "istring", f.v \in Texts, Len(Utf8(f.v)) < RadixTo[4],
           NEW b, NEW n, HasFirst(b, Form(f, b.endian), n)
    PROVE  ~CanReadField(b, f)
<1> DEFINE c == Form(f, b.endian)
           u == Utf8(f.v)
           L == Len(u)
           x == Ordered(Digits(L, 4), b.endian)
           B == b.bytes
<1>1. c = x \o u /\ u \in Seq(Byte) /\ L \in Nat
  BY OtherForms, TextBytes
<1>2. x \in Seq(Byte) /\ Len(x) = 4 /\ Ordered(x, b.endian) = Digits(L, 4) /\ Number(Digits(L, 4)) = L
  <2>1. L \in Int /\ 4 \in {1, 2, 4, 8} /\ Unsigned(L, 4)
    BY <1>1 DEF Unsigned
  <2> HIDE DEF L
  <2> QED  BY <2>1, NumberBytes, NumbersBack
<1> HIDE DEF c, x, u
<1>3. Len(c) = 4 + L /\ \A i \in 1..4 : c[i] = x[i]
  <2>1. /\ Len(x \o u) = Len(x) + Len(u)
        /\ \A i \in 1..(Len(x) + Len(u)) : (x \o u)[i] = IF i <= Len(x) THEN x[i] ELSE u[i - Len(x)]
    BY <1>1, <1>2, ConcatProperties
  <2> HIDE DEF L
  <2>2. \A i \in 1..4 : i \in 1..(4 + L) /\ i <= 4
    BY <1>1
  <2> QED  BY <1>1, <1>2, <2>1, <2>2 DEF L
<1>4. n \in Nat /\ n < Len(c) /\ Len(B) = n /\ B \in Seq(Byte) /\ \A i \in 1..n : B[i] = c[i]
  BY DEF HasFirst, ByteBuffers, c
<1> HIDE DEF L, B
<1>5. SUFFICES ASSUME CanReadField(b, f) PROVE FALSE
  OBVIOUS
<1> DEFINE l == readUint32(b, 0).value
<1>6. CanGet(b, None, 4) /\ CanGet(b, 0 + 4, l)
  BY <1>5, FirstBytes DEF CanReadField, CanReadIString
<1>7. 4 <= n
  BY <1>6, FirstBytes DEF c
<1>8. Slice(B, 0, 4) = x
  <2>1. Holds(B, 0, x)
    <3>1. \A i \in 1..4 : i \in 1..n /\ 0 + i = i
      BY <1>4, <1>7
    <3>2. \A i \in 1..4 : B[0 + i] = x[i]
      BY <1>3, <1>4, <3>1
    <3>3. 0 + Len(x) <= Len(B)
      BY <1>2, <1>4, <1>7
    <3> QED  BY <1>2, <3>2, <3>3 DEF Holds
  <2> QED  BY <1>2, <1>4, <2>1, SliceHeld
<1>9. l = L
  <2>1. At(b, 0) = 0
    BY FirstBytes
  <2>2. l = Number(Ordered(Slice(B, 0, 4), b.endian))
    BY <2>1 DEF readUint32, GetUnsigned, Get, B
  <2> QED  BY <1>2, <1>8, <2>2
<1> HIDE DEF l
<1>10. 4 + L <= n
  <2>1. 0 + 4 = 4 /\ 4 \in Nat
    OBVIOUS
  <2> QED  BY <1>1, <1>6, <1>9, <2>1, FirstBytes DEF c
<1> QED  BY <1>1, <1>3, <1>4, <1>10

\* A number of less than five groups is not negative as a word.
LEMMA ShortVarint ==
    ASSUME NEW n \in 0..4, NEW v \in Nat, v < HalfTo[n]
    PROVE  SignedWord(v) = v
<1> DEFINE W == Word
           p == HalfTo[4]
           q == HalfTo[n]
<1>1. p \in Nat /\ p > 0 /\ q \in Nat /\ q <= p
  <2>1. HalfTo[0] \in Nat /\ HalfTo[1] \in Nat /\ HalfTo[2] \in Nat /\ HalfTo[3] \in Nat /\ p \in Nat /\ p > 0
    <3>1. 0 \in 0..10 /\ 1 \in 0..10 /\ 2 \in 0..10 /\ 3 \in 0..10 /\ 4 \in 0..10
      OBVIOUS
    <3> QED  BY <3>1, HalfSteps
  <2>2. \A a \in Nat : a <= Half * a
    <3> DEFINE h == Half
    <3>1. h \in Nat /\ h >= 2
      BY ByteFacts
    <3> HIDE DEF h
    <3>2. ASSUME NEW a \in Nat PROVE a <= h * a
      <4>1. h * a = a + (h - 1) * a /\ (h - 1) * a >= 0
        BY <3>1
      <4> DEFINE x == h * a
                 y == (h - 1) * a
      <4>2. x \in Int /\ y \in Int /\ x = a + y /\ y >= 0
        BY <3>1, <4>1
      <4> HIDE DEF x, y
      <4>3. a <= x
        BY <4>2
      <4> QED  BY <4>3 DEF x
    <3> QED  BY <3>2 DEF h
  <2>3. HalfTo[0] <= HalfTo[1] /\ HalfTo[1] <= HalfTo[2] /\ HalfTo[2] <= HalfTo[3] /\ HalfTo[3] <= p
    <3>1. HalfTo[1] = Half * HalfTo[0] /\ HalfTo[2] = Half * HalfTo[1] /\ HalfTo[3] = Half * HalfTo[2]
          /\ p = Half * HalfTo[3]
      <4>1. 1 \in 1..10 /\ 1 - 1 = 0
        OBVIOUS
      <4>2. HalfTo[1] = Half * HalfTo[1 - 1]
        BY <4>1, HalfSteps
      <4> QED  BY <4>1, <4>2, HalfSteps
    <3> HIDE DEF p
    <3> QED  BY <2>1, <2>2, <3>1
  <2> HIDE DEF p
  <2>4. n = 0 \/ n = 1 \/ n = 2 \/ n = 3 \/ (n = 4 /\ q = p)
    BY DEF p
  <2> QED  BY <2>1, <2>3, <2>4
<1>2. W \in Nat /\ 2 * p <= W
  <2>1. W \in Nat /\ p < W
    BY WordFacts
  <2>2. PICK c \in Nat \ {0} : W = p * c
    BY WordFacts
  <2> HIDE DEF W, p
  <2>3. c # 1
    BY <1>1, <2>1, <2>2
  <2>4. c - 2 \in Nat
    BY <2>3
  <2>5. p * c = 2 * p + p * (c - 2) /\ p * (c - 2) >= 0
    BY <1>1, <2>4
  <2> DEFINE x == p * (c - 2)
  <2>6. x >= 0 /\ x \in Int /\ W = 2 * p + x
    BY <1>1, <2>2, <2>4, <2>5
  <2> HIDE DEF x
  <2> QED  BY <1>1, <2>1, <2>6
<1> HIDE DEF W, p, q
<1>3. v \in Nat /\ 2 * v < W
  <2>1. v < q
    BY DEF q
  <2> QED  BY <1>1, <1>2, <2>1
<1>4. SignedIn(v, W) /\ v % W = v
  <2>1. v = W * 0 + v /\ v \in 0..(W - 1) /\ 0 \in Int /\ v \in Int /\ W > 0
    BY <1>2, <1>3
  <2>2. v % W = v
    BY <1>2, <2>1, Quotient
  <2> QED  BY <1>2, <1>3, <2>1, <2>2 DEF SignedIn
<1>5. SignedWord(v % W) = v
  BY <1>3, <1>4, WordBack DEF W
<1> QED  BY <1>4, <1>5

\* A varint that ends before its last group: the zero that & makes of the byte behind the end
\* ends it, one group short of what there is.
LEMMA CutVarint ==
    ASSUME NEW b, b.bytes \in Seq(Byte), NEW v \in Int, Len(b.bytes) < Len(Varint32(v)),
           \A i \in 1..Len(b.bytes) : b.bytes[i] = Varint32(v)[i]
    PROVE  readVarint32(b, 0).length = Len(b.bytes) + 1 /\ readVarint32(b, 0).value \in Nat
<1> DEFINE B == b.bytes
           n == Len(B)
           x == Varint32(v)
           w == v % Word
           m == n + 1
           bs == VarintBytes(b, 0)
<1>1. IsVarint(x, w, 5) /\ w \in Nat /\ 5 \in 1..10 /\ x \in Seq(Byte) /\ Len(x) \in 1..5
  BY Varint32Is, VarintBytesType
<1>2. n \in 0..4 /\ m \in 1..5 /\ n < Len(x)
  <2> DEFINE p == Len(x)
  <2>1. n \in Nat /\ p \in 1..5 /\ n < p
    BY <1>1
  <2> HIDE DEF n, p
  <2>2. n \in 0..4 /\ m \in 1..5
    BY <2>1
  <2> QED  BY <2>1, <2>2 DEF p
<1> HIDE DEF x, w
<1>3. \A i \in 1..n : x[i] \in Nat /\ x[i] >= Half /\ B[i] = x[i]
  <2>1. \A i \in 1..Len(x) : x[i] \in Nat /\ (i < Len(x) => x[i] >= Half)
    BY <1>1, VarintShape
  <2> DEFINE p == Len(x)
  <2>2. p \in 1..5
    BY <1>1
  <2> HIDE DEF p
  <2>3. \A i \in 1..n : i \in 1..p /\ i < p
    BY <1>2, <2>2 DEF p
  <2> QED  BY <2>1, <2>3 DEF p, x
<1>4. \A i \in 1..n : ByteAt(b, 0 + i - 1) = B[i]
  <2>1. Holds(B, 0, B)
    <3>1. 0 + n <= n /\ \A i \in 1..n : B[0 + i] = B[i]
      BY <1>2
    <3> QED  BY <3>1 DEF Holds
  <2> QED  BY <2>1, ByteAtHeld
<1>5. ByteAt(b, 0 + m - 1) = 0
  <2>1. 0 + m - 1 = n /\ ~(n < n)
    BY <1>2
  <2> DEFINE k == 0 + m - 1
  <2>2. k = n
    BY <2>1
  <2> HIDE DEF k
  <2>3. ByteAt(b, k) = 0
    BY <2>1, <2>2 DEF ByteAt, capacity
  <2> QED  BY <2>3 DEF k
<1>6. Half \in Nat /\ Half > 0
  <2> DEFINE h == Half
  <2>1. h \in Nat /\ h >= 2
    BY ByteFacts
  <2> HIDE DEF h
  <2>2. h \in Nat /\ h > 0
    BY <2>1
  <2> QED  BY <2>2 DEF h
<1>7. bs = [i \in 1..m |-> ByteAt(b, 0 + i - 1)]
  <2>1. 0 \in Nat /\ n \in Nat /\ m \in 1..(n + 1) /\ m - 1 = n
    BY <1>2
  <2>2. ByteAt(b, 0 + m - 1) < Half /\ ByteAt(b, 0 + m - 1) \in Nat
    BY <1>5, <1>6
  <2>3. \A i \in 1..(m - 1) : ByteAt(b, 0 + i - 1) \in Nat /\ ByteAt(b, 0 + i - 1) >= Half
    BY <1>3, <1>4, <2>1
  <2> HIDE DEF m
  <2> QED  BY <2>1, <2>2, <2>3, VarintBytesAre
<1> HIDE DEF bs, m
<1>8. m = n + 1
  BY DEF m
<1>9. \A i \in 1..m : ByteAt(b, 0 + i - 1) \in Nat
  <2>1. \A i \in 1..m : i \in 1..n \/ i = m
    BY <1>2, <1>8
  <2> QED  BY <1>3, <1>4, <1>5, <2>1
<1>10. bs \in Seq(Nat) /\ Len(bs) = m /\ bs[m] = 0
  <2>1. m \in Nat /\ m \in 1..m
    BY <1>2
  <2>2. bs \in [1..m -> Nat]
    BY <1>7, <1>9
  <2>3. bs[m] = ByteAt(b, 0 + m - 1)
    BY <1>7, <2>1
  <2> QED  BY <1>5, <2>1, <2>2, <2>3
<1> DEFINE d == [i \in 1..m |-> bs[i] % Half]
<1>11. d \in [1..m -> 0..(Half - 1)] /\ (\A i \in 1..m : d[i] = bs[i] % Half) /\ d[m] = 0
  <2>1. \A i \in 1..m : bs[i] \in Nat
    BY <1>10
  <2>2. \A i \in 1..m : bs[i] % Half \in 0..(Half - 1)
    <3> DEFINE h == Half
    <3> HIDE DEF h
    <3>1. h \in Nat /\ h > 0
      BY <1>6 DEF h
    <3>2. \A i \in 1..m : bs[i] % h \in 0..(h - 1)
      BY <2>1, <3>1
    <3> QED  BY <3>2 DEF h
  <2>3. m \in 1..m /\ 0 % Half = 0
    <3> DEFINE h == Half
    <3> HIDE DEF h
    <3>1. h \in Nat /\ h > 0
      BY <1>6 DEF h
    <3>2. 0 % h = 0
      BY <3>1
    <3> QED  BY <1>2, <3>2 DEF h
  <2> QED  BY <1>10, <2>2, <2>3
<1> HIDE DEF d
<1>12. PICK s : AddsUp(s, d, HalfTo, m) /\ Ungrouped(bs, 5) = s[m]
  <2> DEFINE five == 5
  <2>1. five \in 1..10 /\ m <= five
    BY <1>2
  <2> HIDE DEF five
  <2>2. \E s : AddsUp(s, d, HalfTo, m) /\ Ungrouped(bs, five) = s[m]
    BY <1>10, <1>11, <2>1, UngroupedSum
  <2> QED  BY <2>2 DEF five
<1>13. s[n] \in Nat /\ s[n] < HalfTo[n]
  <2>1. Half \in Nat \ {0} /\ 10 \in Nat /\ m \in 0..10 /\ n \in 0..m
    BY <1>2, <1>6, <1>8
  <2>2. \A k \in 0..m : s[k] < HalfTo[k]
    <3> DEFINE h == Half
               ten == 10
    <3>1. h \in Nat \ {0} /\ ten \in Nat /\ m \in 0..ten /\ PowersUpTo(HalfTo, h, ten)
          /\ d \in [1..m -> 0..(h - 1)] /\ AddsUp(s, d, HalfTo, m)
      BY <1>11, <1>12, <2>1, HalfPowers
    <3> HIDE DEF h, ten
    <3> QED  BY <3>1, SumBelow
  <2>3. s[n] \in Nat
    BY <1>12, <2>1 DEF AddsUp
  <2> QED  BY <2>1, <2>2, <2>3
<1>14. s[m] = s[n]
  <2>1. m \in 1..m /\ m - 1 = n /\ n \in 0..10
    BY <1>2, <1>8
  <2>2. s[m] = s[m - 1] + d[m] * HalfTo[m - 1]
    BY <1>12, <2>1 DEF AddsUp
  <2>3. HalfTo[n] \in Nat
    BY <2>1, HalfSteps
  <2> QED  BY <1>11, <1>13, <2>1, <2>2, <2>3
<1>15. SignedWord(s[n]) = s[n]
  <2> DEFINE y == s[n]
  <2>1. y \in Nat /\ y < HalfTo[n]
    BY <1>13
  <2> HIDE DEF y, n
  <2>2. SignedWord(y) = y
    BY <1>2, <2>1, ShortVarint
  <2> QED  BY <2>2 DEF y
<1>16. At(b, 0) = 0
  BY DEF At, None
<1>17. readVarint32(b, 0).value = s[n] /\ readVarint32(b, 0).length = m
  BY <1>10, <1>12, <1>14, <1>15, <1>16 DEF readVarint32, bs
<1> QED  BY <1>8, <1>13, <1>17

\* A text behind its length as a varint: the length did not arrive, or the text did not.
LEMMA CutVString ==
    ASSUME NEW f, f.k = "vstring", f.v \in Texts, 2 * Len(Utf8(f.v)) < Word,
           NEW b, NEW e, NEW n, HasFirst(b, Form(f, e), n)
    PROVE  ~CanReadField(b, f)
<1> DEFINE c == Form(f, e)
           u == Utf8(f.v)
           L == Len(u)
           x == Varint32(L)
           p == Len(x)
           B == b.bytes
<1>1. c = x \o u /\ u \in Seq(Byte) /\ L \in Nat /\ L \in Int /\ 2 * L < Word
  BY OtherForms, TextBytes
<1> HIDE DEF u
<1>2. x \in Seq(Byte) /\ p \in 1..5
  <2> HIDE DEF L
  <2> QED  BY <1>1, VarintBytesType
<1> HIDE DEF x, c
<1>3. Len(c) = p + L /\ \A i \in 1..p : c[i] = x[i]
  <2>1. /\ Len(x \o u) = Len(x) + Len(u)
        /\ \A i \in 1..(Len(x) + Len(u)) : (x \o u)[i] = IF i <= Len(x) THEN x[i] ELSE u[i - Len(x)]
    BY <1>1, <1>2, ConcatProperties
  <2>2. Len(c) = p + L /\ \A i \in 1..(p + L) : c[i] = IF i <= p THEN x[i] ELSE u[i - p]
    BY <1>1, <2>1
  <2> HIDE DEF L, p
  <2>3. \A i \in 1..p : i \in 1..(p + L) /\ i <= p
    BY <1>1, <1>2
  <2> QED  BY <2>2, <2>3
<1>4. n \in Nat /\ n < Len(c) /\ Len(B) = n /\ B \in Seq(Byte) /\ b \in ByteBuffers /\ b.limit = n
      /\ \A i \in 1..n : B[i] = c[i]
  BY DEF HasFirst, ByteBuffers, c
<1> HIDE DEF L, B, p
<1>5. SUFFICES ASSUME CanReadField(b, f) PROVE FALSE
  OBVIOUS
<1> DEFINE r == readVarint32(b, 0)
<1>6. CanGet(b, 0 + r.length, r.value)
  BY <1>5, FirstBytes DEF CanReadField, CanReadVString, c
<1>7. \A at \in Nat, k \in Nat : CanGet(b, at, k) => at + k <= n
  BY FirstBytes DEF c
<1> HIDE DEF r
<1>8. CASE p <= n
  <2>1. Holds(B, 0, x)
    <3>1. \A i \in 1..p : i \in 1..n /\ 0 + i = i
      BY <1>2, <1>4, <1>8
    <3>2. \A i \in 1..p : B[0 + i] = x[i]
      BY <1>3, <1>4, <3>1
    <3>3. 0 + p <= Len(B)
      BY <1>2, <1>4, <1>8
    <3> QED  BY <3>2, <3>3 DEF Holds, p
  <2>2. SignedWord(L % Word) = L
    <3> DEFINE W == Word
    <3>1. W \in Nat /\ W > 0 /\ 2 * L < W
      BY <1>1, WordBack
    <3> HIDE DEF W
    <3>2. SignedIn(L, W)
      BY <1>1, <3>1 DEF SignedIn
    <3> QED  BY <1>1, <3>2, WordBack DEF W
  <2>3. r.value = L /\ r.length = p
    <3> DEFINE y == Varint32(L)
    <3>1. At(b, 0) = 0 /\ 0 \in Nat /\ L \in Int /\ Holds(b.bytes, 0, y) /\ 0 + Len(y) <= b.limit
          /\ b.limit <= Len(b.bytes)
      BY <1>1, <1>2, <1>4, <1>8, <2>1, FirstBytes DEF x, p, B, c
    <3> HIDE DEF y
    <3>2. readVarint32(b, 0) = [value |-> SignedWord(L % Word), length |-> Len(y),
                                b |-> Moved(b, 0, 0 + Len(y))]
      BY <1>4, <3>1, ReadingVarint32 DEF y
    <3> QED  BY <2>2, <3>2 DEF r, y, x, p
  <2>4. 0 + p + L <= n
    <3>1. 0 + p \in Nat
      BY <1>2
    <3> QED  BY <1>1, <1>6, <1>7, <2>3, <3>1
  <2> QED  BY <1>1, <1>2, <1>3, <1>4, <2>4
<1>9. CASE ~(p <= n)
  <2>1. n < p /\ \A i \in 1..n : i \in 1..p
    BY <1>2, <1>4, <1>9
  <2>2. \A i \in 1..n : B[i] = x[i]
    BY <1>3, <1>4, <2>1
  <2>3. r.length = n + 1 /\ r.value \in Nat
    <3>1. Len(b.bytes) < Len(Varint32(L)) /\ \A i \in 1..Len(b.bytes) : b.bytes[i] = Varint32(L)[i]
      BY <1>4, <2>1, <2>2 DEF x, p, B
    <3>2. b.bytes \in Seq(Byte) /\ Len(b.bytes) = n
      BY <1>4 DEF B
    <3> QED  BY <1>1, <3>1, <3>2, CutVarint DEF r
  <2>4. 0 + (n + 1) + r.value <= n
    <3>1. 0 + (n + 1) \in Nat
      BY <1>4
    <3> QED  BY <1>6, <1>7, <2>3, <3>1
  <2> QED  BY <1>4, <2>3, <2>4
<1> QED  BY <1>8, <1>9

\* A text that did not arrive in full is not read.
LEMMA CutField ==
    ASSUME NEW f, CanHold(f), f.k \in {"cstring", "istring", "vstring", "utf8", "chars"},
           NEW b, NEW n, HasFirst(b, Form(f, b.endian), n)
    PROVE  ~CanReadField(b, f)
<1>1. CASE f.k \in {"utf8", "chars"} /\ f.v \in Texts
  BY <1>1, CutUtf8, CutChars
<1>2. CASE f.k = "cstring" /\ f.v \in Texts /\ \A i \in DOMAIN Utf8(f.v) : Utf8(f.v)[i] # 0
  BY <1>2, CutCString
<1>3. CASE f.k = "istring" /\ f.v \in Texts /\ Len(Utf8(f.v)) < RadixTo[4]
  BY <1>3, CutIString
<1>4. CASE f.k = "vstring" /\ f.v \in Texts /\ 2 * Len(Utf8(f.v)) < Word
  BY <1>4, CutVString
<1> QED  BY <1>1, <1>2, <1>3, <1>4, StreamKinds DEF SignedKinds, UnsignedKinds
===============================================================================
