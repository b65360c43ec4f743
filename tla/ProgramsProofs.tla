----------------------------- MODULE ProgramsProofs -----------------------------
(***************************************************************************)
(* Theorems about the programs with callbacks: HijackMonitor, for any      *)
(* elements, addresses and batches; PrpcApp, for any number of clients and *)
(* any servers.json; JSBridge, for any names, callbacks and bounds and for *)
(* a host that fetches one notification at a time or all of them; and      *)
(* MCPrograms, where each of the programs may run.                         *)
(***************************************************************************)
EXTENDS MCPrograms, WellFoundedInduction, FiniteSetTheorems, SequenceTheorems, TLAPS

-------------------------------------------------------------------------------
(* Induction, for sets of numbers and of sequences *)

\* A set that 0 is in, and with a number the next one, has every number.
LEMMA Counting ==
    ASSUME NEW U, 0 \in U, \A n \in Nat : n \in U => n + 1 \in U
    PROVE  Nat \subseteq U
<1> DEFINE R == OpToRel(<, Nat)
           T == Nat \ U
<1>1. IsWellFoundedOn(R, Nat)
  BY NatLessThanWellFounded
<1>2. \A x, y \in Nat : x < y => <<x, y>> \in R
  BY DEF OpToRel
<1> HIDE DEF R
<1>3. SUFFICES ASSUME T # {} PROVE FALSE
  OBVIOUS
<1>4. PICK n \in T : \A m \in T : <<m, n>> \notin R
  BY <1>1, <1>3, WFMin
<1>5. n \in Nat /\ n # 0 /\ n - 1 \in Nat
  OBVIOUS
<1>6. n - 1 \notin T
  <2>1. n - 1 < n
    BY <1>5
  <2>2. <<n - 1, n>> \in R
    BY <1>2, <1>5, <2>1
  <2> QED  BY <1>4, <2>2
<1>7. n - 1 + 1 = n
  BY <1>5
<1> QED  BY <1>5, <1>6, <1>7

\* A set that the empty sequence is in, and with a sequence every one that is longer by
\* an element of T, has every sequence over T.
LEMMA Growing ==
    ASSUME NEW T, NEW U, <<>> \in U, \A s \in Seq(T), x \in T : s \in U => Append(s, x) \in U
    PROVE  Seq(T) \subseteq U
<1> DEFINE N == {n \in Nat : \A s \in Seq(T) : Len(s) = n => s \in U}
<1>1. 0 \in N
  BY EmptySeq
<1>2. ASSUME NEW n \in Nat, n \in N PROVE n + 1 \in N
  <2>1. SUFFICES ASSUME NEW s \in Seq(T), Len(s) = n + 1 PROVE s \in U
    OBVIOUS
  <2>2. s # <<>>
    BY <2>1
  <2>3. PICK r \in Seq(T), x \in T : s = Append(r, x)
    BY <2>2, SequenceEmptyOrAppend
  <2>4. Len(s) = Len(r) + 1 /\ Len(r) \in Nat
    BY <2>3, AppendProperties, LenProperties
  <2> QED  BY <1>2, <2>1, <2>3, <2>4
<1> HIDE DEF N
<1>3. Nat \subseteq N
  BY <1>1, <1>2, Counting
<1>4. ASSUME NEW s \in Seq(T) PROVE s \in U
  <2>1. Len(s) \in N
    BY <1>3
  <2> QED  BY <2>1 DEF N
<1> QED  BY <1>4

-------------------------------------------------------------------------------
(* Folds *)

\* The greatest of some numbers up to n is one of them.
LEMMA MaxOfSome ==
    ASSUME NEW n \in Nat, NEW s \in SUBSET (1..n), s # {}
    PROVE  Max(s) \in s /\ \A i \in s : i <= Max(s)
<1> DEFINE U == {m \in Nat : \A t \in SUBSET (1..m) : t # {} => \E x \in t : \A y \in t : x >= y}
<1>1. 0 \in U
  <2>1. 1..0 = {}
    OBVIOUS
  <2> QED  BY <2>1
<1>2. ASSUME NEW m \in Nat, m \in U PROVE m + 1 \in U
  <2>1. SUFFICES ASSUME NEW t \in SUBSET (1..(m + 1)), t # {}
                 PROVE  \E x \in t : \A y \in t : x >= y
    OBVIOUS
  <2>2. CASE m + 1 \in t
    BY <2>2
  <2>3. CASE m + 1 \notin t
    <3>1. t \in SUBSET (1..m)
      BY <2>3
    <3> QED  BY <1>2, <2>1, <3>1
  <2> QED  BY <2>2, <2>3
<1> HIDE DEF U
<1>3. n \in U
  BY <1>1, <1>2, Counting
<1>4. \E x \in s : \A y \in s : x >= y
  BY <1>3 DEF U
<1>5. Max(s) \in s /\ \A y \in s : Max(s) >= y
  BY <1>4 DEF Max
<1> QED  BY <1>5

\* f has the value of a fold by g for each set of positions up to n
FoldedBy(f, g, base, n) ==
    \A s \in SUBSET (1..n) : f[s] = IF s = {} THEN base ELSE g[<<f[s \ {Max(s)}], Max(s)>>]

\* A fold has a value for each set of positions, in the set its steps stay in.
LEMMA FoldExists ==
    ASSUME NEW S, NEW base \in S, NEW n \in Nat, NEW g \in [S \X (1..n) -> S]
    PROVE  \E f \in [SUBSET (1..n) -> S] : FoldedBy(f, g, base, n)
<1> DEFINE Folds(m, f) ==
               /\ f \in [SUBSET (1..m) -> S]
               /\ \A s \in SUBSET (1..m) :
                     f[s] = IF s = {} THEN base ELSE g[<<f[s \ {Max(s)}], Max(s)>>]
           U == {m \in Nat : m <= n => \E f : Folds(m, f)}
<1>1. 0 \in U
  <2> DEFINE f == [s \in SUBSET (1..0) |-> base]
  <2>1. Folds(0, f)
    OBVIOUS
  <2> QED  BY <2>1
<1>2. ASSUME NEW m \in Nat, m \in U PROVE m + 1 \in U
  <2> HIDE DEF Folds
  <2>1. SUFFICES ASSUME m + 1 <= n PROVE \E f : Folds(m + 1, f)
    BY <1>2
  <2>2. PICK f : Folds(m, f)
    BY <1>2, <2>1
  <2> USE DEF Folds
  <2> DEFINE h == [s \in SUBSET (1..(m + 1)) |->
                      IF m + 1 \in s THEN g[<<f[s \ {m + 1}], m + 1>>] ELSE f[s]]
  <2>3. ASSUME NEW s \in SUBSET (1..(m + 1))
        PROVE  /\ h[s] \in S
               /\ h[s] = IF s = {} THEN base ELSE g[<<h[s \ {Max(s)}], Max(s)>>]
    <3>1. CASE m + 1 \in s
      <4>1. s \ {m + 1} \in SUBSET (1..m) /\ m + 1 \in 1..n
        BY <2>1, <3>1
      <4>2. Max(s) = m + 1
        <5>1. m + 1 \in Nat /\ s # {}
          BY <3>1
        <5>2. Max(s) \in s /\ \A i \in s : i <= Max(s)
          BY <2>3, <5>1, MaxOfSome, Zenon
        <5>3. m + 1 <= Max(s)
          BY <3>1, <5>2, Zenon
        <5>4. Max(s) \in 1..(m + 1)
          BY <5>2, Zenon
        <5> QED  BY <5>3, <5>4
      <4>3. h[s \ {m + 1}] = f[s \ {m + 1}]
        BY <4>1
      <4>4. f[s \ {m + 1}] \in S
        BY <2>2, <4>1
      <4>5. h[s] = g[<<f[s \ {m + 1}], m + 1>>]
        BY <3>1
      <4>6. g[<<f[s \ {m + 1}], m + 1>>] \in S
        BY <4>1, <4>4
      <4> HIDE DEF h
      <4> QED  BY <3>1, <4>2, <4>3, <4>5, <4>6
    <3>2. CASE m + 1 \notin s
      <4>1. s \in SUBSET (1..m) /\ s \ {Max(s)} \in SUBSET (1..m)
        <5>1. \A i \in s : i \in 1..m
          BY <3>2
        <5> QED  BY <5>1
      <4>2. h[s] = f[s] /\ h[s \ {Max(s)}] = f[s \ {Max(s)}]
        BY <3>2, <4>1
      <4> HIDE DEF h
      <4> QED  BY <2>2, <4>1, <4>2
    <3> QED  BY <3>1, <3>2
  <2>4. h = [s \in SUBSET (1..(m + 1)) |-> h[s]]
    OBVIOUS
  <2> HIDE DEF h
  <2>5. Folds(m + 1, h)
    BY <2>3, <2>4
  <2> QED  BY <2>5
<1> HIDE DEF U
<1>3. n \in U
  BY <1>1, <1>2, Counting
<1>4. \E f : Folds(n, f)
  <2> HIDE DEF Folds
  <2> QED  BY <1>3 DEF U
<1> QED  BY <1>4 DEF FoldedBy

\* The greatest of the first k numbers is k.
LEMMA MaxOfFirst ==
    ASSUME NEW k \in Nat, k # 0
    PROVE  Max(1..k) = k /\ (1..k) \ {k} = 1..(k - 1) /\ 1..k # {}
<1>1. k \in 1..k
  OBVIOUS
<1>2. 1..k \in SUBSET (1..k) /\ 1..k # {}
  BY <1>1
<1>3. Max(1..k) \in 1..k /\ \A i \in 1..k : i <= Max(1..k)
  BY <1>2, MaxOfSome
<1>4. Max(1..k) = k
  BY <1>1, <1>3
<1>5. (1..k) \ {k} = 1..(k - 1)
  OBVIOUS
<1> QED  BY <1>2, <1>4, <1>5

-------------------------------------------------------------------------------
(* Only *)

\* What Only has kept after each number of elements, and in the end
KeptBy(h, s, S) ==
    /\ h[0] = <<>>
    /\ \A k \in 1..Len(s) : h[k] = IF s[k] \in S THEN Append(h[k - 1], s[k]) ELSE h[k - 1]
    /\ Only(s, S) = h[Len(s)]

\* Only looks at one element after the other.
LEMMA OnlyByIndex == ASSUME NEW T, NEW s \in Seq(T), NEW S PROVE \E h : KeptBy(h, s, S)
<1> DEFINE n == Len(s)
           keep(kept, x) == IF x \in S THEN Append(kept, x) ELSE kept
           Body(f) == [p \in SUBSET (DOMAIN s) |->
                          IF p = {} THEN <<>> ELSE keep(f[p \ {Max(p)}], s[Max(p)])]
           folded == CHOOSE f : f = Body(f)
<1>1. Only(s, S) = folded[DOMAIN s]
  BY DEF Only, FoldLeft, MapThenFoldSet
<1>2. DOMAIN s = 1..n /\ n \in Nat
  OBVIOUS
<1>3. \E f : f = Body(f)
  <2> DEFINE g == [p \in Seq(T) \X (1..n) |-> keep(p[1], s[p[2]])]
  <2>1. g \in [Seq(T) \X (1..n) -> Seq(T)]
    <3>1. ASSUME NEW q \in Seq(T), NEW i \in 1..n PROVE keep(q, s[i]) \in Seq(T)
      BY AppendProperties
    <3> QED  BY <3>1
  <2>2. <<>> \in Seq(T)
    OBVIOUS
  <2>3. \A q \in Seq(T), i \in 1..n : g[<<q, i>>] = keep(q, s[i])
    OBVIOUS
  <2> HIDE DEF g, keep
  <2>4. PICK f \in [SUBSET (1..n) -> Seq(T)] : \A p \in SUBSET (1..n) :
           f[p] = IF p = {} THEN <<>> ELSE g[<<f[p \ {Max(p)}], Max(p)>>]
    <3> DEFINE Q == Seq(T)
    <3>1. n \in Nat /\ <<>> \in Q /\ g \in [Q \X (1..n) -> Q]
      BY <1>2, <2>1, <2>2
    <3> HIDE DEF n, Q
    <3>2. \E f \in [SUBSET (1..n) -> Q] : FoldedBy(f, g, <<>>, n)
      BY <3>1, FoldExists
    <3> QED  BY <3>2 DEF Q, FoldedBy
  <2>5. ASSUME NEW p \in SUBSET (1..n)
        PROVE  f[p] = IF p = {} THEN <<>> ELSE keep(f[p \ {Max(p)}], s[Max(p)])
    <3>1. CASE p = {}
      BY <2>4, <3>1
    <3>2. CASE p # {}
      <4>1. Max(p) \in 1..n
        BY <1>2, <3>2, MaxOfSome
      <4>2. f[p \ {Max(p)}] \in Seq(T)
        OBVIOUS
      <4> QED  BY <2>3, <2>4, <3>2, <4>1, <4>2
    <3> QED  BY <3>1, <3>2
  <2>6. f = Body(f)
    BY <1>2, <2>5
  <2> HIDE DEF Body
  <2> QED  BY <2>6
<1>4. folded = Body(folded)
  <2> HIDE DEF Body
  <2> QED  BY <1>3
<1> HIDE DEF folded
<1> DEFINE h == [k \in 0..n |-> folded[1..k]]
<1>5. \A p \in SUBSET (1..n) :
         folded[p] = IF p = {} THEN <<>> ELSE keep(folded[p \ {Max(p)}], s[Max(p)])
  BY <1>2, <1>4
<1>6. h[0] = <<>>
  <2>1. 1..0 = {} /\ {} \in SUBSET (1..n) /\ 0 \in 0..n
    BY <1>2
  <2>2. folded[{}] = <<>>
    BY <1>5, <2>1
  <2> QED  BY <2>1, <2>2
<1>7. ASSUME NEW k \in 1..n
      PROVE  h[k] = IF s[k] \in S THEN Append(h[k - 1], s[k]) ELSE h[k - 1]
  <2>1. Max(1..k) = k /\ (1..k) \ {k} = 1..(k - 1) /\ 1..k # {}
    <3>1. k \in Nat /\ k # 0
      BY <1>2
    <3> QED  BY <3>1, MaxOfFirst, Zenon
  <2>2. 1..k \in SUBSET (1..n)
    OBVIOUS
  <2>3. folded[1..k] = keep(folded[1..(k - 1)], s[k])
    BY <1>5, <2>1, <2>2
  <2>4. h[k] = folded[1..k] /\ h[k - 1] = folded[1..(k - 1)]
    OBVIOUS
  <2> QED  BY <2>3, <2>4
<1>8. h[n] = folded[1..n]
  BY <1>2
<1> HIDE DEF h
<1>9. KeptBy(h, s, S)
  BY <1>1, <1>2, <1>6, <1>7, <1>8 DEF KeptBy
<1> QED  BY <1>9

\* Nothing of nothing is kept.
LEMMA OnlyOfNone == ASSUME NEW S PROVE Only(<<>>, S) = <<>>
<1>1. <<>> \in Seq({}) /\ Len(<<>>) = 0
  OBVIOUS
<1>2. PICK h : KeptBy(h, <<>>, S)
  BY <1>1, OnlyByIndex
<1> QED  BY <1>1, <1>2, Zenon DEF KeptBy

\* One more element is kept if it is in S.
LEMMA OnlyAppend ==
    ASSUME NEW T, NEW s \in Seq(T), NEW x \in T, NEW S
    PROVE  Only(Append(s, x), S) = IF x \in S THEN Append(Only(s, S), x) ELSE Only(s, S)
<1> DEFINE n == Len(s)
           t == Append(s, x)
<1>1. t \in Seq(T) /\ Len(t) = n + 1 /\ n \in Nat
  BY AppendProperties, LenProperties
<1>2. t[n + 1] = x /\ \A k \in 1..n : t[k] = s[k]
  BY AppendProperties
<1> HIDE DEF t
<1>3. PICK h : KeptBy(h, s, S)
  BY OnlyByIndex
<1>4. PICK e : KeptBy(e, t, S)
  BY <1>1, OnlyByIndex
<1> DEFINE U == {k \in Nat : k <= n => e[k] = h[k]}
<1>5. 0 \in U
  BY <1>3, <1>4 DEF KeptBy
<1>6. ASSUME NEW k \in Nat, k \in U PROVE k + 1 \in U
  <2>1. SUFFICES ASSUME k + 1 <= n PROVE e[k + 1] = h[k + 1]
    OBVIOUS
  <2>2. k + 1 \in 1..n /\ k + 1 \in 1..Len(t) /\ (k + 1) - 1 = k
    BY <1>1, <2>1
  <2>3. e[k] = h[k]
    BY <1>6, <2>1
  <2> HIDE DEF U
  <2>4. t[k + 1] = s[k + 1]
    BY <1>2, <2>2
  <2> QED  BY <1>3, <1>4, <2>2, <2>3, <2>4 DEF KeptBy
<1> HIDE DEF U
<1>7. n \in U
  BY <1>1, <1>5, <1>6, Counting
<1>8. e[n] = h[n]
  BY <1>1, <1>7 DEF U
<1>9. n + 1 \in 1..Len(t) /\ (n + 1) - 1 = n
  BY <1>1
<1>10. e[n + 1] = IF x \in S THEN Append(e[n], x) ELSE e[n]
  BY <1>2, <1>4, <1>9 DEF KeptBy
<1> QED  BY <1>1, <1>3, <1>4, <1>8, <1>10 DEF t, KeptBy

\* The elements of a longer sequence.
LEMMA AppendSet ==
    ASSUME NEW T, NEW s \in Seq(T), NEW x \in T
    PROVE  ToSet(Append(s, x)) = ToSet(s) \cup {x}
<1> DEFINE t == Append(s, x)
<1>1. /\ DOMAIN t = 1..(Len(s) + 1) /\ DOMAIN s = 1..Len(s) /\ Len(s) \in Nat
      /\ \A i \in 1..Len(s) : t[i] = s[i]
      /\ t[Len(s) + 1] = x
  BY AppendProperties, LenProperties
<1> HIDE DEF t
<1>2. ASSUME NEW y \in ToSet(t) PROVE y \in ToSet(s) \cup {x}
  <2>1. PICK i \in 1..(Len(s) + 1) : y = t[i]
    BY <1>1 DEF ToSet
  <2>2. CASE i \in 1..Len(s)
    BY <1>1, <2>1, <2>2 DEF ToSet
  <2>3. CASE i = Len(s) + 1
    BY <1>1, <2>1, <2>3
  <2> QED  BY <1>1, <2>2, <2>3
<1>3. ASSUME NEW y \in ToSet(s) \cup {x} PROVE y \in ToSet(t)
  <2>1. CASE y = x
    <3>1. Len(s) + 1 \in 1..(Len(s) + 1)
      BY <1>1
    <3> QED  BY <1>1, <2>1, <3>1 DEF ToSet
  <2>2. CASE y \in ToSet(s)
    <3>1. PICK i \in 1..Len(s) : y = s[i]
      BY <1>1, <2>2 DEF ToSet
    <3>2. i \in 1..(Len(s) + 1)
      BY <1>1
    <3> QED  BY <1>1, <3>1, <3>2 DEF ToSet
  <2> QED  BY <2>1, <2>2
<1>4. ToSet(t) = ToSet(s) \cup {x}
  BY <1>2, <1>3
<1> QED  BY <1>4 DEF t

\* What Only keeps, as a set; it is what there was of S.
LEMMA OnlyType ==
    ASSUME NEW T, NEW s \in Seq(T), NEW S
    PROVE  Only(s, S) \in Seq(T \cap S) /\ ToSet(Only(s, S)) = ToSet(s) \cap S
<1> DEFINE Q == T \cap S
           U == {t \in Seq(T) : Only(t, S) \in Seq(Q) /\ ToSet(Only(t, S)) = ToSet(t) \cap S}
<1>1. <<>> \in U
  <2>1. ToSet(<<>>) = {} /\ <<>> \in Seq(T) /\ <<>> \in Seq(Q)
    BY DEF ToSet
  <2>2. Only(<<>>, S) = <<>>
    BY OnlyOfNone
  <2> QED  BY <2>1, <2>2
<1>2. ASSUME NEW t \in Seq(T), NEW x \in T, t \in U PROVE Append(t, x) \in U
  <2> HIDE DEF Q
  <2>1. Append(t, x) \in Seq(T)
    BY AppendProperties
  <2>2. Only(t, S) \in Seq(Q) /\ ToSet(Only(t, S)) = ToSet(t) \cap S
    BY <1>2
  <2> HIDE DEF U
  <2>3. Only(Append(t, x), S) = IF x \in S THEN Append(Only(t, S), x) ELSE Only(t, S)
    BY OnlyAppend
  <2>4. ToSet(Append(t, x)) = ToSet(t) \cup {x}
    BY AppendSet
  <2>5. CASE x \in S
    <3>1. x \in Q
      BY <2>5 DEF Q
    <3>2. Append(Only(t, S), x) \in Seq(Q)
      BY <2>2, <3>1, AppendProperties
    <3>3. ToSet(Append(Only(t, S), x)) = ToSet(Only(t, S)) \cup {x}
      BY <2>2, <3>1, AppendSet
    <3> QED  BY <2>1, <2>2, <2>3, <2>4, <2>5, <3>2, <3>3 DEF U
  <2>6. CASE x \notin S
    <3>1. (ToSet(t) \cup {x}) \cap S = ToSet(t) \cap S
      BY <2>6
    <3> QED  BY <2>1, <2>2, <2>3, <2>4, <2>6, <3>1 DEF U
  <2> QED  BY <2>5, <2>6
<1> HIDE DEF U
<1>3. s \in U
  BY <1>1, <1>2, Growing
<1> QED  BY <1>3 DEF U, Q

\* What is kept of a sequence behind another is behind what is kept of the other.
LEMMA OnlyConcat ==
    ASSUME NEW T, NEW a \in Seq(T), NEW b \in Seq(T), NEW S
    PROVE  Only(a \o b, S) = Only(a, S) \o Only(b, S)
<1> DEFINE Q == T \cap S
           U == {t \in Seq(T) : Only(a \o t, S) = Only(a, S) \o Only(t, S)}
<1>1. Only(a, S) \in Seq(Q)
  BY OnlyType
<1>2. <<>> \in U
  <2> HIDE DEF Q
  <2>1. a \o <<>> = a /\ Only(a, S) \o <<>> = Only(a, S)
    BY <1>1, ConcatEmptySeq
  <2>2. Only(<<>>, S) = <<>> /\ <<>> \in Seq(T)
    BY OnlyOfNone
  <2> QED  BY <2>1, <2>2
<1>3. ASSUME NEW t \in Seq(T), NEW x \in T, t \in U PROVE Append(t, x) \in U
  <2>1. Only(t, S) \in Seq(Q)
    BY OnlyType
  <2>2. x \in S => x \in Q
    OBVIOUS
  <2>3. Only(a \o t, S) = Only(a, S) \o Only(t, S)
    BY <1>3
  <2> HIDE DEF Q, U
  <2>4. a \o t \in Seq(T) /\ Append(t, x) \in Seq(T)
    BY ConcatProperties, AppendProperties
  <2>5. a \o Append(t, x) = Append(a \o t, x)
    BY <2>4
  <2>6. Only(Append(a \o t, x), S) = IF x \in S THEN Append(Only(a \o t, S), x) ELSE Only(a \o t, S)
    BY <2>4, OnlyAppend
  <2>7. Only(Append(t, x), S) = IF x \in S THEN Append(Only(t, S), x) ELSE Only(t, S)
    BY OnlyAppend
  <2>8. x \in S => Only(a, S) \o Append(Only(t, S), x) = Append(Only(a, S) \o Only(t, S), x)
    BY <1>1, <2>1, <2>2
  <2> QED  BY <2>3, <2>4, <2>5, <2>6, <2>7, <2>8 DEF U
<1> HIDE DEF U
<1>4. b \in U
  BY <1>2, <1>3, Growing
<1> QED  BY <1>4 DEF U

\* Only of what Only has kept.
LEMMA OnlyOfOnly ==
    ASSUME NEW T, NEW s \in Seq(T), NEW A, NEW B
    PROVE  Only(Only(s, A), B) = Only(s, A \cap B)
<1> DEFINE U == {t \in Seq(T) : Only(Only(t, A), B) = Only(t, A \cap B)}
<1>1. <<>> \in U
  BY OnlyOfNone
<1>2. ASSUME NEW t \in Seq(T), NEW x \in T, t \in U PROVE Append(t, x) \in U
  <2>1. Only(Append(t, x), A) = IF x \in A THEN Append(Only(t, A), x) ELSE Only(t, A)
    BY OnlyAppend
  <2>2. Only(Append(t, x), A \cap B)
           = IF x \in A \cap B THEN Append(Only(t, A \cap B), x) ELSE Only(t, A \cap B)
    BY OnlyAppend
  <2>3. Only(t, A) \in Seq(T \cap A)
    BY OnlyType
  <2>4. x \in A => Only(Append(Only(t, A), x), B)
                      = IF x \in B THEN Append(Only(Only(t, A), B), x) ELSE Only(Only(t, A), B)
    <3> DEFINE Q == T \cap A
    <3>1. (x \in A => x \in Q) /\ Only(t, A) \in Seq(Q)
      BY <2>3
    <3> HIDE DEF Q
    <3> QED  BY <3>1, OnlyAppend
  <2>5. Only(Only(t, A), B) = Only(t, A \cap B)
    BY <1>2
  <2>6. Append(t, x) \in Seq(T)
    BY AppendProperties
  <2>7. x \in A \cap B <=> x \in A /\ x \in B
    OBVIOUS
  <2> QED  BY <2>1, <2>2, <2>4, <2>5, <2>6, <2>7
<1> HIDE DEF U
<1>3. s \in U
  BY <1>1, <1>2, Growing
<1> QED  BY <1>3 DEF U

-------------------------------------------------------------------------------
(* Sequences in which nothing is twice *)

Distinct(s) == \A i, j \in DOMAIN s : s[i] = s[j] => i = j

\* A sequence stays without repetition with an element that is new.
LEMMA AppendDistinct ==
    ASSUME NEW T, NEW s \in Seq(T), NEW x \in T
    PROVE  Distinct(Append(s, x)) <=> Distinct(s) /\ x \notin ToSet(s)
<1> DEFINE t == Append(s, x)
           n == Len(s)
<1>1. /\ DOMAIN t = 1..(n + 1) /\ DOMAIN s = 1..n /\ n \in Nat
      /\ \A i \in 1..n : t[i] = s[i]
      /\ t[n + 1] = x
  BY AppendProperties, LenProperties
<1> HIDE DEF t, n
<1>2. ASSUME Distinct(t) PROVE Distinct(s) /\ x \notin ToSet(s)
  <2>1. Distinct(s)
    BY <1>1, <1>2 DEF Distinct
  <2>2. ASSUME NEW i \in 1..n, s[i] = x PROVE FALSE
    <3>1. t[i] = t[n + 1] /\ i \in 1..(n + 1) /\ n + 1 \in 1..(n + 1)
      BY <1>1, <2>2
    <3>2. i = n + 1
      BY <1>1, <1>2, <3>1 DEF Distinct
    <3> QED  BY <1>1, <3>2
  <2> QED  BY <1>1, <2>1, <2>2 DEF ToSet
<1>3. ASSUME Distinct(s), x \notin ToSet(s) PROVE Distinct(t)
  <2>1. ASSUME NEW i \in 1..(n + 1), NEW j \in 1..(n + 1), t[i] = t[j] PROVE i = j
    <3>1. \A k \in 1..n : s[k] # x
      BY <1>1, <1>3 DEF ToSet
    <3>2. CASE i \in 1..n /\ j \in 1..n
      BY <1>1, <1>3, <2>1, <3>2 DEF Distinct
    <3>3. CASE i \in 1..n /\ j = n + 1
      BY <1>1, <2>1, <3>1, <3>3
    <3>4. CASE i = n + 1 /\ j \in 1..n
      BY <1>1, <2>1, <3>1, <3>4
    <3>5. CASE i = n + 1 /\ j = n + 1
      BY <3>5
    <3> QED  BY <1>1, <3>2, <3>3, <3>4, <3>5
  <2> QED  BY <1>1, <2>1 DEF Distinct
<1>4. Distinct(t) <=> Distinct(s) /\ x \notin ToSet(s)
  BY <1>2, <1>3
<1> QED  BY <1>4 DEF t

\* Of a sequence without repetition Only keeps one without, as long as its set is big.
LEMMA OnlyDistinct ==
    ASSUME NEW T, NEW s \in Seq(T), Distinct(s), NEW S
    PROVE  /\ Distinct(Only(s, S))
           /\ IsFiniteSet(ToSet(s) \cap S)
           /\ Len(Only(s, S)) = Cardinality(ToSet(s) \cap S)
<1> DEFINE Fine(t) == /\ Distinct(Only(t, S))
                      /\ IsFiniteSet(ToSet(t) \cap S)
                      /\ Len(Only(t, S)) = Cardinality(ToSet(t) \cap S)
           U == {t \in Seq(T) : Distinct(t) => Fine(t)}
<1>1. <<>> \in U
  <2>1. ToSet(<<>>) \cap S = {} /\ <<>> \in Seq(T) /\ Distinct(<<>>) /\ Len(<<>>) = 0
    BY DEF ToSet, Distinct
  <2>2. Only(<<>>, S) = <<>>
    BY OnlyOfNone
  <2>3. IsFiniteSet({}) /\ Cardinality({}) = 0
    BY FS_EmptySet
  <2> QED  BY <2>1, <2>2, <2>3
<1>2. ASSUME NEW t \in Seq(T), NEW x \in T, t \in U PROVE Append(t, x) \in U
  <2>1. Append(t, x) \in Seq(T)
    BY AppendProperties
  <2>2. SUFFICES ASSUME Distinct(Append(t, x)) PROVE Fine(Append(t, x))
    BY <2>1
  <2>3. Distinct(t) /\ x \notin ToSet(t)
    BY <2>2, AppendDistinct
  <2>4. Fine(t)
    BY <1>2, <2>3
  <2>5. Only(Append(t, x), S) = IF x \in S THEN Append(Only(t, S), x) ELSE Only(t, S)
    BY OnlyAppend
  <2>6. ToSet(Append(t, x)) = ToSet(t) \cup {x}
    BY AppendSet
  <2>7. ToSet(Only(t, S)) = ToSet(t) \cap S /\ Only(t, S) \in Seq(T \cap S)
    BY OnlyType
  <2>8. CASE x \in S
    <3> DEFINE Q == T \cap S
               k == Only(t, S)
               P == ToSet(t) \cap S
    <3>1. k \in Seq(Q) /\ x \in Q /\ x \notin ToSet(k) /\ x \notin P
      BY <2>3, <2>7, <2>8
    <3>2. Distinct(k) /\ IsFiniteSet(P) /\ Len(k) = Cardinality(P)
      BY <2>4
    <3>3. ToSet(Append(t, x)) \cap S = P \cup {x}
      BY <2>6, <2>8
    <3> HIDE DEF Q, k, P, Fine, U
    <3>4. Distinct(Append(k, x)) /\ Len(Append(k, x)) = Len(k) + 1
      BY <3>1, <3>2, AppendDistinct, AppendProperties
    <3>5. IsFiniteSet(P \cup {x}) /\ Cardinality(P \cup {x}) = Cardinality(P) + 1
      BY <3>1, <3>2, FS_AddElement
    <3>6. Only(Append(t, x), S) = Append(k, x)
      BY <2>5, <2>8 DEF k
    <3> QED  BY <3>2, <3>3, <3>4, <3>5, <3>6 DEF Fine
  <2>9. CASE x \notin S
    <3>1. ToSet(Append(t, x)) \cap S = ToSet(t) \cap S
      BY <2>6, <2>9
    <3>2. Only(Append(t, x), S) = Only(t, S)
      BY <2>5, <2>9
    <3> QED  BY <2>4, <3>1, <3>2
  <2> QED  BY <2>8, <2>9
<1> HIDE DEF U
<1>3. s \in U
  BY <1>1, <1>2, Growing
<1> QED  BY <1>3 DEF U

\* What Only keeps does not repeat, when no member of its set is there twice.
LEMMA OnceEach ==
    ASSUME NEW T, NEW S, NEW s \in Seq(T),
           \A i, j \in DOMAIN s : s[i] = s[j] /\ s[i] \in S => i = j
    PROVE  Distinct(Only(s, S))
<1> DEFINE Once(t) == \A i, j \in DOMAIN t : t[i] = t[j] /\ t[i] \in S => i = j
           U == {t \in Seq(T) : Once(t) => Distinct(Only(t, S))}
<1>1. <<>> \in U
  <2>1. Only(<<>>, S) = <<>> /\ Distinct(<<>>) /\ <<>> \in Seq(T)
    BY OnlyOfNone DEF Distinct
  <2> QED  BY <2>1
<1>2. ASSUME NEW t \in Seq(T), NEW x \in T, t \in U PROVE Append(t, x) \in U
  <2> DEFINE a == Append(t, x)
             n == Len(t)
  <2>1. /\ a \in Seq(T) /\ DOMAIN a = 1..(n + 1) /\ DOMAIN t = 1..n /\ n \in Nat
        /\ a[n + 1] = x /\ \A i \in 1..n : a[i] = t[i]
    BY AppendProperties, LenProperties
  <2>2. SUFFICES ASSUME Once(a) PROVE Distinct(Only(a, S))
    BY <2>1
  <2>3. Only(a, S) = IF x \in S THEN Append(Only(t, S), x) ELSE Only(t, S)
    BY OnlyAppend
  <2> HIDE DEF a, n
  <2>4. Once(t)
    <3>1. \A i, j \in 1..n : a[i] = a[j] /\ a[i] \in S => i = j
      BY <2>1, <2>2
    <3> QED  BY <2>1, <3>1
  <2>5. Distinct(Only(t, S))
    BY <1>2, <2>4
  <2>6. x \in S => x \notin ToSet(t)
    <3>1. SUFFICES ASSUME x \in S, NEW i \in 1..n, t[i] = x PROVE FALSE
      BY <2>1 DEF ToSet
    <3>2. i \in 1..(n + 1) /\ n + 1 \in 1..(n + 1) /\ a[i] = a[n + 1] /\ i # n + 1
      BY <2>1, <3>1
    <3> QED  BY <2>1, <2>2, <3>1, <3>2
  <2> DEFINE k == Only(t, S)
  <2>7. k \in Seq(T \cap S) /\ ToSet(k) = ToSet(t) \cap S
    BY OnlyType
  <2>8. CASE x \in S
    <3>1. x \in T \cap S /\ x \notin ToSet(k) /\ Distinct(k)
      BY <2>5, <2>6, <2>7, <2>8
    <3> HIDE DEF k
    <3>2. Distinct(Append(k, x))
      BY <2>7, <3>1, AppendDistinct
    <3> QED  BY <2>3, <2>8, <3>2 DEF k
  <2>9. CASE x \notin S
    BY <2>3, <2>5, <2>9
  <2> QED  BY <2>8, <2>9
<1> HIDE DEF U
<1>3. s \in U
  BY <1>1, <1>2, Growing
<1> QED  BY <1>3 DEF U

\* The entries of some elements
Entries(s) == [i \in DOMAIN s |-> EntryOf(s[i])]

\* As many entries are x as there are elements that have the entry x.
LEMMA EntriesCount ==
    ASSUME NEW s \in Seq(Elems), NEW V, \A e \in Elems : EntryOf(e) \in V, NEW x
    PROVE  /\ Entries(s) \in Seq(V)
           /\ Len(Only(Entries(s), {x})) = Len(Only(s, {e \in Elems : EntryOf(e) = x}))
<1> DEFINE E == {e \in Elems : EntryOf(e) = x}
           U == {t \in Seq(Elems) : /\ Entries(t) \in Seq(V)
                                    /\ Len(Only(Entries(t), {x})) = Len(Only(t, E))}
<1>1. <<>> \in U
  <2>1. Entries(<<>>) = <<>> /\ <<>> \in Seq(V) /\ <<>> \in Seq(Elems)
    BY DEF Entries
  <2>2. Only(<<>>, {x}) = <<>> /\ Only(<<>>, E) = <<>>
    BY OnlyOfNone
  <2> QED  BY <2>1, <2>2
<1>2. ASSUME NEW t \in Seq(Elems), NEW y \in Elems, t \in U PROVE Append(t, y) \in U
  <2> DEFINE g == EntryOf(y)
             m == Entries(t)
  <2>1. m \in Seq(V) /\ Len(Only(m, {x})) = Len(Only(t, E))
    BY <1>2
  <2>2. g \in V /\ (y \in E <=> g \in {x}) /\ Append(t, y) \in Seq(Elems)
    BY AppendProperties
  <2>3. Entries(Append(t, y)) = Append(m, g)
    <3>1. /\ DOMAIN Append(t, y) = 1..(Len(t) + 1) /\ DOMAIN t = 1..Len(t) /\ Len(t) \in Nat
          /\ \A i \in 1..Len(t) : Append(t, y)[i] = t[i]
          /\ Append(t, y)[Len(t) + 1] = y
      BY AppendProperties, LenProperties
    <3>2. m = [i \in 1..Len(t) |-> EntryOf(t[i])]
      BY <3>1 DEF Entries
    <3>3. Len(m) = Len(t)
      BY <3>1, <3>2
    <3>5. Entries(Append(t, y)) = [i \in 1..(Len(t) + 1) |-> EntryOf(Append(t, y)[i])]
      BY <3>1 DEF Entries
    <3>6. ASSUME NEW i \in 1..(Len(t) + 1)
          PROVE  EntryOf(Append(t, y)[i]) = IF i = Len(t) + 1 THEN g ELSE m[i]
      <4>1. CASE i = Len(t) + 1
        BY <3>1, <4>1
      <4>2. CASE i # Len(t) + 1
        <5>1. i \in 1..Len(t)
          BY <3>1, <4>2
        <5> QED  BY <3>1, <3>2, <4>2, <5>1
      <4> QED  BY <4>1, <4>2
    <3> DEFINE l == Entries(Append(t, y))
    <3> HIDE DEF m, g, l
    <3>7. /\ Append(m, g) \in Seq(V) /\ Len(Append(m, g)) = Len(t) + 1
          /\ \A i \in 1..Len(t) : Append(m, g)[i] = m[i]
          /\ Append(m, g)[Len(t) + 1] = g
      BY <2>1, <2>2, <3>3, AppendProperties
    <3>8. l \in Seq(V) /\ Len(l) = Len(t) + 1
      <4>1. \A i \in 1..(Len(t) + 1) : EntryOf(Append(t, y)[i]) \in V
        BY <2>2
      <4> QED  BY <3>1, <3>5, <4>1 DEF l
    <3>9. ASSUME NEW i \in 1..Len(l) PROVE l[i] = Append(m, g)[i]
      <4>1. l[i] = IF i = Len(t) + 1 THEN g ELSE m[i]
        BY <3>5, <3>6, <3>8, Zenon DEF l
      <4> QED  BY <3>1, <3>7, <3>8, <4>1
    <3>10. l = Append(m, g)
      BY <3>7, <3>8, <3>9, SeqEqual
    <3> QED  BY <3>10 DEF l
  <2> HIDE DEF U, E, g, m
  <2>4. Only(Append(m, g), {x}) = IF g \in {x} THEN Append(Only(m, {x}), g) ELSE Only(m, {x})
    BY <2>1, <2>2, OnlyAppend
  <2>5. Only(Append(t, y), E) = IF y \in E THEN Append(Only(t, E), y) ELSE Only(t, E)
    BY OnlyAppend
  <2>6. Only(m, {x}) \in Seq(V \cap {x}) /\ Only(t, E) \in Seq(Elems \cap E)
    BY <2>1, OnlyType
  <2>7. /\ Len(Append(Only(m, {x}), g)) = Len(Only(m, {x})) + 1
        /\ Len(Append(Only(t, E), y)) = Len(Only(t, E)) + 1
    BY <2>6
  <2>8. Append(m, g) \in Seq(V)
    BY <2>1, <2>2, AppendProperties
  <2>9. Len(Only(Append(m, g), {x})) = Len(Only(Append(t, y), E))
    BY <2>1, <2>2, <2>4, <2>5, <2>7
  <2> QED  BY <2>2, <2>3, <2>8, <2>9 DEF U
<1> HIDE DEF U
<1>3. s \in U
  BY <1>1, <1>2, Growing
<1> QED  BY <1>3 DEF U

-------------------------------------------------------------------------------
(* removeDom *)

\* A sequence without the element at a position.
LEMMA RemoveAtFacts ==
    ASSUME NEW T, NEW s \in Seq(T), NEW j \in 1..Len(s)
    PROVE  /\ RemoveAt(s, j) \in Seq(T)
           /\ ToSet(RemoveAt(s, j)) \subseteq ToSet(s)
           /\ Distinct(s) => Distinct(RemoveAt(s, j)) /\ s[j] \notin ToSet(RemoveAt(s, j))
<1> DEFINE n == Len(s)
           a == SubSeq(s, 1, j - 1)
           b == SubSeq(s, j + 1, n)
           r == RemoveAt(s, j)
           at(i) == IF i < j THEN i ELSE i + 1
<1>1. n \in Nat /\ j \in 1..n /\ DOMAIN s = 1..n /\ \A i \in 1..n : s[i] \in T
  BY LenProperties
<1>2. a \in Seq(T) /\ Len(a) = j - 1 /\ \A i \in 1..(j - 1) : a[i] = s[i]
  <2>1. \A i \in 1..(j - 1) : s[i] \in T
    BY <1>1
  <2> QED  BY <1>1, <2>1, SubSeqProperties
<1>3. b \in Seq(T) /\ Len(b) = n - j /\ \A i \in 1..(n - j) : b[i] = s[j + i]
  <2>1. \A i \in (j + 1)..n : s[i] \in T
    BY <1>1
  <2>2. j + 1 \in Int /\ n \in Int
    BY <1>1
  <2>3. /\ b \in Seq(T)
        /\ Len(b) = IF j + 1 <= n THEN n - (j + 1) + 1 ELSE 0
        /\ \A i \in 1..(n - (j + 1) + 1) : b[i] = s[j + 1 + i - 1]
    <3> HIDE DEF n
    <3> QED  BY <2>1, <2>2, SubSeqProperties
  <2>4. \A i \in 1..(n - j) : i \in 1..(n - (j + 1) + 1) /\ j + 1 + i - 1 = j + i
    BY <1>1
  <2>5. \A i \in 1..(n - j) : b[i] = s[j + i]
    <3> HIDE DEF n, b
    <3> QED  BY <2>3, <2>4
  <2>6. Len(b) = n - j
    <3> HIDE DEF n, b
    <3> QED  BY <1>1, <2>3
  <2> QED  BY <2>3, <2>5, <2>6
<1>4. r = a \o b
  BY DEF RemoveAt
<1> HIDE DEF n, a, b, r
<1>5. r \in Seq(T) /\ Len(r) = n - 1
  <2>1. r \in Seq(T) /\ Len(r) = Len(a) + Len(b)
    BY <1>2, <1>3, <1>4, ConcatProperties
  <2> QED  BY <1>1, <1>2, <1>3, <2>1
<1>6. ASSUME NEW i \in 1..(n - 1) PROVE r[i] = s[at(i)] /\ at(i) \in 1..n /\ at(i) # j
  <2>1. r[i] = IF i <= j - 1 THEN a[i] ELSE b[i - (j - 1)]
    BY <1>1, <1>2, <1>3, <1>4, ConcatProperties
  <2>2. CASE i < j
    BY <1>1, <1>2, <2>1, <2>2
  <2>3. CASE ~ (i < j)
    <3>1. i - (j - 1) \in 1..(n - j) /\ j + (i - (j - 1)) = i + 1
      BY <1>1, <2>3
    <3> QED  BY <1>1, <1>3, <2>1, <2>3, <3>1
  <2> QED  BY <2>2, <2>3
<1>7. DOMAIN r = 1..(n - 1)
  BY <1>1, <1>5
<1>8. ToSet(r) \subseteq ToSet(s)
  <2>1. ASSUME NEW y \in ToSet(r) PROVE y \in ToSet(s)
    <3>1. PICK i \in 1..(n - 1) : y = r[i]
      BY <1>7, <2>1 DEF ToSet
    <3>2. at(i) \in 1..n /\ y = s[at(i)]
      BY <1>6, <3>1
    <3> HIDE DEF at
    <3> QED  BY <1>1, <3>2 DEF ToSet
  <2> QED  BY <2>1
<1>9. ASSUME Distinct(s) PROVE Distinct(r) /\ s[j] \notin ToSet(r)
  <2>1. ASSUME NEW i \in 1..(n - 1), NEW k \in 1..(n - 1), r[i] = r[k] PROVE i = k
    <3>1. /\ at(i) \in 1..n /\ at(k) \in 1..n
          /\ s[at(i)] = s[at(k)]
      BY <1>6, <2>1
    <3>2. at(i) = at(k)
      <4> HIDE DEF at
      <4> QED  BY <1>1, <1>9, <3>1 DEF Distinct
    <3> QED  BY <1>1, <3>2
  <2>2. ASSUME NEW i \in 1..(n - 1), r[i] = s[j] PROVE FALSE
    <3>1. at(i) \in 1..n /\ s[at(i)] = s[j] /\ at(i) # j
      BY <1>6, <2>2
    <3> HIDE DEF at
    <3> QED  BY <1>1, <1>9, <3>1 DEF Distinct
  <2>3. Distinct(r)
    BY <1>7, <2>1 DEF Distinct
  <2>4. s[j] \notin ToSet(r)
    BY <1>7, <2>2 DEF ToSet
  <2> QED  BY <2>3, <2>4
<1> QED  BY <1>5, <1>8, <1>9 DEF r

\* The collection the loop of removeDom leaves
After(before, link) ==
    LET pass(live, j) == IF j <= Len(live) /\ url[live[j]] = link THEN RemoveAt(live, j) ELSE live
    IN  FoldLeft(pass, before, [j \in DOMAIN before |-> j])

\* The live collection after each turn of that loop
LiveBy(h, before, link) ==
    /\ h \in [0..Len(before) -> Seq(Elems)]
    /\ h[0] = before
    /\ \A k \in 1..Len(before) :
          h[k] = IF k <= Len(h[k - 1]) /\ url[h[k - 1][k]] = link
                 THEN RemoveAt(h[k - 1], k) ELSE h[k - 1]
    /\ After(before, link) = h[Len(before)]

\* The loop of removeDom goes through the positions of the collection it began with.
LEMMA AfterByIndex ==
    ASSUME NEW before \in Seq(Elems), NEW link
    PROVE  \E h : LiveBy(h, before, link)
<1> DEFINE n == Len(before)
           s == [j \in DOMAIN before |-> j]
           pass(live, j) == IF j <= Len(live) /\ url[live[j]] = link THEN RemoveAt(live, j) ELSE live
           Body(f) == [p \in SUBSET (DOMAIN s) |->
                          IF p = {} THEN before ELSE pass(f[p \ {Max(p)}], s[Max(p)])]
           folded == CHOOSE f : f = Body(f)
           Q == Seq(Elems)
<1>1. After(before, link) = folded[DOMAIN s]
  BY DEF After, FoldLeft, MapThenFoldSet
<1>2. DOMAIN s = 1..n /\ n \in Nat /\ \A i \in 1..n : s[i] = i
  OBVIOUS
<1> HIDE DEF s
<1>3. ASSUME NEW q \in Q, NEW i \in 1..n PROVE pass(q, i) \in Q
  <2>1. i <= Len(q) => i \in 1..Len(q)
    BY <1>2
  <2> QED  BY <2>1, RemoveAtFacts
<1>4. \E f \in [SUBSET (1..n) -> Q] : f = Body(f)
  <2> DEFINE g == [p \in Q \X (1..n) |-> pass(p[1], p[2])]
  <2> HIDE DEF n, Q, pass
  <2>1. g \in [Q \X (1..n) -> Q]
    BY <1>3
  <2>2. before \in Q
    BY DEF Q
  <2>3. \A q \in Q, i \in 1..n : g[<<q, i>>] = pass(q, i)
    OBVIOUS
  <2> HIDE DEF g
  <2>4. \E f \in [SUBSET (1..n) -> Q] : FoldedBy(f, g, before, n)
    BY <1>2, <2>1, <2>2, FoldExists
  <2>5. PICK f \in [SUBSET (1..n) -> Q] : FoldedBy(f, g, before, n)
    BY <2>4
  <2>6. ASSUME NEW p \in SUBSET (1..n)
        PROVE  f[p] = IF p = {} THEN before ELSE pass(f[p \ {Max(p)}], s[Max(p)])
    <3>1. CASE p = {}
      BY <2>5, <3>1 DEF FoldedBy
    <3>2. CASE p # {}
      <4>1. Max(p) \in 1..n
        BY <1>2, <3>2, MaxOfSome
      <4>2. f[p \ {Max(p)}] \in Q
        BY <2>5
      <4>3. f[p] = g[<<f[p \ {Max(p)}], Max(p)>>]
        BY <2>5, <3>2 DEF FoldedBy
      <4>4. s[Max(p)] = Max(p)
        BY <1>2, <4>1
      <4> QED  BY <2>3, <3>2, <4>1, <4>2, <4>3, <4>4
    <3> QED  BY <3>1, <3>2
  <2>7. f = Body(f)
    BY <1>2, <2>6
  <2> HIDE DEF Body
  <2> QED  BY <2>7
<1>5. folded = Body(folded)
  <2> HIDE DEF Body
  <2> QED  BY <1>4
<1> HIDE DEF folded
<1>6. \A p \in SUBSET (1..n) :
         folded[p] = IF p = {} THEN before ELSE pass(folded[p \ {Max(p)}], s[Max(p)])
  BY <1>2, <1>5
<1> DEFINE h == [k \in 0..n |-> folded[1..k]]
<1>7. h[0] = before
  <2>1. 1..0 = {} /\ {} \in SUBSET (1..n) /\ 0 \in 0..n
    BY <1>2
  <2>2. folded[{}] = before
    BY <1>6, <2>1
  <2> QED  BY <2>1, <2>2
<1>8. ASSUME NEW k \in 1..n PROVE h[k] = pass(h[k - 1], k)
  <2>1. Max(1..k) = k /\ (1..k) \ {k} = 1..(k - 1) /\ 1..k # {}
    <3>1. k \in Nat /\ k # 0
      BY <1>2
    <3> QED  BY <3>1, MaxOfFirst, Zenon
  <2>2. 1..k \in SUBSET (1..n) /\ s[k] = k
    BY <1>2
  <2> HIDE DEF pass
  <2>3. folded[1..k] = pass(folded[1..(k - 1)], k)
    BY <1>6, <2>1, <2>2
  <2>4. h[k] = folded[1..k] /\ h[k - 1] = folded[1..(k - 1)]
    OBVIOUS
  <2> QED  BY <2>3, <2>4
<1>9. h \in [0..n -> Q]
  <2> DEFINE U == {k \in Nat : k <= n => h[k] \in Q}
  <2> HIDE DEF h, pass, Q
  <2>1. 0 \in U
    BY <1>7 DEF Q
  <2>2. ASSUME NEW k \in Nat, k \in U PROVE k + 1 \in U
    <3>1. SUFFICES ASSUME k + 1 <= n PROVE h[k + 1] \in Q
      OBVIOUS
    <3>2. k + 1 \in 1..n /\ (k + 1) - 1 = k /\ h[k] \in Q
      BY <1>2, <2>2, <3>1
    <3> QED  BY <1>3, <1>8, <3>2
  <2> HIDE DEF U
  <2>3. Nat \subseteq U
    BY <2>1, <2>2, Counting
  <2>4. \A k \in 0..n : h[k] \in Q
    BY <1>2, <2>3 DEF U
  <2> QED  BY <2>4 DEF h
<1>10. h[n] = folded[1..n]
  BY <1>2
<1> HIDE DEF h
<1>11. LiveBy(h, before, link)
  BY <1>1, <1>2, <1>7, <1>8, <1>9, <1>10 DEF LiveBy
<1> QED  BY <1>11

\* The loop removes no other element than those there were, and of those with the address
\* at least one: the first, that nothing before it has moved.
LEMMA AfterMisses ==
    ASSUME NEW before \in Seq(Elems), NEW link, Distinct(before)
    PROVE  /\ ToSet(After(before, link)) \subseteq ToSet(before)
           /\ \A i \in 1..Len(before) : url[before[i]] = link =>
                 \E e \in ToSet(before) : url[e] = link /\ e \notin ToSet(After(before, link))
<1> DEFINE n == Len(before)
<1>1. PICK h : LiveBy(h, before, link)
  BY AfterByIndex
<1>2. n \in Nat /\ DOMAIN before = 1..n
  BY LenProperties
<1>3. /\ h[0] = before
      /\ \A k \in 0..n : h[k] \in Seq(Elems)
      /\ \A k \in 1..n : h[k] = IF k <= Len(h[k - 1]) /\ url[h[k - 1][k]] = link
                               THEN RemoveAt(h[k - 1], k) ELSE h[k - 1]
      /\ After(before, link) = h[n]
  BY <1>1 DEF LiveBy
<1>4. ASSUME NEW k \in 0..n, k + 1 <= n, Distinct(h[k])
      PROVE  /\ Distinct(h[k + 1]) /\ ToSet(h[k + 1]) \subseteq ToSet(h[k])
             /\ k + 1 <= Len(h[k]) /\ url[h[k][k + 1]] = link =>
                   h[k][k + 1] \notin ToSet(h[k + 1])
  <2>1. k + 1 \in 1..n /\ (k + 1) - 1 = k
    BY <1>2, <1>4
  <2>2. h[k + 1] = IF k + 1 <= Len(h[k]) /\ url[h[k][k + 1]] = link
                   THEN RemoveAt(h[k], k + 1) ELSE h[k]
    BY <1>3, <2>1
  <2>3. CASE k + 1 <= Len(h[k]) /\ url[h[k][k + 1]] = link
    <3>1. h[k] \in Seq(Elems) /\ k + 1 \in 1..Len(h[k])
      BY <1>3, <2>1, <2>3
    <3>2. h[k + 1] = RemoveAt(h[k], k + 1)
      BY <2>2, <2>3
    <3> QED  BY <1>4, <3>1, <3>2, RemoveAtFacts
  <2>4. CASE ~ (k + 1 <= Len(h[k]) /\ url[h[k][k + 1]] = link)
    BY <1>4, <2>2, <2>4
  <2> QED  BY <2>3, <2>4
<1> DEFINE Inside(k) == Distinct(h[k]) /\ ToSet(h[k]) \subseteq ToSet(before)
<1>5. \A k \in 0..n : Inside(k)
  <2> DEFINE U == {k \in Nat : k <= n => Inside(k)}
  <2>1. 0 \in U
    BY <1>3
  <2>2. ASSUME NEW k \in Nat, k \in U PROVE k + 1 \in U
    <3>1. SUFFICES ASSUME k + 1 <= n PROVE Inside(k + 1)
      OBVIOUS
    <3>2. k \in 0..n /\ Inside(k)
      BY <1>2, <2>2, <3>1
    <3> QED  BY <1>4, <3>1, <3>2
  <2> HIDE DEF U, Inside
  <2>3. Nat \subseteq U
    BY <2>1, <2>2, Counting
  <2> QED  BY <1>2, <2>3 DEF U
<1>6. n \in 0..n
  BY <1>2
<1>7. ASSUME NEW i \in 1..n, url[before[i]] = link
      PROVE  \E e \in ToSet(before) : url[e] = link /\ e \notin ToSet(After(before, link))
  <2> DEFINE None(k) == \A j \in 1..k : url[before[j]] # link
             Kept(k) == None(k) /\ h[k] = before
             Gone(k) == \E e \in ToSet(before) : url[e] = link /\ e \notin ToSet(h[k])
             U == {k \in Nat : k <= n => Kept(k) \/ Gone(k)}
  <2>1. 0 \in U
    BY <1>3
  <2>2. ASSUME NEW k \in Nat, k \in U PROVE k + 1 \in U
    <3>1. SUFFICES ASSUME k + 1 <= n PROVE Kept(k + 1) \/ Gone(k + 1)
      OBVIOUS
    <3>2. k \in 0..n /\ Distinct(h[k]) /\ (Kept(k) \/ Gone(k)) /\ k + 1 \in 1..n
      BY <1>2, <1>5, <2>2, <3>1
    <3>3. CASE Gone(k)
      <4>1. ToSet(h[k + 1]) \subseteq ToSet(h[k])
        BY <1>4, <3>1, <3>2
      <4> QED  BY <3>3, <4>1
    <3>4. CASE Kept(k) /\ url[before[k + 1]] = link
      <4>1. before[k + 1] \in ToSet(before)
        BY <1>2, <3>2 DEF ToSet
      <4>2. h[k] = before /\ k + 1 <= Len(h[k])
        BY <3>1, <3>4
      <4>3. before[k + 1] \notin ToSet(h[k + 1])
        BY <1>4, <3>1, <3>2, <3>4, <4>2
      <4> QED  BY <3>4, <4>1, <4>3
    <3>5. CASE Kept(k) /\ url[before[k + 1]] # link
      <4>1. h[k + 1] = h[k]
        <5>1. (k + 1) - 1 = k /\ h[k] = before
          BY <3>2, <3>5
        <5> QED  BY <1>3, <3>2, <3>5, <5>1
      <4>2. None(k + 1)
        <5>1. \A j \in 1..(k + 1) : j \in 1..k \/ j = k + 1
          BY <3>2
        <5> QED  BY <3>5, <5>1
      <4> QED  BY <3>5, <4>1, <4>2
    <3> QED  BY <3>2, <3>3, <3>4, <3>5
  <2> HIDE DEF U, Kept, Gone
  <2>3. n \in U
    BY <1>2, <2>1, <2>2, Counting
  <2>4. Kept(n) \/ Gone(n)
    BY <1>2, <2>3 DEF U
  <2>5. ~ Kept(n)
    BY <1>7 DEF Kept
  <2> QED  BY <1>3, <2>4, <2>5 DEF Gone
<1> QED  BY <1>3, <1>5, <1>6, <1>7

\* The elements removeDom can find for an entry
With(x) == {e \in Elems \ Areas : TypeOf[e] = x.type /\ url[e] = x.link}

\* One call of removeDom leaves fewer of the elements with its entry, if there are any
\* but AREA elements.
LEMMA RemoveDomFacts ==
    ASSUME NEW doc \in Seq(Elems), NEW entry
    PROVE  /\ removeDom(doc, entry) \in Seq(Elems)
           /\ Distinct(doc) =>
                 /\ Distinct(removeDom(doc, entry))
                 /\ ToSet(removeDom(doc, entry)) \subseteq ToSet(doc)
                 /\ \A d \in ToSet(doc) : d \in With(entry) =>
                       \E e \in ToSet(doc) : e \in With(entry) /\ e \notin ToSet(removeDom(doc, entry))
<1> DEFINE Same == {e \in Elems : TypeOf[e] = entry.type} \cap (Elems \ Areas)
           Other == {e \in Elems : TypeOf[e] # entry.type} \cup Areas
           before == Only(doc, Same)
           after == After(before, entry.link)
           S == Other \cup ToSet(after)
<1>1. removeDom(doc, entry) = Only(doc, S)
  <2>1. before = Only(OfType(doc, entry.type), Elems \ Areas)
    BY OnlyOfOnly DEF OfType
  <2> HIDE DEF before
  <2> QED  BY <2>1 DEF removeDom, After
<1>2. before \in Seq(Elems) /\ ToSet(before) = ToSet(doc) \cap Same
  <2>1. before \in Seq(Elems \cap Same) /\ ToSet(before) = ToSet(doc) \cap Same
    BY OnlyType
  <2> QED  BY <2>1
<1>3. ToSet(Only(doc, S)) = ToSet(doc) \cap S /\ Only(doc, S) \in Seq(Elems)
  <2> HIDE DEF S
  <2>1. Only(doc, S) \in Seq(Elems \cap S) /\ ToSet(Only(doc, S)) = ToSet(doc) \cap S
    BY OnlyType
  <2> QED  BY <2>1
<1>4. ToSet(doc) \subseteq Elems
  BY DEF ToSet
<1> HIDE DEF before, after
<1>5. ASSUME Distinct(doc)
      PROVE  /\ Distinct(Only(doc, S)) /\ Distinct(before)
  BY <1>5, OnlyDistinct DEF before
<1>6. ASSUME Distinct(doc), NEW d \in ToSet(doc), d \in With(entry)
      PROVE  \E e \in ToSet(doc) : e \in With(entry) /\ e \notin ToSet(Only(doc, S))
  <2>1. d \in ToSet(before) /\ url[d] = entry.link
    BY <1>2, <1>4, <1>6 DEF With
  <2>2. PICK i \in 1..Len(before) : before[i] = d
    BY <1>2, <2>1 DEF ToSet
  <2>3. PICK e \in ToSet(before) : url[e] = entry.link /\ e \notin ToSet(after)
    BY <1>2, <1>5, <1>6, <2>1, <2>2, AfterMisses DEF after
  <2>4. e \in ToSet(doc) /\ TypeOf[e] = entry.type /\ e \in Elems /\ e \notin Areas
    BY <1>2, <2>3
  <2>5. e \notin S
    BY <2>3, <2>4
  <2>6. e \in With(entry)
    BY <2>3, <2>4 DEF With
  <2> HIDE DEF S
  <2> QED  BY <1>3, <2>4, <2>5, <2>6
<1> HIDE DEF S
<1> QED  BY <1>1, <1>3, <1>5, <1>6

\* The document after each call of removeDom
DocBy(h, doc, entries) ==
    /\ h \in [0..Len(entries) -> Seq(Elems)]
    /\ h[0] = doc
    /\ \A k \in 1..Len(entries) : h[k] = removeDom(h[k - 1], entries[k])
    /\ FoldLeft(removeDom, doc, entries) = h[Len(entries)]

\* The elements are removed for one entry after the other.
LEMMA DocByIndex ==
    ASSUME NEW doc \in Seq(Elems), NEW T, NEW entries \in Seq(T)
    PROVE  \E h : DocBy(h, doc, entries)
<1> DEFINE n == Len(entries)
           Body(f) == [p \in SUBSET (DOMAIN entries) |->
                          IF p = {} THEN doc ELSE removeDom(f[p \ {Max(p)}], entries[Max(p)])]
           folded == CHOOSE f : f = Body(f)
           Q == Seq(Elems)
<1>1. FoldLeft(removeDom, doc, entries) = folded[DOMAIN entries]
  BY DEF FoldLeft, MapThenFoldSet
<1>2. DOMAIN entries = 1..n /\ n \in Nat
  OBVIOUS
<1>3. ASSUME NEW q \in Q, NEW i \in 1..n PROVE removeDom(q, entries[i]) \in Q
  BY RemoveDomFacts
<1>4. \E f \in [SUBSET (1..n) -> Q] : f = Body(f)
  <2> DEFINE g == [p \in Q \X (1..n) |-> removeDom(p[1], entries[p[2]])]
  <2> HIDE DEF n, Q
  <2>1. g \in [Q \X (1..n) -> Q]
    BY <1>3
  <2>2. doc \in Q
    BY DEF Q
  <2>3. \A q \in Q, i \in 1..n : g[<<q, i>>] = removeDom(q, entries[i])
    OBVIOUS
  <2> HIDE DEF g
  <2>4. \E f \in [SUBSET (1..n) -> Q] : FoldedBy(f, g, doc, n)
    BY <1>2, <2>1, <2>2, FoldExists
  <2>5. PICK f \in [SUBSET (1..n) -> Q] : FoldedBy(f, g, doc, n)
    BY <2>4
  <2>6. ASSUME NEW p \in SUBSET (1..n)
        PROVE  f[p] = IF p = {} THEN doc ELSE removeDom(f[p \ {Max(p)}], entries[Max(p)])
    <3>1. CASE p = {}
      BY <2>5, <3>1 DEF FoldedBy
    <3>2. CASE p # {}
      <4>1. Max(p) \in 1..n
        BY <1>2, <3>2, MaxOfSome
      <4>2. f[p \ {Max(p)}] \in Q
        BY <2>5
      <4>3. f[p] = g[<<f[p \ {Max(p)}], Max(p)>>]
        BY <2>5, <3>2 DEF FoldedBy
      <4> QED  BY <2>3, <3>2, <4>1, <4>2, <4>3
    <3> QED  BY <3>1, <3>2
  <2>7. f = Body(f)
    BY <1>2, <2>6
  <2> HIDE DEF Body
  <2> QED  BY <2>7
<1>5. folded = Body(folded)
  <2> HIDE DEF Body
  <2> QED  BY <1>4
<1> HIDE DEF folded
<1>6. \A p \in SUBSET (1..n) :
         folded[p] = IF p = {} THEN doc ELSE removeDom(folded[p \ {Max(p)}], entries[Max(p)])
  BY <1>2, <1>5
<1> DEFINE h == [k \in 0..n |-> folded[1..k]]
<1>7. h[0] = doc
  <2>1. 1..0 = {} /\ {} \in SUBSET (1..n) /\ 0 \in 0..n
    BY <1>2
  <2>2. folded[{}] = doc
    BY <1>6, <2>1
  <2> QED  BY <2>1, <2>2
<1>8. ASSUME NEW k \in 1..n PROVE h[k] = removeDom(h[k - 1], entries[k])
  <2>1. Max(1..k) = k /\ (1..k) \ {k} = 1..(k - 1) /\ 1..k # {}
    <3>1. k \in Nat /\ k # 0
      BY <1>2
    <3> QED  BY <3>1, MaxOfFirst, Zenon
  <2>2. 1..k \in SUBSET (1..n)
    BY <1>2
  <2>3. folded[1..k] = removeDom(folded[1..(k - 1)], entries[k])
    BY <1>6, <2>1, <2>2
  <2>4. h[k] = folded[1..k] /\ h[k - 1] = folded[1..(k - 1)]
    OBVIOUS
  <2> QED  BY <2>3, <2>4
<1>9. h \in [0..n -> Q]
  <2> DEFINE U == {k \in Nat : k <= n => h[k] \in Q}
  <2> HIDE DEF h, Q
  <2>1. 0 \in U
    BY <1>7 DEF Q
  <2>2. ASSUME NEW k \in Nat, k \in U PROVE k + 1 \in U
    <3>1. SUFFICES ASSUME k + 1 <= n PROVE h[k + 1] \in Q
      OBVIOUS
    <3>2. k + 1 \in 1..n /\ (k + 1) - 1 = k /\ h[k] \in Q
      BY <1>2, <2>2, <3>1
    <3> QED  BY <1>3, <1>8, <3>2
  <2> HIDE DEF U
  <2>3. Nat \subseteq U
    BY <2>1, <2>2, Counting
  <2>4. \A k \in 0..n : h[k] \in Q
    BY <1>2, <2>3 DEF U
  <2> QED  BY <2>4 DEF h
<1>10. h[n] = folded[1..n]
  BY <1>2
<1> HIDE DEF h
<1>11. DocBy(h, doc, entries)
  BY <1>1, <1>2, <1>7, <1>8, <1>9, <1>10 DEF DocBy
<1> QED  BY <1>11

\* When there are as many calls for an entry as elements with it, none of these is left.
LEMMA AllRemoved ==
    ASSUME NEW doc \in Seq(Elems), Distinct(doc), NEW T, NEW entries \in Seq(T)
    PROVE  /\ FoldLeft(removeDom, doc, entries) \in Seq(Elems)
           /\ Distinct(FoldLeft(removeDom, doc, entries))
           /\ ToSet(FoldLeft(removeDom, doc, entries)) \subseteq ToSet(doc)
           /\ \A x : Cardinality(ToSet(doc) \cap With(x)) <= Len(Only(entries, {x})) =>
                        ToSet(FoldLeft(removeDom, doc, entries)) \cap With(x) = {}
<1> DEFINE n == Len(entries)
<1>1. PICK h : DocBy(h, doc, entries)
  BY DocByIndex
<1>2. n \in Nat /\ n \in 0..n
  BY LenProperties
<1>3. /\ h[0] = doc
      /\ \A k \in 0..n : h[k] \in Seq(Elems)
      /\ \A k \in 1..n : h[k] = removeDom(h[k - 1], entries[k])
      /\ FoldLeft(removeDom, doc, entries) = h[n]
  BY <1>1 DEF DocBy
<1> HIDE DEF n
<1>4. ASSUME NEW k \in Nat, k + 1 <= n
      PROVE  k \in 0..n /\ h[k] \in Seq(Elems) /\ h[k + 1] = removeDom(h[k], entries[k + 1])
  <2>1. k \in 0..n /\ k + 1 \in 1..n /\ (k + 1) - 1 = k
    BY <1>2, <1>4
  <2> QED  BY <1>3, <2>1
<1> DEFINE Inside(k) == Distinct(h[k]) /\ ToSet(h[k]) \subseteq ToSet(doc)
<1>5. \A k \in 0..n : Inside(k)
  <2> DEFINE U == {k \in Nat : k <= n => Inside(k)}
  <2>1. 0 \in U
    BY <1>3
  <2>2. ASSUME NEW k \in Nat, k \in U PROVE k + 1 \in U
    <3>1. SUFFICES ASSUME k + 1 <= n PROVE Inside(k + 1)
      OBVIOUS
    <3>2. Inside(k)
      BY <1>2, <2>2, <3>1
    <3>3. h[k + 1] = removeDom(h[k], entries[k + 1]) /\ h[k] \in Seq(Elems)
      BY <1>4, <3>1
    <3>4. Distinct(h[k + 1]) /\ ToSet(h[k + 1]) \subseteq ToSet(h[k])
      <4> DEFINE d == h[k]
      <4>1. d \in Seq(Elems) /\ Distinct(d) /\ h[k + 1] = removeDom(d, entries[k + 1])
        BY <3>2, <3>3
      <4> HIDE DEF d
      <4>2. Distinct(removeDom(d, entries[k + 1])) /\ ToSet(removeDom(d, entries[k + 1])) \subseteq ToSet(d)
        BY <4>1, RemoveDomFacts
      <4> QED  BY <4>1, <4>2 DEF d
    <3> QED  BY <3>2, <3>4
  <2> HIDE DEF U, Inside
  <2>3. Nat \subseteq U
    BY <2>1, <2>2, Counting
  <2> QED  BY <1>2, <2>3 DEF U
<1>6. ASSUME NEW x, Cardinality(ToSet(doc) \cap With(x)) <= Len(Only(entries, {x}))
      PROVE  ToSet(h[n]) \cap With(x) = {}
  <2> DEFINE E(k) == ToSet(h[k]) \cap With(x)
             c == Cardinality(E(0))
  <2>1. PICK r : KeptBy(r, entries, {x})
    BY OnlyByIndex
  <2>2. /\ r[0] = <<>>
        /\ \A k \in 1..n : r[k] = IF entries[k] = x THEN Append(r[k - 1], x) ELSE r[k - 1]
        /\ Only(entries, {x}) = r[n]
    BY <2>1 DEF KeptBy, n
  <2>3. \A k \in 0..n : IsFiniteSet(E(k))
    BY <1>3, <1>5, OnlyDistinct
  <2>4. c \in Nat
    BY <1>2, <2>3, FS_CardinalityType
  <2> DEFINE Fewer(k) == r[k] \in Seq({x}) /\ (E(k) = {} \/ Cardinality(E(k)) + Len(r[k]) <= c)
             U == {k \in Nat : k <= n => Fewer(k)}
  <2>5. 0 \in U
    <3>1. r[0] \in Seq({x}) /\ Len(r[0]) = 0 /\ Cardinality(E(0)) = c
      BY <2>2
    <3> HIDE DEF E, c
    <3> QED  BY <2>4, <3>1
  <2>6. ASSUME NEW k \in Nat, k \in U PROVE k + 1 \in U
    <3>1. SUFFICES ASSUME k + 1 <= n PROVE Fewer(k + 1)
      OBVIOUS
    <3>2. Fewer(k) /\ k \in 0..n /\ k + 1 \in 0..n /\ k + 1 \in 1..n /\ (k + 1) - 1 = k
      BY <1>2, <2>6, <3>1
    <3>3. h[k + 1] = removeDom(h[k], entries[k + 1]) /\ h[k] \in Seq(Elems) /\ Distinct(h[k])
      BY <1>4, <1>5, <3>1, <3>2
    <3>4. ToSet(h[k + 1]) \subseteq ToSet(h[k])
      BY <3>3, RemoveDomFacts
    <3>5. E(k + 1) \subseteq E(k)
      BY <3>4
    <3>6. IsFiniteSet(E(k)) /\ IsFiniteSet(E(k + 1))
      BY <2>3, <3>2
    <3>7. r[k + 1] = IF entries[k + 1] = x THEN Append(r[k], x) ELSE r[k]
      BY <2>2, <3>2
    <3>8. r[k + 1] \in Seq({x}) /\ Len(r[k + 1]) = Len(r[k]) + IF entries[k + 1] = x THEN 1 ELSE 0
      <4>1. x \in {x} /\ r[k] \in Seq({x})
        BY <3>2
      <4> HIDE DEF Fewer
      <4>2. /\ Append(r[k], x) \in Seq({x}) /\ Len(Append(r[k], x)) = Len(r[k]) + 1
            /\ Len(r[k]) \in Nat
        BY <4>1, AppendProperties, LenProperties
      <4>3. CASE entries[k + 1] = x
        BY <3>7, <4>2, <4>3
      <4>4. CASE entries[k + 1] # x
        BY <3>7, <4>1, <4>2, <4>4
      <4> QED  BY <4>3, <4>4
    <3>9. entries[k + 1] = x /\ E(k) # {} => E(k + 1) # E(k)
      <4>1. SUFFICES ASSUME entries[k + 1] = x, NEW d \in E(k) PROVE E(k + 1) # E(k)
        OBVIOUS
      <4>2. d \in ToSet(h[k]) /\ d \in With(x)
        OBVIOUS
      <4>3. PICK e \in ToSet(h[k]) : e \in With(x) /\ e \notin ToSet(h[k + 1])
        <5> DEFINE y == h[k]
        <5>1. /\ y \in Seq(Elems) /\ Distinct(y) /\ h[k + 1] = removeDom(y, x)
              /\ d \in ToSet(y) /\ d \in With(x)
          BY <3>3, <4>1, <4>2
        <5> HIDE DEF y
        <5>2. \E e \in ToSet(y) : e \in With(x) /\ e \notin ToSet(removeDom(y, x))
          BY <5>1, RemoveDomFacts
        <5> QED  BY <5>1, <5>2 DEF y
      <4>4. e \in E(k) /\ e \notin E(k + 1)
        BY <4>3
      <4> QED  BY <4>4
    <3>10. /\ Cardinality(E(k)) \in Nat /\ Cardinality(E(k + 1)) \in Nat
           /\ Cardinality(E(k + 1)) <= Cardinality(E(k))
           /\ Cardinality(E(k)) = Cardinality(E(k + 1)) => E(k) = E(k + 1)
      <4> HIDE DEF E
      <4>1. E(k + 1) \in SUBSET E(k)
        BY <3>5
      <4> QED  BY <3>6, <4>1, FS_Subset, FS_CardinalityType
    <3> HIDE DEF E
    <3>11. CASE E(k) = {}
      <4>1. E(k + 1) = {}
        BY <3>5, <3>11
      <4> QED  BY <3>8, <4>1
    <3>12. CASE E(k) # {}
      <4>1. Cardinality(E(k)) + Len(r[k]) <= c /\ Len(r[k]) \in Nat
        BY <3>2, <3>12
      <4>2. entries[k + 1] = x => Cardinality(E(k + 1)) < Cardinality(E(k))
        BY <3>9, <3>10, <3>12
      <4>3. Cardinality(E(k + 1)) + Len(r[k + 1]) <= c
        <5>1. CASE entries[k + 1] = x
          BY <2>4, <3>8, <3>10, <4>1, <4>2, <5>1
        <5>2. CASE entries[k + 1] # x
          BY <2>4, <3>8, <3>10, <4>1, <5>2
        <5> QED  BY <5>1, <5>2
      <4> QED  BY <3>8, <4>3
    <3> QED  BY <3>11, <3>12
  <2> HIDE DEF U
  <2>7. n \in U
    BY <1>2, <2>5, <2>6, Counting
  <2>8. Fewer(n)
    BY <1>2, <2>7 DEF U
  <2>9. c <= Len(r[n]) /\ IsFiniteSet(E(n)) /\ Len(r[n]) \in Nat
    <3>1. c <= Len(r[n])
      BY <1>3, <1>6, <2>2
    <3>2. IsFiniteSet(E(n))
      BY <1>2, <2>3
    <3>3. r[n] \in Seq({x})
      BY <2>8
    <3> HIDE DEF E, c
    <3> QED  BY <3>1, <3>2, <3>3, LenProperties
  <2>10. Cardinality(E(n)) \in Nat
    BY <2>9, FS_CardinalityType
  <2>11. E(n) = {} \/ Cardinality(E(n)) = 0
    <3> HIDE DEF E, c
    <3> QED  BY <2>4, <2>8, <2>9, <2>10
  <2> HIDE DEF E
  <2>12. E(n) = {}
    BY <2>9, <2>11, FS_EmptySet
  <2> QED  BY <2>12 DEF E
<1> QED  BY <1>2, <1>3, <1>5, <1>6

-------------------------------------------------------------------------------
(* FlattenSeq *)

\* What FlattenSeq has put together after each sequence
FlatBy(f, ss) ==
    /\ \A i \in 1..Len(ss) : f[i] = IF i = 1 THEN ss[i] ELSE f[i - 1] \o ss[i]
    /\ FlattenSeq(ss) = f[Len(ss)]

\* FlattenSeq goes through the sequences one by one.
LEMMA FlattenByIndex ==
    ASSUME NEW T, NEW ss \in Seq(Seq(T)), ss # <<>>
    PROVE  \E f : FlatBy(f, ss)
<1> DEFINE n == Len(ss)
           Q == Seq(T)
           Body(f) == [i \in 1..n |-> IF i = 1 THEN ss[i] ELSE f[i - 1] \o ss[i]]
           flatten == CHOOSE f : f = Body(f)
<1>1. n \in Nat /\ n > 0 /\ \A i \in 1..n : ss[i] \in Q
  BY LenProperties, EmptySeq
<1>2. FlattenSeq(ss) = flatten[n]
  <2>1. FlattenSeq(ss) = IF n = 0 THEN ss ELSE flatten[n]
    BY DEF FlattenSeq
  <2> HIDE DEF flatten, n
  <2> QED  BY <1>1, <2>1
<1> HIDE DEF n
<1>3. \E f : f = Body(f)
  <2> DEFINE Part(m, f) ==
                 /\ f \in [1..m -> Q]
                 /\ \A i \in 1..m : f[i] = IF i = 1 THEN ss[i] ELSE f[i - 1] \o ss[i]
             U == {m \in Nat : m <= n => \E f : Part(m, f)}
  <2>1. 0 \in U
    <3> DEFINE f == [i \in 1..0 |-> ss]
    <3>1. Part(0, f)
      OBVIOUS
    <3> QED  BY <3>1
  <2>2. ASSUME NEW m \in Nat, m \in U PROVE m + 1 \in U
    <3> HIDE DEF Part
    <3>1. SUFFICES ASSUME m + 1 <= n PROVE \E f : Part(m + 1, f)
      BY <2>2
    <3>2. PICK f : Part(m, f)
      <4>1. m <= n
        BY <1>1, <3>1
      <4> QED  BY <2>2, <4>1
    <3> USE DEF Part
    <3>3. m + 1 \in 1..n /\ ss[m + 1] \in Q
      BY <1>1, <3>1
    <3> DEFINE last == IF m = 0 THEN ss[m + 1] ELSE f[m] \o ss[m + 1]
               g == [i \in 1..(m + 1) |-> IF i = m + 1 THEN last ELSE f[i]]
    <3>4. last \in Q
      <4>1. CASE m = 0
        BY <3>3, <4>1
      <4>2. CASE m # 0
        <5>1. f[m] \in Q
          BY <3>2, <4>2
        <5> QED  BY <3>3, <4>2, <5>1, ConcatProperties
      <4> QED  BY <4>1, <4>2
    <3>5. g \in [1..(m + 1) -> Q]
      <4> HIDE DEF last, Q
      <4> QED  BY <3>2, <3>4
    <3>6. ASSUME NEW i \in 1..(m + 1)
          PROVE  g[i] = IF i = 1 THEN ss[i] ELSE g[i - 1] \o ss[i]
      <4>1. CASE i = m + 1
        <5>1. g[i] = last
          BY <4>1
        <5>2. m # 0 => g[i - 1] = f[m]
          BY <4>1
        <5> HIDE DEF g
        <5> QED  BY <4>1, <5>1, <5>2
      <4>2. CASE i # m + 1
        <5>1. i \in 1..m /\ (i # 1 => i - 1 \in 1..m)
          BY <4>2
        <5>2. g[i] = f[i] /\ (i # 1 => g[i - 1] = f[i - 1])
          BY <4>2, <5>1
        <5> HIDE DEF g, last
        <5> QED  BY <3>2, <5>1, <5>2
      <4> QED  BY <4>1, <4>2
    <3> HIDE DEF g, last
    <3>7. Part(m + 1, g)
      BY <3>5, <3>6
    <3> QED  BY <3>7
  <2> HIDE DEF U
  <2>3. n \in U
    BY <1>1, <2>1, <2>2, Counting
  <2>4. \E f : Part(n, f)
    <3> HIDE DEF Part
    <3> QED  BY <1>1, <2>3 DEF U
  <2>5. PICK f : Part(n, f)
    BY <2>4
  <2>6. f = Body(f)
    BY <2>5
  <2> HIDE DEF Body
  <2> QED  BY <2>6
<1>4. flatten = Body(flatten)
  <2> HIDE DEF Body
  <2> QED  BY <1>3
<1> HIDE DEF flatten
<1>5. FlatBy(flatten, ss)
  BY <1>2, <1>4 DEF FlatBy, n
<1> QED  BY <1>5

\* One more sequence is put behind the others.
LEMMA FlattenAppend ==
    ASSUME NEW T, NEW ss \in Seq(Seq(T)), NEW q \in Seq(T)
    PROVE  FlattenSeq(Append(ss, q)) = FlattenSeq(ss) \o q
<1> DEFINE n == Len(ss)
           t == Append(ss, q)
<1>1. t \in Seq(Seq(T)) /\ t # <<>> /\ Len(t) = n + 1 /\ n \in Nat
  BY AppendProperties, LenProperties
<1>2. t[n + 1] = q /\ \A i \in 1..n : t[i] = ss[i]
  BY AppendProperties
<1> HIDE DEF t
<1>3. PICK e : FlatBy(e, t)
  BY <1>1, FlattenByIndex
<1>4. \A i \in 1..(n + 1) : e[i] = IF i = 1 THEN t[i] ELSE e[i - 1] \o t[i]
  BY <1>1, <1>3 DEF FlatBy
<1>5. FlattenSeq(t) = e[n + 1]
  BY <1>1, <1>3 DEF FlatBy
<1>6. CASE n = 0
  <2>1. ss = <<>> /\ FlattenSeq(ss) = <<>>
    BY <1>6 DEF FlattenSeq
  <2>2. 1 \in 1..(n + 1) /\ n + 1 = 1
    BY <1>6
  <2>3. e[1] = t[1] /\ t[1] = q
    BY <1>2, <1>4, <2>2
  <2>4. <<>> \o q = q
    BY ConcatEmptySeq
  <2> QED  BY <1>5, <2>1, <2>2, <2>3, <2>4 DEF t
<1>7. CASE n # 0
  <2>1. ss # <<>>
    BY <1>7
  <2>2. PICK f : FlatBy(f, ss)
    BY <2>1, FlattenByIndex
  <2>3. /\ \A i \in 1..n : f[i] = IF i = 1 THEN ss[i] ELSE f[i - 1] \o ss[i]
        /\ FlattenSeq(ss) = f[n]
    BY <2>2 DEF FlatBy
  <2> DEFINE U == {k \in Nat : k # 0 /\ k <= n => e[k] = f[k]}
  <2>4. 0 \in U
    OBVIOUS
  <2>5. ASSUME NEW k \in Nat, k \in U PROVE k + 1 \in U
    <3>1. SUFFICES ASSUME k + 1 <= n PROVE e[k + 1] = f[k + 1]
      OBVIOUS
    <3>2. k + 1 \in 1..n /\ k + 1 \in 1..(n + 1) /\ (k + 1) - 1 = k /\ (k # 0 => e[k] = f[k])
      BY <1>1, <2>5, <3>1
    <3>3. e[k + 1] = IF k + 1 = 1 THEN t[k + 1] ELSE e[k] \o t[k + 1]
      BY <1>4, <3>2
    <3>4. f[k + 1] = IF k + 1 = 1 THEN ss[k + 1] ELSE f[k] \o ss[k + 1]
      BY <2>3, <3>2
    <3>5. t[k + 1] = ss[k + 1]
      BY <1>2, <3>2
    <3> QED  BY <3>2, <3>3, <3>4, <3>5
  <2> HIDE DEF U
  <2>6. n \in U
    BY <1>1, <2>4, <2>5, Counting
  <2>7. e[n] = f[n]
    BY <1>1, <1>7, <2>6 DEF U
  <2>8. n + 1 \in 1..(n + 1) /\ n + 1 # 1 /\ (n + 1) - 1 = n
    BY <1>1, <1>7
  <2>9. e[n + 1] = e[n] \o q
    BY <1>2, <1>4, <2>8
  <2> QED  BY <1>5, <2>3, <2>7, <2>9 DEF t
<1> QED  BY <1>6, <1>7

\* Sequences over T put together are a sequence over T.
LEMMA FlattenType ==
    ASSUME NEW T, NEW ss \in Seq(Seq(T))
    PROVE  FlattenSeq(ss) \in Seq(T)
<1> DEFINE Q == Seq(T)
           U == {t \in Seq(Q) : FlattenSeq(t) \in Q}
<1>1. <<>> \in U
  BY DEF FlattenSeq
<1>2. ASSUME NEW t \in Seq(Q), NEW q \in Q, t \in U PROVE Append(t, q) \in U
  <2>1. FlattenSeq(Append(t, q)) = FlattenSeq(t) \o q
    BY FlattenAppend
  <2>2. FlattenSeq(t) \in Q
    BY <1>2
  <2>3. FlattenSeq(t) \o q \in Q
    BY <2>2, ConcatProperties
  <2> HIDE DEF Q
  <2>4. Append(t, q) \in Seq(Q)
    BY AppendProperties
  <2> QED  BY <2>1, <2>3, <2>4
<1> HIDE DEF U, Q
<1>3. Seq(Q) \subseteq U
  BY <1>1, <1>2, Growing
<1> QED  BY <1>3 DEF U, Q
-------------------------------------------------------------------------------
(* Batches *)

\* Of the lengths up to Batch only Batch itself is a multiple of it.
LEMMA FullBatch ==
    ASSUME NEW n \in 1..Batch
    PROVE  n % Batch = 0 <=> n = Batch
<1>1. Batch \in Nat /\ Batch > 0
  BY HijackAssumption
<1> DEFINE q == n \div Batch
           r == n % Batch
<1>2. q \in Int /\ r \in 0..(Batch - 1) /\ n = Batch * q + r
  BY <1>1
<1> HIDE DEF q, r
<1>3. r = 0 => n = Batch
  <2>1. SUFFICES ASSUME r = 0 PROVE n = Batch
    OBVIOUS
  <2>2. n = Batch * q
    BY <1>1, <1>2, <2>1
  <2>3. ~ (q <= 0)
    BY <1>1, <1>2, <2>2
  <2>4. ~ (q >= 2)
    <3>1. SUFFICES ASSUME q >= 2 PROVE FALSE
      OBVIOUS
    <3>2. PICK p \in Nat : q = p + 2
      <4>1. q - 2 \in Nat /\ q = (q - 2) + 2
        BY <1>2, <3>1
      <4> QED  BY <4>1
    <3>3. Batch * (p + 2) = Batch * p + Batch * 2
      BY <1>1
    <3>4. Batch * p >= 0
      BY <1>1
    <3>5. Batch * p \in Int
      BY <1>1
    <3>6. n >= Batch * 2
      BY <1>1, <2>2, <3>2, <3>3, <3>4, <3>5
    <3> QED  BY <1>1, <3>6
  <2>5. q = 1
    BY <1>2, <2>3, <2>4
  <2> QED  BY <1>1, <2>2, <2>5
<1>4. n = Batch => r = 0
  BY <1>1 DEF r
<1> QED  BY <1>3, <1>4 DEF r

\* What waits and what has been sent after some entries
Sending(f, T, done) ==
    /\ f.pending \in Seq(T) /\ f.sent \in Seq(Seq(T))
    /\ Len(f.pending) < Batch
    /\ \A i \in DOMAIN f.sent : Len(f.sent[i]) \in 1..Batch
    /\ FlattenSeq(f.sent) \o f.pending = done

\* A batch that is complete is sent.
LEMMA OneMore ==
    ASSUME NEW T, NEW done, NEW f, Sending(f, T, done), NEW x \in T
    PROVE  Sending(Flush(Append(f.pending, x), f.sent), T, Append(done, x))
<1> DEFINE m == Append(f.pending, x)
           g == Flush(m, f.sent)
<1>1. /\ f.pending \in Seq(T) /\ f.sent \in Seq(Seq(T))
      /\ Len(f.pending) < Batch
      /\ \A i \in DOMAIN f.sent : Len(f.sent[i]) \in 1..Batch
      /\ FlattenSeq(f.sent) \o f.pending = done
  BY DEF Sending
<1>2. Batch \in Nat
  BY HijackAssumption
<1>3. m \in Seq(T) /\ Len(m) = Len(f.pending) + 1 /\ Len(m) \in 1..Batch
  <2>1. Len(f.pending) \in Nat
    BY <1>1, LenProperties
  <2>2. m \in Seq(T) /\ Len(m) = Len(f.pending) + 1
    BY <1>1, AppendProperties
  <2> QED  BY <1>1, <1>2, <2>1, <2>2
<1>4. FlattenSeq(f.sent) \o m = Append(done, x)
  <2>1. FlattenSeq(f.sent) \in Seq(T)
    BY <1>1, FlattenType
  <2> DEFINE a == FlattenSeq(f.sent)
             b == f.pending
  <2>2. a \in Seq(T) /\ b \in Seq(T)
    BY <1>1, <2>1
  <2>3. a \o b = done
    BY <1>1
  <2> HIDE DEF a, b
  <2>4. a \o Append(b, x) = Append(a \o b, x)
    BY <2>2
  <2> QED  BY <2>3, <2>4 DEF a, b
<1> HIDE DEF m
<1>5. CASE Len(m) = Batch
  <2>1. Len(m) % Batch = 0
    BY <1>3, <1>5, FullBatch
  <2>2. g = [pending |-> <<>>, sent |-> Append(f.sent, m)]
    BY <1>3, <2>1 DEF Flush
  <2>3. g.pending = <<>> /\ g.sent = Append(f.sent, m)
    BY <2>2
  <2> HIDE DEF g
  <2>4. FlattenSeq(g.sent) = FlattenSeq(f.sent) \o m
    BY <1>1, <1>3, <2>3, FlattenAppend
  <2>5. g.pending \in Seq(T) /\ Len(g.pending) = 0
    BY <2>3
  <2>6. g.sent \in Seq(Seq(T))
    BY <1>1, <1>3, <2>3, AppendProperties
  <2>7. ASSUME NEW i \in DOMAIN g.sent PROVE Len(g.sent[i]) \in 1..Batch
    <3> DEFINE n == Len(f.sent)
    <3>1. /\ n \in Nat /\ DOMAIN f.sent = 1..n /\ DOMAIN g.sent = 1..(n + 1)
          /\ \A j \in 1..n : g.sent[j] = f.sent[j]
          /\ g.sent[n + 1] = m
      BY <1>1, <1>3, <2>3, <2>6, AppendProperties, LenProperties
    <3> HIDE DEF n
    <3>2. CASE i \in 1..n
      BY <1>1, <3>1, <3>2
    <3>3. CASE i = n + 1
      BY <1>3, <3>1, <3>3
    <3> QED  BY <3>1, <3>2, <3>3
  <2>8. FlattenSeq(g.sent) \o g.pending = Append(done, x)
    <3>1. FlattenSeq(g.sent) \in Seq(T)
      BY <2>6, FlattenType
    <3>2. FlattenSeq(g.sent) \o <<>> = FlattenSeq(g.sent)
      BY <3>1, ConcatEmptySeq
    <3> QED  BY <1>4, <2>3, <2>4, <3>2
  <2>9. Sending(g, T, Append(done, x))
    BY <1>2, <1>3, <1>5, <2>5, <2>6, <2>7, <2>8 DEF Sending
  <2> QED  BY <2>9 DEF g, m
<1>6. CASE Len(m) # Batch
  <2>1. Len(m) % Batch # 0
    BY <1>3, <1>6, FullBatch
  <2>2. g = [pending |-> m, sent |-> f.sent]
    BY <2>1 DEF Flush
  <2>3. g.pending = m /\ g.sent = f.sent
    BY <2>2
  <2> HIDE DEF g
  <2>4. Len(g.pending) < Batch /\ g.pending \in Seq(T)
    BY <1>2, <1>3, <1>6, <2>3
  <2>5. FlattenSeq(g.sent) \o g.pending = Append(done, x)
    BY <1>4, <2>3
  <2>6. Sending(g, T, Append(done, x))
    BY <1>1, <2>3, <2>4, <2>5, Zenon DEF Sending
  <2> QED  BY <2>6 DEF g, m
<1> QED  BY <1>5, <1>6

\* What waits and what has been sent after each entry, and the batches in the end
BatchesBy(h, entries) ==
    /\ \A k \in 0..Len(entries) : h[k] \in [pending : Seq(Entry), sent : Seq(Seq(Entry))]
    /\ h[0] = [pending |-> <<>>, sent |-> <<>>]
    /\ \A k \in 1..Len(entries) :
          h[k] = Flush(Append(h[k - 1].pending, entries[k]), h[k - 1].sent)
    /\ InBatches(entries) = Rest(h[Len(entries)])

\* The entries are handed over one after the other.
LEMMA BatchesByIndex == ASSUME NEW entries \in Seq(Entry) PROVE \E h : BatchesBy(h, entries)
<1> DEFINE n == Len(entries)
           add(f, x) == Flush(Append(f.pending, x), f.sent)
           none == [pending |-> <<>>, sent |-> <<>>]
           Body(f) == [p \in SUBSET (DOMAIN entries) |->
                          IF p = {} THEN none ELSE add(f[p \ {Max(p)}], entries[Max(p)])]
           folded == CHOOSE f : f = Body(f)
           Q == [pending : Seq(Entry), sent : Seq(Seq(Entry))]
<1>1. InBatches(entries) = Rest(folded[DOMAIN entries])
  BY DEF InBatches, FoldLeft, MapThenFoldSet
<1>2. DOMAIN entries = 1..n /\ n \in Nat
  OBVIOUS
<1>3. ASSUME NEW q \in Q, NEW i \in 1..n PROVE add(q, entries[i]) \in Q
  <2>1. entries[i] \in Entry
    BY ElementOfSeq
  <2>2. Append(q.pending, entries[i]) \in Seq(Entry) /\ q.sent \in Seq(Seq(Entry))
    BY <2>1, AppendProperties
  <2> DEFINE m == Append(q.pending, entries[i])
  <2>3. Append(q.sent, m) \in Seq(Seq(Entry)) /\ <<>> \in Seq(Entry)
    BY <2>2, AppendProperties
  <2> HIDE DEF m
  <2>4. Flush(m, q.sent) \in Q
    BY <2>2, <2>3 DEF Flush, m
  <2> QED  BY <2>4 DEF m
<1>4. none \in Q
  OBVIOUS
<1> HIDE DEF add, none
<1>5. \E f \in [SUBSET (1..n) -> Q] : f = Body(f)
  <2> DEFINE g == [p \in Q \X (1..n) |-> add(p[1], entries[p[2]])]
  <2> HIDE DEF n, Q
  <2>1. g \in [Q \X (1..n) -> Q]
    BY <1>3
  <2>2. \A q \in Q, i \in 1..n : g[<<q, i>>] = add(q, entries[i])
    OBVIOUS
  <2> HIDE DEF g
  <2>3. \E f \in [SUBSET (1..n) -> Q] : FoldedBy(f, g, none, n)
    BY <1>2, <1>4, <2>1, FoldExists
  <2>4. PICK f \in [SUBSET (1..n) -> Q] : FoldedBy(f, g, none, n)
    BY <2>3
  <2>5. ASSUME NEW p \in SUBSET (1..n)
        PROVE  f[p] = IF p = {} THEN none ELSE add(f[p \ {Max(p)}], entries[Max(p)])
    <3>1. CASE p = {}
      BY <2>4, <3>1 DEF FoldedBy
    <3>2. CASE p # {}
      <4>1. Max(p) \in 1..n
        BY <1>2, <3>2, MaxOfSome
      <4>2. f[p \ {Max(p)}] \in Q
        BY <2>4
      <4>3. f[p] = g[<<f[p \ {Max(p)}], Max(p)>>]
        BY <2>4, <3>2 DEF FoldedBy
      <4> QED  BY <2>2, <3>2, <4>1, <4>2, <4>3
    <3> QED  BY <3>1, <3>2
  <2>6. f = Body(f)
    BY <1>2, <2>5
  <2> HIDE DEF Body
  <2> QED  BY <2>6
<1>6. folded = Body(folded)
  <2> HIDE DEF Body
  <2> QED  BY <1>5
<1> HIDE DEF folded
<1>7. \A p \in SUBSET (1..n) :
         folded[p] = IF p = {} THEN none ELSE add(folded[p \ {Max(p)}], entries[Max(p)])
  BY <1>2, <1>6
<1> DEFINE h == [k \in 0..n |-> folded[1..k]]
<1>8. h[0] = none
  <2>1. 1..0 = {} /\ {} \in SUBSET (1..n) /\ 0 \in 0..n
    BY <1>2
  <2>2. folded[{}] = none
    BY <1>7, <2>1
  <2> QED  BY <2>1, <2>2
<1>9. ASSUME NEW k \in 1..n PROVE h[k] = add(h[k - 1], entries[k])
  <2>1. Max(1..k) = k /\ (1..k) \ {k} = 1..(k - 1) /\ 1..k # {}
    <3>1. k \in Nat /\ k # 0
      BY <1>2
    <3> QED  BY <3>1, MaxOfFirst, Zenon
  <2>2. 1..k \in SUBSET (1..n)
    BY <1>2
  <2>3. folded[1..k] = add(folded[1..(k - 1)], entries[k])
    BY <1>7, <2>1, <2>2
  <2>4. h[k] = folded[1..k] /\ h[k - 1] = folded[1..(k - 1)]
    OBVIOUS
  <2> QED  BY <2>3, <2>4
<1>10. \A k \in 0..n : h[k] \in Q
  <2> DEFINE U == {k \in Nat : k <= n => h[k] \in Q}
  <2> HIDE DEF h, Q
  <2>1. 0 \in U
    BY <1>4, <1>8
  <2>2. ASSUME NEW k \in Nat, k \in U PROVE k + 1 \in U
    <3>1. SUFFICES ASSUME k + 1 <= n PROVE h[k + 1] \in Q
      OBVIOUS
    <3>2. k + 1 \in 1..n /\ (k + 1) - 1 = k /\ h[k] \in Q
      BY <1>2, <2>2, <3>1
    <3> QED  BY <1>3, <1>9, <3>2
  <2> HIDE DEF U
  <2>3. Nat \subseteq U
    BY <2>1, <2>2, Counting
  <2> QED  BY <1>2, <2>3 DEF U
<1>11. InBatches(entries) = Rest(h[n])
  BY <1>1, <1>2
<1> HIDE DEF h
<1>12. BatchesBy(h, entries)
  BY <1>2, <1>8, <1>9, <1>10, <1>11 DEF BatchesBy, add, none
<1> QED  BY <1>12

\* The entries come back from the batches in their order; no batch is empty or too long.
LEMMA InBatchesFacts ==
    ASSUME NEW entries \in Seq(Entry)
    PROVE  /\ InBatches(entries) \in Seq(Seq(Entry))
           /\ FlattenSeq(InBatches(entries)) = entries
           /\ \A i \in DOMAIN InBatches(entries) : Len(InBatches(entries)[i]) \in 1..Batch
<1> DEFINE n == Len(entries)
           done(k) == [i \in 1..k |-> entries[i]]
<1>1. PICK h : BatchesBy(h, entries)
  BY BatchesByIndex
<1>2. n \in Nat /\ entries \in [1..n -> Entry]
  BY LenProperties
<1>3. /\ h[0] = [pending |-> <<>>, sent |-> <<>>]
      /\ \A k \in 1..n : h[k] = Flush(Append(h[k - 1].pending, entries[k]), h[k - 1].sent)
      /\ InBatches(entries) = Rest(h[n])
  BY <1>1 DEF BatchesBy
<1> HIDE DEF n
<1> DEFINE U == {k \in Nat : k <= n => Sending(h[k], Entry, done(k))}
<1>4. 0 \in U
  <2>1. done(0) = <<>>
    OBVIOUS
  <2>2. FlattenSeq(<<>>) = <<>> /\ <<>> \o <<>> = <<>>
    BY DEF FlattenSeq
  <2>3. h[0].pending = <<>> /\ h[0].sent = <<>>
    BY <1>3
  <2>4. Batch > 0 /\ Len(<<>>) = 0
    BY HijackAssumption
  <2>5. DOMAIN <<>> = {} /\ <<>> \in Seq(Entry) /\ <<>> \in Seq(Seq(Entry))
    OBVIOUS
  <2> HIDE DEF done
  <2>6. Sending(h[0], Entry, done(0))
    BY <2>1, <2>2, <2>3, <2>4, <2>5 DEF Sending
  <2> QED  BY <2>6
<1>5. ASSUME NEW k \in Nat, k \in U PROVE k + 1 \in U
  <2>1. SUFFICES ASSUME k + 1 <= n PROVE Sending(h[k + 1], Entry, done(k + 1))
    OBVIOUS
  <2>2. k + 1 \in 1..n /\ (k + 1) - 1 = k /\ Sending(h[k], Entry, done(k))
    BY <1>2, <1>5, <2>1
  <2> DEFINE f == h[k]
             x == entries[k + 1]
             d == done(k)
  <2>3. x \in Entry /\ Sending(f, Entry, d) /\ h[k + 1] = Flush(Append(f.pending, x), f.sent)
    BY <1>2, <1>3, <2>2
  <2>4. Append(d, x) = done(k + 1)
    <3>1. d \in Seq(Entry) /\ Len(d) = k
      BY <1>2, <2>2
    <3>2. done(k + 1) \in Seq(Entry) /\ Len(done(k + 1)) = k + 1
      BY <1>2, <2>2
    <3>3. Append(d, x) \in Seq(Entry) /\ Len(Append(d, x)) = k + 1
      BY <2>3, <3>1, AppendProperties
    <3>4. ASSUME NEW i \in 1..(k + 1) PROVE Append(d, x)[i] = done(k + 1)[i]
      <4>1. CASE i = k + 1
        BY <2>3, <3>1, <4>1, AppendProperties
      <4>2. CASE i # k + 1
        <5>1. i \in 1..k /\ Append(d, x)[i] = d[i]
          BY <2>3, <3>1, <4>2, AppendProperties
        <5> QED  BY <5>1
      <4> QED  BY <4>1, <4>2
    <3> HIDE DEF d, done, x
    <3> QED  BY <3>2, <3>3, <3>4, SeqEqual
  <2> HIDE DEF f, x, d, done
  <2>5. Sending(Flush(Append(f.pending, x), f.sent), Entry, Append(d, x))
    BY <2>3, OneMore
  <2> QED  BY <2>3, <2>4, <2>5
<1> HIDE DEF U
<1>6. n \in U
  BY <1>2, <1>4, <1>5, Counting
<1>7. Sending(h[n], Entry, entries)
  <2>1. Sending(h[n], Entry, done(n))
    BY <1>2, <1>6 DEF U
  <2>2. done(n) = entries
    BY <1>2
  <2> QED  BY <2>1, <2>2
<1> DEFINE f == h[n]
           b == Rest(f)
<1>8. /\ f.pending \in Seq(Entry) /\ f.sent \in Seq(Seq(Entry))
      /\ Len(f.pending) < Batch
      /\ \A i \in DOMAIN f.sent : Len(f.sent[i]) \in 1..Batch
      /\ FlattenSeq(f.sent) \o f.pending = entries
  BY <1>7 DEF Sending
<1> HIDE DEF f
<1>9. CASE f.pending = <<>>
  <2>1. b = f.sent
    BY <1>9 DEF Rest
  <2> HIDE DEF b
  <2>2. FlattenSeq(f.sent) \in Seq(Entry)
    BY <1>8, FlattenType
  <2>3. FlattenSeq(f.sent) = entries
    BY <1>8, <1>9, <2>2, ConcatEmptySeq
  <2>4. b \in Seq(Seq(Entry)) /\ FlattenSeq(b) = entries
    BY <1>8, <2>1, <2>3
  <2>5. \A i \in DOMAIN b : Len(b[i]) \in 1..Batch
    BY <1>8, <2>1
  <2> QED  BY <1>3, <2>4, <2>5 DEF b, f
<1>10. CASE f.pending # <<>>
  <2> DEFINE m == f.pending
             j == Len(f.sent)
  <2>1. b = Append(f.sent, m)
    BY <1>10 DEF Rest
  <2> HIDE DEF b
  <2>2. b \in Seq(Seq(Entry)) /\ FlattenSeq(b) = entries
    <3>1. Append(f.sent, m) \in Seq(Seq(Entry))
      BY <1>8, AppendProperties
    <3>2. FlattenSeq(Append(f.sent, m)) = FlattenSeq(f.sent) \o m
      BY <1>8, FlattenAppend
    <3> QED  BY <1>8, <2>1, <3>1, <3>2
  <2>3. Len(m) \in 1..Batch
    <3>1. Len(m) \in Nat \ {0} /\ Batch \in Nat
      BY <1>8, <1>10, EmptySeq, HijackAssumption
    <3> QED  BY <1>8, <3>1
  <2>4. /\ j \in Nat /\ DOMAIN f.sent = 1..j /\ DOMAIN b = 1..(j + 1)
        /\ \A i \in 1..j : b[i] = f.sent[i]
        /\ b[j + 1] = m
    BY <1>8, <2>1, <2>2, AppendProperties, LenProperties
  <2> HIDE DEF j, m
  <2>5. ASSUME NEW i \in DOMAIN b PROVE Len(b[i]) \in 1..Batch
    <3>1. CASE i \in 1..j
      BY <1>8, <2>4, <3>1
    <3>2. CASE i = j + 1
      BY <2>3, <2>4, <3>2
    <3> QED  BY <2>4, <3>1, <3>2
  <2> QED  BY <1>3, <2>2, <2>5 DEF b, f
<1> QED  BY <1>9, <1>10

-------------------------------------------------------------------------------
(* The scan *)

\* What comes out of four sequences, and how often
LEMMA FourParts ==
    ASSUME NEW V, NEW ss \in Seq(Seq(V)), Len(ss) = 4
    PROVE  /\ FlattenSeq(ss) \in Seq(V)
           /\ \A S : Len(Only(FlattenSeq(ss), S))
                        = Len(Only(ss[1], S)) + Len(Only(ss[2], S))
                             + Len(Only(ss[3], S)) + Len(Only(ss[4], S))
<1> DEFINE Q == Seq(V)
           a == ss[1]
           b == ss[2]
           c == ss[3]
           d == ss[4]
<1>1. a \in Q /\ b \in Q /\ c \in Q /\ d \in Q
  <2>1. ASSUME NEW i \in 1..4 PROVE ss[i] \in Q
    <3>1. ss \in [1..4 -> Q]
      BY LenProperties
    <3> QED  BY <3>1
  <2> QED  BY <2>1
<1>2. FlattenSeq(ss) = ((a \o b) \o c) \o d
  <2>1. ss # <<>>
    <3>1. Len(<<>>) # 4
      OBVIOUS
    <3> QED  BY <3>1
  <2>2. PICK f : FlatBy(f, ss)
    BY <2>1, FlattenByIndex
  <2>3. /\ \A i \in 1..4 : f[i] = IF i = 1 THEN ss[i] ELSE f[i - 1] \o ss[i]
        /\ FlattenSeq(ss) = f[4]
    BY <2>2 DEF FlatBy
  <2>4. f[1] = a
    BY <2>3
  <2>5. f[2] = f[1] \o b
    BY <2>3
  <2>6. f[3] = f[2] \o c
    BY <2>3
  <2>7. f[4] = f[3] \o d
    BY <2>3
  <2> QED  BY <2>3, <2>4, <2>5, <2>6, <2>7
<1> HIDE DEF a, b, c, d
<1>3. a \o b \in Q /\ (a \o b) \o c \in Q /\ ((a \o b) \o c) \o d \in Q
  BY <1>1, ConcatProperties
<1>4. ASSUME NEW S
      PROVE  Len(Only(((a \o b) \o c) \o d, S))
                = Len(Only(a, S)) + Len(Only(b, S)) + Len(Only(c, S)) + Len(Only(d, S))
  <2> DEFINE ab == a \o b
             abc == ab \o c
  <2>1. ab \in Q /\ abc \in Q
    BY <1>3
  <2>2. ASSUME NEW p \in Q, NEW q \in Q
        PROVE  /\ Len(Only(p \o q, S)) = Len(Only(p, S)) + Len(Only(q, S))
               /\ Len(Only(p, S)) \in Nat /\ Len(Only(q, S)) \in Nat
    <3>1. Only(p \o q, S) = Only(p, S) \o Only(q, S)
      BY OnlyConcat
    <3>2. Only(p, S) \in Seq(V \cap S) /\ Only(q, S) \in Seq(V \cap S)
      BY OnlyType
    <3> DEFINE k == Only(p, S)
               l == Only(q, S)
    <3>3. k \in Seq(V \cap S) /\ l \in Seq(V \cap S)
      BY <3>2
    <3> HIDE DEF k, l
    <3>4. Len(k \o l) = Len(k) + Len(l) /\ Len(k) \in Nat /\ Len(l) \in Nat
      BY <3>3, ConcatProperties, LenProperties
    <3> QED  BY <3>1, <3>4 DEF k, l
  <2>3. Len(Only(abc \o d, S)) = Len(Only(abc, S)) + Len(Only(d, S))
    BY <1>1, <2>1, <2>2
  <2> HIDE DEF abc
  <2>4. Len(Only(abc, S)) = Len(Only(ab, S)) + Len(Only(c, S))
    BY <1>1, <2>1, <2>2 DEF abc
  <2> HIDE DEF ab
  <2>5. Len(Only(ab, S)) = Len(Only(a, S)) + Len(Only(b, S))
    BY <1>1, <2>2 DEF ab
  <2> QED  BY <2>3, <2>4, <2>5 DEF abc, ab
<1> QED  BY <1>1, <1>2, <1>3, <1>4 DEF a, b, c, d

\* Nothing of the empty set is kept.
LEMMA OnlyOfEmpty == ASSUME NEW T, NEW s \in Seq(T), NEW S, ToSet(s) \cap S = {} PROVE Only(s, S) = <<>>
<1> DEFINE k == Only(s, S)
<1>1. k \in Seq(T \cap S) /\ ToSet(k) = {}
  BY OnlyType
<1> HIDE DEF k
<1>2. SUFFICES ASSUME k # <<>> PROVE FALSE
  BY DEF k
<1>3. 1 \in DOMAIN k
  BY <1>1, <1>2, EmptySeq
<1> QED  BY <1>1, <1>3 DEF ToSet

Address == Urls \cup {NoUrl}
AnyEntry == [type : Range(Types), link : Address]
ForeignEntry == {w \in Entry : Class[w.link] = "foreign"}

\* The links of the four types
Matched == FlattenSeq([i \in DOMAIN Types |-> getMatchLink(Types[i])])

\* The types
LEMMA TypesFacts ==
    /\ DOMAIN Types = 1..4 /\ Range(Types) = {"link", "img", "script", "iframe"}
    /\ Types[1] = "link" /\ Types[2] = "img" /\ Types[3] = "script" /\ Types[4] = "iframe"
<1>1. /\ DOMAIN Types = 1..4
      /\ Types[1] = "link" /\ Types[2] = "img" /\ Types[3] = "script" /\ Types[4] = "iframe"
  BY DEF Types
<1>2. \A i \in 1..4 : i = 1 \/ i = 2 \/ i = 3 \/ i = 4
  OBVIOUS
<1>3. 1 \in 1..4 /\ 2 \in 1..4 /\ 3 \in 1..4 /\ 4 \in 1..4
  OBVIOUS
<1>4. Range(Types) = {Types[i] : i \in 1..4}
  BY <1>1 DEF Range
<1> HIDE DEF Types
<1> QED  BY <1>1, <1>2, <1>3, <1>4

\* Each link is matched as often as the document has it.
LEMMA MatchedFacts ==
    ASSUME url \in [Elems -> Address], dom \in Seq(Elems)
    PROVE  /\ Matched \in Seq(AnyEntry)
           /\ \A x \in ForeignEntry :
                 Len(Only(Matched, {x})) = Len(Only(dom, {e \in Elems : EntryOf(e) = x}))
<1> DEFINE ss == [i \in 1..4 |-> getMatchLink(Types[i])]
           Match(t) == {e \in Elems : TypeOf[e] = t} \cap {e \in Elems : url[e] # NoUrl /\ Class[url[e]] # "local"}
<1>1. \A e \in Elems : EntryOf(e) \in AnyEntry
  BY HijackAssumption DEF EntryOf, AnyEntry, Address
<1>2. ASSUME NEW t
      PROVE  /\ getMatchLink(t) \in Seq(AnyEntry)
             /\ \A x : Len(Only(getMatchLink(t), {x}))
                          = Len(Only(dom, Match(t) \cap {e \in Elems : EntryOf(e) = x}))
  <2> DEFINE found == Only(dom, Match(t))
  <2>1. getMatchLink(t) = Entries(found)
    <3>1. Only(OfType(dom, t), {e \in Elems : url[e] # NoUrl /\ Class[url[e]] # "local"}) = found
      BY OnlyOfOnly DEF OfType
    <3> HIDE DEF found
    <3> QED  BY <3>1 DEF getMatchLink, Entries
  <2>2. found \in Seq(Elems)
    <3> HIDE DEF Match
    <3>1. found \in Seq(Elems \cap Match(t))
      BY OnlyType
    <3> HIDE DEF found
    <3> QED  BY <3>1
  <2> HIDE DEF found
  <2>3. Entries(found) \in Seq(AnyEntry)
    BY <1>1, <2>2, EntriesCount
  <2>4. ASSUME NEW x
        PROVE  Len(Only(Entries(found), {x})) = Len(Only(found, {e \in Elems : EntryOf(e) = x}))
    BY <1>1, <2>2, EntriesCount
  <2>5. ASSUME NEW x
        PROVE  Only(found, {e \in Elems : EntryOf(e) = x})
                  = Only(dom, Match(t) \cap {e \in Elems : EntryOf(e) = x})
    <3> DEFINE E == {e \in Elems : EntryOf(e) = x}
    <3> HIDE DEF E, Match
    <3>1. Only(found, E) = Only(dom, Match(t) \cap E)
      BY OnlyOfOnly DEF found
    <3> QED  BY <3>1 DEF E
  <2> HIDE DEF Match
  <2> QED  BY <2>1, <2>3, <2>4, <2>5
<1>3. Matched = FlattenSeq(ss)
  <2>1. DOMAIN Types = 1..4
    BY TypesFacts
  <2> QED  BY <2>1 DEF Matched
<1>4. ss \in Seq(Seq(AnyEntry)) /\ Len(ss) = 4
  BY <1>2
<1>5. Matched \in Seq(AnyEntry)
  <2> HIDE DEF ss
  <2> QED  BY <1>3, <1>4, FourParts
<1>6. ASSUME NEW x \in ForeignEntry
      PROVE  Len(Only(Matched, {x})) = Len(Only(dom, {e \in Elems : EntryOf(e) = x}))
  <2> DEFINE E == {e \in Elems : EntryOf(e) = x}
             c(i) == Len(Only(ss[i], {x}))
  <2>1. Len(Only(Matched, {x})) = c(1) + c(2) + c(3) + c(4)
    <3> HIDE DEF ss
    <3> QED  BY <1>3, <1>4, FourParts
  <2>2. x.type \in Range(Types) /\ x.link \in Urls /\ Class[x.link] = "foreign"
    BY DEF ForeignEntry, Entry
  <2>3. ASSUME NEW e \in E
        PROVE  TypeOf[e] = x.type /\ url[e] # NoUrl /\ Class[url[e]] # "local"
    <3>1. TypeOf[e] = x.type /\ url[e] = x.link
      BY DEF EntryOf
    <3> QED  BY <2>2, <3>1, HijackAssumption
  <2>4. ASSUME NEW t PROVE Match(t) \cap E = IF t = x.type THEN E ELSE {}
    BY <2>3
  <2>5. ASSUME NEW i \in 1..4 PROVE c(i) = IF Types[i] = x.type THEN Len(Only(dom, E)) ELSE 0
    <3>1. c(i) = Len(Only(dom, Match(Types[i]) \cap E))
      BY <1>2
    <3>2. CASE Types[i] = x.type
      <4>1. Match(Types[i]) \cap E = E
        BY <2>4, <3>2
      <4> HIDE DEF c, Match, E
      <4> QED  BY <3>1, <3>2, <4>1
    <3>3. CASE Types[i] # x.type
      <4>1. Match(Types[i]) \cap E = {}
        BY <2>4, <3>3
      <4>2. Only(dom, {}) = <<>>
        <5>1. ToSet(dom) \cap {} = {}
          OBVIOUS
        <5> HIDE DEF c, Match, E
        <5> QED  BY <5>1, OnlyOfEmpty
      <4> HIDE DEF c, Match, E
      <4>3. c(i) = Len(<<>>)
        BY <3>1, <4>1, <4>2
      <4>4. Len(<<>>) = 0
        OBVIOUS
      <4> QED  BY <3>3, <4>3, <4>4
    <3> QED  BY <3>2, <3>3
  <2>6. Len(Only(dom, E)) \in Nat
    <3> HIDE DEF E
    <3>1. Only(dom, E) \in Seq(Elems \cap E)
      BY OnlyType
    <3> QED  BY <3>1, LenProperties
  <2> HIDE DEF c, E
  <2> QED  BY <2>1, <2>2, <2>5, <2>6, TypesFacts DEF E
<1> QED  BY <1>5, <1>6

\* A scan sends the links of the foreign elements of the document, each as often as the
\* document has it, and leaves none of them if it removes.
LEMMA ScanFacts ==
    ASSUME url \in [Elems -> Address], dom \in Seq(Elems), Distinct(dom), mElement
    PROVE  /\ dom' \in Seq(Elems) /\ Distinct(dom') /\ ToSet(dom') \subseteq ToSet(dom)
           /\ hijack' \in Seq(Seq(Entry)) /\ insecure' \in Seq(Seq(Entry))
           /\ \A i \in DOMAIN hijack' : Len(hijack'[i]) \in 1..Batch
           /\ \A i \in DOMAIN insecure' : Len(insecure'[i]) \in 1..Batch
           /\ \A x \in ForeignEntry : Reports(hijack', x) = Len(Only(dom, {e \in Elems : EntryOf(e) = x}))
           /\ removeError => \A x \in ForeignEntry : ToSet(dom') \cap With(x) = {}
<1> DEFINE foreign == Only(Matched, ForeignEntry)
           InPlain == {w \in Entry : HttpsPage /\ w.link \in PlainHttp}
           plain == Only(Matched, InPlain)
<1>1. /\ dom' = IF removeError THEN FoldLeft(removeDom, dom, foreign) ELSE dom
      /\ hijack' = InBatches(foreign) /\ insecure' = InBatches(plain)
  BY DEF mElement, Matched, ForeignEntry
<1>2. /\ Matched \in Seq(AnyEntry)
      /\ \A x \in ForeignEntry : Len(Only(Matched, {x})) = Len(Only(dom, {e \in Elems : EntryOf(e) = x}))
  BY MatchedFacts
<1>3. ASSUME NEW S \in SUBSET Entry PROVE Only(Matched, S) \in Seq(Entry)
  <2>1. Only(Matched, S) \in Seq(AnyEntry \cap S)
    BY <1>2, OnlyType
  <2> QED  BY <2>1
<1>4. foreign \in Seq(Entry) /\ plain \in Seq(Entry)
  <2>1. ForeignEntry \in SUBSET Entry /\ InPlain \in SUBSET Entry
    BY DEF ForeignEntry
  <2> HIDE DEF InPlain
  <2> QED  BY <1>3, <2>1
<1>5. ASSUME NEW x \in ForeignEntry
      PROVE  Len(Only(foreign, {x})) = Len(Only(dom, {e \in Elems : EntryOf(e) = x}))
  <2>1. Only(foreign, {x}) = Only(Matched, ForeignEntry \cap {x})
    BY <1>2, OnlyOfOnly
  <2>2. ForeignEntry \cap {x} = {x}
    OBVIOUS
  <2> QED  BY <1>2, <2>1, <2>2
<1> HIDE DEF foreign, plain
<1>6. /\ InBatches(foreign) \in Seq(Seq(Entry)) /\ FlattenSeq(InBatches(foreign)) = foreign
      /\ \A i \in DOMAIN InBatches(foreign) : Len(InBatches(foreign)[i]) \in 1..Batch
  BY <1>4, InBatchesFacts
<1>7. /\ InBatches(plain) \in Seq(Seq(Entry))
      /\ \A i \in DOMAIN InBatches(plain) : Len(InBatches(plain)[i]) \in 1..Batch
  BY <1>4, InBatchesFacts
<1>8. ASSUME NEW x \in ForeignEntry
      PROVE  Reports(hijack', x) = Len(Only(dom, {e \in Elems : EntryOf(e) = x}))
  BY <1>1, <1>5, <1>6 DEF Reports
<1> DEFINE left == FoldLeft(removeDom, dom, foreign)
<1>9. /\ left \in Seq(Elems) /\ Distinct(left) /\ ToSet(left) \subseteq ToSet(dom)
      /\ \A x : Cardinality(ToSet(dom) \cap With(x)) <= Len(Only(foreign, {x})) =>
                   ToSet(left) \cap With(x) = {}
  BY <1>4, AllRemoved
<1>10. ASSUME NEW x \in ForeignEntry PROVE ToSet(left) \cap With(x) = {}
  <2> DEFINE E == {e \in Elems : EntryOf(e) = x}
  <2>1. With(x) \subseteq E
    <3>1. x = [type |-> x.type, link |-> x.link]
      BY DEF ForeignEntry, Entry
    <3>2. \A e \in Elems : EntryOf(e) = x <=> TypeOf[e] = x.type /\ url[e] = x.link
      BY <3>1 DEF EntryOf
    <3> QED  BY <3>2 DEF With
  <2> HIDE DEF E
  <2>2. Len(Only(dom, E)) = Cardinality(ToSet(dom) \cap E) /\ IsFiniteSet(ToSet(dom) \cap E)
    BY OnlyDistinct
  <2>3. Len(Only(foreign, {x})) = Len(Only(dom, E))
    BY <1>5 DEF E
  <2> DEFINE a == Cardinality(ToSet(dom) \cap E)
             c == Cardinality(ToSet(dom) \cap With(x))
             l == Len(Only(foreign, {x}))
  <2>4. a \in Nat /\ c \in Nat /\ c <= a
    <3>1. ToSet(dom) \cap With(x) \in SUBSET (ToSet(dom) \cap E)
      BY <2>1
    <3> QED  BY <2>2, <3>1, FS_Subset, FS_CardinalityType
  <2>5. c <= l
    <3>1. a = l /\ a \in Nat /\ c \in Nat /\ c <= a
      BY <2>2, <2>3, <2>4
    <3> HIDE DEF a, c, l
    <3> QED  BY <3>1
  <2> HIDE DEF left
  <2> QED  BY <1>9, <2>5
<1>11. CASE removeError
  <2>1. dom' = left
    BY <1>1, <1>11
  <2> HIDE DEF left
  <2> QED  BY <1>1, <1>6, <1>7, <1>8, <1>9, <1>10, <2>1
<1>12. CASE ~ removeError
  <2>1. dom' = dom
    BY <1>1, <1>12
  <2> QED  BY <1>1, <1>6, <1>7, <1>8, <1>12, <2>1
<1> QED  BY <1>11, <1>12

-------------------------------------------------------------------------------
(* The behaviours *)

\* An element is in the document once.
InPlace == Distinct(dom)

\* The two timers are armed by onLoad, and each one that has run has left an observer.
TimersSpent == timers + observers <= 2 /\ (~loaded => timers = 0 /\ observers = 0)

HijackInv == HijackTypeOK /\ InPlace /\ TimersSpent

\* Nothing is sent by a step that does not report.
LEMMA Silence == <<>> \in Seq(Seq(Entry))
OBVIOUS

\* At first nothing is in the document.
LEMMA HijackStarts == ASSUME HijackInit PROVE HijackInv
<1>1. HijackTypeOK
  <2> USE DEF HijackInit
  <2>1. dom \in Seq(Elems) /\ hijack \in Seq(Seq(Entry)) /\ insecure \in Seq(Seq(Entry))
    BY Silence
  <2>2. records \in [1..2 -> Seq(Elems)]
    OBVIOUS
  <2>3. url \in [Elems -> Urls \cup {NoUrl}]
    OBVIOUS
  <2>4. timers \in 0..2 /\ observers \in 0..2
    OBVIOUS
  <2>5. loaded \in BOOLEAN
    OBVIOUS
  <2> QED  BY <2>1, <2>2, <2>3, <2>4, <2>5, Zenon DEF HijackTypeOK
<1>2. InPlace
  <2>1. Distinct(<<>>)
    BY DEF Distinct
  <2> QED  BY <2>1 DEF HijackInit, InPlace
<1>3. TimersSpent
  BY DEF HijackInit, TimersSpent
<1> QED  BY <1>1, <1>2, <1>3 DEF HijackInv

\* The entries of elements an observer has caught
LEMMA CaughtEntries ==
    ASSUME HijackTypeOK, NEW s \in Seq(Elems)
    PROVE  Entries(Only(s, Caught)) \in Seq(Entry)
<1> DEFINE k == Only(s, Caught)
<1>1. k \in Seq(Elems \cap Caught)
  BY OnlyType
<1>2. \A e \in Caught : EntryOf(e) \in Entry
  BY HijackAssumption DEF HijackTypeOK, Caught, ForeignElems, EntryOf, Entry
<1> DEFINE n == Len(k)
<1>3. n \in Nat /\ DOMAIN k = 1..n /\ \A i \in 1..n : k[i] \in Caught
  BY <1>1, LenProperties, ElementOfSeq
<1> HIDE DEF k, n
<1>4. Entries(k) = [i \in 1..n |-> EntryOf(k[i])]
  BY <1>3 DEF Entries
<1>5. \A i \in 1..n : EntryOf(k[i]) \in Entry
  BY <1>2, <1>3
<1> HIDE DEF Entry
<1>6. [i \in 1..n |-> EntryOf(k[i])] \in Seq(Entry)
  BY <1>3, <1>5
<1> QED  BY <1>4, <1>6 DEF k

\* What Only leaves of the document
LEMMA Leaves ==
    ASSUME HijackInv, NEW S, dom' = Only(dom, S)
    PROVE  dom' \in Seq(Elems) /\ InPlace'
<1>1. dom \in Seq(Elems) /\ Distinct(dom)
  BY DEF HijackInv, HijackTypeOK, InPlace
<1>2. Only(dom, S) \in Seq(Elems \cap S)
  BY <1>1, OnlyType
<1>3. Distinct(Only(dom, S))
  BY <1>1, OnlyDistinct
<1>4. Only(dom, S) \in Seq(Elems)
  <2> DEFINE k == Only(dom, S)
  <2>1. k \in Seq(Elems \cap S)
    BY <1>2
  <2> HIDE DEF k
  <2> QED  BY <2>1 DEF k
<1>5. InPlace'
  BY <1>3 DEF InPlace
<1> QED  BY <1>4, <1>5

\* An element that is inserted again is in its new place only.
LEMMA Moves ==
    ASSUME NEW s \in Seq(Elems), Distinct(s), NEW e \in Elems
    PROVE  /\ Append(Only(s, Elems \ {e}), e) \in Seq(Elems)
           /\ Distinct(Append(Only(s, Elems \ {e}), e))
<1> DEFINE Others == Elems \ {e}
           k == Only(s, Others)
<1> HIDE DEF Others
<1>1. k \in Seq(Elems \cap Others) /\ ToSet(k) = ToSet(s) \cap Others
  BY OnlyType
<1>2. Distinct(k)
  BY OnlyDistinct
<1> HIDE DEF k
<1>3. k \in Seq(Elems)
  BY <1>1
<1>4. e \notin ToSet(k)
  BY <1>1 DEF Others
<1>5. Append(k, e) \in Seq(Elems) /\ Distinct(Append(k, e))
  BY <1>2, <1>3, <1>4, AppendProperties, AppendDistinct
<1> QED  BY <1>5 DEF k, Others

\* Each step keeps the invariant.
LEMMA HijackHolds == ASSUME HijackInv, [HijackNext]_hijackVars PROVE HijackInv'
<1> USE DEF HijackInv
<1>1. CASE onLoad
  <2> USE <1>1 DEF onLoad, NoReport
  <2>1. HijackTypeOK'
    BY Silence DEF HijackTypeOK
  <2>2. InPlace'
    BY DEF InPlace
  <2>3. TimersSpent'
    BY DEF TimersSpent
  <2> QED  BY <2>1, <2>2, <2>3
<1>2. CASE Scan
  <2> USE <1>2 DEF Scan
  <2>1. /\ dom' \in Seq(Elems) /\ Distinct(dom') /\ ToSet(dom') \subseteq ToSet(dom)
        /\ hijack' \in Seq(Seq(Entry)) /\ insecure' \in Seq(Seq(Entry))
    <3>1. url \in [Elems -> Address] /\ dom \in Seq(Elems) /\ Distinct(dom) /\ mElement
      BY DEF HijackTypeOK, InPlace, Address
    <3> QED  BY <3>1, ScanFacts
  <2>2. TimersSpent' /\ timers' \in 0..2 /\ observers' \in 0..2
    BY DEF HijackTypeOK, TimersSpent
  <2>3. HijackTypeOK'
    BY <2>1, <2>2 DEF HijackTypeOK
  <2>4. InPlace'
    BY <2>1 DEF InPlace
  <2> QED  BY <2>2, <2>3, <2>4
<1>3. ASSUME NEW e \in Elems, Insert(e) PROVE HijackInv'
  <2> USE <1>3 DEF Insert, NoReport
  <2>1. dom \in Seq(Elems) /\ Distinct(dom) /\ dom' = Append(Only(dom, Elems \ {e}), e)
    BY DEF HijackTypeOK, InPlace
  <2>2. dom' \in Seq(Elems) /\ Distinct(dom')
    BY <2>1, Moves
  <2>3. records' \in [1..2 -> Seq(Elems)]
    <3>1. \A o \in 1..2 : records[o] \in Seq(Elems) /\ Append(records[o], e) \in Seq(Elems)
      BY AppendProperties DEF HijackTypeOK
    <3> QED  BY <3>1
  <2>4. HijackTypeOK'
    BY <2>2, <2>3, Silence DEF HijackTypeOK
  <2>5. InPlace'
    BY <2>2 DEF InPlace
  <2>6. TimersSpent'
    BY DEF TimersSpent
  <2> QED  BY <2>4, <2>5, <2>6
<1>4. ASSUME NEW e \in Elems, PageRemoves(e) PROVE HijackInv'
  <2> USE <1>4 DEF PageRemoves, NoReport
  <2>1. dom' \in Seq(Elems) /\ InPlace'
    BY Leaves
  <2>2. HijackTypeOK'
    BY <2>1, Silence DEF HijackTypeOK
  <2>3. TimersSpent'
    BY DEF TimersSpent
  <2> QED  BY <2>1, <2>2, <2>3
<1>5. ASSUME NEW e \in Elems, NEW u \in Urls, SetAttribute(e, u) PROVE HijackInv'
  <2>1. hijack' \in Seq(Seq(Entry)) /\ url' \in [Elems -> Urls \cup {NoUrl}]
    <3> DEFINE x == [type |-> TypeOf[e], link |-> u]
    <3>1. x \in Entry
      BY HijackAssumption DEF Entry
    <3> HIDE DEF x
    <3>2. <<<<x>>>> \in Seq(Seq(Entry))
      BY <3>1
    <3>3. CASE observers > 0 /\ u \in Http /\ Class[u] # "listed"
      <4>1. hijack' = <<<<x>>>> /\ url' = url
        BY <1>5, <3>3 DEF SetAttribute, x
      <4> QED  BY <3>2, <4>1 DEF HijackTypeOK
    <3>4. CASE ~ (observers > 0 /\ u \in Http /\ Class[u] # "listed")
      <4>1. hijack' = <<>> /\ url' = [url EXCEPT ![e] = u]
        BY <1>5, <3>4 DEF SetAttribute
      <4> QED  BY <4>1, Silence DEF HijackTypeOK
    <3> QED  BY <3>3, <3>4
  <2>2. insecure' = <<>> /\ UNCHANGED <<dom, timers, loaded, observers, records>>
    BY <1>5 DEF SetAttribute
  <2>3. HijackTypeOK'
    BY <2>1, <2>2, Silence DEF HijackTypeOK
  <2>4. InPlace' /\ TimersSpent'
    BY <2>2 DEF InPlace, TimersSpent
  <2> QED  BY <2>3, <2>4
<1>6. ASSUME NEW o \in 1..2, ObserverRuns(o) PROVE HijackInv'
  <2> DEFINE caught == Only(records[o], Caught)
             entries == Entries(caught)
  <2>1. entries \in Seq(Entry)
    BY CaughtEntries DEF HijackTypeOK
  <2>2. InBatches(entries) \in Seq(Seq(Entry))
    <3> HIDE DEF entries
    <3> QED  BY <2>1, InBatchesFacts
  <2>3. /\ \E S : dom' = Only(dom, S)
        /\ hijack' = <<>> \/ hijack' = InBatches(entries)
        /\ records' = [records EXCEPT ![o] = <<>>] /\ insecure' = <<>>
        /\ UNCHANGED <<url, timers, loaded, observers>>
    BY <1>6 DEF ObserverRuns, Entries
  <2> HIDE DEF entries, caught
  <2>4. dom' \in Seq(Elems) /\ InPlace'
    BY <2>3, Leaves
  <2>5. records' \in [1..2 -> Seq(Elems)]
    BY <2>3 DEF HijackTypeOK
  <2>6. hijack' \in Seq(Seq(Entry))
    BY <2>2, <2>3, Silence
  <2>7. HijackTypeOK'
    BY <2>3, <2>4, <2>5, <2>6, Silence DEF HijackTypeOK
  <2>8. TimersSpent'
    BY <2>3 DEF TimersSpent
  <2> QED  BY <2>4, <2>7, <2>8
<1>7. CASE UNCHANGED hijackVars
  BY <1>7 DEF hijackVars, HijackTypeOK, InPlace, TimersSpent
<1> QED  BY <1>1, <1>2, <1>3, <1>4, <1>5, <1>6, <1>7 DEF HijackNext

\* The invariant always holds.
LEMMA HijackInvAlways == HijackSpec => []HijackInv
<1>1. HijackInit => HijackInv
  BY HijackStarts
<1>2. HijackInv /\ [HijackNext]_hijackVars => HijackInv'
  BY HijackHolds
<1> QED  BY <1>1, <1>2, PTL DEF HijackSpec

\* Every variable has its type; the links that are sent are links with an address, also
\* when they come from a live collection, an observer or setAttribute.
THEOREM HijackTypeCorrect == HijackSpec => []HijackTypeOK
<1>1. HijackInv => HijackTypeOK
  BY DEF HijackInv
<1> QED  BY <1>1, HijackInvAlways, PTL

\* A scan reports every foreign element once, in batches that are neither empty nor too
\* long, and with removeError it leaves none in the document but AREA elements, although its
\* loop over the live collection passes over the neighbour of what it removes.
THEOREM ScanFindsAllAlways == HijackSpec => ScanFindsAll
<1>1. ASSUME HijackInv, [HijackNext]_hijackVars PROVE ScanIsComplete \/ UNCHANGED hijackVars
  <2>1. SUFFICES ASSUME timers' < timers PROVE ScanIsComplete
    BY DEF ScanIsComplete
  <2>2. timers \in 0..2
    BY <1>1 DEF HijackInv, HijackTypeOK
  <2>3. Scan
    <3>1. timers' # timers
      BY <2>1, <2>2
    <3>2. ~ UNCHANGED hijackVars
      BY <3>1 DEF hijackVars
    <3>3. ~ onLoad
      BY <2>1, <2>2 DEF onLoad
    <3>4. ASSUME NEW e \in Elems
          PROVE  ~ Insert(e) /\ ~ PageRemoves(e) /\ \A u \in Urls : ~ SetAttribute(e, u)
      BY <3>1 DEF Insert, PageRemoves, SetAttribute
    <3>5. \A o \in 1..2 : ~ ObserverRuns(o)
      BY <3>1 DEF ObserverRuns
    <3> QED  BY <1>1, <3>2, <3>3, <3>4, <3>5 DEF HijackNext
  <2>4. /\ url \in [Elems -> Address] /\ dom \in Seq(Elems) /\ Distinct(dom) /\ mElement
        /\ Class \in [Urls -> {"listed", "local", "foreign"}] /\ TypeOf \in [Elems -> Range(Types)]
    BY <1>1, <2>3, HijackAssumption DEF HijackInv, HijackTypeOK, InPlace, Address, Scan
  <2>5. /\ dom' \in Seq(Elems) /\ ToSet(dom') \subseteq ToSet(dom)
        /\ \A i \in DOMAIN hijack' : Len(hijack'[i]) \in 1..Batch
        /\ \A i \in DOMAIN insecure' : Len(insecure'[i]) \in 1..Batch
        /\ \A x \in ForeignEntry : Reports(hijack', x) = Len(Only(dom, {e \in Elems : EntryOf(e) = x}))
        /\ removeError => \A x \in ForeignEntry : ToSet(dom') \cap With(x) = {}
    BY <2>4, ScanFacts
  <2>6. ASSUME NEW e \in ForeignElems
        PROVE  EntryOf(e) \in ForeignEntry /\ (e \notin Areas => e \in With(EntryOf(e)))
    <3>1. e \in Elems /\ url[e] # NoUrl /\ Class[url[e]] = "foreign"
      BY DEF ForeignElems
    <3>2. url[e] \in Urls /\ TypeOf[e] \in Range(Types)
      BY <2>4, <3>1 DEF Address
    <3> QED  BY <3>1, <3>2 DEF EntryOf, ForeignEntry, Entry, With
  <2>7. removeError => ToSet(Foreign(dom')) \subseteq Areas
    <3>1. SUFFICES ASSUME removeError PROVE ToSet(Foreign(dom')) \subseteq Areas
      OBVIOUS
    <3>2. ToSet(dom') \cap ForeignElems \subseteq Areas
      BY <2>5, <2>6, <3>1
    <3> DEFINE d == dom'
    <3>3. d \in Seq(Elems) /\ ToSet(d) \cap ForeignElems \subseteq Areas
      BY <2>5, <3>2
    <3> HIDE DEF d
    <3>4. ToSet(Only(d, ForeignElems)) = ToSet(d) \cap ForeignElems
      BY <3>3, OnlyType
    <3> QED  BY <3>3, <3>4 DEF Foreign, d
  <2>8. ASSUME NEW x \in {EntryOf(e) : e \in ToSet(Foreign(dom))}
        PROVE  Reports(hijack', x) = Len(Only(Foreign(dom), {e \in Elems : EntryOf(e) = x}))
    <3> DEFINE E == {e \in Elems : EntryOf(e) = x}
    <3>1. ToSet(Foreign(dom)) = ToSet(dom) \cap ForeignElems
      BY <2>4, OnlyType DEF Foreign
    <3>2. x \in ForeignEntry
      BY <2>6, <3>1
    <3>3. Reports(hijack', x) = Len(Only(dom, E))
      BY <2>5, <3>2
    <3>4. ForeignElems \cap E = E
      <4>1. ASSUME NEW e \in E PROVE e \in ForeignElems
        <5>1. url[e] = x.link
          BY DEF EntryOf
        <5>2. Class[x.link] = "foreign" /\ x.link \in Urls
          BY <3>2 DEF ForeignEntry, Entry
        <5> QED  BY <5>1, <5>2, HijackAssumption DEF ForeignElems
      <4> QED  BY <4>1
    <3> HIDE DEF E
    <3>5. Only(Foreign(dom), E) = Only(dom, ForeignElems \cap E)
      BY <2>4, OnlyOfOnly DEF Foreign
    <3> QED  BY <3>3, <3>4, <3>5 DEF E
  <2> QED  BY <2>5, <2>7, <2>8 DEF ScanIsComplete
<1>2. HijackInv /\ [HijackNext]_hijackVars => [ScanIsComplete]_hijackVars
  BY <1>1
<1> QED  BY <1>2, HijackInvAlways, PTL DEF HijackSpec, ScanFindsAll

\* Also when several observers run one after the other: the one whose elements are all
\* still in the document leaves no foreign one of them there, if it was told of each once.
THEOREM ObserverRemovesAlways == HijackSpec => ObserverRemoves
<1>1. ASSUME HijackInv, [HijackNext]_hijackVars PROVE ObserverIsComplete
  <2>1. SUFFICES ASSUME NEW o \in 1..2, records[o] # <<>>, records'[o] = <<>>,
                        ToSet(records[o]) \subseteq ToSet(dom),
                        \A i, j \in DOMAIN records[o] :
                           records[o][i] = records[o][j] /\ records[o][i] \in Caught => i = j,
                        NEW e \in ToSet(records[o]), e \in Caught
                 PROVE  e \notin ToSet(dom')
    BY DEF ObserverIsComplete
  <2>2. records \in [1..2 -> Seq(Elems)] /\ dom \in Seq(Elems)
    BY <1>1 DEF HijackInv, HijackTypeOK
  <2>3. \/ UNCHANGED records
        \/ \E x \in Elems : Insert(x)
        \/ \E p \in 1..2 : ObserverRuns(p)
    <3>1. UNCHANGED hijackVars \/ onLoad \/ Scan => UNCHANGED records
      BY DEF hijackVars, onLoad, Scan
    <3>2. ASSUME NEW x \in Elems
          PROVE  PageRemoves(x) \/ (\E u \in Urls : SetAttribute(x, u)) => UNCHANGED records
      BY DEF PageRemoves, SetAttribute
    <3> QED  BY <1>1, <3>1, <3>2 DEF HijackNext
  <2>4. ~ UNCHANGED records
    BY <2>1
  <2>5. ASSUME NEW x \in Elems PROVE ~ Insert(x)
    <3>1. SUFFICES ASSUME Insert(x) PROVE FALSE
      OBVIOUS
    <3>2. records'[o] = records[o] \/ records'[o] = Append(records[o], x)
      BY <3>1 DEF Insert
    <3>3. Append(records[o], x) # <<>>
      <4>1. Len(Append(records[o], x)) = Len(records[o]) + 1 /\ Len(records[o]) \in Nat
        BY <2>2, AppendProperties, LenProperties
      <4>2. Len(<<>>) = 0
        OBVIOUS
      <4> QED  BY <4>1, <4>2
    <3> QED  BY <2>1, <3>2, <3>3
  <2>6. PICK p \in 1..2 : ObserverRuns(p)
    BY <2>3, <2>4, <2>5
  <2>7. p = o
    BY <2>1, <2>2, <2>6 DEF ObserverRuns
  <2> DEFINE caught == Only(records[o], Caught)
  <2>8. ToSet(caught) = ToSet(records[o]) \cap Caught /\ caught \in Seq(Elems \cap Caught)
    BY <2>2, OnlyType
  <2>8b. Distinct(caught)
    BY <2>1, <2>2, OnceEach
  <2> HIDE DEF caught
  <2>9. \A i \in DOMAIN caught : caught[i] \in ToSet(dom)
    BY <2>1, <2>8 DEF ToSet
  <2>10. dom' = Only(dom, Elems \ ToSet(caught))
    <3>1. ASSUME NEW i \in DOMAIN caught, NEW k \in 1..(i - 1), caught[k] = caught[i] PROVE FALSE
      <4>1. DOMAIN caught = 1..Len(caught) /\ Len(caught) \in Nat
        BY <2>8, LenProperties
      <4>2. k \in DOMAIN caught /\ k # i
        BY <3>1, <4>1
      <4> QED  BY <2>8b, <3>1, <4>2 DEF Distinct
    <3>2. {i \in DOMAIN caught :
             caught[i] \notin ToSet(dom) \/ \E k \in 1..(i - 1) : caught[k] = caught[i]} = {}
      BY <2>9, <3>1
    <3> QED  BY <2>6, <2>7, <3>2 DEF ObserverRuns, caught
  <2>11. ToSet(dom') = ToSet(dom) \cap (Elems \ ToSet(caught))
    BY <2>2, <2>10, OnlyType
  <2> QED  BY <2>1, <2>8, <2>11
<1>2. HijackInv /\ [HijackNext]_hijackVars => [ObserverIsComplete]_hijackVars
  BY <1>1
<1> QED  BY <1>2, HijackInvAlways, PTL DEF HijackSpec, ObserverRemoves
-------------------------------------------------------------------------------
(* PrpcApp *)

\* The process that runs the servers asks for the proxies of the data servers in the
\* call that creates its servers, and none of those listens before they are there.
HostAsks == Host \in begun => "data" \in starting[Host] \cup rpc[Host]
ListensLate == listening # {} => "data" \in rpc[Host]

PrpcInv == PrpcTypeOK /\ HostAsks /\ ListensLate

\* At the start nobody listens and no program runs.
LEMMA PrpcStarts == PrpcInit => PrpcInv
<1> SUFFICES ASSUME PrpcInit PROVE PrpcInv
  OBVIOUS
<1>1. PrpcTypeOK
  BY DEF PrpcInit, PrpcTypeOK
<1>2. HostAsks /\ ListensLate
  BY DEF PrpcInit, HostAsks, ListensLate
<1> QED  BY <1>1, <1>2 DEF PrpcInv

\* Types.  A router only ever names a server of the configuration.
LEMMA PrpcTypeStep == PrpcTypeOK /\ [PrpcNext]_prpcVars => PrpcTypeOK'
<1> SUFFICES ASSUME PrpcTypeOK, [PrpcNext]_prpcVars PROVE PrpcTypeOK'
  OBVIOUS
<1>r. Route("connector") \subseteq ServerIds /\ Route("data") \subseteq ServerIds
  BY DEF Route, ServerIds
<1>h. Host \in Processes /\ Clients \subseteq Processes
  BY DEF Processes
<1> USE DEF PrpcTypeOK, Methods, Call, Result, ServerTypes
<1>1. CASE RunServer
  BY <1>1, <1>h DEF RunServer, RegisterClient
<1>2. ASSUME NEW k \in Clients, RunClient(k) PROVE PrpcTypeOK'
  BY <1>2, <1>h DEF RunClient, RegisterClient
<1>3. CASE ServerStarted
  BY <1>3, <1>h DEF ServerStarted, AddProxies
<1>4. ASSUME NEW s \in ServerIds, StartServer(s) PROVE PrpcTypeOK'
  BY <1>4 DEF StartServer
<1>5. ASSUME NEW k \in Clients, ClientStarted(k) PROVE PrpcTypeOK'
  <2>1. PICK s \in Route("connector") :
           calls' = calls \cup {[by |-> k, method |-> "login", to |-> s]}
    BY <1>5 DEF ClientStarted
  <2>2. [by |-> k, method |-> "login", to |-> s] \in Call
    BY <1>r
  <2>5. calls' \subseteq Call
    BY <2>1, <2>2
  <2>3. starting' \in [Processes -> SUBSET ServerTypes]
    BY <1>5, <1>h DEF ClientStarted
  <2>4. rpc' \in [Processes -> SUBSET ServerTypes]
    BY <1>5, <1>h DEF ClientStarted, AddProxies
  <2> QED  BY <1>5, <2>3, <2>4, <2>5 DEF ClientStarted
<1>6. ASSUME NEW r \in results, TakeResult(r) PROVE PrpcTypeOK'
  <2>1. r.by \in Clients /\ results' \subseteq Result
        /\ UNCHANGED <<begun, listening, starting, rpc>>
    BY <1>6 DEF TakeResult
  <2>2. CASE LoginResult(r)
    <3>1. PICK s \in Route("connector") :
             calls' = calls \cup {[by |-> r.by, method |-> "friends", to |-> s]}
      BY <2>2 DEF LoginResult
    <3>2. [by |-> r.by, method |-> "friends", to |-> s] \in Call
      BY <1>r, <2>1
    <3>3. calls' \subseteq Call
      BY <3>1, <3>2
    <3> QED  BY <2>1, <2>2, <3>3 DEF LoginResult
  <2>3. CASE FriendsResult(r)
    BY <2>1, <2>3 DEF FriendsResult
  <2> QED  BY <1>6, <2>2, <2>3 DEF TakeResult
<1>7. ASSUME NEW q \in calls, Fail(q) PROVE PrpcTypeOK'
  <2>1. q.by \in Clients
    OBVIOUS
  <2>2. \A m \in {"login", "friends"} : [by |-> q.by, ok |-> FALSE, method |-> m] \in Result
    BY <2>1
  <2>3. results' \subseteq Result
    BY <1>7, <2>2 DEF Fail
  <2> QED  BY <1>7, <2>3 DEF Fail
<1>8. ASSUME NEW q \in calls, Serve(q) PROVE PrpcTypeOK'
  <2>1. q.by \in Clients /\ UNCHANGED <<begun, listening, starting, rpc, said>>
    BY <1>8 DEF Serve
  <2>2. \A s \in Route("data") : [by |-> q.by, method |-> "db.friends", to |-> s] \in Call
    BY <1>r, <2>1
  <2>3. \A m \in {"login", "friends"} : [by |-> q.by, method |-> m, ok |-> TRUE] \in Result
    BY <2>1
  <2>4. calls' \subseteq Call
    <3>1. \/ calls' = calls \ {q}
          \/ \E s \in Route("data") :
                calls' = (calls \ {q}) \cup {[by |-> q.by, method |-> "db.friends", to |-> s]}
      BY <1>8 DEF Serve
    <3>2. calls \subseteq Call
      OBVIOUS
    <3> HIDE DEF Call, PrpcTypeOK
    <3>3. CASE calls' = calls \ {q}
      BY <3>2, <3>3
    <3>4. ASSUME NEW s \in Route("data"),
                 calls' = (calls \ {q}) \cup {[by |-> q.by, method |-> "db.friends", to |-> s]}
          PROVE  calls' \subseteq Call
      <4>1. [by |-> q.by, method |-> "db.friends", to |-> s] \in Call
        BY <2>2
      <4> QED  BY <3>2, <3>4, <4>1
    <3> QED  BY <3>1, <3>3, <3>4
  <2>5. results' \subseteq Result
    BY <1>8, <2>3 DEF Serve
  <2> QED  BY <2>1, <2>4, <2>5
<1>9. CASE UNCHANGED prpcVars
  BY <1>9 DEF prpcVars
<1> QED  BY <1>1, <1>2, <1>3, <1>4, <1>5, <1>6, <1>7, <1>8, <1>9 DEF PrpcNext, Progress

\* No step takes the host's proxies away, and a server listens only when the host has
\* nothing left to start.
LEMMA PrpcHolds == PrpcInv /\ [PrpcNext]_prpcVars => PrpcInv'
<1> SUFFICES ASSUME PrpcInv, [PrpcNext]_prpcVars PROVE PrpcInv'
  OBVIOUS
<1>t. PrpcTypeOK /\ PrpcTypeOK' /\ HostAsks /\ ListensLate
  BY PrpcTypeStep DEF PrpcInv
<1>c. \A k \in Clients : k # Host
  BY PrpcAssumption
<1> USE DEF HostAsks, ListensLate, PrpcTypeOK, Processes
<1>1. ASSUME RunServer PROVE HostAsks' /\ ListensLate'
  BY <1>1, <1>t DEF RunServer, RegisterClient
<1>2. ASSUME NEW k \in Clients, RunClient(k) PROVE HostAsks' /\ ListensLate'
  BY <1>2, <1>t, <1>c DEF RunClient, RegisterClient
<1>3. ASSUME ServerStarted PROVE HostAsks' /\ ListensLate'
  BY <1>3, <1>t DEF ServerStarted, AddProxies
<1>4. ASSUME NEW s \in ServerIds, StartServer(s) PROVE HostAsks' /\ ListensLate'
  BY <1>4, <1>t DEF StartServer
<1>5. ASSUME NEW k \in Clients, ClientStarted(k) PROVE HostAsks' /\ ListensLate'
  BY <1>5, <1>t, <1>c DEF ClientStarted, AddProxies
<1>6. ASSUME NEW r, TakeResult(r) PROVE HostAsks' /\ ListensLate'
  BY <1>6, <1>t DEF TakeResult
<1>7. ASSUME NEW q, Fail(q) PROVE HostAsks' /\ ListensLate'
  BY <1>7, <1>t DEF Fail
<1>8. ASSUME NEW q, Serve(q) PROVE HostAsks' /\ ListensLate'
  BY <1>8, <1>t DEF Serve
<1>9. ASSUME UNCHANGED prpcVars PROVE HostAsks' /\ ListensLate'
  BY <1>9, <1>t DEF prpcVars
<1> HIDE DEF HostAsks, ListensLate, PrpcTypeOK
<1>10. HostAsks' /\ ListensLate'
  BY <1>1, <1>2, <1>3, <1>4, <1>5, <1>6, <1>7, <1>8, <1>9 DEF PrpcNext, Progress
<1> QED  BY <1>t, <1>10 DEF PrpcInv

\* The inductive invariant.
THEOREM PrpcInvAlways == PrpcSpec => []PrpcInv
<1>1. PrpcInit => PrpcInv
  BY PrpcStarts
<1>2. PrpcInv /\ [PrpcNext]_prpcVars => PrpcInv'
  BY PrpcHolds
<1> QED  BY <1>1, <1>2, PTL DEF PrpcSpec

\* Every variable keeps its type: calls only ever go to servers of the configuration.
THEOREM PrpcTypeCorrect == PrpcSpec => []PrpcTypeOK
<1>1. PrpcInv => PrpcTypeOK
  BY DEF PrpcInv
<1> QED  BY <1>1, PrpcInvAlways, PTL

\* connector/user.js finds app.rpc.data when it is asked for friends.
THEOREM ProxyBeforeUseAlways == PrpcSpec => []ProxyBeforeUse
<1>1. PrpcInv => ProxyBeforeUse
  BY DEF PrpcInv, ListensLate, ProxyBeforeUse
<1> QED  BY <1>1, PrpcInvAlways, PTL

-------------------------------------------------------------------------------
(* JSBridge *)

\* Page to host: ids are given in order, an address names the latest notification, and
\* what the host has got is over: not in the table, and never ahead of it if the host
\* fetches everything
NotesInv ==
    /\ notificationDict \subseteq 1..notificationIdCount
    /\ \A i \in DOMAIN fetched :
           fetched[i] <= notificationIdCount /\ fetched[i] \notin notificationDict
    /\ location \in Ids => location = notificationIdCount
    /\ Fetches = "all" => \A i \in DOMAIN fetched : \A id \in notificationDict : fetched[i] < id
    /\ FetchedInOrder

\* Host to page: until unbind(name, callback) cuts the array of the running trigger,
\* its first len entries are those that were bound when it began, and it has called i
FrameInv ==
    frame.arr # 0 /\ ~frame.cut =>
        /\ frame.len <= Len(arrays[frame.arr])
        /\ frame.bound = {arrays[frame.arr][j] : j \in 1..frame.len}
        /\ frame.called = {arrays[frame.arr][j] : j \in 1..frame.i}

\* The table and the running trigger hold arrays that bind has made
ArraysInv ==
    /\ \A n \in Names : callbackDict[n] <= Len(arrays)
    /\ frame.arr <= Len(arrays)
    /\ frame.arr = 0 => frame = Idle

-------------------------------------------------------------------------------
(* Sets of numbers and the sequences made of them *)

\* Every nonempty set of natural numbers has a least element.
LEMMA LeastNumber ==
  ASSUME NEW T, T \subseteq Nat, T # {}
  PROVE  \E n \in T : \A m \in T : n <= m
<1> DEFINE R == OpToRel(<, Nat)
<1>1. IsWellFoundedOn(R, Nat)
  BY NatLessThanWellFounded
<1>2. \A x, y \in Nat : x < y => <<x, y>> \in R
  BY DEF OpToRel
<1> HIDE DEF R
<1>3. PICK n \in T : \A m \in T : <<m, n>> \notin R
  BY <1>1, WFMin
<1>4. ASSUME NEW m \in T PROVE n <= m
  <2>1. m \in Nat /\ n \in Nat
    OBVIOUS
  <2>2. ~ (m < n)
    BY <1>2, <1>3, <2>1
  <2> QED  BY <2>1, <2>2
<1> QED  BY <1>4

\* s lists the elements of S in ascending order
Lists(s, S) ==
    /\ s \in [1..Cardinality(S) -> S]
    /\ \A i, j \in 1..Cardinality(S) : i < j => s[i] < s[j]

\* Every set of numbers up to n can be listed: the least n that has a set without a
\* list would have one for the set without n, and n goes to its end.
LEMMA AscendingExists ==
  ASSUME NEW n \in Nat, NEW S \in SUBSET (1..n)
  PROVE  \E s : Lists(s, S)
<1> DEFINE T == {k \in Nat : \E Q \in SUBSET (1..k) : \A s : ~Lists(s, Q)}
<1> SUFFICES ASSUME T # {} PROVE FALSE
  OBVIOUS
<1>1. PICK k \in T : \A m \in T : k <= m
  BY LeastNumber
<1>2. PICK Q \in SUBSET (1..k) : \A s : ~Lists(s, Q)
  OBVIOUS
<1>3. k \in Nat
  OBVIOUS
<1>4. \A m \in Nat : m < k => \A P \in SUBSET (1..m) : \E s : Lists(s, P)
  <2> SUFFICES ASSUME NEW m \in Nat, m < k, NEW P \in SUBSET (1..m), \A s : ~Lists(s, P)
               PROVE  FALSE
    OBVIOUS
  <2>1. m \in T
    OBVIOUS
  <2> HIDE DEF T
  <2> QED  BY <1>1, <1>3, <2>1
<1> HIDE DEF T
<1>5. IsFiniteSet(Q) /\ Cardinality(Q) \in Nat
  <2>1. IsFiniteSet(1..k)
    BY <1>3, FS_Interval
  <2> QED  BY <1>2, <2>1, FS_Subset, FS_CardinalityType
<1>6. CASE k = 0
  <2>1. Q = {}
    BY <1>6
  <2>3. Cardinality(Q) = 0
    BY <2>1, FS_EmptySet
  <2>2. Lists([i \in 1..0 |-> 0], Q)
    BY <2>1, <2>3 DEF Lists
  <2> QED  BY <1>2, <2>2
<1>7. CASE k # 0 /\ k \notin Q
  <2>1. k - 1 \in Nat /\ k - 1 < k /\ Q \in SUBSET (1..(k - 1))
    BY <1>3, <1>7
  <2> QED  BY <1>2, <1>4, <2>1
<1>8. CASE k # 0 /\ k \in Q
  <2> DEFINE P == Q \ {k}
  <2>1. k - 1 \in Nat /\ k - 1 < k /\ P \in SUBSET (1..(k - 1))
    BY <1>3, <1>8
  <2>2. PICK s : Lists(s, P)
    BY <1>4, <2>1
  <2>3. Cardinality(P) = Cardinality(Q) - 1 /\ Cardinality(P) \in Nat
    BY <1>5, <1>8, FS_RemoveElement, FS_CardinalityType
  <2>4. P \subseteq Q /\ P \subseteq 1..(k - 1)
    BY <2>1
  <2> HIDE DEF P
  <2> DEFINE c == Cardinality(Q)
             r == [i \in 1..c |-> IF i = c THEN k ELSE s[i]]
  <2>5. /\ c \in Nat /\ c > 0
        /\ s \in [1..(c - 1) -> P]
        /\ \A i, j \in 1..(c - 1) : i < j => s[i] < s[j]
    BY <1>5, <2>2, <2>3 DEF Lists
  <2> HIDE DEF c
  <2>6. r \in [1..c -> Q]
    <3>1. \A i \in 1..c : i # c => i \in 1..(c - 1)
      BY <2>5
    <3>2. ASSUME NEW i \in 1..c PROVE r[i] \in Q
      BY <1>8, <2>4, <2>5, <3>1
    <3> QED  BY <3>2
  <2>7. \A i, j \in 1..c : i < j => r[i] < r[j]
    <3>1. \A i \in 1..(c - 1) : s[i] \in 1..(k - 1)
      BY <2>4, <2>5
    <3> SUFFICES ASSUME NEW i \in 1..c, NEW j \in 1..c, i < j PROVE r[i] < r[j]
      OBVIOUS
    <3>2. i \in 1..(c - 1) /\ r[i] = s[i]
      BY <2>5
    <3>3. CASE j = c
      BY <1>3, <3>1, <3>2, <3>3
    <3>4. CASE j # c
      BY <2>5, <3>2, <3>4
    <3> QED  BY <3>3, <3>4
  <2>8. Lists(r, Q)
    BY <2>6, <2>7 DEF Lists, c
  <2> QED  BY <1>2, <2>8
<1> QED  BY <1>6, <1>7, <1>8

\* What Ascending returns.
LEMMA AscendingLists ==
  ASSUME NEW n \in Nat, NEW S \in SUBSET (1..n)
  PROVE  /\ Ascending(S) \in Seq(S)
         /\ \A i, j \in DOMAIN Ascending(S) : i < j => Ascending(S)[i] < Ascending(S)[j]
<1>1. Lists(Ascending(S), S)
  BY AscendingExists DEF Ascending, Lists
<1>2. Cardinality(S) \in Nat
  <2>1. IsFiniteSet(1..n)
    BY FS_Interval
  <2> QED  BY <2>1, FS_Subset, FS_CardinalityType
<1> QED  BY <1>1, <1>2 DEF Lists

\* splice(i, 1) leaves a sequence of callbacks.
LEMMA RemoveFirstType ==
  ASSUME NEW S, NEW s \in Seq(S), NEW e
  PROVE  RemoveFirst(s, e) \in Seq(S)
<1> DEFINE I == {i \in 1..Len(s) : s[i] = e}
<1>1. CASE \E i \in 1..Len(s) : s[i] = e
  <2>1. I # {} /\ I \subseteq Nat
    BY <1>1
  <2>2. PICK k \in I : \A m \in I : k <= m
    BY <2>1, LeastNumber
  <2>3. RemoveFirst(s, e) = RemoveAt(s, Min(I))
    BY <1>1, <2>1 DEF RemoveFirst, SelectInSeq
  <2>4. Min(I) \in I
    BY <2>2 DEF Min
  <2>5. Min(I) \in 1..Len(s)
    BY <2>4
  <2> HIDE DEF I
  <2> DEFINE m == Min(I)
  <2> HIDE DEF m
  <2>6. m \in 1..Len(s) /\ RemoveFirst(s, e) = SubSeq(s, 1, m - 1) \o SubSeq(s, m + 1, Len(s))
    BY <2>3, <2>5 DEF m, RemoveAt
  <2> QED  BY <2>6
<1>2. CASE ~ \E i \in 1..Len(s) : s[i] = e
  BY <1>2 DEF RemoveFirst
<1> QED  BY <1>1, <1>2


-------------------------------------------------------------------------------
(* Types *)

Frames == [arr : 0..MaxArrays, i : Nat, len : Nat,
           bound : SUBSET Callbacks, called : SUBSET Callbacks, cut : BOOLEAN, threw : BOOLEAN]

\* What a pop of everything gives the host.
LEMMA PopAllEffect ==
  ASSUME BridgeTypeOK, popAllNotificationObject
  PROVE  /\ notificationDict' = {}
         /\ fetched' = fetched \o Ascending(notificationDict)
         /\ Ascending(notificationDict) \in Seq(Ids)
         /\ \A i \in DOMAIN Ascending(notificationDict) :
                Ascending(notificationDict)[i] \in notificationDict
         /\ \A i, j \in DOMAIN Ascending(notificationDict) :
                i < j => Ascending(notificationDict)[i] < Ascending(notificationDict)[j]
<1> DEFINE s == Ascending(notificationDict)
<1>1. MaxNotes \in Nat /\ notificationDict \in SUBSET (1..MaxNotes)
  BY BridgeAssumption DEF BridgeTypeOK, Ids
<1>2. s \in Seq(notificationDict) /\ \A i, j \in DOMAIN s : i < j => s[i] < s[j]
  BY <1>1, AscendingLists
<1> HIDE DEF s
<1>3. \A i \in DOMAIN s : s[i] \in notificationDict
  BY <1>2
<1>4. s \in Seq(Ids)
  BY <1>1, <1>2, SeqMonotonic DEF Ids
<1> QED  BY <1>2, <1>3, <1>4 DEF s, popAllNotificationObject

\* What an address fetches.
LEMMA FetchCases ==
  ASSUME HostFetches
  PROVE  /\ location' = 0 /\ location # 0
         /\ UNCHANGED <<callVars, notificationIdCount, ready>>
         /\ \/ Fetches = "all" /\ popAllNotificationObject
            \/ /\ location # NotificationReady /\ location \in notificationDict
               /\ Fetches = "one" /\ fetched' = Append(fetched, location)
               /\ notificationDict' = notificationDict \ {location}
            \/ fetched' = fetched /\ notificationDict' \in SUBSET notificationDict
BY DEF HostFetches, popNotificationObject

\* The variables of the two directions keep their types.
LEMMA NotesTypeStep ==
  ASSUME BridgeTypeOK, NotesNext
  PROVE  BridgeTypeOK'
<1>1. MaxNotes \in Nat
  BY BridgeAssumption
<1> USE DEF Ids, NotificationReady
<1>2. CASE ContentLoaded
  BY <1>1, <1>2 DEF ContentLoaded, BridgeTypeOK, callVars
<1>3. CASE postNotification
  <2>1. notificationIdCount + 1 \in Ids
    BY <1>1, <1>3 DEF postNotification, BridgeTypeOK
  <2> QED  BY <1>1, <1>3, <2>1 DEF postNotification, BridgeTypeOK, callVars
<1>4. CASE HostFetches
  <2>1. fetched' \in Seq(Ids) /\ notificationDict' \subseteq Ids
    <3>1. CASE Fetches = "all" /\ popAllNotificationObject
      <4>1. /\ notificationDict' = {}
            /\ fetched' = fetched \o Ascending(notificationDict)
            /\ Ascending(notificationDict) \in Seq(Ids)
        BY <3>1, PopAllEffect
      <4> QED  BY <4>1 DEF BridgeTypeOK
    <3>2. CASE /\ location # NotificationReady /\ location \in notificationDict
               /\ Fetches = "one" /\ fetched' = Append(fetched, location)
               /\ notificationDict' = notificationDict \ {location}
      BY <3>2 DEF BridgeTypeOK
    <3>3. CASE fetched' = fetched /\ notificationDict' \in SUBSET notificationDict
      BY <3>3 DEF BridgeTypeOK
    <3> QED  BY <1>4, <3>1, <3>2, <3>3, FetchCases
  <2> QED  BY SMTT(30), <1>1, <1>4, <2>1, FetchCases DEF BridgeTypeOK, callVars
<1> QED  BY <1>2, <1>3, <1>4 DEF NotesNext

\* The trigger and the table keep to the arrays there are.
LEMMA CallsTypeStep ==
  ASSUME BridgeTypeOK, ArraysInv, CallsNext
  PROVE  BridgeTypeOK' /\ ArraysInv'
<1>1. MaxArrays \in Nat /\ Len(arrays) \in Nat /\ Len(arrays) <= MaxArrays
  BY BridgeAssumption DEF BridgeTypeOK
<1>2. /\ arrays \in Seq(Seq(Callbacks)) /\ frame \in Frames /\ frame.i <= frame.len
      /\ callbackDict \in [Names -> 0..MaxArrays]
      /\ \A n \in Names : callbackDict[n] \in 0..Len(arrays)
      /\ frame.arr \in 0..Len(arrays)
  BY <1>1 DEF BridgeTypeOK, Frames, ArraysInv
<1> SUFFICES ASSUME UNCHANGED noteVars
             PROVE  /\ callbackDict' \in [Names -> 0..MaxArrays]
                    /\ arrays' \in Seq(Seq(Callbacks)) /\ Len(arrays') <= MaxArrays
                    /\ frame' \in Frames /\ frame'.i <= frame'.len
                    /\ \A n \in Names : callbackDict'[n] <= Len(arrays')
                    /\ frame'.arr <= Len(arrays')
                    /\ frame'.arr = 0 => frame' = Idle
  <2>1. UNCHANGED noteVars
    BY DEF CallsNext, unbindAll, bind, unbind, trigger, CallNext, TriggerEnds
  <2> QED  BY <2>1 DEF BridgeTypeOK, ArraysInv, Frames, noteVars
<1> DEFINE Kept == /\ callbackDict' \in [Names -> 0..MaxArrays]
                   /\ arrays' \in Seq(Seq(Callbacks)) /\ Len(arrays') <= MaxArrays
                   /\ frame' \in Frames /\ frame'.i <= frame'.len
                   /\ \A n \in Names : callbackDict'[n] <= Len(arrays')
                   /\ frame'.arr <= Len(arrays')
                   /\ frame'.arr = 0 => frame' = Idle
<1>a. frame.arr = 0 => frame = Idle
  BY DEF ArraysInv
<1> HIDE DEF ArraysInv, BridgeTypeOK
<1>3. ASSUME NEW n \in Names, unbindAll(n) PROVE Kept
  BY <1>a, <1>1, <1>2, <1>3 DEF unbindAll
<1>4. ASSUME NEW n \in Names, NEW cb \in Callbacks, bind(n, cb) PROVE Kept
  <2>1. CASE callbackDict[n] = 0
    <3>1. /\ Len(arrays) < MaxArrays /\ arrays' = Append(arrays, <<cb>>)
          /\ callbackDict' = [callbackDict EXCEPT ![n] = Len(arrays) + 1]
          /\ UNCHANGED frame
      BY <1>4, <2>1 DEF bind
    <3>2. /\ <<cb>> \in Seq(Callbacks)
          /\ arrays' \in Seq(Seq(Callbacks)) /\ Len(arrays') = Len(arrays) + 1
      BY <1>2, <3>1
    <3> QED  BY <1>a, <1>1, <1>2, <3>1, <3>2
  <2>2. CASE callbackDict[n] # 0
    <3> DEFINE a == callbackDict[n]
    <3>1. /\ arrays' = [arrays EXCEPT ![a] = Append(@, cb)]
          /\ UNCHANGED <<callbackDict, frame>>
      BY <1>4, <2>2 DEF bind
    <3>2. a \in 1..Len(arrays) /\ arrays[a] \in Seq(Callbacks)
      BY <1>1, <1>2, <2>2
    <3>3. arrays' \in Seq(Seq(Callbacks)) /\ Len(arrays') = Len(arrays)
      <4>1. Append(arrays[a], cb) \in Seq(Callbacks)
        BY <3>2
      <4> QED  BY <1>2, <3>1, <3>2, <4>1, ExceptSeq
    <3> QED  BY <1>a, <1>1, <1>2, <3>1, <3>3
  <2> QED  BY <2>1, <2>2
<1>5. ASSUME NEW n \in Names, NEW cb \in Callbacks, unbind(n, cb) PROVE Kept
  <2> DEFINE a == callbackDict[n]
  <2>1. /\ a # 0 /\ arrays' = [arrays EXCEPT ![a] = RemoveFirst(@, cb)]
        /\ callbackDict' = IF arrays'[a] = <<>> THEN [callbackDict EXCEPT ![n] = 0]
                           ELSE callbackDict
        /\ \/ frame' = frame
           \/ a = frame.arr /\ frame' = [frame EXCEPT !.cut = TRUE]
    BY <1>5 DEF unbind
  <2>2. a \in 1..Len(arrays) /\ arrays[a] \in Seq(Callbacks)
    BY <1>1, <1>2, <2>1
  <2>3. arrays' \in Seq(Seq(Callbacks)) /\ Len(arrays') = Len(arrays)
    <3>1. RemoveFirst(arrays[a], cb) \in Seq(Callbacks)
      BY <2>2, RemoveFirstType
    <3> QED  BY <1>2, <2>1, <2>2, <3>1, ExceptSeq
  <2>4. /\ frame' \in Frames /\ frame'.i <= frame'.len /\ frame'.arr = frame.arr
        /\ frame'.arr = 0 => frame' = Idle
    BY <1>a, <1>2, <2>1 DEF Frames
  <2> HIDE DEF a
  <2>5. /\ callbackDict' \in [Names -> 0..MaxArrays]
        /\ \A m \in Names : callbackDict'[m] \in {0, callbackDict[m]}
    BY <1>1, <1>2, <2>1
  <2>6. ASSUME NEW m \in Names PROVE callbackDict'[m] <= Len(arrays')
    <3>1. callbackDict[m] \in 0..Len(arrays)
      BY <1>2
    <3>2. callbackDict'[m] = 0 \/ callbackDict'[m] = callbackDict[m]
      BY <2>5
    <3> QED  BY <1>1, <2>3, <3>1, <3>2
  <2>7. frame'.arr <= Len(arrays')
    BY <1>2, <2>1, <2>3, <2>4
  <2> QED  BY <1>1, <2>3, <2>4, <2>5, <2>6, <2>7
<1>6. ASSUME NEW n \in Names, trigger(n) PROVE Kept
  <2> DEFINE a == callbackDict[n]
  <2>1. /\ a # 0 /\ UNCHANGED <<callbackDict, arrays>>
        /\ frame' = [arr |-> a, i |-> 0, len |-> Len(arrays[a]), bound |-> ToSet(arrays[a]),
                     called |-> {}, cut |-> FALSE, threw |-> FALSE]
    BY <1>6 DEF trigger
  <2>2. a \in 1..Len(arrays) /\ a \in 0..MaxArrays /\ arrays[a] \in Seq(Callbacks)
    BY <1>1, <1>2, <2>1
  <2>3. Len(arrays[a]) \in Nat /\ ToSet(arrays[a]) \in SUBSET Callbacks
    BY <2>2 DEF ToSet
  <2> HIDE DEF a
  <2>4. frame' \in Frames /\ frame'.i <= frame'.len /\ frame'.arr = a
    BY <2>1, <2>2, <2>3 DEF Frames
  <2> QED  BY <1>1, <1>2, <2>1, <2>2, <2>4
<1>7. ASSUME CallNext PROVE Kept
  <2>1. /\ frame.i < frame.len /\ frame.i < Len(arrays[frame.arr])
        /\ \E threw \in BOOLEAN :
              frame' = [frame EXCEPT !.i = @ + 1, !.threw = threw,
                                     !.called = @ \cup {arrays[frame.arr][frame.i + 1]}]
        /\ UNCHANGED <<callbackDict, arrays>>
    BY <1>7 DEF CallNext
  <2>2. frame.arr # 0
    BY <1>a, <2>1 DEF Idle
  <2>3. frame.arr \in 1..Len(arrays) /\ arrays[frame.arr] \in Seq(Callbacks)
    BY <1>2, <2>2
  <2>4. arrays[frame.arr][frame.i + 1] \in Callbacks
    BY <1>2, <2>1, <2>3 DEF Frames
  <2> DEFINE cb == arrays[frame.arr][frame.i + 1]
  <2>5. /\ frame.i \in Nat /\ frame.len \in Nat /\ frame.called \in SUBSET Callbacks
        /\ \E threw \in BOOLEAN :
              frame' = [frame EXCEPT !.i = @ + 1, !.threw = threw, !.called = @ \cup {cb}]
        /\ cb \in Callbacks
    BY <1>2, <2>1, <2>4 DEF Frames
  <2> HIDE DEF cb
  <2>6. frame.i + 1 \in Nat /\ frame.i + 1 <= frame.len /\ frame.called \cup {cb} \in SUBSET Callbacks
    BY <2>1, <2>5
  <2>7. frame' \in Frames /\ frame'.i = frame.i + 1 /\ frame'.len = frame.len /\ frame'.arr = frame.arr
    BY <1>2, <2>5, <2>6 DEF Frames
  <2> QED  BY <1>1, <1>2, <2>1, <2>2, <2>6, <2>7
<1>8. ASSUME TriggerEnds PROVE Kept
  <2>1. Idle \in Frames /\ Idle.arr = 0 /\ Idle.i = Idle.len
    BY <1>1 DEF Idle, Frames
  <2> QED  BY <1>1, <1>2, <1>8, <2>1 DEF TriggerEnds, Idle
<1> QED  BY <1>3, <1>4, <1>5, <1>6, <1>7, <1>8 DEF CallsNext

-------------------------------------------------------------------------------
(* Page to host *)

\* Ids are given in order and fetched in order.
LEMMA NotesStep ==
  ASSUME BridgeTypeOK, NotesInv, NotesNext
  PROVE  NotesInv'
<1>1. /\ MaxNotes \in Nat /\ Fetches \in {"all", "one"}
      /\ notificationIdCount \in 0..MaxNotes
      /\ notificationDict \subseteq 1..notificationIdCount
      /\ fetched \in Seq(Ids)
  BY BridgeAssumption DEF BridgeTypeOK, NotesInv
<1>2. \A i \in DOMAIN fetched :
         /\ fetched[i] \in 1..notificationIdCount /\ fetched[i] \notin notificationDict
         /\ Fetches = "all" => \A id \in notificationDict : fetched[i] < id
  BY <1>1 DEF NotesInv, Ids
<1>3. \A i, j \in DOMAIN fetched : i < j => fetched[i] < fetched[j]
  BY DEF NotesInv, FetchedInOrder
<1>4. location \in Ids => location = notificationIdCount
  BY DEF NotesInv
<1> USE DEF NotesInv, FetchedInOrder, NotificationReady, Ids
<1>5. CASE ContentLoaded
  BY <1>1, <1>2, <1>3, <1>5 DEF ContentLoaded
<1>6. CASE postNotification
  <2>1. /\ notificationIdCount' = notificationIdCount + 1 /\ fetched' = fetched
        /\ notificationDict' = notificationDict \cup {notificationIdCount + 1}
        /\ location' = notificationIdCount + 1
    BY <1>6 DEF postNotification
  <2>2. \A i \in DOMAIN fetched : fetched[i] < notificationIdCount + 1
    BY <1>1, <1>2
  <2> QED  BY <1>1, <1>2, <1>3, <2>1, <2>2
<1>7. CASE HostFetches
  <2>0. location' = 0 /\ location # 0 /\ notificationIdCount' = notificationIdCount
    BY <1>7, FetchCases
  <2>1. CASE Fetches = "all" /\ popAllNotificationObject
    <3> DEFINE s == Ascending(notificationDict)
    <3>1. /\ notificationDict' = {} /\ fetched' = fetched \o s /\ s \in Seq(Ids)
          /\ \A i \in DOMAIN s : s[i] \in notificationDict
          /\ \A i, j \in DOMAIN s : i < j => s[i] < s[j]
      BY <2>1, PopAllEffect
    <3> HIDE DEF s, NotesInv, FetchedInOrder
    <3> DEFINE m == Len(fetched)
    <3>2. /\ m \in Nat /\ Len(s) \in Nat /\ DOMAIN fetched = 1..m /\ DOMAIN s = 1..Len(s)
          /\ DOMAIN fetched' = 1..(m + Len(s))
          /\ \A i \in 1..(m + Len(s)) :
                fetched'[i] = IF i <= m THEN fetched[i] ELSE s[i - m]
      BY <1>1, <3>1
    <3> HIDE DEF m
    <3>3. \A i \in 1..(m + Len(s)) : i > m => i - m \in DOMAIN s /\ fetched'[i] = s[i - m]
      BY <3>2
    <3>4. \A i \in 1..(m + Len(s)) : i <= m => i \in DOMAIN fetched /\ fetched'[i] = fetched[i]
      BY <3>2
    <3>5. ASSUME NEW i \in DOMAIN fetched' PROVE fetched'[i] <= notificationIdCount
      BY SMTT(30), <1>1, <1>2, <3>1, <3>2, <3>3, <3>4
    <3>6. ASSUME NEW i \in DOMAIN fetched', NEW j \in DOMAIN fetched', i < j
          PROVE  fetched'[i] < fetched'[j]
      <4>1. i \in Nat /\ j \in Nat
        BY <3>2
      <4>2. CASE j <= m
        BY <1>3, <3>2, <3>4, <3>6, <4>1, <4>2
      <4>3. CASE i <= m /\ j > m
        BY <1>2, <2>1, <3>1, <3>2, <3>3, <3>4, <4>3
      <4>4. CASE i > m /\ j > m
        <5>1. i - m \in DOMAIN s /\ j - m \in DOMAIN s /\ i - m < j - m
          BY <3>2, <3>3, <3>6, <4>4
        <5> QED  BY <3>1, <3>2, <3>3, <4>4, <5>1
      <4> QED  BY <3>2, <3>6, <4>1, <4>2, <4>3, <4>4
    <3> QED  BY SMTT(30), <2>0, <3>1, <3>5, <3>6 DEF NotesInv, FetchedInOrder
  <2>2. CASE /\ location # NotificationReady /\ location \in notificationDict
             /\ Fetches = "one" /\ fetched' = Append(fetched, location)
             /\ notificationDict' = notificationDict \ {location}
    <3> HIDE DEF NotesInv, FetchedInOrder
    <3> DEFINE m == Len(fetched)
    <3>1. location \in Ids /\ location = notificationIdCount
      BY <1>1, <1>4, <2>2
    <3>2. /\ m \in Nat /\ DOMAIN fetched = 1..m /\ DOMAIN fetched' = 1..(m + 1)
          /\ \A i \in 1..(m + 1) : fetched'[i] = IF i <= m THEN fetched[i] ELSE location
      BY <1>1, <2>2, <3>1
    <3> HIDE DEF m
    <3>3. ASSUME NEW i \in DOMAIN fetched'
          PROVE  /\ fetched'[i] <= notificationIdCount /\ fetched'[i] \notin notificationDict'
      BY <1>1, <1>2, <2>2, <3>1, <3>2
    <3>4. ASSUME NEW i \in DOMAIN fetched', NEW j \in DOMAIN fetched', i < j
          PROVE  fetched'[i] < fetched'[j]
      <4>1. i \in 1..m /\ fetched'[i] = fetched[i]
        BY <3>2, <3>4
      <4>2. CASE j <= m
        BY <1>3, <3>2, <3>4, <4>1, <4>2
      <4>3. CASE j > m
        <5>1. fetched'[j] = location
          BY <3>2, <4>3
        <5>2. fetched[i] \in 1..notificationIdCount /\ fetched[i] # location
          BY <1>2, <2>2, <3>2, <4>1
        <5> QED  BY <1>1, <3>1, <4>1, <5>1, <5>2
      <4> QED  BY <3>2, <4>2, <4>3
    <3> QED  BY <1>1, <2>0, <2>2, <3>3, <3>4 DEF NotesInv, FetchedInOrder
  <2>3. CASE fetched' = fetched /\ notificationDict' \in SUBSET notificationDict
    BY <1>1, <1>2, <1>3, <2>0, <2>3
  <2> QED  BY <1>7, <2>1, <2>2, <2>3, FetchCases
<1> QED  BY <1>5, <1>6, <1>7 DEF NotesNext

-------------------------------------------------------------------------------
(* Host to page *)

\* Nobody but unbind(name, callback) takes anything out of the array that a running
\* trigger walks.
LEMMA FrameStep ==
  ASSUME BridgeTypeOK, ArraysInv, FrameInv, CallsNext
  PROVE  FrameInv'
<1>1. MaxArrays \in Nat /\ Len(arrays) \in Nat
  BY BridgeAssumption DEF BridgeTypeOK
<1>2. /\ arrays \in Seq(Seq(Callbacks)) /\ frame \in Frames /\ frame.i <= frame.len
      /\ \A n \in Names : callbackDict[n] \in 0..Len(arrays)
      /\ frame.arr \in 0..Len(arrays)
      /\ frame.arr = 0 => frame = Idle
  BY <1>1 DEF BridgeTypeOK, Frames, ArraysInv
<1> HIDE DEF BridgeTypeOK, ArraysInv
<1> DEFINE Same == /\ frame' = frame
                   /\ frame.arr # 0 =>
                        /\ Len(arrays[frame.arr]) <= Len(arrays'[frame.arr])
                        /\ \A j \in 1..Len(arrays[frame.arr]) :
                              arrays'[frame.arr][j] = arrays[frame.arr][j]
<1>3. ASSUME Same, Len(arrays') \in Nat, arrays' \in Seq(Seq(Callbacks)),
             frame.arr \in 0..Len(arrays')
      PROVE  FrameInv'
  <2> SUFFICES ASSUME frame.arr # 0, ~frame.cut
               PROVE  /\ frame.len <= Len(arrays'[frame.arr])
                      /\ frame.bound = {arrays'[frame.arr][j] : j \in 1..frame.len}
                      /\ frame.called = {arrays'[frame.arr][j] : j \in 1..frame.i}
    BY <1>3 DEF FrameInv
  <2> DEFINE a == arrays[frame.arr]
             b == arrays'[frame.arr]
  <2>1. /\ frame.len <= Len(a) /\ frame.bound = {a[j] : j \in 1..frame.len}
        /\ frame.called = {a[j] : j \in 1..frame.i}
    BY DEF FrameInv
  <2>2. Len(a) <= Len(b) /\ \A j \in 1..Len(a) : b[j] = a[j]
    BY <1>3
  <2>3. Len(a) \in Nat /\ Len(b) \in Nat /\ frame.len \in Nat /\ frame.i \in Nat
    BY SMTT(30), <1>2, <1>3 DEF Frames
  <2> HIDE DEF a, b, Same
  <2>4. \A j \in 1..frame.len : b[j] = a[j]
    BY <2>1, <2>2, <2>3
  <2>5. \A j \in 1..frame.i : b[j] = a[j]
    BY <1>2, <2>3, <2>4
  <2>6. /\ frame.len <= Len(b) /\ frame.bound = {b[j] : j \in 1..frame.len}
        /\ frame.called = {b[j] : j \in 1..frame.i}
    BY SMTT(30), <2>1, <2>2, <2>3, <2>4, <2>5
  <2> QED  BY <2>6 DEF b
<1>4. ASSUME frame' = frame, arrays' = arrays PROVE FrameInv'
  BY <1>4 DEF FrameInv
<1>5. ASSUME NEW n \in Names, NEW cb \in Callbacks, bind(n, cb) PROVE FrameInv'
  <2>1. CASE callbackDict[n] = 0
    <3>1. arrays' = Append(arrays, <<cb>>) /\ frame' = frame
      BY <1>5, <2>1 DEF bind
    <3>2. /\ arrays' \in Seq(Seq(Callbacks)) /\ Len(arrays') = Len(arrays) + 1
          /\ \A k \in 1..Len(arrays) : arrays'[k] = arrays[k]
      <4>1. <<cb>> \in Seq(Callbacks)
        OBVIOUS
      <4> QED  BY <1>2, <3>1, <4>1
    <3>3. frame.arr # 0 => arrays'[frame.arr] = arrays[frame.arr] /\ Len(arrays[frame.arr]) \in Nat
      BY <1>1, <1>2, <3>2
    <3> QED  BY <1>1, <1>2, <1>3, <3>1, <3>2, <3>3
  <2>2. CASE callbackDict[n] # 0
    <3> DEFINE a == callbackDict[n]
    <3>1. arrays' = [arrays EXCEPT ![a] = Append(@, cb)] /\ frame' = frame
      BY <1>5, <2>2 DEF bind
    <3>2. a \in 1..Len(arrays) /\ arrays[a] \in Seq(Callbacks)
      BY <1>1, <1>2, <2>2
    <3>3. /\ Append(arrays[a], cb) \in Seq(Callbacks)
          /\ Len(arrays[a]) \in Nat /\ Len(Append(arrays[a], cb)) = Len(arrays[a]) + 1
          /\ \A j \in 1..Len(arrays[a]) : Append(arrays[a], cb)[j] = arrays[a][j]
      BY <3>2
    <3>4. /\ arrays' \in Seq(Seq(Callbacks)) /\ Len(arrays') = Len(arrays)
          /\ \A k \in 1..Len(arrays) :
                arrays'[k] = IF k = a THEN Append(arrays[a], cb) ELSE arrays[k]
      BY <1>2, <3>1, <3>2, <3>3, ExceptSeq
    <3> HIDE DEF a
    <3>5. frame.arr # 0 =>
             /\ Len(arrays[frame.arr]) <= Len(arrays'[frame.arr])
             /\ \A j \in 1..Len(arrays[frame.arr]) :
                   arrays'[frame.arr][j] = arrays[frame.arr][j]
      <4> SUFFICES ASSUME frame.arr # 0
                   PROVE  /\ Len(arrays[frame.arr]) <= Len(arrays'[frame.arr])
                          /\ \A j \in 1..Len(arrays[frame.arr]) :
                                arrays'[frame.arr][j] = arrays[frame.arr][j]
        OBVIOUS
      <4>1. frame.arr \in 1..Len(arrays) /\ Len(arrays[frame.arr]) \in Nat
        BY <1>1, <1>2
      <4>2. CASE frame.arr = a
        <5> DEFINE r == Append(arrays[a], cb)
        <5>1. Len(arrays[a]) <= Len(r) /\ \A j \in 1..Len(arrays[a]) : r[j] = arrays[a][j]
          BY <3>3
        <5>2. arrays'[a] = r
          BY <3>4, <4>1, <4>2
        <5> HIDE DEF r
        <5> QED  BY <4>2, <5>1, <5>2
      <4>3. CASE frame.arr # a
        BY <3>4, <4>1, <4>3
      <4> QED  BY <4>2, <4>3
    <3> QED  BY <1>1, <1>2, <1>3, <3>1, <3>4, <3>5
  <2> QED  BY <2>1, <2>2
<1>6. ASSUME NEW n \in Names, NEW cb \in Callbacks, unbind(n, cb) PROVE FrameInv'
  <2> DEFINE a == callbackDict[n]
  <2>1. /\ a # 0 /\ arrays' = [arrays EXCEPT ![a] = RemoveFirst(@, cb)]
        /\ frame' = IF a = frame.arr /\ arrays' # arrays THEN [frame EXCEPT !.cut = TRUE]
                    ELSE frame
    BY <1>6 DEF unbind
  <2>2. a \in 1..Len(arrays) /\ arrays[a] \in Seq(Callbacks)
    BY <1>1, <1>2, <2>1
  <2>3. RemoveFirst(arrays[a], cb) \in Seq(Callbacks)
    BY <2>2, RemoveFirstType
  <2>4. /\ arrays' \in Seq(Seq(Callbacks)) /\ Len(arrays') = Len(arrays)
        /\ \A k \in 1..Len(arrays) : k # a => arrays'[k] = arrays[k]
    BY <1>2, <2>1, <2>2, <2>3, ExceptSeq
  <2> HIDE DEF a
  <2>5. CASE a = frame.arr /\ arrays' # arrays
    <3>1. frame'.cut = TRUE
      BY <1>2, <2>1, <2>5 DEF Frames
    <3> QED  BY <3>1 DEF FrameInv
  <2>6. CASE arrays' = arrays
    BY <1>4, <2>1, <2>6
  <2>7. CASE a # frame.arr
    <3>1. frame' = frame
      BY <2>1, <2>7
    <3>2. frame.arr # 0 =>
             arrays'[frame.arr] = arrays[frame.arr] /\ Len(arrays[frame.arr]) \in Nat
      BY <1>1, <1>2, <2>4, <2>7
    <3> QED  BY <1>1, <1>2, <1>3, <2>4, <3>1, <3>2
  <2> QED  BY <2>5, <2>6, <2>7
<1>7. ASSUME NEW n \in Names, trigger(n) PROVE FrameInv'
  <2> DEFINE a == callbackDict[n]
  <2>1. /\ a # 0 /\ arrays' = arrays
        /\ frame' = [arr |-> a, i |-> 0, len |-> Len(arrays[a]), bound |-> ToSet(arrays[a]),
                     called |-> {}, cut |-> FALSE, threw |-> FALSE]
    BY <1>7 DEF trigger
  <2>2. a \in 1..Len(arrays) /\ arrays[a] \in Seq(Callbacks)
    BY <1>1, <1>2, <2>1
  <2> HIDE DEF a
  <2>3. /\ Len(arrays[a]) \in Nat
        /\ ToSet(arrays[a]) = {arrays[a][j] : j \in 1..Len(arrays[a])}
    BY <2>2 DEF ToSet
  <2>4. {} = {arrays[a][j] : j \in 1..0}
    OBVIOUS
  <2>5. /\ frame'.len = Len(arrays[a]) /\ frame'.bound = ToSet(arrays[a]) /\ frame'.arr = a
        /\ frame'.called = {} /\ frame'.i = 0
    BY <2>1
  <2> QED  BY <2>1, <2>3, <2>4, <2>5 DEF FrameInv
<1>8. ASSUME CallNext PROVE FrameInv'
  <2> DEFINE b == arrays[frame.arr]
  <2>1. /\ frame.i < frame.len /\ frame.i < Len(b) /\ arrays' = arrays
        /\ \E threw \in BOOLEAN :
              frame' = [frame EXCEPT !.i = @ + 1, !.threw = threw,
                                     !.called = @ \cup {b[frame.i + 1]}]
    BY <1>8 DEF CallNext
  <2>2. /\ frame'.arr = frame.arr /\ frame'.cut = frame.cut /\ frame'.len = frame.len
        /\ frame'.bound = frame.bound /\ frame'.i = frame.i + 1 /\ frame.i \in Nat
        /\ frame'.called = frame.called \cup {b[frame.i + 1]}
    BY <1>2, <2>1 DEF Frames
  <2>3. frame.arr # 0 /\ ~frame.cut =>
          /\ frame.len <= Len(b)
          /\ frame.bound = {b[j] : j \in 1..frame.len}
          /\ frame.called = {b[j] : j \in 1..frame.i}
    BY DEF FrameInv
  <2> HIDE DEF b
  <2>4. \A S : S = {b[j] : j \in 1..frame.i} =>
              S \cup {b[frame.i + 1]} = {b[j] : j \in 1..(frame.i + 1)}
    <3>1. 1..(frame.i + 1) = 1..frame.i \cup {frame.i + 1}
      BY <2>2
    <3> QED  BY <3>1
  <2>5. frame'.arr # 0 /\ ~frame'.cut =>
          /\ frame'.len <= Len(b)
          /\ frame'.bound = {b[j] : j \in 1..frame'.len}
          /\ frame'.called = {b[j] : j \in 1..frame'.i}
    BY <2>2, <2>3, <2>4
  <2> QED  BY <2>1, <2>2, <2>5 DEF FrameInv, b
<1>9. ASSUME TriggerEnds PROVE FrameInv'
  BY <1>9 DEF TriggerEnds, Idle, FrameInv
<1>10. ASSUME NEW n \in Names, unbindAll(n) PROVE FrameInv'
  BY <1>4, <1>10 DEF unbindAll
<1> QED  BY <1>5, <1>6, <1>7, <1>8, <1>9, <1>10 DEF CallsNext

-------------------------------------------------------------------------------
(* The theorems *)

BridgeInv == BridgeTypeOK /\ NotesInv /\ ArraysInv /\ FrameInv

\* At the start nothing is posted, bound or running.
LEMMA BridgeStarts == BridgeInit => BridgeInv
<1> SUFFICES ASSUME BridgeInit PROVE BridgeInv
  OBVIOUS
<1> USE DEF BridgeInit, Idle
<1>1. BridgeTypeOK
  <2>1. MaxArrays \in Nat /\ MaxNotes \in Nat
    BY BridgeAssumption
  <2>2. /\ arrays \in Seq(Seq(Callbacks)) /\ Len(arrays) = 0 /\ fetched \in Seq(Ids)
        /\ frame \in Frames /\ frame.i <= frame.len
    BY <2>1 DEF Frames
  <2>3. callbackDict \in [Names -> 0..MaxArrays] /\ notificationDict \subseteq Ids
    BY <2>1
  <2>4. location \in 0..NotificationReady /\ notificationIdCount \in 0..MaxNotes
    BY <2>1 DEF NotificationReady
  <2>5. Len(arrays) <= MaxArrays
    BY <2>1, <2>2
  <2>6. ready \in BOOLEAN
    OBVIOUS
  <2> HIDE DEF BridgeInit, Idle
  <2> QED  BY <2>2, <2>3, <2>4, <2>5, <2>6 DEF BridgeTypeOK, Frames
<1>2. NotesInv
  BY DEF NotesInv, FetchedInOrder, Ids
<1>3. ArraysInv /\ FrameInv
  BY DEF ArraysInv, FrameInv
<1> QED  BY <1>1, <1>2, <1>3 DEF BridgeInv

\* The two directions share no variable: each keeps the other's part.
LEMMA BridgeHolds == BridgeInv /\ [BridgeNext]_bridgeVars => BridgeInv'
<1> SUFFICES ASSUME BridgeTypeOK, NotesInv, ArraysInv, FrameInv, [BridgeNext]_bridgeVars
             PROVE  BridgeTypeOK' /\ NotesInv' /\ ArraysInv' /\ FrameInv'
  BY DEF BridgeInv
<1>1. ASSUME UNCHANGED callVars PROVE ArraysInv' /\ FrameInv'
  BY <1>1 DEF callVars, ArraysInv, FrameInv
<1>2. ASSUME UNCHANGED noteVars PROVE NotesInv'
  BY <1>2 DEF noteVars, NotesInv, FetchedInOrder
<1>3. CASE NotesNext
  <2>1. UNCHANGED callVars
    BY <1>3 DEF NotesNext, ContentLoaded, postNotification, HostFetches
  <2> QED  BY <1>1, <1>3, <2>1, NotesTypeStep, NotesStep
<1>4. CASE CallsNext
  <2>1. UNCHANGED noteVars
    BY <1>4 DEF CallsNext, unbindAll, bind, unbind, trigger, CallNext, TriggerEnds
  <2> QED  BY <1>2, <1>4, <2>1, CallsTypeStep, FrameStep
<1>5. CASE UNCHANGED bridgeVars
  <2>1. BridgeTypeOK'
    BY <1>5 DEF bridgeVars, callVars, noteVars, BridgeTypeOK
  <2>2. UNCHANGED callVars /\ UNCHANGED noteVars
    BY <1>5 DEF bridgeVars
  <2> QED  BY <1>1, <1>2, <2>1, <2>2
<1> QED  BY <1>3, <1>4, <1>5 DEF BridgeNext

\* The inductive invariant.
THEOREM BridgeInvAlways == BridgeSpec => []BridgeInv
<1>1. BridgeInit => BridgeInv
  BY BridgeStarts
<1>2. BridgeInv /\ [BridgeNext]_bridgeVars => BridgeInv'
  BY BridgeHolds
<1> QED  BY <1>1, <1>2, PTL DEF BridgeSpec

\* Every variable keeps its type: in particular trigger only ever calls what was bound.
THEOREM BridgeTypeCorrect == BridgeSpec => []BridgeTypeOK
<1>1. BridgeInv => BridgeTypeOK
  BY DEF BridgeInv
<1> QED  BY <1>1, BridgeInvAlways, PTL

\* The host gets a notification at most once, and later ones never before earlier ones,
\* whether it fetches one at an address or everything.
THEOREM FetchedInOrderAlways == BridgeSpec => []FetchedInOrder
<1>1. BridgeInv => FetchedInOrder
  BY DEF BridgeInv, NotesInv
<1> QED  BY <1>1, BridgeInvAlways, PTL

\* A trigger that no unbind(name, callback) disturbs and no callback's exception ends has
\* called, when it ends, all that was bound when it began.
THEOREM TriggerCallsAllAlways == BridgeSpec => TriggerCallsAll
<1>1. ASSUME BridgeInv, [BridgeNext]_bridgeVars, frame # Idle, frame' = Idle, ~frame.cut, ~frame.threw
      PROVE  frame.bound \subseteq frame.called
  <2>1. frame.arr # 0 /\ frame \in Frames /\ frame.i <= frame.len
    BY <1>1 DEF BridgeInv, ArraysInv, BridgeTypeOK, Frames
  <2>2. TriggerEnds
    <3>1. frame' # frame /\ frame'.arr = 0 /\ ~frame'.cut
      BY <1>1 DEF Idle
    <3>2. ~ UNCHANGED bridgeVars /\ ~NotesNext
      BY <3>1 DEF bridgeVars, callVars, NotesNext, ContentLoaded, postNotification, HostFetches
    <3>3. ~CallNext
      BY <2>1, <3>1 DEF CallNext, Frames
    <3>4. \A n \in Names : ~unbindAll(n) /\ ~trigger(n)
      BY <1>1, <3>1 DEF unbindAll, trigger
    <3>5. \A n \in Names, cb \in Callbacks : ~bind(n, cb)
      BY <3>1 DEF bind
    <3>6. \A n \in Names, cb \in Callbacks : ~unbind(n, cb)
      BY <2>1, <3>1 DEF unbind, Frames
    <3> QED  BY <1>1, <3>2, <3>3, <3>4, <3>5, <3>6 DEF BridgeNext, CallsNext
  <2>3. /\ frame.len <= Len(arrays[frame.arr])
        /\ frame.bound = {arrays[frame.arr][j] : j \in 1..frame.len}
        /\ frame.called = {arrays[frame.arr][j] : j \in 1..frame.i}
    BY <1>1, <2>1 DEF BridgeInv, FrameInv
  <2>4. frame.arr \in 1..Len(arrays) /\ arrays \in Seq(Seq(Callbacks))
    BY <1>1, <2>1, BridgeAssumption DEF BridgeInv, ArraysInv, BridgeTypeOK
  <2>5. frame.i = frame.len
    BY <1>1, <2>1, <2>2, <2>3, <2>4 DEF TriggerEnds, Frames
  <2> QED  BY <2>3, <2>5
<1>2. BridgeInv /\ [BridgeNext]_bridgeVars => [CallsAll]_bridgeVars
  BY <1>1 DEF CallsAll
<1>3. BridgeInv /\ [BridgeNext]_bridgeVars => [CallsAll]_bridgeVars
  BY <1>2
<1> QED  BY <1>3, BridgeInvAlways, PTL DEF BridgeSpec, TriggerCallsAll

-------------------------------------------------------------------------------
(* MCPrograms *)

\* Whichever program runs, each one behaves as it does alone: a step of one is none of
\* another.
THEOREM EachAsAlone == Spec => PrpcSpec /\ BridgeSpec /\ HijackSpec
<1>1. Init => PrpcInit /\ BridgeInit /\ HijackInit
  BY DEF Init
<1>2. [Next]_vars => [PrpcNext]_prpcVars /\ [BridgeNext]_bridgeVars /\ [HijackNext]_hijackVars
  <2>1. SUFFICES ASSUME [Next]_vars
                 PROVE  [PrpcNext]_prpcVars /\ [BridgeNext]_bridgeVars /\ [HijackNext]_hijackVars
    OBVIOUS
  <2>2. CASE ChatStep(Chat!Next)
    BY <2>2 DEF ChatStep
  <2>3. CASE PrpcStep(PrpcNext)
    BY <2>3 DEF PrpcStep
  <2>4. CASE BridgeStep("notes", NotesNext)
    BY <2>4 DEF BridgeStep, BridgeNext
  <2>5. CASE BridgeStep("calls", CallsNext)
    BY <2>5 DEF BridgeStep, BridgeNext
  <2>6. CASE HijackStep(HijackNext)
    BY <2>6 DEF HijackStep
  <2>7. CASE UNCHANGED vars
    BY <2>7 DEF vars
  <2> QED  BY <2>1, <2>2, <2>3, <2>4, <2>5, <2>6, <2>7 DEF Next
<1> QED  BY <1>1, <1>2, PTL DEF Spec, PrpcSpec, BridgeSpec, HijackSpec

\* Every variable of the RPC application, the bridge and the hijack monitor keeps its type.
THEOREM ProgramsTypeCorrect == Spec => []TypeOK
<1>1. PrpcTypeOK /\ BridgeTypeOK /\ HijackTypeOK => TypeOK
  BY DEF TypeOK
<1> QED  BY <1>1, EachAsAlone, PrpcTypeCorrect, BridgeTypeCorrect, HijackTypeCorrect, PTL

\* What holds of each program alone holds of them together.
THEOREM ProgramsCorrect ==
    Spec => /\ []ProxyBeforeUse /\ []FetchedInOrder
            /\ TriggerCallsAll /\ ScanFindsAll /\ ObserverRemoves
BY EachAsAlone, ProxyBeforeUseAlways, FetchedInOrderAlways, TriggerCallsAllAlways,
   ScanFindsAllAlways, ObserverRemovesAlways, PTL
=================================================================================
