-------------------------------- MODULE Ieee754 --------------------------------
(***************************************************************************)
(* ieee754_write and ieee754_read of bytebuffer.js, which lay out a number *)
(* as a float or a double by arithmetic alone.  The code takes the widths  *)
(* as parameters; the runs choose formats of one and of two bytes, which   *)
(* the same lines would write.                                             *)
(*                                                                         *)
(* A number is a sign and m * 2^x, or an infinity, or NaN.  Math.log is    *)
(* not exact: its quotient by LN2 may fall below the integer at a power of *)
(* two, or reach the next one from the last number in front of it.         *)
(***************************************************************************)
EXTENDS Integers

CONSTANTS MLen,    \* bits of the fraction: 23 of a float, 52 of a double
          NBytes,  \* bytes of the format: 4 and 8
          Rounds,  \* rt is not zero, as for MLen = 23
          Numbers  \* the numbers to write

ELen == NBytes * 8 - MLen - 1
EMax == 2^ELen - 1
EBias == EMax \div 2

WidthAssumption == MLen \in Nat \ {0} /\ ELen > 1 /\ Rounds \in BOOLEAN

Finite(s, m, x) == [kind |-> "finite", s |-> s, m |-> m, x |-> x]
Infinity(s) == [kind |-> "infinity", s |-> s, m |-> 0, x |-> 0]
NaN == [kind |-> "nan", s |-> 0, m |-> 0, x |-> 0]

BitLength(m) == CHOOSE n \in 1..31 : m < 2^n /\ m >= 2^(n - 1)

\* m * 2^x >= 2^e, and what m * 2^(x + shift), a multiple of a quarter or more, is cut to.
AtLeast(m, x, e) == BitLength(m) - 1 + x >= e
Cut(m, shift) == IF shift >= 0 THEN m * 2^shift ELSE m \div 2^(-shift)
\* The same with rt added: just under one half, so that a tie goes down.
CutRounded(m, shift) ==
    IF shift >= 0 THEN m * 2^shift ELSE (2 * m + 2^(-shift) - 1) \div 2^(1 - shift)
-------------------------------------------------------------------------------
\* The number that n, the bytes as one number, stands for (lines 1315-1346).
ieee754_read(n) ==
    LET m == n % 2^MLen
        e == (n \div 2^MLen) % 2^ELen
        s == n \div 2^(MLen + ELen)
    IN  IF e = 0 THEN Finite(s, m, 1 - EBias - MLen)
        ELSE IF e = EMax THEN IF m # 0 THEN NaN ELSE Infinity(s)
        ELSE Finite(s, m + 2^MLen, e - EBias - MLen)

\* Math.floor(Math.log(value) / Math.LN2), line 1374: exact but for its neighbours.
LogEstimates(m, x) ==
    LET exact == BitLength(m) - 1 + x IN
    {exact} \cup (IF m = 2^(BitLength(m) - 1) THEN {exact - 1} ELSE {})
            \cup (IF m = 2^BitLength(m) - 1 /\ BitLength(m) > MLen THEN {exact + 1} ELSE {})

\* Fault: a high estimate is kept.
KeptHigh(e, m, x) == e

\* Lines 1375-1378: an estimate above the number is lowered.
Lowered(e, m, x) == IF AtLeast(m, x, e) THEN e ELSE e - 1

\* Lines 1379-1383: value += rt / c, at the last bit of the fraction or, below the
\* smallest exponent, of the smallest numbers; the sum is in units of that bit.
UnitExponent(e) == (IF e + EBias >= 1 THEN e ELSE 1 - EBias) - MLen

Summed(e, m, x) ==
    IF Rounds THEN CutRounded(m, x - UnitExponent(e)) ELSE Cut(m, x - UnitExponent(e))

\* Fault: a number past the largest is not made infinite.
FieldsNoInfinity(e, units) ==
    LET raise == units >= 2^(MLen + 1) /\ UnitExponent(e) = e - MLen
        top == IF raise THEN e + 1 ELSE e
        fraction == IF raise THEN units \div 2 ELSE units
    IN  IF top + EBias >= 1 THEN (top + EBias) * 2^MLen + fraction - 2^MLen ELSE units

\* Lines 1384-1398: the fields of the exponent and the fraction.  An estimate below
\* the number, or a carry of the sum, raises the exponent.
Fields(e, units) ==
    LET raise == units >= 2^(MLen + 1) /\ UnitExponent(e) = e - MLen
        top == IF raise THEN e + 1 ELSE e
        fraction == IF raise THEN units \div 2 ELSE units
    IN  IF top + EBias >= EMax THEN EMax * 2^MLen
        ELSE IF top + EBias >= 1 THEN (top + EBias) * 2^MLen + fraction - 2^MLen
        ELSE units

\* The bytes, as one number, of a number whose logarithm is estimated as e.
ieee754_write(value, e) ==
    LET low == Lowered(e, value.m, value.x)
        bits == IF value.kind = "nan" THEN EMax * 2^MLen + 1
                ELSE IF value.kind = "infinity" THEN EMax * 2^MLen
                ELSE IF value.m = 0 THEN 0
                ELSE Fields(low, Summed(low, value.m, value.x))
    IN  value.s * 2^(MLen + ELen) + bits
-------------------------------------------------------------------------------
VARIABLES value,   \* the number to write
          written  \* its bytes as one number, or -1

vars == <<value, written>>

Init == value \in Numbers /\ written = -1

Write ==
    /\ written = -1
    /\ \E e \in IF value.kind = "finite" /\ value.m # 0
                THEN LogEstimates(value.m, value.x) ELSE {0} :
          written' = ieee754_write(value, e)
    /\ UNCHANGED value

Spec == Init /\ [][Write]_vars
-------------------------------------------------------------------------------
Patterns == 0..(2^(NBytes * 8) - 1)

TypeOK == written \in -1..(2^(NBytes * 8) - 1)

\* Equal as numbers, with their signs: the larger exponent is shifted out.
SameNumber(a, b) ==
    /\ a.kind = b.kind /\ a.s = b.s
    /\ \/ a.m = 0 /\ b.m = 0
       \/ a.x >= b.x /\ a.m * 2^(a.x - b.x) = b.m
       \/ a.x < b.x /\ b.m * 2^(b.x - a.x) = a.m

\* A number that the format has is read as it was written, the smallest, the largest,
\* zeros, infinities and NaN among them, although the exponent starts from a
\* logarithm that may be off by one (lines 1374-1387).
NumberSurvives == written # -1 => SameNumber(ieee754_read(written), value)

\* |a - b| of finite numbers of one sign, in units of 2^unit.
Distance(a, b, unit) ==
    LET d == a.m * 2^(a.x - unit) - b.m * 2^(b.x - unit) IN IF d < 0 THEN -d ELSE d

\* A number between two of the format becomes the nearer one: no number of the format
\* is nearer than the one written, across a carry into the exponent and where the
\* fraction has no leading one (lines 1379-1398).
NearestIsWritten ==
    LET w == ieee754_read(written)
        unit == -EBias - MLen - 4
    IN  written # -1 /\ value.kind = "finite" /\ w.kind = "finite" =>
            \A n \in Patterns :
                LET other == ieee754_read(n) IN
                other.kind = "finite" /\ other.s = value.s =>
                    Distance(w, value, unit) <= Distance(other, value, unit)
===============================================================================
