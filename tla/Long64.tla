-------------------------------- MODULE Long64 --------------------------------
(***************************************************************************)
(* long.js, the 64-bit integers of the browser codecs: two 32-bit words    *)
(* and a sign flag, added and multiplied in four chunks of 16 bits,        *)
(* divided by estimates in double precision.                               *)
(*                                                                         *)
(* The widths are constants so that every pair of Longs can be tried: a    *)
(* chunk has ChunkBits (16 in the source) bits, a double Mantissa (53)     *)
(* bits, factors below 2^FastBits (24) are multiplied as doubles, and an   *)
(* estimate of more than 2^DeltaBits (48) is corrected by more than one.   *)
(* toString takes WriteDigits (6) digits at a time, fromString ReadDigits  *)
(* (8).  A word is kept as the number that `>>> 0` shows; Signed is what   *)
(* `| 0` shows.                                                            *)
(***************************************************************************)
EXTENDS Integers, Sequences, SequencesExt, Bitwise

CONSTANTS ChunkBits, Mantissa, FastBits, DeltaBits, WriteDigits, ReadDigits,
          Radixes, Longs

WordBits == 2 * ChunkBits
LongBits == 2 * WordBits
Chunk == 2^ChunkBits
Word == 2^WordBits

WidthAssumption ==
    /\ ChunkBits \in Nat \ {0}
    /\ 2 * FastBits <= Mantissa /\ FastBits < WordBits - 1
    /\ DeltaBits < Mantissa /\ Mantissa < LongBits
    /\ \A radix \in Radixes : radix^WriteDigits <= Word /\ radix^ReadDigits <= 2^Mantissa

Signed(word) == IF 2 * word >= Word THEN word - Word ELSE word

fromBits(low, high, unsigned) ==
    [low |-> low % Word, high |-> high % Word, unsigned |-> unsigned]

\* The integer a Long stands for.
Value(x) == (IF x.unsigned THEN x.high ELSE Signed(x.high)) * Word + x.low

fromInt(value, unsigned) ==
    fromBits(value, IF Signed(value % Word) < 0 THEN -1 ELSE 0, unsigned)

ZERO == fromInt(0, FALSE)
UZERO == fromInt(0, TRUE)
ONE == fromInt(1, FALSE)
UONE == fromInt(1, TRUE)
NEG_ONE == fromInt(-1, FALSE)
TWO_PWR_24 == fromInt(2^FastBits, FALSE)
MIN_VALUE == fromBits(0, Word \div 2, FALSE)
MAX_VALUE == fromBits(Word - 1, Word \div 2 - 1, FALSE)
MAX_UNSIGNED_VALUE == fromBits(Word - 1, Word - 1, TRUE)
-------------------------------------------------------------------------------
isZero(x) == x.high = 0 /\ x.low = 0
isNegative(x) == ~x.unsigned /\ Signed(x.high) < 0
isPositive(x) == x.unsigned \/ Signed(x.high) >= 0
isOdd(x) == x.low % 2 = 1
isEven(x) == x.low % 2 = 0
toInt(x) == IF x.unsigned THEN x.low ELSE Signed(x.low)
getHighBits(x) == Signed(x.high)
getHighBitsUnsigned(x) == x.high
getLowBitsUnsigned(x) == x.low

toUnsigned(x) == [x EXCEPT !.unsigned = TRUE]

equals(x, y) ==
    /\ x.unsigned = y.unsigned \/ Signed(x.high) >= 0 \/ Signed(y.high) >= 0
    /\ x.high = y.high /\ x.low = y.low
notEquals(x, y) == ~equals(x, y)

not(x) == fromBits(-x.low - 1, -x.high - 1, x.unsigned)
and(x, y) == fromBits(x.low & y.low, x.high & y.high, x.unsigned)
or(x, y) == fromBits(x.low | y.low, x.high | y.high, x.unsigned)
xor(x, y) == fromBits(x.low ^^ y.low, x.high ^^ y.high, x.unsigned)
-------------------------------------------------------------------------------
\* Shifts.  The count is taken modulo 64, then a word moves into the other.
shiftLeft(x, numBits) ==
    LET n == numBits % LongBits IN
    IF n < WordBits
    THEN fromBits(x.low * 2^n, x.high * 2^n + (x.low \div 2^(WordBits - n)), x.unsigned)
    ELSE fromBits(0, x.low * 2^(n - WordBits), x.unsigned)

shiftRight(x, numBits) ==
    LET n == numBits % LongBits IN
    IF n < WordBits
    THEN fromBits((x.low \div 2^n) + x.high * 2^(WordBits - n), Signed(x.high) \div 2^n,
                  x.unsigned)
    ELSE fromBits(Signed(x.high) \div 2^(n - WordBits),
                  IF Signed(x.high) >= 0 THEN 0 ELSE -1, x.unsigned)

shiftRightUnsigned(x, numBits) ==
    LET n == numBits % LongBits IN
    IF n < WordBits
    THEN fromBits((x.low \div 2^n) + x.high * 2^(WordBits - n), x.high \div 2^n, x.unsigned)
    ELSE fromBits(x.high \div 2^(n - WordBits), 0, x.unsigned)
-------------------------------------------------------------------------------
\* The four chunks of a Long, the lowest first, and back with their carries.
Chunks(x) == <<x.low % Chunk, x.low \div Chunk, x.high % Chunk, x.high \div Chunk>>

Carried(sums, unsigned) ==
    LET c1 == sums[2] + (sums[1] \div Chunk)
        c2 == sums[3] + (c1 \div Chunk)
        c3 == sums[4] + (c2 \div Chunk)
    IN  fromBits((c1 % Chunk) * Chunk + (sums[1] % Chunk),
                 (c3 % Chunk) * Chunk + (c2 % Chunk), unsigned)

add(x, y) ==
    LET a == Chunks(x)
        b == Chunks(y)
    IN  Carried([i \in 1..4 |-> a[i] + b[i]], x.unsigned)

negate(x) == IF ~x.unsigned /\ equals(x, MIN_VALUE) THEN MIN_VALUE ELSE add(not(x), ONE)

subtract(x, y) == add(x, negate(y))

compare(x, y) ==
    IF equals(x, y) THEN 0
    ELSE IF isNegative(x) # isNegative(y) THEN IF isNegative(x) THEN -1 ELSE 1
    ELSE IF ~x.unsigned THEN IF isNegative(subtract(x, y)) THEN -1 ELSE 1
    ELSE IF y.high > x.high \/ (y.high = x.high /\ y.low > x.low) THEN -1 ELSE 1

lessThan(x, y) == compare(x, y) < 0
lessThanOrEqual(x, y) == compare(x, y) <= 0
greaterThan(x, y) == compare(x, y) > 0
greaterThanOrEqual(x, y) == compare(x, y) >= 0

getNumBitsAbs(x) ==
    LET abs == IF isNegative(x) THEN negate(x) ELSE x
        val == IF abs.high # 0 THEN abs.high ELSE abs.low
        top == CHOOSE bit \in 0..(WordBits - 1) :
                  /\ bit = 0 \/ val \div 2^bit # 0
                  /\ val \div 2^(bit + 1) = 0
    IN  IF isNegative(x) /\ equals(x, MIN_VALUE) THEN LongBits
        ELSE IF abs.high # 0 THEN top + WordBits + 1 ELSE top + 1
-------------------------------------------------------------------------------
\* Doubles.  Of the rational p / q, q > 0, p >= 0, the nearest number of
\* Mantissa bits, as a numerator over 2^scale; ties go to the even one.
Nearest(p, q, scale) ==
    LET n == (p * 2^scale) \div q
        r == (p * 2^scale) % q
    IN  IF 2 * r > q \/ (2 * r = q /\ n % 2 = 1) THEN n + 1 ELSE n

\* n rounded to Mantissa bits: an integer the size of a Long loses its last ones.
Double(n) ==
    LET abs == IF n < 0 THEN -n ELSE n
        lost == CHOOSE k \in 0..LongBits :
                   abs < 2^(Mantissa + k) /\ (k = 0 \/ abs >= 2^(Mantissa + k - 1))
        near == Nearest(abs, 2^lost, 0) * 2^lost
    IN  IF n < 0 THEN -near ELSE near

\* Math.floor(p / q) for doubles p >= q > 0.
FloorOfQuotient(p, q) ==
    LET scale == CHOOSE s \in 0..Mantissa : 
                    p * 2^s < q * 2^Mantissa /\ (s = Mantissa \/ p * 2^(s + 1) >= q * 2^Mantissa)
    IN  IF p >= q * 2^Mantissa THEN Double(p \div q) ELSE Nearest(p, q, scale) \div 2^scale

toNumber(x) == Double(Value(x))

\* fromNumber of a number without a fraction; the others are cut first.
fromNumber(value, unsigned) ==
    LET bits(v) == fromBits(v, v \div Word, unsigned) IN
    IF unsigned
    THEN IF value < 0 THEN UZERO
         ELSE IF value >= 2^LongBits THEN MAX_UNSIGNED_VALUE ELSE bits(value)
    ELSE IF value <= -2^(LongBits - 1) THEN MIN_VALUE
         ELSE IF value + 1 >= 2^(LongBits - 1) THEN MAX_VALUE
         ELSE IF value < 0 THEN negate(bits(-value)) ELSE bits(value)
-------------------------------------------------------------------------------

\* The product of two factors that are not negative.
Product(x, y) ==
    LET a == Chunks(x)
        b == Chunks(y)
        c1 == a[1] * b[1]
        c2 == a[2] * b[1] + a[1] * b[2]
        c3 == a[3] * b[1] + a[2] * b[2] + a[1] * b[3]
        c4 == a[4] * b[1] + a[3] * b[2] + a[2] * b[3] + a[1] * b[4]
    IN  IF lessThan(x, TWO_PWR_24) /\ lessThan(y, TWO_PWR_24)
        THEN fromNumber(Double(toNumber(x) * toNumber(y)), x.unsigned)
        ELSE Carried(<<c1, c2, c3, c4>>, x.unsigned)

multiply(x, y) ==
    LET bySign(v) == IF isNegative(v) THEN negate(v) ELSE v
        signed(v) == IF isNegative(x) = isNegative(y) THEN v ELSE negate(v)
    IN
    IF isZero(x) \/ isZero(y) THEN ZERO
    ELSE IF equals(x, MIN_VALUE) THEN IF isOdd(y) THEN MIN_VALUE ELSE ZERO
    ELSE IF equals(y, MIN_VALUE) THEN IF isOdd(x) THEN MIN_VALUE ELSE ZERO
    ELSE signed(Product(bySign(x), bySign(y)))
-------------------------------------------------------------------------------
\* Lines 1024-1025: how far one correction of an estimate goes.
Delta(approx) ==
    LET log2 == CHOOSE k \in 0..LongBits : approx <= 2^k /\ (k = 0 \/ approx > 2^(k - 1))
    IN  IF log2 <= DeltaBits THEN 1 ELSE 2^(log2 - DeltaBits)

\* Fault: the first estimate is not lowered.
FittingAtOnce(approx, delta, approxRes, rem, divisor) ==
    [res |-> IF isZero(approxRes) THEN ONE ELSE approxRes,
     rem |-> multiply(approxRes, divisor)]

\* Lines 1029-1040: the estimate is lowered until its product fits into rem.
RECURSIVE Fitting(_, _, _, _, _)
Fitting(approx, delta, approxRes, rem, divisor) ==
    LET less == approx - delta
        checked(approxRem) ==
            IF isNegative(approxRem) \/ greaterThan(approxRem, rem)
            THEN Fitting(less, delta, fromNumber(less, rem.unsigned), rem, divisor)
            ELSE [res |-> IF isZero(approxRes) THEN ONE ELSE approxRes, rem |-> approxRem]
    IN  checked(multiply(approxRes, divisor))

\* Lines 1016-1045: the sum of the estimates, until rem is below the divisor.
RECURSIVE SumOfEstimates(_, _, _)
SumOfEstimates(res, rem, divisor) ==
    LET guess == FloorOfQuotient(toNumber(rem), toNumber(divisor))
        approx == IF guess < 1 THEN 1 ELSE guess
        summed(fit) == SumOfEstimates(add(res, fit.res), subtract(rem, fit.rem), divisor)
    IN  IF lessThan(rem, divisor) THEN res
        ELSE summed(Fitting(approx, Delta(approx), fromNumber(approx, FALSE), rem, divisor))

\* Divisors that are not zero: for zero the code throws.
RECURSIVE divide(_, _)
divide(x, y) ==
    LET half == shiftLeft(divide(shiftRight(x, 1), y), 1)
        u == toUnsigned(y)
    IN  IF isZero(x) THEN IF x.unsigned THEN UZERO ELSE ZERO
        ELSE IF x.unsigned
        THEN IF greaterThan(u, x) THEN UZERO
             ELSE IF greaterThan(u, shiftRightUnsigned(x, 1)) THEN UONE
             ELSE SumOfEstimates(UZERO, x, u)
        ELSE IF equals(x, MIN_VALUE)
        THEN IF equals(y, ONE) \/ equals(y, NEG_ONE) THEN MIN_VALUE
             ELSE IF equals(y, MIN_VALUE) THEN ONE
             ELSE IF equals(half, ZERO) THEN IF isNegative(y) THEN ONE ELSE NEG_ONE
             ELSE add(half, divide(subtract(x, multiply(y, half)), y))
        ELSE IF equals(y, MIN_VALUE) THEN ZERO
        ELSE IF isNegative(x)
        THEN IF isNegative(y) THEN divide(negate(x), negate(y))
             ELSE negate(divide(negate(x), y))
        ELSE IF isNegative(y) THEN negate(divide(x, negate(y)))
        ELSE SumOfEstimates(ZERO, x, y)

modulo(x, y) == subtract(x, multiply(divide(x, y), y))
-------------------------------------------------------------------------------
\* A numeral is a sequence of digits; a hyphen may stand in front.
Hyphen == -1

RECURSIVE Numeral(_, _)
Numeral(n, radix) ==
    IF n < radix THEN <<n>> ELSE Append(Numeral(n \div radix, radix), n % radix)

parseInt(digits, radix) ==
    LET step(n, d) == radix * n + d IN FoldLeft(step, 0, digits)

\* Lines 535-550: WriteDigits digits of rem after another, the last ones first.
RECURSIVE DigitsOf(_, _)
DigitsOf(rem, radix) ==
    LET radixToPower == fromNumber(radix^WriteDigits, rem.unsigned)
        filled(digits) == [i \in 1..(WriteDigits - Len(digits)) |-> 0] \o digits
        result(remDiv, digits) ==
            IF isZero(remDiv) THEN digits ELSE DigitsOf(remDiv, radix) \o filled(digits)
        step(remDiv) ==
            LET intval == subtract(rem, multiply(remDiv, radixToPower)).low
            IN  result(remDiv, Numeral(intval, radix))
    IN  step(divide(rem, radixToPower))

\* MIN_VALUE loses its last digit before it can be negated.
toString(x, radix) ==
    LET radixLong == fromNumber(radix, FALSE)
        least == equals(x, MIN_VALUE)
        lastDigit(div) == Numeral(toInt(subtract(multiply(div, radixLong), x)), radix)
        written(magnitude) == DigitsOf(magnitude, radix)
    IN  IF isZero(x) THEN <<0>>
        ELSE IF ~isNegative(x) THEN written(x)
        ELSE LET div == divide(x, radixLong)
             IN  <<Hyphen>> \o written(negate(IF least THEN div ELSE x))
                    \o (IF least THEN lastDigit(div) ELSE <<>>)

\* Lines 277-292: ReadDigits digits at a time, the last group with what is left.
RECURSIVE ParsedFrom(_, _, _)
ParsedFrom(result, digits, radix) ==
    LET size == IF Len(digits) < ReadDigits THEN Len(digits) ELSE ReadDigits
        group == fromNumber(parseInt(SubSeq(digits, 1, size), radix), FALSE)
        power == fromNumber(radix^size, FALSE)
    IN  IF digits = <<>> THEN result
        ELSE ParsedFrom(add(multiply(result, power), group),
                        SubSeq(digits, size + 1, Len(digits)), radix)

fromString(str, unsigned, radix) ==
    LET digits == IF Head(str) = Hyphen THEN Tail(str) ELSE str
        result == [ParsedFrom(ZERO, digits, radix) EXCEPT !.unsigned = unsigned]
    IN  IF Head(str) = Hyphen THEN negate(result) ELSE result
-------------------------------------------------------------------------------
\* One call on a Long x, with the Long y as its operand.
VARIABLES op, x, y, z

vars == <<op, x, y, z>>

Init == op = "none" /\ x \in Longs /\ y \in Longs /\ x.unsigned = y.unsigned /\ z = x

Call(name, result) ==
    /\ op = "none"
    /\ op' = name
    /\ z' = result
    /\ UNCHANGED <<x, y>>

Add == Call("add", add(x, y))
Subtract == Call("subtract", subtract(x, y))
Multiply == Call("multiply", multiply(x, y))
Divide == ~isZero(y) /\ Call("divide", divide(x, y))
Modulo == ~isZero(y) /\ Call("modulo", modulo(x, y))

Next == Add \/ Subtract \/ Multiply \/ Divide \/ Modulo

Spec == Init /\ [][Next]_vars
-------------------------------------------------------------------------------
TypeOK ==
    /\ op \in {"none", "add", "subtract", "multiply", "divide", "modulo"}
    /\ \A l \in {x, y, z} : l \in [low : 0..(Word - 1), high : 0..(Word - 1),
                                   unsigned : BOOLEAN]

\* What 64 bits show of the integer n.
Wrapped(n, unsigned) == Value(fromBits(n, n \div Word, unsigned))

\* The integer quotient, cut towards zero.
Quotient(p, q) ==
    LET abs(n) == IF n < 0 THEN -n ELSE n IN
    IF (p < 0) = (q < 0) THEN abs(p) \div abs(q) ELSE -(abs(p) \div abs(q))

\* Sums and differences are those of the integers modulo 2^64: the carries between
\* the four chunks lose nothing, and the negation of MIN_VALUE wraps (lines 807-868).
SumsExact ==
    /\ op = "add" => Value(z) = Wrapped(Value(x) + Value(y), x.unsigned)
    /\ op = "subtract" => Value(z) = Wrapped(Value(x) - Value(y), x.unsigned)

\* Products keep the low 64 bits, whatever the signs, the extreme values and the
\* product in double precision of small factors (lines 885-944).  A product of zero
\* is the signed ZERO, also for unsigned factors.
ProductsExact ==
    op = "multiply" =>
        /\ Value(z) = Wrapped(Value(x) * Value(y), x.unsigned)
        /\ z.unsigned = (x.unsigned /\ ~isZero(x) /\ ~isZero(y))

\* Quotients are cut towards zero and the rest has the sign of the dividend, though
\* each estimate is rounded to the bits of a double and an unsigned estimate goes
\* through a signed Long that may overflow (lines 962-1067).
QuotientsExact ==
    LET q == Quotient(Value(x), Value(y)) IN
    /\ op = "divide" => Value(z) = Wrapped(q, x.unsigned) /\ z.unsigned = x.unsigned
    /\ op = "modulo" => Value(z) = Value(x) - q * Value(y)

\* compare, and the tests made of it, are the order of the integers although it decides
\* on the sign of a difference that may wrap (lines 655-790).
OrderExact ==
    LET sign(n) == IF n < 0 THEN -1 ELSE IF n > 0 THEN 1 ELSE 0 IN
    op = "none" =>
        /\ compare(x, y) = sign(Value(x) - Value(y))
        /\ lessThanOrEqual(x, y) = ~greaterThan(x, y)
        /\ greaterThanOrEqual(x, y) = ~lessThan(x, y)
        /\ notEquals(x, y) = (Value(x) # Value(y))

\* A shift to the right divides, also across the two words and by counts of the
\* word's size; one to the left multiplies (lines 1129-1197).
ShiftsExact ==
    op = "none" /\ y.high = 0 /\ y.low < LongBits =>
        LET n == y.low
            whole == IF x.unsigned THEN Value(shiftRightUnsigned(x, n)) ELSE Value(shiftRight(x, n))
        IN  /\ whole = Value(x) \div 2^n
            /\ Value(shiftLeft(x, n)) = Wrapped(Value(x) * 2^n, x.unsigned)

\* The bits of two Longs: xor and and are the carries and the sum of an addition, or
\* has what either has, and getNumBitsAbs counts the bits of the magnitude, also of
\* MIN_VALUE, which has none (lines 594-602 and 1083-1121).
BitsExact ==
    op = "none" =>
        LET abs == IF Value(x) < 0 THEN -Value(x) ELSE Value(x)
            bits == getNumBitsAbs(x)
        IN  /\ abs < 2^bits /\ (abs > 1 => abs >= 2^(bits - 1))
            /\ add(xor(x, y), shiftLeft(and(x, y), 1)) = add(x, y)
            /\ or(x, y) = not(and(not(x), not(y)))
            /\ isOdd(x) = ~isEven(x) /\ isPositive(x) = ~isNegative(x)
            /\ Value(x) = (IF x.unsigned THEN getHighBitsUnsigned(x) ELSE getHighBits(x)) * Word
                            + getLowBitsUnsigned(x)

\* A Long written in any radix, some digits at a time, and read back in groups of
\* another length is the same Long: the padding of inner groups, the last group and
\* the way around the negation of MIN_VALUE (lines 252-293 and 515-551).
TextRoundTrip ==
    op = "none" /\ isZero(y) =>
        \A radix \in Radixes : fromString(toString(x, radix), x.unsigned, radix) = x

LongsExact ==
    /\ SumsExact /\ ProductsExact /\ QuotientsExact
    /\ OrderExact /\ ShiftsExact /\ BitsExact /\ TextRoundTrip
===============================================================================
