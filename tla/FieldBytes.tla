------------------------------ MODULE FieldBytes ------------------------------
(***************************************************************************)
(* How Node's Buffer and the browser's DataView (both external) lay out    *)
(* the fields that ByteBuffer.js and DataBuffer.js write.  A byte is a     *)
(* digit of base Radix: 256 in the program, less in the runs, so that      *)
(* every value of a width can be tried.                                    *)
(***************************************************************************)
EXTENDS Integers, Sequences, SequencesExt

CONSTANT Radix

RadixAssumption == Radix \in Nat /\ Radix % 2 = 0 /\ Radix > 0

Byte == 0..(Radix - 1)
Endians == {"BE", "LE"}

\* A byte of a new Buffer that nothing has been written to.
Garbage == Radix

\* The powers of Radix up to the widest number, as a function: the proofs compute with it.
RadixTo[n \in 0..8] == IF n = 0 THEN 1 ELSE Radix * RadixTo[n - 1]

\* The n bytes of v, the most significant first; v may be negative.
Digits(v, n) == [i \in 1..n |-> ((v % RadixTo[n]) \div RadixTo[n - i]) % Radix]

Number(bytes) ==
    LET upTo[k \in 0..Len(bytes)] == IF k = 0 THEN 0 ELSE Radix * upTo[k - 1] + bytes[k]
    IN  upTo[Len(bytes)]

\* readInt16 and readInt32: the upper half of the range stands for negative numbers.
SignedNumber(bytes) ==
    LET n == Number(bytes) IN
    IF 2 * n >= RadixTo[Len(bytes)] THEN n - RadixTo[Len(bytes)] ELSE n

Ordered(bytes, endian) == IF endian = "BE" THEN bytes ELSE Reverse(bytes)

\* Writes bytes into buf at the zero-based offset `at`; what does not fit is dropped.
Overlay(buf, at, bytes) ==
    [i \in DOMAIN buf |-> IF i - at \in DOMAIN bytes THEN bytes[i - at] ELSE buf[i]]

\* The len bytes of buf from the zero-based offset `at`.
Slice(buf, at, len) == SubSeq(buf, at + 1, at + len)

\* Val filled up to len bytes with zeros, or cut.
Padded(val, len) == [i \in 1..len |-> IF i <= Len(val) THEN val[i] ELSE 0]
=============================================================================
