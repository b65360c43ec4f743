---------------------------------- MODULE Utf ----------------------------------
(***************************************************************************)
(* Strings to bytes and back in the two browser codecs: utfx of            *)
(* bytebuffer.js, which passes code points from a source to a destination, *)
(* and utf8Write, utf8Read and utf8Length of DataBuffer.js.                *)
(*                                                                         *)
(* A string is a sequence of UTF-16 code units.  The loop of UTF16toUTF8,  *)
(* which looks one unit ahead and keeps it in c2, is run step by step;     *)
(* the other conversions are operators.                                    *)
(***************************************************************************)
EXTENDS Integers, Sequences, SequencesExt

CONSTANTS Strings,     \* the strings to convert
          MaxPoints    \* bound: the rounds of a conversion that are looked at

\* A conversion that ends makes no more code points than its string has units.
PointsAssumption ==
    \A units \in Strings : Len(units) < MaxPoints

None == -1           \* null
Malformed == <<-2>>  \* the decoder throws

IsHigh(unit) == unit \in 55296..56319
IsLow(unit) == unit \in 56320..57343
IsSurrogate(unit) == IsHigh(unit) \/ IsLow(unit)

\* Six bits of cp behind the lead byte of a sequence, `shift` from the right.
Trail(cp, shift) == 128 + ((cp \div 2^shift) % 64)
-------------------------------------------------------------------------------

calculateCodePoint(cp) ==
    IF cp < 128 THEN 1 ELSE IF cp < 2048 THEN 2 ELSE IF cp < 65536 THEN 3 ELSE 4

\* The bytes of one code point.
encodeUTF8(cp) ==
    CASE cp < 128 -> <<cp>>
      [] cp \in 128..2047 -> <<192 + ((cp \div 64) % 32), Trail(cp, 0)>>
      [] cp \in 2048..65535 -> <<224 + ((cp \div 4096) % 16), Trail(cp, 6), Trail(cp, 0)>>
      [] OTHER -> <<240 + ((cp \div 2^18) % 8), Trail(cp, 12), Trail(cp, 6), Trail(cp, 0)>>

\* The code units of one code point.
UTF8toUTF16(cp) ==
    IF cp <= 65535 THEN <<cp>>
    ELSE <<((cp - 65536) \div 1024) + 55296, ((cp - 65536) % 1024) + 56320>>

\* The bytes of a sequence that starts with lead, zero for a byte that starts none.
SequenceLength(lead) ==
    IF lead < 128 THEN 1
    ELSE IF lead \in 192..223 THEN 2
    ELSE IF lead \in 224..239 THEN 3
    ELSE IF lead \in 240..247 THEN 4 ELSE 0

\* The code point of the sequence that bytes starts with.
PointOf(bytes, n) ==
    LET low(i) == bytes[i] % 64 IN
    CASE n = 1 -> bytes[1]
      [] n = 2 -> (bytes[1] % 32) * 64 + low(2)
      [] n = 3 -> (bytes[1] % 16) * 4096 + low(2) * 64 + low(3)
      [] n = 4 -> (bytes[1] % 8) * 2^18 + low(2) * 4096 + low(3) * 64 + low(4)

\* The code points of bytes, or Malformed for a wrong lead byte and a cut sequence.
RECURSIVE decodeUTF8(_)
decodeUTF8(bytes) ==
    LET n == SequenceLength(bytes[1])
        rest == decodeUTF8(SubSeq(bytes, n + 1, Len(bytes)))
    IN  IF bytes = <<>> THEN <<>>
        ELSE IF n = 0 \/ n > Len(bytes) THEN Malformed
        ELSE IF rest = Malformed THEN Malformed ELSE <<PointOf(bytes, n)>> \o rest

decodeUTF8toUTF16(bytes) ==
    LET points == decodeUTF8(bytes)
        step(units, cp) == units \o UTF8toUTF16(cp)
    IN  IF points = Malformed THEN Malformed ELSE FoldLeft(step, <<>>, points)

encodeUTF16toUTF8(points) ==
    LET step(bytes, cp) == bytes \o encodeUTF8(cp) IN FoldLeft(step, <<>>, points)

\* The numbers of code points and of bytes.
calculateUTF16asUTF8(points) ==
    LET step(sum, cp) == sum + calculateCodePoint(cp)
    IN  <<Len(points), FoldLeft(step, 0, points)>>
-------------------------------------------------------------------------------
\* DataBuffer.js.  A surrogate of either kind takes the unit after it along.
UnitBytes(unit) == encodeUTF8(unit)

\* charCodeAt behind the end is NaN, of which `&` makes zero.
PairBytes(first, second) ==
    LET c == 65536 + (first % 1024) * 1024 + (second % 1024)
    IN  <<240 + (c \div 2^18), Trail(c, 12), Trail(c, 6), Trail(c, 0)>>

RECURSIVE utf8Write(_)
utf8Write(units) ==
    LET second == IF Len(units) > 1 THEN units[2] ELSE 0 IN
    IF units = <<>> THEN <<>>
    ELSE IF IsSurrogate(units[1])
    THEN PairBytes(units[1], second) \o utf8Write(SubSeq(units, 3, Len(units)))
    ELSE UnitBytes(units[1]) \o utf8Write(Tail(units))

RECURSIVE utf8Length(_)
utf8Length(units) ==
    IF units = <<>> THEN 0
    ELSE IF IsSurrogate(units[1]) THEN 4 + utf8Length(SubSeq(units, 3, Len(units)))
    ELSE calculateCodePoint(units[1]) + utf8Length(Tail(units))

\* The lead byte of two is masked with 0x0f: its fifth bit is lost.
ReadPoint(bytes, n) ==
    IF n = 2 THEN (bytes[1] % 16) * 64 + (bytes[2] % 64) ELSE PointOf(bytes, n)

RECURSIVE utf8Read(_)
utf8Read(bytes) ==
    LET n == SequenceLength(bytes[1])
        rest == utf8Read(SubSeq(bytes, n + 1, Len(bytes)))
    IN  IF bytes = <<>> THEN <<>>
        ELSE IF n = 0 \/ n > Len(bytes) THEN Malformed
        ELSE IF rest = Malformed THEN Malformed
        ELSE UTF8toUTF16(ReadPoint(bytes, n)) \o rest
-------------------------------------------------------------------------------
VARIABLES str,   \* the units that src() has not returned yet
          c2,    \* the unit looked at ahead, or None
          out,   \* the code points passed to dst
          pc,    \* "loop" or "done"
          text   \* the string as it was

vars == <<str, c2, out, pc, text>>

Init == /\ text \in Strings /\ str = text /\ c2 = None /\ out = <<>>
        /\ pc = "loop"

\* c1 of the round that starts now: the unit kept in c2, or the next one.
Current == IF c2 # None THEN c2 ELSE IF str = <<>> THEN None ELSE Head(str)
Rest == IF c2 # None \/ str = <<>> THEN str ELSE Tail(str)

Pass(cp) == out' = Append(out, cp)
Pairing(high, low) == (high - 55296) * 1024 + low - 56320 + 65536

\* Lines 3593-3594: a pair of surrogates is one code point, a pair of low ones too.
Pair ==
    /\ IsSurrogate(Current) /\ Rest # <<>> /\ IsLow(Head(Rest))
    /\ Pass(Pairing(Current, Head(Rest)))
    /\ c2' = None
    /\ str' = Tail(Rest)

\* Fault: what was looked at behind a surrogate is forgotten.
LoneForgets ==
    /\ IsSurrogate(Current) /\ (Rest # <<>> => ~IsLow(Head(Rest)))
    /\ Pass(Current)
    /\ c2' = None
    /\ str' = IF Rest = <<>> THEN <<>> ELSE Tail(Rest)

\* Line 3591: what follows a surrogate is kept in c2, the surrogate passed alone.
Lone ==
    /\ IsSurrogate(Current) /\ (Rest # <<>> => ~IsLow(Head(Rest)))
    /\ Pass(Current)
    /\ c2' = IF Rest = <<>> THEN None ELSE Head(Rest)
    /\ str' = IF Rest = <<>> THEN <<>> ELSE Tail(Rest)

\* Line 3598: any other unit is passed, and c2 keeps what it had: a unit that was looked
\* at behind a surrogate is passed round after round.
Single ==
    /\ Current # None /\ ~IsSurrogate(Current)
    /\ Pass(Current)
    /\ c2' = c2
    /\ str' = Rest

Stop == Current = None /\ pc' = "done" /\ UNCHANGED <<str, c2, out, text>>

Convert ==
    /\ pc = "loop"
    /\ \/ Stop
       \/ /\ Len(out) < MaxPoints
          /\ Pair \/ Lone \/ Single
          /\ UNCHANGED <<pc, text>>

Next == Convert

Spec == Init /\ [][Next]_vars
-------------------------------------------------------------------------------
Bytes == encodeUTF16toUTF8(out)

TypeOK ==
    /\ text \in Strings
    /\ str \in Seq(0..65535) /\ c2 \in {None} \cup 0..65535
    /\ out \in Seq(0..Pairing(57343, 57343))
    /\ pc \in {"loop", "done"}

\* Every high surrogate has its low one behind it, and no low one stands alone.
WellFormed(units) ==
    \A i \in DOMAIN units :
        /\ IsHigh(units[i]) => i < Len(units) /\ IsLow(units[i + 1])
        /\ IsLow(units[i]) => i > 1 /\ IsHigh(units[i - 1])

\* The bytes of a string whose conversion has ended decode to that string, whatever
\* surrogates it holds, alone or in pairs (lines 3521-3649): but two low ones in a row are
\* taken for a pair, and from DFC0 on it has more than the 21 bits of four bytes.
Decodes == (\A i \in DOMAIN out : out[i] < 2^21) => decodeUTF8toUTF16(Bytes) = text

\* The two passes over a string agree: the bytes counted before a buffer is grown are
\* the bytes written then, in bytebuffer.js (lines 3679-3685) and in DataBuffer.js
\* (lines 296-309), where the length is written in front.
CountedIsWritten == calculateUTF16asUTF8(out)[2] = Len(Bytes)
LengthFitsBytes == utf8Length(text) = Len(utf8Write(text))

\* Both codecs of a page write the same bytes for a string of whole characters, and
\* DataBuffer.js reads its own back, but for the lead bytes it masks too short (line 275).
CodecsAgree ==
    WellFormed(text) =>
        /\ utf8Write(text) = Bytes
        /\ ToSet(text) \cap 1024..2047 = {} => utf8Read(utf8Write(text)) = text

\* What holds of a string and its bytes: of bytebuffer.js when the conversion ends, which
\* it does not for every string (PassedOnce).
TextSurvives ==
    /\ LengthFitsBytes
    /\ pc = "done" => Decodes /\ CountedIsWritten /\ CodecsAgree

\* "Code points destination as a function successively called with each converted code
\* point" (bytebuffer.js:3582): no more code points are passed than there are characters.
\* A unit behind a lone surrogate is kept in c2 and passed again in every round: the loop
\* of line 3587 never ends.
PassedOnce == Len(out) <= Len(text)
===============================================================================
