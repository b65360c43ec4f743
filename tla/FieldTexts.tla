------------------------------ MODULE FieldTexts ------------------------------
(***************************************************************************)
(* The texts and the floats in the fields of ByteBuffer.js and             *)
(* DataBuffer.js.  A text is the sequence of its UTF-8 bytes; a field of   *)
(* fixed length may end inside one of its characters.  A float is stored   *)
(* as the four bytes of the single that is nearest to it.                  *)
(***************************************************************************)
EXTENDS FieldBytes, FiniteSets

CONSTANTS CharLength,   \* by its first byte, the bytes of a character; 0 for its other bytes
          SingleOf      \* by the eight bytes of a double, the four of its single

\* What a byte that nothing was written to begins is not known either.
CharLengthAssumption == CharLength \in [0..Radix -> 0..4]

\* The character that begins at i is not over at the end of bytes.
EndsBehind(bytes, i) == i + CharLength[bytes[i]] - 1 > Len(bytes)

\* A text is made of whole characters.
WellFormed(text) ==
    /\ \A i \in DOMAIN text :
          /\ ~EndsBehind(text, i)
          /\ \A j \in (i + 1)..(i + CharLength[text[i]] - 1) : CharLength[text[j]] = 0
    /\ \A j \in DOMAIN text :
          CharLength[text[j]] = 0 => \E i \in 1..(j - 1) : j <= i + CharLength[text[i]] - 1

\* Where the cut character of bytes begins; they are a text that is cut somewhere.
CutAt(bytes) == CHOOSE i \in DOMAIN bytes : EndsBehind(bytes, i)
Cut(bytes) == \E i \in DOMAIN bytes : EndsBehind(bytes, i)

\* The whole characters of bytes.
WholeLength(bytes) == IF Cut(bytes) THEN CutAt(bytes) - 1 ELSE Len(bytes)
WholeChars(bytes) == SubSeq(bytes, 1, WholeLength(bytes))

\* What stands for U+FFFD in the bytes of a text.
Replacement == -1

\* A string of fixed length whose field ends inside one of its characters.
Split(f) == f.t = "vstring" /\ Len(f.d) > f.len /\ Cut(SubSeq(f.d, 1, f.len))
=============================================================================
