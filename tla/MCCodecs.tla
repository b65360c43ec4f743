------------------------------- MODULE MCCodecs -------------------------------
(* What is converted, each in a behaviour of its own, for TLC: strings, Longs of  *)
(* eight bits, floats of two bytes and of one, and the text forms of a ByteBuffer *)
(* of bytebuffer.js.  `codec` says which; the others keep still.                  *)
EXTENDS Integers, Sequences, SequencesExt

\* Strings of up to three characters from the ends of each encoding's range, and of up to
\* four with surrogates that have no partner: at the end, in a row, and in front of an
\* ordinary unit, where the conversion does not end.
StringsOver(chars) == {FlattenSeq(parts) : parts \in UNION {[1..n -> chars] : n \in 0..3}}
OneUnit == {<<u>> : u \in {65, 127, 128, 1023, 2048, 55295, 57344, 65535}}
Pairs == {<<55296, 56320>>, <<56319, 57343>>, <<55296, 57343>>}
EndingAlone == {s \o <<u>> : s \in StringsOver({<<65>>, <<2047>>} \cup Pairs),
                             u \in {55296, 56319, 57343}}
SurrogateRuns == {s \o <<u>> : s \in StringsOver({<<55296>>, <<56319>>, <<56320>>, <<57343>>}),
                      u \in {55296, 56320, 65, 65535}}
Strings == StringsOver(OneUnit \cup Pairs) \cup StringsOver({<<65>>, <<1024>>, <<2047>>})
            \cup EndingAlone \cup SurrogateRuns
MaxPoints == 8

\* Longs of eight bits: every low word, and high words at the ends of both signs.
Longs == [low : 0..15, high : {0, 1, 7, 8, 15}, unsigned : BOOLEAN]

VARIABLES codec,
    str, c2, out, pc, text,
    op, x, y, z,
    value, written,
    held, form, formText, cut, back

Chars == INSTANCE Utf
Long == INSTANCE Long64
                 WITH ChunkBits <- 2, Mantissa <- 6, FastBits <- 2, DeltaBits <- 4,
                      WriteDigits <- 2, ReadDigits <- 3, Radixes <- {2, 3, 4}

\* Numbers of a format of two bytes, and numbers between those of a format of one.
Double == INSTANCE Ieee754 WITH MLen <- 10, NBytes <- 2, Rounds <- FALSE, Numbers <- {}
Single == INSTANCE Ieee754 WITH MLen <- 4, NBytes <- 1, Rounds <- TRUE, Numbers <- {}
Fractions == {0, 1, 2, 511, 512, 1022, 1023} \cup {37 * i : i \in 0..27}
OwnNumbers == {Double!ieee754_read(k * 1024 + f) : k \in 0..63, f \in Fractions}
Between == {Single!Finite(s, m, e) : s \in {0, 1}, m \in 1..127, e \in -10..(-1)}

\* Two characters, of one byte and of two, and texts of them.
CharBytes == <<<<1>>, <<3, 2>>>>
Texts == {<<>>, <<1>>, <<2>>, <<1, 2>>, <<2, 1>>, <<2, 2>>}

\* Bytes of four bits: base64 has digits of three bits, hex of two.  All bytes, and all
\* positions around a few.
Contents == UNION {[1..n -> {0, 6, 11, 15}] : n \in 1..3}
FewContents == {<<>>, <<1>>, <<3, 2>>, <<1, 3>>, <<0, 15, 6>>, <<1, 2, 3, 4, 5>>}
Whole(c) == [bytes |-> c, offset |-> 0, limit |-> Len(c), mark |-> -1, endian |-> "BE"]
Buffers ==
    {Whole(c) : c \in Contents}
    \cup UNION {{[Whole(c) EXCEPT !.offset = o, !.limit = l, !.mark = m]
                    : o \in 0..Len(c), l \in 0..Len(c), m \in -1..Len(c)} : c \in FewContents}
Forms == INSTANCE BufferText WITH Radix <- 16, WordBits <- 14, buf <- held, text <- formText

ASSUME CodecsAssumption ==
    /\ Chars!PointsAssumption
    /\ Forms!RadixAssumption /\ Forms!ByteAssumption /\ Forms!TextsAssumption
    /\ Long!WidthAssumption /\ Double!WidthAssumption /\ Single!WidthAssumption

textVars == <<str, c2, out, pc, text>>
longVars == <<op, x, y, z>>
numberVars == <<value, written>>
formVars == <<held, form, formText, cut, back>>
vars == <<codec, textVars, longVars, numberVars, formVars>>

Init ==
    /\ codec \in {"text", "long", "double", "single", "form"}
    /\ text \in IF codec = "text" THEN Strings ELSE {<<>>}
    /\ str = text /\ c2 = Chars!None /\ out = <<>> /\ pc = "loop"
    /\ op = "none"
    /\ x \in IF codec = "long" THEN Longs ELSE {Long!ZERO}
    /\ y \in IF codec = "long" THEN {l \in Longs : l.unsigned = x.unsigned} ELSE {Long!ZERO}
    /\ z = x
    /\ value \in CASE codec = "double" -> OwnNumbers
                   [] codec = "single" -> Between
                   [] OTHER -> {Double!NaN}
    /\ written = -1
    /\ IF codec = "form" THEN Forms!Init
       ELSE /\ held = Forms!NoBuffer /\ form = "hex" /\ formText = <<>> /\ cut = FALSE
            /\ back = Forms!NoBuffer

Runs(c) == codec = c /\ UNCHANGED codec

TextStep == Runs("text") /\ Chars!Next /\ UNCHANGED <<longVars, numberVars, formVars>>
LongStep == Runs("long") /\ Long!Next /\ UNCHANGED <<textVars, numberVars, formVars>>
DoubleStep == Runs("double") /\ Double!Write /\ UNCHANGED <<textVars, longVars, formVars>>
SingleStep == Runs("single") /\ Single!Write /\ UNCHANGED <<textVars, longVars, formVars>>
FormStep == Runs("form") /\ Forms!Next /\ UNCHANGED <<textVars, longVars, numberVars>>

Next == TextStep \/ LongStep \/ DoubleStep \/ SingleStep \/ FormStep

Spec == Init /\ [][Next]_vars
-----------------------------------------------------------------------------
(* The properties of the codec that runs. *)

TypeOK ==
    /\ codec = "text" => Chars!TypeOK
    /\ codec = "long" => Long!TypeOK
    /\ codec = "double" => Double!TypeOK
    /\ codec = "single" => Single!TypeOK
    /\ codec = "form" => Forms!TypeOK

TextSurvives == codec = "text" => Chars!TextSurvives
PassedOnce == codec = "text" => Chars!PassedOnce
LongsExact == codec = "long" => Long!LongsExact
NumberSurvives ==
    /\ codec = "double" => Double!NumberSurvives
    /\ codec = "single" => Single!NearestIsWritten
FormsComeBack == codec = "form" => Forms!FormsComeBack
=============================================================================
