------------------------------ MODULE BufferText ------------------------------
(***************************************************************************)
(* The texts that bytebuffer.js makes of a ByteBuffer and reads back:      *)
(* base64, hex, binary, utf8 and the debug form, which shows the positions *)
(* among the bytes.  A text may arrive cut.                                *)
(*                                                                         *)
(* A character is what it stands for: a digit of base64 (three quarters of *)
(* a byte) or of hex (half a byte), a byte of a binary string, a character *)
(* of Texts.                                                               *)
(***************************************************************************)
EXTENDS BrowserByteBuffer

CONSTANT Buffers   \* the ByteBuffers to convert

VARIABLES buf,    \* the ByteBuffer
          form,   \* the encoding
          text,   \* what was made of buf
          cut,    \* the text has lost its end
          back    \* the ByteBuffer made of the text, Refused or, none yet, NoBuffer

vars == <<buf, form, text, cut, back>>

NoBuffer == allocate(0, "none")
Refused == allocate(0, "refused")

Quarter == 2^(ByteBits \div 4)    \* 4: two bits of eight
Digit16 == 2^(ByteBits \div 2)    \* 16
Pad == -1                         \* "="
-------------------------------------------------------------------------------

\* One turn of lxiv.encode: up to three bytes as four characters.
encode3(bytes) ==
    LET b(i) == IF i \in DOMAIN bytes THEN bytes[i] ELSE 0
        digits == <<b(1) \div Quarter,
                    (b(1) % Quarter) * Quarter^2 + (b(2) \div Quarter^2),
                    (b(2) % Quarter^2) * Quarter + (b(3) \div Quarter^3),
                    b(3) % Quarter^3>>
    IN  [i \in 1..4 |-> IF i <= Len(bytes) + 1 THEN digits[i] ELSE Pad]

\* The i-th group of n of a sequence.
Group(s, n, i) == SubSeq(s, n * (i - 1) + 1, IF n * i <= Len(s) THEN n * i ELSE Len(s))
Groups(s, n) == [i \in 1..((Len(s) + n - 1) \div n) |-> Group(s, n, i)]

InGroups(s, n, Op(_)) == LET step(all, g) == all \o Op(g) IN FoldLeft(step, <<>>, Groups(s, n))

encode(bytes) == InGroups(bytes, 3, encode3)

\* One turn of lxiv.decode: a character of each byte but the first goes with the one
\* before; a text that is at an end, or at a pad, gives what is whole.
decode4(c) ==
    LET n == Len(SelectSeq(c, LAMBDA d : d # Pad)) IN
    SubSeq(<<(c[1] * Quarter) + (IF n > 1 THEN c[2] \div Quarter^2 ELSE 0),
             IF n > 2 THEN ((c[2] % Quarter^2) * Quarter^2) + (c[3] \div Quarter) ELSE 0,
             IF n > 3 THEN ((c[3] % Quarter) * Quarter^3) + c[4] ELSE 0>>, 1, n - 1)

decode(chars) == InGroups(chars, 4, decode4)

\* toBase64() from offset on; view[i] behind the end is zero.
toBase64(b, end) == encode([i \in 1..(End(b, end) - b.offset) |-> ByteAt(b, b.offset + i - 1)])

\* Fault: the limit is the capacity.
fromBase64Whole(chars) ==
    LET bytes == decode(chars) IN
    [allocate((Len(chars) * 3) \div 4, "BE") EXCEPT !.bytes = Overlay(@, 0, bytes)]

\* The capacity is reckoned by the length of the text, three quarters cut to an integer.
fromBase64(chars) ==
    LET bytes == decode(chars) IN
    [allocate((Len(chars) * 3) \div 4, "BE") EXCEPT !.bytes = Overlay(@, 0, bytes),
                                                   !.limit = Len(bytes)]
-------------------------------------------------------------------------------
toHex(b) ==
    LET w == Window(b) IN
    [i \in 1..(2 * Len(w)) |-> IF i % 2 = 1 THEN w[(i + 1) \div 2] \div Digit16
                               ELSE w[i \div 2] % Digit16]
CanHex(chars) == Len(chars) % 2 = 0
fromHex(chars) ==
    wrap([i \in 1..(Len(chars) \div 2) |-> (chars[(2 * i) - 1] * Digit16) + chars[2 * i]])

toBinary(b) == Window(b)
fromBinary(chars) == wrap(chars)
btoa(chars) == toBase64(fromBinary(chars), None)
atob(chars) == toBinary(fromBase64(chars))

\* A last character that is not whole makes the decoder throw, and line 3716 drops the
\* exception: the source has been read to its end.
PrefixTexts(bytes) == {t \in Texts : IsPrefix(Utf8(t), bytes)}

toUTF8(b) ==
    CHOOSE t \in PrefixTexts(Window(b)) : \A u \in PrefixTexts(Window(b)) : Len(u) <= Len(t)
fromUTF8(chars) == wrap(Utf8(chars))
-------------------------------------------------------------------------------
(* The debug form: the digits of all bytes, and between them a symbol for the *)
(* set of positions that is there, or a space for none.                       *)

DigitChar(d) == [digit |-> d, at |-> {}]
Symbol(positions) == [digit |-> None, at |-> positions]

PositionsAt(b, i) ==
    {p \in {"offset", "mark", "limit"} :
        i = IF p = "offset" THEN b.offset ELSE IF p = "mark" THEN b.mark ELSE b.limit}

toDebug(b) ==
    LET k == capacity(b)
        digits(i) == IF i = 0 THEN <<>>
                     ELSE <<DigitChar(b.bytes[i] \div Digit16), DigitChar(b.bytes[i] % Digit16)>>
        symbol(i) == IF PositionsAt(b, i) = {} /\ i \in {0, k} THEN <<>>
                     ELSE <<Symbol(PositionsAt(b, i))>>
        column(i) == digits(i - 1) \o symbol(i - 1)
    IN  FlattenSeq([i \in 1..(k + 1) |-> column(i)])

\* parseInt of two characters reads the first alone where the second is no digit.
ByteRead(s, byte) ==
    [s EXCEPT !.b.bytes = Overlay(@, s.j, <<byte>>), !.j = @ + 1, !.half = None,
              !.fail = @ \/ s.rs, !.rs = TRUE]

ReadSymbol(s, at) ==
    [s EXCEPT !.fail = @ \/ s.seen \cap at # {}, !.seen = @ \cup at, !.rs = FALSE,
              !.b = [@ EXCEPT !.offset = IF "offset" \in at THEN s.j ELSE @,
                              !.mark = IF "mark" \in at THEN s.j ELSE @,
                              !.limit = IF "limit" \in at THEN s.j ELSE @]]

ReadDebugChar(s, c) ==
    IF s.half # None
    THEN ByteRead(s, IF c.digit = None THEN s.half ELSE (s.half * Digit16) + c.digit)
    ELSE IF c.digit # None THEN [s EXCEPT !.half = c.digit] ELSE ReadSymbol(s, c.at)

DebugRead(chars) ==
    LET start == [b |-> allocate((Len(chars) + 1) \div 3, "BE"), j |-> 0, half |-> None,
                  rs |-> FALSE, fail |-> FALSE, seen |-> {}]
        end == FoldLeft(ReadDebugChar, start, chars)
    IN  IF end.half = None THEN end ELSE ByteRead(end, end.half)

CanDebug(chars) ==
    LET end == DebugRead(chars) IN
    ~end.fail /\ {"offset", "limit"} \subseteq end.seen /\ end.j >= capacity(end.b)
fromDebug(chars) == DebugRead(chars).b
-------------------------------------------------------------------------------
\* toString(encoding) and wrap(text, encoding).
toString(b, encoding) ==
    CASE encoding = "base64" -> toBase64(b, None)
      [] encoding = "hex" -> toHex(b)
      [] encoding = "binary" -> toBinary(b)
      [] encoding = "debug" -> toDebug(b)
wrapText(chars, encoding) ==
    CASE encoding = "base64" -> fromBase64(chars)
      [] encoding = "hex" -> IF CanHex(chars) THEN fromHex(chars) ELSE Refused
      [] encoding = "binary" -> fromBinary(chars)
      [] encoding = "debug" -> IF CanDebug(chars) THEN fromDebug(chars) ELSE Refused

Init ==
    /\ buf \in Buffers
    /\ form \in {"base64", "hex", "binary", "debug"}
    /\ text = <<>> /\ cut = FALSE /\ back = NoBuffer

Encode ==
    /\ text = <<>>
    /\ CanRange(buf, None, None)
    /\ text' = toString(buf, form)
    /\ UNCHANGED <<buf, form, cut, back>>

LoseEnd ==
    /\ text # <<>> /\ back = NoBuffer
    /\ text' = Front(text) /\ cut' = TRUE
    /\ UNCHANGED <<buf, form, back>>

Decode ==
    /\ text # <<>> /\ back = NoBuffer
    /\ back' = wrapText(text, form)
    /\ UNCHANGED <<buf, form, text, cut>>

Next == Encode \/ LoseEnd \/ Decode
Spec == Init /\ [][Next]_vars
-------------------------------------------------------------------------------
TypeOK ==
    /\ buf \in Buffers
    /\ back \notin {NoBuffer, Refused} =>
          /\ \A i \in DOMAIN back.bytes : back.bytes[i] \in Byte
          /\ back.offset \in 0..capacity(back) /\ back.limit \in 0..capacity(back)

Whole == ~cut /\ back # NoBuffer

\* Each form gives the contents back, whatever the bytes and their number (the two pads of
\* base64, the zeros in front of hex digits), and refuses none that it made.
ContentsComeBack == Whole => back # Refused /\ Window(back) = Window(buf)

\* The debug form gives the whole ByteBuffer back: also the bytes outside the contents and
\* a mark, where two or three positions are one (lines 3247-3255).
DebugGivesAll ==
    Whole /\ form = "debug" =>
        back # Refused /\ [back EXCEPT !.endian = buf.endian] = buf

\* A text that has lost its end is refused or gives a part of the contents: a byte that is
\* not whole is never made up.
CutGivesNoOther ==
    back \notin {NoBuffer, Refused} => IsPrefix(Window(back), Window(buf))

\* btoa and atob undo each other.
AtobUndoesBtoa == text = <<>> => atob(btoa(Window(buf))) = Window(buf)

\* A string that is wrapped is given back by toUTF8.
Utf8ComesBack == text = <<>> => \A t \in Texts : toUTF8(fromUTF8(t)) = t

FormsComeBack == ContentsComeBack /\ DebugGivesAll /\ CutGivesNoOther /\ AtobUndoesBtoa /\ Utf8ComesBack
===============================================================================
