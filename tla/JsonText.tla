----------------------------- MODULE JsonText -----------------------------
(***************************************************************************)
(* The bytes of a JSON text.  tp_json_encode takes them apart: blanks,     *)
(* strings with their escapes, numbers (src/json/json_encode.c); what it   *)
(* finds are the tokens of JsonParse.  tp_json_decode writes strings and   *)
(* numbers again (src/json/json_decode.c).                                 *)
(*                                                                         *)
(* strtod and printf("%.17g") of the C library are modelled on multiples   *)
(* of 1/4 below the greatest integer, where both are exact and printf      *)
(* writes no exponent.  (It writes one from 10^17 on, below 2^63.)         *)
(***************************************************************************)
EXTENDS JsonDocument, Bitstream

CONSTANTS
    WordBits,       \* bits of an integer: 64 in the code
    NumberText      \* the size of the buffer for the text of a number: 64 in the code

Quote == 34
Backslash == 92
Minus == 45
Point == 46
LetterU == 117
Blank == {9, 10, 13, 32}
DigitChar == 48..57
TrueText == <<116, 114, 117, 101>>
FalseText == <<102, 97, 108, 115, 101>>
NullText == <<110, 117, 108, 108>>

\* The byte at position i, or -1 behind the end.
At(s, i) == IF i \in DOMAIN s THEN s[i] ELSE -1
\* Where the run of bytes of C that starts at i ends (skip_ws, the loops over isdigit).
RunEnd(s, i, C) == CHOOSE j \in i..Len(s) + 1 : At(s, j) \notin C /\ \A k \in i..j - 1 : s[k] \in C

\* What was read up to next, or Bad.
Took(next, val) == [next |-> next, val |-> val]
Bad == Took(0, <<>>)

-----------------------------------------------------------------------------
(* parse_string_into *)

HexChar == 48..57 \cup 65..70 \cup 97..102
HexValue(c) == IF c <= 57 THEN c - 48 ELSE (c % 32) + 9
CodeUnit(s, i) ==
    IF \A k \in i..i + 3 : At(s, k) \in HexChar
    THEN 4096 * HexValue(s[i]) + 256 * HexValue(s[i + 1]) + 16 * HexValue(s[i + 2]) + HexValue(s[i + 3])
    ELSE -1

HighSurrogate == 55296..56319
LowSurrogate == 56320..57343
Joined(hi, lo) == 65536 + 1024 * (hi - 55296) + (lo - 56320)

Utf8Bytes(cp) ==
    LET Low(k) == 128 + ((cp \div 64^k) % 64)
    IN  CASE cp < 128   -> <<cp>>
          [] cp \in 128..2047    -> <<192 + cp \div 64, Low(0)>>
          [] cp \in 2048..65535  -> <<224 + cp \div 4096, Low(1), Low(0)>>
          [] cp \in 65536..1114111 -> <<240 + cp \div 262144, Low(2), Low(1), Low(0)>>

\* Mutant: a pair is put together without the offset of the planes above.
UnicodeLow(s, i) ==
    LET hi == CodeUnit(s, i)
        lo == CodeUnit(s, i + 6)
    IN  IF hi = -1 THEN Bad
        ELSE IF hi \notin HighSurrogate THEN Took(i + 4, Utf8Bytes(hi))
        ELSE IF At(s, i + 4) = Backslash /\ At(s, i + 5) = LetterU /\ lo \in LowSurrogate
        THEN Took(i + 10, Utf8Bytes(Joined(hi, lo) - 65536))
        ELSE Bad

\* The digits behind "\u"; a high surrogate must have a low one behind it.
Unicode(s, i) ==
    LET hi == CodeUnit(s, i)
        lo == CodeUnit(s, i + 6)
    IN  IF hi = -1 THEN Bad
        ELSE IF hi \notin HighSurrogate THEN Took(i + 4, Utf8Bytes(hi))
        ELSE IF At(s, i + 4) = Backslash /\ At(s, i + 5) = LetterU /\ lo \in LowSurrogate
        THEN Took(i + 10, Utf8Bytes(Joined(hi, lo)))
        ELSE Bad

\* What the letter behind a backslash stands for.
Meant == (34 :> 34) @@ (92 :> 92) @@ (47 :> 47)
            @@ (98 :> 8) @@ (102 :> 12) @@ (110 :> 10) @@ (114 :> 13) @@ (116 :> 9)
ReadChar(s, i) ==
    IF s[i] # Backslash THEN Took(i + 1, <<s[i]>>)
    ELSE IF At(s, i + 1) = LetterU THEN Unicode(s, i + 2)
    ELSE IF At(s, i + 1) \in DOMAIN Meant THEN Took(i + 2, <<Meant[s[i + 1]]>>)
    ELSE Bad

RECURSIVE StringFrom(_, _, _)
RECURSIVE StringBehind(_, _, _)
StringBehind(s, c, text) == IF c = Bad THEN Bad ELSE StringFrom(s, c.next, text \o c.val)
StringFrom(s, i, text) ==
    IF i > Len(s) THEN Bad
    ELSE IF s[i] = Quote THEN Took(i + 1, text)
    ELSE StringBehind(s, ReadChar(s, i), text)

-----------------------------------------------------------------------------
(* parse_number *)

IntMax == 2^(WordBits - 1) - 1
UintMax == 2^WordBits - 1

\* The number that digits spell; beyond the width of an integer any larger one.
Magnitude(digits) ==
    FoldLeft(LAMBDA n, c : IF n > UintMax THEN n ELSE 10 * n + (c - 48), 0, digits)

\* strtoull and strtoll, which saturate, and the choice of the type.
Unsigned(digits) ==
    LET n == Magnitude(digits)
    IN  IF n > IntMax THEN <<"UINT", IF n > UintMax THEN UintMax ELSE n>> ELSE <<"INT", n>>
Negative(digits) ==
    LET n == Magnitude(digits) IN <<"INT", IF n > IntMax + 1 THEN -(IntMax + 1) ELSE -n>>

\* The bits of a double of q/4.
Log2(n) == CHOOSE k \in 0..30 : 2^k <= n /\ n < 2^(k + 1)
Double(negative, q) ==
    <<IF negative THEN 1 ELSE 0>>
    \o (IF q = 0 THEN Zeros(63)
        ELSE Bits(1021 + Log2(q), 11) \o Bits(q - 2^Log2(q), Log2(q)) \o Zeros(52 - Log2(q)))
Quarters(bits) ==
    LET k == Number(SubSeq(bits, 2, 12)) - 1021
    IN  IF k < 0 THEN 0 ELSE 2^k + Number(SubSeq(bits, 13, 12 + k))

\* The parts of a number: behind its sign, its point and digits, its exponent.
Start(s, i) == IF At(s, i) = Minus THEN i + 1 ELSE i
BehindPoint(s, i) == IF At(s, i) = Point THEN RunEnd(s, i + 1, DigitChar) ELSE i
ExpDigits(s, i) == IF At(s, i + 1) \in {Minus, 43} THEN i + 2 ELSE i + 1
HasExp(s, i) == At(s, i) \in {69, 101}
BehindExp(s, i) == IF HasExp(s, i) THEN RunEnd(s, ExpDigits(s, i), DigitChar) ELSE i

\* strtod: the digits before and behind the point at i, and the exponent at j.
NumberOf(digits) == FoldLeft(LAMBDA n, c : 10 * n + (c - 48), 0, digits)
Exponent(text, j) ==
    LET size == NumberOf(SubSeq(text, ExpDigits(text, j), Len(text)))
    IN  IF j >= Len(text) THEN 0 ELSE IF text[j + 1] = Minus THEN -size ELSE size
Scaled(mantissa, scale) ==
    IF scale >= 0 THEN mantissa * 10^scale ELSE mantissa \div 10^(-scale)
StrtodParts(text, i, j) ==
    Double(text[1] = Minus,
           Scaled(4 * NumberOf(SubSeq(text, Start(text, 1), i - 1) \o SubSeq(text, i + 1, j - 1)),
                  Exponent(text, j) - (IF j > i THEN j - i - 1 ELSE 0)))
StrtodPoint(text, i) == StrtodParts(text, i, BehindPoint(text, i))
Strtod(text) == StrtodPoint(text, RunEnd(text, Start(text, 1), DigitChar))

\* The value of the text of a number; what does not fit the buffer is cut off.
Cut(s, i, end) == SubSeq(s, i, IF end - i < NumberText THEN end - 1 ELSE i + NumberText - 2)
NumberValue(text, isFloat) ==
    IF isFloat THEN <<"FLOAT64", Strtod(text)>>
    ELSE IF text[1] = Minus THEN Negative(Tail(text)) ELSE Unsigned(text)

\* From the sign at i: the point, or what is there instead, at p; the exponent at e.
NumberParts(s, i, p, e, end) ==
    IF p = Start(s, i) \/ e = p + 1 \/ (HasExp(s, e) /\ end = ExpDigits(s, e)) THEN Bad
    ELSE Took(end, NumberValue(Cut(s, i, end), e > p \/ HasExp(s, e)))
NumberWithExp(s, i, p, e) == NumberParts(s, i, p, e, BehindExp(s, e))
NumberWithPoint(s, i, p) == NumberWithExp(s, i, p, BehindPoint(s, p))
ReadNumber(s, i) == NumberWithPoint(s, i, RunEnd(s, Start(s, i), DigitChar))

-----------------------------------------------------------------------------
\* The token that starts at i.  Behind what starts no token nothing is read.
Marks == (123 :> "{") @@ (125 :> "}") @@ (91 :> "[") @@ (93 :> "]") @@ (58 :> ":") @@ (44 :> "comma")
Word(s, i, text) == \A k \in DOMAIN text : At(s, i + k - 1) = text[k]
BadToken == Took(0, Mark("bad"))
TextToken(r) == IF r = Bad THEN BadToken ELSE Took(r.next, Text(r.val))
NumberToken(r) == IF r = Bad THEN BadToken ELSE Took(r.next, Scalar(r.val))
TokenAt(s, i) ==
    CASE s[i] \in DOMAIN Marks -> Took(i + 1, Mark(Marks[s[i]]))
      [] s[i] = Quote -> TextToken(StringFrom(s, i + 1, <<>>))
      [] s[i] = Minus \/ s[i] \in DigitChar -> NumberToken(ReadNumber(s, i))
      [] Word(s, i, TrueText) -> Took(i + 4, Scalar(<<"BOOL", TRUE>>))
      [] Word(s, i, FalseText) -> Took(i + 5, Scalar(<<"BOOL", FALSE>>))
      [] Word(s, i, NullText) -> Took(i + 4, Scalar(<<"NULL", 0>>))
      [] OTHER -> BadToken

RECURSIVE TokensFrom(_, _)
RECURSIVE TokensBehind(_, _)
TokensBehind(s, t) == <<t.val>> \o (IF t.next = 0 THEN <<>> ELSE TokensFrom(s, RunEnd(s, t.next, Blank)))
TokensFrom(s, i) == IF i > Len(s) THEN <<>> ELSE TokensBehind(s, TokenAt(s, i))
Lex(s) == TokensFrom(s, RunEnd(s, 1, Blank))

-----------------------------------------------------------------------------
(* sb_append_json_string and sb_append_value *)

HexDigit(n) == IF n < 10 THEN 48 + n ELSE 87 + n
Escape == (34 :> 34) @@ (92 :> 92) @@ (8 :> 98) @@ (12 :> 102) @@ (10 :> 110) @@ (13 :> 114) @@ (9 :> 116)

\* Mutant: the backslash itself is not escaped.
WriteCharPlain(c) ==
    IF c \in DOMAIN Escape \ {Backslash} THEN <<Backslash, Escape[c]>>
    ELSE IF c < 32 THEN <<Backslash, LetterU, 48, 48, HexDigit(c \div 16), HexDigit(c % 16)>>
    ELSE <<c>>
WriteChar(c) ==
    IF c \in DOMAIN Escape THEN <<Backslash, Escape[c]>>
    ELSE IF c < 32 THEN <<Backslash, LetterU, 48, 48, HexDigit(c \div 16), HexDigit(c % 16)>>
    ELSE <<c>>
WriteString(bytes) ==
    <<Quote>> \o FlattenSeq([i \in DOMAIN bytes |-> WriteChar(bytes[i])]) \o <<Quote>>

WriteInt(n) == IF n < 0 THEN <<Minus>> \o Decimal(-n) ELSE Decimal(n)

\* printf("%.17g"): no point and no digits behind it where there is nothing to say.
Fraction == <<<<>>, <<Point, 50, 53>>, <<Point, 53>>, <<Point, 55, 53>>>>
WriteDouble(bits) ==
    LET q == Quarters(bits)
    IN  (IF bits[1] = 1 THEN <<Minus>> ELSE <<>>) \o Decimal(q \div 4) \o Fraction[1 + (q % 4)]

WriteValue(v) ==
    CASE v[1] = "BOOL" -> IF v[2] THEN TrueText ELSE FalseText
      [] v[1] \in {"INT", "UINT"} -> WriteInt(v[2])
      [] v[1] = "FLOAT64" -> WriteDouble(v[2])
      [] v[1] = "STRING" -> WriteString(v[2])
      [] OTHER -> NullText
=============================================================================
