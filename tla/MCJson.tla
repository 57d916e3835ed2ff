------------------------------ MODULE MCJson ------------------------------
(***************************************************************************)
(* Small documents for Json; and texts: those of some documents, all short *)
(* sequences of tokens, and texts with one token missing or replaced.      *)
(***************************************************************************)
EXTENDS Json

CONSTANT MaxShort       \* bound: tokens of the texts that are any sequence

V(n) == <<"val", <<"INT", n>>>>
S(b) == <<"val", <<"STRING", b>>>>
ka == <<97>>
kab == <<97, 98>>
kb == <<98>>
Obj1(k, t) == <<"obj", << <<k, t>> >> >>
Obj2(k, t, l, u) == <<"obj", << <<k, t>>, <<l, u>> >> >>
Arr(s) == <<"arr", s>>

Leaf == {V(-3), S(<<98, 46>>), <<"val", <<"NULL", 0>>>>}
Flat ==
    {Arr(<<x>>) : x \in Leaf} \cup {Arr(<<V(1), S(<<>>)>>)}
    \cup {Obj1(kab, V(2)), Obj2(ka, V(4), kb, S(<<>>)), Obj2(kb, V(4), ka, V(5)), Obj2(ka, V(4), kab, V(1))}
Item == {V(7), Arr(<<>>), Arr(<<V(8)>>), Obj1(kab, V(2))}

\* Plain documents, and documents in which a key begins its sibling, is empty, is
\* repeated or holds a dot, and with empty containers.
PlainOrNot ==
    Flat \cup {Arr(<<>>), <<"obj", <<>>>>}
    \cup {Arr(<<x, y>>) : x \in Flat, y \in Item}
    \cup {Obj2(ka, x, k, y) : x \in Flat, y \in Item, k \in {kb, kab}}
    \cup {Obj2(ka, x, ka, V(1)) : x \in Flat}
    \cup {Obj2(<<>>, x, ka, V(1)) : x \in Flat} \cup {Obj2(<<97, 46, 98>>, x, ka, V(1)) : x \in Flat}
    \cup {Obj1(ka, Arr(<<Obj1(kb, Arr(<<V(6)>>)), V(1)>>)), Arr([i \in 1..10 |-> V(i)]),
          Arr([i \in 1..12 |-> IF i \in {2, 11} THEN Obj1(kb, V(i)) ELSE V(i)])}

\* The walk finds both keys, and emit_json takes the second for a member of the first.
PrefixKeys == {Obj2(ka, V(1), kab, V(2))}

\* Documents of all shapes up to two levels, and of one level more than MaxNesting.
One == V(1)
Upto(X, n) == UNION {[1..m -> X] : m \in 0..n}
Shallow == {Arr(e) : e \in Upto({One}, 2)} \cup {<<"obj", m>> : m \in Upto({ka, <<98, 99>>} \X {One}, 2)}
TwoLevels ==
    {Arr(<<f, g>>) : f \in Shallow, g \in Shallow \cup {S(kb)}}
    \cup {Obj2(ka, f, <<98, 99>>, g) : f \in Shallow, g \in Shallow \cup {S(kb)}}
Deep == {Arr(<<One, Arr(<<n>>)>>) : n \in TwoLevels}

Token == {Mark(k) : k \in {"{", "}", "[", "]", ":", "comma", "bad"}} \cup {Text(ka), Scalar(<<"INT", 1>>)}
Edits(s) ==
    {RemoveAt(s, i) : i \in DOMAIN s}
    \cup {[s EXCEPT ![i] = t] : i \in DOMAIN s, t \in Token}
    \cup {SubSeq(s, 1, i) : i \in DOMAIN s}
Edited == {Arr(<<f, One>>) : f \in Shallow} \cup {Obj1(ka, f) : f \in Shallow}
Texts ==
    {Tokens(d) : d \in TwoLevels \cup Deep} \cup Upto(Token, MaxShort)
    \cup UNION {Edits(Tokens(d)) : d \in Edited}
NoTexts == {}

-----------------------------------------------------------------------------
\* The bytes of a code point, from the general rule: as few bytes as have room.
Continued(cp) == IF cp < 128 THEN 0 ELSE CHOOSE n \in 1..3 : cp < 2^(5 * n + 6) /\ (n = 1 \/ cp >= 2^(5 * n + 1))
Octet(cp, n, k) == ((cp \div 64^(n - k)) % 64) + 128
Encoding(cp) ==
    LET n == Continued(cp)
    IN  IF n = 0 THEN <<cp>>
        ELSE <<256 - 2^(7 - n) + cp \div 64^n>> \o [k \in 1..n |-> Octet(cp, n, k)]

LowerHex(n) == <<48, 49, 50, 51, 52, 53, 54, 55, 56, 57, 97, 98, 99, 100, 101, 102>>[n + 1]
UpperHex(n) == IF n < 10 THEN 48 + n ELSE 55 + n
UEscape(unit, H(_)) == <<92, 117, H(unit \div 4096), H((unit \div 256) % 16), H((unit \div 16) % 16), H(unit % 16)>>
Units(cp) == IF cp < 65536 THEN <<cp>> ELSE <<55296 + (cp - 65536) \div 1024, 56320 + ((cp - 65536) % 1024)>>
UForm(cp, H(_)) == FlattenSeq([i \in DOMAIN Units(cp) |-> UEscape(Units(cp)[i], H)])

\* The spellings of a code point inside a string.
Letter == <<<<34, 34>>, <<92, 92>>, <<47, 47>>, <<8, 98>>, <<12, 102>>, <<10, 110>>, <<13, 114>>, <<9, 116>>>>
Spellings(cp) ==
    {UForm(cp, LowerHex), UForm(cp, UpperHex)}
    \cup {<<92, l[2]>> : l \in {l \in ToSet(Letter) : l[1] = cp}}
    \cup (IF cp >= 32 /\ cp \notin {34, 92} THEN {Encoding(cp)} ELSE {})
Points == {0, 8, 9, 10, 12, 13, 31, 34, 47, 92, 97, 127, 128, 2047, 2048, 55295, 57344, 65535, 65536, 66559, 1113088, 1114111}

\* An array of one value, given by its text; what it stands for.
Texted(text, v) == [text |-> <<91, 32>> \o text \o <<10, 93>>, entries |-> <<[key |-> <<91, 48, 93>>, val |-> v]>>]
NoText(text) == [text |-> <<91>> \o text \o <<93>>, entries |-> Illegal]
Quoted(s) == <<34>> \o s \o <<34>>
Strings ==
    UNION {{Texted(Quoted(s), <<"STRING", Encoding(cp)>>) : s \in Spellings(cp)} : cp \in Points}
    \cup UNION {{Texted(Quoted(s \o t), <<"STRING", Encoding(cp) \o <<110>>>>) : s \in Spellings(cp), t \in Spellings(110)} : cp \in {92, 65536}}
U(n) == UEscape(n, LowerHex)
BadStrings ==
    {NoText(SubSeq(Quoted(U(97)), 1, i)) : i \in 1..7} \cup {NoText(SubSeq(Quoted(UForm(65536, UpperHex)), 1, i)) : i \in 1..13}
    \cup {NoText(Quoted(<<92, c>>)) : c \in {48, 78, 117, 120}}
    \cup {NoText(Quoted([U(97) EXCEPT ![i] = c])) : i \in 3..6, c \in {47, 58, 64, 71, 103}}
    \cup {NoText(Quoted(U(h) \o t)) : h \in {55296, 56319}, t \in {<<>>, <<97>>, U(97), U(55295), U(56319), U(57344), Encoding(65536)}}

\* Numbers: the edges of the integers, and quarters in several forms.
Dec(n) == IF n < 0 THEN <<45>> \o Decimal(-n) ELSE Decimal(n)
M == 2^(WordBits - 1)
Ints ==
    {Texted(Dec(n), <<"INT", n>>) : n \in {0, 7, M - 1, -1, 1 - M, -M}}
    \cup {Texted(Dec(n), <<"UINT", n>>) : n \in {M, 2 * M - 1}}
    \cup {Texted(Dec(n), <<"UINT", 2 * M - 1>>) : n \in {2 * M, 20 * M}}
    \cup {Texted(Dec(n), <<"INT", -M>>) : n \in {-M - 1, -20 * M}}
    \cup {Texted(<<45, 48>>, <<"INT", 0>>), Texted([i \in 1..70 |-> 57], <<"UINT", 2 * M - 1>>)}
Sign(neg) == IF neg THEN <<45>> ELSE <<>>
Doubles ==
    UNION {{Texted(Sign(neg) \o t, <<"FLOAT64", Double(neg, q)>>) : t \in
              {Decimal(q \div 4) \o <<46>> \o <<<<48>>, <<50, 53>>, <<53>>, <<55, 53>>>>[1 + (q % 4)],
               Decimal(25 * q) \o <<101, 45, 50>>, Decimal(25 * q) \o <<48, 69, 45, 51>>}
              \cup (IF q % 40 = 0 THEN {Decimal(q \div 40) \o <<101, 49>>, Decimal(q \div 40) \o <<46, 48, 69, 43, 49>>} ELSE {})}
           : neg \in BOOLEAN, q \in {0, 1, 2, 3, 4, 7, 40, 401, 4000}}
BadNumbers ==
    {NoText(t) : t \in {<<45>>, <<43, 49>>, <<46, 53>>, <<49, 46>>, <<49, 101>>, <<49, 46, 53, 69, 45>>, <<45, 46, 49>>,
                         <<49, 46, 50, 46, 51>>, <<49, 101, 46>>, <<45, 45, 49>>}}
Words ==
    {Texted(TrueText, <<"BOOL", TRUE>>), Texted(FalseText, <<"BOOL", FALSE>>), Texted(NullText, <<"NULL", 0>>)}
    \cup {NoText(t) : t \in {SubSeq(TrueText, 1, 3), SubSeq(FalseText, 1, 4), Append(NullText, 120)}}
MCSpelled == Strings \cup BadStrings \cup Ints \cup Doubles \cup BadNumbers \cup Words
=============================================================================
