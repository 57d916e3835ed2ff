----------------------------- MODULE MCDamage -----------------------------
(***************************************************************************)
(* One short dictionary for Damage, with a value, and short programs of    *)
(* typed items for BitIO.                                                  *)
(***************************************************************************)
EXTENDS Damage

MCStored == <<[key |-> <<97>>, val |-> [type |-> "UINT", data |-> 5]]>>
\* All bursts of up to four bits.
MCBursts == {<<1>>, <<1, 1>>} \cup {<<1, x, 1>> : x \in Bit} \cup {<<1, x, y, 1>> : x, y \in Bit}

\* Numbers at the edges of their widths, and one that does not fit its own.
Numbers ==
    {Item("UNSIGNED", 1, 1, <<>>), Item("UNSIGNED", 5, 3, <<>>), Item("UNSIGNED", 9, 3, <<>>),
     Item("SIGNED", -4, 3, <<>>), Item("SIGNED", 3, 3, <<>>), Item("SIGNED", 4, 3, <<>>)}
Varints ==
    {Item("VARINT_U", v, 0, <<>>) : v \in {0, 127, 128}} \cup {Item("VARINT_S", v, 0, <<>>) : v \in {-1, 63, -65}}
Codepoints == {Item("UTF8", cp, 0, <<>>) : cp \in {127, 128, 2047, 2048, 55295, 57344, 65535, 65536, LastCodepoint}}
Others == {Item("BYTES", 0, 0, <<129, 0>>), Item("APPEND", 0, 0, <<1, 0, 1, 1, 0>>)}
Items == Numbers \cup Varints \cup Codepoints \cup Others

\* Bytes that begin or go on like a code point: too long, surrogates, out of range, cut.
Spellings ==
    {<<a, b>> : a \in {127, 128, 192, 193, 194}, b \in {65, 128, 191}}
    \cup {<<a, b, c>> : a \in {224, 237, 239}, b \in {128, 159, 160, 191, 192}, c \in {128, 191}}
    \cup {<<a, b, c, 128>> : a \in {240, 244, 247, 248}, b \in {128, 143, 144, 191}, c \in {65, 128}}

MCPrograms ==
    {<<x, y>> : x \in Numbers \cup Others, y \in Items}
    \cup {<<x, y>> : x \in Varints \cup Codepoints, y \in Others}
    \cup {<<x, Align, y>> : x \in Numbers, y \in {Item("VARINT_U", 128, 0, <<>>)} \cup Others}
    \cup {<<Item("BYTES", 0, 0, s)>> : s \in Spellings}
    \cup {<<Align, Item("UTF8", cp, 0, <<>>)>> : cp \in {55296, 57343, LastCodepoint + 1}}
MCCaps == {0, 1}
MCGrowths == {0, 3}
=============================================================================
