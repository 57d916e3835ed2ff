----------------------------- MODULE MCTerseml -----------------------------
(***************************************************************************)
(* Small trees and texts for Terseml.                                      *)
(***************************************************************************)
EXTENDS Terseml

CONSTANTS
    TextLength,     \* bound: bytes of a text of any bytes
    BehindOpening         \* bound: bytes behind an opening of any bytes

x == 120
Bytes == {LBR, RBR, LSQ, RSQ, COM, COL, BS, 0, Terminated, x}
Upto(n, A) == UNION {[1..m -> A] : m \in 0..n}

El == Element(<<x>>)
Long == {<<LBR, LBR, LBR, LBR>>, <<LBR, RBR, LBR, RBR, BS>>, <<0, 0, LBR, LBR>>, <<BS, BS, 0>>,
         <<LSQ, LSQ, BS, BS, x, LBR>>, <<x, x, x, x, x, x>>,
         <<LSQ, LBR, LBR, x>>, <<BS, BS, BS, BS, BS, 0>>}
Texts == Upto(TextLength, Bytes) \cup Long
In(n) == AddChild(El, n)
Levels == [n \in 0..MaxDepth + 1 |-> CASE n = 0 -> El [] n = 1 -> In(El) [] n = 2 -> In(In(El)) [] OTHER -> In(In(In(El)))]

\* A text on its own, as the only child, behind attributes, behind and before an
\* element; any tag, key and value; nesting up to the limit and beyond; two elements.
NormalTrees ==
    {Text(s) : s \in Texts}
    \cup {AddChild(el, Text(s)) : el \in {El, AddAttr(El, <<x>>, <<>>), In(El)}, s \in Texts \ {<<>>}}
    \cup {In(AddChild(AddChild(AddChild(El, Text(s)), Element(<<>>)), Text(s))) : s \in Long}
    \cup {Element(s) : s \in Upto(2, Bytes)}
    \cup {AddAttr(El, key, val) : key \in Upto(1, Bytes), val \in Upto(1, Bytes)}
    \cup {AddChild(AddAttr(AddAttr(El, s, s), <<x>>, s), El) : s \in Upto(1, Bytes)}
    \cup {Levels[n] : n \in DOMAIN Levels}
Trees == {<<t>> : t \in NormalTrees} \cup {<<El, Text(s)>> : s \in Upto(1, Bytes) \cup Long}

\* Any bytes behind an opening.
Openings == {<<>>, <<LBR>>, <<LBR, COM>>, <<LBR, COM, LSQ>>, <<LBR, COM, LBR, COM>>, <<LBR, COM, BS, Counted>>,
             <<LBR, COM, BS, Counted, COL, COL>>, <<LBR, COM, BS, Terminated>>, <<LBR, COM, LSQ, COL, RSQ>>}
AnyBytes == {o \o s : o \in Openings, s \in Upto(BehindOpening, Bytes)}
=============================================================================
