---------------------------- MODULE TersemlTree ----------------------------
(***************************************************************************)
(* The trees of terseml (src/terseml/terseml.c) and the bytes both halves  *)
(* of it know.  TagText is one byte for the five of "#text".               *)
(***************************************************************************)
EXTENDS Integers, Sequences, SequencesExt, FiniteSets

CONSTANTS
    LebBits,        \* payload bits of a byte of a LEB128 number: 7 in the code
    MaxGroups,      \* bytes of such a number: 10 in the code
    ClaimLimit      \* numbers are kept below: 2^64 in the code

ASSUME LebAssumption == LebBits \in 1..7 /\ MaxGroups \in Nat \ {0} /\ ClaimLimit \in Nat \ {0}

LBR == 123
RBR == 125
LSQ == 91
RSQ == 93
COM == 44
COL == 58
BS == 92
TagText == <<35>>
Terminated == 98        \* 'b'
Counted == 66           \* 'B'
Zero == 48              \* '0'

-----------------------------------------------------------------------------
\* tsml_text, tsml_element, tsml_add_attr and tsml_add_child
Text(bytes) == [kind |-> "text", text |-> bytes]
Element(tag) == [kind |-> "element", tag |-> tag, attrs |-> <<>>, children |-> <<>>]
AddAttr(el, key, val) == [el EXCEPT !.attrs = Append(@, [key |-> key, val |-> val])]
AddChild(el, child) == [el EXCEPT !.children = Append(@, child)]

\* is_reserved
Reserved == [tag |-> {BS, COM, LBR, RBR}, key |-> {BS, COL, COM, RSQ}, val |-> {BS, COM, RSQ}, text |-> {BS, LBR, RBR}]
\* valid_escape
Escapable == {LBR, RBR, LSQ, RSQ, COM, COL, BS}
=============================================================================
