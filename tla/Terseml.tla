------------------------------ MODULE Terseml ------------------------------
(***************************************************************************)
(* tsml_encode, tsml_decode and tsml_decode_document                       *)
(* (src/terseml/terseml.c).  Some elements are encoded; their bytes, cut   *)
(* anywhere, or any other bytes are decoded; what came out is encoded and  *)
(* decoded once more.                                                      *)
(***************************************************************************)
EXTENDS TersemlEncode, TersemlDecode

CONSTANT
    Forests         \* what is encoded: sequences of nodes

VARIABLES
    forest,         \* the nodes that are or were encoded
    round           \* 1, and 2 for what the first decoding gave
tsmlVars == <<decodeVars, forest, round>>

\* encode_node gives up on an element that lies too deep.
Encodable(n) == Nesting(n) <= MaxDepth
EncodeAll(nodes) == FlattenSeq([n \in DOMAIN nodes |-> EncodeNode(nodes[n])])

TsmlInit ==
    /\ round = 1
    /\ \/ /\ forest \in Forests /\ single = (Len(forest) = 1) /\ input = <<>> /\ dpc = "encode"
          /\ i = 0 /\ stack = <<>> /\ roots = <<>> /\ result = "none"
       \/ forest = <<>> /\ DecodeInit

\* tsml_encode, and what becomes of the bytes: any part of them from the start.
Encode ==
    /\ dpc = "encode"
    /\ \/ /\ \A n \in DOMAIN forest : Encodable(forest[n])
          /\ LET bytes == EncodeAll(forest)
             IN  \E n \in (IF round = 1 THEN 0..Len(bytes) ELSE {Len(bytes)}) : input' = SubSeq(bytes, 1, n)
          /\ dpc' = "element" /\ UNCHANGED result
       \/ result' = "alloc" /\ dpc' = "ended" /\ UNCHANGED input     \* too deep, or refused
    /\ UNCHANGED <<forest, single, i, stack, roots, round>>

Decode == Read /\ UNCHANGED <<forest, round>>

\* The caller encodes what it got.
Again ==
    /\ dpc = "ended" /\ result = "ok" /\ round = 1
    /\ round' = 2 /\ forest' = roots /\ dpc' = "encode"
    /\ i' = 0 /\ roots' = <<>> /\ result' = "none"
    /\ UNCHANGED <<single, input, stack>>

TsmlNext == Encode \/ Decode \/ (Refused /\ UNCHANGED <<forest, round>>) \/ Again
\* A call that has begun goes on until it returns; memory need never be refused.
TsmlSpec == TsmlInit /\ [][TsmlNext]_tsmlVars /\ WF_tsmlVars(Decode)

-----------------------------------------------------------------------------
\* A tree whose text is where the bytes can tell it: no empty text node, none next to
\* another.  The encoder does not put other trees in this form; its bytes for them can
\* be refused, or read as something else.
RECURSIVE Normal(_)
Normal(n) ==
    \/ n.kind = "text"
    \/ /\ \A c \in DOMAIN n.children : Normal(n.children[c])
       /\ \A c \in DOMAIN n.children : n.children[c].kind = "text" =>
              /\ n.children[c].text # <<>>
              /\ c > 1 => n.children[c - 1].kind = "element"

\* What a node becomes: a text on its own is an element with the implicit tag.
AsElement(n) == IF n.kind = "element" THEN n
                ELSE IF n.text = <<>> THEN Element(TagText) ELSE AddChild(Element(TagText), n)

\* The input is what the first k of the nodes were encoded to.
Ends(k) == k > 0 /\ k <= Len(forest) /\ Size = Len(EncodeAll(SubSeq(forest, 1, k)))
AllNormal == \A n \in DOMAIN forest : Normal(forest[n])

\* What is encoded is decoded to the same nodes, and never refused as malformed or too
\* deep; reserved bytes, leading brackets, binary runs and nesting up to the limit
\* included.  Decoding something and encoding it again loses nothing either.
RoundTrip ==
    dpc = "ended" /\ forest # <<>> /\ AllNormal =>
        \A k \in DOMAIN forest : Ends(k) =>
            /\ result \notin {"malformed", "depth"}
            /\ result = "ok" => roots = [n \in 1..k |-> AsElement(forest[n])]

\* Truncated bytes are refused: no part of an encoding is a document, but the whole
\* elements it begins with.
TruncationRefused ==
    result = "ok" /\ round = 1 /\ forest # <<>> => \E k \in DOMAIN forest : Ends(k)

\* A text is written in the shortest of the three forms, and of equal ones in the form
\* that is skipped most easily, wherever it stands (GRAMMAR.md, section 5.1).
ShortestForm ==
    dpc = "encode" =>
        \A n \in DOMAIN forest : forest[n].kind = "text" =>
            LET forms == <<"counted", "terminated", "inline">>
                length(lead, f) == Len(InForm(forest[n].text, lead, forms[f]))
                shorter(lead, f, g) == length(lead, f) < length(lead, g) \/ (length(lead, f) = length(lead, g) /\ f < g)
            IN  \A lead \in BOOLEAN :
                    \E f \in 1..3 : /\ ChooseForm(forest[n].text, lead) = forms[f]
                                    /\ \A g \in 1..3 \ {f} : shorter(lead, f, g)

\* A call that has begun returns.
Returns == dpc = "element" ~> dpc = "ended"
=============================================================================
