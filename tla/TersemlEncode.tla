--------------------------- MODULE TersemlEncode ---------------------------
(***************************************************************************)
(* The canonical bytes of a tree: the encoding half of                     *)
(* src/terseml/terseml.c.                                                  *)
(***************************************************************************)
EXTENDS TersemlTree

\* write_escaped
Escaped(ctx, s, lead) ==
    FlattenSeq([n \in DOMAIN s |->
        IF s[n] \in Reserved[ctx] \/ (n = 1 /\ lead /\ s[n] = LSQ) THEN <<BS, s[n]>> ELSE <<s[n]>>])

\* varint_put and varint_len
RECURSIVE Varint(_)
Varint(n) ==
    IF n < 2^LebBits THEN <<n>> ELSE <<2^LebBits + (n % 2^LebBits)>> \o Varint(n \div 2^LebBits)

\* choose_form: the three sizes, and the shortest.
Hits(s, bytes) == Cardinality({n \in DOMAIN s : s[n] \in bytes})
\* Mutant: the leading bracket is not counted.
InlineSizeNoLead(s, lead) == Len(s) + Hits(s, Reserved["text"])
InlineSize(s, lead) ==
    Len(s) + Hits(s, Reserved["text"]) + (IF lead /\ s # <<>> /\ s[1] = LSQ THEN 1 ELSE 0)
TerminatedSize(s) == Len(s) + 3 + Hits(s, {0, BS})
CountedSize(s) == 2 + Len(Varint(Len(s))) + Len(s)
ChooseForm(s, lead) ==
    IF CountedSize(s) <= TerminatedSize(s) /\ CountedSize(s) <= InlineSize(s, lead) THEN "counted"
    ELSE IF TerminatedSize(s) <= InlineSize(s, lead) THEN "terminated"
    ELSE "inline"

\* write_binary and the inline form
InForm(s, lead, form) ==
    CASE form = "counted" -> <<BS, Counted>> \o Varint(Len(s)) \o s
      [] form = "terminated" ->
            <<BS, Terminated>>
            \o FlattenSeq([n \in DOMAIN s |-> IF s[n] = 0 THEN <<BS, Zero>> ELSE IF s[n] = BS THEN <<BS, BS>> ELSE <<s[n]>>])
            \o <<0>>
      [] form = "inline" -> Escaped("text", s, lead)
TextBytes(s, lead) == InForm(s, lead, ChooseForm(s, lead))

\* encode_node, where nothing is refused.
Pairs(attrs) ==
    FlattenSeq([n \in DOMAIN attrs |->
        (IF n > 1 THEN <<COM>> ELSE <<>>)
        \o Escaped("key", attrs[n].key, FALSE) \o <<COL>> \o Escaped("val", attrs[n].val, FALSE)])
RECURSIVE EncodeNode(_)
EncodeNode(n) ==
    IF n.kind = "text" THEN <<LBR>> \o TagText \o <<COM>> \o TextBytes(n.text, TRUE) \o <<RBR>>
    ELSE <<LBR>> \o Escaped("tag", n.tag, FALSE)
         \o (IF n.attrs = <<>> THEN <<>> ELSE <<COM, LSQ>> \o Pairs(n.attrs) \o <<RSQ>>)
         \o <<COM>>
         \o FlattenSeq([c \in DOMAIN n.children |->
                IF n.children[c].kind = "element" THEN EncodeNode(n.children[c])
                ELSE TextBytes(n.children[c].text, c = 1 /\ n.attrs = <<>>)])
         \o <<RBR>>

\* How deep elements lie inside a node.
RECURSIVE Nesting(_)
Nesting(n) ==
    LET elements == {c \in DOMAIN n.children : n.children[c].kind = "element"}
        deepest == CHOOSE d \in {Nesting(n.children[c]) : c \in elements} :
                       \A c \in elements : Nesting(n.children[c]) <= d
    IN  IF n.kind = "text" \/ elements = {} THEN 0 ELSE 1 + deepest
=============================================================================
