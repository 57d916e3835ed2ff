--------------------------- MODULE JsonDocument ---------------------------
(***************************************************************************)
(* What tp_json_encode promises, in terms of documents.  A document is a   *)
(* tree: <<"val", v>>, <<"arr", elements>>, or <<"obj", members>> with     *)
(* members of the form <<key, tree>>.                                      *)
(***************************************************************************)
EXTENDS JsonParse, SequencesExt

CONSTANT Document       \* the documents whose texts are among the sources

Mark(kind) == [kind |-> kind, text |-> <<>>, val |-> <<"NULL", 0>>]
Text(bytes) == [kind |-> "string", text |-> bytes, val |-> <<"STRING", bytes>>]
Scalar(v) == IF v[1] = "STRING" THEN Text(v[2]) ELSE [kind |-> "scalar", text |-> <<>>, val |-> v]

\* Sequences of tokens, separated by commas.
Commas(parts) ==
    FlattenSeq([i \in DOMAIN parts |-> IF i = 1 THEN parts[i] ELSE <<Mark("comma")>> \o parts[i]])

\* The text of a document.
RECURSIVE Tokens(_)
Tokens(t) ==
    CASE t[1] = "val" -> <<Scalar(t[2])>>
      [] t[1] = "arr" ->
            <<Mark("[")>> \o Commas([i \in DOMAIN t[2] |-> Tokens(t[2][i])]) \o <<Mark("]")>>
      [] t[1] = "obj" ->
            <<Mark("{")>>
            \o Commas([i \in DOMAIN t[2] |->
                          <<Text(t[2][i][1]), Mark(":")>> \o Tokens(t[2][i][2])])
            \o <<Mark("}")>>

\* The segment of a path for the i-th element of an array.
IndexSegment(i) == <<OpenBracket>> \o Decimal(i - 1) \o <<CloseBracket>>

\* The leaves of a document in order, each under the path that leads to it.
RECURSIVE Leaves(_, _)
Leaves(t, at) ==
    CASE t[1] = "val" -> <<[key |-> at, val |-> t[2]]>>
      [] t[1] = "arr" ->
            FlattenSeq([i \in DOMAIN t[2] |->
                Leaves(t[2][i], at \o IndexSegment(i))])
      [] t[1] = "obj" ->
            FlattenSeq([i \in DOMAIN t[2] |->
                Leaves(t[2][i][2], IF at = <<>> THEN t[2][i][1] ELSE at \o <<Dot>> \o t[2][i][1])])

-----------------------------------------------------------------------------
\* The grammar of JSON over tokens: the positions behind a value, a member or a
\* list of them that starts at position i of s.
KindAt(s, i) == IF i \in DOMAIN s THEN s[i].kind ELSE "eof"

RECURSIVE ValueEnds(_, _)
RECURSIVE ListEnds(_, _, _)
RECURSIVE ItemEnds(_, _, _)
ValueEnds(s, i) ==
    (IF KindAt(s, i) \in {"string", "scalar"} THEN {i + 1} ELSE {})
    \cup (IF KindAt(s, i) = "[" THEN ListEnds(s, i + 1, "arr") ELSE {})
    \cup (IF KindAt(s, i) = "{" THEN ListEnds(s, i + 1, "obj") ELSE {})
    \cup (IF KindAt(s, i) = "[" /\ KindAt(s, i + 1) = "]" THEN {i + 2} ELSE {})
    \cup (IF KindAt(s, i) = "{" /\ KindAt(s, i + 1) = "}" THEN {i + 2} ELSE {})
ItemEnds(s, i, kind) ==
    IF kind = "arr" THEN ValueEnds(s, i)
    ELSE IF KindAt(s, i) = "string" /\ KindAt(s, i + 1) = ":" THEN ValueEnds(s, i + 2) ELSE {}
ListEnds(s, i, kind) ==
    UNION {(IF KindAt(s, e) = Closer(kind) THEN {e + 1} ELSE {})
           \cup (IF KindAt(s, e) = "comma" THEN ListEnds(s, e + 1, kind) ELSE {})
           : e \in ItemEnds(s, i, kind)}

\* A text is taken exactly if it starts with an array or an object of the grammar,
\* for every text that nests no deeper than the limit and finds memory: a text cut
\* short, a missing or doubled comma, a wrong closing bracket are all refused.
AcceptsGrammar ==
    rc \in {"OK", "JSON_SYNTAX"} =>
        (rc = "OK" <=> KindAt(src, 1) \in {"[", "{"} /\ ValueEnds(src, 1) # {})

\* What is given to the encoder are the leaves of the document, in order and under
\* their paths, and the kind of the root: leaving a container brings back the path
\* of the one around it.
FlattensDocument ==
    pc = "build" =>
        \A d \in Document : src = Tokens(d) =>
            entries = Append(Leaves(d, <<>>), [key |-> MetaRoot, val |-> RootType(d[1])])
=============================================================================
