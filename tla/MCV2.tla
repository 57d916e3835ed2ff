------------------------------- MODULE MCV2 -------------------------------
(***************************************************************************)
(* Small files for V2Trie.                                                 *)
(***************************************************************************)
EXTENDS V2Trie

CONSTANT MaxLines       \* bound: lines of a file of any words

Over(n) == UNION {[1..m -> {1, 200}] : m \in 1..n}

\* All files of a few short words in any order, repeated words included, and some with
\* long chains and tails that end one another.
Chains == {<<1>>, <<1, 1, 1, 1>>, <<1, 200, 1, 1>>, <<200, 1, 1>>, <<200, 200, 200, 1>>, <<3, 1>>}
Files ==
    UNION {[1..m -> Over(2)] : m \in 1..MaxLines}
    \cup {SetToSeq(C) : C \in SUBSET Chains \ {{}}}
Queries == Over(3) \cup Chains \cup {<<3>>, <<2>>}
=============================================================================
