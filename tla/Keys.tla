------------------------------- MODULE Keys -------------------------------
(***************************************************************************)
(* The order of keys.  A key is a sequence of bytes.                       *)
(***************************************************************************)
EXTENDS Integers, Sequences, SequencesExt, FiniteSets

\* entry_cmp: memcmp on the common length, then the shorter key first.
KeyLess(a, b) ==
    \E n \in 0..Len(a) :
        /\ n < Len(b)
        /\ \A i \in 1..n : a[i] = b[i]
        /\ n = Len(a) \/ a[n + 1] < b[n + 1]

\* The least and the greatest key of a non-empty set.
FirstKey(S) == CHOOSE k \in S : \A x \in S \ {k} : KeyLess(k, x)
LastKey(S) == CHOOSE k \in S : \A x \in S \ {k} : KeyLess(x, k)

\* The keys of a set in the order of entry_cmp.
SortedKeys(S) == [i \in 1..Cardinality(S) |-> CHOOSE k \in S : Cardinality({x \in S : KeyLess(x, k)}) = i - 1]

WithPrefix(S, p) == {k \in S : IsPrefix(p, k)}
=============================================================================
