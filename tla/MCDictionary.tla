--------------------------- MODULE MCDictionary ---------------------------
(***************************************************************************)
(* Small contents for Dictionary.                                          *)
(***************************************************************************)
EXTENDS Dictionary

CONSTANTS ByteA, ByteB, ByteC       \* three bytes, in this order

a == ByteA
b == ByteB
c == ByteC

Uint(n) == [type |-> "UINT", data |-> n]
Str(s) == [type |-> "STRING", data |-> s]

\* Keys with shared prefixes, keys that are prefixes of keys, the empty key.
SomeKeys == {<<>>, <<a>>, <<a, a>>, <<a, b>>, <<a, b, a>>, <<b>>, <<b, a, b>>}

\* A value for every key: none, numbers of one or two groups, strings.
Valuations(S) ==
    { [k \in S |-> NullValue],
      [k \in S |-> Uint(Len(k) + 7)],
      [k \in S |-> IF Len(k) % 2 = 1 THEN NullValue ELSE Str(k)],
      [k \in S |-> IF Len(k) % 2 = 1 THEN Str(k \o k) ELSE Uint(300)] }

MapsOn(K, n) == UNION {Valuations(S) : S \in {S \in SUBSET K : Cardinality(S) <= n}}

MCMaps == MapsOn(SomeKeys, 4)

\* Chains of keys that each extend the one before, with siblings on the way.
ChainKeys == {<<a>>, <<a, a>>, <<a, a, a>>, <<a, a, a, b>>, <<a, b>>, <<b>>}
DeepMaps == UNION {Valuations(S) : S \in {S \in SUBSET ChainKeys : Cardinality(S) >= 3}}
DeepQueries == {<<>>, <<a>>, <<a, a>>, <<a, a, a, a>>, <<b>>, <<a, a, a, b>>}
FewMaps == MapsOn({<<a>>, <<a, b>>, <<b>>}, 3)

MCQueries == {<<>>, <<a>>, <<a, b>>, <<a, b, a>>, <<b>>, <<b, a>>, <<b, a, b>>, <<c>>, <<a, c>>,
              <<a, a, b>>}
=============================================================================
