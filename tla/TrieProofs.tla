----------------------------- MODULE TrieProofs -----------------------------
(***************************************************************************)
(* The dry run of the trie writer is exact for every map that is compiled. *)
(* The distances that SKIP symbols carry are the dry run's, so the reader  *)
(* leaves a subtree exactly where its next sibling starts.                 *)
(***************************************************************************)
EXTENDS Dictionary, FormatLemmas

-----------------------------------------------------------------------------
\* The entries of a map.
LEMMA EntriesAre ==
    ASSUME NEW m, IsFiniteSet(DOMAIN m), DOMAIN m \subseteq Seq(0..255)
    PROVE  /\ KeysAscend(Entries(m)) /\ BytesOnly(Entries(m))
           /\ Len(Entries(m)) = Cardinality(DOMAIN m) /\ Len(Entries(m)) \in Nat
<1>0. PICK K : K = DOMAIN m
  OBVIOUS
<1>1. K \in SUBSET Seq(0..255) /\ K \in SUBSET Seq(Nat) /\ IsFiniteSet(K)
  <2>1. \A k \in Seq(0..255) : k \in Seq(Nat)
    <3>1. PICK B : B = 0..255
      OBVIOUS
    <3>2. B \in SUBSET Nat
      BY ONLY <3>1
    <3>3. ASSUME NEW k \in Seq(B) PROVE k \in Seq(Nat)
      <4>1. PICK n \in Nat : n = Len(k)
        BY ONLY k \in Seq(B)
      <4>2. k = [i \in 1..n |-> k[i]] /\ \A i \in 1..n : k[i] \in B
        BY ONLY k \in Seq(B), <4>1
      <4>3. \A i \in 1..n : k[i] \in Nat
        BY <3>2, <4>2
      <4> QED
        BY ONLY <4>2, <4>3, n \in Nat
    <3> QED
      BY ONLY <3>1, <3>3
  <2> QED
    BY <1>0, <2>1
<1>2. PICK keys : keys = SortedKeys(K)
  OBVIOUS
<1>3. PICK n \in Nat : n = Cardinality(K)
  BY <1>1, FS_CardinalityType
<1>4. keys \in Seq(K) /\ Len(keys) = n /\ \A j, k \in 1..n : j < k => KeyLess(keys[j], keys[k])
  BY <1>1, <1>2, <1>3, SortedKeysOrder
<1>5. DOMAIN keys = 1..n /\ \A i \in 1..n : keys[i] \in K
  BY <1>4
<1>6. PICK E : E = [i \in 1..n |-> [key |-> keys[i], val |-> m[keys[i]]]]
  OBVIOUS
<1>7. Entries(m) = E
  BY <1>0, <1>2, <1>5, <1>6 DEF Entries
<1>8. DOMAIN E = 1..n /\ Len(E) = n /\ \A i \in 1..n : E[i].key = keys[i]
  BY <1>6
<1>9. \A i \in 1..n : E[i].key \in Seq(0..255) /\ E[i].key \in Seq(Nat)
  BY <1>1, <1>5, <1>8
<1>10. \A i, j \in 1..n : i < j => KeyLess(E[i].key, E[j].key)
  BY <1>4, <1>8
<1> QED
  BY <1>0, <1>3, <1>7, <1>8, <1>9, <1>10 DEF KeysAscend, BytesOnly

\* The dry run of a build agrees with what the build writes.
LEMMA BuildAgrees ==
    ASSUME NEW m, IsFiniteSet(DOMAIN m), DOMAIN m \subseteq Seq(0..255), DOMAIN m # {},
           NEW hv, NEW fixed \in Nat
    PROVE  DryRunAgrees(Entries(m), hv, AnalyzeSymbols(Entries(m), fixed))
<1>1. PICK E : E = Entries(m)
  OBVIOUS
<1>2. KeysAscend(E) /\ BytesOnly(E) /\ Len(E) = Cardinality(DOMAIN m) /\ Len(E) \in Nat
  BY <1>1, EntriesAre
<1>3. PICK n \in Nat : n = Len(E) /\ n >= 1
  <2>1. Cardinality(DOMAIN m) # 0
    BY FS_EmptySet
  <2> QED
    BY <1>2, <2>1
<1>4. PICK sym : sym = AnalyzeSymbols(E, fixed)
  OBVIOUS
<1>5. SymbolsFit(E, sym) /\ sym.bps \in Nat
  <2>1. SymbolsFit(E, sym)
    BY <1>2, <1>4, AnalyzedFits
  <2> QED
    BY <2>1 DEF SymbolsFit
<1>6. PICK S : Sizes(S, E, hv, sym.bps)
  BY <1>2, <1>5, SubtreeSizeIs
<1>7. PICK x : x = <<1, n + 1, 0, 0>>
  OBVIOUS
<1>8. x \in Nodes(E) /\ x[1] = 1 /\ x[2] = n + 1 /\ x[3] = 0 /\ x[4] = 0
  <2>1. \A i \in 1..n : Len(E[i].key) >= 0
    <3> SUFFICES ASSUME NEW i \in 1..n PROVE Len(E[i].key) >= 0
      OBVIOUS
    <3>1. E[i].key \in Seq(Nat)
      BY <1>2, <1>3 DEF KeysAscend
    <3> QED
      BY ONLY <3>1
  <2>2. IsNode(E, 1, n + 1, 0)
    BY <1>3, <2>1 DEF IsNode
  <2> QED
    BY <1>7, <2>2, NodesAreNodes
<1>9. Counted(TrieWrite(E, 1, n + 1, 0, hv, 0, sym)) = S[x]
  <2>1. WritesSizes(E, hv, sym, S)
    BY <1>2, <1>5, <1>6, TrieWriteIs
  <2> QED
    BY <1>8, <2>1 DEF WritesSizes
<1>10. SubtreeSize(E, 1, n + 1, 0, hv, 0, sym.bps) = S[x]
  BY <1>6, <1>8 DEF Sizes
<1>11. S[x].vi = n
  <2>1. SlotsAre(S, E)
    BY <1>2, <1>5, <1>6, SlotsCounted
  <2>2. S[x].vi = 0 + ((n + 1) - 1)
    BY <1>8, <2>1 DEF SlotsAre
  <2> QED
    BY ONLY <2>2, n \in Nat
<1>12. PICK w : w = TrieWrite(E, 1, n + 1, 0, hv, 0, sym)
  OBVIOUS
<1>13. S[x].bits = Len(w.bits) /\ S[x].vi = w.vi
  BY <1>9, <1>12 DEF Counted
<1> QED
  BY <1>1, <1>3, <1>4, <1>10, <1>11, <1>12, <1>13 DEF DryRunAgrees

-----------------------------------------------------------------------------
\* What is compiled is one of the maps, and the empty one before and after.
ContentsKnown == contents \in Maps \cup {<<>>}

LEMMA ContentsAlwaysKnown == Spec => []ContentsKnown
<1>1. Init => ContentsKnown
  BY DEF Init, ContentsKnown
<1>2. ContentsKnown /\ [Next]_vars => ContentsKnown'
  <2> SUFFICES ASSUME ContentsKnown, [Next]_vars PROVE ContentsKnown'
    OBVIOUS
  <2>1. ASSUME NEW m \in Maps, NEW fixed \in FixedBits, BuildAndOpen(m, fixed) PROVE ContentsKnown'
    BY <2>1 DEF BuildAndOpen, OpenBuilt, ContentsKnown
  <2>2. CASE \E k \in QueryKeys : LookupKey(k) \/ ContainsKey(k) \/ Find(k)
    BY <2>2 DEF LookupKey, ContainsKey, Find, ContentsKnown
  <2>3. CASE NextEntry \/ ResetIter \/ DestroyIter
    BY <2>3 DEF NextEntry, ResetIter, DestroyIter, ContentsKnown
  <2>4. CASE Close
    BY <2>4 DEF Close, ContentsKnown
  <2>5. CASE UNCHANGED vars
    BY <2>5 DEF vars, ContentsKnown
  <2> QED
    BY <2>1, <2>2, <2>3, <2>4, <2>5 DEF Next
<1> QED
  BY <1>1, <1>2, PTL DEF Spec

\* Whatever is compiled, at whatever width of a symbol, the dry run that computes
\* the SKIP distances counts exactly the bits and the value slots that trie_write
\* produces, and every entry has its slot.
THEOREM DryRunAlwaysExact == Spec => []DryRunExact
<1>1. ContentsKnown => DryRunExact
  <2> SUFFICES ASSUME ContentsKnown, DOMAIN contents # {}, NEW fixed \in FixedBits
               PROVE  DryRunAgrees(Entries(contents), HasValues(Entries(contents)),
                                   AnalyzeSymbols(Entries(contents), fixed))
    BY DEF DryRunExact
  <2>1. contents \in Maps
    BY DEF ContentsKnown
  <2>2. IsFiniteSet(DOMAIN contents) /\ DOMAIN contents \subseteq Seq(0..255)
    BY <2>1, MapsAssumption
  <2>3. fixed \in Nat
    BY FixedBitsAssumption
  <2> QED
    BY <2>2, <2>3, BuildAgrees
<1> QED
  BY <1>1, ContentsAlwaysKnown, PTL
=============================================================================
