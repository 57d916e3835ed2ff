------------------------------- MODULE Tails -------------------------------
(***************************************************************************)
(* The suffix-merged tail pool of format v2 (src/v2/v2_tails.c): the       *)
(* distinct tails in the order of their reversed bytes, and the loop that  *)
(* emits them from the last to the first.                                  *)
(***************************************************************************)
EXTENDS Keys

CONSTANT TailLists      \* the lists of tails that a pool is built from

ASSUME TailListsAssumption == \A T \in TailLists : T \in Seq(Seq(Nat))

VARIABLES
    tpc,            \* "none", "emit" or "ready"
    tails,          \* the tails, as they were given
    distinct,       \* the distinct tails, sorted
    offset,         \* where each distinct tail was placed
    pool,           \* the bytes
    left,           \* how many distinct tails are still to be emitted
    prev            \* the last tail that was written out, or 0
tailVars == <<tpc, tails, distinct, offset, pool, left, prev>>

TailsInit ==
    tpc = "none" /\ tails = <<>> /\ distinct = <<>> /\ offset = <<>> /\ pool = <<>> /\ left = 0 /\ prev = 0

\* Mutant: the tails in the order of their bytes from the front.
BytesLess(x, y) == KeyLess(x, y)

\* cmp_reversed: by the last byte first.
ReversedLess(x, y) == KeyLess(Reverse(x), Reverse(y))

SortedTails(S) ==
    [i \in 1..Cardinality(S) |-> CHOOSE t \in S : Cardinality({u \in S : ReversedLess(u, t)}) = i - 1]

\* tp2_tailpool_build up to the loop.
BuildPool(T) ==
    /\ tpc = "none"
    /\ tpc' = "emit"
    /\ tails' = T /\ distinct' = SortedTails(ToSet(T))
    /\ offset' = [i \in 1..Cardinality(ToSet(T)) |-> 0]
    /\ pool' = <<>> /\ left' = Cardinality(ToSet(T)) /\ prev' = 0

IsProperSuffix(s, big) == s # big /\ IsSuffix(s, big)

\* Mutant: a merged tail is placed where the longer one begins.
PlaceAtStart(p, s) == offset[p]
\* Where a proper suffix s of the tail p lies.
PlaceInside(p, s) == offset[p] + Len(distinct[p]) - Len(s)

\* Mutant: a merged tail is not counted off.
EmitOnce ==
    /\ tpc = "emit" /\ left > 0
    /\ offset' = [offset EXCEPT ![left] = Len(pool)]
    /\ UNCHANGED <<tpc, tails, distinct, pool, left, prev>>

\* A turn of the loop.
EmitTail ==
    /\ tpc = "emit" /\ left > 0
    /\ IF prev # 0 /\ IsProperSuffix(distinct[left], distinct[prev])
       THEN /\ offset' = [offset EXCEPT ![left] = PlaceInside(prev, distinct[left])]
            /\ UNCHANGED <<pool, prev>>
       ELSE /\ offset' = [offset EXCEPT ![left] = Len(pool)]
            /\ pool' = pool \o distinct[left]
            /\ prev' = left
    /\ left' = left - 1
    /\ UNCHANGED <<tpc, tails, distinct>>

PoolDone == tpc = "emit" /\ left = 0 /\ tpc' = "ready" /\ UNCHANGED <<tails, distinct, offset, pool, left, prev>>

TailsNext == (\E T \in TailLists : BuildPool(T)) \/ EmitTail \/ PoolDone
TailsSpec == TailsInit /\ [][TailsNext]_tailVars

\* tp2_tailpool_ref
TailRef(i) ==
    LET d == CHOOSE d \in DOMAIN distinct : distinct[d] = tails[i]
    IN  [offset |-> offset[d], length |-> Len(distinct[d])]

TailBytes(ref) == SubSeq(pool, ref.offset + 1, ref.offset + ref.length)

-----------------------------------------------------------------------------
\* Every reference leads to the bytes of its tail, wherever merging has put them.
RefsLead == tpc = "ready" => \A i \in DOMAIN tails : TailBytes(TailRef(i)) = tails[i]

\* The pool is as small as suffixes allow, and the same whatever order the tails were
\* given in: it consists of the tails that end no other tail, the last in the order
\* of reversed bytes first.  Looking at the last emitted tail only is enough.
PoolMinimal ==
    tpc = "ready" =>
        LET whole == {t \in ToSet(tails) : ~\E u \in ToSet(tails) : IsProperSuffix(t, u)}
            descending == [i \in 1..Cardinality(whole) |->
                CHOOSE t \in whole : Cardinality({u \in whole : KeyLess(Reverse(t), Reverse(u))}) = i - 1]
        IN  pool = FlattenSeq(descending)
=============================================================================
