------------------------------ MODULE BitVec ------------------------------
(***************************************************************************)
(* The ranked bit vector of format v2 (src/v2/v2_bitvec.c): the loop that  *)
(* builds its two tables, one bit a step, and the queries that use them.   *)
(* Bits are numbered from 0.  Counting the ones between two bits, by       *)
(* words, bytes and bits in the code, is the size of a set here; an entry  *)
(* of block is below SuperBits and fits its 16 bits.                       *)
(***************************************************************************)
EXTENDS Integers, Sequences, FiniteSets

CONSTANTS
    Vectors,        \* the bit vectors that are built
    SuperBits,      \* TP2_SUPER_BITS: 2048 in the code
    BlockBits       \* TP2_BLOCK_BITS: 256 in the code

ASSUME VectorsAssumption == Vectors \subseteq Seq({0, 1})
ASSUME BlockAssumption ==
    /\ BlockBits \in Nat \ {0} /\ SuperBits \in Nat \ {0}
    /\ SuperBits % BlockBits = 0

VARIABLES
    bvpc,           \* "none", "index" or "ready"
    bv,             \* the vector: bits and tables
    at,             \* the loop variable of the index
    total, within   \* ones so far, and within the superblock
bvVars == <<bvpc, bv, at, total, within>>

Bit(v, i) == v.bits[i + 1]
Size(v) == Len(v.bits)

\* The number of ones among the bits from lo up to hi, hi excluded.
OnesIn(bits, lo, hi) == Cardinality({j \in lo..hi - 1 : bits[j + 1] = 1})

NoVector == [bits |-> <<>>, super |-> <<>>, block |-> <<>>]
BitVecInit == bvpc = "none" /\ bv = NoVector /\ at = 0 /\ total = 0 /\ within = 0

\* tp2_bv_create up to the loop: tables of zeros, one entry more than there are
\* blocks begun.
Create(bits) ==
    /\ bvpc = "none"
    /\ bv' = [ bits |-> bits,
               super |-> [s \in 0..(Len(bits) + SuperBits - 1) \div SuperBits |-> 0],
               block |-> [b \in 0..(Len(bits) + BlockBits - 1) \div BlockBits |-> 0] ]
    /\ bvpc' = "index" /\ at' = 0 /\ total' = 0 /\ within' = 0

\* A turn of the loop, the one for the end of the vector included.
InIndexShort == bvpc = "index" /\ at < Size(bv)     \* mutant: the end has no entry
InIndex == bvpc = "index" /\ at <= Size(bv)
AtSuper == at % SuperBits = 0
AtBlock == at % BlockBits = 0
WithinHere == IF AtSuper THEN 0 ELSE within
OneHere == IF at < Size(bv) /\ bv.bits[at + 1] = 1 THEN 1 ELSE 0
IndexStep ==
    /\ InIndex
    /\ bv' = [ bits |-> bv.bits,
               super |-> IF AtSuper THEN [bv.super EXCEPT ![at \div SuperBits] = total] ELSE bv.super,
               block |-> IF AtBlock THEN [bv.block EXCEPT ![at \div BlockBits] = WithinHere] ELSE bv.block ]
    /\ total' = total + OneHere /\ within' = WithinHere + OneHere
    /\ at' = at + 1
    /\ UNCHANGED bvpc

IndexDone == bvpc = "index" /\ ~InIndex /\ bvpc' = "ready" /\ UNCHANGED <<bv, at, total, within>>

\* tp2_bv_destroy
Destroy ==
    /\ bvpc = "ready"
    /\ bvpc' = "none" /\ bv' = NoVector /\ at' = 0 /\ total' = 0 /\ within' = 0

BitVecNext == (\E bits \in Vectors : Create(bits)) \/ IndexStep \/ IndexDone \/ Destroy
BitVecSpec == BitVecInit /\ [][BitVecNext]_bvVars

-----------------------------------------------------------------------------
\* tp2_bv_rank1 and tp2_bv_rank0
Within(v, i) == IF i > Size(v) THEN Size(v) ELSE i
Rank1(v, i) ==
    LET j == Within(v, i)
    IN  IF j = 0 THEN 0
        ELSE v.super[j \div SuperBits] + v.block[j \div BlockBits]
             + OnesIn(v.bits, (j \div BlockBits) * BlockBits, j)
Rank0(v, i) == Within(v, i) - Rank1(v, i)
RankOf(v, want, i) == IF want = 1 THEN Rank1(v, i) ELSE Rank0(v, i)

\* Mutant: the search looks at one bit less.
SelectEarly(v, want, k) ==
    LET n == Size(v)
        search[r \in (0..n) \X (0..n)] ==
            IF r[1] >= r[2] THEN r[1]
            ELSE LET mid == r[1] + (r[2] - r[1]) \div 2
                 IN  IF RankOf(v, want, mid) <= k THEN search[<<mid + 1, r[2]>>] ELSE search[<<r[1], mid>>]
    IN  IF k >= RankOf(v, want, n) THEN n ELSE search[<<0, n>>]

\* bv_select: a binary search for the k-th bit of a kind, from 0, in a range r of bits;
\* the size if there is none.
Select(v, want, k) ==
    LET n == Size(v)
        search[r \in (0..n) \X (0..n)] ==
            IF r[1] >= r[2] THEN r[1]
            ELSE LET mid == r[1] + (r[2] - r[1]) \div 2
                 IN  IF RankOf(v, want, mid + 1) <= k THEN search[<<mid + 1, r[2]>>] ELSE search[<<r[1], mid>>]
    IN  IF k >= RankOf(v, want, n) THEN n ELSE search[<<0, n>>]

\* The children of a node in a LOUDS vector: where their bits begin, how many they
\* are, and which node the k-th of them is.
LoudsChildBegin(v, node) == IF node = 0 THEN 0 ELSE Select(v, 0, node - 1) + 1
LoudsChildCount(v, node) ==
    LET begin == LoudsChildBegin(v, node)
        end == Select(v, 0, node)
    IN  IF end > begin THEN end - begin ELSE 0
LoudsChildFromZero(v, node, k) == Rank1(v, LoudsChildBegin(v, node) + k)     \* mutant
LoudsChild(v, node, k) == Rank1(v, LoudsChildBegin(v, node) + k) + 1

-----------------------------------------------------------------------------
\* rank1(i) counts the ones strictly before i, at every block boundary and at the
\* end of the vector, and past the end it counts them all.
RankExact ==
    bvpc = "ready" =>
        \A i \in 0..Size(bv) + 1 : Rank1(bv, i) = OnesIn(bv.bits, 0, Within(bv, i))

\* select(k) is the bit that has exactly k of its kind before it, or the size.
SelectExact ==
    bvpc = "ready" =>
        \A want \in {0, 1}, k \in 0..Size(bv) :
            LET hits == {p \in 0..Size(bv) - 1 :
                            Bit(bv, p) = want /\ Cardinality({q \in 0..p - 1 : Bit(bv, q) = want}) = k}
            IN  IF hits = {} THEN Select(bv, want, k) = Size(bv) ELSE hits = {Select(bv, want, k)}
=============================================================================
