------------------------------ MODULE V2Proofs ------------------------------
(***************************************************************************)
(* Two parts of format v2, for all inputs.                                 *)
(*                                                                         *)
(* The bit vector (BitVec): rank1 and select are exact, for all block      *)
(* sizes where a superblock is a whole number of blocks.  The invariant    *)
(* says what the loop of tp2_bv_create has counted and which entries of    *)
(* the two tables it has written; rank1 adds three counts of neighbouring  *)
(* ranges, and select looks for the least bit whose rank is large enough.  *)
(*                                                                         *)
(* The pool of tails (Tails): every reference leads to the bytes of its    *)
(* tail, and the pool is minimal.  The order of reversed bytes is a strict *)
(* total order, so sorting the distinct tails by the number of smaller     *)
(* ones leaves none out; the invariant of the loop says that what has been *)
(* placed stays readable where it was placed, inside a longer tail or not, *)
(* and that what has been written are the tails that end no other one.     *)
(***************************************************************************)
EXTENDS BitVec, Tails, Induction, FiniteSetTheorems

-----------------------------------------------------------------------------
(* The bit vector *)

\* Division, as the code uses it to number blocks.
LEMMA Division ==
    ASSUME NEW n \in Nat, NEW d \in Nat \ {0}
    PROVE  /\ n \div d \in Nat /\ n % d \in 0..d - 1
           /\ n = (n \div d) * d + (n % d)
  BY SMT

LEMMA Unique ==
    ASSUME NEW d \in Nat \ {0}, NEW q \in Nat, NEW r \in 0..d - 1, NEW n \in Nat, n = q * d + r
    PROVE  n \div d = q /\ n % d = r
  BY SMTT(20)

LEMMA Quotient ==
    ASSUME NEW n \in Nat, NEW d \in Nat \ {0}, NEW q \in Nat, q * d <= n, n < (q + 1) * d
    PROVE  n \div d = q /\ n % d = n - q * d
<1>1. q * d \in Nat /\ (q + 1) * d = q * d + d
  BY SMT
<1>2. n - q * d \in 0..d - 1
  BY <1>1
<1>3. n = q * d + (n - q * d)
  BY <1>1
<1> QED
  BY <1>2, <1>3, Unique

\* The ones of a range are finitely many.
LEMMA OnesFinite ==
    ASSUME NEW bits, NEW lo \in Nat, NEW hi \in Nat
    PROVE  /\ IsFiniteSet({j \in lo..hi - 1 : bits[j + 1] = 1})
           /\ OnesIn(bits, lo, hi) \in Nat
<1>1. IsFiniteSet(lo..hi - 1)
  BY FS_Interval
<1>2. {j \in lo..hi - 1 : bits[j + 1] = 1} \in SUBSET (lo..hi - 1)
  OBVIOUS
<1>3. IsFiniteSet({j \in lo..hi - 1 : bits[j + 1] = 1})
  BY <1>1, <1>2, FS_Subset
<1> QED
  BY <1>3, FS_CardinalityType DEF OnesIn

\* An empty range has none.
LEMMA OnesEmpty ==
    ASSUME NEW bits, NEW n \in Nat
    PROVE  OnesIn(bits, n, n) = 0
<1>1. {j \in n..n - 1 : bits[j + 1] = 1} = {}
  OBVIOUS
<1> QED
  BY <1>1, FS_EmptySet DEF OnesIn

\* One bit more.
LEMMA OnesStep ==
    ASSUME NEW bits, NEW lo \in Nat, NEW hi \in Nat, lo <= hi
    PROVE  OnesIn(bits, lo, hi + 1) = OnesIn(bits, lo, hi) + (IF bits[hi + 1] = 1 THEN 1 ELSE 0)
<1> DEFINE S == {j \in lo..hi - 1 : bits[j + 1] = 1}
           T == {j \in lo..(hi + 1) - 1 : bits[j + 1] = 1}
<1>1. IsFiniteSet(S) /\ hi \notin S
  <2>1. IsFiniteSet(S)
    BY OnesFinite
  <2>2. hi \notin S
    OBVIOUS
  <2> QED
    BY ONLY <2>1, <2>2
<1>4. OnesIn(bits, lo, hi) = Cardinality(S) /\ OnesIn(bits, lo, hi + 1) = Cardinality(T)
  BY DEF OnesIn
<1> HIDE DEF S, T
<1>2. CASE bits[hi + 1] = 1
  <2>1. T = S \cup {hi}
    BY <1>2 DEF S, T
  <2>2. Cardinality(T) = Cardinality(S) + 1
    BY <1>1, <2>1, FS_AddElement
  <2>3. Cardinality(S) \in Nat
    BY <1>1, FS_CardinalityType
  <2>4. OnesIn(bits, lo, hi + 1) = OnesIn(bits, lo, hi) + 1
    BY <1>4, <2>2
  <2> QED
    BY <1>2, <2>4
<1>3. CASE bits[hi + 1] # 1
  <2>1. T = S
    BY <1>3 DEF S, T
  <2>2. Cardinality(S) \in Nat
    BY <1>1, FS_CardinalityType
  <2> QED
    BY <1>3, <1>4, <2>1, <2>2
<1> QED
  BY <1>2, <1>3

\* Two ranges that meet.
LEMMA OnesSplit ==
    ASSUME NEW bits, NEW lo \in Nat, NEW mid \in Nat, NEW hi \in Nat, lo <= mid, mid <= hi
    PROVE  OnesIn(bits, lo, hi) = OnesIn(bits, lo, mid) + OnesIn(bits, mid, hi)
<1> DEFINE L == {j \in lo..mid - 1 : bits[j + 1] = 1}
           R == {j \in mid..hi - 1 : bits[j + 1] = 1}
<1>1. IsFiniteSet(L) /\ IsFiniteSet(R)
  BY OnesFinite
<1>2. L \cap R = {} /\ Cardinality(L \cap R) = 0
  BY FS_EmptySet
<1>3. {j \in lo..hi - 1 : bits[j + 1] = 1} = L \cup R
  OBVIOUS
<1>4. Cardinality(L) \in Nat /\ Cardinality(R) \in Nat
  BY <1>1, FS_CardinalityType
<1>5. Cardinality(L \cup R) = Cardinality(L) + Cardinality(R)
  <2>1. Cardinality(L \cup R) = Cardinality(L) + Cardinality(R) - Cardinality(L \cap R)
    BY <1>1, FS_Union
  <2> HIDE DEF L, R
  <2> QED
    BY <1>2, <1>4, <2>1
<1>6. OnesIn(bits, lo, mid) = Cardinality(L) /\ OnesIn(bits, mid, hi) = Cardinality(R)
  BY DEF OnesIn
<1>7. OnesIn(bits, lo, hi) = Cardinality(L \cup R)
  BY <1>3 DEF OnesIn
<1> QED
  BY ONLY <1>5, <1>6, <1>7, Zenon

\* A smaller number has no larger quotient.
LEMMA Monotone ==
    ASSUME NEW m \in Nat, NEW n \in Nat, m <= n, NEW d \in Nat \ {0}
    PROVE  m \div d <= n \div d
<1>1. m = (m \div d) * d + (m % d) /\ n = (n \div d) * d + (n % d)
  BY Division
<1>2. m \div d \in Nat /\ n \div d \in Nat /\ m % d \in 0..d - 1 /\ n % d \in 0..d - 1
  BY Division
<1> DEFINE a == m \div d
           b == n \div d
<1> HIDE DEF a, b
<1>3. a * d < (b + 1) * d
  BY <1>1, <1>2 DEF a, b
<1>4. a \in Nat /\ b \in Nat
  BY <1>2 DEF a, b
<1>5. a <= b
  BY <1>3, <1>4, SMTT(20)
<1> QED
  BY <1>5 DEF a, b

\* Every bit, and the end of the vector, has an entry in a table of blocks of d bits.
LEMMA HasEntry ==
    ASSUME NEW n \in Nat, NEW j \in 0..n, NEW d \in Nat \ {0}
    PROVE  j \div d \in 0..(n + d - 1) \div d
<1>1. n + d - 1 \in Nat /\ j \in Nat /\ j <= n + d - 1
  OBVIOUS
<1>2. j \div d \in Nat /\ (n + d - 1) \div d \in Nat
  BY <1>1, Division
<1>3. j \div d <= (n + d - 1) \div d
  BY <1>1, Monotone
<1> QED
  BY <1>2, <1>3

\* Where the block of a bit begins, it is still the superblock of that bit.
LEMMA BlockInSuper ==
    ASSUME NEW j \in Nat, NEW start \in Nat, start = (j \div BlockBits) * BlockBits
    PROVE  /\ (j \div SuperBits) * SuperBits <= start
           /\ start <= j
           /\ start \div SuperBits = j \div SuperBits
<1> DEFINE q == j \div SuperBits
           p == j \div BlockBits
           c == SuperBits \div BlockBits
<1>1. BlockBits \in Nat \ {0} /\ SuperBits \in Nat \ {0} /\ SuperBits % BlockBits = 0
  BY BlockAssumption
<1>2. q \in Nat /\ j % SuperBits \in 0..SuperBits - 1 /\ j = q * SuperBits + (j % SuperBits)
  BY <1>1, Division
<1>3. p \in Nat /\ j % BlockBits \in 0..BlockBits - 1 /\ j = p * BlockBits + (j % BlockBits)
  BY <1>1, Division
<1>4. c \in Nat /\ SuperBits = c * BlockBits
  <2>1. c \in Nat /\ SuperBits = c * BlockBits + (SuperBits % BlockBits)
    BY <1>1, Division
  <2>2. c * BlockBits \in Nat
    BY <1>1, <2>1
  <2> QED
    BY <1>1, <2>1, <2>2
<1>5. start = p * BlockBits
  OBVIOUS
<1> HIDE DEF q, p, c
<1>6. q * SuperBits \in Nat /\ q * SuperBits <= j /\ j < q * SuperBits + SuperBits
  BY <1>1, <1>2
<1>7. start <= j /\ j < start + BlockBits
  BY <1>1, <1>3, <1>5
<1>8. q * c \in Nat /\ q * SuperBits = (q * c) * BlockBits
  BY <1>1, <1>2, <1>4, SMTT(20)
<1>9. (q * c) * BlockBits < (p + 1) * BlockBits
  BY <1>1, <1>3, <1>5, <1>6, <1>7, <1>8
<1>10. q * c <= p
  BY <1>1, <1>3, <1>8, <1>9, SMTT(20)
<1>11. q * SuperBits <= start
  <2>1. (q * c) * BlockBits <= p * BlockBits
    BY <1>1, <1>3, <1>8, <1>10, SMTT(20)
  <2> QED
    BY <1>5, <1>8, <2>1
<1>12. start < (q + 1) * SuperBits
  BY <1>1, <1>2, <1>6, <1>7
<1>13. start \div SuperBits = q
  BY <1>1, <1>2, <1>11, <1>12, Quotient
<1> QED
  BY <1>7, <1>11, <1>13 DEF q

-----------------------------------------------------------------------------
\* Where the superblock of a bit begins, and how many bits the loop has counted.
SuperStart(n) == (n \div SuperBits) * SuperBits
Counted == IF at > Size(bv) THEN Size(bv) ELSE at

\* The loop of tp2_bv_create: what its two counters hold, and that every entry whose
\* block it has come to is the count the query needs.
SuperDone == \A s \in DOMAIN bv.super : s * SuperBits < at => bv.super[s] = OnesIn(bv.bits, 0, s * SuperBits)
BlockDone ==
    \A b \in DOMAIN bv.block :
        b * BlockBits < at => bv.block[b] = OnesIn(bv.bits, SuperStart(b * BlockBits), b * BlockBits)
Tables ==
    /\ DOMAIN bv.super = 0..(Size(bv) + SuperBits - 1) \div SuperBits
    /\ DOMAIN bv.block = 0..(Size(bv) + BlockBits - 1) \div BlockBits
Counters ==
    /\ at \in 0..Size(bv) + 1
    /\ total = OnesIn(bv.bits, 0, Counted)
    /\ at > 0 => within = OnesIn(bv.bits, SuperStart(at - 1), Counted)
IndexInv ==
    /\ bvpc \in {"none", "index", "ready"}
    /\ bv.bits \in Seq({0, 1})
    /\ bvpc # "none" => Tables /\ Counters /\ SuperDone /\ BlockDone
    /\ bvpc = "ready" => at = Size(bv) + 1

LEMMA Sizes == BlockBits \in Nat \ {0} /\ SuperBits \in Nat \ {0}
  BY BlockAssumption

LEMMA InitIndex == BitVecInit => IndexInv
  BY DEF BitVecInit, IndexInv, NoVector

\* A superblock that does not begin at a bit is the superblock of the bit before.
LEMMA SameSuper ==
    ASSUME NEW n \in Nat, n % SuperBits # 0
    PROVE  SuperStart(n - 1) = SuperStart(n)
<1> DEFINE q == n \div SuperBits
<1>1. q \in Nat /\ n % SuperBits \in 0..SuperBits - 1 /\ n = q * SuperBits + (n % SuperBits)
  BY Sizes, Division
<1> HIDE DEF q
<1>2. q * SuperBits \in Nat
  BY Sizes, <1>1
<1>3. n - 1 \in Nat /\ (n % SuperBits) - 1 \in 0..SuperBits - 1 /\ n - 1 = q * SuperBits + ((n % SuperBits) - 1)
  BY Sizes, <1>1, <1>2
<1>4. (n - 1) \div SuperBits = q
  <2> DEFINE r == (n % SuperBits) - 1
              m == n - 1
  <2>1. m \in Nat /\ r \in 0..SuperBits - 1 /\ m = q * SuperBits + r
    BY <1>3
  <2> HIDE DEF r, m
  <2>2. m \div SuperBits = q
    BY Sizes, <1>1, <2>1, Unique
  <2> QED
    BY <2>2 DEF m
<1> QED
  BY <1>4 DEF q, SuperStart

\* The turn of the loop at a bit: before the bit is counted, within holds the ones of
\* its superblock so far.
LEMMA WithinIsExact ==
    ASSUME IndexInv, InIndex
    PROVE  /\ WithinHere = OnesIn(bv.bits, SuperStart(at), at)
           /\ SuperStart(at) \in 0..at
<1>1. at \in Nat /\ at <= Size(bv) /\ Counters /\ Counted = at
  BY DEF IndexInv, InIndex, Counters, Counted, Size
<1> DEFINE q == at \div SuperBits
<1>2. q \in Nat /\ at % SuperBits \in 0..SuperBits - 1 /\ at = q * SuperBits + (at % SuperBits)
  BY <1>1, Sizes, Division
<1>3. SuperStart(at) = q * SuperBits
  BY DEF SuperStart
<1> HIDE DEF q
<1>4. q * SuperBits \in Nat
  BY Sizes, <1>2
<1>5. SuperStart(at) \in 0..at
  BY <1>1, <1>2, <1>3, <1>4, Sizes
<1>6. CASE AtSuper
  <2>1. SuperStart(at) = at
    BY <1>1, <1>2, <1>3, <1>4, <1>6 DEF AtSuper
  <2>2. WithinHere = 0
    BY <1>6 DEF WithinHere
  <2> QED
    BY <1>1, <1>5, <2>1, <2>2, OnesEmpty
<1>7. CASE ~AtSuper
  <2>1. at % SuperBits # 0 /\ WithinHere = within
    BY <1>7 DEF AtSuper, WithinHere
  <2>2. at > 0
    BY <1>1, <1>2, <1>4, <2>1
  <2>3. within = OnesIn(bv.bits, SuperStart(at - 1), at)
    BY <1>1, <2>2 DEF Counters
  <2>4. SuperStart(at - 1) = SuperStart(at)
    BY <1>1, <2>1, SameSuper
  <2> QED
    BY <1>5, <2>1, <2>3, <2>4
<1> QED
  BY <1>6, <1>7

\* A number of blocks that ends at a bit is the number of the block that begins there.
LEMMA EntryAt ==
    ASSUME NEW n \in Nat, NEW d \in Nat \ {0}, NEW e \in Nat, e * d = n
    PROVE  n % d = 0 /\ n \div d = e
<1>1. 0 \in 0..d - 1 /\ n = e * d + 0
  OBVIOUS
<1> QED
  BY <1>1, Unique

\* A turn of the loop.
LEMMA StepIndex ==
    ASSUME IndexInv, IndexStep
    PROVE  IndexInv'
<1>1. /\ bvpc = "index" /\ bvpc' = "index" /\ InIndex
      /\ at \in Nat /\ at <= Size(bv) /\ at' = at + 1 /\ Size(bv) \in Nat
      /\ Tables /\ Counters /\ SuperDone /\ BlockDone /\ Counted = at
  BY DEF IndexStep, InIndex, IndexInv, Counters, Counted, Size
<1>2. bv'.bits = bv.bits /\ Size(bv)' = Size(bv)
  BY DEF IndexStep, Size
<1>3. bv.bits \in Seq({0, 1}) /\ bv'.bits \in Seq({0, 1})
  BY <1>2 DEF IndexInv
<1>4. WithinHere = OnesIn(bv.bits, SuperStart(at), at) /\ SuperStart(at) \in 0..at
  BY <1>1, WithinIsExact
<1>5. bv'.super = IF AtSuper THEN [bv.super EXCEPT ![at \div SuperBits] = total] ELSE bv.super
  BY DEF IndexStep
<1>6. bv'.block = IF AtBlock THEN [bv.block EXCEPT ![at \div BlockBits] = WithinHere] ELSE bv.block
  BY DEF IndexStep
<1>7. DOMAIN bv'.super = DOMAIN bv.super /\ DOMAIN bv'.block = DOMAIN bv.block
  BY <1>5, <1>6
<1>8. Tables'
  BY <1>1, <1>2, <1>7 DEF Tables
<1>9. Counters'
  <2>1. at' \in 0..Size(bv)' + 1
    BY <1>1, <1>2
  <2>2. total = OnesIn(bv.bits, 0, at) /\ total \in Nat
    BY <1>1, OnesFinite DEF Counters
  <2>3. WithinHere \in Nat
    <3>1. SuperStart(at) \in Nat
      BY <1>1, <1>4
    <3>2. OnesIn(bv.bits, SuperStart(at), at) \in Nat
      BY ONLY <1>1, <3>1, OnesFinite
    <3> QED
      BY ONLY <1>4, <3>2
  <2>4. total' = total + OneHere /\ within' = WithinHere + OneHere
    BY DEF IndexStep
  <2>5. at' - 1 = at /\ SuperStart(at)' = SuperStart(at')
    BY <1>1 DEF SuperStart
  <2>6. CASE at < Size(bv)
    <3>1. Counted' = at + 1
      BY <1>1, <1>2, <2>6 DEF Counted
    <3>2. OneHere = IF bv.bits[at + 1] = 1 THEN 1 ELSE 0
      BY <2>6 DEF OneHere
    <3>3. total' = OnesIn(bv.bits, 0, at + 1)
      BY <1>1, <2>2, <2>4, <3>2, OnesStep
    <3>4. within' = OnesIn(bv.bits, SuperStart(at), at + 1)
      BY <1>1, <1>4, <2>4, <3>2, OnesStep
    <3> QED
      BY <1>2, <2>1, <2>5, <3>1, <3>3, <3>4 DEF Counters, SuperStart
  <2>7. CASE at = Size(bv)
    <3>1. Counted' = at
      BY <1>1, <1>2, <2>7 DEF Counted
    <3>2. OneHere = 0
      BY <1>1, <2>7 DEF OneHere
    <3>3. total' = OnesIn(bv.bits, 0, at)
      BY <2>2, <2>4, <3>2
    <3>4. within' = OnesIn(bv.bits, SuperStart(at), at)
      BY <1>4, <2>3, <2>4, <3>2
    <3> QED
      BY <1>2, <2>1, <2>5, <3>1, <3>3, <3>4 DEF Counters, SuperStart
  <2> QED
    BY <1>1, <2>6, <2>7
<1>10. SuperDone'
  <2> SUFFICES ASSUME NEW s \in DOMAIN bv.super, s * SuperBits < at + 1
               PROVE  bv'.super[s] = OnesIn(bv.bits, 0, s * SuperBits)
    BY <1>1, <1>2, <1>7 DEF SuperDone
  <2>1. s \in Nat /\ s * SuperBits \in Nat
    <3>1. s \in Nat
      BY <1>1, Division, Sizes DEF Tables
    <3> QED
      BY <3>1, Sizes
  <2>2. CASE s * SuperBits = at
    <3>1. AtSuper /\ at \div SuperBits = s
      BY <1>1, <2>1, <2>2, Sizes, EntryAt DEF AtSuper
    <3>2. bv'.super[s] = total
      BY <1>5, <3>1
    <3> QED
      BY <1>1, <2>2, <3>2 DEF Counters
  <2>3. CASE s * SuperBits < at
    <3>1. ~(AtSuper /\ at \div SuperBits = s)
      <4>1. ASSUME AtSuper, at \div SuperBits = s PROVE FALSE
        <5>1. at = s * SuperBits + 0
          BY <1>1, <4>1, Sizes, Division DEF AtSuper
        <5> QED
          BY <2>1, <2>3, <5>1
      <4> QED
        BY <4>1
    <3>2. bv'.super[s] = bv.super[s]
      BY <1>5, <3>1
    <3> QED
      BY <1>1, <2>3, <3>2 DEF SuperDone
  <2> QED
    BY <1>1, <2>1, <2>2, <2>3
<1>11. BlockDone'
  <2> SUFFICES ASSUME NEW b \in DOMAIN bv.block, b * BlockBits < at + 1
               PROVE  bv'.block[b] = OnesIn(bv.bits, SuperStart(b * BlockBits), b * BlockBits)
    BY <1>1, <1>2, <1>7 DEF BlockDone, SuperStart
  <2>1. b \in Nat /\ b * BlockBits \in Nat
    <3>1. b \in Nat
      BY <1>1, Division, Sizes DEF Tables
    <3> QED
      BY <3>1, Sizes
  <2>2. CASE b * BlockBits = at
    <3>1. AtBlock /\ at \div BlockBits = b
      BY <1>1, <2>1, <2>2, Sizes, EntryAt DEF AtBlock
    <3>2. bv'.block[b] = WithinHere
      BY <1>6, <3>1
    <3> QED
      BY <1>4, <2>2, <3>2
  <2>3. CASE b * BlockBits < at
    <3>1. ~(AtBlock /\ at \div BlockBits = b)
      <4>1. ASSUME AtBlock, at \div BlockBits = b PROVE FALSE
        <5>1. at = b * BlockBits + 0
          BY <1>1, <4>1, Sizes, Division DEF AtBlock
        <5> QED
          BY <2>1, <2>3, <5>1
      <4> QED
        BY <4>1
    <3>2. bv'.block[b] = bv.block[b]
      BY <1>6, <3>1
    <3> QED
      BY <1>1, <2>3, <3>2 DEF BlockDone
  <2> QED
    BY <1>1, <2>1, <2>2, <2>3
<1> QED
  BY <1>1, <1>3, <1>8, <1>9, <1>10, <1>11 DEF IndexInv

\* tp2_bv_create, up to its loop.
LEMMA CreateIndex ==
    ASSUME NEW bits \in Vectors, Create(bits)
    PROVE  IndexInv'
<1>1. /\ bvpc' = "index" /\ at' = 0 /\ total' = 0 /\ bv'.bits = bits
      /\ bv'.super = [s \in 0..(Len(bits) + SuperBits - 1) \div SuperBits |-> 0]
      /\ bv'.block = [b \in 0..(Len(bits) + BlockBits - 1) \div BlockBits |-> 0]
  BY DEF Create
<1>2. bits \in Seq({0, 1}) /\ Len(bits) \in Nat /\ Size(bv)' = Len(bits)
  BY <1>1, VectorsAssumption DEF Size
<1>3. Tables'
  BY <1>1, <1>2 DEF Tables
<1>4. Counters'
  <2>1. Counted' = 0
    BY <1>1, <1>2 DEF Counted
  <2>2. OnesIn(bits, 0, 0) = 0
    BY OnesEmpty
  <2> QED
    BY <1>1, <1>2, <2>1, <2>2 DEF Counters
<1>5. SuperDone'
  <2> SUFFICES ASSUME NEW s \in DOMAIN bv'.super PROVE ~(s * SuperBits < 0)
    BY <1>1 DEF SuperDone
  <2>1. s \in Nat
    BY <1>1
  <2> QED
    BY <2>1, Sizes
<1>6. BlockDone'
  <2> SUFFICES ASSUME NEW b \in DOMAIN bv'.block PROVE ~(b * BlockBits < 0)
    BY <1>1 DEF BlockDone, SuperStart
  <2>1. b \in Nat
    BY <1>1
  <2> QED
    BY <2>1, Sizes
<1> QED
  BY <1>1, <1>2, <1>3, <1>4, <1>5, <1>6 DEF IndexInv

LEMMA NextIndex == IndexInv /\ [BitVecNext]_bvVars => IndexInv'
<1> SUFFICES ASSUME IndexInv, [BitVecNext]_bvVars PROVE IndexInv'
  OBVIOUS
<1>1. CASE \E bits \in Vectors : Create(bits)
  BY <1>1, CreateIndex
<1>2. CASE IndexStep
  BY <1>2, StepIndex
<1>3. CASE IndexDone
  <2>1. /\ bvpc = "index" /\ bvpc' = "ready" /\ ~(at <= Size(bv))
        /\ bv' = bv /\ at' = at /\ total' = total /\ within' = within
    BY <1>3 DEF IndexDone, InIndex
  <2>2. Tables /\ Counters /\ SuperDone /\ BlockDone /\ Size(bv) \in Nat
    BY <2>1 DEF IndexInv, Size
  <2>3. at = Size(bv) + 1
    BY <2>1, <2>2 DEF Counters
  <2>4. Tables' /\ Counters' /\ SuperDone' /\ BlockDone'
    BY <2>1, <2>2 DEF Tables, Counters, Counted, SuperDone, BlockDone, Size
  <2> QED
    BY <2>1, <2>3, <2>4 DEF IndexInv, Size
<1>4. CASE Destroy
  BY <1>4 DEF Destroy, IndexInv, NoVector
<1>5. CASE UNCHANGED bvVars
  BY <1>5 DEF bvVars, IndexInv, Tables, Counters, Counted, SuperDone, BlockDone, Size
<1> QED
  BY <1>1, <1>2, <1>3, <1>4, <1>5 DEF BitVecNext

\* The query on a finished vector adds the ones up to the superblock, from there to
\* the block, and from there to the bit.
LEMMA QueryExact ==
    ASSUME IndexInv, bvpc = "ready", NEW i \in 0..Size(bv) + 1
    PROVE  Rank1(bv, i) = OnesIn(bv.bits, 0, Within(bv, i))
<1> DEFINE j == Within(bv, i)
           q == j \div SuperBits
           p == j \div BlockBits
           start == p * BlockBits
<1>1. /\ Size(bv) \in Nat /\ j \in 0..Size(bv) /\ at = Size(bv) + 1
      /\ Tables /\ SuperDone /\ BlockDone
  BY DEF IndexInv, Within, Size
<1>2. CASE j = 0
  BY <1>2, OnesEmpty DEF Rank1
<1>3. CASE j # 0
  <2>1. Rank1(bv, i) = bv.super[q] + bv.block[p] + OnesIn(bv.bits, start, j)
    BY <1>3 DEF Rank1
  <2> HIDE DEF j
  <2>2. q \in DOMAIN bv.super /\ p \in DOMAIN bv.block
    BY <1>1, Sizes, HasEntry DEF Tables
  <2>3. q \in Nat /\ p \in Nat /\ j \in Nat
    <3>1. j \in Nat
      BY <1>1
    <3> QED
      BY <3>1, Sizes, Division
  <2>4. start \in Nat /\ q * SuperBits \in Nat
    BY <2>3, Sizes
  <2>5. q * SuperBits <= start /\ start <= j /\ start \div SuperBits = q
    BY <2>3, <2>4, BlockInSuper
  <2>6. q * SuperBits < at /\ start < at
    BY <1>1, <2>3, <2>4, <2>5
  <2>7. bv.super[q] = OnesIn(bv.bits, 0, q * SuperBits)
    BY <1>1, <2>2, <2>6 DEF SuperDone
  <2>8. bv.block[p] = OnesIn(bv.bits, q * SuperBits, start)
    BY <1>1, <2>2, <2>5, <2>6 DEF BlockDone, SuperStart
  <2> HIDE DEF q, p, start
  <2>9. OnesIn(bv.bits, 0, start) = OnesIn(bv.bits, 0, q * SuperBits) + OnesIn(bv.bits, q * SuperBits, start)
    BY <2>4, <2>5, OnesSplit
  <2>10. OnesIn(bv.bits, 0, j) = OnesIn(bv.bits, 0, start) + OnesIn(bv.bits, start, j)
    BY <2>3, <2>4, <2>5, OnesSplit
  <2>11. Rank1(bv, i) = OnesIn(bv.bits, 0, j)
    BY <2>1, <2>7, <2>8, <2>9, <2>10
  <2> QED
    BY <2>11 DEF j
<1> QED
  BY <1>2, <1>3

-----------------------------------------------------------------------------
(* select *)

\* The bits of a kind before a bit.
Before(bits, want, i) == Cardinality({q \in 0..i - 1 : bits[q + 1] = want})

\* The binary search finds the first bit at which the rank passes k.
LEMMA SearchFinds ==
    ASSUME NEW v, NEW want, NEW k \in Nat, Size(v) \in Nat, ~(k >= RankOf(v, want, Size(v))),
           NEW s \in 0..Size(v),
           \A m \in 0..Size(v) - 1 : RankOf(v, want, m + 1) <= k <=> m < s
    PROVE  Select(v, want, k) = s
<1> DEFINE n == Size(v)
           D == (0..n) \X (0..n)
           Turn(f, r) == IF r[1] >= r[2] THEN r[1]
                         ELSE LET mid == r[1] + (r[2] - r[1]) \div 2
                              IN  IF RankOf(v, want, mid + 1) <= k THEN f[<<mid + 1, r[2]>>] ELSE f[<<r[1], mid>>]
           search == CHOOSE f : f = [r \in D |-> Turn(f, r)]
           \* s, unless it lies outside the range
           found == [r \in D |-> IF r[1] >= r[2] \/ s <= r[1] THEN r[1] ELSE IF s >= r[2] THEN r[2] ELSE s]
<1>1. Select(v, want, k) = search[<<0, n>>]
  BY DEF Select
<1>2. found = [r \in D |-> Turn(found, r)]
  <2>1. ASSUME NEW r \in D PROVE found[r] = Turn(found, r)
    <3>1. PICK lo \in 0..n, hi \in 0..n : r = <<lo, hi>>
      OBVIOUS
    <3>2. CASE lo >= hi
      BY <3>1, <3>2
    <3>3. CASE lo < hi
      <4> DEFINE mid == lo + (hi - lo) \div 2
      <4>1. mid \in 0..n - 1 /\ mid + 1 \in 0..n /\ lo <= mid /\ mid < hi
        BY <3>3
      <4>2. Turn(found, r) = IF RankOf(v, want, mid + 1) <= k THEN found[<<mid + 1, hi>>] ELSE found[<<lo, mid>>]
        BY <3>1, <3>3
      <4> HIDE DEF mid, Turn
      <4>3. CASE RankOf(v, want, mid + 1) <= k
        BY <3>1, <3>3, <4>1, <4>2, <4>3
      <4>4. CASE ~(RankOf(v, want, mid + 1) <= k)
        BY <3>1, <3>3, <4>1, <4>2, <4>4
      <4> QED
        BY <4>3, <4>4
    <3> QED
      BY <3>1, <3>2, <3>3
  <2> QED
    BY <2>1
<1>3. search = [r \in D |-> Turn(search, r)]
  <2> HIDE DEF found, D, Turn
  <2> QED
    BY <1>2
\* Both are the same, by induction on the length of the range.
<1>4. \A w \in Nat : \A lo, hi \in 0..n : hi - lo <= w => search[<<lo, hi>>] = found[<<lo, hi>>]
  <2> HIDE DEF search, found
  <2> DEFINE same == {w \in Nat : \A lo, hi \in 0..n : hi - lo <= w => search[<<lo, hi>>] = found[<<lo, hi>>]}
             Next(f, lo, hi) == LET mid == lo + (hi - lo) \div 2
                                IN  IF RankOf(v, want, mid + 1) <= k THEN f[<<mid + 1, hi>>] ELSE f[<<lo, mid>>]
  <2>1. \A lo, hi \in 0..n : search[<<lo, hi>>] = IF lo >= hi THEN lo ELSE Next(search, lo, hi)
    <3> SUFFICES ASSUME NEW lo \in 0..n, NEW hi \in 0..n
                 PROVE  search[<<lo, hi>>] = IF lo >= hi THEN lo ELSE Next(search, lo, hi)
      OBVIOUS
    <3>1. <<lo, hi>> \in D
      OBVIOUS
    <3>2. search[<<lo, hi>>] = Turn(search, <<lo, hi>>)
      <4> HIDE DEF D, Turn
      <4> QED
        BY <1>3, <3>1
    <3> QED
      BY <3>2
  <2>2. \A lo, hi \in 0..n : found[<<lo, hi>>] = IF lo >= hi THEN lo ELSE Next(found, lo, hi)
    <3> SUFFICES ASSUME NEW lo \in 0..n, NEW hi \in 0..n
                 PROVE  found[<<lo, hi>>] = IF lo >= hi THEN lo ELSE Next(found, lo, hi)
      OBVIOUS
    <3>1. <<lo, hi>> \in D
      OBVIOUS
    <3>2. found[<<lo, hi>>] = Turn(found, <<lo, hi>>)
      <4> HIDE DEF D, Turn
      <4> QED
        BY <1>2, <3>1
    <3> QED
      BY <3>2
  <2>3. 0 \in same
    <3>1. \A lo, hi \in 0..n : hi - lo <= 0 => lo >= hi
      OBVIOUS
    <3> HIDE DEF Next
    <3> QED
      BY <2>1, <2>2, <3>1
  <2>4. ASSUME NEW w \in Nat, w \in same PROVE w + 1 \in same
    <3> SUFFICES ASSUME NEW lo \in 0..n, NEW hi \in 0..n, hi - lo = w + 1
                 PROVE  search[<<lo, hi>>] = found[<<lo, hi>>]
      BY <2>4
    <3> DEFINE mid == lo + (hi - lo) \div 2
    <3>1. mid \in 0..n /\ mid + 1 \in 0..n /\ hi - (mid + 1) <= w /\ mid - lo <= w
      OBVIOUS
    <3> HIDE DEF mid
    <3>2. search[<<mid + 1, hi>>] = found[<<mid + 1, hi>>] /\ search[<<lo, mid>>] = found[<<lo, mid>>]
      BY <2>4, <3>1
    <3> QED
      BY <2>1, <2>2, <3>2 DEF mid
  <2>5. \A w \in Nat : w \in same
    <3> HIDE DEF same
    <3> QED
      BY <2>3, <2>4, SetInduction
  <2> QED
    BY <2>5
<1>5. search[<<0, n>>] = found[<<0, n>>]
  <2>1. 0 \in 0..n /\ n \in 0..n /\ n - 0 <= n
    OBVIOUS
  <2> HIDE DEF search, found
  <2> QED
    BY <1>4, <2>1
<1>6. found[<<0, n>>] = s
  OBVIOUS
<1> QED
  BY <1>1, <1>5, <1>6

\* The bits counted are finitely many.
LEMMA BeforeFinite ==
    ASSUME NEW bits, NEW want, NEW i \in Nat
    PROVE  /\ IsFiniteSet({q \in 0..i - 1 : bits[q + 1] = want})
           /\ Before(bits, want, i) \in Nat
<1>1. IsFiniteSet(0..i - 1) /\ {q \in 0..i - 1 : bits[q + 1] = want} \in SUBSET (0..i - 1)
  BY FS_Interval
<1> QED
  BY <1>1, FS_Subset, FS_CardinalityType DEF Before

\* No bit, and one bit more.
LEMMA BeforeNone ==
    ASSUME NEW bits, NEW want
    PROVE  Before(bits, want, 0) = 0
<1>1. {q \in 0..0 - 1 : bits[q + 1] = want} = {}
  OBVIOUS
<1> QED
  BY <1>1, FS_EmptySet DEF Before

LEMMA BeforeStep ==
    ASSUME NEW bits, NEW want, NEW i \in Nat
    PROVE  Before(bits, want, i + 1) = Before(bits, want, i) + (IF bits[i + 1] = want THEN 1 ELSE 0)
<1> DEFINE B(n) == {q \in 0..n - 1 : bits[q + 1] = want}
<1>1. IsFiniteSet(B(i)) /\ Cardinality(B(i)) \in Nat
  BY BeforeFinite, FS_CardinalityType
<1>2. CASE bits[i + 1] = want
  <2>1. B(i + 1) = B(i) \cup {i} /\ i \notin B(i)
    BY <1>2
  <2> HIDE DEF B
  <2>2. Cardinality(B(i + 1)) = Cardinality(B(i)) + 1
    BY <1>1, <2>1, FS_AddElement
  <2> QED
    BY <1>1, <1>2, <2>2 DEF B, Before
<1>3. CASE bits[i + 1] # want
  <2>1. B(i + 1) = B(i)
    BY <1>3
  <2> HIDE DEF B
  <2>2. Cardinality(B(i + 1)) = Cardinality(B(i)) + 0
    BY <1>1, <2>1
  <2> QED
    BY <1>3, <2>2 DEF B, Before
<1> QED
  BY <1>2, <1>3

\* More bits count no less.
LEMMA BeforeGrows ==
    ASSUME NEW bits, NEW want, NEW i \in Nat, NEW j \in Nat, i <= j
    PROVE  Before(bits, want, i) <= Before(bits, want, j)
<1>1. {q \in 0..i - 1 : bits[q + 1] = want} \in SUBSET {q \in 0..j - 1 : bits[q + 1] = want}
  OBVIOUS
<1>2. IsFiniteSet({q \in 0..j - 1 : bits[q + 1] = want})
  BY BeforeFinite
<1> QED
  BY <1>1, <1>2, FS_Subset DEF Before

\* Ones and zeros together are all bits.
LEMMA ZerosAndOnes ==
    ASSUME NEW bits \in Seq({0, 1}), NEW i \in 0..Len(bits)
    PROVE  Before(bits, 0, i) = i - Before(bits, 1, i)
<1> DEFINE good == {n \in Nat : n <= Len(bits) => Before(bits, 0, n) + Before(bits, 1, n) = n}
<1>1. 0 \in good
  <2>1. Before(bits, 0, 0) = 0 /\ Before(bits, 1, 0) = 0
    BY BeforeNone
  <2> QED
    BY <2>1
<1>2. ASSUME NEW n \in Nat, n \in good PROVE n + 1 \in good
  <2> SUFFICES ASSUME n + 1 <= Len(bits) PROVE Before(bits, 0, n + 1) + Before(bits, 1, n + 1) = n + 1
    OBVIOUS
  <2>1. Before(bits, 0, n) + Before(bits, 1, n) = n /\ bits[n + 1] \in {0, 1}
    BY <1>2
  <2>2. /\ Before(bits, 0, n) \in Nat /\ Before(bits, 1, n) \in Nat
        /\ Before(bits, 0, n + 1) = Before(bits, 0, n) + (IF bits[n + 1] = 0 THEN 1 ELSE 0)
        /\ Before(bits, 1, n + 1) = Before(bits, 1, n) + (IF bits[n + 1] = 1 THEN 1 ELSE 0)
    BY BeforeFinite, BeforeStep
  <2> QED
    BY <2>1, <2>2
<1>3. \A n \in Nat : n \in good
  <2> HIDE DEF good
  <2> QED
    BY <1>1, <1>2, SetInduction
<1>4. Before(bits, 0, i) + Before(bits, 1, i) = i /\ i \in Nat
  BY <1>3
<1>5. Before(bits, 0, i) \in Nat /\ Before(bits, 1, i) \in Nat
  BY <1>4, BeforeFinite
<1> QED
  BY <1>4, <1>5

\* Both ranks count the bits of their kind.
LEMMA RankIsBefore ==
    ASSUME IndexInv, bvpc = "ready", NEW want \in {0, 1}, NEW i \in 0..Size(bv)
    PROVE  RankOf(bv, want, i) = Before(bv.bits, want, i)
<1>1. i \in 0..Len(bv.bits) /\ bv.bits \in Seq({0, 1}) /\ Within(bv, i) = i /\ i \in 0..Size(bv) + 1
  BY DEF Within, Size, IndexInv
<1>2. Rank1(bv, i) = Before(bv.bits, 1, i)
  BY <1>1, QueryExact DEF Before, OnesIn
<1>3. Rank0(bv, i) = Before(bv.bits, 0, i)
  BY <1>1, <1>2, ZerosAndOnes DEF Rank0
<1> QED
  BY <1>2, <1>3 DEF RankOf

LEMMA SelectIsExact ==
    ASSUME IndexInv, bvpc = "ready", NEW want \in {0, 1}, NEW k \in 0..Size(bv)
    PROVE  LET hits == {p \in 0..Size(bv) - 1 :
                            Bit(bv, p) = want /\ Cardinality({q \in 0..p - 1 : Bit(bv, q) = want}) = k}
           IN  IF hits = {} THEN Select(bv, want, k) = Size(bv) ELSE hits = {Select(bv, want, k)}
<1> DEFINE n == Size(bv)
           B(i) == Before(bv.bits, want, i)
           hits == {p \in 0..n - 1 : bv.bits[p + 1] = want /\ B(p) = k}
<1>1. n \in Nat /\ k \in Nat
  BY DEF IndexInv, Size
<1>2. \A i \in 0..n : RankOf(bv, want, i) = B(i)
  BY RankIsBefore
<1>3. \A i \in Nat : B(i) \in Nat /\ B(0) = 0 /\ B(i + 1) = B(i) + (IF bv.bits[i + 1] = want THEN 1 ELSE 0)
  BY BeforeFinite, BeforeNone, BeforeStep
<1>4. \A i, j \in Nat : i <= j => B(i) <= B(j)
  BY BeforeGrows
<1>5. hits = {p \in 0..n - 1 : Bit(bv, p) = want /\ Cardinality({q \in 0..p - 1 : Bit(bv, q) = want}) = k}
  BY DEF Bit, Before
<1>6. SUFFICES IF hits = {} THEN Select(bv, want, k) = n ELSE hits = {Select(bv, want, k)}
  <2> HIDE DEF hits
  <2> QED
    BY <1>5
<1> HIDE DEF n, B
<1>7. CASE k >= B(n)
  <2>1. Select(bv, want, k) = n
    <3>1. k >= RankOf(bv, want, Size(bv))
      BY <1>1, <1>2, <1>7 DEF n
    <3> QED
      BY <3>1 DEF Select, n
  <2>2. ASSUME NEW p \in hits PROVE FALSE
    <3>1. p \in Nat /\ p + 1 <= n /\ B(p + 1) = k + 1
      BY <1>1, <1>3, <2>2
    <3>2. B(p + 1) <= B(n) /\ B(n) \in Nat
      BY <1>1, <1>3, <1>4, <3>1
    <3> QED
      BY <1>1, <1>7, <3>1, <3>2
  <2> QED
    BY <2>1, <2>2
<1>8. CASE ~(k >= B(n))
  <2> DEFINE passed == {m \in 0..n - 1 : B(m + 1) > k}
  <2>1. n - 1 \in passed
    BY <1>1, <1>3, <1>8
  <2>2. passed \in SUBSET Nat
    BY <1>1
  <2>3. PICK s \in passed : \A m \in passed : s <= m
    <3> HIDE DEF passed
    <3> QED
      BY <2>1, <2>2, LeastElement
  <2>4. s \in 0..n /\ s \in Nat /\ s + 1 \in Nat /\ B(s + 1) > k /\ B(s) \in Nat
    BY <1>1, <1>3
  <2>5. \A m \in 0..n - 1 : B(m + 1) <= k <=> m < s
    <3> SUFFICES ASSUME NEW m \in 0..n - 1 PROVE B(m + 1) <= k <=> m < s
      OBVIOUS
    <3>1. m \in Nat /\ m + 1 \in Nat /\ B(m + 1) \in Nat /\ B(s + 1) \in Nat
      BY <1>1, <1>3, <2>4
    <3>2. CASE m < s
      BY <1>1, <2>3, <3>1, <3>2
    <3>3. CASE ~(m < s)
      <4>1. B(s + 1) <= B(m + 1)
        BY <1>4, <2>4, <3>1, <3>3
      <4> QED
        BY <1>1, <2>4, <3>1, <3>3, <4>1
    <3> QED
      BY <3>2, <3>3
  <2>6. Select(bv, want, k) = s
    <3>1. \A m \in 0..n - 1 : RankOf(bv, want, m + 1) = B(m + 1)
      BY <1>1, <1>2
    <3>2. RankOf(bv, want, n) = B(n)
      BY <1>1, <1>2
    <3> QED
      BY <1>1, <1>8, <2>4, <2>5, <3>1, <3>2, SearchFinds DEF n
  <2>7. B(s) = k /\ bv.bits[s + 1] = want
    <3>1. B(s) <= k
      <4>1. CASE s = 0
        BY <1>1, <1>3, <4>1
      <4>2. CASE s # 0
        BY <1>1, <2>4, <2>5, <4>2
      <4> QED
        BY <4>1, <4>2
    <3> QED
      BY <1>1, <1>3, <2>4, <3>1
  <2>8. s \in hits
    BY <1>1, <2>4, <2>7
  <2>9. ASSUME NEW p \in hits PROVE p = s
    <3>1. p \in 0..n - 1 /\ p \in Nat /\ B(p) = k /\ B(p + 1) = k + 1
      BY <1>1, <1>3, <2>9
    <3>2. p >= s
      BY <1>1, <2>4, <2>5, <3>1
    <3>3. CASE p > s
      <4>1. B(s + 1) <= B(p) /\ B(s + 1) \in Nat
        BY <1>3, <1>4, <2>4, <3>1, <3>3
      <4> QED
        BY <1>1, <2>4, <3>1, <4>1
    <3> QED
      BY <2>4, <3>1, <3>2, <3>3
  <2> HIDE DEF hits
  <2>10. hits = {s}
    BY <2>8, <2>9
  <2> QED
    BY <2>6, <2>10
<1> QED
  BY <1>7, <1>8

-----------------------------------------------------------------------------
\* At every turn of the loop of tp2_bv_create the counters hold the ones so far and
\* the entries written are exact: the invariant the queries rest on.
THEOREM TablesExact == BitVecSpec => []IndexInv
<1> QED
  BY InitIndex, NextIndex, PTL DEF BitVecSpec

\* tp2_bv_rank1 counts the ones strictly before its argument, at every bit of every
\* vector, block and superblock boundaries, the end and past the end included.
THEOREM RankAlwaysExact == BitVecSpec => []RankExact
<1>1. IndexInv => RankExact
  BY QueryExact DEF RankExact
<1> QED
  BY <1>1, TablesExact, PTL

\* bv_select, the binary search behind tp2_bv_select1 and tp2_bv_select0, finds the one
\* bit that has k of its kind before it, or answers with the size if there is none.
THEOREM SelectAlwaysExact == BitVecSpec => []SelectExact
<1>1. IndexInv => SelectExact
  BY SelectIsExact DEF SelectExact
<1> QED
  BY <1>1, TablesExact, PTL

-----------------------------------------------------------------------------
Bytes == Seq(Nat)

\* Reversing loses nothing.
LEMMA ReverseType ==
    ASSUME NEW a \in Bytes
    PROVE  /\ Reverse(a) \in Bytes /\ Len(Reverse(a)) = Len(a)
           /\ \A n \in 1..Len(a) : Reverse(a)[n] = a[Len(a) - n + 1]
<1>1. Len(a) \in Nat /\ \A n \in 1..Len(a) : a[Len(a) - n + 1] \in Nat
  <2> SUFFICES ASSUME NEW n \in 1..Len(a) PROVE a[Len(a) - n + 1] \in Nat
    BY DEF Bytes
  <2>1. Len(a) - n + 1 \in 1..Len(a)
    BY DEF Bytes
  <2> QED
    BY <2>1 DEF Bytes
<1>2. Reverse(a) = [n \in 1..Len(a) |-> a[Len(a) - n + 1]]
  BY DEF Reverse
<1> QED
  BY <1>1, <1>2 DEF Bytes

LEMMA ReverseInjective ==
    ASSUME NEW a \in Bytes, NEW b \in Bytes, Reverse(a) = Reverse(b)
    PROVE  a = b
<1>1. Len(a) = Len(b) /\ Len(a) \in Nat
  BY ReverseType DEF Bytes
<1>2. ASSUME NEW n \in 1..Len(a) PROVE a[n] = b[n]
  <2>1. Len(a) - n + 1 \in 1..Len(a) /\ Len(a) - (Len(a) - n + 1) + 1 = n
    BY <1>1
  <2>2. Reverse(a)[Len(a) - n + 1] = a[n] /\ Reverse(b)[Len(a) - n + 1] = b[n]
    BY <1>1, <2>1, ReverseType
  <2> QED
    BY <2>2
<1> QED
  BY <1>1, <1>2, SeqEqual DEF Bytes

\* So the order of reversed bytes, cmp_reversed, is a strict total order as well.
LEMMA ReversedOrder ==
    ASSUME NEW a \in Bytes, NEW b \in Bytes
    PROVE  /\ ~ReversedLess(a, a)
           /\ a # b => ReversedLess(a, b) \/ ReversedLess(b, a)
           /\ \A c \in Bytes : ReversedLess(a, b) /\ ReversedLess(b, c) => ReversedLess(a, c)
<1>1. Reverse(a) \in Bytes /\ Reverse(b) \in Bytes
  BY ReverseType
<1>2. ~ReversedLess(a, a)
  BY <1>1, LessIrreflexive DEF ReversedLess, Bytes
<1>3. a # b => ReversedLess(a, b) \/ ReversedLess(b, a)
  BY <1>1, ReverseInjective, LessTotal DEF ReversedLess, Bytes
<1>4. ASSUME NEW c \in Bytes, ReversedLess(a, b), ReversedLess(b, c) PROVE ReversedLess(a, c)
  <2>1. Reverse(c) \in Bytes
    BY ReverseType
  <2> QED
    BY <1>1, <1>4, <2>1, LessTransitive DEF ReversedLess, Bytes
<1> QED
  BY <1>2, <1>3, <1>4

-----------------------------------------------------------------------------
\* How many tails of S come before t.
Earlier(S, t) == {u \in S : ReversedLess(u, t)}

\* Counting the tails before each numbers them without gaps.
LEMMA Ranks ==
    ASSUME NEW S \in SUBSET Bytes, IsFiniteSet(S)
    PROVE  /\ \A t \in S : Cardinality(Earlier(S, t)) \in 0..Cardinality(S) - 1
           /\ \A t, u \in S : Cardinality(Earlier(S, t)) = Cardinality(Earlier(S, u)) => t = u
           /\ \A n \in 1..Cardinality(S) : \E t \in S : Cardinality(Earlier(S, t)) = n - 1
<1> DEFINE R == {z \in S \X S : ReversedLess(z[1], z[2])}
<1>1. Orders(R, S)
  BY ReversedOrder DEF Orders
<1>2. \A t \in S : Earlier(S, t) = Below(R, S, t)
  BY DEF Earlier, Below
<1> HIDE DEF R
<1>3. /\ \A t \in S : Cardinality(Below(R, S, t)) \in 0..Cardinality(S) - 1
      /\ \A t, u \in S : Cardinality(Below(R, S, t)) = Cardinality(Below(R, S, u)) => t = u
      /\ \A n \in 1..Cardinality(S) : \E t \in S : Cardinality(Below(R, S, t)) = n - 1
  BY <1>1, Ranking
<1> QED
  BY <1>2, <1>3

\* Sorting: each place has a tail, and each tail a place.
LEMMA SortedTailsType ==
    ASSUME NEW S \in SUBSET Bytes, IsFiniteSet(S)
    PROVE  /\ SortedTails(S) \in Seq(Bytes) /\ Len(SortedTails(S)) = Cardinality(S)
           /\ \A t \in S : \E n \in 1..Cardinality(S) : SortedTails(S)[n] = t
<1>1. Cardinality(S) \in Nat
  BY FS_CardinalityType
<1>2. SortedTails(S) = [n \in 1..Cardinality(S) |-> CHOOSE t \in S : Cardinality(Earlier(S, t)) = n - 1]
  BY DEF SortedTails, Earlier
<1>3. \A n \in 1..Cardinality(S) : SortedTails(S)[n] \in S /\ Cardinality(Earlier(S, SortedTails(S)[n])) = n - 1
  BY <1>2, Ranks
<1>4. SortedTails(S) \in Seq(Bytes) /\ Len(SortedTails(S)) = Cardinality(S)
  BY <1>1, <1>2, <1>3
<1>5. ASSUME NEW t \in S PROVE \E n \in 1..Cardinality(S) : SortedTails(S)[n] = t
  <2> DEFINE r == Cardinality(Earlier(S, t))
  <2>1. r \in 0..Cardinality(S) - 1
    BY Ranks
  <2>2. r + 1 \in 1..Cardinality(S) /\ (r + 1) - 1 = r
    BY <1>1, <2>1
  <2>3. SortedTails(S)[r + 1] \in S /\ Cardinality(Earlier(S, SortedTails(S)[r + 1])) = r
    BY <1>3, <2>2
  <2>4. SortedTails(S)[r + 1] = t
    BY <2>3, Ranks
  <2> QED
    BY <2>2, <2>4
<1> QED
  BY <1>4, <1>5

\* A proper suffix is the end of the longer sequence.
LEMMA SuffixBytes ==
    ASSUME NEW a \in Bytes, NEW b \in Bytes, IsProperSuffix(a, b)
    PROVE  Len(a) <= Len(b) /\ \A n \in 1..Len(a) : b[Len(b) - Len(a) + n] = a[n]
<1> DEFINE ra == Reverse(a)
           rb == Reverse(b)
<1>1. ra \in Bytes /\ rb \in Bytes /\ Len(ra) = Len(a) /\ Len(rb) = Len(b) /\ Len(a) \in Nat /\ Len(b) \in Nat
  BY ReverseType DEF Bytes
<1>2. Len(a) <= Len(b) /\ SubSeq(ra, 1, Len(a)) = SubSeq(rb, 1, Len(a))
  BY <1>1 DEF IsProperSuffix, IsSuffix, IsPrefix
<1>3. ASSUME NEW n \in 1..Len(a) PROVE b[Len(b) - Len(a) + n] = a[n]
  <2> DEFINE k == Len(a) - n + 1
  <2>1. k \in 1..Len(a) /\ k \in 1..Len(b) /\ Len(a) - k + 1 = n /\ Len(b) - k + 1 = Len(b) - Len(a) + n
    BY <1>1, <1>2
  <2>2. ra[k] = a[n] /\ rb[k] = b[Len(b) - Len(a) + n]
    BY <2>1, ReverseType
  <2> HIDE DEF k, ra, rb
  <2>3. SubSeq(ra, 1, Len(a))[k] = ra[k] /\ SubSeq(rb, 1, Len(a))[k] = rb[k]
    BY <1>1, <1>2, <2>1 DEF Bytes
  <2> QED
    BY <1>2, <2>2, <2>3
<1> QED
  BY <1>2, <1>3

-----------------------------------------------------------------------------
\* A tail that has been placed can be read where it was placed.
Placed(d) ==
    /\ offset[d] + Len(distinct[d]) <= Len(pool)
    /\ \A n \in 1..Len(distinct[d]) : pool[offset[d] + n] = distinct[d][n]
Emission ==
    /\ tails \in Seq(Bytes) /\ distinct \in Seq(Bytes) /\ pool \in Bytes
    /\ \A m \in 1..Len(tails) : \E d \in 1..Len(distinct) : distinct[d] = tails[m]
    /\ offset \in [1..Len(distinct) -> Nat]
    /\ left \in 0..Len(distinct)
    /\ prev \in 0..Len(distinct) /\ (prev # 0 => prev > left)
    /\ \A d \in left + 1..Len(distinct) : Placed(d)
TailsInv ==
    /\ tpc \in {"none", "emit", "ready"}
    /\ tpc # "none" => Emission
    /\ tpc = "ready" => left = 0

LEMMA InitTails == TailsInit => TailsInv
  BY DEF TailsInit, TailsInv

\* The tails of a list are finitely many.
LEMMA ToSetFinite ==
    ASSUME NEW T \in Seq(Bytes)
    PROVE  IsFiniteSet(ToSet(T)) /\ ToSet(T) \in SUBSET Bytes
<1>1. Len(T) \in Nat /\ DOMAIN T = 1..Len(T) /\ \A n \in 1..Len(T) : T[n] \in Bytes
  OBVIOUS
<1>2. T \in Surjection(1..Len(T), ToSet(T))
  BY <1>1 DEF Surjection, ToSet
<1>3. IsFiniteSet(1..Len(T))
  BY <1>1, FS_Interval
<1>4. IsFiniteSet(ToSet(T))
  BY <1>2, <1>3, FS_Surjection
<1> QED
  BY <1>1, <1>4 DEF ToSet

LEMMA BuildPoolKeeps ==
    ASSUME NEW T \in TailLists, BuildPool(T)
    PROVE  TailsInv'
<1>1. T \in Seq(Bytes)
  BY TailListsAssumption DEF Bytes
<1> DEFINE S == ToSet(T)
<1>2. IsFiniteSet(S) /\ S \in SUBSET Bytes
  BY <1>1, ToSetFinite
<1>3. /\ tpc' = "emit" /\ tails' = T /\ distinct' = SortedTails(S) /\ offset' = [d \in 1..Cardinality(S) |-> 0]
      /\ pool' = <<>> /\ left' = Cardinality(S) /\ prev' = 0
  BY DEF BuildPool
<1>4. \A m \in 1..Len(T) : T[m] \in S
  BY <1>1 DEF ToSet
<1>5. Cardinality(S) \in Nat
  BY <1>2, FS_CardinalityType
<1> HIDE DEF S
<1>6. /\ SortedTails(S) \in Seq(Bytes) /\ Len(SortedTails(S)) = Cardinality(S)
      /\ \A t \in S : \E n \in 1..Cardinality(S) : SortedTails(S)[n] = t
  BY <1>2, SortedTailsType
<1>7. tails' \in Seq(Bytes) /\ distinct' \in Seq(Bytes) /\ pool' \in Bytes
  BY <1>1, <1>3, <1>6 DEF Bytes
<1>8. \A m \in 1..Len(tails') : \E d \in 1..Len(distinct') : distinct'[d] = tails'[m]
  BY <1>3, <1>4, <1>6
<1>9. offset' \in [1..Len(distinct') -> Nat] /\ left' \in 0..Len(distinct') /\ prev' \in 0..Len(distinct') /\ prev' = 0
  BY <1>3, <1>5, <1>6
<1>10. \A d \in left' + 1..Len(distinct') : FALSE
  BY <1>3, <1>5, <1>6
<1>11. Emission'
  BY <1>7, <1>8, <1>9, <1>10 DEF Emission
<1> QED
  BY <1>3, <1>11 DEF TailsInv

\* A tail that was placed stays so while another is, and the pool grows at its end.
LEMMA StaysPlaced ==
    ASSUME Emission, left > 0, UNCHANGED distinct, NEW added \in Bytes, pool' = pool \o added,
           NEW o \in Nat, offset' = [offset EXCEPT ![left] = o]
    PROVE  \A d \in left + 1..Len(distinct) : Placed(d)'
<1> SUFFICES ASSUME NEW d \in left + 1..Len(distinct) PROVE Placed(d)'
  OBVIOUS
<1>1. /\ d \in 1..Len(distinct) /\ d # left /\ left \in Nat
      /\ pool \in Bytes /\ distinct \in Seq(Bytes) /\ offset \in [1..Len(distinct) -> Nat] /\ Placed(d)
  BY DEF Emission
<1>2. offset'[d] = offset[d] /\ offset[d] \in Nat
  BY <1>1
<1>3. /\ Len(pool') = Len(pool) + Len(added) /\ Len(pool) \in Nat /\ Len(added) \in Nat
      /\ \A n \in 1..Len(pool) : pool'[n] = pool[n]
  BY <1>1, ConcatProperties DEF Bytes
<1>4. Len(distinct[d]) \in Nat
  BY <1>1 DEF Bytes
<1>5. offset[d] + Len(distinct[d]) <= Len(pool')
  BY <1>1, <1>2, <1>3, <1>4 DEF Placed
<1>6. \A n \in 1..Len(distinct[d]) : pool'[offset[d] + n] = distinct[d][n]
  <2> SUFFICES ASSUME NEW n \in 1..Len(distinct[d]) PROVE pool'[offset[d] + n] = distinct[d][n]
    OBVIOUS
  <2>1. offset[d] + n \in 1..Len(pool)
    BY <1>1, <1>2, <1>3, <1>4 DEF Placed
  <2> QED
    BY <1>1, <1>3, <2>1 DEF Placed
<1> QED
  BY <1>2, <1>5, <1>6 DEF Placed

\* A turn of the loop, of either kind.
LEMMA EmitTailKeeps ==
    ASSUME TailsInv, EmitTail
    PROVE  TailsInv'
<1>1. /\ Emission /\ tpc = "emit" /\ tpc' = "emit" /\ left > 0 /\ left' = left - 1
      /\ tails' = tails /\ distinct' = distinct
  BY DEF EmitTail, TailsInv
<1>2. /\ distinct \in Seq(Bytes) /\ pool \in Bytes /\ offset \in [1..Len(distinct) -> Nat]
      /\ left \in 1..Len(distinct) /\ prev \in 0..Len(distinct) /\ (prev # 0 => prev > left)
      /\ \A d \in left + 1..Len(distinct) : Placed(d)
  BY <1>1 DEF Emission
<1>3. /\ distinct[left] \in Bytes /\ Len(distinct[left]) \in Nat /\ Len(pool) \in Nat /\ Len(distinct) \in Nat
  BY <1>2 DEF Bytes
<1>4. ASSUME NEW added \in Bytes, pool' = pool \o added, NEW o \in Nat, offset' = [offset EXCEPT ![left] = o],
             prev' \in {prev, left}, o + Len(distinct[left]) <= Len(pool'),
             \A n \in 1..Len(distinct[left]) : pool'[o + n] = distinct[left][n]
      PROVE  TailsInv'
  <2>1. \A d \in left + 1..Len(distinct) : Placed(d)'
    BY <1>1, <1>4, StaysPlaced
  <2>2. \A d \in left' + 1..Len(distinct') : Placed(d)'
    <3> SUFFICES ASSUME NEW d \in left' + 1..Len(distinct') PROVE Placed(d)'
      OBVIOUS
    <3>1. d = left \/ d \in left + 1..Len(distinct)
      BY <1>1, <1>2, <1>3
    <3>2. CASE d = left
      <4>1. offset'[d] = o
        BY <1>2, <1>4, <3>2
      <4>2. distinct'[d] = distinct[left]
        BY <1>1, <3>2
      <4>3. o + Len(distinct'[d]) <= Len(pool') /\ \A n \in 1..Len(distinct'[d]) : pool'[o + n] = distinct'[d][n]
        BY <1>4, <4>2
      <4> QED
        BY <4>1, <4>3 DEF Placed
    <3>3. CASE d \in left + 1..Len(distinct)
      BY <2>1, <3>3
    <3> QED
      BY <3>1, <3>2, <3>3
  <2>3. pool' \in Bytes /\ offset' \in [1..Len(distinct') -> Nat]
    BY <1>1, <1>2, <1>4, ConcatProperties DEF Bytes
  <2>4. left' \in 0..Len(distinct') /\ prev' \in 0..Len(distinct') /\ (prev' # 0 => prev' > left')
    BY <1>1, <1>2, <1>3, <1>4
  <2>5. tails' \in Seq(Bytes) /\ distinct' \in Seq(Bytes)
        /\ \A m \in 1..Len(tails') : \E d \in 1..Len(distinct') : distinct'[d] = tails'[m]
    BY <1>1 DEF Emission
  <2>6. Emission'
    BY <2>2, <2>3, <2>4, <2>5 DEF Emission
  <2> QED
    BY <1>1, <2>6 DEF TailsInv
<1>5. CASE prev # 0 /\ IsProperSuffix(distinct[left], distinct[prev])
  <2> DEFINE lead == Len(distinct[prev]) - Len(distinct[left])
             o == offset[prev] + lead
  <2>1. prev \in left + 1..Len(distinct) /\ prev \in 1..Len(distinct)
    BY <1>2, <1>3, <1>5
  <2>2. distinct[prev] \in Bytes /\ Len(distinct[prev]) \in Nat /\ offset[prev] \in Nat
    <3>1. distinct[prev] \in Bytes
      BY <1>2, <2>1
    <3>2. Len(distinct[prev]) \in Nat
      BY <3>1 DEF Bytes
    <3>3. offset[prev] \in Nat
      BY <1>2, <2>1
    <3> QED
      BY <3>1, <3>2, <3>3
  <2>3. Len(distinct[left]) <= Len(distinct[prev])
        /\ \A n \in 1..Len(distinct[left]) : distinct[prev][lead + n] = distinct[left][n]
    BY <1>3, <1>5, <2>2, SuffixBytes
  <2>4. lead \in Nat /\ o \in Nat /\ o + Len(distinct[left]) = offset[prev] + Len(distinct[prev])
    <3>1. \A x, y, z \in Nat : x <= y => /\ y - x \in Nat /\ z + (y - x) \in Nat /\ (z + (y - x)) + x = z + y
      OBVIOUS
    <3>2. Len(distinct[left]) \in Nat /\ Len(distinct[prev]) \in Nat /\ offset[prev] \in Nat
      BY <1>3, <2>2
    <3> HIDE DEF lead, o
    <3>3. Len(distinct[left]) <= Len(distinct[prev])
      BY <2>3
    <3> QED
      BY <3>1, <3>2, <3>3 DEF lead, o
  <2>5. offset' = [offset EXCEPT ![left] = o] /\ pool' = pool /\ prev' = prev
    <3>1. PlaceInside(prev, distinct[left]) = o
      BY <1>3, <2>2 DEF PlaceInside
    <3> QED
      BY <1>5, <3>1 DEF EmitTail
  <2>6. Placed(prev)
    BY <1>2, <2>1
  <2> HIDE DEF lead, o
  <2>7. /\ o + Len(distinct[left]) <= Len(pool')
        /\ \A n \in 1..Len(distinct[left]) : pool'[o + n] = distinct[left][n]
    <3>2. \A n \in 1..Len(distinct[left]) : pool[o + n] = distinct[left][n]
      <4> SUFFICES ASSUME NEW n \in 1..Len(distinct[left]) PROVE pool[o + n] = distinct[left][n]
        OBVIOUS
      <4>1. lead + n \in 1..Len(distinct[prev]) /\ o + n = offset[prev] + (lead + n)
        <5>1. \A x, y, z \in Nat : \A i \in 1..x : x <= y => /\ (y - x) + i \in 1..y
                                                              /\ (z + (y - x)) + i = z + ((y - x) + i)
          OBVIOUS
        <5>2. Len(distinct[left]) \in Nat /\ Len(distinct[prev]) \in Nat /\ offset[prev] \in Nat
          BY <1>3, <2>2
        <5>3. Len(distinct[left]) <= Len(distinct[prev])
          BY <2>3
        <5> QED
          BY <5>1, <5>2, <5>3 DEF lead, o
      <4>2. pool[offset[prev] + (lead + n)] = distinct[prev][lead + n]
        BY <2>6, <4>1 DEF Placed
      <4> QED
        BY <2>3, <4>1, <4>2
    <3>3. o + Len(distinct[left]) <= Len(pool)
      BY <2>4, <2>6 DEF Placed
    <3> QED
      BY <2>5, <3>2, <3>3
  <2>8. <<>> \in Bytes /\ pool' = pool \o <<>>
    BY <1>2, <2>5, ConcatEmptySeq DEF Bytes
  <2> QED
    BY <1>4, <2>4, <2>5, <2>7, <2>8
<1>6. CASE ~(prev # 0 /\ IsProperSuffix(distinct[left], distinct[prev]))
  <2>1. offset' = [offset EXCEPT ![left] = Len(pool)] /\ pool' = pool \o distinct[left] /\ prev' = left
    BY <1>6 DEF EmitTail
  <2>2. /\ Len(pool') = Len(pool) + Len(distinct[left])
        /\ \A n \in 1..Len(pool) + Len(distinct[left]) :
               pool'[n] = IF n <= Len(pool) THEN pool[n] ELSE distinct[left][n - Len(pool)]
    BY <1>2, <1>3, <2>1, ConcatProperties DEF Bytes
  <2>3. \A n \in 1..Len(distinct[left]) : pool'[Len(pool) + n] = distinct[left][n]
    <3> SUFFICES ASSUME NEW n \in 1..Len(distinct[left]) PROVE pool'[Len(pool) + n] = distinct[left][n]
      OBVIOUS
    <3>1. Len(pool) + n \in 1..Len(pool) + Len(distinct[left]) /\ ~(Len(pool) + n <= Len(pool))
          /\ (Len(pool) + n) - Len(pool) = n
      BY <1>3
    <3> QED
      BY <2>2, <3>1
  <2>4. Len(pool) + Len(distinct[left]) <= Len(pool')
    BY <1>3, <2>2
  <2> QED
    BY <1>3, <1>4, <2>1, <2>3, <2>4
<1> QED
  BY <1>5, <1>6

LEMMA NextTails == TailsInv /\ [TailsNext]_tailVars => TailsInv'
<1> SUFFICES ASSUME TailsInv, [TailsNext]_tailVars PROVE TailsInv'
  OBVIOUS
<1>1. CASE \E T \in TailLists : BuildPool(T)
  BY <1>1, BuildPoolKeeps
<1>2. CASE EmitTail
  BY <1>2, EmitTailKeeps
<1>3. CASE PoolDone
  BY <1>3 DEF PoolDone, TailsInv, Emission, Placed
<1>4. CASE UNCHANGED tailVars
  BY <1>4 DEF tailVars, TailsInv, Emission, Placed
<1> QED
  BY <1>1, <1>2, <1>3, <1>4 DEF TailsNext

\* A finished pool: tp2_tailpool_ref finds an offset where the tail can be read.
LEMMA ReferenceLeads ==
    ASSUME TailsInv, tpc = "ready", NEW m \in DOMAIN tails
    PROVE  TailBytes(TailRef(m)) = tails[m]
<1>1. Emission /\ left = 0
  BY DEF TailsInv
<1>2. /\ tails \in Seq(Bytes) /\ distinct \in Seq(Bytes) /\ pool \in Bytes /\ offset \in [1..Len(distinct) -> Nat]
      /\ m \in 1..Len(tails) /\ DOMAIN distinct = 1..Len(distinct) /\ tails[m] \in Bytes
  BY <1>1 DEF Emission
<1> DEFINE d == CHOOSE e \in DOMAIN distinct : distinct[e] = tails[m]
<1>3. d \in 1..Len(distinct) /\ distinct[d] = tails[m]
  BY <1>1, <1>2 DEF Emission
<1>4. TailRef(m) = [offset |-> offset[d], length |-> Len(distinct[d])]
  BY DEF TailRef
<1> HIDE DEF d
<1>5. Placed(d)
  BY <1>1, <1>3 DEF Emission
<1>6. offset[d] \in Nat /\ Len(tails[m]) \in Nat /\ Len(pool) \in Nat
  <2>1. offset[d] \in Nat
    BY <1>2, <1>3
  <2>2. Len(tails[m]) \in Nat /\ Len(pool) \in Nat
    BY <1>2 DEF Bytes
  <2> QED
    BY <2>1, <2>2
<1>7. TailBytes(TailRef(m)) = SubSeq(pool, offset[d] + 1, offset[d] + Len(tails[m]))
  <2>1. TailRef(m).offset = offset[d] /\ TailRef(m).length = Len(distinct[d])
    BY <1>4
  <2>2. TailBytes(TailRef(m)) = SubSeq(pool, TailRef(m).offset + 1, TailRef(m).offset + TailRef(m).length)
    BY DEF TailBytes
  <2> QED
    BY <1>3, <2>1, <2>2, Zenon
<1> DEFINE a == offset[d] + 1
           b == offset[d] + Len(tails[m])
<1>8. a \in Int /\ b \in Int /\ a \in Nat /\ b <= Len(pool) /\ b - a + 1 = Len(tails[m])
      /\ (IF a <= b THEN b - a + 1 ELSE 0) = Len(tails[m])
  BY <1>3, <1>5, <1>6 DEF Placed
<1>9. \A n \in a..b : pool[n] \in Nat
  <2> SUFFICES ASSUME NEW n \in a..b PROVE pool[n] \in Nat
    OBVIOUS
  <2>1. n \in 1..Len(pool)
    <3>1. \A x \in Nat : \A y \in Int : \A z \in Nat : y <= z => \A i \in x + 1..y : i \in 1..z
      OBVIOUS
    <3>2. offset[d] \in Nat /\ b \in Int /\ Len(pool) \in Nat /\ b <= Len(pool)
      BY <1>6, <1>8
    <3> HIDE DEF b
    <3> QED
      BY <3>1, <3>2
  <2> QED
    BY <1>2, <2>1 DEF Bytes
<1>10. \A n \in 1..Len(tails[m]) : pool[a + n - 1] = tails[m][n]
  <2> SUFFICES ASSUME NEW n \in 1..Len(tails[m]) PROVE pool[a + n - 1] = tails[m][n]
    OBVIOUS
  <2>1. a + n - 1 = offset[d] + n
    BY <1>6
  <2> QED
    BY <1>3, <1>5, <2>1 DEF Placed
<1> HIDE DEF a, b
<1>11. /\ SubSeq(pool, a, b) \in Seq(Nat) /\ Len(SubSeq(pool, a, b)) = Len(tails[m])
       /\ \A n \in 1..Len(tails[m]) : SubSeq(pool, a, b)[n] = pool[a + n - 1]
  BY <1>8, <1>9, SubSeqProperties
<1>12. SubSeq(pool, a, b) = tails[m]
  <2>1. tails[m] \in Seq(Nat)
    BY <1>2 DEF Bytes
  <2>2. \A n \in 1..Len(SubSeq(pool, a, b)) : SubSeq(pool, a, b)[n] = tails[m][n]
    BY <1>10, <1>11
  <2> QED
    BY <1>11, <2>1, <2>2, SeqEqual
<1> QED
  BY <1>7, <1>12 DEF a, b

-----------------------------------------------------------------------------
THEOREM PoolKept == TailsSpec => []TailsInv
<1> QED
  BY InitTails, NextTails, PTL DEF TailsSpec

\* Every reference into the pool that tp2_tailpool_build makes leads to the bytes of
\* its tail, for every list of tails, merged or not, repeated or not.
THEOREM RefsAlwaysLead == TailsSpec => []RefsLead
<1>1. TailsInv => RefsLead
  BY ReferenceLeads DEF RefsLead
<1> QED
  BY <1>1, PoolKept, PTL

-----------------------------------------------------------------------------
(***************************************************************************)
(* The pool is minimal.  In the order of reversed bytes the tails that end *)
(* with a tail t follow t without a gap, so when t ends another tail it    *)
(* ends the next one that is whole, and that is the last one written out.  *)
(***************************************************************************)

\* What a suffix is in the reversed bytes.
Begins(a, b) == Len(a) <= Len(b) /\ \A n \in 1..Len(a) : a[n] = b[n]

LEMMA SuffixIsBeginning ==
    ASSUME NEW a \in Bytes, NEW b \in Bytes
    PROVE  IsSuffix(a, b) <=> Begins(Reverse(a), Reverse(b))
<1> DEFINE ra == Reverse(a)
           rb == Reverse(b)
<1>1. ra \in Bytes /\ rb \in Bytes /\ Len(ra) \in Nat /\ Len(rb) \in Nat
  BY ReverseType DEF Bytes
<1>2. IsSuffix(a, b) <=> Len(ra) <= Len(rb) /\ SubSeq(ra, 1, Len(ra)) = SubSeq(rb, 1, Len(ra))
  BY DEF IsSuffix, IsPrefix
<1> HIDE DEF ra, rb
<1>3. ASSUME Len(ra) <= Len(rb)
      PROVE  SubSeq(ra, 1, Len(ra)) = SubSeq(rb, 1, Len(ra)) <=> \A n \in 1..Len(ra) : ra[n] = rb[n]
  <2>1. \A n \in 1..Len(ra) : ra[n] \in Nat /\ rb[n] \in Nat
    BY <1>1, <1>3 DEF Bytes
  <2>2. /\ SubSeq(ra, 1, Len(ra)) \in Seq(Nat) /\ Len(SubSeq(ra, 1, Len(ra))) = Len(ra)
        /\ \A n \in 1..Len(ra) : SubSeq(ra, 1, Len(ra))[n] = ra[n]
    BY <1>1, <2>1 DEF Bytes
  <2>3. /\ SubSeq(rb, 1, Len(ra)) \in Seq(Nat) /\ Len(SubSeq(rb, 1, Len(ra))) = Len(ra)
        /\ \A n \in 1..Len(ra) : SubSeq(rb, 1, Len(ra))[n] = rb[n]
    BY <1>1, <1>3, <2>1 DEF Bytes
  <2> DEFINE u == SubSeq(ra, 1, Len(ra))
             v == SubSeq(rb, 1, Len(ra))
  <2>4. u \in Seq(Nat) /\ v \in Seq(Nat) /\ Len(u) = Len(v)
    BY <2>2, <2>3
  <2>5. (\A n \in 1..Len(ra) : ra[n] = rb[n]) => \A n \in 1..Len(u) : u[n] = v[n]
    BY <2>2, <2>3
  <2>6. (\A n \in 1..Len(u) : u[n] = v[n]) => u = v
    <3> HIDE DEF u, v
    <3> QED
      BY <2>4, SeqEqual
  <2> QED
    BY <2>2, <2>3, <2>5, <2>6
<1> QED
  BY <1>2, <1>3 DEF Begins, ra, rb

\* A tail that another one ends with comes before it.
LEMMA SuffixIsLess ==
    ASSUME NEW a \in Bytes, NEW b \in Bytes, IsProperSuffix(a, b)
    PROVE  ReversedLess(a, b)
<1> DEFINE ra == Reverse(a)
           rb == Reverse(b)
<1>1. ra \in Bytes /\ rb \in Bytes /\ ra # rb /\ Begins(ra, rb)
  BY ReverseType, ReverseInjective, SuffixIsBeginning DEF IsProperSuffix
<1> HIDE DEF ra, rb
<1>2. Len(ra) \in Nat /\ Len(rb) \in Nat
  BY <1>1 DEF Bytes
<1>3. Len(ra) # Len(rb)
  <2> SUFFICES ASSUME Len(ra) = Len(rb) PROVE ra = rb
    BY <1>1
  <2> QED
    BY <1>1, SeqEqual DEF Begins, Bytes
<1>4. KeyLess(ra, rb)
  BY <1>1, <1>2, <1>3 DEF KeyLess, Begins
<1> QED
  BY <1>4 DEF ReversedLess, ra, rb

\* What lies between a tail and one that ends with it ends with it as well.
LEMMA SuffixConvex ==
    ASSUME NEW a \in Bytes, NEW b \in Bytes, NEW c \in Bytes,
           IsSuffix(a, c), ReversedLess(a, b), b = c \/ ReversedLess(b, c)
    PROVE  IsProperSuffix(a, b)
<1> DEFINE ra == Reverse(a)
           rb == Reverse(b)
           rc == Reverse(c)
<1>1. /\ ra \in Bytes /\ rb \in Bytes /\ rc \in Bytes /\ Begins(ra, rc) /\ KeyLess(ra, rb)
      /\ rb = rc \/ KeyLess(rb, rc)
  BY ReverseType, SuffixIsBeginning DEF ReversedLess
<1>2. a # b
  BY ReversedOrder
<1>3. Begins(ra, rb)
  <2> HIDE DEF ra, rb, rc
  <2>1. Len(ra) \in Nat /\ Len(rb) \in Nat /\ Len(rc) \in Nat
    BY <1>1 DEF Bytes
  <2>2. PICK n \in 0..Len(ra) : n < Len(rb) /\ (\A i \in 1..n : ra[i] = rb[i]) /\ (n = Len(ra) \/ ra[n + 1] < rb[n + 1])
    BY <1>1 DEF KeyLess
  <2>3. CASE n = Len(ra)
    BY <2>1, <2>2, <2>3 DEF Begins
  <2>4. CASE n # Len(ra)
    <3>1. n + 1 \in 1..Len(ra) /\ n < Len(rc) /\ n \in 0..Len(rc)
      BY <1>1, <2>1, <2>2, <2>4 DEF Begins
    <3>2. (\A i \in 1..n : rc[i] = rb[i]) /\ rc[n + 1] < rb[n + 1]
      BY <1>1, <2>1, <2>2, <2>4, <3>1 DEF Begins
    <3>3. KeyLess(rc, rb)
      BY <2>2, <3>1, <3>2 DEF KeyLess
    <3> QED
      BY <1>1, <3>3, LessIrreflexive, LessTransitive DEF Bytes
  <2> QED
    BY <2>3, <2>4
<1> QED
  BY <1>2, <1>3, SuffixIsBeginning DEF IsProperSuffix

\* The sorted tails are the tails, each once, and the places follow the order.
LEMMA SortedTailsOrder ==
    ASSUME NEW S \in SUBSET Bytes, IsFiniteSet(S)
    PROVE  /\ \A n \in 1..Cardinality(S) : SortedTails(S)[n] \in S
           /\ \A m, n \in 1..Cardinality(S) : m < n <=> ReversedLess(SortedTails(S)[m], SortedTails(S)[n])
<1> DEFINE D == SortedTails(S)
<1>1. Cardinality(S) \in Nat
  BY FS_CardinalityType
<1>2. \A n \in 1..Cardinality(S) : D[n] \in S /\ Cardinality(Earlier(S, D[n])) = n - 1
  <2>1. D = [n \in 1..Cardinality(S) |-> CHOOSE t \in S : Cardinality(Earlier(S, t)) = n - 1]
    BY DEF SortedTails, Earlier
  <2> QED
    BY <2>1, Ranks
<1> HIDE DEF D
<1>3. ASSUME NEW m \in 1..Cardinality(S), NEW n \in 1..Cardinality(S), ReversedLess(D[m], D[n])
      PROVE  m < n
  <2>1. D[m] \in S /\ D[n] \in S /\ D[m] \in Bytes /\ D[n] \in Bytes
    BY <1>2
  <2>2. Earlier(S, D[m]) \in SUBSET Earlier(S, D[n])
    BY <1>3, <2>1, ReversedOrder DEF Earlier
  <2>3. D[m] \in Earlier(S, D[n]) /\ D[m] \notin Earlier(S, D[m])
    BY <1>3, <2>1, ReversedOrder DEF Earlier
  <2>4. IsFiniteSet(Earlier(S, D[n])) /\ IsFiniteSet(Earlier(S, D[m]))
    <3>1. Earlier(S, D[n]) \in SUBSET S /\ Earlier(S, D[m]) \in SUBSET S
      BY DEF Earlier
    <3> QED
      BY <3>1, FS_Subset
  <2>5. Cardinality(Earlier(S, D[m])) < Cardinality(Earlier(S, D[n]))
    <3>1. Earlier(S, D[m]) # Earlier(S, D[n])
      BY <2>3
    <3>2. /\ Cardinality(Earlier(S, D[m])) <= Cardinality(Earlier(S, D[n]))
          /\ Cardinality(Earlier(S, D[m])) # Cardinality(Earlier(S, D[n]))
      BY <2>2, <2>4, <3>1, FS_Subset
    <3>3. Cardinality(Earlier(S, D[m])) \in Nat /\ Cardinality(Earlier(S, D[n])) \in Nat
      BY <2>4, FS_CardinalityType
    <3> QED
      BY <3>2, <3>3
  <2> QED
    BY <1>2, <2>5
<1>4. ASSUME NEW m \in 1..Cardinality(S), NEW n \in 1..Cardinality(S), m < n
      PROVE  ReversedLess(D[m], D[n])
  <2>1. D[m] \in Bytes /\ D[n] \in Bytes /\ D[m] # D[n]
    BY <1>2, <1>4
  <2>2. ~ReversedLess(D[n], D[m])
    BY <1>3, <1>4
  <2> QED
    BY <2>1, <2>2, ReversedOrder
<1> QED
  BY <1>2, <1>3, <1>4 DEF D

-----------------------------------------------------------------------------
\* The tails that no other one ends with, and those of them that come after t.
Whole(S) == {t \in S : ~\E u \in S : IsProperSuffix(t, u)}
After(S, t) == {u \in S : ReversedLess(t, u)}

\* The first m whole tails from the last on.
Descending(S, m) ==
    [n \in 1..m |-> CHOOSE t \in Whole(S) : Cardinality(After(Whole(S), t)) = n - 1]

\* Where there is a gap in the whole tails, there is none in the tails that end with t.
LEMMA NextWhole ==
    ASSUME NEW S \in SUBSET Bytes, IsFiniteSet(S), NEW l \in 1..Cardinality(S), NEW p \in 0..Cardinality(S),
           p = 0 \/ (p > l /\ SortedTails(S)[p] \in Whole(S)),
           \A n \in l + 1..Cardinality(S) : (p = 0 \/ n < p) => SortedTails(S)[n] \notin Whole(S)
    PROVE  SortedTails(S)[l] \in Whole(S)
               <=> ~(p # 0 /\ IsProperSuffix(SortedTails(S)[l], SortedTails(S)[p]))
<1> DEFINE D == SortedTails(S)
           c == Cardinality(S)
           a == D[l]
           E == {n \in Nat : n < c /\ IsProperSuffix(a, D[c - n])}
<1>1. /\ c \in Nat /\ (\A n \in 1..c : D[n] \in S /\ D[n] \in Bytes)
      /\ \A m, n \in 1..c : m < n <=> ReversedLess(D[m], D[n])
  BY FS_CardinalityType, SortedTailsOrder
<1>2. \A t \in S : \E n \in 1..c : D[n] = t
  BY SortedTailsType
<1>3. /\ p = 0 \/ (p > l /\ D[p] \in Whole(S))
      /\ \A n \in l + 1..c : (p = 0 \/ n < p) => D[n] \notin Whole(S)
  OBVIOUS
<1> HIDE DEF D
<1>4. SUFFICES a \in Whole(S) <=> ~(p # 0 /\ IsProperSuffix(a, D[p]))
  BY DEF D
<1>5. ASSUME p # 0, IsProperSuffix(a, D[p]) PROVE a \notin Whole(S)
  BY <1>1, <1>5 DEF Whole
<1>6. ASSUME a \notin Whole(S) PROVE p # 0 /\ IsProperSuffix(a, D[p])
  <2>1. PICK u \in S : IsProperSuffix(a, u)
    BY <1>1, <1>6 DEF Whole
  <2>2. PICK k \in 1..c : D[k] = u
    BY <1>2
  <2>3. c - k \in E
    <3>1. c - k \in Nat /\ c - k < c /\ c - (c - k) = k
      BY <1>1
    <3> QED
      BY <2>1, <2>2, <3>1
  <2>4. PICK e \in E : \A n \in E : e <= n
    <3>1. E \in SUBSET Nat /\ E # {}
      BY <2>3
    <3> HIDE DEF E
    <3> QED
      BY <3>1, LeastElement
  <2> DEFINE w == c - e
  <2>5. w \in 1..c /\ D[w] \in Bytes /\ a \in Bytes /\ IsProperSuffix(a, D[w])
    BY <1>1
  <2>6. l < w
    BY <1>1, <2>5, SuffixIsLess
  <2>7. D[w] \in Whole(S)
    <3> SUFFICES ASSUME NEW v \in S, IsProperSuffix(D[w], v) PROVE FALSE
      BY <1>1, <2>5 DEF Whole
    <3>1. PICK x \in 1..c : D[x] = v
      BY <1>2
    <3>2. v \in Bytes /\ w < x
      BY <1>1, <2>5, <3>1, SuffixIsLess
    <3>3. IsProperSuffix(a, v)
      <4>1. IsSuffix(a, D[w]) /\ IsSuffix(D[w], v)
        BY <2>5 DEF IsProperSuffix
      <4>2. Begins(Reverse(a), Reverse(D[w])) /\ Begins(Reverse(D[w]), Reverse(v))
        BY <2>5, <3>2, <4>1, SuffixIsBeginning
      <4>3. Len(Reverse(a)) \in Nat /\ Len(Reverse(D[w])) \in Nat /\ Len(Reverse(v)) \in Nat
        BY <2>5, <3>2, ReverseType DEF Bytes
      <4>4. Begins(Reverse(a), Reverse(v))
        BY <4>2, <4>3 DEF Begins
      <4>5. a # v
        BY <1>1, <2>5, <2>6, <3>1, <3>2, ReversedOrder
      <4> QED
        BY <2>5, <3>2, <4>4, <4>5, SuffixIsBeginning DEF IsProperSuffix
    <3>4. c - x \in E /\ c - x < e
      <4>1. c - x \in Nat /\ c - x < c /\ c - (c - x) = x /\ e \in Nat
        BY <1>1
      <4>2. IsProperSuffix(a, D[c - (c - x)])
        BY <3>1, <3>3, <4>1
      <4>3. c - x < e
        BY <1>1, <3>2, <4>1
      <4> HIDE DEF a, w
      <4> QED
        BY <4>1, <4>2, <4>3
    <3> QED
      BY <2>4, <3>4
  <2>8. p # 0 /\ l < p /\ p <= w /\ p \in 1..c
    BY <1>1, <1>3, <2>5, <2>6, <2>7
  <2>9. ReversedLess(a, D[p]) /\ (D[p] = D[w] \/ ReversedLess(D[p], D[w]))
    BY <1>1, <2>5, <2>8
  <2>10. IsProperSuffix(a, D[p])
    BY <1>1, <2>5, <2>8, <2>9, SuffixConvex DEF IsProperSuffix
  <2> QED
    BY <2>8, <2>10
<1> QED
  BY <1>5, <1>6

\* One more of the whole tails.
LEMMA DescendingStep ==
    ASSUME NEW S \in SUBSET Bytes, IsFiniteSet(S), NEW m \in Nat, NEW t \in Whole(S),
           Cardinality(After(Whole(S), t)) = m, Descending(S, m) \in Seq(Bytes)
    PROVE  /\ Descending(S, m + 1) = Append(Descending(S, m), t)
           /\ Descending(S, m + 1) \in Seq(Bytes)
<1> DEFINE W == Whole(S)
           chosen(n) == CHOOSE u \in W : Cardinality(After(W, u)) = n - 1
<1>1. W \in SUBSET S /\ W \in SUBSET Bytes /\ IsFiniteSet(W) /\ t \in Bytes
  <2>1. W \in SUBSET S
    BY DEF Whole
  <2> QED
    BY <2>1, FS_Subset
<1> HIDE DEF W
<1>2. ASSUME NEW u \in W, NEW v \in W, ReversedLess(u, v)
      PROVE  Cardinality(After(W, u)) # Cardinality(After(W, v))
  <2>1. After(W, v) \in SUBSET After(W, u)
    BY <1>1, <1>2, ReversedOrder DEF After
  <2>2. v \in After(W, u) /\ v \notin After(W, v)
    BY <1>1, <1>2, ReversedOrder DEF After
  <2>3. IsFiniteSet(After(W, u))
    <3>1. After(W, u) \in SUBSET W
      BY DEF After
    <3> QED
      BY <1>1, <3>1, FS_Subset
  <2>4. After(W, v) # After(W, u)
    BY <2>2
  <2> QED
    BY <2>1, <2>3, <2>4, FS_Subset
<1>3. \A u, v \in W : Cardinality(After(W, u)) = Cardinality(After(W, v)) => u = v
  <2> SUFFICES ASSUME NEW u \in W, NEW v \in W, u # v
               PROVE  Cardinality(After(W, u)) # Cardinality(After(W, v))
    OBVIOUS
  <2>1. ReversedLess(u, v) \/ ReversedLess(v, u)
    BY <1>1, ReversedOrder
  <2> QED
    BY <1>2, <2>1
<1>4. chosen(m + 1) = t
  <2>1. t \in W /\ Cardinality(After(W, t)) = (m + 1) - 1
    BY DEF W
  <2>2. \A u \in W : Cardinality(After(W, u)) = (m + 1) - 1 => u = t
    BY <1>3, <2>1
  <2> QED
    BY <2>1, <2>2
<1>5. /\ Descending(S, m) = [n \in 1..m |-> chosen(n)]
      /\ Descending(S, m + 1) = [n \in 1..m + 1 |-> chosen(n)]
  BY DEF Descending, W
<1> HIDE DEF chosen
<1>6. Len(Descending(S, m)) = m /\ \A n \in 1..m : chosen(n) \in Bytes
  <2>1. DOMAIN Descending(S, m) = 1..m
    BY <1>5
  <2>2. Len(Descending(S, m)) = m
    BY <2>1
  <2> QED
    BY <1>5, <2>2
<1>7. Descending(S, m + 1) \in Seq(Bytes)
  <2>1. \A n \in 1..m + 1 : chosen(n) \in Bytes
    BY <1>1, <1>4, <1>6
  <2> QED
    BY <1>5, <2>1
<1>8. Append(Descending(S, m), t) \in Seq(Bytes) /\ Len(Append(Descending(S, m), t)) = m + 1
  BY <1>1, <1>6
<1>9. \A n \in 1..m + 1 : Append(Descending(S, m), t)[n] = Descending(S, m + 1)[n]
  BY <1>1, <1>4, <1>5, <1>6
<1>10. Len(Descending(S, m + 1)) = m + 1
  <2>1. DOMAIN Descending(S, m + 1) = 1..m + 1 /\ m + 1 \in Nat
    BY <1>5
  <2> QED
    BY <1>7, <2>1
<1> QED
  BY <1>7, <1>8, <1>9, <1>10, SeqEqual

-----------------------------------------------------------------------------
\* The pool is the whole tails among those that are done, the last first; prev is the
\* last of them that was written.
Done(S) == {t \in Whole(S) : \E n \in left + 1..Cardinality(S) : distinct[n] = t}
Written(S) == LET m == Cardinality(Done(S))
              IN  Descending(S, m) \in Seq(Bytes) /\ pool = FlattenSeq(Descending(S, m))
LastWhole(S) ==
    /\ prev = 0 \/ distinct[prev] \in Whole(S)
    /\ \A n \in left + 1..Cardinality(S) : (prev = 0 \/ n < prev) => distinct[n] \notin Whole(S)
PoolInv ==
    /\ TailsInv
    /\ tpc # "none" => \E S : S = ToSet(tails) /\ distinct = SortedTails(S) /\ LastWhole(S) /\ Written(S)

\* When the loop begins there is nothing in the pool.
LEMMA PoolBegins ==
    ASSUME NEW T \in TailLists, BuildPool(T)
    PROVE  PoolInv'
<1> PICK S : S = ToSet(T)
  OBVIOUS
<1>1. IsFiniteSet(S) /\ S \in SUBSET Bytes /\ Cardinality(S) \in Nat
  <2>1. T \in Seq(Bytes)
    BY TailListsAssumption DEF Bytes
  <2> QED
    BY <2>1, ToSetFinite, FS_CardinalityType
<1>2. TailsInv'
  BY BuildPoolKeeps
<1>3. tails' = T /\ distinct' = SortedTails(S) /\ pool' = <<>> /\ left' = Cardinality(S) /\ prev' = 0
  BY DEF BuildPool
<1>4. S = ToSet(tails)'
  BY <1>3
<1>5. \A n \in left' + 1..Cardinality(S) : FALSE
  BY <1>1, <1>3
<1>6. LastWhole(S)'
  BY <1>3, <1>5 DEF LastWhole
<1>7. Done(S)' = {}
  BY <1>5 DEF Done
<1>8. Cardinality(Done(S)') = 0
  BY <1>7, FS_EmptySet
<1>9. Descending(S, 0) = <<>>
  BY DEF Descending
<1>10. Written(S)'
  <2>1. FlattenSeq(<<>>) = <<>> /\ <<>> \in Seq(Bytes)
    BY DEF FlattenSeq
  <2> QED
    BY <1>3, <1>8, <1>9, <2>1 DEF Written
<1> QED
  BY <1>2, <1>3, <1>4, <1>6, <1>10 DEF PoolInv

\* A turn of the loop writes the next tail when it is whole, and only then.
LEMMA PoolStep ==
    ASSUME PoolInv, EmitTail
    PROVE  PoolInv'
<1> PICK S : S = ToSet(tails) /\ distinct = SortedTails(S) /\ LastWhole(S) /\ Written(S)
  BY DEF PoolInv, EmitTail
<1> DEFINE c == Cardinality(S)
           t == distinct[left]
<1>1. /\ Emission /\ TailsInv' /\ distinct = SortedTails(S) /\ LastWhole(S) /\ Written(S)
      /\ left > 0 /\ left' = left - 1 /\ tails' = tails /\ distinct' = distinct
  BY EmitTailKeeps DEF PoolInv, TailsInv, EmitTail
<1>2. S = ToSet(tails)'
  BY <1>1
<1>3. IsFiniteSet(S) /\ S \in SUBSET Bytes /\ c \in Nat
  BY <1>1, ToSetFinite, FS_CardinalityType DEF Emission
<1>4. Len(distinct) = c /\ left \in 1..c /\ prev \in 0..c /\ (prev # 0 => prev > left) /\ t \in S /\ t \in Bytes
  <2>1. Len(distinct) = c
    BY <1>1, <1>3, SortedTailsType
  <2>2. \A n \in 1..c : distinct[n] \in S
    BY <1>1, <1>3, SortedTailsOrder
  <2>3. left \in 1..c /\ prev \in 0..c /\ (prev # 0 => prev > left)
    BY <1>1, <1>3, <2>1 DEF Emission
  <2>4. t \in S
    BY <2>2, <2>3
  <2> QED
    BY <1>3, <2>1, <2>3, <2>4
<1>5. t \in Whole(S) <=> ~(prev # 0 /\ IsProperSuffix(t, distinct[prev]))
  <2>1. prev = 0 \/ (prev > left /\ SortedTails(S)[prev] \in Whole(S))
    BY <1>1, <1>4 DEF LastWhole
  <2>2. \A n \in left + 1..c : (prev = 0 \/ n < prev) => SortedTails(S)[n] \notin Whole(S)
    BY <1>1 DEF LastWhole
  <2> QED
    BY <1>1, <1>3, <1>4, <2>1, <2>2, NextWhole
<1>6. \A n : n \in left' + 1..c <=> n = left \/ n \in left + 1..c
  BY <1>1, <1>3, <1>4
<1> HIDE DEF c, t
<1>7. CASE t \notin Whole(S)
  <2>1. pool' = pool /\ prev' = prev
    BY <1>5, <1>7 DEF EmitTail, t
  <2>2. Done(S)' = Done(S)
    BY <1>1, <1>6, <1>7 DEF Done, c, t
  <2>3. Written(S)'
    BY <1>1, <2>1, <2>2 DEF Written
  <2>4. LastWhole(S)'
    BY <1>1, <1>6, <1>7, <2>1 DEF LastWhole, c, t
  <2> QED
    BY <1>1, <1>2, <2>3, <2>4 DEF PoolInv
<1>8. CASE t \in Whole(S)
  <2> DEFINE m == Cardinality(Done(S))
  <2>1. pool' = pool \o t /\ prev' = left
    BY <1>5, <1>8 DEF EmitTail, t
  <2>2. \A n \in 1..c : left < n <=> ReversedLess(t, distinct[n])
    BY <1>1, <1>3, <1>4, SortedTailsOrder DEF c, t
  <2>3. Done(S) = After(Whole(S), t)
    <3>1. ASSUME NEW u \in Whole(S) PROVE (\E n \in left + 1..c : distinct[n] = u) <=> ReversedLess(t, u)
      <4>1. PICK k \in 1..c : distinct[k] = u
        BY <1>1, <1>3, SortedTailsType DEF Whole, c
      <4>2. ASSUME NEW n \in left + 1..c, distinct[n] = u PROVE ReversedLess(t, u)
        <5>1. n \in 1..c /\ left < n
          BY <1>3, <1>4 DEF c
        <5> QED
          BY <2>2, <4>2, <5>1
      <4>3. ASSUME ReversedLess(t, u) PROVE k \in left + 1..c
        BY <1>3, <1>4, <2>2, <4>1, <4>3 DEF c
      <4> QED
        BY <4>1, <4>2, <4>3
    <3> QED
      BY <3>1 DEF Done, After, c
  <2>4. IsFiniteSet(Done(S)) /\ m \in Nat
    <3>1. Done(S) \in SUBSET S
      BY DEF Done, Whole
    <3> QED
      BY <1>3, <3>1, FS_Subset, FS_CardinalityType
  <2>5. Done(S)' = Done(S) \cup {t} /\ t \notin Done(S)
    <3>1. Done(S)' = Done(S) \cup {t}
      BY <1>1, <1>6, <1>8 DEF Done, c, t
    <3>2. ~ReversedLess(t, t)
      BY <1>4, ReversedOrder DEF t
    <3> QED
      BY <2>3, <3>1, <3>2 DEF After
  <2>6. Cardinality(Done(S)') = m + 1
    BY <2>4, <2>5, FS_AddElement
  <2>7. /\ Descending(S, m) \in Seq(Bytes) /\ pool = FlattenSeq(Descending(S, m))
        /\ Cardinality(After(Whole(S), t)) = m
    BY <1>1, <2>3 DEF Written
  <2> HIDE DEF m
  <2>8. Descending(S, m + 1) = Append(Descending(S, m), t) /\ Descending(S, m + 1) \in Seq(Bytes)
    BY <1>3, <1>8, <2>4, <2>7, DescendingStep
  <2>9. FlattenSeq(Append(Descending(S, m), t)) = FlattenSeq(Descending(S, m)) \o t
    BY <1>4, <2>7, FlattenLast DEF Bytes, t
  <2>10. Written(S)'
    BY <2>1, <2>6, <2>7, <2>8, <2>9 DEF Written
  <2>11. LastWhole(S)'
    <3>1. distinct'[prev'] \in Whole(S)
      BY <1>1, <1>8, <2>1 DEF t
    <3>2. \A n \in left' + 1..c : ~(n < prev') /\ prev' # 0
      BY <1>1, <1>3, <1>4, <2>1 DEF c
    <3> QED
      BY <3>1, <3>2 DEF LastWhole, c
  <2> QED
    BY <1>1, <1>2, <2>10, <2>11 DEF PoolInv
<1> QED
  BY <1>7, <1>8

LEMMA PoolNext == PoolInv /\ [TailsNext]_tailVars => PoolInv'
<1> SUFFICES ASSUME PoolInv, [TailsNext]_tailVars PROVE PoolInv'
  OBVIOUS
<1>1. TailsInv'
  BY NextTails DEF PoolInv
<1>2. CASE \E T \in TailLists : BuildPool(T)
  BY <1>2, PoolBegins
<1>3. CASE EmitTail
  BY <1>3, PoolStep
<1>4. CASE PoolDone \/ UNCHANGED tailVars
  <2>1. UNCHANGED <<tails, distinct, pool, left, prev>> /\ (tpc' # "none" => tpc # "none")
    BY <1>4 DEF PoolDone, tailVars
  <2> SUFFICES ASSUME NEW S, S = ToSet(tails), distinct = SortedTails(S), LastWhole(S), Written(S)
               PROVE  S = ToSet(tails)' /\ (distinct = SortedTails(S))' /\ LastWhole(S)' /\ Written(S)'
    BY <1>1, <2>1 DEF PoolInv
  <2>2. LastWhole(S)'
    BY <2>1 DEF LastWhole
  <2>3. Done(S)' = Done(S)
    BY <2>1 DEF Done
  <2>4. Written(S)'
    BY <2>1, <2>3 DEF Written
  <2> QED
    BY <2>1, <2>2, <2>4
<1> QED
  BY <1>2, <1>3, <1>4 DEF TailsNext

\* All tails done: the pool of the reference definition.
LEMMA PoolComplete ==
    ASSUME PoolInv, tpc = "ready"
    PROVE  pool = FlattenSeq(Descending(ToSet(tails), Cardinality(Whole(ToSet(tails)))))
<1> PICK S : S = ToSet(tails) /\ distinct = SortedTails(S) /\ Written(S)
  BY DEF PoolInv
<1>1. Emission /\ left = 0 /\ distinct = SortedTails(S) /\ Written(S)
  BY DEF PoolInv, TailsInv
<1>2. IsFiniteSet(S) /\ S \in SUBSET Bytes
  BY <1>1, ToSetFinite DEF Emission
<1>3. \A t \in S : \E n \in 1..Cardinality(S) : distinct[n] = t
  BY <1>1, <1>2, SortedTailsType
<1>4. Done(S) = Whole(S)
  BY <1>1, <1>3 DEF Done, Whole
<1> QED
  BY <1>1, <1>4 DEF Written

\* The pool holds the tails that end no other tail, the last in the order of the
\* reversed bytes first, for every list of tails: comparing each tail with the last one
\* written out is enough to write none that is already there.
THEOREM PoolAlwaysMinimal == TailsSpec => []PoolMinimal
<1>1. PoolInv => PoolMinimal
  BY PoolComplete DEF PoolMinimal, Descending, Whole, After, ReversedLess
<1>2. TailsInit => PoolInv
  BY InitTails DEF TailsInit, PoolInv
<1> QED
  BY <1>1, <1>2, PoolNext, PTL DEF TailsSpec
=============================================================================
