----------------------------- MODULE FormatLemmas -----------------------------
(***************************************************************************)
(* What the trie writer's operators return.  The dry run is exact:         *)
(* trie_subtree_size counts the bits and the value slots of what           *)
(* trie_write then produces.  Both are recursive over the nodes of the     *)
(* trie, and a VarInt is recursive over numbers; the proofs are by         *)
(* induction on the number of entries below a node, and on the number.     *)
(* What the reader makes of a field or a VarInt of which it is shown no    *)
(* more than a beginning comes last.                                       *)
(***************************************************************************)
EXTENDS TrieEncode, Induction

-----------------------------------------------------------------------------
LEMMA PowerIs ==
    ASSUME NEW k \in 0..28
    PROVE  2^k \in Nat \ {0}
<1>1. /\ 2^0 \in Nat \ {0} /\ 2^1 \in Nat \ {0} /\ 2^2 \in Nat \ {0} /\ 2^3 \in Nat \ {0}
      /\ 2^4 \in Nat \ {0} /\ 2^5 \in Nat \ {0} /\ 2^6 \in Nat \ {0} /\ 2^7 \in Nat \ {0}
      /\ 2^8 \in Nat \ {0} /\ 2^9 \in Nat \ {0} /\ 2^10 \in Nat \ {0} /\ 2^11 \in Nat \ {0}
      /\ 2^12 \in Nat \ {0} /\ 2^13 \in Nat \ {0} /\ 2^14 \in Nat \ {0} /\ 2^15 \in Nat \ {0}
      /\ 2^16 \in Nat \ {0} /\ 2^17 \in Nat \ {0} /\ 2^18 \in Nat \ {0} /\ 2^19 \in Nat \ {0}
      /\ 2^20 \in Nat \ {0} /\ 2^21 \in Nat \ {0} /\ 2^22 \in Nat \ {0} /\ 2^23 \in Nat \ {0}
      /\ 2^24 \in Nat \ {0} /\ 2^25 \in Nat \ {0} /\ 2^26 \in Nat \ {0} /\ 2^27 \in Nat \ {0}
      /\ 2^28 \in Nat \ {0}
  OBVIOUS
<1>2. k \in {0, 1, 2, 3, 4, 5, 6, 7, 8, 9, 10, 11, 12, 13, 14, 15, 16, 17, 18, 19, 20, 21, 22, 23, 24, 25, 26, 27, 28}
  OBVIOUS
<1> QED
  BY <1>1, <1>2

\* A field of n bits has n bits.
LEMMA BitsType ==
    ASSUME NEW v \in Int, NEW n \in Nat
    PROVE  Bits(v, n) \in Seq(Bit) /\ Len(Bits(v, n)) = n
<1>1. \A k \in 0..28 : 2^k \in Nat \ {0}
  BY PowerIs
<1>2. ASSUME NEW i \in 1..n PROVE (IF n - i > 28 THEN 0 ELSE (v \div 2^(n - i)) % 2) \in Bit
  <2>1. CASE n - i > 28
    BY <2>1 DEF Bit
  <2>2. CASE ~(n - i > 28)
    <3>1. PICK k \in 0..28 : k = n - i
      BY <2>2
    <3>2. PICK d \in Nat \ {0} : d = 2^k
      BY <1>1
    <3>3. (v \div d) % 2 \in Bit
      BY DEF Bit
    <3> QED
      BY <2>2, <3>1, <3>2, <3>3
  <2> QED
    BY <2>1, <2>2
<1> QED
  BY <1>2 DEF Bits

LEMMA ConcatThree ==
    ASSUME NEW T, NEW a \in Seq(T), NEW b \in Seq(T), NEW c \in Seq(T)
    PROVE  a \o b \o c \in Seq(T) /\ Len(a \o b \o c) = Len(a) + Len(b) + Len(c)
<1>1. a \o b \in Seq(T) /\ Len(a \o b) = Len(a) + Len(b)
  OBVIOUS
<1>2. PICK d \in Seq(T) : d = a \o b
  BY <1>1
<1>3. d \o c \in Seq(T) /\ Len(d \o c) = Len(d) + Len(c)
  OBVIOUS
<1> QED
  BY <1>1, <1>2, <1>3

\* What follows the last group of a VarInt is a smaller number.
LEMMA RestSmaller ==
    ASSUME NEW x \in Nat
    PROVE  /\ x \div 2^GroupBits \in Nat
           /\ x \div 2^GroupBits # 0 => x \div 2^GroupBits < x
<1>1. 2^GroupBits \in Nat /\ 2^GroupBits >= 2
  <2>1. CASE GroupBits = 1
    BY <2>1
  <2>2. CASE GroupBits = 2
    BY <2>2
  <2>3. CASE GroupBits = 3
    BY <2>3
  <2>4. CASE GroupBits = 4
    BY <2>4
  <2>5. CASE GroupBits = 5
    BY <2>5
  <2>6. CASE GroupBits = 6
    BY <2>6
  <2>7. CASE GroupBits = 7
    BY <2>7
  <2> QED
    BY <2>1, <2>2, <2>3, <2>4, <2>5, <2>6, <2>7, VarintAssumption
<1>2. PICK d \in Nat : d = 2^GroupBits /\ d >= 2
  BY <1>1
<1>3. x \div d \in Nat /\ x % d \in Nat /\ x = d * (x \div d) + (x % d)
  BY <1>2
<1>4. PICK q \in Nat : q = x \div d
  BY <1>3
<1>5. q # 0 => q < d * q
  BY <1>2
<1> QED
  BY <1>2, <1>3, <1>4, <1>5

\* The equations of VarintU and of VarintSize.
GroupsOf(groups) ==
    [x \in Nat |->
        LET rest == x \div 2^GroupBits
        IN  <<IF rest = 0 THEN 0 ELSE 1>> \o Bits(x, GroupBits)
                \o (IF rest = 0 THEN <<>> ELSE groups[rest])]
SizeOf(size) ==
    [x \in Nat |->
        LET rest == x \div 2^GroupBits
        IN  GroupBits + 1 + (IF rest = 0 THEN 0 ELSE size[rest])]

LEMMA GroupsExist == \E f : f = GroupsOf(f)
<1> DEFINE size == [x \in Nat |-> x]
           V == Seq(Bit)
           Body1(f, x) == LET rest == x \div 2^GroupBits
                          IN  <<IF rest = 0 THEN 0 ELSE 1>> \o Bits(x, GroupBits)
                                \o (IF rest = 0 THEN <<>> ELSE f[rest])
           step == [z \in Nat \X [Nat -> V] |-> Body1(z[2], z[1])]
<1>1. ASSUME NEW x \in Nat, NEW f \in [Nat -> V] PROVE Body1(f, x) \in V
  <2>1. x \div 2^GroupBits \in Nat
    BY RestSmaller
  <2>2. PICK rest \in Nat : rest = x \div 2^GroupBits
    BY <2>1
  <2>3. Bits(x, GroupBits) \in V
    BY BitsType, VarintAssumption
  <2>4. <<IF rest = 0 THEN 0 ELSE 1>> \in V
    BY DEF Bit
  <2>5. (IF rest = 0 THEN <<>> ELSE f[rest]) \in V
    <3>1. f[rest] \in V /\ <<>> \in V
      OBVIOUS
    <3> QED
      BY <3>1
  <2> HIDE DEF V
  <2>6. <<IF rest = 0 THEN 0 ELSE 1>> \o Bits(x, GroupBits) \o (IF rest = 0 THEN <<>> ELSE f[rest]) \in V
    BY <2>3, <2>4, <2>5, ConcatProperties DEF V
  <2> QED
    BY <2>2, <2>6
<1>2. step \in [Nat \X [Nat -> V] -> V]
  <2> HIDE DEF Body1, V
  <2> QED
    BY <1>1
<1>3. IsRecursion(step, size, Nat, V)
  <2>0. size \in [Nat -> Nat]
    OBVIOUS
  <2> SUFFICES ASSUME NEW x \in Nat, NEW f \in [Nat -> V], NEW g \in [Nat -> V],
                      \A y \in Nat : size[y] < size[x] => f[y] = g[y]
               PROVE  step[<<x, f>>] = step[<<x, g>>]
    BY <1>2, <2>0 DEF IsRecursion
  <2>1. PICK rest \in Nat : rest = x \div 2^GroupBits
    BY RestSmaller
  <2>2. rest # 0 => f[rest] = g[rest]
    BY <2>1, RestSmaller
  <2>3. Body1(f, x) = Body1(g, x)
    BY <2>1, <2>2
  <2> HIDE DEF Body1, V
  <2> QED
    BY <2>3
<1>4. <<>> \in V
  OBVIOUS
<1>5. \E f : IsDefinedBy(f, step, Nat, V)
  <2> HIDE DEF step, size, V
  <2> QED
    BY <1>3, <1>4, RecursionExists
<1>6. PICK f \in [Nat -> V] : \A x \in Nat : f[x] = step[<<x, f>>]
  BY <1>5 DEF IsDefinedBy
<1>7. \A x \in Nat : f[x] = Body1(f, x)
  <2> HIDE DEF Body1, V
  <2> QED
    BY <1>6
<1>8. f = GroupsOf(f)
  <2>1. f = [x \in Nat |-> f[x]]
    OBVIOUS
  <2> QED
    BY <1>7, <2>1 DEF GroupsOf
<1> QED
  BY <1>8

\* The size that the encoder counts for a VarInt is the length it is written with.
LEMMA VarintLength ==
    ASSUME NEW v \in Nat
    PROVE  /\ VarintU(v) \in Seq(Bit) /\ Len(VarintU(v)) > GroupBits
           /\ VarintSize(v) = Len(VarintU(v)) /\ VarintSize(v) \in Nat
<1> DEFINE G == CHOOSE f : f = GroupsOf(f)
           S == CHOOSE f : f = SizeOf(f)
<1>1. VarintU(v) = G[v] /\ VarintSize(v) = S[v]
  BY DEF VarintU, VarintSize, GroupsOf, SizeOf
<1>2. G = GroupsOf(G)
  BY GroupsExist
<1> HIDE DEF G
<1>3. ASSUME NEW x \in Nat, NEW rest \in Nat, rest = x \div 2^GroupBits, rest # 0 => G[rest] \in Seq(Bit)
      PROVE  G[x] \in Seq(Bit) /\ Len(G[x]) = GroupBits + 1 + (IF rest = 0 THEN 0 ELSE Len(G[rest]))
  <2>1. G[x] = <<IF rest = 0 THEN 0 ELSE 1>> \o Bits(x, GroupBits) \o (IF rest = 0 THEN <<>> ELSE G[rest])
    <3> DEFINE Behind(q) == <<IF q = 0 THEN 0 ELSE 1>> \o Bits(x, GroupBits) \o (IF q = 0 THEN <<>> ELSE G[q])
    <3>1. G[x] = Behind(x \div 2^GroupBits)
      BY ONLY <1>2, x \in Nat, Zenon DEF GroupsOf
    <3> HIDE DEF Behind
    <3>2. G[x] = Behind(rest)
      BY <1>3, <3>1, Zenon
    <3> QED
      BY ONLY <3>2, Zenon DEF Behind
  <2>2. <<IF rest = 0 THEN 0 ELSE 1>> \in Seq(Bit) /\ Len(<<IF rest = 0 THEN 0 ELSE 1>>) = 1
    BY DEF Bit
  <2>a. PICK a \in Seq(Bit) : a = <<IF rest = 0 THEN 0 ELSE 1>> /\ Len(a) = 1
    BY <2>2, Zenon
  <2>3. PICK b \in Seq(Bit) : b = Bits(x, GroupBits) /\ Len(b) = GroupBits
    BY BitsType, VarintAssumption
  <2>c. PICK c : c = IF rest = 0 THEN <<>> ELSE G[rest]
    OBVIOUS
  <2>4. c \in Seq(Bit) /\ Len(c) = (IF rest = 0 THEN 0 ELSE Len(G[rest]))
    <3>1. <<>> \in Seq(Bit) /\ Len(<<>>) = 0
      OBVIOUS
    <3> QED
      BY <1>3, <2>c, <3>1
  <2>5. a \o b \o c \in Seq(Bit) /\ Len(a \o b \o c) = Len(a) + Len(b) + Len(c)
    <3>1. c \in Seq(Bit)
      BY <2>4
    <3> QED
      BY ONLY <3>1, a \in Seq(Bit), b \in Seq(Bit), ConcatThree
  <2>6. Len(a) + Len(b) + Len(c) = GroupBits + 1 + Len(c)
    <3>1. Len(a) = 1 /\ Len(b) = GroupBits /\ GroupBits \in Nat
      BY <2>3, <2>a, VarintAssumption
    <3>2. Len(c) \in Nat
      BY <2>4
    <3> QED
      BY ONLY <3>1, <3>2
  <2> QED
    BY <2>1, <2>3, <2>4, <2>5, <2>6, <2>a, <2>c
<1> DEFINE good == {n \in Nat : \A x \in Nat : x < n => G[x] \in Seq(Bit)}
<1>4. ASSUME NEW n \in Nat, n \in good PROVE n + 1 \in good
  <2> SUFFICES ASSUME NEW x \in Nat, x < n + 1 PROVE G[x] \in Seq(Bit)
    OBVIOUS
  <2>1. PICK rest \in Nat : rest = x \div 2^GroupBits
    BY RestSmaller
  <2>2. rest # 0 => G[rest] \in Seq(Bit)
    BY <1>4, <2>1, RestSmaller
  <2> QED
    BY <1>3, <2>1, <2>2
<1>5. \A n \in Nat : n \in good
  <2>1. 0 \in good
    OBVIOUS
  <2> HIDE DEF good
  <2> QED
    BY <1>4, <2>1, SetInduction
<1>6. \A x \in Nat : G[x] \in Seq(Bit)
  <2> SUFFICES ASSUME NEW x \in Nat PROVE G[x] \in Seq(Bit)
    OBVIOUS
  <2>1. x + 1 \in good /\ x < x + 1
    BY <1>5
  <2> QED
    BY <2>1
\* The lengths of what is written satisfy the equation of the sizes.
<1>7. ASSUME NEW x \in Nat, NEW rest \in Nat, rest = x \div 2^GroupBits
      PROVE  Len(G[x]) = GroupBits + 1 + (IF rest = 0 THEN 0 ELSE Len(G[rest]))
  BY <1>3, <1>6, <1>7
<1>8. S = SizeOf(S)
  <2> DEFINE f == [x \in Nat |-> Len(G[x])]
  <2>1. ASSUME NEW x \in Nat
        PROVE  f[x] = LET rest == x \div 2^GroupBits
                      IN  GroupBits + 1 + (IF rest = 0 THEN 0 ELSE f[rest])
    <3>1. PICK rest \in Nat : rest = x \div 2^GroupBits
      BY RestSmaller
    <3> QED
      BY <1>7, <3>1
  <2>2. f = SizeOf(f)
    BY <2>1 DEF SizeOf
  <2> HIDE DEF f
  <2> QED
    BY <2>2
<1> HIDE DEF S
<1> DEFINE same == {n \in Nat : \A x \in Nat : x < n => S[x] = Len(G[x])}
<1>9. ASSUME NEW n \in Nat, n \in same PROVE n + 1 \in same
  <2> SUFFICES ASSUME NEW x \in Nat, x < n + 1 PROVE S[x] = Len(G[x])
    OBVIOUS
  <2>1. PICK rest \in Nat : rest = x \div 2^GroupBits
    BY RestSmaller
  <2>2. rest # 0 => S[rest] = Len(G[rest])
    BY <1>9, <2>1, RestSmaller
  <2>3. S[x] = GroupBits + 1 + (IF rest = 0 THEN 0 ELSE S[rest])
    BY <1>8, <2>1 DEF SizeOf
  <2> QED
    BY <1>7, <2>1, <2>2, <2>3
<1>10. v + 1 \in same
  <2>1. 0 \in same
    OBVIOUS
  <2> HIDE DEF same
  <2> QED
    BY <1>9, <2>1, SetInduction
<1>11. S[v] = Len(G[v])
  BY <1>10
<1>12. Len(G[v]) \in Nat
  BY <1>6
<1>13. Len(G[v]) > GroupBits
  <2>1. PICK rest \in Nat : rest = v \div 2^GroupBits
    BY RestSmaller
  <2>2. PICK n \in Nat : n = IF rest = 0 THEN 0 ELSE Len(G[rest])
    BY <1>6
  <2>3. Len(G[v]) = GroupBits + 1 + (IF rest = 0 THEN 0 ELSE Len(G[rest]))
    BY <1>7, <2>1
  <2>4. Len(G[v]) = GroupBits + 1 + n
    BY ONLY <2>2, <2>3
  <2>5. GroupBits \in Nat
    BY VarintAssumption
  <2> QED
    BY ONLY <2>4, <2>5, n \in Nat
<1> QED
  BY <1>1, <1>6, <1>11, <1>12, <1>13

-----------------------------------------------------------------------------
\* Numbers and keys in order: each has its place.
LEMMA AscendingOrder ==
    ASSUME NEW S \in SUBSET Int, IsFiniteSet(S)
    PROVE  /\ Ascending(S) \in Seq(S) /\ Len(Ascending(S)) = Cardinality(S)
           /\ \A x \in S : \E k \in 1..Cardinality(S) : Ascending(S)[k] = x
           /\ \A j, k \in 1..Cardinality(S) : j < k => Ascending(S)[j] < Ascending(S)[k]
<1> DEFINE R == {z \in S \X S : z[1] < z[2]}
<1>1. Orders(R, S)
  BY DEF Orders
<1>2. \A x \in S : Below(R, S, x) = {y \in S : y < x}
  BY DEF Below
<1>3. \A x, y \in S : <<x, y>> \in R <=> x < y
  OBVIOUS
<1> HIDE DEF R
<1>4. /\ \A t \in S : Cardinality(Below(R, S, t)) \in 0..Cardinality(S) - 1
      /\ \A t, u \in S : Cardinality(Below(R, S, t)) = Cardinality(Below(R, S, u)) => t = u
      /\ \A n \in 1..Cardinality(S) : \E t \in S : Cardinality(Below(R, S, t)) = n - 1
      /\ \A t, u \in S : <<t, u>> \in R => Cardinality(Below(R, S, t)) < Cardinality(Below(R, S, u))
  BY <1>1, Ranking
<1>5. PICK n \in Nat : n = Cardinality(S)
  BY FS_CardinalityType
<1>6. Ascending(S) = [k \in 1..n |-> CHOOSE x \in S : Cardinality({y \in S : y < x}) = k - 1]
  BY <1>5 DEF Ascending
<1>7. ASSUME NEW k \in 1..n
      PROVE  Ascending(S)[k] \in S /\ Cardinality(Below(R, S, Ascending(S)[k])) = k - 1
  <2>1. \E x \in S : Cardinality({y \in S : y < x}) = k - 1
    BY <1>2, <1>4, <1>5
  <2>2. Ascending(S)[k] = CHOOSE x \in S : Cardinality({y \in S : y < x}) = k - 1
    BY <1>6
  <2> QED
    BY <1>2, <2>1, <2>2
<1>8. Ascending(S) \in Seq(S) /\ Len(Ascending(S)) = n
  <2>1. PICK s : s = Ascending(S)
    OBVIOUS
  <2>2. s = [k \in 1..n |-> s[k]]
    BY <1>6, <2>1
  <2>3. \A k \in 1..n : s[k] \in S
    BY <1>7, <2>1
  <2>4. s \in Seq(S) /\ Len(s) = n
    BY ONLY <2>2, <2>3, n \in Nat
  <2> QED
    BY <2>1, <2>4
<1>9. ASSUME NEW x \in S PROVE \E k \in 1..n : Ascending(S)[k] = x
  <2>1. PICK k \in 1..n : Cardinality(Below(R, S, x)) = k - 1
    <3>1. Cardinality(Below(R, S, x)) + 1 \in 1..n /\ (Cardinality(Below(R, S, x)) + 1) - 1 = Cardinality(Below(R, S, x))
      BY <1>4, <1>5
    <3> QED
      BY <3>1
  <2> QED
    BY <1>4, <1>7, <2>1
<1>10. ASSUME NEW j \in 1..n, NEW k \in 1..n, j < k PROVE Ascending(S)[j] < Ascending(S)[k]
  <2>1. PICK x \in S : x = Ascending(S)[j] /\ Cardinality(Below(R, S, x)) = j - 1
    BY <1>7
  <2>2. PICK y \in S : y = Ascending(S)[k] /\ Cardinality(Below(R, S, y)) = k - 1
    BY <1>7
  <2>3. x # y /\ <<y, x>> \notin R
    BY <1>4, <1>10, <2>1, <2>2
  <2>4. <<x, y>> \in R
    BY <1>1, <2>3 DEF Orders
  <2> QED
    BY <1>3, <2>1, <2>2, <2>4
<1> QED
  BY <1>5, <1>8, <1>9, <1>10

LEMMA SortedKeysOrder ==
    ASSUME NEW S \in SUBSET Seq(Nat), IsFiniteSet(S)
    PROVE  /\ SortedKeys(S) \in Seq(S) /\ Len(SortedKeys(S)) = Cardinality(S)
           /\ \A x \in S : \E k \in 1..Cardinality(S) : SortedKeys(S)[k] = x
           /\ \A j, k \in 1..Cardinality(S) : j < k => KeyLess(SortedKeys(S)[j], SortedKeys(S)[k])
<1> DEFINE R == {z \in S \X S : KeyLess(z[1], z[2])}
<1>1. Orders(R, S)
  BY LessIrreflexive, LessTransitive, LessTotal DEF Orders
<1>2. \A x \in S : Below(R, S, x) = {y \in S : KeyLess(y, x)}
  BY DEF Below
<1>3. \A x, y \in S : <<x, y>> \in R <=> KeyLess(x, y)
  OBVIOUS
<1> HIDE DEF R
<1>4. /\ \A t \in S : Cardinality(Below(R, S, t)) \in 0..Cardinality(S) - 1
      /\ \A t, u \in S : Cardinality(Below(R, S, t)) = Cardinality(Below(R, S, u)) => t = u
      /\ \A n \in 1..Cardinality(S) : \E t \in S : Cardinality(Below(R, S, t)) = n - 1
      /\ \A t, u \in S : <<t, u>> \in R => Cardinality(Below(R, S, t)) < Cardinality(Below(R, S, u))
  BY <1>1, Ranking
<1>5. PICK n \in Nat : n = Cardinality(S)
  BY FS_CardinalityType
<1>6. SortedKeys(S) = [k \in 1..n |-> CHOOSE x \in S : Cardinality({y \in S : KeyLess(y, x)}) = k - 1]
  BY <1>5 DEF SortedKeys
<1>7. ASSUME NEW k \in 1..n
      PROVE  SortedKeys(S)[k] \in S /\ Cardinality(Below(R, S, SortedKeys(S)[k])) = k - 1
  <2>1. \E x \in S : Cardinality({y \in S : KeyLess(y, x)}) = k - 1
    BY <1>2, <1>4, <1>5
  <2>2. SortedKeys(S)[k] = CHOOSE x \in S : Cardinality({y \in S : KeyLess(y, x)}) = k - 1
    BY <1>6
  <2> QED
    BY <1>2, <2>1, <2>2
<1>8. SortedKeys(S) \in Seq(S) /\ Len(SortedKeys(S)) = n
  <2>1. PICK s : s = SortedKeys(S)
    OBVIOUS
  <2>2. s = [k \in 1..n |-> s[k]]
    BY <1>6, <2>1
  <2>3. \A k \in 1..n : s[k] \in S
    BY <1>7, <2>1
  <2>4. s \in Seq(S) /\ Len(s) = n
    BY ONLY <2>2, <2>3, n \in Nat
  <2> QED
    BY <2>1, <2>4
<1>9. ASSUME NEW x \in S PROVE \E k \in 1..n : SortedKeys(S)[k] = x
  <2>1. PICK k \in 1..n : Cardinality(Below(R, S, x)) = k - 1
    <3>1. Cardinality(Below(R, S, x)) + 1 \in 1..n /\ (Cardinality(Below(R, S, x)) + 1) - 1 = Cardinality(Below(R, S, x))
      BY <1>4, <1>5
    <3> QED
      BY <3>1
  <2> QED
    BY <1>4, <1>7, <2>1
<1>10. ASSUME NEW j \in 1..n, NEW k \in 1..n, j < k PROVE KeyLess(SortedKeys(S)[j], SortedKeys(S)[k])
  <2>1. PICK x \in S : x = SortedKeys(S)[j] /\ Cardinality(Below(R, S, x)) = j - 1
    BY <1>7
  <2>2. PICK y \in S : y = SortedKeys(S)[k] /\ Cardinality(Below(R, S, y)) = k - 1
    BY <1>7
  <2>3. x # y /\ <<y, x>> \notin R
    BY <1>4, <1>10, <2>1, <2>2
  <2>4. <<x, y>> \in R
    BY <1>1, <2>3 DEF Orders
  <2> QED
    BY <1>3, <2>1, <2>2, <2>4
<1> QED
  BY <1>5, <1>8, <1>9, <1>10

-----------------------------------------------------------------------------
\* The entries the encoder has after sorting them and dropping duplicates.
KeysAscend(E) ==
    /\ Len(E) \in Nat
    /\ \A i \in 1..Len(E) : E[i].key \in Seq(Nat)
    /\ \A i, j \in 1..Len(E) : i < j => KeyLess(E[i].key, E[j].key)

\* Entries s..e-1 form a node below their first p bytes.
IsNode(E, s, e, p) ==
    /\ s \in 1..Len(E) /\ e \in 1..Len(E) + 1 /\ p \in Nat /\ s < e
    /\ \A i \in s..e - 1 : Len(E[i].key) >= p /\ \A j \in 1..p : E[i].key[j] = E[s].key[j]

\* Its entries part behind byte c.
PartAt(E, s, e, c) == \E i \in s..e - 1 : Len(E[i].key) = c \/ E[i].key[c + 1] # E[s].key[c + 1]

LEMMA NodesAreNodes ==
    ASSUME NEW E, NEW s, NEW e, NEW p, NEW vi
    PROVE  <<s, e, p, vi>> \in Nodes(E) <=> IsNode(E, s, e, p) /\ vi \in Nat
  BY DEF Nodes, IsNode

\* The common prefix of a node exists: the least length at which two entries part.
LEMMA PrefixExists ==
    ASSUME NEW E, KeysAscend(E), NEW s, NEW e, NEW p, IsNode(E, s, e, p)
    PROVE  /\ CommonPrefix(E, s, e, p) \in p..Len(E[s].key)
           /\ IsNode(E, s, e, CommonPrefix(E, s, e, p)) /\ PartAt(E, s, e, CommonPrefix(E, s, e, p))
<1> DEFINE D == {c \in Nat : c >= p /\ PartAt(E, s, e, c)}
<1>1. /\ s \in 1..Len(E) /\ e \in 1..Len(E) + 1 /\ p \in Nat /\ s < e /\ Len(E) \in Nat
      /\ s \in s..e - 1 /\ \A i \in s..e - 1 : i \in 1..Len(E)
  BY DEF IsNode, KeysAscend
<1>2. \A i \in s..e - 1 : Len(E[i].key) \in Nat /\ Len(E[i].key) >= p
  <2> SUFFICES ASSUME NEW i \in s..e - 1 PROVE Len(E[i].key) \in Nat /\ Len(E[i].key) >= p
    OBVIOUS
  <2>1. E[i].key \in Seq(Nat)
    BY <1>1 DEF KeysAscend
  <2> QED
    BY <2>1 DEF IsNode
<1>3. Len(E[s].key) \in D
  BY <1>1, <1>2 DEF PartAt
<1>4. PICK c \in D : \A d \in D : c <= d
  <2>1. D \in SUBSET Nat
    OBVIOUS
  <2> HIDE DEF D
  <2> QED
    BY <1>3, <2>1, LeastElement
<1>5. c \in Nat /\ c >= p /\ c <= Len(E[s].key) /\ PartAt(E, s, e, c)
  BY <1>3, <1>4
<1>6. ASSUME NEW i \in s..e - 1 PROVE Len(E[i].key) >= c
  <2> SUFFICES ASSUME Len(E[i].key) < c PROVE FALSE
    BY <1>2, <1>5
  <2>1. Len(E[i].key) \in D
    BY <1>2 DEF PartAt
  <2> QED
    BY <1>2, <1>4, <1>5, <2>1
<1>7. ASSUME NEW i \in s..e - 1, NEW j \in p + 1..c PROVE E[i].key[j] = E[s].key[j]
  <2> SUFFICES ASSUME E[i].key[j] # E[s].key[j] PROVE FALSE
    OBVIOUS
  <2>1. j - 1 \in Nat /\ j - 1 >= p /\ (j - 1) + 1 = j /\ ~(c <= j - 1)
    BY <1>1, <1>5
  <2>2. PartAt(E, s, e, j - 1)
    BY <2>1 DEF PartAt
  <2> QED
    BY <1>4, <2>1, <2>2
<1> HIDE DEF D
<1> DEFINE Fits(x) == /\ \A i \in s..e - 1 : Len(E[i].key) >= x /\ \A j \in p + 1..x : E[i].key[j] = E[s].key[j]
                      /\ PartAt(E, s, e, x)
<1>8. CommonPrefix(E, s, e, p) = CHOOSE x \in p..Len(E[s].key) : Fits(x)
  BY DEF CommonPrefix, PartAt
<1>9. c \in p..Len(E[s].key) /\ Fits(c)
  BY <1>1, <1>2, <1>5, <1>6, <1>7
<1>10. PICK x \in p..Len(E[s].key) : x = CommonPrefix(E, s, e, p) /\ Fits(x)
  <2> HIDE DEF Fits
  <2> QED
    BY <1>8, <1>9
<1>11. IsNode(E, s, e, x)
  <2>1. x \in Nat /\ x >= p
    BY <1>1, <1>10
  <2>2. ASSUME NEW i \in s..e - 1, NEW j \in 1..x PROVE E[i].key[j] = E[s].key[j]
    <3>1. CASE j \in 1..p
      BY <3>1 DEF IsNode
    <3>2. CASE j \in p + 1..x
      BY <1>10, <3>2
    <3> QED
      BY <1>1, <2>1, <3>1, <3>2
  <2> QED
    BY <1>1, <1>10, <2>1, <2>2 DEF IsNode
<1> QED
  BY <1>10, <1>11

\* The children of a node: nodes that follow each other from behind its terminal to
\* its end, each smaller than the node.
FirstBelow(E, s, c) == IF Len(E[s].key) = c THEN s + 1 ELSE s
Splits(E, s, e, c, kids) ==
    /\ kids \in Seq([from : Int, to : Int])
    /\ kids = <<>> => FirstBelow(E, s, c) = e
    /\ kids # <<>> => kids[1].from = FirstBelow(E, s, c) /\ kids[Len(kids)].to = e
    /\ \A k \in 1..Len(kids) - 1 : kids[k].to = kids[k + 1].from
    /\ \A k \in 1..Len(kids) : /\ IsNode(E, kids[k].from, kids[k].to, c)
                               /\ kids[k].to - kids[k].from < e - s

\* If the entries part behind byte c and none of their keys ends there, some entry
\* differs from its predecessor in the next byte.
LEMMA SomeTurn ==
    ASSUME NEW E, KeysAscend(E), NEW s, NEW e, NEW c, IsNode(E, s, e, c), PartAt(E, s, e, c),
           Len(E[s].key) # c
    PROVE  \E j \in s + 1..e - 1 : E[j].key[c + 1] # E[j - 1].key[c + 1]
<1>1. /\ s \in 1..Len(E) /\ e \in 1..Len(E) + 1 /\ c \in Nat /\ s < e /\ Len(E) \in Nat
      /\ s \in s..e - 1 /\ \A i \in s..e - 1 : i \in 1..Len(E)
  BY DEF IsNode, KeysAscend
<1>2. PICK i \in s..e - 1 : Len(E[i].key) = c \/ E[i].key[c + 1] # E[s].key[c + 1]
  BY DEF PartAt
<1>3. E[i].key[c + 1] # E[s].key[c + 1]
  <2> SUFFICES ASSUME Len(E[i].key) = c PROVE FALSE
    BY <1>2
  <2>1. PICK a \in Seq(Nat) : a = E[i].key
    BY <1>1 DEF KeysAscend
  <2>2. PICK b \in Seq(Nat) : b = E[s].key
    BY <1>1 DEF KeysAscend
  <2>3. Len(a) = c /\ Len(b) > c /\ \A j \in 1..c : a[j] = b[j]
    BY <1>1, <2>1, <2>2 DEF IsNode
  <2>4. KeyLess(a, b)
    BY <2>3 DEF KeyLess
  <2>5. i # s
    BY <2>1, <2>2, <2>3
  <2>6. KeyLess(b, a)
    BY <1>1, <2>1, <2>2, <2>5 DEF KeysAscend
  <2>7. KeyLess(a, a)
    BY <2>4, <2>6, LessTransitive
  <2> QED
    BY <2>7, LessIrreflexive
<1> DEFINE D == {j \in Nat : j \in s..e - 1 /\ E[j].key[c + 1] # E[s].key[c + 1]}
<1>4. PICK j \in D : \A k \in D : j <= k
  <2>1. D \in SUBSET Nat /\ i \in D
    BY <1>1, <1>3
  <2> HIDE DEF D
  <2> QED
    BY <2>1, LeastElement
<1>5. j \in s + 1..e - 1
  BY <1>1, <1>4
<1>6. j - 1 \in s..e - 1 /\ j - 1 \in Nat /\ ~(j <= j - 1)
  BY <1>1, <1>5
<1>7. E[j - 1].key[c + 1] = E[s].key[c + 1]
  BY <1>4, <1>6
<1> QED
  BY <1>4, <1>5, <1>7

LEMMA ChildrenSplit ==
    ASSUME NEW E, KeysAscend(E), NEW s, NEW e, NEW c, IsNode(E, s, e, c), PartAt(E, s, e, c)
    PROVE  Splits(E, s, e, c, ChildrenOf(E, s, e, c))
<1> DEFINE cs == FirstBelow(E, s, c)
           T == {i \in cs..e - 1 : i > cs => E[i].key[c + 1] # E[i - 1].key[c + 1]}
<1>1. /\ s \in 1..Len(E) /\ e \in 1..Len(E) + 1 /\ c \in Nat /\ s < e /\ Len(E) \in Nat
      /\ cs \in Nat /\ s <= cs /\ cs <= e
  BY DEF IsNode, KeysAscend, FirstBelow
<1>2. PICK m \in Nat : m = cs
  BY <1>1
<1>3. T \in SUBSET Int /\ IsFiniteSet(T)
  <2>1. IsFiniteSet(m..e - 1)
    BY <1>1, FS_Interval
  <2>2. T \in SUBSET (m..e - 1) /\ T \in SUBSET Int
    BY <1>1, <1>2
  <2> HIDE DEF T
  <2> QED
    BY <2>1, <2>2, FS_Subset
<1>4. PICK starts : starts = Ascending(T)
  OBVIOUS
<1>5. PICK n \in Nat : n = Cardinality(T)
  BY <1>3, FS_CardinalityType
<1>6. /\ starts \in Seq(T) /\ Len(starts) = n
      /\ \A x \in T : \E k \in 1..n : starts[k] = x
      /\ \A j, k \in 1..n : j < k => starts[j] < starts[k]
  <2> HIDE DEF T
  <2> QED
    BY <1>3, <1>4, <1>5, AscendingOrder
<1>7. \A i \in T : i \in Nat /\ m <= i /\ i <= e - 1
  BY <1>1, <1>2
<1>8. \A k \in 1..n : starts[k] \in T
  <2> HIDE DEF T
  <2> QED
    BY <1>6
<1>9. m < e => m \in T
  BY <1>1, <1>2
<1> DEFINE kids == [k \in 1..n |-> [from |-> starts[k], to |-> IF k < n THEN starts[k + 1] ELSE e]]
<1>10. ChildrenOf(E, s, e, c) = kids
  <2>1. DOMAIN starts = 1..n
    BY <1>6
  <2>2. ChildrenOf(E, s, e, c) = Children(E, m, e, c)
    BY <1>2 DEF ChildrenOf, FirstBelow
  <2>3. Children(E, m, e, c) = [k \in DOMAIN starts |->
            [from |-> starts[k], to |-> IF k < Len(starts) THEN starts[k + 1] ELSE e]]
    BY <1>2, <1>4 DEF Children
  <2> QED
    BY <1>6, <2>1, <2>2, <2>3
<1> HIDE DEF T
<1>11. ASSUME NEW k \in 1..n
       PROVE  /\ kids[k].from = starts[k] /\ kids[k].from \in Nat
              /\ m <= kids[k].from /\ kids[k].from < kids[k].to /\ kids[k].to <= e /\ kids[k].to \in Nat
              /\ kids[k].to = IF k < n THEN starts[k + 1] ELSE e
  <2>1. starts[k] \in Nat /\ m <= starts[k] /\ starts[k] <= e - 1
    BY <1>7, <1>8
  <2>2. k < n => k + 1 \in 1..n /\ starts[k + 1] \in Nat /\ starts[k] < starts[k + 1] /\ starts[k + 1] <= e - 1
    <3>1. k < n => k + 1 \in 1..n /\ k < k + 1
      OBVIOUS
    <3> QED
      BY <1>6, <1>7, <1>8, <3>1
  <2> QED
    BY <1>1, <2>1, <2>2
<1>12. kids \in Seq([from : Int, to : Int]) /\ Len(kids) = n
  <2>1. ASSUME NEW k \in 1..n PROVE kids[k] \in [from : Int, to : Int]
    <3>1. kids[k].from \in Int /\ kids[k].to \in Int
      BY <1>11
    <3>2. kids[k] = [from |-> kids[k].from, to |-> kids[k].to]
      OBVIOUS
    <3> HIDE DEF kids
    <3> QED
      BY <3>1, <3>2
  <2> QED
    BY <2>1
<1>13. n = 0 => cs = e
  BY <1>1, <1>2, <1>6, <1>9
<1>14. n # 0 => starts[1] = m
  <2> SUFFICES ASSUME n # 0 PROVE starts[1] = m
    OBVIOUS
  <2>1. 1 \in 1..n /\ m <= starts[1] /\ starts[1] <= e - 1 /\ starts[1] \in Nat
    BY <1>7, <1>8
  <2>2. PICK k \in 1..n : starts[k] = m
    BY <1>1, <1>6, <1>9, <2>1
  <2> QED
    BY <1>6, <2>1, <2>2
<1>15. ASSUME NEW k \in 1..n, kids[k].from = s PROVE kids[k].to < e
  <2>1. m = s /\ Len(E[s].key) # c
    BY <1>1, <1>2, <1>11, <1>15 DEF FirstBelow
  <2>2. PICK j \in s + 1..e - 1 : E[j].key[c + 1] # E[j - 1].key[c + 1]
    BY <2>1, SomeTurn
  <2>3. j \in T
    BY <1>1, <1>2, <2>1, <2>2 DEF T
  <2>4. PICK i \in 1..n : starts[i] = j
    BY <1>6, <2>3
  <2>5. i # k /\ starts[k] < starts[i]
    BY <1>1, <1>11, <1>15, <2>2, <2>4
  <2>6. k < n
    <3>1. starts[k] \in Nat /\ starts[i] \in Nat /\ ~(starts[i] < starts[k])
      BY <1>7, <1>8, <2>5
    <3>2. ~(i < k)
      BY <1>6, <3>1
    <3> QED
      BY <2>5, <3>2
  <2>7. starts[k + 1] <= e - 1
    BY <1>7, <1>8, <2>6
  <2>8. kids[k].to = starts[k + 1] /\ kids[k].to \in Nat
    BY <1>11, <2>6
  <2> QED
    BY <1>1, <2>7, <2>8
<1>16. ASSUME NEW k \in 1..n
       PROVE  IsNode(E, kids[k].from, kids[k].to, c) /\ kids[k].to - kids[k].from < e - s
  <2>1. PICK f \in Nat : f = kids[k].from
    BY <1>11
  <2>2. PICK t \in Nat : t = kids[k].to
    BY <1>11
  <2>3. s <= f /\ f < t /\ t <= e
    BY <1>1, <1>2, <1>11, <2>1, <2>2
  <2>4. t - f < e - s
    BY <1>1, <1>15, <2>1, <2>2, <2>3
  <2>5. f \in s..e - 1 /\ \A i \in f..t - 1 : i \in s..e - 1
    BY <1>1, <2>3
  <2>6. IsNode(E, f, t, c)
    <3>1. ASSUME NEW i \in f..t - 1
          PROVE  Len(E[i].key) >= c /\ \A j \in 1..c : E[i].key[j] = E[f].key[j]
      BY <2>5 DEF IsNode
    <3> QED
      BY <1>1, <2>3, <3>1 DEF IsNode
  <2> HIDE DEF kids
  <2> QED
    BY <2>1, <2>2, <2>4, <2>6
<1>17. kids = <<>> <=> n = 0
  <2> HIDE DEF kids
  <2> QED
    BY <1>12
<1>18. n # 0 => kids[1].from = cs /\ kids[n].to = e
  <2> SUFFICES ASSUME n # 0 PROVE kids[1].from = cs /\ kids[n].to = e
    OBVIOUS
  <2>1. 1 \in 1..n /\ n \in 1..n
    OBVIOUS
  <2>2. kids[1].from = starts[1] /\ kids[n].to = e
    BY <1>11, <2>1
  <2> QED
    BY <1>2, <1>14, <2>2
<1>19. ASSUME NEW k \in 1..n - 1 PROVE kids[k].to = kids[k + 1].from
  <2>1. k \in 1..n /\ k < n /\ k + 1 \in 1..n
    OBVIOUS
  <2> QED
    BY <1>11, <2>1
<1> HIDE DEF kids, cs
<1> QED
  BY <1>10, <1>12, <1>13, <1>16, <1>17, <1>18, <1>19 DEF Splits, cs

-----------------------------------------------------------------------------
\* What the dry run counts, and the sizes of the nodes it recurses into.
Counts == [bits : Nat, vi : Nat]

LEMMA CountsAre ==
    ASSUME NEW b \in Nat, NEW v \in Nat
    PROVE  [bits |-> b, vi |-> v] \in Counts
  BY DEF Counts

\* One child more, behind its SKIP.
AddChild(size, kids, k, before, c, bps) ==
    LET child == size[<<kids[k].from, kids[k].to, c, before.vi>>]
        skip == IF k < Len(kids) THEN bps + VarintSize(child.bits) ELSE 0
    IN  [bits |-> before.bits + skip + child.bits, vi |-> child.vi]

\* The counts after each child.
CountsUp(after, size, kids, c, vi, bps) ==
    /\ after \in [0..Len(kids) -> Counts]
    /\ after[0] = [bits |-> 0, vi |-> vi]
    /\ \A k \in 1..Len(kids) : after[k] = AddChild(size, kids, k, after[k - 1], c, bps)

\* Two functions say the same of all nodes smaller than n.
AgreeBelow(f, g, E, n) == \A y \in Nodes(E) : y[2] - y[1] < n => f[y] = g[y]

LEMMA KidsAreNodes ==
    ASSUME NEW E, NEW s, NEW e, NEW c, NEW kids, Splits(E, s, e, c, kids),
           NEW k \in 1..Len(kids), NEW vi \in Nat, NEW f, NEW g, AgreeBelow(f, g, E, e - s)
    PROVE  /\ <<kids[k].from, kids[k].to, c, vi>> \in Nodes(E)
           /\ g[<<kids[k].from, kids[k].to, c, vi>>] = f[<<kids[k].from, kids[k].to, c, vi>>]
<1>1. PICK a : a = kids[k].from
  OBVIOUS
<1>2. PICK b : b = kids[k].to
  OBVIOUS
<1>3. IsNode(E, a, b, c) /\ b - a < e - s
  BY <1>1, <1>2 DEF Splits
<1>4. PICK y : y = <<a, b, c, vi>>
  OBVIOUS
<1>5. y \in Nodes(E) /\ y[1] = a /\ y[2] = b
  BY <1>3, <1>4, NodesAreNodes
<1>6. g[y] = f[y]
  BY <1>3, <1>5 DEF AgreeBelow
<1> QED
  BY <1>1, <1>2, <1>4, <1>5, <1>6

LEMMA AddChildType ==
    ASSUME NEW E, NEW s, NEW e, NEW c, NEW kids, Splits(E, s, e, c, kids),
           NEW size \in [Nodes(E) -> Counts], NEW k \in 1..Len(kids), NEW before \in Counts,
           NEW bps \in Nat
    PROVE  AddChild(size, kids, k, before, c, bps) \in Counts
<1>1. before.bits \in Nat /\ before.vi \in Nat
  BY DEF Counts
<1>2. <<kids[k].from, kids[k].to, c, before.vi>> \in Nodes(E)
  BY <1>1, KidsAreNodes DEF AgreeBelow
<1>3. PICK child \in Counts : child = size[<<kids[k].from, kids[k].to, c, before.vi>>]
  BY <1>2
<1>4. child.bits \in Nat /\ child.vi \in Nat /\ VarintSize(child.bits) \in Nat
  BY VarintLength DEF Counts
<1>5. PICK skip \in Nat : skip = IF k < Len(kids) THEN bps + VarintSize(child.bits) ELSE 0
  BY <1>4
<1>6. before.bits + skip + child.bits \in Nat
  BY <1>1, <1>4
<1>7. [bits |-> before.bits + skip + child.bits, vi |-> child.vi] \in Counts
  BY <1>4, <1>6, CountsAre
<1> QED
  BY <1>3, <1>5, <1>7 DEF AddChild

LEMMA CountsUpExists ==
    ASSUME NEW E, NEW s, NEW e, NEW c, NEW kids, Splits(E, s, e, c, kids),
           NEW size \in [Nodes(E) -> Counts], NEW vi \in Nat, NEW bps \in Nat
    PROVE  \E after : CountsUp(after, size, kids, c, vi, bps)
<1>1. PICK n \in Nat : n = Len(kids)
  <2>1. kids \in Seq([from : Int, to : Int])
    BY DEF Splits
  <2> QED
    BY ONLY <2>1
<1> DEFINE next == [z \in (1..n) \X Counts |-> AddChild(size, kids, z[1], z[2], c, bps)]
<1>2. next \in [(1..n) \X Counts -> Counts]
  BY <1>1, AddChildType
<1>3. [bits |-> 0, vi |-> vi] \in Counts
  BY CountsAre
<1>4. PICK v0 : v0 = [bits |-> 0, vi |-> vi]
  OBVIOUS
<1>f. PICK f : CountsBy(f, v0, next, n, Counts)
  <2> HIDE DEF next
  <2> QED
    BY <1>2, <1>3, <1>4, CountingExists
<1>t. f \in [0..n -> Counts] /\ f[0] = v0 /\ \A k \in 1..n : f[k] = next[<<k, f[k - 1]>>]
  <2> HIDE DEF next
  <2> QED
    BY <1>f DEF CountsBy
<1>5. ASSUME NEW k \in 1..n PROVE f[k] = AddChild(size, kids, k, f[k - 1], c, bps)
  <2>1. f[k - 1] \in Counts
    BY <1>t
  <2> QED
    BY <1>t, <2>1
<1> QED
  BY <1>1, <1>4, <1>t, <1>5 DEF CountsUp

\* ChildrenSize ends with the last of these counts, whatever its sizes say of nodes
\* that are no smaller.
LEMMA ChildrenSizeIs ==
    ASSUME NEW E, NEW s, NEW e, NEW c, NEW kids, Splits(E, s, e, c, kids),
           NEW f, NEW vi \in Nat, NEW bps, NEW a, CountsUp(a, f, kids, c, vi, bps),
           NEW g, AgreeBelow(f, g, E, e - s)
    PROVE  ChildrenSize(g, kids, c, vi, bps) = a[Len(kids)]
<1>1. PICK n \in Nat : n = Len(kids)
  <2>1. kids \in Seq([from : Int, to : Int])
    BY DEF Splits
  <2> QED
    BY ONLY <2>1
<1> DEFINE Body1(h) == [k \in 0..n |->
            IF k = 0 THEN [bits |-> 0, vi |-> vi]
            ELSE LET before == h[k - 1]
                     child == g[<<kids[k].from, kids[k].to, c, before.vi>>]
                     skip == IF k < n THEN bps + VarintSize(child.bits) ELSE 0
                 IN  [bits |-> before.bits + skip + child.bits, vi |-> child.vi]]
           H == CHOOSE h : h = Body1(h)
<1>2. ChildrenSize(g, kids, c, vi, bps) = H[n]
  BY <1>1 DEF ChildrenSize
<1>3. ASSUME NEW h, NEW k \in 0..n
      PROVE  Body1(h)[k] = IF k = 0 THEN [bits |-> 0, vi |-> vi] ELSE AddChild(g, kids, k, h[k - 1], c, bps)
  BY <1>1 DEF AddChild
<1>4. ASSUME NEW k \in 1..n
      PROVE  AddChild(g, kids, k, a[k - 1], c, bps) = a[k]
  <2>1. a[k - 1] \in Counts /\ a[k] = AddChild(f, kids, k, a[k - 1], c, bps)
    BY <1>1 DEF CountsUp
  <2>2. PICK v \in Nat : v = a[k - 1].vi
    BY <2>1 DEF Counts
  <2>3. g[<<kids[k].from, kids[k].to, c, v>>] = f[<<kids[k].from, kids[k].to, c, v>>]
    BY <1>1, KidsAreNodes
  <2> QED
    BY <2>1, <2>2, <2>3 DEF AddChild
<1>5. a = [k \in 0..n |-> a[k]] /\ a[0] = [bits |-> 0, vi |-> vi]
  BY <1>1 DEF CountsUp
<1>6. a = Body1(a)
  <2>1. \A k \in 0..n : Body1(a)[k] = a[k]
    <3> HIDE DEF Body1
    <3>1. ASSUME NEW k \in 0..n PROVE Body1(a)[k] = a[k]
      <4>1. CASE k = 0
        BY <1>3, <1>5, <4>1
      <4>2. CASE k # 0
        <5>1. k \in 1..n
          BY <4>2
        <5> QED
          BY <1>3, <1>4, <4>2, <5>1
      <4> QED
        BY <4>1, <4>2
    <3> QED
      BY <3>1
  <2>2. Body1(a) = [k \in 0..n |-> Body1(a)[k]]
    OBVIOUS
  <2> HIDE DEF Body1
  <2> QED
    BY <1>5, <2>1, <2>2
<1>7. H = Body1(H)
  <2> HIDE DEF Body1
  <2> QED
    BY <1>6
<1> HIDE DEF H, Body1
<1> DEFINE good == {k \in Nat : k <= n => H[k] = a[k]}
<1>8. 0 \in good
  BY <1>3, <1>5, <1>7
<1>9. ASSUME NEW k \in Nat, k \in good PROVE k + 1 \in good
  <2> SUFFICES ASSUME k + 1 <= n PROVE H[k + 1] = a[k + 1]
    OBVIOUS
  <2>1. k + 1 \in 0..n /\ k + 1 \in 1..n /\ k + 1 # 0 /\ (k + 1) - 1 = k /\ H[k] = a[k]
    BY <1>9
  <2>2. H[k + 1] = AddChild(g, kids, k + 1, H[k], c, bps)
    BY <1>3, <1>7, <2>1
  <2>3. a[k + 1] = AddChild(g, kids, k + 1, a[k], c, bps)
    BY <1>4, <2>1
  <2> QED
    BY <2>1, <2>2, <2>3
<1>10. n \in good
  <2> HIDE DEF good
  <2> QED
    BY <1>8, <1>9, SetInduction
<1> QED
  BY <1>1, <1>2, <1>10

\* The size of a node is determined by those of smaller nodes.
LEMMA NodeSizeIs ==
    ASSUME NEW E, KeysAscend(E), NEW s, NEW e, NEW p, IsNode(E, s, e, p), NEW vi \in Nat,
           NEW hv, NEW bps \in Nat, NEW f \in [Nodes(E) -> Counts], NEW g, AgreeBelow(f, g, E, e - s)
    PROVE  /\ NodeSize(E, hv, bps, g, s, e, p, vi) = NodeSize(E, hv, bps, f, s, e, p, vi)
           /\ NodeSize(E, hv, bps, f, s, e, p, vi) \in Counts
<1>1. PICK c : c = CommonPrefix(E, s, e, p)
  OBVIOUS
<1>2. c \in p..Len(E[s].key) /\ IsNode(E, s, e, c) /\ PartAt(E, s, e, c) /\ p \in Nat /\ c \in Nat
  <2>1. c \in p..Len(E[s].key) /\ IsNode(E, s, e, c) /\ PartAt(E, s, e, c)
    BY <1>1, PrefixExists
  <2> QED
    BY <2>1 DEF IsNode
<1>3. PICK kids : kids = ChildrenOf(E, s, e, c)
  OBVIOUS
<1>4. Splits(E, s, e, c, kids) /\ Len(kids) \in Nat
  <2>1. Splits(E, s, e, c, kids)
    BY <1>2, <1>3, ChildrenSplit
  <2>2. kids \in Seq([from : Int, to : Int])
    BY <2>1 DEF Splits
  <2>3. Len(kids) \in Nat
    BY ONLY <2>2
  <2> QED
    BY <2>1, <2>3
<1>5. PICK next \in Nat : next = NextIndex(vi, Len(E[s].key) = c)
  BY DEF NextIndex
<1>6. PICK a : CountsUp(a, f, kids, c, next, bps)
  BY <1>4, CountsUpExists
<1>7. ChildrenSize(g, kids, c, next, bps) = a[Len(kids)]
  BY <1>4, <1>6, ChildrenSizeIs
<1>8. ChildrenSize(f, kids, c, next, bps) = a[Len(kids)]
  <2>1. AgreeBelow(f, f, E, e - s)
    BY DEF AgreeBelow
  <2> QED
    BY <1>4, <1>6, <2>1, ChildrenSizeIs
<1>9. PICK below \in Counts : below = a[Len(kids)]
  BY <1>4, <1>6 DEF CountsUp
<1>10. PICK own : own = (c - p) * bps
               + (IF ~(Len(E[s].key) = c) THEN 0
                  ELSE bps + (IF CarriesValue(hv, E[s]) THEN VarintSize(vi) ELSE 0))
  OBVIOUS
<1>11. own \in Nat
  <2>1. VarintSize(vi) \in Nat
    BY VarintLength
  <2>2. PICK d \in Nat : d = c - p
    BY <1>2
  <2>3. d * bps \in Nat
    OBVIOUS
  <2>4. PICK w \in Nat : w = IF CarriesValue(hv, E[s]) THEN VarintSize(vi) ELSE 0
    BY <2>1
  <2>5. PICK t \in Nat : t = IF ~(Len(E[s].key) = c) THEN 0 ELSE bps + w
    OBVIOUS
  <2> QED
    BY <1>10, <2>2, <2>3, <2>4, <2>5
<1>12. ASSUME NEW h, ChildrenSize(h, kids, c, next, bps) = below
       PROVE  NodeSize(E, hv, bps, h, s, e, p, vi) =
                IF kids = <<>> THEN [bits |-> own, vi |-> next]
                ELSE [bits |-> own + bps + VarintSize(Len(kids)) + below.bits, vi |-> below.vi]
  BY <1>1, <1>3, <1>5, <1>10, <1>12 DEF NodeSize
<1>13. [bits |-> own, vi |-> next] \in Counts
  BY <1>11, CountsAre
<1>14. [bits |-> own + bps + VarintSize(Len(kids)) + below.bits, vi |-> below.vi] \in Counts
  <2>1. VarintSize(Len(kids)) \in Nat /\ below.bits \in Nat /\ below.vi \in Nat
    BY <1>4, VarintLength DEF Counts
  <2>2. own + bps + VarintSize(Len(kids)) + below.bits \in Nat
    BY <1>11, <2>1
  <2> QED
    BY <2>1, <2>2, CountsAre
<1> QED
  BY <1>7, <1>8, <1>9, <1>12, <1>13, <1>14

SizesOf(E, hv, bps, size) ==
    [x \in Nodes(E) |-> NodeSize(E, hv, bps, size, x[1], x[2], x[3], x[4])]

\* Every member of Nodes(E) is a node with an index.
LEMMA NodeParts ==
    ASSUME NEW E, KeysAscend(E), NEW x \in Nodes(E)
    PROVE  /\ x = <<x[1], x[2], x[3], x[4]>> /\ IsNode(E, x[1], x[2], x[3]) /\ x[4] \in Nat
           /\ x[2] - x[1] \in Nat
<1>1. x = <<x[1], x[2], x[3], x[4]>> /\ x[4] \in Nat
  BY DEF Nodes
<1>2. IsNode(E, x[1], x[2], x[3])
  BY <1>1 DEF Nodes, IsNode
<1>3. x[2] - x[1] \in Nat
  BY <1>2 DEF IsNode, KeysAscend
<1> QED
  BY <1>1, <1>2, <1>3

\* S gives the size of every node.
Sizes(S, E, hv, bps) ==
    /\ S \in [Nodes(E) -> Counts]
    /\ \A x \in Nodes(E) : S[x] = NodeSize(E, hv, bps, S, x[1], x[2], x[3], x[4])
    /\ \A x \in Nodes(E) : SubtreeSize(E, x[1], x[2], x[3], hv, x[4], bps) = S[x]

\* trie_subtree_size is defined at every node, and satisfies its equation.
LEMMA SubtreeSizeIs ==
    ASSUME NEW E, KeysAscend(E), NEW hv, NEW bps \in Nat
    PROVE  \E S : Sizes(S, E, hv, bps)
<1> DEFINE D == Nodes(E)
           size == [x \in D |-> x[2] - x[1]]
           step == [z \in D \X [D -> Counts] |-> NodeSize(E, hv, bps, z[2], z[1][1], z[1][2], z[1][3], z[1][4])]
<1>1. size \in [D -> Nat]
  BY NodeParts
<1>2. ASSUME NEW x \in D, NEW f \in [D -> Counts]
      PROVE  /\ NodeSize(E, hv, bps, f, x[1], x[2], x[3], x[4]) \in Counts
             /\ \A g : AgreeBelow(f, g, E, x[2] - x[1]) =>
                    NodeSize(E, hv, bps, g, x[1], x[2], x[3], x[4])
                    = NodeSize(E, hv, bps, f, x[1], x[2], x[3], x[4])
  <2>1. IsNode(E, x[1], x[2], x[3]) /\ x[4] \in Nat
    BY NodeParts
  <2>2. AgreeBelow(f, f, E, x[2] - x[1])
    BY DEF AgreeBelow
  <2> QED
    BY <2>1, <2>2, NodeSizeIs
<1>3. \A x \in D : \A f \in [D -> Counts] :
        step[<<x, f>>] = NodeSize(E, hv, bps, f, x[1], x[2], x[3], x[4])
  OBVIOUS
<1>4. step \in [D \X [D -> Counts] -> Counts]
  BY <1>2
<1>5. ASSUME NEW x \in D, NEW f \in [D -> Counts], NEW g \in [D -> Counts],
             \A y \in D : size[y] < size[x] => f[y] = g[y]
      PROVE  step[<<x, f>>] = step[<<x, g>>]
  <2>1. AgreeBelow(f, g, E, x[2] - x[1])
    BY <1>5 DEF AgreeBelow
  <2> HIDE DEF step
  <2> QED
    BY <1>2, <1>3, <2>1
<1>6. IsRecursion(step, size, D, Counts)
  <2> HIDE DEF step, size, D
  <2> QED
    BY <1>1, <1>4, <1>5 DEF IsRecursion
<1>7. [bits |-> 0, vi |-> 0] \in Counts
  BY CountsAre
<1>8. PICK f : IsDefinedBy(f, step, D, Counts)
  <2> HIDE DEF step, size, D
  <2> QED
    BY <1>6, <1>7, RecursionExists
<1>9. f \in [D -> Counts] /\ \A x \in D : f[x] = NodeSize(E, hv, bps, f, x[1], x[2], x[3], x[4])
  <2> HIDE DEF step
  <2> QED
    BY <1>3, <1>8 DEF IsDefinedBy
<1> DEFINE G == CHOOSE h : h = SizesOf(E, hv, bps, h)
<1>10. G = SizesOf(E, hv, bps, G)
  <2>1. f = SizesOf(E, hv, bps, f)
    BY <1>9 DEF SizesOf
  <2> QED
    BY <2>1
<1> HIDE DEF G
<1>11. \A x \in D : G[x] = NodeSize(E, hv, bps, G, x[1], x[2], x[3], x[4])
  BY <1>10 DEF SizesOf
<1> DEFINE good == {n \in Nat : AgreeBelow(f, G, E, n)}
<1>12. 0 \in good
  BY NodeParts DEF AgreeBelow
<1>13. ASSUME NEW n \in Nat, n \in good PROVE n + 1 \in good
  <2> SUFFICES ASSUME NEW x \in D, x[2] - x[1] < n + 1 PROVE f[x] = G[x]
    BY DEF AgreeBelow
  <2>1. x[2] - x[1] \in Nat
    BY NodeParts
  <2>2. AgreeBelow(f, G, E, x[2] - x[1])
    <3> SUFFICES ASSUME NEW y \in D, y[2] - y[1] < x[2] - x[1] PROVE f[y] = G[y]
      BY DEF AgreeBelow
    <3>1. y[2] - y[1] \in Nat
      BY NodeParts
    <3>2. y[2] - y[1] < n
      BY <2>1, <3>1
    <3>3. AgreeBelow(f, G, E, n)
      BY <1>13
    <3> QED
      BY <3>2, <3>3 DEF AgreeBelow
  <2> QED
    BY <1>2, <1>9, <1>11, <2>2
<1>14. \A n \in Nat : AgreeBelow(f, G, E, n)
  <2>1. \A n \in Nat : n \in good
    <3> HIDE DEF good
    <3> QED
      BY <1>12, <1>13, SetInduction
  <2> QED
    BY <2>1
<1>15. ASSUME NEW x \in D PROVE SubtreeSize(E, x[1], x[2], x[3], hv, x[4], bps) = f[x]
  <2>1. x[2] - x[1] + 1 \in Nat /\ x[2] - x[1] < x[2] - x[1] + 1
    BY NodeParts
  <2>2. f[x] = G[x]
    BY <1>14, <2>1 DEF AgreeBelow
  <2>3. SubtreeSize(E, x[1], x[2], x[3], hv, x[4], bps) = G[<<x[1], x[2], x[3], x[4]>>]
    BY DEF SubtreeSize, SizesOf, G
  <2>4. x = <<x[1], x[2], x[3], x[4]>>
    BY NodeParts
  <2> QED
    BY <2>2, <2>3, <2>4
<1> QED
  BY <1>9, <1>15 DEF Sizes

-----------------------------------------------------------------------------
\* What trie_write appends: bits, and the index of the next terminal.
Written == [bits : Seq(Bit), vi : Nat]
Counted(w) == [bits |-> Len(w.bits), vi |-> w.vi]

LEMMA WrittenIs ==
    ASSUME NEW b \in Seq(Bit), NEW v \in Nat
    PROVE  /\ [bits |-> b, vi |-> v] \in Written
           /\ Counted([bits |-> b, vi |-> v]) = [bits |-> Len(b), vi |-> v]
  BY DEF Written, Counted

LEMMA WrittenParts ==
    ASSUME NEW w \in Written
    PROVE  w.bits \in Seq(Bit) /\ w.vi \in Nat /\ Counted(w) \in Counts
<1>1. w.bits \in Seq(Bit) /\ w.vi \in Nat
  BY DEF Written
<1>2. Len(w.bits) \in Nat
  BY <1>1
<1> QED
  BY <1>1, <1>2, CountsAre DEF Counted

\* Symbols of one width, one after the other.
LEMMA FlattenLength ==
    ASSUME NEW b \in Nat
    PROVE  \A s \in Seq(Seq(Bit)) : (\A i \in 1..Len(s) : Len(s[i]) = b) =>
                FlattenSeq(s) \in Seq(Bit) /\ Len(FlattenSeq(s)) = Len(s) * b
<1> DEFINE Fine(s) == (\A i \in 1..Len(s) : Len(s[i]) = b) =>
                        FlattenSeq(s) \in Seq(Bit) /\ Len(FlattenSeq(s)) = Len(s) * b
           good == {n \in Nat : \A s \in Seq(Seq(Bit)) : Len(s) = n => Fine(s)}
<1>1. 0 \in good
  <2> SUFFICES ASSUME NEW s \in Seq(Seq(Bit)), Len(s) = 0 PROVE Fine(s)
    OBVIOUS
  <2>1. FlattenSeq(s) = s
    BY DEF FlattenSeq
  <2>2. s = <<>>
    OBVIOUS
  <2>3. s \in Seq(Bit) /\ 0 * b = 0
    BY <2>2
  <2> QED
    BY <2>1, <2>3
<1>2. ASSUME NEW n \in Nat, n \in good PROVE n + 1 \in good
  <2> SUFFICES ASSUME NEW s \in Seq(Seq(Bit)), Len(s) = n + 1, \A i \in 1..Len(s) : Len(s[i]) = b
               PROVE  FlattenSeq(s) \in Seq(Bit) /\ Len(FlattenSeq(s)) = Len(s) * b
    OBVIOUS
  <2>0. \A i \in 1..n : s[i] \in Seq(Bit)
    OBVIOUS
  <2>1. PICK t : t = [i \in 1..n |-> s[i]]
    OBVIOUS
  <2>2. PICK x \in Seq(Bit) : x = s[n + 1]
    OBVIOUS
  <2>3. t \in Seq(Seq(Bit)) /\ Len(t) = n /\ \A i \in 1..n : t[i] = s[i]
    <3>1. PICK V : V = Seq(Bit)
      OBVIOUS
    <3>2. \A i \in 1..n : s[i] \in V
      BY <2>0, <3>1
    <3>3. t \in Seq(V) /\ Len(t) = n /\ \A i \in 1..n : t[i] = s[i]
      BY ONLY <2>1, <3>2, n \in Nat
    <3> QED
      BY <3>1, <3>3
  <2>4. s = Append(t, x)
    BY <2>2, <2>3
  <2>5. FlattenSeq(s) = FlattenSeq(t) \o x
    BY <2>4, FlattenLast
  <2>6. Fine(t)
    BY <1>2, <2>3
  <2>7. FlattenSeq(t) \in Seq(Bit) /\ Len(FlattenSeq(t)) = n * b
    <3>1. \A i \in 1..n : Len(t[i]) = Len(s[i]) /\ i \in 1..Len(s)
      BY <2>3
    <3>2. \A i \in 1..Len(t) : Len(t[i]) = b
      BY <2>3, <3>1
    <3>3. FlattenSeq(t) \in Seq(Bit) /\ Len(FlattenSeq(t)) = Len(t) * b
      BY ONLY <2>6, <3>2
    <3> QED
      BY ONLY <2>3, <3>3
  <2>8. PICK y \in Seq(Bit) : y = FlattenSeq(t)
    BY <2>7
  <2>9. y \o x \in Seq(Bit) /\ Len(y \o x) = Len(y) + Len(x) /\ Len(x) = b
    BY <2>2
  <2>10. (n + 1) * b = n * b + b
    OBVIOUS
  <2> QED
    BY <2>5, <2>7, <2>8, <2>9, <2>10
<1>3. \A n \in Nat : n \in good
  <2> HIDE DEF good
  <2> QED
    BY <1>1, <1>2, SetInduction
<1>4. ASSUME NEW s \in Seq(Seq(Bit)) PROVE Fine(s)
  <2>1. Len(s) \in Nat
    OBVIOUS
  <2> HIDE DEF Fine
  <2> QED
    BY <1>3, <2>1
<1> QED
  BY <1>4

\* The symbols of all bytes in use are numbers.
SymbolsFit(E, sym) ==
    /\ sym.bps \in Nat
    /\ \A i \in 1..Len(E) : \A j \in 1..Len(E[i].key) : sym.map[E[i].key[j]] \in Nat

\* The SKIP in front of a child carries the size of the child.
LEMMA SkipToIs ==
    ASSUME NEW E, NEW hv, NEW bps \in Nat, NEW S, Sizes(S, E, hv, bps),
           NEW child, NEW c, NEW vi, <<child.from, child.to, c, vi>> \in Nodes(E)
    PROVE  /\ SkipTo(E, child, c, hv, vi, bps) \in Seq(Bit)
           /\ Len(SkipTo(E, child, c, hv, vi, bps))
                = bps + VarintSize(S[<<child.from, child.to, c, vi>>].bits)
<1>1. PICK x \in Nodes(E) : x = <<child.from, child.to, c, vi>>
  OBVIOUS
<1>2. S[x] \in Counts /\ S[x] = SubtreeSize(E, child.from, child.to, c, hv, vi, bps)
  <2>1. x[1] = child.from /\ x[2] = child.to /\ x[3] = c /\ x[4] = vi
    BY <1>1
  <2> QED
    BY <2>1 DEF Sizes
<1>3. PICK n \in Nat : n = S[x].bits
  BY <1>2 DEF Counts
<1>4. VarintU(n) \in Seq(Bit) /\ Len(VarintU(n)) = VarintSize(n)
  BY VarintLength
<1>5. Bits(Ctrl.SKIP, bps) \in Seq(Bit) /\ Len(Bits(Ctrl.SKIP, bps)) = bps
  BY BitsType DEF Ctrl
<1>6. PICK a \in Seq(Bit) : a = Bits(Ctrl.SKIP, bps) /\ Len(a) = bps
  BY <1>5
<1>7. PICK b \in Seq(Bit) : b = VarintU(n) /\ Len(b) = VarintSize(n)
  BY <1>4
<1>8. a \o b \in Seq(Bit) /\ Len(a \o b) = Len(a) + Len(b)
  OBVIOUS
<1> QED
  BY <1>1, <1>2, <1>3, <1>6, <1>7, <1>8 DEF SkipTo

\* One child more is written, behind its SKIP.
AddWritten(E, hv, bps, write, kids, k, before, c) ==
    LET child == write[<<kids[k].from, kids[k].to, c, before.vi>>]
        skip == IF k < Len(kids) THEN SkipTo(E, kids[k], c, hv, before.vi, bps) ELSE <<>>
    IN  [bits |-> before.bits \o skip \o child.bits, vi |-> child.vi]

\* What is written after each child.
WritesUp(after, E, hv, bps, write, kids, c, vi) ==
    /\ after \in [0..Len(kids) -> Written]
    /\ after[0] = [bits |-> <<>>, vi |-> vi]
    /\ \A k \in 1..Len(kids) : after[k] = AddWritten(E, hv, bps, write, kids, k, after[k - 1], c)

\* Below n bytes of difference, what is written has the size that S gives.
CountedBelow(f, S, E, n) == \A y \in Nodes(E) : y[2] - y[1] < n => Counted(f[y]) = S[y]

LEMMA AddWrittenIs ==
    ASSUME NEW E, NEW s, NEW e, NEW c, NEW kids, Splits(E, s, e, c, kids),
           NEW hv, NEW bps \in Nat, NEW S, Sizes(S, E, hv, bps),
           NEW f \in [Nodes(E) -> Written], NEW k \in 1..Len(kids), NEW before \in Written
    PROVE  /\ AddWritten(E, hv, bps, f, kids, k, before, c) \in Written
           /\ CountedBelow(f, S, E, e - s) =>
                Counted(AddWritten(E, hv, bps, f, kids, k, before, c))
                  = AddChild(S, kids, k, Counted(before), c, bps)
<1>1. before.bits \in Seq(Bit) /\ before.vi \in Nat
  BY WrittenParts
<1>2. PICK y : y = <<kids[k].from, kids[k].to, c, before.vi>>
  OBVIOUS
<1>3. y \in Nodes(E)
  BY <1>1, <1>2, KidsAreNodes DEF AgreeBelow
<1>4. CountedBelow(f, S, E, e - s) => Counted(f[y]) = S[y]
  <2>1. y[2] - y[1] < e - s
    <3>1. kids[k].to - kids[k].from < e - s
      BY DEF Splits
    <3> QED
      BY <1>2, <3>1
  <2> QED
    BY <1>3, <2>1 DEF CountedBelow
<1>5. PICK child \in Written : child = f[y]
  BY <1>3
<1>6. child.bits \in Seq(Bit) /\ child.vi \in Nat
  BY WrittenParts
<1>7. PICK skip : skip = IF k < Len(kids) THEN SkipTo(E, kids[k], c, hv, before.vi, bps) ELSE <<>>
  OBVIOUS
<1>8. /\ skip \in Seq(Bit)
      /\ Len(skip) = IF k < Len(kids) THEN bps + VarintSize(S[y].bits) ELSE 0
  <2>1. CASE k < Len(kids)
    <3>1. /\ SkipTo(E, kids[k], c, hv, before.vi, bps) \in Seq(Bit)
          /\ Len(SkipTo(E, kids[k], c, hv, before.vi, bps))
                = bps + VarintSize(S[<<kids[k].from, kids[k].to, c, before.vi>>].bits)
      BY <1>2, <1>3, SkipToIs
    <3> QED
      BY <1>2, <1>7, <2>1, <3>1
  <2>2. CASE ~(k < Len(kids))
    BY <1>7, <2>2
  <2> QED
    BY <2>1, <2>2
<1>9. PICK all : all = before.bits \o skip \o child.bits
  OBVIOUS
<1>10. all \in Seq(Bit) /\ Len(all) = Len(before.bits) + Len(skip) + Len(child.bits)
  <2>1. PICK a \in Seq(Bit) : a = before.bits
    BY <1>1
  <2>2. PICK b \in Seq(Bit) : b = child.bits
    BY <1>6
  <2>3. skip \in Seq(Bit)
    BY <1>8
  <2>4. a \o skip \o b \in Seq(Bit) /\ Len(a \o skip \o b) = Len(a) + Len(skip) + Len(b)
    BY ONLY <2>3, a \in Seq(Bit), b \in Seq(Bit), ConcatThree
  <2> QED
    BY ONLY <1>9, <2>1, <2>2, <2>4
<1>11. AddWritten(E, hv, bps, f, kids, k, before, c) = [bits |-> all, vi |-> child.vi]
  BY <1>2, <1>5, <1>7, <1>9 DEF AddWritten
<1>12. [bits |-> all, vi |-> child.vi] \in Written
  BY <1>6, <1>10, WrittenIs
<1>13. Counted([bits |-> all, vi |-> child.vi]) = [bits |-> Len(all), vi |-> child.vi]
  BY <1>6, <1>10, WrittenIs
<1>14. ASSUME CountedBelow(f, S, E, e - s)
       PROVE  AddChild(S, kids, k, Counted(before), c, bps) = [bits |-> Len(all), vi |-> child.vi]
  <2>1. S[y] = [bits |-> Len(child.bits), vi |-> child.vi]
    BY <1>4, <1>5, <1>14 DEF Counted
  <2>2. Counted(before).bits = Len(before.bits) /\ Counted(before).vi = before.vi
    BY DEF Counted
  <2>3. S[y].bits = Len(child.bits) /\ S[y].vi = child.vi
    BY <2>1
  <2> QED
    BY <1>2, <1>8, <1>10, <2>2, <2>3 DEF AddChild
<1> QED
  BY <1>11, <1>12, <1>13, <1>14

LEMMA WritesUpExists ==
    ASSUME NEW E, NEW s, NEW e, NEW c, NEW kids, Splits(E, s, e, c, kids),
           NEW hv, NEW bps \in Nat, NEW S, Sizes(S, E, hv, bps),
           NEW write \in [Nodes(E) -> Written], NEW vi \in Nat
    PROVE  \E after : WritesUp(after, E, hv, bps, write, kids, c, vi)
<1>1. PICK n \in Nat : n = Len(kids)
  <2>1. kids \in Seq([from : Int, to : Int])
    BY DEF Splits
  <2> QED
    BY ONLY <2>1
<1> DEFINE next == [z \in (1..n) \X Written |-> AddWritten(E, hv, bps, write, kids, z[1], z[2], c)]
<1>2. next \in [(1..n) \X Written -> Written]
  BY <1>1, AddWrittenIs
<1>3. [bits |-> <<>>, vi |-> vi] \in Written
  <2>1. <<>> \in Seq(Bit)
    OBVIOUS
  <2> QED
    BY <2>1, WrittenIs
<1>4. PICK v0 : v0 = [bits |-> <<>>, vi |-> vi]
  OBVIOUS
<1>f. PICK f : CountsBy(f, v0, next, n, Written)
  <2> HIDE DEF next
  <2> QED
    BY <1>2, <1>3, <1>4, CountingExists
<1>t. f \in [0..n -> Written] /\ f[0] = v0 /\ \A k \in 1..n : f[k] = next[<<k, f[k - 1]>>]
  <2> HIDE DEF next
  <2> QED
    BY <1>f DEF CountsBy
<1>5. ASSUME NEW k \in 1..n PROVE f[k] = AddWritten(E, hv, bps, write, kids, k, f[k - 1], c)
  <2>1. f[k - 1] \in Written
    BY <1>t
  <2> QED
    BY <1>t, <2>1
<1> QED
  BY <1>1, <1>4, <1>t, <1>5 DEF WritesUp

LEMMA ChildrenWriteIs ==
    ASSUME NEW E, NEW s, NEW e, NEW c, NEW kids, Splits(E, s, e, c, kids),
           NEW hv, NEW sym, NEW f, NEW vi \in Nat, NEW a, WritesUp(a, E, hv, sym.bps, f, kids, c, vi),
           NEW g, AgreeBelow(f, g, E, e - s)
    PROVE  ChildrenWrite(E, hv, sym, g, kids, c, vi) = a[Len(kids)]
<1>1. PICK n \in Nat : n = Len(kids)
  <2>1. kids \in Seq([from : Int, to : Int])
    BY DEF Splits
  <2> QED
    BY ONLY <2>1
<1> DEFINE Body1(h) == [k \in 0..n |->
            IF k = 0 THEN [bits |-> <<>>, vi |-> vi]
            ELSE LET before == h[k - 1]
                     child == g[<<kids[k].from, kids[k].to, c, before.vi>>]
                     skip == IF k < n THEN SkipTo(E, kids[k], c, hv, before.vi, sym.bps) ELSE <<>>
                 IN  [bits |-> before.bits \o skip \o child.bits, vi |-> child.vi]]
           H == CHOOSE h : h = Body1(h)
<1>2. ChildrenWrite(E, hv, sym, g, kids, c, vi) = H[n]
  BY <1>1 DEF ChildrenWrite
<1>3. ASSUME NEW h, NEW k \in 0..n
      PROVE  Body1(h)[k] = IF k = 0 THEN [bits |-> <<>>, vi |-> vi]
                           ELSE AddWritten(E, hv, sym.bps, g, kids, k, h[k - 1], c)
  BY <1>1 DEF AddWritten
<1>4. ASSUME NEW k \in 1..n
      PROVE  AddWritten(E, hv, sym.bps, g, kids, k, a[k - 1], c) = a[k]
  <2>1. a[k - 1] \in Written /\ a[k] = AddWritten(E, hv, sym.bps, f, kids, k, a[k - 1], c)
    BY <1>1 DEF WritesUp
  <2>2. PICK v \in Nat : v = a[k - 1].vi
    BY <2>1, WrittenParts
  <2>3. g[<<kids[k].from, kids[k].to, c, v>>] = f[<<kids[k].from, kids[k].to, c, v>>]
    BY <1>1, KidsAreNodes
  <2> QED
    BY <2>1, <2>2, <2>3 DEF AddWritten
<1>5. a = [k \in 0..n |-> a[k]] /\ a[0] = [bits |-> <<>>, vi |-> vi]
  BY <1>1 DEF WritesUp
<1>6. a = Body1(a)
  <2>1. \A k \in 0..n : Body1(a)[k] = a[k]
    <3> HIDE DEF Body1
    <3>1. ASSUME NEW k \in 0..n PROVE Body1(a)[k] = a[k]
      <4>1. CASE k = 0
        BY <1>3, <1>5, <4>1
      <4>2. CASE k # 0
        <5>1. k \in 1..n
          BY <4>2
        <5> QED
          BY <1>3, <1>4, <4>2, <5>1
      <4> QED
        BY <4>1, <4>2
    <3> QED
      BY <3>1
  <2>2. Body1(a) = [k \in 0..n |-> Body1(a)[k]]
    OBVIOUS
  <2> HIDE DEF Body1
  <2> QED
    BY <1>5, <2>1, <2>2
<1>7. H = Body1(H)
  <2> HIDE DEF Body1
  <2> QED
    BY <1>6
<1> HIDE DEF H, Body1
<1> DEFINE good == {k \in Nat : k <= n => H[k] = a[k]}
<1>8. 0 \in good
  BY <1>3, <1>5, <1>7
<1>9. ASSUME NEW k \in Nat, k \in good PROVE k + 1 \in good
  <2> SUFFICES ASSUME k + 1 <= n PROVE H[k + 1] = a[k + 1]
    OBVIOUS
  <2>1. k + 1 \in 0..n /\ k + 1 \in 1..n /\ k + 1 # 0 /\ (k + 1) - 1 = k /\ H[k] = a[k]
    BY <1>9
  <2>2. H[k + 1] = AddWritten(E, hv, sym.bps, g, kids, k + 1, H[k], c)
    BY <1>3, <1>7, <2>1
  <2>3. a[k + 1] = AddWritten(E, hv, sym.bps, g, kids, k + 1, a[k], c)
    BY <1>4, <2>1
  <2> QED
    BY <2>1, <2>2, <2>3
<1>10. n \in good
  <2> HIDE DEF good
  <2> QED
    BY <1>8, <1>9, SetInduction
<1> QED
  BY <1>1, <1>2, <1>10

\* If the children have their sizes, so have all of them together.
LEMMA ChildrenCounted ==
    ASSUME NEW E, NEW s, NEW e, NEW c, NEW kids, Splits(E, s, e, c, kids),
           NEW hv, NEW bps \in Nat, NEW S, Sizes(S, E, hv, bps),
           NEW f \in [Nodes(E) -> Written], CountedBelow(f, S, E, e - s),
           NEW vi \in Nat, NEW a, WritesUp(a, E, hv, bps, f, kids, c, vi)
    PROVE  ChildrenSize(S, kids, c, vi, bps) = Counted(a[Len(kids)])
<1>1. PICK n \in Nat : n = Len(kids)
  <2>1. kids \in Seq([from : Int, to : Int])
    BY DEF Splits
  <2> QED
    BY ONLY <2>1
<1>2. a \in [0..n -> Written] /\ a[0] = [bits |-> <<>>, vi |-> vi]
  BY <1>1 DEF WritesUp
<1>3. ASSUME NEW k \in 1..n PROVE a[k] = AddWritten(E, hv, bps, f, kids, k, a[k - 1], c) /\ a[k - 1] \in Written
  BY <1>1, <1>2 DEF WritesUp
<1> DEFINE b == [k \in 0..n |-> Counted(a[k])]
<1>4. b \in [0..n -> Counts]
  BY <1>2, WrittenParts
<1>5. b[0] = [bits |-> 0, vi |-> vi]
  <2>1. <<>> \in Seq(Bit) /\ Len(<<>>) = 0
    OBVIOUS
  <2>2. Counted([bits |-> <<>>, vi |-> vi]) = [bits |-> 0, vi |-> vi]
    BY <2>1, WrittenIs
  <2> QED
    BY <1>2, <2>2
<1>6. ASSUME NEW k \in 1..n PROVE b[k] = AddChild(S, kids, k, b[k - 1], c, bps)
  <2>1. k \in 0..n /\ k - 1 \in 0..n /\ k \in 1..Len(kids)
    BY <1>1
  <2>2. Counted(AddWritten(E, hv, bps, f, kids, k, a[k - 1], c))
          = AddChild(S, kids, k, Counted(a[k - 1]), c, bps)
    BY <1>3, <2>1, AddWrittenIs
  <2> QED
    BY <1>3, <2>1, <2>2
<1>7. b[n] = Counted(a[n])
  OBVIOUS
<1> HIDE DEF b
<1>8. CountsUp(b, S, kids, c, vi, bps)
  BY <1>1, <1>4, <1>5, <1>6 DEF CountsUp
<1>9. AgreeBelow(S, S, E, e - s)
  BY DEF AgreeBelow
<1>10. ChildrenSize(S, kids, c, vi, bps) = b[Len(kids)]
  BY <1>8, <1>9, ChildrenSizeIs
<1> QED
  BY <1>1, <1>7, <1>10

\* The bytes a node adds to the prefix, a symbol each.
Literals(E, sym, s, p, c) ==
    FlattenSeq([i \in 1..c - p |-> Bits(sym.map[E[s].key[p + i]], sym.bps)])

LEMMA LiteralsAre ==
    ASSUME NEW E, KeysAscend(E), NEW sym, SymbolsFit(E, sym), NEW s \in 1..Len(E),
           NEW p \in Nat, NEW c \in Nat, c \in p..Len(E[s].key)
    PROVE  /\ Literals(E, sym, s, p, c) \in Seq(Bit)
           /\ Len(Literals(E, sym, s, p, c)) = (c - p) * sym.bps
<1>1. PICK d \in Nat : d = c - p
  OBVIOUS
<1>2. PICK t : t = [i \in 1..d |-> Bits(sym.map[E[s].key[p + i]], sym.bps)]
  OBVIOUS
<1>3. PICK b \in Nat : b = sym.bps
  BY DEF SymbolsFit
<1>4. ASSUME NEW i \in 1..d PROVE t[i] \in Seq(Bit) /\ Len(t[i]) = b
  <2>1. E[s].key \in Seq(Nat)
    BY DEF KeysAscend
  <2>2. p + i \in 1..Len(E[s].key)
    BY <1>1, <2>1
  <2>3. sym.map[E[s].key[p + i]] \in Nat
    BY <2>2 DEF SymbolsFit
  <2>4. PICK v \in Nat : v = sym.map[E[s].key[p + i]]
    BY <2>3
  <2>5. Bits(v, b) \in Seq(Bit) /\ Len(Bits(v, b)) = b
    BY BitsType
  <2> QED
    BY <1>2, <1>3, <2>4, <2>5
<1>5. t \in Seq(Seq(Bit)) /\ Len(t) = d
  <2>1. PICK V : V = Seq(Bit)
    OBVIOUS
  <2>2. \A i \in 1..d : t[i] \in V
    BY <1>4, <2>1
  <2>3. t = [i \in 1..d |-> t[i]]
    BY <1>2
  <2>4. t \in Seq(V) /\ Len(t) = d
    BY ONLY <2>2, <2>3, d \in Nat
  <2> QED
    BY <2>1, <2>4
<1>6. \A i \in 1..Len(t) : Len(t[i]) = b
  BY <1>4, <1>5
<1>7. FlattenSeq(t) \in Seq(Bit) /\ Len(FlattenSeq(t)) = Len(t) * b
  BY <1>5, <1>6, FlattenLength
<1> QED
  BY <1>1, <1>2, <1>3, <1>5, <1>7 DEF Literals

LEMMA TerminalIs ==
    ASSUME NEW entry, NEW hv, NEW vi \in Nat, NEW bps \in Nat
    PROVE  /\ Terminal(entry, hv, vi, bps) \in Seq(Bit)
           /\ Len(Terminal(entry, hv, vi, bps))
                = bps + (IF CarriesValue(hv, entry) THEN VarintSize(vi) ELSE 0)
<1>1. PICK a \in Seq(Bit) : a = Bits(Ctrl.END_VAL, bps) /\ Len(a) = bps
  BY BitsType DEF Ctrl
<1>2. PICK b \in Seq(Bit) : b = VarintU(vi) /\ Len(b) = VarintSize(vi)
  BY VarintLength
<1>3. PICK d \in Seq(Bit) : d = Bits(Ctrl.END, bps) /\ Len(d) = bps
  BY BitsType DEF Ctrl
<1>4. a \o b \in Seq(Bit) /\ Len(a \o b) = Len(a) + Len(b)
  BY ONLY a \in Seq(Bit), b \in Seq(Bit)
<1>5. CASE CarriesValue(hv, entry)
  <2>1. Terminal(entry, hv, vi, bps) = a \o b
    BY <1>1, <1>2, <1>5 DEF Terminal
  <2> QED
    BY <1>1, <1>2, <1>4, <1>5, <2>1
<1>6. CASE ~CarriesValue(hv, entry)
  <2>1. Terminal(entry, hv, vi, bps) = d
    BY <1>3, <1>6 DEF Terminal
  <2> QED
    BY <1>3, <1>6, <2>1
<1> QED
  BY <1>5, <1>6

\* What is written of a node before its children.
Own(E, hv, sym, s, p, c, vi) ==
    Literals(E, sym, s, p, c)
        \o (IF Len(E[s].key) = c THEN Terminal(E[s], hv, vi, sym.bps) ELSE <<>>)

LEMMA OwnIs ==
    ASSUME NEW E, KeysAscend(E), NEW sym, SymbolsFit(E, sym), NEW s \in 1..Len(E),
           NEW p \in Nat, NEW c \in Nat, c \in p..Len(E[s].key), NEW hv, NEW vi \in Nat
    PROVE  /\ Own(E, hv, sym, s, p, c, vi) \in Seq(Bit)
           /\ Len(Own(E, hv, sym, s, p, c, vi))
                = (c - p) * sym.bps
                  + (IF ~(Len(E[s].key) = c) THEN 0
                     ELSE sym.bps + (IF CarriesValue(hv, E[s]) THEN VarintSize(vi) ELSE 0))
<1>1. PICK a \in Seq(Bit) : a = Literals(E, sym, s, p, c) /\ Len(a) = (c - p) * sym.bps
  BY LiteralsAre
<1>2. PICK b : b = IF Len(E[s].key) = c THEN Terminal(E[s], hv, vi, sym.bps) ELSE <<>>
  OBVIOUS
<1>3. /\ b \in Seq(Bit)
      /\ Len(b) = IF ~(Len(E[s].key) = c) THEN 0
                  ELSE sym.bps + (IF CarriesValue(hv, E[s]) THEN VarintSize(vi) ELSE 0)
  <2>1. sym.bps \in Nat
    BY DEF SymbolsFit
  <2>2. /\ Terminal(E[s], hv, vi, sym.bps) \in Seq(Bit)
        /\ Len(Terminal(E[s], hv, vi, sym.bps))
             = sym.bps + (IF CarriesValue(hv, E[s]) THEN VarintSize(vi) ELSE 0)
    BY <2>1, TerminalIs
  <2>3. <<>> \in Seq(Bit) /\ Len(<<>>) = 0
    OBVIOUS
  <2>4. CASE Len(E[s].key) = c
    BY <1>2, <2>2, <2>4
  <2>5. CASE ~(Len(E[s].key) = c)
    BY <1>2, <2>3, <2>5
  <2> QED
    BY <2>4, <2>5
<1>4. a \o b \in Seq(Bit) /\ Len(a \o b) = Len(a) + Len(b)
  <2>1. b \in Seq(Bit)
    BY <1>3
  <2> QED
    BY ONLY <2>1, a \in Seq(Bit)
<1>5. Own(E, hv, sym, s, p, c, vi) = a \o b
  BY <1>1, <1>2 DEF Own
<1> QED
  BY <1>1, <1>3, <1>4, <1>5

\* What is written of a node is determined by what is written of smaller ones, and
\* if that has the size counted, so has the node.
LEMMA NodeWriteIs ==
    ASSUME NEW E, KeysAscend(E), NEW s, NEW e, NEW p, IsNode(E, s, e, p), NEW vi \in Nat,
           NEW hv, NEW sym, SymbolsFit(E, sym), NEW S, Sizes(S, E, hv, sym.bps),
           NEW f \in [Nodes(E) -> Written], NEW g, AgreeBelow(f, g, E, e - s)
    PROVE  /\ NodeWrite(E, hv, sym, g, s, e, p, vi) = NodeWrite(E, hv, sym, f, s, e, p, vi)
           /\ NodeWrite(E, hv, sym, f, s, e, p, vi) \in Written
           /\ CountedBelow(f, S, E, e - s) =>
                Counted(NodeWrite(E, hv, sym, f, s, e, p, vi)) = NodeSize(E, hv, sym.bps, S, s, e, p, vi)
<1>0. sym.bps \in Nat
  BY DEF SymbolsFit
<1>1. PICK c : c = CommonPrefix(E, s, e, p)
  OBVIOUS
<1>2. /\ c \in p..Len(E[s].key) /\ IsNode(E, s, e, c) /\ PartAt(E, s, e, c) /\ p \in Nat /\ c \in Nat
      /\ s \in 1..Len(E)
  <2>1. c \in p..Len(E[s].key) /\ IsNode(E, s, e, c) /\ PartAt(E, s, e, c)
    BY <1>1, PrefixExists
  <2> QED
    BY <2>1 DEF IsNode
<1>3. PICK kids : kids = ChildrenOf(E, s, e, c)
  OBVIOUS
<1>4. Splits(E, s, e, c, kids)
  BY <1>2, <1>3, ChildrenSplit
<1>n. PICK n \in Nat : n = Len(kids)
  <2>1. kids \in Seq([from : Int, to : Int])
    BY <1>4 DEF Splits
  <2> QED
    BY ONLY <2>1
<1>5. PICK next \in Nat : next = NextIndex(vi, Len(E[s].key) = c)
  BY DEF NextIndex
<1>6. PICK a : WritesUp(a, E, hv, sym.bps, f, kids, c, next)
  BY <1>0, <1>4, WritesUpExists
<1>7. ChildrenWrite(E, hv, sym, g, kids, c, next) = a[n]
  BY <1>4, <1>6, <1>n, ChildrenWriteIs
<1>8. ChildrenWrite(E, hv, sym, f, kids, c, next) = a[n]
  <2>1. AgreeBelow(f, f, E, e - s)
    BY DEF AgreeBelow
  <2> QED
    BY <1>4, <1>6, <1>n, <2>1, ChildrenWriteIs
<1>9. PICK below \in Written : below = a[n]
  BY <1>6, <1>n DEF WritesUp
<1>10. PICK own : own = Own(E, hv, sym, s, p, c, vi)
  OBVIOUS
<1>11. /\ own \in Seq(Bit)
       /\ Len(own) = (c - p) * sym.bps
                  + (IF ~(Len(E[s].key) = c) THEN 0
                     ELSE sym.bps + (IF CarriesValue(hv, E[s]) THEN VarintSize(vi) ELSE 0))
  BY <1>2, <1>10, OwnIs
<1>12. PICK branch \in Seq(Bit) : branch = Bits(Ctrl.BRANCH, sym.bps) /\ Len(branch) = sym.bps
  BY <1>0, BitsType DEF Ctrl
<1>13. PICK number \in Seq(Bit) : number = VarintU(n) /\ Len(number) = VarintSize(n)
  BY VarintLength
<1>14. below.bits \in Seq(Bit) /\ below.vi \in Nat
  BY WrittenParts
<1>15. PICK all : all = own \o branch \o number \o below.bits
  OBVIOUS
<1>16. all \in Seq(Bit) /\ Len(all) = Len(own) + Len(branch) + Len(number) + Len(below.bits)
  <2>1. own \in Seq(Bit)
    BY <1>11
  <2>2. PICK b \in Seq(Bit) : b = below.bits
    BY <1>14
  <2>5. /\ own \o branch \o number \in Seq(Bit)
        /\ Len(own \o branch \o number) = Len(own) + Len(branch) + Len(number)
    BY ONLY <2>1, branch \in Seq(Bit), number \in Seq(Bit), ConcatThree
  <2>3. PICK d \in Seq(Bit) : d = own \o branch \o number /\ Len(d) = Len(own) + Len(branch) + Len(number)
    BY ONLY <2>5
  <2>4. d \o b \in Seq(Bit) /\ Len(d \o b) = Len(d) + Len(b)
    BY ONLY d \in Seq(Bit), b \in Seq(Bit)
  <2> QED
    BY ONLY <1>15, <2>2, <2>3, <2>4
<1>17. ASSUME NEW h, ChildrenWrite(E, hv, sym, h, kids, c, next) = below
       PROVE  NodeWrite(E, hv, sym, h, s, e, p, vi) =
                IF kids = <<>> THEN [bits |-> own, vi |-> next] ELSE [bits |-> all, vi |-> below.vi]
  <2>1. NodeWrite(E, hv, sym, h, s, e, p, vi) =
          IF kids = <<>> THEN [bits |-> own, vi |-> next]
          ELSE [ bits |-> own \o Bits(Ctrl.BRANCH, sym.bps) \o VarintU(Len(kids))
                            \o ChildrenWrite(E, hv, sym, h, kids, c, next).bits,
                 vi |-> ChildrenWrite(E, hv, sym, h, kids, c, next).vi ]
    BY ONLY <1>1, <1>3, <1>5, <1>10, Zenon DEF NodeWrite, Own, Literals
  <2> QED
    BY ONLY <1>12, <1>13, <1>15, <1>17, <1>n, <2>1
<1>18. /\ [bits |-> own, vi |-> next] \in Written
       /\ Counted([bits |-> own, vi |-> next]) = [bits |-> Len(own), vi |-> next]
  BY <1>11, WrittenIs
<1>19. /\ [bits |-> all, vi |-> below.vi] \in Written
       /\ Counted([bits |-> all, vi |-> below.vi]) = [bits |-> Len(all), vi |-> below.vi]
  BY <1>14, <1>16, WrittenIs
<1>20. ASSUME CountedBelow(f, S, E, e - s)
       PROVE  NodeSize(E, hv, sym.bps, S, s, e, p, vi) =
                IF kids = <<>> THEN [bits |-> Len(own), vi |-> next] ELSE [bits |-> Len(all), vi |-> below.vi]
  <2>1. PICK size : size = Counted(below)
    OBVIOUS
  <2>2. ChildrenSize(S, kids, c, next, sym.bps) = size
    BY <1>0, <1>4, <1>6, <1>9, <1>20, <1>n, <2>1, ChildrenCounted
  <2>3. size.bits = Len(below.bits) /\ size.vi = below.vi
    BY <2>1 DEF Counted
  <2>4. NodeSize(E, hv, sym.bps, S, s, e, p, vi) =
           IF kids = <<>> THEN [bits |-> Len(own), vi |-> next]
           ELSE [bits |-> Len(own) + sym.bps + VarintSize(n) + size.bits, vi |-> size.vi]
    BY <1>1, <1>3, <1>5, <1>11, <1>n, <2>2 DEF NodeSize
  <2> QED
    BY <1>12, <1>13, <1>16, <2>3, <2>4
<1> QED
  BY <1>7, <1>8, <1>9, <1>17, <1>18, <1>19, <1>20

WritesOf(E, hv, sym, write) ==
    [x \in Nodes(E) |-> NodeWrite(E, hv, sym, write, x[1], x[2], x[3], x[4])]

\* S is the size of what is written at every node.
WritesSizes(E, hv, sym, S) ==
    \A x \in Nodes(E) :
        /\ TrieWrite(E, x[1], x[2], x[3], hv, x[4], sym) \in Written
        /\ Counted(TrieWrite(E, x[1], x[2], x[3], hv, x[4], sym)) = S[x]

\* trie_write is defined at every node, and what it writes has the size counted.
LEMMA TrieWriteIs ==
    ASSUME NEW E, KeysAscend(E), NEW hv, NEW sym, SymbolsFit(E, sym), NEW S, Sizes(S, E, hv, sym.bps)
    PROVE  WritesSizes(E, hv, sym, S)
<1> DEFINE D == Nodes(E)
           size == [x \in D |-> x[2] - x[1]]
           step == [z \in D \X [D -> Written] |-> NodeWrite(E, hv, sym, z[2], z[1][1], z[1][2], z[1][3], z[1][4])]
<1>1. size \in [D -> Nat]
  BY NodeParts
<1>2. ASSUME NEW x \in D, NEW f \in [D -> Written]
      PROVE  /\ NodeWrite(E, hv, sym, f, x[1], x[2], x[3], x[4]) \in Written
             /\ \A g : AgreeBelow(f, g, E, x[2] - x[1]) =>
                    NodeWrite(E, hv, sym, g, x[1], x[2], x[3], x[4])
                    = NodeWrite(E, hv, sym, f, x[1], x[2], x[3], x[4])
             /\ CountedBelow(f, S, E, x[2] - x[1]) =>
                    Counted(NodeWrite(E, hv, sym, f, x[1], x[2], x[3], x[4])) = S[x]
  <2>1. IsNode(E, x[1], x[2], x[3]) /\ x[4] \in Nat
    BY NodeParts
  <2>2. AgreeBelow(f, f, E, x[2] - x[1])
    BY DEF AgreeBelow
  <2>3. S[x] = NodeSize(E, hv, sym.bps, S, x[1], x[2], x[3], x[4])
    BY DEF Sizes
  <2> QED
    BY <2>1, <2>2, <2>3, NodeWriteIs
<1>3. \A x \in D : \A f \in [D -> Written] :
        step[<<x, f>>] = NodeWrite(E, hv, sym, f, x[1], x[2], x[3], x[4])
  OBVIOUS
<1>4. step \in [D \X [D -> Written] -> Written]
  BY <1>2
<1>5. ASSUME NEW x \in D, NEW f \in [D -> Written], NEW g \in [D -> Written],
             \A y \in D : size[y] < size[x] => f[y] = g[y]
      PROVE  step[<<x, f>>] = step[<<x, g>>]
  <2>1. AgreeBelow(f, g, E, x[2] - x[1])
    BY <1>5 DEF AgreeBelow
  <2>2. step[<<x, f>>] = NodeWrite(E, hv, sym, f, x[1], x[2], x[3], x[4])
    BY <1>3
  <2>3. step[<<x, g>>] = NodeWrite(E, hv, sym, g, x[1], x[2], x[3], x[4])
    BY <1>3
  <2>4. NodeWrite(E, hv, sym, g, x[1], x[2], x[3], x[4]) = NodeWrite(E, hv, sym, f, x[1], x[2], x[3], x[4])
    BY <1>2, <2>1
  <2> HIDE DEF step
  <2> QED
    BY ONLY <2>2, <2>3, <2>4
<1>6. IsRecursion(step, size, D, Written)
  <2> HIDE DEF step, size, D
  <2> QED
    BY <1>1, <1>4, <1>5 DEF IsRecursion
<1>7. [bits |-> <<>>, vi |-> 0] \in Written
  <2>1. <<>> \in Seq(Bit)
    OBVIOUS
  <2> QED
    BY <2>1, WrittenIs
<1>8. PICK f : IsDefinedBy(f, step, D, Written)
  <2> HIDE DEF step, size, D
  <2> QED
    BY <1>6, <1>7, RecursionExists
<1>9. f \in [D -> Written] /\ \A x \in D : f[x] = NodeWrite(E, hv, sym, f, x[1], x[2], x[3], x[4])
  <2> HIDE DEF step
  <2> QED
    BY <1>3, <1>8 DEF IsDefinedBy
<1> DEFINE G == CHOOSE h : h = WritesOf(E, hv, sym, h)
<1>10. G = WritesOf(E, hv, sym, G)
  <2>1. f = WritesOf(E, hv, sym, f)
    BY <1>9 DEF WritesOf
  <2> QED
    BY <2>1
<1> HIDE DEF G
<1>11. \A x \in D : G[x] = NodeWrite(E, hv, sym, G, x[1], x[2], x[3], x[4])
  BY <1>10 DEF WritesOf
\* Below any size, the two functions agree and their bits are counted right.
<1> DEFINE good == {n \in Nat : AgreeBelow(f, G, E, n) /\ CountedBelow(f, S, E, n)}
<1>12. 0 \in good
  BY NodeParts DEF AgreeBelow, CountedBelow
<1>13. ASSUME NEW n \in Nat, n \in good PROVE n + 1 \in good
  <2>1. ASSUME NEW x \in D, x[2] - x[1] < n + 1 PROVE f[x] = G[x] /\ Counted(f[x]) = S[x]
    <3>1. x[2] - x[1] \in Nat
      BY NodeParts
    <3>2. AgreeBelow(f, G, E, n) /\ CountedBelow(f, S, E, n)
      BY <1>13
    <3>3. ASSUME NEW y \in D, y[2] - y[1] < x[2] - x[1] PROVE f[y] = G[y] /\ Counted(f[y]) = S[y]
      <4>1. y[2] - y[1] \in Nat
        BY NodeParts
      <4>2. y[2] - y[1] < n
        BY <2>1, <3>1, <3>3, <4>1
      <4> QED
        BY <3>2, <4>2 DEF AgreeBelow, CountedBelow
    <3>4. AgreeBelow(f, G, E, x[2] - x[1]) /\ CountedBelow(f, S, E, x[2] - x[1])
      BY <3>3 DEF AgreeBelow, CountedBelow
    <3> QED
      BY <1>2, <1>9, <1>11, <3>4
  <2> QED
    BY <2>1 DEF AgreeBelow, CountedBelow
<1>14. \A n \in Nat : n \in good
  <2> HIDE DEF good
  <2> QED
    BY <1>12, <1>13, SetInduction
<1>15. ASSUME NEW x \in D
       PROVE  /\ TrieWrite(E, x[1], x[2], x[3], hv, x[4], sym) \in Written
              /\ Counted(TrieWrite(E, x[1], x[2], x[3], hv, x[4], sym)) = S[x]
  <2>1. x[2] - x[1] + 1 \in Nat /\ x[2] - x[1] < x[2] - x[1] + 1
    BY NodeParts
  <2>2. f[x] = G[x] /\ Counted(f[x]) = S[x]
    BY <1>14, <2>1 DEF AgreeBelow, CountedBelow
  <2>3. TrieWrite(E, x[1], x[2], x[3], hv, x[4], sym) = G[<<x[1], x[2], x[3], x[4]>>]
    BY DEF TrieWrite, WritesOf, G
  <2>4. x = <<x[1], x[2], x[3], x[4]>>
    BY NodeParts
  <2>5. f[x] \in Written
    BY <1>9
  <2> QED
    BY <2>2, <2>3, <2>4, <2>5
<1> QED
  BY <1>15 DEF WritesSizes

\* Every entry below a node takes one slot.
SlotsBelow(S, E, n) == \A y \in Nodes(E) : y[2] - y[1] < n => S[y].vi = y[4] + (y[2] - y[1])

LEMMA ChildrenSlots ==
    ASSUME NEW E, NEW s \in Nat, NEW e \in Nat, NEW c, NEW kids, Splits(E, s, e, c, kids),
           NEW S, SlotsBelow(S, E, e - s), NEW bps, NEW vi \in Nat,
           NEW a, CountsUp(a, S, kids, c, vi, bps), kids # <<>>
    PROVE  a[Len(kids)].vi = vi + (e - FirstBelow(E, s, c))
<1>1. PICK n \in Nat : n = Len(kids) /\ n >= 1
  <2>1. kids \in Seq([from : Int, to : Int])
    BY DEF Splits
  <2> QED
    BY ONLY <2>1, kids # <<>>
<1>2. PICK first \in Nat : first = FirstBelow(E, s, c)
  BY DEF FirstBelow
<1>3. /\ kids[1].from = first /\ kids[n].to = e
      /\ \A k \in 1..n - 1 : kids[k].to = kids[k + 1].from
      /\ \A k \in 1..n : kids[k].from \in Int /\ kids[k].to \in Int
  <2>1. kids[1].from = first /\ kids[n].to = e /\ \A k \in 1..n - 1 : kids[k].to = kids[k + 1].from
    BY <1>1, <1>2 DEF Splits
  <2>2. kids \in Seq([from : Int, to : Int])
    BY DEF Splits
  <2>3. \A k \in 1..n : kids[k] \in [from : Int, to : Int]
    <3>1. PICK R : R = [from : Int, to : Int]
      OBVIOUS
    <3>2. kids \in Seq(R)
      BY <2>2, <3>1
    <3>3. \A k \in 1..n : kids[k] \in R
      BY ONLY <1>1, <3>2
    <3> QED
      BY ONLY <3>1, <3>3
  <2> QED
    BY <2>1, <2>3
<1>4. ASSUME NEW k \in 1..n
      PROVE  a[k].vi = a[k - 1].vi + (kids[k].to - kids[k].from) /\ a[k - 1].vi \in Nat
  <2>1. a[k - 1] \in Counts /\ a[k] = AddChild(S, kids, k, a[k - 1], c, bps)
    BY <1>1 DEF CountsUp
  <2>2. PICK v \in Nat : v = a[k - 1].vi
    BY <2>1 DEF Counts
  <2>3. PICK y : y = <<kids[k].from, kids[k].to, c, v>>
    OBVIOUS
  <2>4. AgreeBelow(S, S, E, e - s)
    BY DEF AgreeBelow
  <2>5. y \in Nodes(E)
    BY <1>1, <2>3, <2>4, KidsAreNodes
  <2>6. y[2] - y[1] < e - s
    <3>1. kids[k].to - kids[k].from < e - s
      BY <1>1 DEF Splits
    <3> QED
      BY <2>3, <3>1
  <2>7. S[y].vi = v + (kids[k].to - kids[k].from)
    BY <2>3, <2>5, <2>6 DEF SlotsBelow
  <2>8. a[k].vi = S[y].vi
    BY <2>1, <2>2, <2>3 DEF AddChild
  <2> QED
    BY <2>2, <2>7, <2>8
<1> DEFINE good == {k \in Nat : k + 1 <= n => a[k + 1].vi = vi + (kids[k + 1].to - first)}
<1>5. 0 \in good
  <2>1. a[0].vi = vi
    BY DEF CountsUp
  <2>2. 1 \in 1..n /\ 1 - 1 = 0
    BY <1>1
  <2>3. a[1].vi = a[0].vi + (kids[1].to - kids[1].from)
    BY <1>4, <2>2
  <2> QED
    BY <1>3, <2>1, <2>3
<1>6. ASSUME NEW k \in Nat, k \in good PROVE k + 1 \in good
  <2> SUFFICES ASSUME (k + 1) + 1 <= n PROVE a[(k + 1) + 1].vi = vi + (kids[(k + 1) + 1].to - first)
    OBVIOUS
  <2>1. PICK j \in Nat : j = k + 1 /\ j \in 1..n - 1 /\ j \in 1..n /\ j + 1 \in 1..n /\ (j + 1) - 1 = j
    OBVIOUS
  <2>2. a[j].vi = vi + (kids[j].to - first)
    BY <1>6, <2>1
  <2>3. a[j + 1].vi = a[j].vi + (kids[j + 1].to - kids[j + 1].from)
    BY <1>4, <2>1
  <2>4. kids[j].to = kids[j + 1].from /\ kids[j + 1].from \in Int /\ kids[j + 1].to \in Int
    BY <1>3, <2>1
  <2>5. PICK x \in Int : x = kids[j].to
    BY <2>4
  <2>6. PICK y \in Int : y = kids[j + 1].to
    BY <2>4
  <2>7. a[j + 1].vi = (vi + (x - first)) + (y - x)
    BY ONLY <2>2, <2>3, <2>4, <2>5, <2>6
  <2>8. a[j + 1].vi = vi + (y - first)
    BY ONLY <2>7, x \in Int, y \in Int, vi \in Nat, first \in Nat
  <2> QED
    BY ONLY <2>1, <2>6, <2>8
<1>7. n - 1 \in good
  <2>1. n - 1 \in Nat
    BY <1>1
  <2> HIDE DEF good
  <2> QED
    BY <1>5, <1>6, <2>1, SetInduction
<1>8. a[n].vi = vi + (kids[n].to - first)
  <2>1. (n - 1) + 1 = n
    OBVIOUS
  <2> QED
    BY <1>7, <2>1
<1> QED
  BY <1>1, <1>2, <1>3, <1>8

LEMMA NodeSlots ==
    ASSUME NEW E, KeysAscend(E), NEW s, NEW e, NEW p, IsNode(E, s, e, p), NEW vi \in Nat,
           NEW hv, NEW bps \in Nat, NEW S \in [Nodes(E) -> Counts], SlotsBelow(S, E, e - s)
    PROVE  NodeSize(E, hv, bps, S, s, e, p, vi).vi = vi + (e - s)
<1>1. PICK c : c = CommonPrefix(E, s, e, p)
  OBVIOUS
<1>2. /\ IsNode(E, s, e, c) /\ PartAt(E, s, e, c)
      /\ s \in Nat /\ e \in Nat /\ s < e
  <2>1. IsNode(E, s, e, c) /\ PartAt(E, s, e, c)
    BY <1>1, PrefixExists
  <2>2. s \in 1..Len(E) /\ e \in 1..Len(E) + 1 /\ s < e /\ Len(E) \in Nat
    BY DEF IsNode, KeysAscend
  <2> QED
    BY <2>1, <2>2
<1>3. PICK kids : kids = ChildrenOf(E, s, e, c)
  OBVIOUS
<1>4. Splits(E, s, e, c, kids)
  BY <1>2, <1>3, ChildrenSplit
<1>5. PICK next \in Nat : next = NextIndex(vi, Len(E[s].key) = c)
  BY DEF NextIndex
<1>6. PICK a : CountsUp(a, S, kids, c, next, bps)
  BY <1>4, CountsUpExists
<1>7. PICK below : below = a[Len(kids)]
  OBVIOUS
<1>8. ChildrenSize(S, kids, c, next, bps) = below
  <2>1. AgreeBelow(S, S, E, e - s)
    BY DEF AgreeBelow
  <2> QED
    BY <1>4, <1>6, <1>7, <2>1, ChildrenSizeIs
<1>9. NodeSize(E, hv, bps, S, s, e, p, vi).vi = IF kids = <<>> THEN next ELSE below.vi
  <2>1. PICK own : own = (c - p) * bps
               + (IF ~(Len(E[s].key) = c) THEN 0
                  ELSE bps + (IF CarriesValue(hv, E[s]) THEN VarintSize(vi) ELSE 0))
    OBVIOUS
  <2>2. NodeSize(E, hv, bps, S, s, e, p, vi) =
           IF kids = <<>> THEN [bits |-> own, vi |-> next]
           ELSE [bits |-> own + bps + VarintSize(Len(kids)) + below.bits, vi |-> below.vi]
    BY <1>1, <1>3, <1>5, <1>8, <2>1 DEF NodeSize
  <2> QED
    BY ONLY <2>2
<1>10. PICK first \in Nat : first = FirstBelow(E, s, c) /\ next - vi = first - s
  BY <1>2, <1>5 DEF FirstBelow, NextIndex
<1>11. CASE kids = <<>>
  <2>1. first = e
    BY <1>4, <1>10, <1>11 DEF Splits
  <2> QED
    BY <1>2, <1>9, <1>10, <1>11, <2>1
<1>12. CASE kids # <<>>
  <2>1. below.vi = next + (e - first)
    BY <1>2, <1>4, <1>6, <1>7, <1>10, <1>12, ChildrenSlots
  <2>2. next + (e - first) = vi + (e - s)
    BY ONLY <1>2, <1>10, next \in Nat, vi \in Nat, first \in Nat
  <2> QED
    BY ONLY <1>9, <1>12, <2>1, <2>2
<1> QED
  BY <1>11, <1>12

SlotsAre(S, E) == \A x \in Nodes(E) : S[x].vi = x[4] + (x[2] - x[1])

LEMMA SlotsCounted ==
    ASSUME NEW E, KeysAscend(E), NEW hv, NEW bps \in Nat, NEW S, Sizes(S, E, hv, bps)
    PROVE  SlotsAre(S, E)
<1> DEFINE good == {n \in Nat : SlotsBelow(S, E, n)}
<1>1. 0 \in good
  BY NodeParts DEF SlotsBelow
<1>2. ASSUME NEW n \in Nat, n \in good PROVE n + 1 \in good
  <2> SUFFICES ASSUME NEW x \in Nodes(E), x[2] - x[1] < n + 1 PROVE S[x].vi = x[4] + (x[2] - x[1])
    BY DEF SlotsBelow
  <2>1. IsNode(E, x[1], x[2], x[3]) /\ x[4] \in Nat /\ x[2] - x[1] \in Nat
    BY NodeParts
  <2>2. SlotsBelow(S, E, x[2] - x[1])
    <3>1. SlotsBelow(S, E, n)
      BY <1>2
    <3>2. ASSUME NEW y \in Nodes(E), y[2] - y[1] < x[2] - x[1] PROVE y[2] - y[1] < n
      <4>1. y[2] - y[1] \in Nat
        BY NodeParts
      <4> QED
        BY <2>1, <3>2, <4>1
    <3> QED
      BY <3>1, <3>2 DEF SlotsBelow
  <2>3. S \in [Nodes(E) -> Counts] /\ S[x] = NodeSize(E, hv, bps, S, x[1], x[2], x[3], x[4])
    BY DEF Sizes
  <2>4. NodeSize(E, hv, bps, S, x[1], x[2], x[3], x[4]).vi = x[4] + (x[2] - x[1])
    BY <2>1, <2>2, <2>3, NodeSlots
  <2> QED
    BY <2>3, <2>4
<1>3. \A n \in Nat : n \in good
  <2> HIDE DEF good
  <2> QED
    BY <1>1, <1>2, SetInduction
<1>4. ASSUME NEW x \in Nodes(E) PROVE S[x].vi = x[4] + (x[2] - x[1])
  <2>1. x[2] - x[1] \in Nat /\ x[2] - x[1] + 1 \in Nat /\ x[2] - x[1] < x[2] - x[1] + 1
    BY NodeParts
  <2>2. SlotsBelow(S, E, x[2] - x[1] + 1)
    BY <1>3, <2>1
  <2> QED
    BY <2>1, <2>2 DEF SlotsBelow
<1> QED
  BY <1>4 DEF SlotsAre

-----------------------------------------------------------------------------
\* The width of a symbol and the codes of the bytes are numbers.
BytesOnly(E) ==
    /\ DOMAIN E = 1..Len(E)
    /\ \A i \in 1..Len(E) : E[i].key \in Seq(0..255)

LEMMA WidthExists ==
    ASSUME NEW total \in 6..262
    PROVE  \E b \in 1..9 : 2^b >= total /\ 2^(b - 1) < total
<1>1. 2^2 = 4 /\ 2^3 = 8 /\ 2^4 = 16 /\ 2^5 = 32 /\ 2^6 = 64 /\ 2^7 = 128 /\ 2^8 = 256 /\ 2^9 = 512
  OBVIOUS
<1>2. CASE total \in 6..8
  <2>1. 2^3 >= total /\ 2^(3 - 1) < total
    BY <1>1, <1>2
  <2> QED
    BY <2>1
<1>3. CASE total \in 9..16
  <2>1. 2^4 >= total /\ 2^(4 - 1) < total
    BY <1>1, <1>3
  <2> QED
    BY <2>1
<1>4. CASE total \in 17..32
  <2>1. 2^5 >= total /\ 2^(5 - 1) < total
    BY <1>1, <1>4
  <2> QED
    BY <2>1
<1>5. CASE total \in 33..64
  <2>1. 2^6 >= total /\ 2^(6 - 1) < total
    BY <1>1, <1>5
  <2> QED
    BY <2>1
<1>6. CASE total \in 65..128
  <2>1. 2^7 >= total /\ 2^(7 - 1) < total
    BY <1>1, <1>6
  <2> QED
    BY <2>1
<1>7. CASE total \in 129..256
  <2>1. 2^8 >= total /\ 2^(8 - 1) < total
    BY <1>1, <1>7
  <2> QED
    BY <2>1
<1>8. CASE total \in 257..262
  <2>1. 2^9 >= total /\ 2^(9 - 1) < total
    BY <1>1, <1>8
  <2> QED
    BY <2>1
<1>9. total \in 6..8 \/ total \in 9..16 \/ total \in 17..32 \/ total \in 33..64
      \/ total \in 65..128 \/ total \in 129..256 \/ total \in 257..262
  OBVIOUS
<1> QED
  BY <1>2, <1>3, <1>4, <1>5, <1>6, <1>7, <1>8, <1>9

\* The bytes in use.
UsedBytes(E) == UNION {ToSet(E[i].key) : i \in DOMAIN E}

LEMMA UsedAreFew ==
    ASSUME NEW E, BytesOnly(E)
    PROVE  /\ UsedBytes(E) \in SUBSET (0..255)
           /\ IsFiniteSet(UsedBytes(E)) /\ Cardinality(UsedBytes(E)) \in 0..256
<1> DEFINE used == UNION {ToSet(E[i].key) : i \in DOMAIN E}
<1>1. used \in SUBSET (0..255)
  <2>0. PICK B : B = 0..255
    OBVIOUS
  <2> SUFFICES ASSUME NEW x \in used PROVE x \in B
    BY <2>0
  <2>1. PICK i \in DOMAIN E : x \in ToSet(E[i].key)
    OBVIOUS
  <2>2. PICK k : k = E[i].key
    OBVIOUS
  <2>3. k \in Seq(B)
    BY <2>0, <2>2 DEF BytesOnly
  <2>4. \A j \in DOMAIN k : k[j] \in B
    BY ONLY <2>3
  <2> QED
    BY <2>1, <2>2, <2>4 DEF ToSet
<1>2. IsFiniteSet(used) /\ Cardinality(used) \in 0..256
  <2>1. PICK B : B = 0..255
    OBVIOUS
  <2>b. IsFiniteSet(B) /\ Cardinality(B) = 256
    <3>1. PICK lo \in Int : lo = 0
      OBVIOUS
    <3>2. PICK hi \in Int : hi = 255
      OBVIOUS
    <3>3. IsFiniteSet(lo..hi) /\ Cardinality(lo..hi) = IF lo > hi THEN 0 ELSE hi - lo + 1
      BY ONLY lo \in Int, hi \in Int, FS_Interval
    <3> QED
      BY ONLY <2>1, <3>1, <3>2, <3>3
  <2> HIDE DEF used
  <2>c. used \in SUBSET B
    BY <1>1, <2>1
  <2>d. IsFiniteSet(used) /\ Cardinality(used) <= Cardinality(B)
    BY ONLY <2>b, <2>c, FS_Subset
  <2>2. IsFiniteSet(used) /\ Cardinality(used) <= 256
    BY ONLY <2>b, <2>d
  <2>3. Cardinality(used) \in Nat
    BY <2>2, FS_CardinalityType
  <2> QED
    BY ONLY <2>2, <2>3
<1>3. UsedBytes(E) = used
  BY DEF UsedBytes
<1> HIDE DEF used
<1> QED
  BY ONLY <1>1, <1>2, <1>3

LEMMA AnalyzedFits ==
    ASSUME NEW E, BytesOnly(E), Len(E) \in Nat, NEW fixed \in Nat
    PROVE  SymbolsFit(E, AnalyzeSymbols(E, fixed))
<1> DEFINE used == UNION {ToSet(E[i].key) : i \in DOMAIN E}
           total == Cardinality(used) + NumControlCodes
           width == IF fixed # 0 THEN fixed
                    ELSE CHOOSE b \in 1..9 : 2^b >= total /\ 2^(b - 1) < total
<1>1. IsFiniteSet(used) /\ Cardinality(used) \in 0..256
  <2>1. PICK u : u = UsedBytes(E)
    OBVIOUS
  <2>2. IsFiniteSet(u) /\ Cardinality(u) \in 0..256
    BY <2>1, UsedAreFew
  <2>3. used = u
    BY <2>1 DEF UsedBytes
  <2> HIDE DEF used
  <2> QED
    BY ONLY <2>2, <2>3
<1>2. ASSUME NEW i \in 1..Len(E), NEW j \in 1..Len(E[i].key) PROVE E[i].key[j] \in used
  <2>1. PICK k \in Seq(0..255) : k = E[i].key
    BY DEF BytesOnly
  <2>2. k[j] \in ToSet(k)
    BY <2>1 DEF ToSet
  <2> QED
    BY <2>1, <2>2 DEF BytesOnly
<1>3. /\ AnalyzeSymbols(E, fixed).bps = width
      /\ AnalyzeSymbols(E, fixed).map = [b \in used |-> NumControlCodes + Cardinality({x \in used : x < b})]
  BY DEF AnalyzeSymbols
<1> HIDE DEF used
<1>4. width \in Nat
  <2>1. CASE fixed # 0
    BY <2>1
  <2>2. CASE fixed = 0
    <3>0. PICK card \in 0..256 : card = Cardinality(used)
      BY <1>1
    <3>1. total \in 6..262
      BY ONLY <3>0, card \in 0..256 DEF NumControlCodes, total
    <3>2. PICK t \in 6..262 : t = total
      BY <3>1
    <3>3. \E b \in 1..9 : 2^b >= t /\ 2^(b - 1) < t
      BY WidthExists
    <3>4. width = CHOOSE b \in 1..9 : 2^b >= t /\ 2^(b - 1) < t
      BY <2>2, <3>2
    <3>5. PICK w : w = CHOOSE b \in 1..9 : 2^b >= t /\ 2^(b - 1) < t
      OBVIOUS
    <3>6. w \in 1..9
      BY ONLY <3>3, <3>5
    <3>7. w \in Nat
      BY ONLY <3>6
    <3> HIDE DEF width
    <3> QED
      BY ONLY <3>4, <3>5, <3>7
  <2> QED
    BY <2>1, <2>2
<1>5. ASSUME NEW b \in used PROVE NumControlCodes + Cardinality({x \in used : x < b}) \in Nat
  <2>1. {x \in used : x < b} \in SUBSET used
    OBVIOUS
  <2>2. Cardinality({x \in used : x < b}) \in Nat
    BY <1>1, <2>1, FS_Subset, FS_CardinalityType
  <2> QED
    BY <2>2 DEF NumControlCodes
<1>6. ASSUME NEW i \in 1..Len(E), NEW j \in 1..Len(E[i].key)
      PROVE  AnalyzeSymbols(E, fixed).map[E[i].key[j]] \in Nat
  <2>1. PICK b \in used : b = E[i].key[j]
    BY <1>2
  <2> QED
    BY <1>3, <1>5, <2>1
<1> HIDE DEF width
<1> QED
  BY <1>3, <1>4, <1>6 DEF SymbolsFit
-----------------------------------------------------------------------------
(* Numbers *)

\* The equation of Number, and its counts from the first bit on.
NumberOf(value, bs) ==
    [i \in 0..Len(bs) |->
        IF i = 0 THEN 0
        ELSE LET v == 2 * value[i - 1] + bs[i] IN IF v > WordMax THEN WordMax ELSE v]
Values(H, bs) ==
    /\ H \in [0..Len(bs) -> Nat] /\ H[0] = 0
    /\ \A i \in 1..Len(bs) : H[i] = IF 2 * H[i - 1] + bs[i] > WordMax THEN WordMax ELSE 2 * H[i - 1] + bs[i]
    /\ \A i \in 0..Len(bs) : H[i] <= WordMax
    /\ Number(bs) = H[Len(bs)]

LEMMA WordIs == WordMax \in Nat /\ WordMax = 268435456
  BY DEF WordMax

LEMMA NumberIs ==
    ASSUME NEW bs \in Seq(Bit)
    PROVE  \E H : Values(H, bs)
<1>1. PICK n \in Nat : n = Len(bs)
  OBVIOUS
<1>2. \A i \in 1..n : bs[i] \in Nat
  BY <1>1 DEF Bit
<1>3. PICK W \in Nat : W = WordMax
  BY WordIs
<1> DEFINE Cap(v) == IF v > W THEN W ELSE v
           next == [z \in (1..n) \X (0..W) |-> Cap(2 * z[2] + bs[z[1]])]
<1>4. next \in [(1..n) \X (0..W) -> 0..W]
  BY <1>2
<1>5. 0 \in 0..W
  OBVIOUS
<1>6. PICK V : V = 0..W
  OBVIOUS
<1>7. PICK f : CountsBy(f, 0, next, n, V)
  <2>1. next \in [(1..n) \X V -> V] /\ 0 \in V
    BY <1>4, <1>5, <1>6
  <2> HIDE DEF next
  <2> QED
    BY <2>1, CountingExists
<1>8. f \in [0..n -> V] /\ f[0] = 0 /\ \A k \in 1..n : f[k] = next[<<k, f[k - 1]>>]
  <2> HIDE DEF next
  <2> QED
    BY <1>7 DEF CountsBy
<1>9. ASSUME NEW k \in 1..n PROVE f[k] = Cap(2 * f[k - 1] + bs[k])
  <2>1. f[k - 1] \in V
    BY <1>8
  <2> QED
    BY <1>6, <1>8, <2>1
<1> DEFINE H == CHOOSE h : h = NumberOf(h, bs)
<1>10. f = NumberOf(f, bs)
  <2>1. f = [i \in 0..n |-> f[i]]
    BY <1>8
  <2>2. \A i \in 0..n : f[i] = IF i = 0 THEN 0
            ELSE LET v == 2 * f[i - 1] + bs[i] IN IF v > W THEN W ELSE v
    BY <1>8, <1>9
  <2> QED
    BY <1>1, <1>3, <2>1, <2>2 DEF NumberOf
<1>11. H = NumberOf(H, bs)
  BY <1>10
<1>12. Number(bs) = H[n]
  BY <1>1 DEF Number, NumberOf
<1> HIDE DEF H
<1>13. H[0] = 0 /\ \A i \in 1..n : H[i] = Cap(2 * H[i - 1] + bs[i])
  BY <1>1, <1>3, <1>11 DEF NumberOf
<1>14. H = [i \in 0..n |-> H[i]]
  BY <1>1, <1>11 DEF NumberOf
<1> DEFINE good == {k \in Nat : k <= n => H[k] \in 0..W}
<1>15. ASSUME NEW k \in Nat, k \in good PROVE k + 1 \in good
  <2> SUFFICES ASSUME k + 1 <= n PROVE H[k + 1] \in 0..W
    OBVIOUS
  <2>1. H[k] \in 0..W /\ k + 1 \in 1..n /\ (k + 1) - 1 = k
    BY <1>15
  <2>2. H[k + 1] = Cap(2 * H[k] + bs[k + 1])
    BY <1>13, <2>1
  <2>3. bs[k + 1] \in Nat
    BY <1>2, <2>1
  <2>4. PICK x \in Nat : x = H[k]
    BY <2>1
  <2>5. PICK b \in Nat : b = bs[k + 1]
    BY <2>3
  <2>6. H[k + 1] = IF 2 * x + b > W THEN W ELSE 2 * x + b
    BY <2>2, <2>4, <2>5
  <2>7. (IF 2 * x + b > W THEN W ELSE 2 * x + b) \in 0..W
    BY ONLY W \in Nat, x \in Nat, b \in Nat
  <2> QED
    BY <2>6, <2>7
<1>16. \A k \in Nat : k \in good
  <2>1. 0 \in good
    BY <1>13
  <2> HIDE DEF good
  <2> QED
    BY <1>15, <2>1, SetInduction
<1>17. \A i \in 0..n : H[i] \in 0..W
  BY <1>16
<1>18. H \in [0..n -> Nat] /\ \A i \in 0..n : H[i] <= W
  BY <1>14, <1>17
<1> QED
  BY <1>1, <1>3, <1>12, <1>13, <1>18 DEF Values

LEMMA NumberType ==
    ASSUME NEW bs \in Seq(Bit)
    PROVE  Number(bs) \in Nat
<1>1. PICK H : Values(H, bs)
  BY NumberIs
<1>2. PICK n \in Nat : n = Len(bs)
  OBVIOUS
<1>3. H \in [0..n -> Nat] /\ Number(bs) = H[n]
  BY <1>1, <1>2 DEF Values
<1> QED
  BY ONLY <1>3, n \in Nat

\* A number that is far from WordMax gains a bit.
LEMMA OneBitMore ==
    ASSUME NEW y \in 0..127, NEW b \in 0..1, NEW h, h = IF 2 * y + b > WordMax THEN WordMax ELSE 2 * y + b
    PROVE  h = 2 * y + b
<1>1. 2 * y + b \in 0..255
  OBVIOUS
<1>2. PICK z \in 0..255 : z = 2 * y + b
  BY <1>1
<1>3. h = IF z > WordMax THEN WordMax ELSE z
  BY <1>2
<1>4. ~(z > WordMax)
  BY WordIs
<1> QED
  BY <1>2, <1>3, <1>4

\* The number that eight bits spell, and the eight bits it is spelled with.
LEMMA ByteIs ==
    ASSUME NEW bs \in Seq(Bit), Len(bs) = 8
    PROVE  /\ Number(bs) \in 0..255
           /\ \A i \in 1..8 : Bits(Number(bs), 8)[i] = bs[i]
<1>1. PICK H : Values(H, bs)
  BY NumberIs
<1>2. \A i \in 1..8 : bs[i] \in 0..1
  <2>1. PICK B : B = Bit
    OBVIOUS
  <2>2. bs \in Seq(B)
    BY <2>1
  <2>3. \A i \in 1..8 : bs[i] \in B
    BY ONLY bs \in Seq(B), Len(bs) = 8, ElementOfSeq
  <2> QED
    BY <2>1, <2>3 DEF Bit
<1>3. \A i \in 1..8 : H[i] = IF 2 * H[i - 1] + bs[i] > WordMax THEN WordMax ELSE 2 * H[i - 1] + bs[i]
  BY <1>1 DEF Values
<1>4. H[0] = 0 /\ Number(bs) = H[8]
  BY <1>1 DEF Values
<1>5. \A i \in 1..8 : H[i - 1] \in 0..127 => H[i] = 2 * H[i - 1] + bs[i]
  BY ONLY <1>2, <1>3, OneBitMore
<1>6. bs[1] \in 0..1 /\ bs[2] \in 0..1 /\ bs[3] \in 0..1 /\ bs[4] \in 0..1
      /\ bs[5] \in 0..1 /\ bs[6] \in 0..1 /\ bs[7] \in 0..1 /\ bs[8] \in 0..1
  BY ONLY <1>2
<1>7. /\ H[0] \in 0..127 => H[1] = 2 * H[0] + bs[1]
      /\ H[1] \in 0..127 => H[2] = 2 * H[1] + bs[2]
      /\ H[2] \in 0..127 => H[3] = 2 * H[2] + bs[3]
      /\ H[3] \in 0..127 => H[4] = 2 * H[3] + bs[4]
      /\ H[4] \in 0..127 => H[5] = 2 * H[4] + bs[5]
      /\ H[5] \in 0..127 => H[6] = 2 * H[5] + bs[6]
      /\ H[6] \in 0..127 => H[7] = 2 * H[6] + bs[7]
      /\ H[7] \in 0..127 => H[8] = 2 * H[7] + bs[8]
  <2>1. \A i \in {1, 2, 3, 4, 5, 6, 7, 8} : H[i - 1] \in 0..127 => H[i] = 2 * H[i - 1] + bs[i]
    <3>1. \A i \in {1, 2, 3, 4, 5, 6, 7, 8} : i \in 1..8
      OBVIOUS
    <3> QED
      BY ONLY <1>5, <3>1
  <2>2. /\ 1 - 1 = 0 /\ 2 - 1 = 1 /\ 3 - 1 = 2 /\ 4 - 1 = 3 /\ 5 - 1 = 4 /\ 6 - 1 = 5 /\ 7 - 1 = 6 /\ 8 - 1 = 7
    OBVIOUS
  <2> QED
    BY ONLY <2>1, <2>2
<1>b1. PICK b1 \in 0..1 : b1 = bs[1]
  BY ONLY <1>6
<1>b2. PICK b2 \in 0..1 : b2 = bs[2]
  BY ONLY <1>6
<1>b3. PICK b3 \in 0..1 : b3 = bs[3]
  BY ONLY <1>6
<1>b4. PICK b4 \in 0..1 : b4 = bs[4]
  BY ONLY <1>6
<1>b5. PICK b5 \in 0..1 : b5 = bs[5]
  BY ONLY <1>6
<1>b6. PICK b6 \in 0..1 : b6 = bs[6]
  BY ONLY <1>6
<1>b7. PICK b7 \in 0..1 : b7 = bs[7]
  BY ONLY <1>6
<1>b8. PICK b8 \in 0..1 : b8 = bs[8]
  BY ONLY <1>6
<1>h1. H[1] = b1
  BY ONLY <1>4, <1>7, <1>b1, b1 \in 0..1
<1>h2. H[2] = 2 * b1 + b2
  <2>1. b1 \in 0..127
    BY ONLY b1 \in 0..1
  <2>2. PICK y \in 0..127 : y = b1
    BY ONLY <2>1
  <2>3. H[1] = y
    BY ONLY <2>2, <1>h1
  <2>4. H[2] = 2 * y + b2
    BY ONLY <1>7, <2>3, <1>b2, y \in 0..127
  <2> QED
    BY ONLY <2>2, <2>4, b1 \in 0..1, b2 \in 0..1
<1>h3. H[3] = 4 * b1 + 2 * b2 + b3
  <2>1. 2 * b1 + b2 \in 0..127
    BY ONLY b1 \in 0..1, b2 \in 0..1
  <2>2. PICK y \in 0..127 : y = 2 * b1 + b2
    BY ONLY <2>1
  <2>3. H[2] = y
    BY ONLY <2>2, <1>h2
  <2>4. H[3] = 2 * y + b3
    BY ONLY <1>7, <2>3, <1>b3, y \in 0..127
  <2> QED
    BY ONLY <2>2, <2>4, b1 \in 0..1, b2 \in 0..1, b3 \in 0..1
<1>h4. H[4] = 8 * b1 + 4 * b2 + 2 * b3 + b4
  <2>1. 4 * b1 + 2 * b2 + b3 \in 0..127
    BY ONLY b1 \in 0..1, b2 \in 0..1, b3 \in 0..1
  <2>2. PICK y \in 0..127 : y = 4 * b1 + 2 * b2 + b3
    BY ONLY <2>1
  <2>3. H[3] = y
    BY ONLY <2>2, <1>h3
  <2>4. H[4] = 2 * y + b4
    BY ONLY <1>7, <2>3, <1>b4, y \in 0..127
  <2> QED
    BY ONLY <2>2, <2>4, b1 \in 0..1, b2 \in 0..1, b3 \in 0..1, b4 \in 0..1
<1>h5. H[5] = 16 * b1 + 8 * b2 + 4 * b3 + 2 * b4 + b5
  <2>1. 8 * b1 + 4 * b2 + 2 * b3 + b4 \in 0..127
    BY ONLY b1 \in 0..1, b2 \in 0..1, b3 \in 0..1, b4 \in 0..1
  <2>2. PICK y \in 0..127 : y = 8 * b1 + 4 * b2 + 2 * b3 + b4
    BY ONLY <2>1
  <2>3. H[4] = y
    BY ONLY <2>2, <1>h4
  <2>4. H[5] = 2 * y + b5
    BY ONLY <1>7, <2>3, <1>b5, y \in 0..127
  <2> QED
    BY ONLY <2>2, <2>4, b1 \in 0..1, b2 \in 0..1, b3 \in 0..1, b4 \in 0..1, b5 \in 0..1
<1>h6. H[6] = 32 * b1 + 16 * b2 + 8 * b3 + 4 * b4 + 2 * b5 + b6
  <2>1. 16 * b1 + 8 * b2 + 4 * b3 + 2 * b4 + b5 \in 0..127
    BY ONLY b1 \in 0..1, b2 \in 0..1, b3 \in 0..1, b4 \in 0..1, b5 \in 0..1
  <2>2. PICK y \in 0..127 : y = 16 * b1 + 8 * b2 + 4 * b3 + 2 * b4 + b5
    BY ONLY <2>1
  <2>3. H[5] = y
    BY ONLY <2>2, <1>h5
  <2>4. H[6] = 2 * y + b6
    BY ONLY <1>7, <2>3, <1>b6, y \in 0..127
  <2> QED
    BY ONLY <2>2, <2>4, b1 \in 0..1, b2 \in 0..1, b3 \in 0..1, b4 \in 0..1, b5 \in 0..1, b6 \in 0..1
<1>h7. H[7] = 64 * b1 + 32 * b2 + 16 * b3 + 8 * b4 + 4 * b5 + 2 * b6 + b7
  <2>1. 32 * b1 + 16 * b2 + 8 * b3 + 4 * b4 + 2 * b5 + b6 \in 0..127
    BY ONLY b1 \in 0..1, b2 \in 0..1, b3 \in 0..1, b4 \in 0..1, b5 \in 0..1, b6 \in 0..1
  <2>2. PICK y \in 0..127 : y = 32 * b1 + 16 * b2 + 8 * b3 + 4 * b4 + 2 * b5 + b6
    BY ONLY <2>1
  <2>3. H[6] = y
    BY ONLY <2>2, <1>h6
  <2>4. H[7] = 2 * y + b7
    BY ONLY <1>7, <2>3, <1>b7, y \in 0..127
  <2> QED
    BY ONLY <2>2, <2>4, b1 \in 0..1, b2 \in 0..1, b3 \in 0..1, b4 \in 0..1, b5 \in 0..1, b6 \in 0..1, b7 \in 0..1
<1>h8. H[8] = 128 * b1 + 64 * b2 + 32 * b3 + 16 * b4 + 8 * b5 + 4 * b6 + 2 * b7 + b8
  <2>1. 64 * b1 + 32 * b2 + 16 * b3 + 8 * b4 + 4 * b5 + 2 * b6 + b7 \in 0..127
    BY ONLY b1 \in 0..1, b2 \in 0..1, b3 \in 0..1, b4 \in 0..1, b5 \in 0..1, b6 \in 0..1, b7 \in 0..1
  <2>2. PICK y \in 0..127 : y = 64 * b1 + 32 * b2 + 16 * b3 + 8 * b4 + 4 * b5 + 2 * b6 + b7
    BY ONLY <2>1
  <2>3. H[7] = y
    BY ONLY <2>2, <1>h7
  <2>4. H[8] = 2 * y + b8
    BY ONLY <1>7, <2>3, <1>b8, y \in 0..127
  <2> QED
    BY ONLY <2>2, <2>4, b1 \in 0..1, b2 \in 0..1, b3 \in 0..1, b4 \in 0..1, b5 \in 0..1, b6 \in 0..1, b7 \in 0..1, b8 \in 0..1
<1>13. PICK x : x = Number(bs)
  OBVIOUS
<1>14. x = 128 * b1 + 64 * b2 + 32 * b3 + 16 * b4 + 8 * b5 + 4 * b6 + 2 * b7 + b8
  BY <1>4, <1>h8, <1>13
<1>15. x \in 0..255
  BY ONLY <1>14, b1 \in 0..1, b2 \in 0..1, b3 \in 0..1, b4 \in 0..1, b5 \in 0..1, b6 \in 0..1, b7 \in 0..1, b8 \in 0..1
<1>16. /\ (x \div 128) % 2 = b1 /\ (x \div 64) % 2 = b2
       /\ (x \div 32) % 2 = b3 /\ (x \div 16) % 2 = b4
  BY ONLY <1>14, b1 \in 0..1, b2 \in 0..1, b3 \in 0..1, b4 \in 0..1, b5 \in 0..1, b6 \in 0..1, b7 \in 0..1, b8 \in 0..1
<1>17. /\ (x \div 8) % 2 = b5 /\ (x \div 4) % 2 = b6
       /\ (x \div 2) % 2 = b7 /\ (x \div 1) % 2 = b8
  BY ONLY <1>14, b1 \in 0..1, b2 \in 0..1, b3 \in 0..1, b4 \in 0..1, b5 \in 0..1, b6 \in 0..1, b7 \in 0..1, b8 \in 0..1
<1>18. ASSUME NEW i \in 1..8 PROVE Bits(x, 8)[i] = (x \div 2^(8 - i)) % 2
  <2>1. ~(8 - i > 28)
    OBVIOUS
  <2> QED
    BY <2>1 DEF Bits
<1>19. /\ 2^0 = 1 /\ 2^1 = 2 /\ 2^2 = 4 /\ 2^3 = 8 /\ 2^4 = 16 /\ 2^5 = 32 /\ 2^6 = 64 /\ 2^7 = 128
  OBVIOUS
<1>20. ASSUME NEW i \in 1..8 PROVE Bits(x, 8)[i] = bs[i]
  <2>1. i \in {1, 2, 3, 4, 5, 6, 7, 8}
    OBVIOUS
  <2>2. /\ Bits(x, 8)[1] = (x \div 2^(8 - 1)) % 2 /\ Bits(x, 8)[2] = (x \div 2^(8 - 2)) % 2
        /\ Bits(x, 8)[3] = (x \div 2^(8 - 3)) % 2 /\ Bits(x, 8)[4] = (x \div 2^(8 - 4)) % 2
        /\ Bits(x, 8)[5] = (x \div 2^(8 - 5)) % 2 /\ Bits(x, 8)[6] = (x \div 2^(8 - 6)) % 2
        /\ Bits(x, 8)[7] = (x \div 2^(8 - 7)) % 2 /\ Bits(x, 8)[8] = (x \div 2^(8 - 8)) % 2
    BY <1>18
  <2>3. /\ 8 - 1 = 7 /\ 8 - 2 = 6 /\ 8 - 3 = 5 /\ 8 - 4 = 4 /\ 8 - 5 = 3 /\ 8 - 6 = 2 /\ 8 - 7 = 1 /\ 8 - 8 = 0
    OBVIOUS
  <2>4. /\ Bits(x, 8)[1] = bs[1] /\ Bits(x, 8)[2] = bs[2] /\ Bits(x, 8)[3] = bs[3] /\ Bits(x, 8)[4] = bs[4]
        /\ Bits(x, 8)[5] = bs[5] /\ Bits(x, 8)[6] = bs[6] /\ Bits(x, 8)[7] = bs[7] /\ Bits(x, 8)[8] = bs[8]
    BY ONLY <1>16, <1>17, <1>19, <2>2, <2>3, <1>b1, <1>b2, <1>b3, <1>b4, <1>b5, <1>b6, <1>b7, <1>b8
  <2> QED
    BY <2>1, <2>4
<1> QED
  BY <1>13, <1>15, <1>20

-----------------------------------------------------------------------------
(* Where the reader is left *)

\* A read leaves the reader inside its buffer.
Inside(r, buf) == r.pos \in 0..Len(buf)

LEMMA FieldsInside ==
    ASSUME NEW buf \in Seq(Bit), NEW p \in 0..Len(buf), NEW n \in Nat
    PROVE  /\ Inside(ReadRaw(buf, p, n), buf) /\ Inside(ReadBits(buf, p, n), buf)
           /\ Inside(Advance(buf, p, n), buf) /\ Inside(ReadBytes(buf, p, n), buf)
<1>1. PICK m \in Nat : m = Len(buf)
  OBVIOUS
<1>2. p \in 0..m /\ p \in Nat
  BY <1>1
<1>3. ASSUME NEW code PROVE Fail(code, p).pos \in 0..m
  BY <1>2 DEF Fail
<1>4. ASSUME NEW v, NEW q, q \in 0..m PROVE Ok(v, q).pos \in 0..m
  BY <1>4 DEF Ok
<1>5. ReadRaw(buf, p, n).pos \in 0..m
  <2>1. CASE p + n > m
    BY <1>1, <1>3, <2>1 DEF ReadRaw
  <2>2. CASE ~(p + n > m)
    <3>1. p + n \in 0..m
      BY <1>2, <2>2
    <3>2. ReadRaw(buf, p, n) = Ok(SubSeq(buf, p + 1, p + n), p + n)
      BY <1>1, <2>2 DEF ReadRaw
    <3> QED
      BY <1>4, <3>1, <3>2
  <2> QED
    BY <2>1, <2>2
<1>6. ReadBits(buf, p, n).pos \in 0..m
  <2>1. CASE p + n > m
    BY <1>1, <1>3, <2>1 DEF ReadBits
  <2>2. CASE ~(p + n > m)
    <3>1. p + n \in 0..m
      BY <1>2, <2>2
    <3>2. ReadBits(buf, p, n) = Ok(Number(SubSeq(buf, p + 1, p + n)), p + n)
      BY <1>1, <2>2 DEF ReadBits
    <3> QED
      BY <1>4, <3>1, <3>2
  <2> QED
    BY <2>1, <2>2
<1>7. Advance(buf, p, n).pos \in 0..m
  <2>1. CASE p + n > m
    BY <1>1, <1>3, <2>1 DEF Advance
  <2>2. CASE ~(p + n > m)
    <3>1. p + n \in 0..m
      BY <1>2, <2>2
    <3>2. Advance(buf, p, n) = Ok(0, p + n)
      BY <1>1, <2>2 DEF Advance
    <3> QED
      BY <1>4, <3>1, <3>2
  <2> QED
    BY <2>1, <2>2
<1>8. ReadBytes(buf, p, n).pos \in 0..m
  <2>1. CASE p % 8 # 0 \/ n > (m - p) \div 8
    BY <1>1, <1>3, <2>1 DEF ReadBytes
  <2>2. CASE ~(p % 8 # 0 \/ n > (m - p) \div 8)
    <3>1. p + 8 * n \in 0..m
      BY <1>2, <2>2
    <3>2. ReadBytes(buf, p, n) = Ok([i \in 1..n |-> Number(SubSeq(buf, p + 8 * i - 7, p + 8 * i))], p + 8 * n)
      BY <1>1, <2>2 DEF ReadBytes
    <3> QED
      BY <1>4, <3>1, <3>2
  <2> QED
    BY <2>1, <2>2
<1> QED
  BY <1>1, <1>5, <1>6, <1>7, <1>8 DEF Inside

\* The turns of ReadVarintU.
Groups(buf, from) ==
    [more : BOOLEAN, bits : Seq(Bit), r : [rc : {"OK", "EOF"}, val : Nat, pos : from..Len(buf)]]
OneGroupMore(buf, before) ==
    LET group == ReadRaw(buf, before.r.pos, GroupBits + 1)
    IN  IF ~before.more THEN before
        ELSE IF group.rc # "OK" THEN [before EXCEPT !.more = FALSE, !.r = group]
        ELSE LET bits == Tail(group.val) \o before.bits
             IN  [more |-> group.val[1] = 1, bits |-> bits, r |-> Ok(Number(bits), group.pos)]
NoGroup(p) == [more |-> TRUE, bits |-> <<>>, r |-> Ok(0, p)]
GroupsRead(after, buf, p) ==
    [g \in 0..MaxGroups |-> IF g = 0 THEN NoGroup(p) ELSE OneGroupMore(buf, after[g - 1])]

LEMMA GroupTurn ==
    ASSUME NEW buf \in Seq(Bit), NEW from \in 0..Len(buf), NEW w \in Groups(buf, from)
    PROVE  OneGroupMore(buf, w) \in Groups(buf, from)
<1>1. PICK m \in Nat : m = Len(buf)
  OBVIOUS
<1>2. PICK R : R = [rc : {"OK", "EOF"}, val : Nat, pos : from..m]
  OBVIOUS
<1>3. PICK S : S = Seq(Bit)
  OBVIOUS
<1>4. Groups(buf, from) = [more : BOOLEAN, bits : S, r : R]
  BY <1>1, <1>2, <1>3 DEF Groups
<1>5. PICK p \in from..m : p = w.r.pos
  BY <1>2, <1>4
<1>6. PICK before \in S : before = w.bits
  BY <1>4
<1>8. PICK g \in 2..8 : g = GroupBits + 1
  BY VarintAssumption
<1>7. PICK group : group = ReadRaw(buf, p, g)
  OBVIOUS
<1>9. OneGroupMore(buf, w) = IF ~w.more THEN w
        ELSE IF group.rc # "OK" THEN [w EXCEPT !.more = FALSE, !.r = group]
        ELSE [more |-> group.val[1] = 1, bits |-> Tail(group.val) \o before,
              r |-> Ok(Number(Tail(group.val) \o before), group.pos)]
  BY ONLY <1>5, <1>6, <1>7, <1>8, Zenon DEF OneGroupMore
<1>10. CASE ~w.more
  BY <1>9, <1>10
<1>11. CASE w.more /\ p + g > m
  <2>1. group = Fail("EOF", p)
    BY <1>1, <1>7, <1>11 DEF ReadRaw
  <2>2. group.rc # "OK" /\ group \in R
    BY <1>2, <2>1 DEF Fail
  <2>3. [w EXCEPT !.more = FALSE, !.r = group] \in Groups(buf, from)
    <3>1. PICK u : u = [w EXCEPT !.more = FALSE]
      OBVIOUS
    <3>2. u = [more |-> FALSE, bits |-> before, r |-> w.r]
      <4>1. PICK more : more = w.more
        OBVIOUS
      <4>2. PICK read : read = w.r
        OBVIOUS
      <4>3. w = [more |-> more, bits |-> before, r |-> read]
        BY <1>4, <1>6, <4>1, <4>2
      <4>4. u = [more |-> FALSE, bits |-> before, r |-> read]
        BY ONLY <3>1, <4>3
      <4> QED
        BY ONLY <4>2, <4>4
    <3>3. PICK e : e = [u EXCEPT !.r = group]
      OBVIOUS
    <3>4. e = [k \in {"more", "bits", "r"} |-> IF k = "r" THEN group ELSE u[k]]
      BY ONLY <3>2, <3>3
    <3>5. e = [more |-> FALSE, bits |-> before, r |-> group]
      BY ONLY <3>2, <3>4
    <3> QED
      BY ONLY <1>4, <2>2, <3>1, <3>3, <3>5, before \in S
  <2> QED
    BY <1>9, <1>11, <2>2, <2>3
<1>12. CASE w.more /\ ~(p + g > m)
  <2>1. PICK x : x = SubSeq(buf, p + 1, p + g)
    OBVIOUS
  <2>2. x \in Seq(Bit) /\ Len(x) = g
    <3>1. p + 1 \in 1..Len(buf) + 1 /\ p + g \in 0..Len(buf) /\ p + 1 <= p + g /\ (p + g) - (p + 1) + 1 = g
      BY <1>1, <1>12
    <3> QED
      BY <2>1, <3>1, SubSeqProperties
  <2>3. group = Ok(x, p + g)
    BY <1>1, <1>7, <1>12, <2>1 DEF ReadRaw
  <2>4. group.rc = "OK" /\ group.val = x /\ group.pos = p + g
    BY <2>3 DEF Ok
  <2>5. x # <<>>
    <3> SUFFICES ASSUME x = <<>> PROVE FALSE
      OBVIOUS
    <3> QED
      BY ONLY <2>2, x = <<>>, g \in 2..8
  <2>6. Tail(x) \in Seq(Bit)
    BY <2>2, <2>5, HeadTailProperties
  <2>7. PICK b \in Seq(Bit) : b = Tail(x) \o before
    <3>1. PICK t \in Seq(Bit) : t = Tail(x)
      BY <2>6
    <3>2. before \in Seq(Bit)
      BY <1>3
    <3>3. t \o before \in Seq(Bit)
      BY ONLY <3>2, t \in Seq(Bit)
    <3> QED
      BY <3>1, <3>3
  <2>8. PICK v \in Nat : v = Number(b)
    BY NumberType
  <2>9. PICK q \in from..m : q = p + g
    BY <1>12
  <2>10. Ok(v, q) \in R
    BY <1>2 DEF Ok
  <2>11. PICK more \in BOOLEAN : more = (x[1] = 1)
    OBVIOUS
  <2>12. OneGroupMore(buf, w) = [more |-> more, bits |-> b, r |-> Ok(v, q)]
    BY ONLY <1>9, <1>12, <2>4, <2>7, <2>8, <2>9, <2>11
  <2> QED
    BY ONLY <1>3, <1>4, <2>10, <2>12, b \in Seq(Bit), more \in BOOLEAN
<1> QED
  BY <1>10, <1>11, <1>12

\* Nothing is read before the first turn of ReadVarintU.
LEMMA NoGroupType ==
    ASSUME NEW buf \in Seq(Bit), NEW p \in 0..Len(buf)
    PROVE  NoGroup(p) \in Groups(buf, p)
<1>1. PICK S : S = Seq(Bit)
  OBVIOUS
<1>2. PICK e : e = <<>>
  OBVIOUS
<1>3. e \in S
  BY <1>1, <1>2
<1>4. PICK m \in Nat : m = Len(buf)
  OBVIOUS
<1>5. PICK R : R = [rc : {"OK", "EOF"}, val : Nat, pos : p..m]
  OBVIOUS
<1>6. Ok(0, p) \in R
  BY <1>4, <1>5 DEF Ok
<1>7. [more |-> TRUE, bits |-> e, r |-> Ok(0, p)] \in [more : BOOLEAN, bits : S, r : R]
  BY <1>3, <1>6
<1>8. Groups(buf, p) = [more : BOOLEAN, bits : S, r : R]
  BY <1>1, <1>4, <1>5 DEF Groups
<1> QED
  BY <1>2, <1>7, <1>8 DEF NoGroup

\* The turns of ReadVarintU are a function.
LEMMA GroupsReadExist ==
    ASSUME NEW buf \in Seq(Bit), NEW p \in 0..Len(buf)
    PROVE  \E f : f = GroupsRead(f, buf, p)
<1> DEFINE turn(w) == OneGroupMore(buf, w)
<1>0. PICK n \in Nat : n = MaxGroups
  BY VarintAssumption
<1>2. PICK V : V = Groups(buf, p)
  OBVIOUS
<1>3. PICK w0 \in V : w0 = NoGroup(p)
  BY <1>2, NoGroupType
<1>4. \A w \in V : turn(w) \in V
  BY <1>2, GroupTurn
<1>6. \A f : f = GroupsRead(f, buf, p) <=> f = [k \in 0..n |-> IF k = 0 THEN w0 ELSE turn(f[k - 1])]
  BY <1>0, <1>3 DEF GroupsRead
<1> HIDE DEF turn
<1> DEFINE next == [z \in (1..n) \X V |-> turn(z[2])]
<1>7. next \in [(1..n) \X V -> V]
  BY <1>4
<1>8. PICK f : CountsBy(f, w0, next, n, V)
  <2> HIDE DEF next
  <2> QED
    BY <1>3, <1>7, CountingExists
<1>9. f = GroupsRead(f, buf, p)
  <2>1. f \in [0..n -> V] /\ f[0] = w0 /\ \A k \in 1..n : f[k] = next[<<k, f[k - 1]>>]
    BY <1>8 DEF CountsBy
  <2>2. \A k \in 1..n : f[k] = turn(f[k - 1])
    <3> SUFFICES ASSUME NEW k \in 1..n PROVE f[k] = turn(f[k - 1])
      OBVIOUS
    <3>1. k - 1 \in 0..n
      OBVIOUS
    <3>2. PICK v \in V : v = f[k - 1]
      BY <2>1, <3>1
    <3>3. next[<<k, v>>] = turn(v)
      OBVIOUS
    <3> QED
      BY <2>1, <3>2, <3>3
  <2>3. f = [k \in 0..n |-> IF k = 0 THEN w0 ELSE turn(f[k - 1])]
    <3>1. f = [k \in 0..n |-> f[k]]
      BY <2>1
    <3>2. \A k \in 0..n : f[k] = IF k = 0 THEN w0 ELSE turn(f[k - 1])
      BY <2>1, <2>2
    <3> QED
      BY ONLY <3>1, <3>2
  <2> QED
    BY <1>6, <2>3
<1> QED
  BY <1>9

LEMMA VarintInside ==
    ASSUME NEW buf \in Seq(Bit), NEW p \in 0..Len(buf)
    PROVE  /\ Inside(ReadVarintU(buf, p), buf) /\ ReadVarintU(buf, p).val \in Nat
           /\ ReadVarintU(buf, p).pos \in p..Len(buf)
<1> DEFINE F == CHOOSE f : f = GroupsRead(f, buf, p)
           turn(w) == OneGroupMore(buf, w)
<1>0. PICK n \in Nat : n = MaxGroups
  BY VarintAssumption
<1>1. ReadVarintU(buf, p)
        = IF F[MaxGroups].more THEN Fail("OVERFLOW", F[MaxGroups].r.pos) ELSE F[MaxGroups].r
  BY DEF ReadVarintU, GroupsRead, OneGroupMore, NoGroup
<1>2. PICK V : V = Groups(buf, p)
  OBVIOUS
<1>3. PICK w0 \in V : w0 = NoGroup(p)
  BY <1>2, NoGroupType
<1>4. \A w \in V : turn(w) \in V
  BY <1>2, GroupTurn
<1>6. \A f : f = GroupsRead(f, buf, p) <=> f = [k \in 0..n |-> IF k = 0 THEN w0 ELSE turn(f[k - 1])]
  BY <1>0, <1>3 DEF GroupsRead
<1> HIDE DEF turn
<1>10. F = GroupsRead(F, buf, p)
  BY GroupsReadExist
<1> HIDE DEF F
<1> DEFINE good == {k \in Nat : k <= n => F[k] \in V}
<1>11. \A k \in Nat : k \in good
  <2>1. 0 \in good
    BY <1>3, <1>6, <1>10
  <2>2. ASSUME NEW k \in Nat, k \in good PROVE k + 1 \in good
    <3> SUFFICES ASSUME k + 1 <= n PROVE F[k + 1] \in V
      OBVIOUS
    <3>1. PICK j \in 0..n : j = k + 1 /\ j # 0 /\ j - 1 = k
      OBVIOUS
    <3>2. F[j] = turn(F[j - 1])
      BY <1>6, <1>10, <3>1
    <3> QED
      BY <1>4, <2>2, <3>1, <3>2
  <2> HIDE DEF good
  <2> QED
    BY <2>1, <2>2, SetInduction
<1>12. F[n] \in V
  BY <1>11
<1>13. PICK w : w = F[n]
  OBVIOUS
<1>14. w.r.pos \in 0..Len(buf) /\ w.r.pos \in p..Len(buf) /\ w.r.val \in Nat
  BY <1>2, <1>12, <1>13 DEF Groups
<1>15. /\ Inside(Fail("OVERFLOW", w.r.pos), buf) /\ Inside(w.r, buf)
       /\ Fail("OVERFLOW", w.r.pos).val \in Nat /\ Fail("OVERFLOW", w.r.pos).pos \in p..Len(buf)
  BY <1>14 DEF Inside, Fail
<1>16. ReadVarintU(buf, p) = IF w.more THEN Fail("OVERFLOW", w.r.pos) ELSE w.r
  BY <1>0, <1>1, <1>13
<1> QED
  BY ONLY <1>14, <1>15, <1>16

-----------------------------------------------------------------------------
(* Sequences one behind another *)

\* A function on 1..n is a sequence.
LEMMA SequenceIs ==
    ASSUME NEW S, NEW n \in Nat, NEW s, s = [k \in 1..n |-> s[k]], \A k \in 1..n : s[k] \in S
    PROVE  s \in Seq(S) /\ Len(s) = n
  OBVIOUS

\* A run of n bits, and one behind another.
Run(s, n) == s \in Seq(Bit) /\ Len(s) = n
Joins(c, a, b) == c = a \o b
Begins(c, a, m) == SubSeq(c, 1, m) = a /\ \A i \in 1..m : c[i] = a[i]
Follows(c, b, m, n) == SubSeq(c, m + 1, m + n) = b /\ \A i \in 1..n : c[m + i] = b[i]

LEMMA Joined ==
    ASSUME NEW a, NEW m, Run(a, m), NEW b, NEW n, Run(b, n), NEW c, Joins(c, a, b)
    PROVE  Run(c, m + n) /\ Begins(c, a, m) /\ Follows(c, b, m, n)
<1>0. a \in Seq(Bit) /\ Len(a) = m /\ m \in Nat /\ b \in Seq(Bit) /\ Len(b) = n /\ n \in Nat /\ c = a \o b
  BY DEF Run, Joins
<1>1. c \in Seq(Bit) /\ Len(c) = m + n
  <2>1. PICK x \in Seq(Bit) : x = a
    BY <1>0
  <2>2. PICK y \in Seq(Bit) : y = b
    BY <1>0
  <2>3. x \o y \in Seq(Bit) /\ Len(x \o y) = Len(x) + Len(y)
    OBVIOUS
  <2> QED
    BY ONLY <1>0, <2>1, <2>2, <2>3
<1>2. \A i \in 1..m : c[i] = a[i]
  BY <1>0
<1>3. \A i \in 1..n : c[m + i] = b[i]
  BY <1>0
<1>5. SubSeq(c, 1, m) = a
  <2>1. SubSeq(c, 1, m) = [i \in 1..m |-> c[i]]
    BY <1>0, <1>1
  <2>2. a = [i \in 1..m |-> a[i]]
    BY <1>0
  <2> QED
    BY ONLY <1>2, <2>1, <2>2
<1>6. SubSeq(c, m + 1, m + n) = b
  <2>1. SubSeq(c, m + 1, m + n) = [i \in 1..n |-> c[m + i]]
    <3>1. SubSeq(c, m + 1, m + n) = [i \in 1..(m + n) - (m + 1) + 1 |-> c[i + (m + 1) - 1]]
      BY <1>0, <1>1
    <3>2. (m + n) - (m + 1) + 1 = n /\ \A i \in 1..n : i + (m + 1) - 1 = m + i
      BY <1>0
    <3> QED
      BY ONLY <3>1, <3>2
  <2>2. b = [i \in 1..n |-> b[i]]
    BY <1>0
  <2> QED
    BY ONLY <1>3, <2>1, <2>2
<1> QED
  BY ONLY <1>1, <1>2, <1>3, <1>5, <1>6 DEF Run, Begins, Follows

\* Two runs with the same bits are the same.
LEMMA SameRun ==
    ASSUME NEW w, NEW u, NEW n, Run(w, n), Run(u, n), \A i \in 1..n : w[i] = u[i]
    PROVE  w = u
<1>1. w = [i \in 1..n |-> w[i]]
  BY DEF Run
<1>2. u = [i \in 1..n |-> u[i]]
  BY DEF Run
<1> QED
  BY ONLY <1>1, <1>2, \A i \in 1..n : w[i] = u[i]

\* Sequences of bits, one after the other, are bits.
LEMMA FlattenType == \A s \in Seq(Seq(Bit)) : FlattenSeq(s) \in Seq(Bit)
<1> DEFINE good == {n \in Nat : \A s \in Seq(Seq(Bit)) : Len(s) = n => FlattenSeq(s) \in Seq(Bit)}
<1>1. 0 \in good
  <2> SUFFICES ASSUME NEW s \in Seq(Seq(Bit)), Len(s) = 0 PROVE FlattenSeq(s) \in Seq(Bit)
    OBVIOUS
  <2>1. FlattenSeq(s) = s
    BY DEF FlattenSeq
  <2>2. s = <<>>
    OBVIOUS
  <2> QED
    BY <2>1, <2>2
<1>2. ASSUME NEW n \in Nat, n \in good PROVE n + 1 \in good
  <2> SUFFICES ASSUME NEW s \in Seq(Seq(Bit)), Len(s) = n + 1 PROVE FlattenSeq(s) \in Seq(Bit)
    OBVIOUS
  <2>0. \A i \in 1..n : s[i] \in Seq(Bit)
    OBVIOUS
  <2>1. PICK t : t = [i \in 1..n |-> s[i]]
    OBVIOUS
  <2>2. PICK x \in Seq(Bit) : x = s[n + 1]
    OBVIOUS
  <2>3. t \in Seq(Seq(Bit)) /\ Len(t) = n /\ \A i \in 1..n : t[i] = s[i]
    <3>1. PICK V : V = Seq(Bit)
      OBVIOUS
    <3>2. \A i \in 1..n : s[i] \in V
      BY <2>0, <3>1
    <3>3. t \in Seq(V) /\ Len(t) = n /\ \A i \in 1..n : t[i] = s[i]
      BY ONLY <2>1, <3>2, n \in Nat
    <3> QED
      BY <3>1, <3>3
  <2>4. s = Append(t, x)
    BY <2>2, <2>3
  <2>5. FlattenSeq(s) = FlattenSeq(t) \o x
    BY <2>4, <2>3, FlattenLast
  <2>6. PICK y \in Seq(Bit) : y = FlattenSeq(t)
    BY <1>2, <2>3
  <2>7. y \o x \in Seq(Bit)
    OBVIOUS
  <2> QED
    BY <2>5, <2>6, <2>7
<1>3. \A n \in Nat : n \in good
  <2> HIDE DEF good
  <2> QED
    BY <1>1, <1>2, SetInduction
<1> QED
  BY <1>3

LEMMA FlattenOne ==
    ASSUME NEW S, NEW x \in Seq(S)
    PROVE  FlattenSeq(<<x>>) = x
<1>1. PICK e : e = <<>>
  OBVIOUS
<1>2. PICK T : T = Seq(S)
  OBVIOUS
<1>3. e \in Seq(T) /\ e \in Seq(S) /\ Len(e) = 0
  BY ONLY <1>1, EmptySeq
<1>4. FlattenSeq(Append(e, x)) = FlattenSeq(e) \o x
  BY ONLY <1>2, <1>3, x \in Seq(S), FlattenLast
<1>5. FlattenSeq(e) = e
  BY ONLY <1>3, Zenon DEF FlattenSeq
<1>6. Append(e, x) = <<x>>
  BY ONLY <1>1, <1>2, x \in T
<1>7. <<>> \o x = x
  BY ONLY x \in Seq(S), ConcatEmptySeq
<1> QED
  BY ONLY <1>1, <1>4, <1>5, <1>6, <1>7

LEMMA FlattenHead ==
    ASSUME NEW S, \A s \in Seq(Seq(S)) : FlattenSeq(s) \in Seq(S)
    PROVE  \A s \in Seq(Seq(S)) : s # <<>> => FlattenSeq(s) = Head(s) \o FlattenSeq(Tail(s))
<1>1. PICK T : T = Seq(S)
  OBVIOUS
<1> DEFINE Unfolds(s) == s # <<>> => FlattenSeq(s) = Head(s) \o FlattenSeq(Tail(s))
           good == {n \in Nat : \A s \in Seq(T) : Len(s) = n => Unfolds(s)}
<1>2. 0 \in good
  <2> SUFFICES ASSUME NEW s \in Seq(T), Len(s) = 0 PROVE s = <<>>
    OBVIOUS
  <2> QED
    OBVIOUS
<1>3. ASSUME NEW n \in Nat, n \in good PROVE n + 1 \in good
  <2> SUFFICES ASSUME NEW s \in Seq(T), Len(s) = n + 1 PROVE Unfolds(s)
    OBVIOUS
  <2>1. s # <<>>
    <3> SUFFICES ASSUME s = <<>> PROVE FALSE
      OBVIOUS
    <3> QED
      BY ONLY s = <<>>, Len(s) = n + 1, n \in Nat
  <2>2. PICK t \in Seq(T), x \in T : s = Append(t, x)
    BY ONLY <2>1, s \in Seq(T), SequenceEmptyOrAppend
  <2>3. Len(t) = n
    BY ONLY <2>2, Len(s) = n + 1, t \in Seq(T), x \in T, n \in Nat
  <2>4. FlattenSeq(s) = FlattenSeq(t) \o x
    <3>1. t \in Seq(Seq(S)) /\ x \in Seq(S)
      BY <1>1
    <3> QED
      BY ONLY <2>2, <3>1, FlattenLast
  <2>5. Head(s) = (IF t = <<>> THEN x ELSE Head(t)) /\ Tail(s) = IF t = <<>> THEN <<>> ELSE Append(Tail(t), x)
    BY ONLY <2>2, t \in Seq(T), x \in T, HeadTailAppend
  <2>6. CASE t = <<>>
    <3>1. PICK e : e = <<>>
      OBVIOUS
    <3>2. FlattenSeq(e) = e
      <4>1. Len(e) = 0
        BY <3>1
      <4> QED
        BY ONLY <4>1, Zenon DEF FlattenSeq
    <3>3. FlattenSeq(s) = e \o x /\ Head(s) = x /\ Tail(s) = e
      BY ONLY <2>4, <2>5, <2>6, <3>1, <3>2
    <3>4. e \o x = x /\ x \o e = x
      BY ONLY <1>1, <3>1, x \in T, ConcatEmptySeq
    <3> QED
      BY ONLY <3>2, <3>3, <3>4
  <2>7. CASE t # <<>>
    <3>1. FlattenSeq(t) = Head(t) \o FlattenSeq(Tail(t))
      <4>1. Unfolds(t)
        BY ONLY <1>3, <2>3, t \in Seq(T)
      <4> QED
        BY ONLY <2>7, <4>1
    <3>2. PICK h \in T : h = Head(t)
      BY ONLY <2>7, t \in Seq(T), HeadTailProperties
    <3>3. PICK r \in Seq(T) : r = Tail(t)
      BY ONLY <2>7, t \in Seq(T), HeadTailProperties
    <3>4. PICK f \in T : f = FlattenSeq(r)
      BY <1>1
    <3>5. FlattenSeq(Append(r, x)) = f \o x
      <4>1. r \in Seq(Seq(S)) /\ x \in Seq(S)
        BY <1>1
      <4> QED
        BY ONLY <3>4, <4>1, FlattenLast
    <3>6. (h \o f) \o x = h \o (f \o x)
      <4>1. h \in Seq(S) /\ f \in Seq(S) /\ x \in Seq(S)
        BY <1>1
      <4> QED
        BY ONLY <1>1, h \in T, f \in T, x \in T, ConcatAssociative
    <3>7. Head(s) = h /\ Tail(s) = Append(r, x)
      BY ONLY <2>5, <2>7, <3>2, <3>3
    <3>8. FlattenSeq(s) = (h \o f) \o x
      BY ONLY <2>4, <3>1, <3>2, <3>3, <3>4
    <3> QED
      BY ONLY <3>5, <3>6, <3>7, <3>8
  <2> QED
    BY <2>6, <2>7
<1>4. \A n \in Nat : n \in good
  <2> HIDE DEF good
  <2> QED
    BY ONLY <1>2, <1>3, SetInduction
<1> QED
  <2> SUFFICES ASSUME NEW s \in Seq(T) PROVE Unfolds(s)
    BY <1>1
  <2>1. PICK n \in Nat : n = Len(s)
    OBVIOUS
  <2>2. n \in good
    BY ONLY <1>4, n \in Nat
  <2> HIDE DEF Unfolds
  <2> QED
    BY <2>1, <2>2

-----------------------------------------------------------------------------
(* Numbers that fields give back *)

LEMMA TwiceAsMuch ==
    ASSUME NEW k \in 0..27
    PROVE  2^(k + 1) = 2 * 2^k
<1>1. /\ 2^1 = 2 * 2^0 /\ 2^2 = 2 * 2^1 /\ 2^3 = 2 * 2^2 /\ 2^4 = 2 * 2^3 /\ 2^5 = 2 * 2^4
      /\ 2^6 = 2 * 2^5 /\ 2^7 = 2 * 2^6 /\ 2^8 = 2 * 2^7 /\ 2^9 = 2 * 2^8 /\ 2^10 = 2 * 2^9
      /\ 2^11 = 2 * 2^10 /\ 2^12 = 2 * 2^11 /\ 2^13 = 2 * 2^12 /\ 2^14 = 2 * 2^13
      /\ 2^15 = 2 * 2^14 /\ 2^16 = 2 * 2^15 /\ 2^17 = 2 * 2^16 /\ 2^18 = 2 * 2^17
      /\ 2^19 = 2 * 2^18 /\ 2^20 = 2 * 2^19 /\ 2^21 = 2 * 2^20 /\ 2^22 = 2 * 2^21
      /\ 2^23 = 2 * 2^22 /\ 2^24 = 2 * 2^23 /\ 2^25 = 2 * 2^24 /\ 2^26 = 2 * 2^25
      /\ 2^27 = 2 * 2^26 /\ 2^28 = 2 * 2^27
  OBVIOUS
<1>2. PICK j : j = k + 1
  OBVIOUS
<1>3. \/ (k = 0 /\ j = 1) \/ (k = 1 /\ j = 2) \/ (k = 2 /\ j = 3) \/ (k = 3 /\ j = 4)
      \/ (k = 4 /\ j = 5) \/ (k = 5 /\ j = 6) \/ (k = 6 /\ j = 7) \/ (k = 7 /\ j = 8)
      \/ (k = 8 /\ j = 9) \/ (k = 9 /\ j = 10) \/ (k = 10 /\ j = 11) \/ (k = 11 /\ j = 12)
      \/ (k = 12 /\ j = 13) \/ (k = 13 /\ j = 14) \/ (k = 14 /\ j = 15) \/ (k = 15 /\ j = 16)
      \/ (k = 16 /\ j = 17) \/ (k = 17 /\ j = 18) \/ (k = 18 /\ j = 19) \/ (k = 19 /\ j = 20)
      \/ (k = 20 /\ j = 21) \/ (k = 21 /\ j = 22) \/ (k = 22 /\ j = 23) \/ (k = 23 /\ j = 24)
      \/ (k = 24 /\ j = 25) \/ (k = 25 /\ j = 26) \/ (k = 26 /\ j = 27) \/ (k = 27 /\ j = 28)
  BY <1>2
<1>4. 2^j = 2 * 2^k
  BY ONLY <1>1, <1>3
<1> QED
  BY <1>2, <1>4

LEMMA HalfOf ==
    ASSUME NEW v \in Nat, NEW c \in Nat \ {0}
    PROVE  v \div c \in 0..v /\ v \div (2 * c) = (v \div c) \div 2
<1>1. PICK q \in Int, r \in 0..c - 1 : q = v \div c /\ r = v % c /\ v = c * q + r
  OBVIOUS
<1>2. q \in Nat
  BY <1>1
<1>9. q <= v
  <2>1. c * q >= q
    BY <1>2
  <2> QED
    BY <1>1, <1>2, <2>1
<1>3. PICK s \in Nat, t \in 0..1 : q = 2 * s + t
  <2>1. q = 2 * (q \div 2) + (q % 2) /\ q \div 2 \in Nat /\ q % 2 \in 0..1
    BY <1>2
  <2> QED
    BY <2>1
<1>4. PICK u : u = c * t + r
  OBVIOUS
<1>5. u \in Nat /\ u < 2 * c
  <2>1. CASE t = 0
    BY <1>4, <2>1
  <2>2. CASE t = 1
    BY <1>4, <2>2
  <2> QED
    BY <2>1, <2>2
<1>6. v = (2 * c) * s + u
  BY <1>1, <1>3, <1>4
<1>7. v \div (2 * c) = s
  BY <1>5, <1>6
<1>8. q \div 2 = s
  BY <1>3
<1> QED
  BY <1>1, <1>2, <1>7, <1>8, <1>9

\* A number that fits a field comes back from it.
LEMMA NumberSpelled ==
    ASSUME NEW v \in Nat, v < WordMax, NEW n \in Nat, n <= 28 => v < 2^n
    PROVE  Number(Bits(v, n)) = v
<1>1. PICK W \in Nat : W = WordMax
  BY WordIs
<1>2. PICK bs : bs = Bits(v, n)
  OBVIOUS
<1>3. bs \in Seq(Bit) /\ Len(bs) = n
  BY <1>2, BitsType
<1>4. PICK H : Values(H, bs)
  BY <1>3, NumberIs
<1>5. H[0] = 0 /\ Number(bs) = H[n]
      /\ \A i \in 1..n : H[i] = IF 2 * H[i - 1] + bs[i] > W THEN W ELSE 2 * H[i - 1] + bs[i]
  BY <1>1, <1>3, <1>4 DEF Values
<1>6. \A i \in 1..n : bs[i] = IF n - i > 28 THEN 0 ELSE (v \div 2^(n - i)) % 2
  BY <1>2 DEF Bits
<1>7. PICK z \in 0..n : z = IF n > 28 THEN n - 28 ELSE 0
  OBVIOUS
<1>8. n - z \in 0..28 /\ v < 2^(n - z)
  <2>1. CASE n > 28
    <3>1. n - z = 28
      BY <1>7, <2>1
    <3> QED
      BY <3>1 DEF WordMax
  <2>2. CASE ~(n > 28)
    <3>1. n - z = n
      BY <1>7, <2>2
    <3> QED
      BY <2>2, <3>1
  <2> QED
    BY <2>1, <2>2
<1>9. v \div 2^(n - z) = 0
  <2>1. PICK c \in Nat \ {0} : c = 2^(n - z)
    BY <1>8, PowerIs
  <2>2. v < c
    BY <1>8, <2>1
  <2>3. v \div c = 0
    BY ONLY <2>2, c \in Nat \ {0}, v \in Nat
  <2> QED
    BY <2>1, <2>3
<1> DEFINE low == {k \in Nat : k <= z => H[k] = 0}
<1>10. ASSUME NEW k \in Nat, k \in low PROVE k + 1 \in low
  <2> SUFFICES ASSUME k + 1 <= z PROVE H[k + 1] = 0
    OBVIOUS
  <2>1. H[k] = 0 /\ k + 1 \in 1..n /\ (k + 1) - 1 = k
    BY <1>10
  <2>2. bs[k + 1] = 0
    <3>1. n - (k + 1) > 28 \/ n - (k + 1) = n - z
      BY <1>7
    <3>2. CASE n - (k + 1) > 28
      BY <1>6, <2>1, <3>2
    <3>3. CASE n - (k + 1) = n - z
      <4>1. v \div 2^(n - (k + 1)) = 0
        BY ONLY <1>9, <3>3
      <4>2. n - (k + 1) <= 28
        BY <1>8, <3>3
      <4>3. bs[k + 1] = (v \div 2^(n - (k + 1))) % 2
        BY <1>6, <2>1, <4>2
      <4>4. bs[k + 1] = 0 % 2
        BY ONLY <4>1, <4>3
      <4> QED
        BY ONLY <4>4
    <3> QED
      BY <3>1, <3>2, <3>3
  <2>3. H[k + 1] = IF 2 * H[k] + bs[k + 1] > W THEN W ELSE 2 * H[k] + bs[k + 1]
    BY <1>5, <2>1
  <2> QED
    BY ONLY <2>1, <2>2, <2>3, W \in Nat
<1>11. \A k \in Nat : k \in low
  <2>1. 0 \in low
    BY <1>5
  <2> HIDE DEF low
  <2> QED
    BY <1>10, <2>1, SetInduction
<1>12. H[z] = 0
  BY <1>11
<1> HIDE DEF low
<1> DEFINE good == {k \in Nat : z + k <= n => H[z + k] = v \div 2^(n - (z + k))}
<1>13. ASSUME NEW k \in Nat, k \in good PROVE k + 1 \in good
  <2> SUFFICES ASSUME z + (k + 1) <= n PROVE H[z + (k + 1)] = v \div 2^(n - (z + (k + 1)))
    OBVIOUS
  <2>1. PICK i \in 1..n : i = z + (k + 1) /\ i - 1 = z + k
    OBVIOUS
  <2>2. PICK m \in 0..27 : m = n - i /\ m + 1 = n - (i - 1)
    BY <1>8, <2>1
  <2>3. PICK c \in Nat \ {0} : c = 2^m
    <3>1. m \in 0..28
      BY <2>2
    <3>2. 2^m \in Nat \ {0}
      BY <3>1, PowerIs
    <3> QED
      BY <3>2
  <2>4. H[i - 1] = v \div (2 * c)
    <3>1. H[i - 1] = v \div 2^(n - (i - 1))
      BY <1>13, <2>1
    <3>2. 2^(m + 1) = 2 * c
      BY <2>3, TwiceAsMuch
    <3> QED
      BY ONLY <2>2, <3>1, <3>2
  <2>5. PICK q \in 0..v : q = v \div c /\ v \div (2 * c) = q \div 2
    BY HalfOf
  <2>6. bs[i] = q % 2
    <3>1. ~(n - i > 28)
      BY <2>2
    <3>2. bs[i] = (v \div 2^(n - i)) % 2
      BY <1>6, <3>1
    <3>3. bs[i] = (v \div 2^m) % 2
      BY ONLY <2>2, <3>2
    <3> QED
      BY ONLY <2>3, <2>5, <3>3
  <2>7. 2 * H[i - 1] + bs[i] = q
    <3>1. 2 * (q \div 2) + (q % 2) = q
      BY ONLY q \in 0..v, v \in Nat
    <3> QED
      BY ONLY <2>4, <2>5, <2>6, <3>1
  <2>8. ~(q > W)
    BY <1>1
  <2>9. H[i] = IF 2 * H[i - 1] + bs[i] > W THEN W ELSE 2 * H[i - 1] + bs[i]
    BY <1>5
  <2>10. H[i] = v \div 2^m
    BY ONLY <2>3, <2>5, <2>7, <2>8, <2>9
  <2> QED
    BY ONLY <2>1, <2>2, <2>10
<1>14. \A k \in Nat : k \in good
  <2>1. 0 \in good
    <3>1. z + 0 = z
      OBVIOUS
    <3> QED
      BY <1>9, <1>12, <3>1
  <2> HIDE DEF good
  <2> QED
    BY <1>13, <2>1, SetInduction
<1>15. H[n] = v
  <2>1. PICK k \in Nat : k = n - z /\ z + k = n /\ n - n = 0
    OBVIOUS
  <2>3. H[z + k] = v \div 2^(n - (z + k))
    <3>1. k \in good
      <4> HIDE DEF good
      <4> QED
        BY <1>14
    <3> QED
      BY <2>1, <3>1
  <2>2. H[n] = v \div 2^0
    BY ONLY <2>1, <2>3
  <2> QED
    BY ONLY <2>2, v \in Nat
<1> QED
  BY <1>2, <1>5, <1>15

\* A power of two is the product of two of them.
LEMMA PowerSum ==
    ASSUME NEW a \in 0..28, NEW b \in 0..28, a + b <= 28
    PROVE  2^(a + b) = 2^a * 2^b
<1> DEFINE good == {k \in Nat : a + k <= 28 => 2^(a + k) = 2^a * 2^k}
<1>1. 0 \in good
  <2>1. PICK x \in Nat : x = 2^a
    BY PowerIs
  <2>2. 2^0 = 1 /\ a + 0 = a
    OBVIOUS
  <2>3. x * 1 = x
    BY ONLY x \in Nat
  <2>4. 2^(a + 0) = 2^a * 2^0
    BY ONLY <2>1, <2>2, <2>3
  <2> QED
    BY <2>4
<1>2. ASSUME NEW k \in Nat, k \in good PROVE k + 1 \in good
  <2> SUFFICES ASSUME a + (k + 1) <= 28 PROVE 2^(a + (k + 1)) = 2^a * 2^(k + 1)
    OBVIOUS
  <2>1. k \in 0..27 /\ k \in 0..28 /\ a + k \in 0..27 /\ a + (k + 1) = (a + k) + 1
    OBVIOUS
  <2>2. PICK j \in 0..27 : j = a + k
    BY <2>1
  <2>3. 2^(j + 1) = 2 * 2^j
    BY TwiceAsMuch
  <2>4. 2^(k + 1) = 2 * 2^k
    BY <2>1, TwiceAsMuch
  <2>5. PICK x \in Nat : x = 2^a
    BY PowerIs
  <2>6. PICK y \in Nat : y = 2^k
    BY <2>1, PowerIs
  <2>7. 2^j = x * y
    BY <1>2, <2>1, <2>2, <2>5, <2>6
  <2>8. 2 * (x * y) = x * (2 * y)
    BY ONLY x \in Nat, y \in Nat
  <2> QED
    BY ONLY <2>1, <2>2, <2>3, <2>4, <2>5, <2>6, <2>7, <2>8
<1>3. \A k \in Nat : k \in good
  <2> HIDE DEF good
  <2> QED
    BY <1>1, <1>2, SetInduction
<1>4. b \in good
  <2> HIDE DEF good
  <2> QED
    BY <1>3
<1> QED
  BY <1>4

\* Dividing by a product, and what is left of a multiple.
LEMMA DividedTwice ==
    ASSUME NEW v \in Int, NEW c \in Nat \ {0}, NEW d \in Nat \ {0}
    PROVE  v \div (c * d) = (v \div c) \div d
<1>1. PICK q \in Int, r \in 0..c - 1 : q = v \div c /\ v = c * q + r
  OBVIOUS
<1>2. PICK s \in Int, t \in 0..d - 1 : s = q \div d /\ q = d * s + t
  OBVIOUS
<1>3. PICK u \in Nat : u = c * t + r
  OBVIOUS
<1>4. u < c * d
  <2>1. c * t <= c * (d - 1)
    BY <1>2
  <2>2. c * (d - 1) = c * d - c
    OBVIOUS
  <2> QED
    BY <1>3, <2>1, <2>2
<1>5. v = (c * d) * s + u
  <2>1. c * q = c * (d * s) + c * t
    BY <1>2
  <2>2. c * (d * s) = (c * d) * s
    OBVIOUS
  <2> QED
    BY <1>1, <1>3, <2>1, <2>2
<1>6. PICK e \in Nat \ {0} : e = c * d
  OBVIOUS
<1>7. v \div e = s
  <2>1. v = e * s + u /\ u \in 0..e - 1
    BY <1>4, <1>5, <1>6
  <2> QED
    BY ONLY <2>1, e \in Nat \ {0}, s \in Int, v \in Int
<1> QED
  BY <1>1, <1>2, <1>6, <1>7

\* A field of n bits holds the number modulo 2^n.
LEMMA SameBits ==
    ASSUME NEW v \in Int, NEW n \in 0..28
    PROVE  Bits(v, n) = Bits(v % 2^n, n)
<1>1. PICK m \in Nat \ {0} : m = 2^n
  BY PowerIs
<1>2. PICK r \in Nat : r = v % m
  OBVIOUS
<1>3. PICK q \in Int : v = m * q + r
  <2>1. v \div m \in Int /\ v = m * (v \div m) + (v % m)
    BY ONLY v \in Int, m \in Nat \ {0}
  <2> QED
    BY <1>2, <2>1
<1>4. ASSUME NEW i \in 1..n PROVE (v \div 2^(n - i)) % 2 = (r \div 2^(n - i)) % 2
  <2>1. PICK k \in 0..27 : k = n - i
    OBVIOUS
  <2>2. PICK j \in 0..27 : j = i - 1 /\ k + (j + 1) = n
    BY <2>1
  <2>a. k \in 0..28 /\ j \in 0..28 /\ j + 1 \in 0..28 /\ k + (j + 1) <= 28
    BY <2>2
  <2>3. PICK c \in Nat \ {0} : c = 2^k
    BY <2>a, PowerIs
  <2>4. PICK h \in Nat \ {0} : h = 2^j
    BY <2>a, PowerIs
  <2>5. m = c * (2 * h)
    <3>1. PICK e \in 0..28 : e = j + 1 /\ k + e <= 28
      BY <2>a
    <3>4. 2^(k + e) = 2^k * 2^e
      BY <2>a, <3>1, PowerSum
    <3>2. 2^(k + (j + 1)) = 2^k * 2^(j + 1)
      BY ONLY <3>1, <3>4
    <3>3. 2^(j + 1) = 2 * 2^j
      BY TwiceAsMuch
    <3> QED
      BY ONLY <1>1, <2>2, <2>3, <2>4, <3>2, <3>3
  <2>6. PICK x \in Nat, y \in 0..c - 1 : x = r \div c /\ r = c * x + y
    <3>1. r \div c \in Nat /\ r % c \in 0..c - 1 /\ r = c * (r \div c) + (r % c)
      BY ONLY r \in Nat, c \in Nat \ {0}
    <3> QED
      BY <3>1
  <2>7. PICK z \in Int : z = h * q
    OBVIOUS
  <2>8. PICK w \in Int : w = 2 * z + x
    OBVIOUS
  <2>9. v = c * w + y
    <3>1. (c * (2 * h)) * q = c * (2 * z)
      BY ONLY <2>7, c \in Nat, h \in Nat, q \in Int, z \in Int
    <3>2. c * w = c * (2 * z) + c * x
      BY ONLY <2>8, c \in Nat, z \in Int, x \in Nat
    <3>3. PICK a \in Int : a = c * (2 * z)
      OBVIOUS
    <3>4. PICK b \in Int : b = c * x
      OBVIOUS
    <3>5. m * q = a
      BY ONLY <2>5, <3>1, <3>3
    <3>6. c * w = a + b
      BY ONLY <3>2, <3>3, <3>4
    <3> QED
      BY ONLY <1>3, <2>6, <3>4, <3>5, <3>6, a \in Int, b \in Int, y \in 0..c - 1, c \in Nat
  <2>10. v \div c = w
    BY ONLY <2>9, w \in Int, c \in Nat \ {0}, y \in 0..c - 1, v \in Int
  <2>11. w % 2 = x % 2
    BY ONLY <2>8, z \in Int, x \in Nat
  <2> QED
    BY ONLY <2>1, <2>3, <2>6, <2>10, <2>11
<1>5. Bits(v, n) = Bits(r, n)
  BY ONLY <1>4 DEF Bits
<1> QED
  BY <1>1, <1>2, <1>5

\* The number that a field gives back.
LEMMA NumberOfBits ==
    ASSUME NEW v \in Int, NEW n \in 0..28
    PROVE  Number(Bits(v, n)) = v % 2^n
<1>1. PICK m \in Nat \ {0} : m = 2^n
  BY PowerIs
<1>2. PICK r \in 0..m - 1 : r = v % m
  OBVIOUS
<1>3. r < WordMax
  <2>1. m <= WordMax
    <3>1. PICK h \in Nat \ {0} : h = 2^(28 - n)
      <4>1. 28 - n \in 0..28
        OBVIOUS
      <4> QED
        BY <4>1, PowerIs
    <3>2. 2^28 = m * h
      <4>1. PICK e \in 0..28 : e = 28 - n /\ n + e = 28 /\ n + e <= 28
        OBVIOUS
      <4>2. 2^(n + e) = 2^n * 2^e
        BY <4>1, PowerSum
      <4> QED
        BY ONLY <1>1, <3>1, <4>1, <4>2
    <3>3. m * h >= m
      BY ONLY m \in Nat \ {0}, h \in Nat \ {0}
    <3>4. WordMax = m * h
      BY ONLY <3>2 DEF WordMax
    <3> QED
      BY ONLY <3>3, <3>4
  <2>2. PICK W \in Nat : W = WordMax
    BY WordIs
  <2> QED
    BY ONLY <2>1, <2>2, W \in Nat, r \in 0..m - 1, m \in Nat
<1>4. Number(Bits(r, n)) = r
  <2>1. r \in Nat /\ n \in Nat /\ r < m
    OBVIOUS
  <2>2. r < 2^n
    BY <1>1, <2>1
  <2> QED
    BY <1>3, <2>1, <2>2, NumberSpelled
<1> QED
  BY <1>1, <1>2, <1>4, SameBits

-----------------------------------------------------------------------------
(* What is shown is read *)

\* The bits of c stand in buf behind position p, as far as buf reaches.
Shows(buf, p, c) == \A i \in 1..Len(c) : p + i <= Len(buf) => buf[p + i] = c[i]

\* Reading up to e gives x, or ends at the end of buf.
Gives(r, x, e, buf) == IF e <= Len(buf) THEN r = Ok(x, e) ELSE r.rc = "EOF"

LEMMA ReadShown ==
    ASSUME NEW buf \in Seq(Bit), NEW p \in Nat, NEW c \in Seq(Bit), NEW n, n = Len(c), Shows(buf, p, c)
    PROVE  Gives(ReadRaw(buf, p, n), c, p + n, buf) /\ Gives(ReadBits(buf, p, n), Number(c), p + n, buf)
<1>1. PICK m \in Nat : m = Len(buf)
  OBVIOUS
<1>2. n \in Nat
  OBVIOUS
<1>3. CASE p + n > m
  <2>1. ReadRaw(buf, p, n) = Fail("EOF", p) /\ ReadBits(buf, p, n) = Fail("EOF", p)
    BY <1>1, <1>3 DEF ReadRaw, ReadBits
  <2>2. Fail("EOF", p).rc = "EOF"
    BY DEF Fail
  <2>3. ~(p + n <= m)
    BY <1>2, <1>3
  <2> QED
    BY <1>1, <2>1, <2>2, <2>3 DEF Gives
<1>4. CASE p + n <= m
  <2>1. SubSeq(buf, p + 1, p + n) = c
    <3>1. SubSeq(buf, p + 1, p + n) = [i \in 1..(p + n) - (p + 1) + 1 |-> buf[i + (p + 1) - 1]]
      BY ONLY <1>1, <1>2, <1>4, buf \in Seq(Bit), p \in Nat
    <3>2. (p + n) - (p + 1) + 1 = n /\ \A i \in 1..n : i + (p + 1) - 1 = p + i
      BY <1>2
    <3>3. \A i \in 1..n : buf[p + i] = c[i]
      <4> SUFFICES ASSUME NEW i \in 1..n PROVE buf[p + i] = c[i]
        OBVIOUS
      <4>1. p + i <= m
        BY <1>2, <1>4
      <4> QED
        BY <1>1, <4>1 DEF Shows
    <3>4. c = [i \in 1..n |-> c[i]]
      OBVIOUS
    <3> QED
      BY ONLY <3>1, <3>2, <3>3, <3>4
  <2>2. ~(p + n > m)
    BY <1>2, <1>4
  <2>3. ReadRaw(buf, p, n) = Ok(c, p + n) /\ ReadBits(buf, p, n) = Ok(Number(c), p + n)
    BY <1>1, <2>1, <2>2 DEF ReadRaw, ReadBits
  <2> QED
    BY <1>1, <1>4, <2>3 DEF Gives
<1> QED
  BY <1>1, <1>2, <1>3, <1>4

\* The first group of a VarInt, and what follows it.
Grouped(c, x, rest, d) ==
    /\ c \in Seq(Bit) /\ d \in Seq(Bit)
    /\ c[1] = IF rest = 0 THEN 0 ELSE 1
    /\ \A i \in 1..7 : c[1 + i] = Bits(x, 7)[i]
    /\ Len(c) = 8 + (IF rest = 0 THEN 0 ELSE Len(d))
    /\ rest # 0 => \A i \in 1..Len(d) : c[8 + i] = d[i]

LEMMA VarintIs ==
    ASSUME GroupBits = 7, NEW x \in Nat, NEW rest, rest = x \div 128, NEW c, c = VarintU(x),
           NEW d, d = VarintU(rest)
    PROVE  Grouped(c, x, rest, d)
<1> DEFINE G == CHOOSE f : f = GroupsOf(f)
<1>1. c = G[x] /\ d = G[rest]
  BY DEF VarintU, GroupsOf
<1>2. G = GroupsOf(G)
  BY GroupsExist
<1> HIDE DEF G
<1>3. rest \in Nat /\ x \div 2^GroupBits = rest
  <2>1. 2^GroupBits = 128
    BY GroupBits = 7
  <2>2. x \div 128 \in Nat
    BY ONLY x \in Nat
  <2> QED
    BY ONLY <2>1, <2>2, rest = x \div 128
<1>4. c \in Seq(Bit) /\ d \in Seq(Bit)
  BY <1>3, VarintLength
<1> DEFINE Behind(q) == <<IF q = 0 THEN 0 ELSE 1>> \o Bits(x, GroupBits) \o (IF q = 0 THEN <<>> ELSE G[q])
<1>5. G[x] = Behind(x \div 2^GroupBits)
  BY ONLY <1>2, x \in Nat, Zenon DEF GroupsOf
<1> HIDE DEF Behind
<1>6. c = Behind(rest)
  BY ONLY <1>1, <1>3, <1>5, Zenon
<1>7. PICK a : a = <<IF rest = 0 THEN 0 ELSE 1>>
  OBVIOUS
<1>8. PICK b : b = Bits(x, 7)
  OBVIOUS
<1>9. PICK e : e = IF rest = 0 THEN <<>> ELSE d
  OBVIOUS
<1>10. PICK n : n = IF rest = 0 THEN 0 ELSE Len(d)
  OBVIOUS
<1>11. Run(a, 1) /\ a[1] = IF rest = 0 THEN 0 ELSE 1
  BY <1>7 DEF Run, Bit
<1>12. Run(b, 7)
  <2>1. x \in Int /\ 7 \in Nat
    OBVIOUS
  <2> QED
    BY <1>8, <2>1, BitsType DEF Run
<1>13. Run(e, n)
  <2>1. <<>> \in Seq(Bit) /\ Len(<<>>) = 0
    OBVIOUS
  <2> QED
    BY <1>4, <1>9, <1>10, <2>1 DEF Run
<1>14. c = a \o b \o e
  BY ONLY <1>1, <1>6, <1>7, <1>8, <1>9, GroupBits = 7, Zenon DEF Behind
<1>15. PICK ab : Joins(ab, a, b)
  BY DEF Joins
<1>16. Run(ab, 8) /\ Begins(ab, a, 1) /\ Follows(ab, b, 1, 7)
  <2>1. 1 + 7 = 8
    OBVIOUS
  <2>2. Run(ab, 1 + 7) /\ Begins(ab, a, 1) /\ Follows(ab, b, 1, 7)
    BY ONLY <1>11, <1>12, <1>15, Joined
  <2> QED
    BY <2>1, <2>2
<1>17. Joins(c, ab, e)
  BY ONLY <1>14, <1>15 DEF Joins
<1>18. Run(c, 8 + n) /\ Begins(c, ab, 8) /\ Follows(c, e, 8, n)
  BY ONLY <1>13, <1>16, <1>17, Joined
<1>19. Len(c) = 8 + n
  BY ONLY <1>18 DEF Run
<1>20. c[1] = a[1]
  BY ONLY <1>16, <1>18 DEF Begins
<1>21. \A i \in 1..7 : c[1 + i] = b[i]
  <2> SUFFICES ASSUME NEW i \in 1..7 PROVE c[1 + i] = b[i]
    OBVIOUS
  <2>1. 1 + i \in 1..8
    OBVIOUS
  <2>2. c[1 + i] = ab[1 + i]
    BY ONLY <1>18, <2>1 DEF Begins
  <2>3. ab[1 + i] = b[i]
    BY ONLY <1>16, i \in 1..7 DEF Follows
  <2> QED
    BY ONLY <2>2, <2>3
<1>22. \A i \in 1..n : c[8 + i] = e[i]
  BY ONLY <1>18 DEF Follows
<1> QED
  BY ONLY <1>4, <1>8, <1>9, <1>10, <1>11, <1>19, <1>20, <1>21, <1>22 DEF Grouped

\* The groups of a VarInt, the least significant one last, are the number.
LEMMA BitsJoined ==
    ASSUME NEW v \in Nat, NEW a \in 0..21
    PROVE  Bits(v \div 2^a, 7) \o Bits(v, a) = Bits(v, a + 7)
<1>1. PICK p \in Nat \ {0} : p = 2^a
  <2>1. a \in 0..28
    OBVIOUS
  <2> QED
    BY <2>1, PowerIs
<1>2. PICK x \in Nat : x = v \div p
  BY ONLY v \in Nat, p \in Nat \ {0}
<1>3. PICK s : s = Bits(x, 7)
  OBVIOUS
<1>4. PICK t : t = Bits(v, a)
  OBVIOUS
<1>5. PICK u : u = Bits(v, a + 7)
  OBVIOUS
<1>0. Run(s, 7) /\ Run(t, a) /\ Run(u, a + 7)
  <2>1. x \in Int /\ v \in Int /\ 7 \in Nat /\ a \in Nat /\ a + 7 \in Nat
    OBVIOUS
  <2>2. Run(s, 7)
    BY <1>3, <2>1, BitsType DEF Run
  <2>3. Run(t, a)
    BY <1>4, <2>1, BitsType DEF Run
  <2>4. Run(u, a + 7)
    BY <1>5, <2>1, BitsType DEF Run
  <2> QED
    BY <2>2, <2>3, <2>4
<1>6. ASSUME NEW i \in 1..7 PROVE u[i] = s[i]
  <2>1. PICK k \in 0..6 : k = 7 - i
    OBVIOUS
  <2>2. PICK d \in Nat \ {0} : d = 2^k
    <3>1. k \in 0..28
      OBVIOUS
    <3> QED
      BY <3>1, PowerIs
  <2>3. a + 7 - i = a + k /\ ~(a + 7 - i > 28) /\ ~(7 - i > 28) /\ i \in 1..a + 7
    BY <2>1
  <2>4. u[i] = (v \div 2^(a + k)) % 2
    BY <1>5, <2>3 DEF Bits
  <2>5. s[i] = (x \div 2^k) % 2
    BY <1>3, <2>1, <2>3 DEF Bits
  <2>6. 2^(a + k) = p * d
    <3>1. a \in 0..28 /\ k \in 0..28 /\ a + k <= 28
      OBVIOUS
    <3>2. 2^(a + k) = 2^a * 2^k
      BY <3>1, PowerSum
    <3> QED
      BY ONLY <1>1, <2>2, <3>2
  <2>7. v \div (p * d) = (v \div p) \div d
    <3>1. v \in Int /\ p \in Nat \ {0} /\ d \in Nat \ {0}
      OBVIOUS
    <3> QED
      BY ONLY <3>1, DividedTwice
  <2> QED
    BY ONLY <1>2, <2>2, <2>4, <2>5, <2>6, <2>7
<1>7. ASSUME NEW i \in 1..a PROVE u[7 + i] = t[i]
  <2>1. a + 7 - (7 + i) = a - i /\ ~(a - i > 28) /\ 7 + i \in 1..a + 7
    OBVIOUS
  <2>2. u[7 + i] = IF a + 7 - (7 + i) > 28 THEN 0 ELSE (v \div 2^(a + 7 - (7 + i))) % 2
    BY <1>5, <2>1 DEF Bits
  <2>3. t[i] = IF a - i > 28 THEN 0 ELSE (v \div 2^(a - i)) % 2
    BY <1>4 DEF Bits
  <2> QED
    BY ONLY <2>1, <2>2, <2>3
<1>8. PICK w : Joins(w, s, t)
  BY DEF Joins
<1>9. Run(w, 7 + a) /\ Begins(w, s, 7) /\ Follows(w, t, 7, a)
  BY ONLY <1>0, <1>8, Joined
<1>10. ASSUME NEW i \in 1..7 + a PROVE w[i] = u[i]
  <2>1. CASE i \in 1..7
    <3>1. w[i] = s[i]
      BY ONLY <1>9, <2>1 DEF Begins
    <3> QED
      BY <1>6, <2>1, <3>1
  <2>2. CASE i \notin 1..7
    <3>1. PICK j \in 1..a : i = 7 + j
      <4>1. i - 7 \in 1..a /\ i = 7 + (i - 7)
        BY <2>2
      <4> QED
        BY <4>1
    <3>2. w[7 + j] = t[j]
      BY ONLY <1>9, j \in 1..a DEF Follows
    <3> QED
      BY <1>7, <3>1, <3>2
  <2> QED
    BY <2>1, <2>2
<1>11. w = u
  <2>1. a + 7 = 7 + a
    OBVIOUS
  <2>2. Run(w, 7 + a) /\ Run(u, 7 + a)
    BY ONLY <1>0, <1>9, <2>1
  <2> QED
    BY ONLY <1>10, <2>2, SameRun
<1> QED
  BY ONLY <1>1, <1>2, <1>3, <1>4, <1>5, <1>8, <1>11 DEF Joins

\* A VarInt is read as far as its last a bits, and the rest of it is shown from here.
Underway(w, v, a, e, buf) ==
    \E r : /\ w = [more |-> TRUE, bits |-> Bits(v, a), r |-> r]
           /\ r.pos \in Nat /\ Shows(buf, r.pos, VarintU(v \div 2^a))
           /\ e = r.pos + Len(VarintU(v \div 2^a))
           /\ a = 0 \/ v \div 2^a # 0
\* It is read, or the buffer has ended.
Over(w, v, e, buf) == w.more = FALSE /\ Gives(w.r, v, e, buf)

\* The last group of a number is missing.
Misses(w, s) == [w EXCEPT !.more = FALSE, !.r = s]

LEMMA GroupMissing ==
    ASSUME NEW b, NEW r, NEW s
    PROVE  Misses([more |-> TRUE, bits |-> b, r |-> r], s) = [more |-> FALSE, bits |-> b, r |-> s]
<1>1. PICK w : w = [more |-> TRUE, bits |-> b, r |-> r]
  OBVIOUS
<1>2. PICK u : u = [w EXCEPT !.more = FALSE]
  BY Zenon
<1>3. u = [more |-> FALSE, bits |-> b, r |-> r]
  BY ONLY <1>1, <1>2
<1>4. PICK e : e = [u EXCEPT !.r = s]
  BY Zenon
<1>5. e = [k \in {"more", "bits", "r"} |-> IF k = "r" THEN s ELSE u[k]]
  BY ONLY <1>3, <1>4
<1>6. e = [more |-> FALSE, bits |-> b, r |-> s]
  BY ONLY <1>3, <1>5
<1> QED
  BY ONLY <1>1, <1>2, <1>4, <1>6, Zenon DEF Misses

\* Eight bits that are shown: the mark and a group.
IsGroup(g, buf, q, c, x) == ReadRaw(buf, q, 8) = Ok(g, q + 8) /\ g[1] = c[1] /\ Tail(g) = Bits(x, 7)

LEMMA GroupShown ==
    ASSUME NEW buf \in Seq(Bit), NEW q \in Nat, NEW c, Shows(buf, q, c), q + 8 <= Len(buf),
           NEW x \in Nat, NEW rest, NEW d, Grouped(c, x, rest, d)
    PROVE  \E g : IsGroup(g, buf, q, c, x)
<1>0. c \in Seq(Bit) /\ Len(c) \in Nat /\ Len(c) >= 8 /\ \A i \in 1..7 : c[1 + i] = Bits(x, 7)[i]
  <2>1. PICK k \in Nat : k = Len(d)
    BY DEF Grouped
  <2>2. Len(c) = 8 + (IF rest = 0 THEN 0 ELSE k)
    BY <2>1 DEF Grouped
  <2>3. Len(c) \in Nat /\ Len(c) >= 8
    BY ONLY <2>2, k \in Nat
  <2> QED
    BY <2>3 DEF Grouped
<1>1. PICK m \in Nat : m = Len(buf)
  OBVIOUS
<1>2. PICK g : g = SubSeq(buf, q + 1, q + 8)
  OBVIOUS
<1>3. ReadRaw(buf, q, 8) = Ok(g, q + 8)
  <2>1. ~(q + 8 > m)
    BY <1>1
  <2> QED
    BY ONLY <1>1, <1>2, <2>1 DEF ReadRaw
<1>4. g = [i \in 1..8 |-> buf[q + i]]
  <2>1. g = [i \in 1..(q + 8) - (q + 1) + 1 |-> buf[i + (q + 1) - 1]]
    BY ONLY <1>1, <1>2, q + 8 <= m, buf \in Seq(Bit), q \in Nat
  <2>2. (q + 8) - (q + 1) + 1 = 8 /\ \A i \in 1..8 : i + (q + 1) - 1 = q + i
    OBVIOUS
  <2> QED
    BY ONLY <2>1, <2>2
<1>5. \A i \in 1..8 : g[i] = c[i]
  <2> SUFFICES ASSUME NEW i \in 1..8 PROVE g[i] = c[i]
    OBVIOUS
  <2>1. i \in 1..Len(c) /\ q + i <= Len(buf)
    BY <1>0
  <2>2. buf[q + i] = c[i]
    BY ONLY <2>1, Shows(buf, q, c) DEF Shows
  <2> QED
    BY ONLY <1>4, <2>2, i \in 1..8
<1>6. Len(g) = 8 /\ Tail(g) = [i \in 1..7 |-> g[i + 1]]
  <2>1. PICK B : B = {buf[q + i] : i \in 1..8}
    OBVIOUS
  <2>2. \A i \in 1..8 : g[i] \in B
    BY ONLY <1>4, <2>1
  <2>3. g = [i \in 1..8 |-> g[i]]
    BY ONLY <1>4
  <2>4. g \in Seq(B) /\ Len(g) = 8
    <3>1. 8 \in Nat
      OBVIOUS
    <3> QED
      BY ONLY <2>2, <2>3, <3>1, SequenceIs
  <2>5. g # <<>>
    <3> SUFFICES ASSUME g = <<>> PROVE FALSE
      OBVIOUS
    <3> QED
      BY ONLY <2>4, g = <<>>
  <2>6. Tail(g) \in Seq(B) /\ Len(Tail(g)) = Len(g) - 1 /\ \A i \in 1..Len(Tail(g)) : Tail(g)[i] = g[i + 1]
    BY ONLY <2>4, <2>5, HeadTailProperties
  <2>7. PICK t \in Seq(B) : t = Tail(g)
    BY <2>6
  <2>a. Len(Tail(g)) = 7
    BY ONLY <2>4, <2>6
  <2>8. Len(t) = 7 /\ \A i \in 1..7 : t[i] = g[i + 1]
    BY ONLY <2>6, <2>7, <2>a, Zenon
  <2>9. t = [i \in 1..7 |-> t[i]]
    BY ONLY <2>8, t \in Seq(B)
  <2> QED
    BY ONLY <2>4, <2>7, <2>8, <2>9
<1>7. Tail(g) = Bits(x, 7)
  <2>1. Bits(x, 7) = [i \in 1..7 |-> Bits(x, 7)[i]]
    <3>1. x \in Int /\ 7 \in Nat
      OBVIOUS
    <3>2. Bits(x, 7) \in Seq(Bit) /\ Len(Bits(x, 7)) = 7
      BY ONLY <3>1, BitsType
    <3>3. PICK y : y = Bits(x, 7)
      OBVIOUS
    <3>4. Run(y, 7)
      BY ONLY <3>2, <3>3 DEF Run
    <3>5. y = [i \in 1..7 |-> y[i]]
      BY ONLY <3>4 DEF Run
    <3> QED
      BY ONLY <3>3, <3>5
  <2>2. \A i \in 1..7 : g[i + 1] = Bits(x, 7)[i]
    <3> SUFFICES ASSUME NEW i \in 1..7 PROVE g[i + 1] = Bits(x, 7)[i]
      OBVIOUS
    <3>1. i + 1 = 1 + i /\ i + 1 \in 1..8
      OBVIOUS
    <3> QED
      BY ONLY <1>0, <1>5, <3>1, i \in 1..7
  <2> QED
    BY ONLY <1>6, <2>1, <2>2
<1>8. g[1] = c[1]
  BY <1>5
<1>9. IsGroup(g, buf, q, c, x)
  BY ONLY <1>3, <1>7, <1>8 DEF IsGroup
<1> QED
  BY ONLY <1>9

\* One turn of ReadVarintU on a VarInt that is shown.
LEMMA TurnShown ==
    ASSUME GroupBits = 7, NEW buf \in Seq(Bit), NEW v \in Nat, NEW a \in 0..21, NEW e, NEW w, Underway(w, v, a, e, buf)
    PROVE  Underway(OneGroupMore(buf, w), v, a + 7, e, buf) \/ Over(OneGroupMore(buf, w), v, e, buf)
<1>1. PICK r : /\ w = [more |-> TRUE, bits |-> Bits(v, a), r |-> r]
               /\ r.pos \in Nat /\ Shows(buf, r.pos, VarintU(v \div 2^a))
               /\ e = r.pos + Len(VarintU(v \div 2^a))
  BY DEF Underway
<1>2. PICK p \in Nat \ {0} : p = 2^a
  <2>1. a \in 0..28
    OBVIOUS
  <2> QED
    BY <2>1, PowerIs
<1>3. PICK x \in Nat : x = v \div p
  <2>1. v \div p \in Nat
    BY ONLY v \in Nat, p \in Nat \ {0}
  <2> QED
    BY ONLY <2>1
<1>4. PICK rest \in Nat : rest = x \div 128
  BY ONLY x \in Nat
<1>5. PICK c : c = VarintU(x)
  OBVIOUS
<1>6. PICK d : d = VarintU(rest)
  OBVIOUS
<1>7. Grouped(c, x, rest, d)
  BY ONLY <1>4, <1>5, <1>6, GroupBits = 7, x \in Nat, VarintIs
<1>8. PICK q \in Nat : q = r.pos
  BY <1>1
<1>9. Shows(buf, q, c) /\ e = q + Len(c)
  BY ONLY <1>1, <1>2, <1>3, <1>5, <1>8
<1>10. PICK k \in Nat : k = Len(d)
  BY <1>7 DEF Grouped
<1>11. Len(c) = 8 + (IF rest = 0 THEN 0 ELSE k)
  BY ONLY <1>7, <1>10 DEF Grouped
<1>12. PICK m \in Nat : m = Len(buf)
  OBVIOUS
<1>13. PICK group : group = ReadRaw(buf, q, 8)
  OBVIOUS
<1>14. PICK o : o = OneGroupMore(buf, w)
  OBVIOUS
<1>15. o = IF group.rc # "OK" THEN Misses(w, group)
           ELSE [more |-> group.val[1] = 1, bits |-> Tail(group.val) \o Bits(v, a),
                 r |-> Ok(Number(Tail(group.val) \o Bits(v, a)), group.pos)]
  <2>1. w.more = TRUE /\ w.bits = Bits(v, a) /\ w.r = r
    BY ONLY <1>1
  <2>2. GroupBits + 1 = 8
    BY GroupBits = 7
  <2> QED
    BY ONLY <1>8, <1>13, <1>14, <2>1, <2>2, Zenon DEF OneGroupMore, Misses
<1>16. CASE q + 8 > m
  <2>1. group = Fail("EOF", q)
    BY ONLY <1>12, <1>13, <1>16 DEF ReadRaw
  <2>2. group.rc = "EOF" /\ group.rc # "OK"
    BY ONLY <2>1 DEF Fail
  <2>3. o = Misses(w, group)
    BY ONLY <1>15, <2>2
  <2>4. o = [more |-> FALSE, bits |-> Bits(v, a), r |-> group]
    BY ONLY <1>1, <2>3, GroupMissing
  <2>5. ~(e <= m)
    BY ONLY <1>9, <1>11, <1>16, q \in Nat, m \in Nat, k \in Nat
  <2>6. Over(o, v, e, buf)
    BY ONLY <1>12, <2>2, <2>4, <2>5 DEF Over, Gives
  <2> QED
    BY ONLY <1>14, <2>6
<1>17. CASE q + 8 <= m
  <2>1. PICK g : ReadRaw(buf, q, 8) = Ok(g, q + 8) /\ g[1] = c[1] /\ Tail(g) = Bits(x, 7)
    <3>1. q + 8 <= Len(buf)
      BY ONLY <1>12, <1>17
    <3>2. \E g : IsGroup(g, buf, q, c, x)
      BY ONLY <1>7, <1>9, <3>1, buf \in Seq(Bit), q \in Nat, x \in Nat, GroupShown
    <3> QED
      BY ONLY <3>2 DEF IsGroup
  <2>2. group.rc = "OK" /\ group.val = g /\ group.pos = q + 8
    BY ONLY <1>13, <2>1 DEF Ok
  <2>3. PICK t : t = Bits(v, a + 7)
    OBVIOUS
  <2>4. Bits(x, 7) \o Bits(v, a) = t
    BY ONLY <1>2, <1>3, <2>3, v \in Nat, a \in 0..21, BitsJoined
  <2>5. PICK h : h = Ok(Number(t), q + 8)
    OBVIOUS
  <2>6. o = [more |-> g[1] = 1, bits |-> t, r |-> h]
    BY ONLY <1>15, <2>1, <2>2, <2>4, <2>5
  <2>7. h.rc = "OK" /\ h.val = Number(t) /\ h.pos = q + 8
    BY ONLY <2>5 DEF Ok
  <2>8. PICK z \in Nat \ {0} : z = 2^(a + 7)
    <3>1. a + 7 \in 0..28
      OBVIOUS
    <3> QED
      BY <3>1, PowerIs
  <2>9. v \div z = rest
    <3>1. 7 \in 0..28 /\ a \in 0..28 /\ a + 7 <= 28
      OBVIOUS
    <3>2. 2^(a + 7) = 2^a * 2^7
      BY ONLY <3>1, PowerSum
    <3>3. 2^7 = 128 /\ 128 \in Nat \ {0}
      OBVIOUS
    <3>4. z = p * 128
      BY ONLY <1>2, <2>8, <3>2, <3>3
    <3>5. v \div (p * 128) = (v \div p) \div 128
      <4>1. v \in Int
        OBVIOUS
      <4>2. PICK u \in Nat \ {0} : u = 128
        OBVIOUS
      <4>3. v \div (p * u) = (v \div p) \div u
        BY ONLY <4>1, u \in Nat \ {0}, p \in Nat \ {0}, DividedTwice
      <4> QED
        BY ONLY <4>2, <4>3
    <3> QED
      BY ONLY <1>3, <1>4, <3>4, <3>5
  <2>10. CASE rest = 0
    <3>1. (g[1] = 1) = FALSE
      BY ONLY <1>7, <2>1, <2>10 DEF Grouped
    <3>2. Number(t) = v % z
      <4>1. v \in Int /\ a + 7 \in 0..28
        OBVIOUS
      <4> QED
        BY ONLY <2>3, <2>8, <4>1, NumberOfBits
    <3>3. v % z = v
      BY ONLY <2>9, <2>10, v \in Nat, z \in Nat \ {0}
    <3>4. e = q + 8
      BY ONLY <1>9, <1>11, <2>10, q \in Nat
    <3>5. o.more = FALSE /\ o.r = h
      <4>1. o = [more |-> FALSE, bits |-> t, r |-> h]
        BY ONLY <2>6, <3>1
      <4> QED
        BY ONLY <4>1
    <3>6. e <= m
      BY ONLY <1>17, <3>4
    <3>7. h = Ok(v, e)
      BY ONLY <2>5, <3>2, <3>3, <3>4
    <3>8. Over(o, v, e, buf)
      BY ONLY <1>12, <3>5, <3>6, <3>7 DEF Over, Gives
    <3> QED
      BY ONLY <1>14, <3>8
  <2>11. CASE rest # 0
    <3>1. o = [more |-> TRUE, bits |-> t, r |-> h]
      <4>1. (g[1] = 1) = TRUE
        BY ONLY <1>7, <2>1, <2>11 DEF Grouped
      <4> QED
        BY ONLY <2>6, <4>1
    <3>2. Shows(buf, q + 8, d)
      <4> SUFFICES ASSUME NEW i \in 1..Len(d), (q + 8) + i <= Len(buf) PROVE buf[(q + 8) + i] = d[i]
        BY Zenon DEF Shows
      <4>1. 8 + i \in 1..Len(c) /\ q + (8 + i) = (q + 8) + i
        BY ONLY <1>10, <1>11, <2>11, q \in Nat, i \in 1..Len(d), k \in Nat
      <4>2. buf[q + (8 + i)] = c[8 + i]
        BY ONLY <1>9, <4>1, (q + 8) + i <= Len(buf) DEF Shows
      <4>3. c[8 + i] = d[i]
        BY ONLY <1>7, <2>11, i \in 1..Len(d) DEF Grouped
      <4> QED
        BY ONLY <4>1, <4>2, <4>3
    <3>3. e = (q + 8) + Len(d)
      BY ONLY <1>9, <1>10, <1>11, <2>11, q \in Nat, k \in Nat
    <3>4. h.pos \in Nat /\ Shows(buf, h.pos, VarintU(v \div 2^(a + 7)))
          /\ e = h.pos + Len(VarintU(v \div 2^(a + 7))) /\ v \div 2^(a + 7) # 0
      <4>1. q + 8 \in Nat
        OBVIOUS
      <4> QED
        BY ONLY <1>6, <2>7, <2>8, <2>9, <2>11, <3>2, <3>3, <4>1
    <3>5. Underway(o, v, a + 7, e, buf)
      BY ONLY <2>3, <3>1, <3>4 DEF Underway
    <3> QED
      BY ONLY <1>14, <3>5
  <2> QED
    BY ONLY <2>10, <2>11
<1> QED
  BY ONLY <1>16, <1>17, q \in Nat, m \in Nat

\* What ReadVarintU gives for a VarInt that is shown.
LEMMA VarintShown ==
    ASSUME GroupBits = 7, MaxGroups >= 4, NEW buf \in Seq(Bit), NEW p \in 0..Len(buf), NEW v \in Nat, v < WordMax,
           Shows(buf, p, VarintU(v)), NEW e, e = p + Len(VarintU(v))
    PROVE  Gives(ReadVarintU(buf, p), v, e, buf)
<1> DEFINE F == CHOOSE f : f = GroupsRead(f, buf, p)
<1>1. ReadVarintU(buf, p) = IF F[MaxGroups].more THEN Fail("OVERFLOW", F[MaxGroups].r.pos) ELSE F[MaxGroups].r
  BY DEF ReadVarintU, GroupsRead, OneGroupMore, NoGroup
<1>2. F = GroupsRead(F, buf, p)
  BY GroupsReadExist
<1> HIDE DEF F
<1>3. PICK n \in Nat : n = MaxGroups /\ n >= 4
  BY VarintAssumption
<1>4. F[0] = NoGroup(p)
  <2>1. 0 \in 0..MaxGroups
    BY <1>3
  <2> QED
    BY ONLY <1>2, <2>1, Zenon DEF GroupsRead
<1>5. ASSUME NEW k \in Nat, k < n PROVE F[k + 1] = OneGroupMore(buf, F[k])
  <2>1. k + 1 \in 0..MaxGroups /\ k + 1 # 0 /\ (k + 1) - 1 = k
    BY <1>3, <1>5
  <2>2. PICK j : j = k + 1
    OBVIOUS
  <2>3. F[j] = OneGroupMore(buf, F[j - 1])
    BY ONLY <1>2, <2>1, <2>2, Zenon DEF GroupsRead
  <2> QED
    BY ONLY <2>1, <2>2, <2>3
<1>6. Underway(F[0], v, 0, e, buf)
  <2>1. v \div 2^0 = v
    OBVIOUS
  <2>2. Bits(v, 0) = <<>>
    <3>1. v \in Int /\ 0 \in Nat
      OBVIOUS
    <3>2. Bits(v, 0) \in Seq(Bit) /\ Len(Bits(v, 0)) = 0
      BY ONLY <3>1, BitsType
    <3> QED
      BY ONLY <3>2
  <2>3. Ok(0, p).pos = p /\ p \in Nat
    BY DEF Ok
  <2>4. PICK r : r = Ok(0, p)
    OBVIOUS
  <2>5. F[0] = [more |-> TRUE, bits |-> Bits(v, 0), r |-> r]
    BY ONLY <1>4, <2>2, <2>4, Zenon DEF NoGroup
  <2>6. r.pos \in Nat /\ Shows(buf, r.pos, VarintU(v \div 2^0)) /\ e = r.pos + Len(VarintU(v \div 2^0))
    BY ONLY <2>1, <2>3, <2>4, Shows(buf, p, VarintU(v)), e = p + Len(VarintU(v))
  <2> QED
    BY ONLY <2>5, <2>6 DEF Underway
<1>7. ASSUME NEW k \in Nat, k < n, Over(F[k], v, e, buf) PROVE Over(F[k + 1], v, e, buf)
  <2>1. F[k].more = FALSE
    BY ONLY <1>7 DEF Over
  <2>2. OneGroupMore(buf, F[k]) = F[k]
    BY ONLY <2>1, Zenon DEF OneGroupMore
  <2> QED
    BY ONLY <1>5, <1>7, <2>2
<1>8. ASSUME NEW k \in Nat, k < n, NEW a \in 0..21, Underway(F[k], v, a, e, buf) \/ Over(F[k], v, e, buf)
      PROVE  Underway(F[k + 1], v, a + 7, e, buf) \/ Over(F[k + 1], v, e, buf)
  <2>1. CASE Underway(F[k], v, a, e, buf)
    <3>1. PICK w : w = F[k]
      OBVIOUS
    <3>2. Underway(w, v, a, e, buf)
      BY ONLY <2>1, <3>1
    <3>3. Underway(OneGroupMore(buf, w), v, a + 7, e, buf) \/ Over(OneGroupMore(buf, w), v, e, buf)
      BY ONLY <3>2, GroupBits = 7, buf \in Seq(Bit), v \in Nat, a \in 0..21, TurnShown
    <3>4. F[k + 1] = OneGroupMore(buf, w)
      BY ONLY <1>5, <1>8, <3>1
    <3> QED
      BY ONLY <3>3, <3>4
  <2>2. CASE Over(F[k], v, e, buf)
    BY ONLY <1>7, <1>8, <2>2
  <2> QED
    BY ONLY <1>8, <2>1, <2>2
<1>9. Over(F[4], v, e, buf)
  <2>1. Underway(F[0 + 1], v, 0 + 7, e, buf) \/ Over(F[0 + 1], v, e, buf)
    <3>1. 0 \in Nat /\ 0 < n /\ 0 \in 0..21
      BY <1>3
    <3> QED
      BY ONLY <1>6, <1>8, <3>1
  <2>2. Underway(F[1 + 1], v, 7 + 7, e, buf) \/ Over(F[1 + 1], v, e, buf)
    <3>1. 1 \in Nat /\ 1 < n /\ 7 \in 0..21 /\ 0 + 1 = 1 /\ 0 + 7 = 7
      BY <1>3
    <3> QED
      BY ONLY <1>8, <2>1, <3>1
  <2>3. Underway(F[2 + 1], v, 14 + 7, e, buf) \/ Over(F[2 + 1], v, e, buf)
    <3>1. 2 \in Nat /\ 2 < n /\ 14 \in 0..21 /\ 1 + 1 = 2 /\ 7 + 7 = 14
      BY <1>3
    <3> QED
      BY ONLY <1>8, <2>2, <3>1
  <2>4. Underway(F[3 + 1], v, 21 + 7, e, buf) \/ Over(F[3 + 1], v, e, buf)
    <3>1. 3 \in Nat /\ 3 < n /\ 21 \in 0..21 /\ 2 + 1 = 3 /\ 14 + 7 = 21
      BY <1>3
    <3> QED
      BY ONLY <1>8, <2>3, <3>1
  <2>5. 3 + 1 = 4 /\ 21 + 7 = 28
    OBVIOUS
  <2>6. ~Underway(F[4], v, 28, e, buf)
    <3>1. PICK W \in Nat \ {0} : W = WordMax
      BY WordIs
    <3>2. 2^28 = W
      BY ONLY <3>1 DEF WordMax
    <3>3. v < W
      BY ONLY <3>1, v < WordMax
    <3>4. v \div W = 0
      BY ONLY <3>3, v \in Nat, W \in Nat \ {0}
    <3>5. v \div 2^28 = 0
      BY ONLY <3>2, <3>4
    <3>6. PICK z : z = 28 /\ z # 0
      OBVIOUS
    <3>7. v \div 2^z = 0
      BY ONLY <3>5, <3>6
    <3>8. ~Underway(F[4], v, z, e, buf)
      BY ONLY <3>6, <3>7, Zenon DEF Underway
    <3> QED
      BY ONLY <3>6, <3>8
  <2> QED
    BY ONLY <2>4, <2>5, <2>6
<1> DEFINE good == {k \in Nat : 4 + k <= n => Over(F[4 + k], v, e, buf)}
<1>10. \A k \in Nat : k \in good
  <2>1. 0 \in good
    <3>1. 4 + 0 = 4
      OBVIOUS
    <3> QED
      BY <1>9, <3>1
  <2>2. ASSUME NEW k \in Nat, k \in good PROVE k + 1 \in good
    <3> SUFFICES ASSUME 4 + (k + 1) <= n PROVE Over(F[4 + (k + 1)], v, e, buf)
      OBVIOUS
    <3>1. 4 + k \in Nat /\ 4 + k < n /\ 4 + k <= n /\ (4 + k) + 1 = 4 + (k + 1)
      OBVIOUS
    <3>2. Over(F[4 + k], v, e, buf)
      BY <2>2, <3>1
    <3>3. Over(F[(4 + k) + 1], v, e, buf)
      BY ONLY <1>7, <3>1, <3>2
    <3> QED
      BY ONLY <3>1, <3>3
  <2> HIDE DEF good
  <2> QED
    BY ONLY <2>1, <2>2, SetInduction
<1>11. Over(F[n], v, e, buf)
  <2>1. n - 4 \in Nat /\ 4 + (n - 4) = n
    BY <1>3
  <2>2. PICK k \in Nat : k = n - 4 /\ 4 + k = n
    BY <2>1
  <2>3. k \in good
    BY ONLY <1>10, k \in Nat
  <2>4. 4 + k <= n => Over(F[4 + k], v, e, buf)
    BY <2>3
  <2>5. 4 + k <= n
    BY <2>2
  <2> QED
    BY ONLY <2>2, <2>4, <2>5
<1>12. F[n].more = FALSE /\ Gives(F[n].r, v, e, buf)
  BY ONLY <1>11 DEF Over
<1>13. ReadVarintU(buf, p) = F[n].r
  BY ONLY <1>1, <1>3, <1>12
<1> QED
  BY ONLY <1>12, <1>13

\* The same of ReadVarintS, whose numbers are folded.
LEMMA SignedVarintShown ==
    ASSUME GroupBits = 7, MaxGroups >= 4, NEW buf \in Seq(Bit), NEW p \in 0..Len(buf), NEW v \in Int,
           2 * v < WordMax, -2 * v <= WordMax, Shows(buf, p, VarintS(v)), NEW e, e = p + Len(VarintS(v))
    PROVE  Gives(ReadVarintS(buf, p), v, e, buf)
<1>1. PICK W \in Nat : W = WordMax
  BY WordIs
<1>2. PICK u \in Nat : u = IF v < 0 THEN -2 * v - 1 ELSE 2 * v
  <2>1. (IF v < 0 THEN -2 * v - 1 ELSE 2 * v) \in Nat
    OBVIOUS
  <2> QED
    BY <2>1
<1>3. u < W
  BY ONLY <1>1, <1>2, 2 * v < WordMax, -2 * v <= WordMax, v \in Int, u \in Nat, W \in Nat
<1>4. (IF u % 2 = 1 THEN -(u \div 2) - 1 ELSE u \div 2) = v
  <2>1. CASE v < 0
    <3>1. u = 2 * (-v - 1) + 1
      BY ONLY <1>2, <2>1, v \in Int
    <3>2. u % 2 = 1 /\ u \div 2 = -v - 1
      BY ONLY <2>1, <3>1, u \in Nat, v \in Int
    <3> QED
      BY ONLY <3>2, v \in Int
  <2>2. CASE ~(v < 0)
    <3>1. u = 2 * v
      BY ONLY <1>2, <2>2
    <3>2. u % 2 = 0 /\ u \div 2 = v
      BY ONLY <2>2, <3>1, u \in Nat, v \in Int
    <3> QED
      BY ONLY <3>2, v \in Int
  <2> QED
    BY ONLY <2>1, <2>2
<1>5. VarintS(v) = VarintU(u)
  BY ONLY <1>2 DEF VarintS
<1>6. PICK r : r = ReadVarintU(buf, p)
  OBVIOUS
<1>7. Gives(r, u, e, buf)
  <2>1. Shows(buf, p, VarintU(u)) /\ e = p + Len(VarintU(u)) /\ u < WordMax
    BY <1>1, <1>3, <1>5
  <2> QED
    BY ONLY <1>6, <2>1, GroupBits = 7, MaxGroups >= 4, buf \in Seq(Bit), p \in 0..Len(buf), u \in Nat, VarintShown
<1>8. ReadVarintS(buf, p) = IF r.rc = "OK" THEN Ok(IF r.val % 2 = 1 THEN -(r.val \div 2) - 1 ELSE r.val \div 2, r.pos) ELSE r
  BY ONLY <1>6, Zenon DEF ReadVarintS, Then
<1>9. CASE e <= Len(buf)
  <2>1. r = Ok(u, e)
    BY ONLY <1>7, <1>9 DEF Gives
  <2>2. r.rc = "OK" /\ r.val = u /\ r.pos = e
    BY ONLY <2>1 DEF Ok
  <2>3. ReadVarintS(buf, p) = Ok(v, e)
    BY ONLY <1>4, <1>8, <2>2
  <2> QED
    BY ONLY <1>9, <2>3 DEF Gives
<1>10. CASE ~(e <= Len(buf))
  <2>1. r.rc = "EOF" /\ r.rc # "OK"
    BY ONLY <1>7, <1>10 DEF Gives
  <2>2. ReadVarintS(buf, p) = r
    BY ONLY <1>8, <2>1
  <2> QED
    BY ONLY <1>10, <2>1, <2>2 DEF Gives
<1> QED
  BY ONLY <1>9, <1>10
=============================================================================
