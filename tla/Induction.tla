----------------------------- MODULE Induction -----------------------------
(***************************************************************************)
(* Induction over the natural numbers as facts about sets.  The induction  *)
(* theorems of the library take a predicate as a parameter, which the      *)
(* provers cannot instantiate; here the predicate is the set of the        *)
(* numbers that satisfy it, and the step of a recursive definition is a    *)
(* function of the functions that may satisfy it.  The other parts unfold  *)
(* FlattenSeq, a recursive function of the community modules, number the   *)
(* members of an ordered set, show that the keys are one, and say how long *)
(* a list is whose members nothing is known of.                            *)
(***************************************************************************)
EXTENDS Keys, SequenceTheorems, FiniteSetTheorems, WellFoundedInduction, TLAPS

\* Every set of natural numbers has a least element.
LEMMA LeastElement ==
    ASSUME NEW T \in SUBSET Nat, T # {}
    PROVE  \E x \in T : \A y \in T : x <= y
<1> DEFINE less == OpToRel(<, Nat)
<1>1. IsWellFoundedOn(less, Nat)
  BY NatLessThanWellFounded
<1>2. PICK x \in T : \A y \in T : <<y, x>> \notin less
  <2> HIDE DEF less
  <2> QED
    BY <1>1, WFMin
<1>3. \A y \in T : ~(y < x)
  BY <1>2, Zenon DEF OpToRel
<1> QED
  BY <1>3

\* A set with 0 that has the successor of each of its numbers has them all.
LEMMA SetInduction ==
    ASSUME NEW S, 0 \in S, \A n \in Nat : n \in S => n + 1 \in S
    PROVE  \A n \in Nat : n \in S
<1> DEFINE missing == {n \in Nat : n \notin S}
<1> SUFFICES ASSUME missing # {} PROVE FALSE
  OBVIOUS
<1>1. PICK x \in missing : \A y \in missing : x <= y
  <2>1. missing \in SUBSET Nat
    OBVIOUS
  <2> HIDE DEF missing
  <2> QED
    BY <2>1, LeastElement
<1>2. x - 1 \in Nat /\ x - 1 \in S
  BY <1>1
<1> QED
  BY <1>1, <1>2

-----------------------------------------------------------------------------
\* f counts up from v0 to n by the function next.
CountsBy(f, v0, next, n, V) ==
    f \in [0..n -> V] /\ f[0] = v0 /\ \A k \in 1..n : f[k] = next[<<k, f[k - 1]>>]

\* There is such a function.
LEMMA CountingExists ==
    ASSUME NEW V, NEW v0 \in V, NEW n \in Nat, NEW next \in [(1..n) \X V -> V]
    PROVE  \E f : CountsBy(f, v0, next, n, V)
<1> DEFINE Part(f, j) == f \in [0..j -> V] /\ f[0] = v0 /\ \A k \in 1..j : f[k] = next[<<k, f[k - 1]>>]
           good == {j \in Nat : j <= n => \E f : Part(f, j)}
<1>1. 0 \in good
  <2> DEFINE f == [k \in 0..0 |-> v0]
  <2>1. Part(f, 0)
    OBVIOUS
  <2> HIDE DEF Part, f
  <2> QED
    BY <2>1
<1>2. ASSUME NEW j \in Nat, j \in good PROVE j + 1 \in good
  <2> SUFFICES ASSUME j + 1 <= n PROVE \E g : Part(g, j + 1)
    OBVIOUS
  <2>1. PICK f : Part(f, j)
    BY <1>2
  <2> DEFINE g == [k \in 0..j + 1 |-> IF k <= j THEN f[k] ELSE next[<<j + 1, f[j]>>]]
  <2>2. f[j] \in V /\ next[<<j + 1, f[j]>>] \in V
    BY <2>1
  <2>3. g \in [0..j + 1 -> V] /\ g[0] = v0
    BY <2>1, <2>2
  <2>4. ASSUME NEW k \in 1..j + 1 PROVE g[k] = next[<<k, g[k - 1]>>]
    <3>1. k - 1 \in 0..j + 1 /\ g[k - 1] = f[k - 1]
      OBVIOUS
    <3>2. CASE k <= j
      <4>1. k \in 1..j /\ g[k] = f[k]
        BY <3>2
      <4> QED
        BY <2>1, <3>1, <4>1
    <3>3. CASE k = j + 1
      BY <3>1, <3>3
    <3> QED
      BY <3>2, <3>3
  <2>5. Part(g, j + 1)
    BY <2>3, <2>4
  <2> HIDE DEF Part, g
  <2> QED
    BY <2>5
<1>3. \A j \in Nat : j \in good
  <2> HIDE DEF good
  <2> QED
    BY <1>1, <1>2, SetInduction
<1>4. \E f : Part(f, n)
  <2> HIDE DEF Part
  <2> QED
    BY <1>3
<1> QED
  BY <1>4 DEF CountsBy

\* The step of a recursion over D with values in V: step[<<x, f>>] asks f only for
\* members that are smaller than x.
IsRecursion(step, size, D, V) ==
    /\ size \in [D -> Nat]
    /\ step \in [D \X [D -> V] -> V]
    /\ \A x \in D : \A f, g \in [D -> V] :
        (\A y \in D : size[y] < size[x] => f[y] = g[y]) => step[<<x, f>>] = step[<<x, g>>]

\* The function it defines.
IsDefinedBy(f, step, D, V) == f \in [D -> V] /\ \A x \in D : f[x] = step[<<x, f>>]

\* Recursion over a set whose members have sizes defines a function.
LEMMA RecursionExists ==
    ASSUME NEW D, NEW V, NEW v0 \in V, NEW size, NEW step, IsRecursion(step, size, D, V)
    PROVE  \E f : IsDefinedBy(f, step, D, V)
<1> DEFINE Part(f, n) == f \in [D -> V] /\ \A x \in D : size[x] < n => f[x] = step[<<x, f>>]
           good == {n \in Nat : \E f : Part(f, n)}
<1>0. size \in [D -> Nat] /\ step \in [D \X [D -> V] -> V]
  BY DEF IsRecursion
<1>1. 0 \in good
  <2> DEFINE f == [x \in D |-> v0]
  <2>1. Part(f, 0)
    BY <1>0
  <2> HIDE DEF Part, f
  <2> QED
    BY <2>1
<1>2. ASSUME NEW n \in Nat, n \in good PROVE n + 1 \in good
  <2>1. PICK f : Part(f, n)
    BY <1>2
  <2> DEFINE g == [x \in D |-> IF size[x] < n THEN f[x] ELSE step[<<x, f>>]]
  <2>2. g \in [D -> V]
    BY <1>0, <2>1
  <2>3. ASSUME NEW x \in D, size[x] < n + 1 PROVE g[x] = step[<<x, g>>]
    <3>1. \A y \in D : size[y] < size[x] => f[y] = g[y]
      BY <1>0, <2>3
    <3>2. step[<<x, f>>] = step[<<x, g>>]
      <4> HIDE DEF g
      <4> QED
        BY <2>1, <2>2, <3>1 DEF IsRecursion
    <3>3. g[x] = step[<<x, f>>]
      BY <1>0, <2>1, <2>3
    <3> QED
      BY <3>2, <3>3
  <2>4. Part(g, n + 1)
    BY <2>2, <2>3
  <2> HIDE DEF Part, g
  <2> QED
    BY <2>4
<1>3. \A n \in Nat : n \in good
  <2> HIDE DEF good
  <2> QED
    BY <1>1, <1>2, SetInduction
\* Two functions that are right up to a size agree up to it.
<1>4. ASSUME NEW m \in Nat, NEW f, NEW g, Part(f, m), Part(g, m)
      PROVE  \A x \in D : size[x] < m => f[x] = g[x]
  <2> DEFINE same == {n \in Nat : n <= m => \A x \in D : size[x] < n => f[x] = g[x]}
  <2>1. ASSUME NEW n \in Nat, n \in same PROVE n + 1 \in same
    <3> SUFFICES ASSUME n + 1 <= m, NEW x \in D, size[x] < n + 1 PROVE f[x] = g[x]
      OBVIOUS
    <3>1. \A y \in D : size[y] < size[x] => f[y] = g[y]
      BY <1>0, <2>1
    <3>2. step[<<x, f>>] = step[<<x, g>>]
      BY <1>4, <3>1 DEF IsRecursion
    <3> QED
      BY <1>0, <1>4, <3>2
  <2>2. \A n \in Nat : n \in same
    <3>1. 0 \in same
      BY <1>0
    <3> HIDE DEF same
    <3> QED
      BY <2>1, <3>1, SetInduction
  <2> QED
    BY <1>0, <2>2
<1> DEFINE F(n) == CHOOSE f : Part(f, n)
           h == [x \in D |-> F(size[x] + 1)[x]]
<1>5. \A n \in Nat : Part(F(n), n)
  <2> HIDE DEF Part
  <2> QED
    BY <1>3
<1>6. \A x \in D : size[x] + 1 \in Nat
  BY <1>0
<1>7. h \in [D -> V]
  BY <1>5, <1>6
<1> HIDE DEF F
<1>8. ASSUME NEW x \in D PROVE h[x] = step[<<x, h>>]
  <2>1. PICK n \in Nat : n = size[x] + 1
    BY <1>6
  <2>2. PICK f : f = F(n)
    OBVIOUS
  <2>3. Part(f, n)
    <3> HIDE DEF Part
    <3> QED
      BY <1>5, <2>2
  <2>4. ASSUME NEW y \in D, size[y] < size[x] PROVE f[y] = h[y]
    <3>1. PICK k \in Nat : k = size[y] + 1
      BY <1>6
    <3>2. PICK g : g = F(k)
      OBVIOUS
    <3>3. Part(g, k)
      <4> HIDE DEF Part
      <4> QED
        BY <1>5, <3>2
    <3>4. size[y] < k /\ k <= n
      BY <1>0, <2>1, <2>4, <3>1
    <3>5. Part(f, k)
      BY <1>0, <2>3, <3>4
    <3>6. g[y] = f[y]
      <4> HIDE DEF Part
      <4> QED
        BY <1>4, <3>3, <3>4, <3>5
    <3> QED
      BY <3>1, <3>2, <3>6
  <2>5. step[<<x, f>>] = step[<<x, h>>]
    <3>1. f \in [D -> V]
      BY <2>3
    <3> HIDE DEF h
    <3> QED
      BY <1>7, <2>4, <3>1 DEF IsRecursion
  <2>6. f[x] = step[<<x, f>>]
    BY <1>0, <2>1, <2>3
  <2>7. h[x] = f[x]
    BY <2>1, <2>2
  <2> QED
    BY <2>5, <2>6, <2>7
<1> QED
  <2> HIDE DEF h
  <2> QED
    BY <1>7, <1>8 DEF IsDefinedBy

-----------------------------------------------------------------------------
\* A function that concatenates the sequences of s one after the other.
Flattening(f, s) == [i \in 1..Len(s) |-> IF i = 1 THEN s[i] ELSE f[i - 1] \o s[i]]

\* There is one, as there is one for every shorter part of s.
LEMMA FlattenExists ==
    ASSUME NEW S, NEW s \in Seq(Seq(S))
    PROVE  \E f : f = Flattening(f, s)
<1> DEFINE Part(f, n) == f = [i \in 1..n |-> IF i = 1 THEN s[i] ELSE f[i - 1] \o s[i]]
           good == {n \in Nat : \E f : Part(f, n)}
<1>1. 0 \in good
  <2> DEFINE f == [i \in 1..0 |-> s]
  <2>1. Part(f, 0)
    OBVIOUS
  <2> QED
    BY <2>1
<1>2. ASSUME NEW n \in Nat, n \in good PROVE n + 1 \in good
  <2>1. PICK f : Part(f, n)
    BY <1>2
  <2> DEFINE g == [i \in 1..n + 1 |-> IF i <= n THEN f[i] ELSE IF n = 0 THEN s[i] ELSE f[n] \o s[i]]
  <2>2. ASSUME NEW i \in 1..n + 1
        PROVE  g[i] = IF i = 1 THEN s[i] ELSE g[i - 1] \o s[i]
    <3>1. CASE i <= n
      <4>1. i \in 1..n /\ (i # 1 => i - 1 \in 1..n + 1 /\ i - 1 <= n)
        BY <3>1
      <4>2. f[i] = IF i = 1 THEN s[i] ELSE f[i - 1] \o s[i]
        BY <2>1, <4>1
      <4>3. g[i] = f[i] /\ (i # 1 => g[i - 1] = f[i - 1])
        BY <4>1
      <4> QED
        BY <4>2, <4>3
    <3>2. CASE i = n + 1
      <4>1. i # 1 => i - 1 = n /\ n \in 1..n + 1 /\ n <= n
        BY <3>2
      <4> QED
        BY <3>2, <4>1
    <3> QED
      BY <3>1, <3>2
  <2>3. Part(g, n + 1)
    BY <2>2
  <2>4. \E h : Part(h, n + 1)
    <3> HIDE DEF Part, g
    <3> QED
      BY <2>3
  <2> HIDE DEF Part
  <2> QED
    BY <2>4
<1>3. \A n \in Nat : n \in good
  <2> HIDE DEF good
  <2> QED
    BY <1>1, <1>2, SetInduction
<1>4. Len(s) \in Nat
  OBVIOUS
<1>5. \E f : Part(f, Len(s))
  <2> HIDE DEF Part
  <2> QED
    BY <1>3, <1>4
<1> QED
  BY <1>5 DEF Flattening

\* FlattenSeq unfolds from its last sequence.
LEMMA FlattenLast ==
    ASSUME NEW S, NEW s \in Seq(Seq(S)), NEW x \in Seq(S)
    PROVE  FlattenSeq(Append(s, x)) = FlattenSeq(s) \o x
<1> DEFINE t == Append(s, x)
           n == Len(s)
           F == CHOOSE f : f = Flattening(f, s)
           G == CHOOSE f : f = Flattening(f, t)
<1>1. n \in Nat /\ t \in Seq(Seq(S)) /\ Len(t) = n + 1 /\ t[n + 1] = x /\ \A i \in 1..n : t[i] = s[i]
  OBVIOUS
<1>2. FlattenSeq(s) = IF n = 0 THEN s ELSE F[n]
  BY DEF FlattenSeq, Flattening
<1>3. FlattenSeq(t) = IF Len(t) = 0 THEN t ELSE G[Len(t)]
  BY DEF FlattenSeq, Flattening
<1>4. F = Flattening(F, s)
  BY FlattenExists
<1>5. G = Flattening(G, t)
  <2> HIDE DEF t
  <2> QED
    BY <1>1, FlattenExists
<1> HIDE DEF F, G, t
<1>6. \A i \in 1..n : F[i] = IF i = 1 THEN s[i] ELSE F[i - 1] \o s[i]
  BY <1>4 DEF Flattening
<1>7. \A i \in 1..n + 1 : G[i] = IF i = 1 THEN t[i] ELSE G[i - 1] \o t[i]
  BY <1>1, <1>5 DEF Flattening
<1> DEFINE good == {i \in Nat : i \in 1..n => G[i] = F[i]}
<1>8. ASSUME NEW i \in Nat, i \in good PROVE i + 1 \in good
  <2> SUFFICES ASSUME i + 1 \in 1..n PROVE G[i + 1] = F[i + 1]
    OBVIOUS
  <2>1. i + 1 \in 1..n + 1 /\ (i + 1) - 1 = i /\ t[i + 1] = s[i + 1]
    BY <1>1
  <2>2. i + 1 # 1 => i \in 1..n /\ G[i] = F[i]
    BY <1>1, <1>8
  <2> QED
    BY <1>6, <1>7, <2>1, <2>2
<1>9. \A i \in Nat : i \in good
  <2>1. 0 \in good
    OBVIOUS
  <2> HIDE DEF good
  <2> QED
    BY <1>8, <2>1, SetInduction
<1>10. CASE n = 0
  <2>1. s = <<>> /\ n + 1 = 1
    BY <1>10
  <2>2. FlattenSeq(t) = x
    BY <1>1, <1>3, <1>7, <2>1
  <2>3. <<>> \o x = x
    BY ConcatEmptySeq
  <2> QED
    BY <1>2, <1>10, <2>1, <2>2, <2>3 DEF t
<1>11. CASE n # 0
  <2>1. n \in 1..n /\ n \in Nat /\ n + 1 \in 1..n + 1 /\ n + 1 # 1 /\ (n + 1) - 1 = n
    BY <1>1, <1>11
  <2>2. G[n] = F[n]
    BY <1>9, <2>1
  <2>3. G[n + 1] = G[n] \o x
    BY <1>1, <1>7, <2>1
  <2> QED
    BY <1>1, <1>2, <1>3, <1>11, <2>1, <2>2, <2>3 DEF t
<1> QED
  BY <1>10, <1>11

-----------------------------------------------------------------------------
\* R, a set of pairs, is a strict total order on S.
Orders(R, S) ==
    /\ \A t \in S : <<t, t>> \notin R
    /\ \A t, u \in S : t # u => <<t, u>> \in R \/ <<u, t>> \in R
    /\ \A t, u, v \in S : <<t, u>> \in R /\ <<u, v>> \in R => <<t, v>> \in R

\* The members of S below x in that order.
Below(R, S, x) == {y \in S : <<y, x>> \in R}

\* Counting the members below each numbers a finite ordered set without gaps.
LEMMA Ranking ==
    ASSUME NEW S, IsFiniteSet(S), NEW R, Orders(R, S)
    PROVE  /\ \A t \in S : Cardinality(Below(R, S, t)) \in 0..Cardinality(S) - 1
           /\ \A t, u \in S : Cardinality(Below(R, S, t)) = Cardinality(Below(R, S, u)) => t = u
           /\ \A n \in 1..Cardinality(S) : \E t \in S : Cardinality(Below(R, S, t)) = n - 1
           /\ \A t, u \in S : <<t, u>> \in R => Cardinality(Below(R, S, t)) < Cardinality(Below(R, S, u))
<1>1. ASSUME NEW t \in S
      PROVE  /\ IsFiniteSet(Below(R, S, t)) /\ Cardinality(Below(R, S, t)) \in Nat
             /\ Cardinality(Below(R, S, t)) < Cardinality(S)
  <2>1. Below(R, S, t) \in SUBSET S /\ t \notin Below(R, S, t) /\ t \in S
    BY DEF Below, Orders
  <2>2. Below(R, S, t) # S
    BY <2>1
  <2>3. /\ IsFiniteSet(Below(R, S, t)) /\ Cardinality(Below(R, S, t)) <= Cardinality(S)
        /\ Cardinality(Below(R, S, t)) # Cardinality(S)
    BY <2>1, <2>2, FS_Subset
  <2>4. Cardinality(Below(R, S, t)) \in Nat /\ Cardinality(S) \in Nat
    BY <2>3, FS_CardinalityType
  <2> QED
    BY <2>3, <2>4
<1>2. Cardinality(S) \in Nat
  BY FS_CardinalityType
<1>3. ASSUME NEW t \in S, NEW u \in S, <<t, u>> \in R
      PROVE  Cardinality(Below(R, S, t)) < Cardinality(Below(R, S, u))
  <2>1. Below(R, S, t) \in SUBSET Below(R, S, u)
    BY <1>3 DEF Below, Orders
  <2>2. t \in Below(R, S, u) /\ t \notin Below(R, S, t)
    BY <1>3 DEF Below, Orders
  <2>3. IsFiniteSet(Below(R, S, u))
    BY <1>1
  <2>4. /\ Cardinality(Below(R, S, t)) <= Cardinality(Below(R, S, u))
        /\ Cardinality(Below(R, S, t)) # Cardinality(Below(R, S, u))
    BY <2>1, <2>2, <2>3, FS_Subset
  <2> QED
    BY <1>1, <2>4
<1>4. \A t, u \in S : Cardinality(Below(R, S, t)) = Cardinality(Below(R, S, u)) => t = u
  <2> SUFFICES ASSUME NEW t \in S, NEW u \in S, t # u
               PROVE  Cardinality(Below(R, S, t)) # Cardinality(Below(R, S, u))
    OBVIOUS
  <2>1. <<t, u>> \in R \/ <<u, t>> \in R
    BY DEF Orders
  <2>2. CASE <<t, u>> \in R
    BY <1>1, <1>3, <2>2
  <2>3. CASE <<u, t>> \in R
    BY <1>1, <1>3, <2>3
  <2> QED
    BY <2>1, <2>2, <2>3
<1>5. \A n \in 1..Cardinality(S) : \E t \in S : Cardinality(Below(R, S, t)) = n - 1
  <2> DEFINE f == [t \in S |-> Cardinality(Below(R, S, t))]
             T == 0..Cardinality(S) - 1
  <2>1. f \in Injection(S, T)
    BY <1>1, <1>2, <1>4 DEF Injection, IsInjective
  <2>2. IsFiniteSet(T) /\ Cardinality(T) = Cardinality(S)
    <3> DEFINE c == Cardinality(S) - 1
    <3>1. 0 \in Int /\ c \in Int /\ (0 > c => Cardinality(S) = 0) /\ c - 0 + 1 = Cardinality(S)
      BY <1>2
    <3> HIDE DEF c
    <3>2. IsFiniteSet(0..c) /\ Cardinality(0..c) = IF 0 > c THEN 0 ELSE c - 0 + 1
      BY ONLY <3>1, FS_Interval
    <3> QED
      BY <3>1, <3>2 DEF c
  <2> HIDE DEF f, T
  <2>3. f \in Surjection(S, T)
    BY <2>1, <2>2, FS_Injection
  <2>4. \A n \in T : \E t \in S : f[t] = n
    BY <2>3 DEF Surjection
  <2> QED
    BY <1>2, <2>4 DEF f, T
<1> QED
  BY <1>1, <1>2, <1>3, <1>4, <1>5

-----------------------------------------------------------------------------
\* memcmp and the lengths order the byte sequences totally.
LEMMA LessIrreflexive ==
    ASSUME NEW a \in Seq(Nat)
    PROVE  ~KeyLess(a, a)
<1> SUFFICES ASSUME NEW n \in 0..Len(a), n < Len(a), n = Len(a) \/ a[n + 1] < a[n + 1] PROVE FALSE
  BY DEF KeyLess
<1>1. n + 1 \in 1..Len(a)
  OBVIOUS
<1>2. a[n + 1] \in Nat
  BY <1>1
<1> QED
  BY <1>2

LEMMA LessTransitive ==
    ASSUME NEW a \in Seq(Nat), NEW b \in Seq(Nat), NEW c \in Seq(Nat), KeyLess(a, b), KeyLess(b, c)
    PROVE  KeyLess(a, c)
<1>1. PICK m \in 0..Len(a) : m < Len(b) /\ (\A n \in 1..m : a[n] = b[n]) /\ (m = Len(a) \/ a[m + 1] < b[m + 1])
  BY DEF KeyLess
<1>2. PICK k \in 0..Len(b) : k < Len(c) /\ (\A n \in 1..k : b[n] = c[n]) /\ (k = Len(b) \/ b[k + 1] < c[k + 1])
  BY DEF KeyLess
<1>3. Len(a) \in Nat /\ Len(b) \in Nat /\ Len(c) \in Nat
  OBVIOUS
<1>4. CASE m < k
  <2>1. m \in 0..Len(a) /\ m < Len(c) /\ m + 1 \in 1..k
    BY <1>1, <1>2, <1>3, <1>4
  <2>2. \A n \in 1..m : a[n] = c[n]
    BY <1>1, <1>2, <1>4
  <2>3. b[m + 1] = c[m + 1]
    BY <1>2, <2>1
  <2> QED
    BY <1>1, <2>1, <2>2, <2>3 DEF KeyLess
<1>5. CASE k < m
  <2>1. k \in 0..Len(a) /\ k < Len(c) /\ k + 1 \in 1..m /\ k # Len(b)
    BY <1>1, <1>2, <1>3, <1>5
  <2>2. \A n \in 1..k : a[n] = c[n]
    BY <1>1, <1>2, <1>5
  <2>3. a[k + 1] = b[k + 1] /\ b[k + 1] < c[k + 1]
    BY <1>1, <1>2, <2>1
  <2> QED
    BY <2>1, <2>2, <2>3 DEF KeyLess
<1>6. CASE k = m
  <2>1. m \in 0..Len(a) /\ m < Len(c) /\ \A n \in 1..m : a[n] = c[n]
    BY <1>1, <1>2, <1>6
  <2>2. m = Len(a) \/ a[m + 1] < c[m + 1]
    <3>1. CASE m = Len(a)
      BY <3>1
    <3>2. CASE m # Len(a)
      <4>1. a[m + 1] < b[m + 1] /\ b[m + 1] < c[m + 1]
        BY <1>1, <1>2, <1>6, <3>2
      <4>2. m + 1 \in 1..Len(a) /\ m + 1 \in 1..Len(b) /\ m + 1 \in 1..Len(c)
        BY <1>1, <1>2, <1>3, <1>6, <3>2
      <4>3. a[m + 1] \in Nat /\ b[m + 1] \in Nat /\ c[m + 1] \in Nat
        BY <4>2
      <4> QED
        BY <4>1, <4>3
    <3> QED
      BY <3>1, <3>2
  <2> QED
    BY <2>1, <2>2 DEF KeyLess
<1> QED
  BY <1>3, <1>4, <1>5, <1>6

LEMMA LessTotal ==
    ASSUME NEW a \in Seq(Nat), NEW b \in Seq(Nat), a # b
    PROVE  KeyLess(a, b) \/ KeyLess(b, a)
<1> DEFINE D == {n \in Nat : n = Len(a) \/ n = Len(b) \/ a[n + 1] # b[n + 1]}
<1>1. Len(a) \in Nat /\ Len(b) \in Nat
  OBVIOUS
<1>2. D \in SUBSET Nat /\ D # {}
  BY <1>1
<1>3. PICK m \in D : \A n \in D : m <= n
  <2> HIDE DEF D
  <2> QED
    BY <1>2, LeastElement
<1>4. m \in Nat /\ m <= Len(a) /\ m <= Len(b)
  BY <1>1, <1>3
<1>5. \A n \in 1..m : a[n] = b[n]
  <2> SUFFICES ASSUME NEW n \in 1..m, a[n] # b[n] PROVE FALSE
    OBVIOUS
  <2>1. n - 1 \in Nat /\ (n - 1) + 1 = n /\ ~(m <= n - 1)
    BY <1>4
  <2>2. n - 1 \in D
    BY <2>1
  <2> QED
    BY <1>3, <2>1, <2>2
<1>6. CASE m = Len(a) /\ m = Len(b)
  <2>1. a = b
    BY <1>5, <1>6, SeqEqual
  <2> QED
    BY <2>1
<1> HIDE DEF D
<1>7. CASE m = Len(a) /\ m # Len(b)
  <2>1. m \in 0..Len(a) /\ m < Len(b)
    BY <1>1, <1>4, <1>7
  <2> QED
    BY <1>5, <1>7, <2>1 DEF KeyLess
<1>8. CASE m # Len(a) /\ m = Len(b)
  <2>1. m \in 0..Len(b) /\ m < Len(a) /\ \A n \in 1..m : b[n] = a[n]
    BY <1>1, <1>4, <1>5, <1>8
  <2> QED
    BY <1>8, <2>1 DEF KeyLess
<1>9. CASE m # Len(a) /\ m # Len(b)
  <2>1. a[m + 1] # b[m + 1] /\ m + 1 \in 1..Len(a) /\ m + 1 \in 1..Len(b)
    BY <1>1, <1>3, <1>4, <1>9 DEF D
  <2>2. a[m + 1] \in Nat /\ b[m + 1] \in Nat
    BY <2>1
  <2>3. a[m + 1] < b[m + 1] \/ b[m + 1] < a[m + 1]
    BY <2>1, <2>2
  <2>4. m \in 0..Len(a) /\ m \in 0..Len(b) /\ m < Len(a) /\ m < Len(b)
    BY <1>1, <1>4, <1>9
  <2> QED
    BY <1>5, <2>3, <2>4 DEF KeyLess
<1> QED
  BY <1>6, <1>7, <1>8, <1>9

-----------------------------------------------------------------------------
(* Lists, whatever their members are. *)

IsList(s) == \E S : s \in Seq(S)

LEMMA ListLonger ==
    ASSUME NEW s, IsList(s), NEW x
    PROVE  IsList(Append(s, x)) /\ Len(Append(s, x)) = Len(s) + 1 /\ Len(s) \in Nat /\ Append(s, x) # <<>>
<1>1. PICK S : s \in Seq(S)
  BY DEF IsList
<1>2. PICK T : T = S \cup {x}
  OBVIOUS
<1>3. s \in Seq(T) /\ x \in T
  BY <1>1, <1>2
<1>4. PICK t : t = Append(s, x)
  OBVIOUS
<1>5. t \in Seq(T) /\ Len(t) = Len(s) + 1 /\ Len(s) \in Nat
  BY <1>3, <1>4
<1>6. t # <<>>
  BY <1>5
<1> QED
  BY <1>4, <1>5, <1>6 DEF IsList

LEMMA ListShorter ==
    ASSUME NEW s, IsList(s), s # <<>>
    PROVE  /\ Len(s) \in Nat \ {0}
           /\ IsList(SubSeq(s, 1, Len(s) - 1))
           /\ Len(SubSeq(s, 1, Len(s) - 1)) = Len(s) - 1
<1>1. PICK S : s \in Seq(S)
  BY DEF IsList
<1>2. Len(s) \in Nat \ {0}
  BY <1>1
<1>3. PICK t : t = SubSeq(s, 1, Len(s) - 1)
  OBVIOUS
<1>4. t \in Seq(S) /\ Len(t) = Len(s) - 1
  <2>1. PICK n \in Int : n = Len(s) - 1
    BY <1>2
  <2>2. \A k \in 1..n : s[k] \in S
    BY <1>1, <2>1
  <2>3. t \in Seq(S) /\ Len(t) = (IF 1 <= n THEN n - 1 + 1 ELSE 0)
    BY <1>3, <2>1, <2>2, SubSeqProperties
  <2> QED
    BY <1>2, <2>1, <2>3
<1> QED
  BY <1>2, <1>3, <1>4 DEF IsList

LEMMA ListReplaced ==
    ASSUME NEW s, IsList(s), NEW k, NEW x
    PROVE  /\ IsList(ReplaceAt(s, k, x)) /\ Len(ReplaceAt(s, k, x)) = Len(s)
           /\ s # <<>> => ReplaceAt(s, k, x) # <<>>
<1>1. PICK S : s \in Seq(S)
  BY DEF IsList
<1>2. PICK T : T = S \cup {x}
  OBVIOUS
<1>3. PICK t : t = ReplaceAt(s, k, x)
  OBVIOUS
<1>4. t = [j \in 1..Len(s) |-> IF j = k THEN x ELSE s[j]] /\ Len(s) \in Nat
  <2>1. Len(s) \in Nat /\ DOMAIN s = 1..Len(s)
    BY <1>1
  <2>2. t = [j \in DOMAIN s |-> IF j = k THEN x ELSE s[j]]
    BY <1>3, <2>1, Zenon DEF ReplaceAt
  <2> QED
    BY <2>1, <2>2
<1>5. \A j \in 1..Len(s) : (IF j = k THEN x ELSE s[j]) \in T
  BY <1>1, <1>2
<1>6. t \in Seq(T) /\ Len(t) = Len(s)
  BY <1>4, <1>5
<1>7. s # <<>> => Len(s) # 0
  BY <1>1
<1> QED
  BY <1>3, <1>6, <1>7 DEF IsList

LEMMA ListBegins ==
    ASSUME NEW s, IsList(s), NEW n \in 0..Len(s)
    PROVE  IsList(SubSeq(s, 1, n)) /\ Len(SubSeq(s, 1, n)) = n
<1>1. PICK S : s \in Seq(S)
  BY DEF IsList
<1>2. Len(s) \in Nat /\ n \in Int
  BY <1>1
<1>3. \A k \in 1..n : s[k] \in S
  BY <1>1, <1>2
<1>4. PICK t : t = SubSeq(s, 1, n)
  OBVIOUS
<1>5. t \in Seq(S) /\ Len(t) = (IF 1 <= n THEN n - 1 + 1 ELSE 0)
  BY <1>2, <1>3, <1>4, SubSeqProperties
<1> QED
  BY <1>2, <1>4, <1>5 DEF IsList
=============================================================================
