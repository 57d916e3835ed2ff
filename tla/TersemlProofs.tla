--------------------------- MODULE TersemlProofs ---------------------------
(***************************************************************************)
(* Proofs about TersemlDecode: for every input, every limit on nesting and *)
(* every width of the groups of a number, the reader of terseml stays      *)
(* inside its input and its stack inside the limit, and every step that    *)
(* does not return brings it nearer to the end.                            *)
(*                                                                         *)
(* The two readers of a run are recursive functions of the position.  That *)
(* they exist is RecursionExists of Induction; what a run that could be    *)
(* read tells of the position behind it is an induction from the end of    *)
(* the input backwards.                                                    *)
(***************************************************************************)
EXTENDS TersemlDecode, Induction

-----------------------------------------------------------------------------
(* The runs.  Runs(b) are the records that reading some bytes can give. *)

Runs(b) == [ok : BOOLEAN, text : Seq(Byte), at : 0..Len(b)]

LEMMA RunMade ==
    ASSUME NEW b \in Seq(Byte)
    PROVE  /\ Unread \in Runs(b)
           /\ \A p \in 0..Len(b) : [ok |-> TRUE, text |-> <<>>, at |-> p] \in Runs(b)
           /\ \A c \in Byte, r \in Runs(b) :
                 Prepend(c, r) \in Runs(b) /\ Prepend(c, r).ok = r.ok /\ Prepend(c, r).at = r.at
<1>1. PICK T : T = Seq(Byte)
  OBVIOUS
<1>2. PICK e : e = <<>>
  OBVIOUS
<1>3. e \in T
  BY <1>1, <1>2
<1>4. PICK n \in Nat : n = Len(b)
  OBVIOUS
<1>5. PICK R : R = [ok : BOOLEAN, text : T, at : 0..n]
  OBVIOUS
<1>6. Runs(b) = R
  BY <1>1, <1>4, <1>5 DEF Runs
<1>7. [ok |-> FALSE, text |-> e, at |-> 0] \in R
  BY <1>3, <1>4, <1>5
<1>8. \A p \in 0..n : [ok |-> TRUE, text |-> e, at |-> p] \in R
  BY <1>3, <1>5
<1>9. ASSUME NEW c \in Byte, NEW r \in R
      PROVE  Prepend(c, r) \in R /\ Prepend(c, r).ok = r.ok /\ Prepend(c, r).at = r.at
  <2>1. r.text \in T /\ r.ok \in BOOLEAN /\ r.at \in 0..n
    BY <1>5
  <2>2. PICK t : t = <<c>> \o r.text
    OBVIOUS
  <2>3. t \in T
    BY <1>1, <2>1, <2>2
  <2>4. Prepend(c, r) = [ok |-> r.ok, text |-> t, at |-> r.at]
    <3>1. r = [ok |-> r.ok, text |-> r.text, at |-> r.at]
      BY <1>5
    <3>2. Prepend(c, r) = [r EXCEPT !.text = t]
      BY <2>2, Zenon DEF Prepend
    <3> QED
      BY <3>1, <3>2
  <2> QED
    BY <1>5, <2>1, <2>3, <2>4
<1> QED
  BY <1>2, <1>4, <1>6, <1>7, <1>8, <1>9 DEF Unread

\* One step of ReadRun.
RunStep(b, ends, meaning, width, p, f) ==
    IF p = Len(b) THEN Unread
    ELSE IF b[p + 1] = BS
         THEN IF p + 1 < Len(b) /\ b[p + 2] \in DOMAIN meaning
              THEN Prepend(meaning[b[p + 2]], f[p + 2])
              ELSE Unread
    ELSE IF b[p + 1] \in ends THEN [ok |-> TRUE, text |-> <<>>, at |-> p + width]
    ELSE Prepend(b[p + 1], f[p + 1])

HasRuns(b, ends, meaning, width) ==
    \E f \in [0..Len(b) -> Runs(b)] :
        \A p \in 0..Len(b) :
            ReadRun(b, ends, meaning, width, p) = f[p] /\ f[p] = RunStep(b, ends, meaning, width, p, f)

\* The run from each position is that step of the runs behind it.
LEMMA RunsFrom ==
    ASSUME NEW b \in Seq(Byte), NEW ends, NEW meaning, \A c \in DOMAIN meaning : meaning[c] \in Byte,
           NEW width \in {0, 1}
    PROVE  HasRuns(b, ends, meaning, width)
<1> DEFINE Is(f) == f = [p \in 0..Len(b) |-> RunStep(b, ends, meaning, width, p, f)]
           F == CHOOSE f : Is(f)
<1>0. \A p \in 0..Len(b) : ReadRun(b, ends, meaning, width, p) = F[p]
  BY Zenon DEF ReadRun, RunStep
<1>1. PICK n \in Nat : n = Len(b)
  OBVIOUS
<1>2. PICK V : V = Runs(b)
  OBVIOUS
<1>3. PICK D : D = 0..n
  OBVIOUS
<1>4. \A p \in D, f \in [D -> V] : RunStep(b, ends, meaning, width, p, f) \in V
  <2> SUFFICES ASSUME NEW p \in D, NEW f \in [D -> V] PROVE RunStep(b, ends, meaning, width, p, f) \in V
    OBVIOUS
  <2>1. CASE p = n
    BY <1>1, <1>2, <2>1, RunMade DEF RunStep
  <2>2. CASE p # n
    <3>1. p + 1 \in D /\ b[p + 1] \in Byte /\ f[p + 1] \in V
      BY <1>1, <1>3, <2>2
    <3>2. p + 1 < n => p + 2 \in D /\ f[p + 2] \in V
      BY <1>1, <1>3, <2>2
    <3>3. Prepend(b[p + 1], f[p + 1]) \in V /\ Unread \in V
      BY <1>1, <1>2, <3>1, RunMade
    <3>4. \A c \in DOMAIN meaning : p + 1 < n => Prepend(meaning[c], f[p + 2]) \in V
      BY <1>2, <3>2, RunMade
    <3>5. [ok |-> TRUE, text |-> <<>>, at |-> p + width] \in V
      <4>1. p + width \in 0..n
        BY <1>3, <2>2
      <4> QED
        BY <1>1, <1>2, <4>1, RunMade
    <3> QED
      BY <1>1, <2>2, <3>3, <3>4, <3>5, Zenon DEF RunStep
  <2> QED
    BY <2>1, <2>2
<1> DEFINE size == [p \in D |-> n - p]
           step == [z \in D \X [D -> V] |-> RunStep(b, ends, meaning, width, z[1], z[2])]
<1>5. \A p \in D : \A f, g \in [D -> V] :
          (\A q \in D : size[q] < size[p] => f[q] = g[q]) => RunStep(b, ends, meaning, width, p, f) = RunStep(b, ends, meaning, width, p, g)
  <2> SUFFICES ASSUME NEW p \in D, NEW f \in [D -> V], NEW g \in [D -> V],
                      \A q \in D : size[q] < size[p] => f[q] = g[q]
               PROVE  RunStep(b, ends, meaning, width, p, f) = RunStep(b, ends, meaning, width, p, g)
    OBVIOUS
  <2>1. p # n => f[p + 1] = g[p + 1]
    BY <1>3
  <2>2. p # n /\ p + 1 < n => f[p + 2] = g[p + 2]
    BY <1>3
  <2> QED
    BY <1>1, <2>1, <2>2, Zenon DEF RunStep
<1>6. IsRecursion(step, size, D, V)
  <2>1. size \in [D -> Nat]
    BY <1>3
  <2>2. step \in [D \X [D -> V] -> V]
    <3>1. \A z \in D \X [D -> V] : z[1] \in D /\ z[2] \in [D -> V]
      OBVIOUS
    <3> QED
      BY <1>4, <3>1
  <2>3. \A p \in D : \A f \in [D -> V] : step[<<p, f>>] = RunStep(b, ends, meaning, width, p, f)
    OBVIOUS
  <2>4. \A p \in D : \A f, g \in [D -> V] :
            (\A q \in D : size[q] < size[p] => f[q] = g[q]) => step[<<p, f>>] = step[<<p, g>>]
    <3> HIDE DEF size, step
    <3> QED
      BY <1>5, <2>3
  <2> HIDE DEF size, step
  <2> QED
    BY <2>1, <2>2, <2>4, Zenon DEF IsRecursion
<1>7. PICK f : IsDefinedBy(f, step, D, V)
  <2>1. Unread \in V
    BY <1>2, RunMade
  <2> HIDE DEF size, step
  <2> QED
    BY <1>6, <2>1, RecursionExists
<1>8. f \in [D -> V] /\ \A p \in D : f[p] = RunStep(b, ends, meaning, width, p, f)
  <2>1. \A p \in D, g \in [D -> V] : step[<<p, g>>] = RunStep(b, ends, meaning, width, p, g)
    OBVIOUS
  <2> HIDE DEF step
  <2> QED
    BY <1>7, <2>1 DEF IsDefinedBy
<1>9. Is(f)
  <2>1. f = [p \in D |-> f[p]]
    BY <1>8
  <2> QED
    BY <1>1, <1>3, <1>8, <2>1, Zenon
<1>10. Is(F)
  BY <1>9
<1>11. \A p \in D : F[p] = RunStep(b, ends, meaning, width, p, F)
  <2> HIDE DEF F
  <2> QED
    BY <1>1, <1>3, <1>10, Zenon
<1> HIDE DEF F
<1> DEFINE good == {k \in Nat : \A p \in D : n - p < k => F[p] = f[p]}
<1>12. \A k \in Nat : k \in good
  <2>1. 0 \in good
    BY <1>3
  <2>2. ASSUME NEW k \in Nat, k \in good PROVE k + 1 \in good
    <3> SUFFICES ASSUME NEW p \in D, n - p < k + 1 PROVE F[p] = f[p]
      BY <2>2
    <3>1. p # n => F[p + 1] = f[p + 1]
      BY <1>3, <2>2
    <3>2. p # n /\ p + 1 < n => F[p + 2] = f[p + 2]
      BY <1>3, <2>2
    <3>3. RunStep(b, ends, meaning, width, p, F) = RunStep(b, ends, meaning, width, p, f)
      BY <1>1, <3>1, <3>2, Zenon DEF RunStep
    <3> QED
      BY <1>8, <1>11, <3>3
  <2> HIDE DEF good
  <2> QED
    BY <2>1, <2>2, SetInduction
<1>13. ASSUME NEW p \in D PROVE F[p] = f[p]
  <2>1. PICK k \in Nat : k = n - p + 1
    BY <1>3
  <2>2. k \in good
    BY <1>12
  <2> QED
    BY <1>3, <2>1, <2>2
<1>14. \A p \in D : ReadRun(b, ends, meaning, width, p) = f[p] /\ f[p] = RunStep(b, ends, meaning, width, p, f)
  BY <1>0, <1>1, <1>3, <1>8, <1>13
<1> QED
  BY <1>1, <1>2, <1>3, <1>8, <1>14 DEF HasRuns

\* Behind a run that could be read is the byte that ends it, or, for width 1, what
\* comes after that byte.
LEMMA RunEnds ==
    ASSUME NEW b \in Seq(Byte), NEW ends, NEW meaning, \A c \in DOMAIN meaning : meaning[c] \in Byte,
           NEW width \in {0, 1},
           NEW p \in 0..Len(b), ReadRun(b, ends, meaning, width, p).ok
    PROVE  /\ ReadRun(b, ends, meaning, width, p).at \in p + width..Len(b) - 1 + width
           /\ b[ReadRun(b, ends, meaning, width, p).at - width + 1] \in ends \ {BS}
<1>1. PICK n \in Nat : n = Len(b)
  OBVIOUS
<1>2. PICK f \in [0..n -> Runs(b)] :
          \A q \in 0..n : ReadRun(b, ends, meaning, width, q) = f[q] /\ f[q] = RunStep(b, ends, meaning, width, q, f)
  <2>1. \E f \in [0..Len(b) -> Runs(b)] : \A q \in 0..Len(b) :
            ReadRun(b, ends, meaning, width, q) = f[q] /\ f[q] = RunStep(b, ends, meaning, width, q, f)
    <3>1. HasRuns(b, ends, meaning, width)
      BY RunsFrom
    <3> QED
      BY <3>1 DEF HasRuns
  <2> QED
    BY <1>1, <2>1
<1> DEFINE Ends(q) == f[q].ok => f[q].at \in q + width..n - 1 + width /\ b[f[q].at - width + 1] \in ends \ {BS}
           good == {k \in Nat : \A q \in 0..n : n - q < k => Ends(q)}
<1>3. \A k \in Nat : k \in good
  <2>1. 0 \in good
    OBVIOUS
  <2>2. ASSUME NEW k \in Nat, k \in good PROVE k + 1 \in good
    <3> SUFFICES ASSUME NEW q \in 0..n, n - q < k + 1, f[q].ok
                 PROVE  f[q].at \in q + width..n - 1 + width /\ b[f[q].at - width + 1] \in ends \ {BS}
      BY <2>2
    <3>1. CASE q = n
      <4>1. f[q] = Unread
        BY <1>1, <1>2, <3>1, Zenon DEF RunStep
      <4> QED
        BY <4>1 DEF Unread
    <3>2. CASE q # n /\ b[q + 1] = BS
      <4>1. q + 1 < n /\ b[q + 2] \in DOMAIN meaning /\ f[q] = Prepend(meaning[b[q + 2]], f[q + 2])
        <5>1. ~Unread.ok
          BY DEF Unread
        <5> QED
          BY <1>1, <1>2, <3>2, <5>1, Zenon DEF RunStep
      <4>2. q + 2 \in 0..n /\ f[q + 2] \in Runs(b) /\ meaning[b[q + 2]] \in Byte
        BY <4>1
      <4>3. f[q].ok = f[q + 2].ok /\ f[q].at = f[q + 2].at
        BY <4>1, <4>2, RunMade
      <4>4. Ends(q + 2)
        BY <2>2, <4>2
      <4> QED
        BY <4>2, <4>3, <4>4
    <3>3. CASE q # n /\ b[q + 1] # BS /\ b[q + 1] \in ends
      <4>1. f[q] = [ok |-> TRUE, text |-> <<>>, at |-> q + width]
        BY <1>1, <1>2, <3>3, Zenon DEF RunStep
      <4>2. f[q].at = q + width
        BY <4>1
      <4> QED
        BY <3>3, <4>2
    <3>4. CASE q # n /\ b[q + 1] # BS /\ b[q + 1] \notin ends
      <4>1. f[q] = Prepend(b[q + 1], f[q + 1])
        BY <1>1, <1>2, <3>4, Zenon DEF RunStep
      <4>2. q + 1 \in 0..n /\ f[q + 1] \in Runs(b) /\ b[q + 1] \in Byte
        BY <1>1, <3>4
      <4>3. f[q].ok = f[q + 1].ok /\ f[q].at = f[q + 1].at
        BY <4>1, <4>2, RunMade
      <4>4. Ends(q + 1)
        BY <2>2, <4>2
      <4> QED
        BY <4>2, <4>3, <4>4
    <3> QED
      BY <3>1, <3>2, <3>3, <3>4
  <2> HIDE DEF good
  <2> QED
    BY <2>1, <2>2, SetInduction
<1>4. Ends(p)
  <2>0. p \in 0..n
    BY <1>1
  <2>1. PICK k \in Nat : k = n - p + 1
    BY <2>0
  <2>2. k \in good
    BY <1>3
  <2> QED
    BY <1>1, <2>1, <2>2
<1>5. ReadRun(b, ends, meaning, width, p) = f[p]
  BY <1>1, <1>2
<1> QED
  BY <1>1, <1>4, <1>5

\* A run of read_escaped ends at a reserved byte that is no backslash.
LEMMA EscapedEnds ==
    ASSUME NEW b \in Seq(Byte), NEW ctx, NEW p \in 0..Len(b), ReadEscaped(b, ctx, p).ok
    PROVE  /\ ReadEscaped(b, ctx, p).at \in p..Len(b) - 1
           /\ b[ReadEscaped(b, ctx, p).at + 1] \in Reserved[ctx] \ {BS}
<1>1. PICK meaning : meaning = [c \in Escapable |-> c]
  OBVIOUS
<1>2. Escapable \in SUBSET Byte
  BY DEF Escapable, Byte, LBR, RBR, LSQ, RSQ, COM, COL, BS
<1>3. \A c \in DOMAIN meaning : meaning[c] \in Byte
  BY <1>1, <1>2
<1>4. PICK r : r = ReadRun(b, Reserved[ctx], meaning, 0, p)
  OBVIOUS
<1>5. ReadEscaped(b, ctx, p) = r
  BY <1>1, <1>4 DEF ReadEscaped
<1>6. r.at \in p + 0..Len(b) - 1 + 0 /\ b[r.at - 0 + 1] \in Reserved[ctx] \ {BS}
  BY <1>2, <1>3, <1>4, <1>5, RunEnds
<1> QED
  BY <1>5, <1>6

\* A run of read_binary ends behind its zero byte.
LEMMA TerminatedEnds ==
    ASSUME NEW b \in Seq(Byte), NEW p \in 0..Len(b), ReadTerminated(b, p).ok
    PROVE  ReadTerminated(b, p).at \in p + 1..Len(b)
<1>1. PICK meaning : meaning = [c \in {Zero, BS} |-> IF c = Zero THEN 0 ELSE BS]
  OBVIOUS
<1>2. {Zero, BS} \in SUBSET Byte /\ 0 \in Byte
  BY DEF Zero, Byte, BS
<1>3. \A c \in DOMAIN meaning : meaning[c] \in Byte
  BY <1>1, <1>2
<1>4. PICK r : r = ReadRun(b, {0}, meaning, 1, p)
  OBVIOUS
<1>5. ReadTerminated(b, p) = r
  BY <1>1, <1>4 DEF ReadTerminated
<1>6. PICK w \in {0, 1} : w = 1
  OBVIOUS
<1>7. PICK ends : ends = {0}
  OBVIOUS
<1>8. r = ReadRun(b, ends, meaning, w, p) /\ r.ok
  BY <1>4, <1>5, <1>6, <1>7
<1>9. ReadRun(b, ends, meaning, w, p).at \in p + w..Len(b) - 1 + w
  BY <1>3, <1>8, RunEnds
<1> QED
  BY <1>5, <1>6, <1>8, <1>9

\* A claim is a number, so that a counted run ends behind its last group.
LEMMA CountedEnds ==
    ASSUME NEW b \in Seq(Byte), NEW p \in 0..Len(b), ReadCounted(b, p).ok
    PROVE  ReadCounted(b, p).at \in p + 1..Len(b)
<1> DEFINE g == Groups(b, p)
           Is(f) == f = [k \in 0..g |-> IF k = 0 THEN 0 ELSE f[k - 1] * 2^LebBits + (b[p + g + 1 - k] % 2^LebBits)]
           F == CHOOSE f : Is(f)
<1>1. ReadCounted(b, p)
          = IF g = 0 \/ F[g] % ClaimLimit > Len(b) - (p + g) THEN Unread
            ELSE [ok |-> TRUE, text |-> SubSeq(b, p + g + 1, p + g + (F[g] % ClaimLimit)),
                  at |-> p + g + (F[g] % ClaimLimit)]
  BY DEF ReadCounted
<1> HIDE DEF g, F
<1>2. PICK M \in Nat : M = MaxGroups
  BY LebAssumption
<1>3. g \in 0..M /\ (g # 0 => p + g <= Len(b))
  <2> DEFINE ends == {h \in 1..MaxGroups : p + h <= Len(b) /\ (b[p + h] \div 2^LebBits) % 2 = 0}
  <2>1. CASE ends = {}
    BY <1>2, <2>1 DEF g, Groups
  <2>2. CASE ends # {}
    <3>1. \E h \in ends : \A k \in ends : h <= k
      <4>1. ends \in SUBSET Nat
        BY <1>2
      <4> HIDE DEF ends
      <4> QED
        BY <2>2, <4>1, LeastElement
    <3>2. g = CHOOSE h \in ends : \A k \in ends : h <= k
      BY <2>2 DEF g, Groups
    <3>3. g \in ends
      <4> HIDE DEF ends
      <4> QED
        BY <3>1, <3>2
    <3>4. g \in 1..M /\ p + g <= Len(b)
      BY <1>2, <3>3
    <3> QED
      BY <3>4
  <2> QED
    BY <2>1, <2>2
<1>4. PICK d \in Nat \ {0} : d = 2^LebBits
  <2>1. LebBits \in 1..7
    BY LebAssumption
  <2>2. \A k \in 1..7 : 2^k \in Nat \ {0}
    <3>1. /\ 2^1 \in Nat \ {0} /\ 2^2 \in Nat \ {0} /\ 2^3 \in Nat \ {0} /\ 2^4 \in Nat \ {0}
          /\ 2^5 \in Nat \ {0} /\ 2^6 \in Nat \ {0} /\ 2^7 \in Nat \ {0}
      OBVIOUS
    <3>2. \A k \in 1..7 : k \in {1, 2, 3, 4, 5, 6, 7}
      OBVIOUS
    <3> QED
      BY <3>1, <3>2
  <2> QED
    BY <2>1, <2>2
<1>5. \E f : Is(f)
  <2>1. PICK n \in Nat : n = g
    BY <1>3
  <2>0. n # 0 => p + n <= Len(b)
    BY <1>3, <2>1
  <2>2. \A k \in 1..n, v \in Nat : v * d + (b[p + n + 1 - k] % d) \in Nat
    <3> SUFFICES ASSUME NEW k \in 1..n, NEW v \in Nat PROVE v * d + (b[p + n + 1 - k] % d) \in Nat
      OBVIOUS
    <3>1. p + n + 1 - k \in 1..Len(b)
      BY <2>0
    <3>2. PICK c \in Byte : c = b[p + n + 1 - k]
      BY <3>1
    <3>3. c % d \in Nat /\ v * d \in Nat
      BY DEF Byte
    <3> QED
      BY <3>2, <3>3
  <2> DEFINE next == [z \in (1..n) \X Nat |-> z[2] * d + (b[p + n + 1 - z[1]] % d)]
  <2>3. next \in [(1..n) \X Nat -> Nat]
    BY <2>2
  <2>4. \A k \in 1..n, v \in Nat : next[<<k, v>>] = v * d + (b[p + n + 1 - k] % d)
    OBVIOUS
  <2>5. PICK f : CountsBy(f, 0, next, n, Nat)
    <3> HIDE DEF next
    <3> QED
      BY <2>3, CountingExists
  <2>6. f \in [0..n -> Nat] /\ f[0] = 0 /\ \A k \in 1..n : f[k] = next[<<k, f[k - 1]>>]
    <3> HIDE DEF next
    <3> QED
      BY <2>5 DEF CountsBy
  <2> HIDE DEF next
  <2>7. \A k \in 1..n : f[k] = f[k - 1] * d + (b[p + n + 1 - k] % d)
    <3> SUFFICES ASSUME NEW k \in 1..n PROVE f[k] = f[k - 1] * d + (b[p + n + 1 - k] % d)
      OBVIOUS
    <3>1. k - 1 \in 0..n
      OBVIOUS
    <3>2. PICK v \in Nat : v = f[k - 1]
      BY <2>6, <3>1
    <3> QED
      BY <2>4, <2>6, <3>2
  <2>8. f = [k \in 0..n |-> IF k = 0 THEN 0 ELSE f[k - 1] * d + (b[p + n + 1 - k] % d)]
    <3>1. f = [k \in 0..n |-> f[k]]
      BY <2>6
    <3>2. \A k \in 0..n : f[k] = IF k = 0 THEN 0 ELSE f[k - 1] * d + (b[p + n + 1 - k] % d)
      BY <2>6, <2>7
    <3> QED
      BY ONLY <3>1, <3>2
  <2>9. Is(f)
    BY <1>4, <2>1, <2>8
  <2> QED
    BY <2>9
<1>6. Is(F)
  BY <1>5 DEF F
<1>7. \A k \in 0..g : F[k] = IF k = 0 THEN 0 ELSE F[k - 1] * d + (b[p + g + 1 - k] % d)
  BY <1>4, <1>6
<1> DEFINE good == {k \in Nat : k <= g => F[k] \in Nat}
<1>9. \A k \in Nat : k \in good
  <2>1. 0 \in good
    BY <1>3, <1>7
  <2>2. ASSUME NEW k \in Nat, k \in good PROVE k + 1 \in good
    <3> SUFFICES ASSUME k + 1 <= g PROVE F[k + 1] \in Nat
      OBVIOUS
    <3>1. PICK j \in 1..g : j = k + 1 /\ j - 1 = k
      BY <1>3
    <3>2. p + g + 1 - j \in 1..Len(b)
      BY <1>3
    <3>3. PICK c \in Byte : c = b[p + g + 1 - j]
      BY <3>2
    <3>4. PICK v \in Nat : v = F[j - 1]
      BY <1>3, <2>2, <3>1
    <3>5. c % d \in Nat /\ v * d \in Nat
      BY DEF Byte
    <3>6. F[j] = v * d + (c % d)
      BY <1>3, <1>7, <3>3, <3>4
    <3> QED
      BY <3>1, <3>5, <3>6
  <2> HIDE DEF good
  <2> QED
    BY <2>1, <2>2, SetInduction
<1>10. PICK claim \in Nat : claim = F[g] % ClaimLimit
  <2>1. PICK v \in Nat : v = F[g]
    BY <1>3, <1>9
  <2>2. PICK m \in Nat \ {0} : m = ClaimLimit
    BY LebAssumption
  <2> QED
    BY <2>1, <2>2
<1>11. g # 0 /\ ~(claim > Len(b) - (p + g)) /\ ReadCounted(b, p).at = p + g + claim
  <2>1. ~Unread.ok
    BY DEF Unread
  <2> QED
    BY <1>1, <1>10, <2>1
<1> QED
  BY <1>3, <1>10, <1>11

\* What is read for a child is at least one byte.
LEMMA ContentEnds ==
    ASSUME NEW b \in Seq(Byte), NEW p \in 0..Len(b) - 1, b[p + 1] \notin {LBR, RBR}, ReadContent(b, p).ok
    PROVE  ReadContent(b, p).at \in p + 1..Len(b)
<1>1. CASE ~IsBinary(b, p)
  <2>1. ReadContent(b, p) = ReadEscaped(b, "text", p)
    BY <1>1 DEF ReadContent
  <2>2. p \in 0..Len(b) /\ ReadEscaped(b, "text", p).ok
    BY <2>1
  <2>3. PICK e \in p..Len(b) - 1 : e = ReadEscaped(b, "text", p).at /\ b[e + 1] \in Reserved["text"] \ {BS}
    BY <2>2, EscapedEnds
  <2>4. Reserved["text"] = {BS, LBR, RBR}
    BY DEF Reserved
  <2>5. e # p
    BY <2>3, <2>4
  <2> QED
    BY <2>1, <2>3, <2>5
<1>2. CASE IsBinary(b, p)
  <2>1. p + 2 \in 0..Len(b)
    BY <1>2 DEF IsBinary
  <2>2. PICK q \in 0..Len(b) : q = p + 2
    BY <2>1
  <2>3. CASE b[p + 2] = Counted
    <3>1. ReadContent(b, p) = ReadCounted(b, q)
      BY <1>2, <2>2, <2>3 DEF ReadContent
    <3>2. ReadContent(b, p).at \in q + 1..Len(b)
      BY <3>1, CountedEnds
    <3> QED
      BY <2>2, <3>2
  <2>4. CASE b[p + 2] # Counted
    <3>1. ReadContent(b, p) = ReadTerminated(b, q)
      BY <1>2, <2>2, <2>4 DEF ReadContent
    <3>2. ReadContent(b, p).at \in q + 1..Len(b)
      BY <3>1, TerminatedEnds
    <3> QED
      BY <2>2, <3>2
  <2> QED
    BY <2>3, <2>4
<1> QED
  BY <1>1, <1>2

-----------------------------------------------------------------------------
(* The inductive invariant: between two steps the reader is inside the     *)
(* input, and whatever reads attributes or children has an element.        *)

ReaderInv ==
    /\ input \in Seq(Byte)
    /\ i \in 0..Size
    /\ IsList(stack)
    /\ Len(stack) <= MaxDepth + 1
    /\ dpc \in {"pair", "close", "children"} => stack # <<>>

\* How far it is to the end of the input: twice the bytes that are left, and one more
\* where a step may go to the head of an element without reading a byte.
Distance == 2 * (Size - i) + (IF dpc = "element" THEN 0 ELSE 1)

\* The call has returned or has come nearer to the end.
CloserOrOver == dpc' = "ended" \/ (Distance' < Distance /\ Distance' \in Nat)

LEMMA NearerIs ==
    ASSUME Size \in Nat, Size' = Size, i \in 0..Size, i' \in i + 1..Size
    PROVE  Distance' < Distance /\ Distance' \in Nat
<1>1. PICK n \in Nat : n = Size
  OBVIOUS
<1>4. PICK p \in 0..n : p = i
  BY <1>1
<1>5. PICK q \in p + 1..n : q = i'
  BY <1>1, <1>4
<1>2. PICK c \in {0, 1} : Distance = 2 * (n - p) + c
  BY <1>1, <1>4 DEF Distance
<1>3. PICK d \in {0, 1} : Distance' = 2 * (n - q) + d
  BY <1>1, <1>5 DEF Distance
<1>6. p \in Int /\ q \in Int /\ n \in Int /\ p + 1 <= q /\ q <= n
  OBVIOUS
<1>7. 2 * (n - q) + d < 2 * (n - p) + c /\ 2 * (n - q) + d \in Nat
  BY ONLY <1>6, c \in {0, 1}, d \in {0, 1}
<1> QED
  BY <1>2, <1>3, <1>7

LEMMA FailStep ==
    ASSUME ReaderInv, NEW rc, Fail(rc), UNCHANGED <<single, input>>
    PROVE  ReaderInv' /\ CloserOrOver
<1>1. stack' = <<>> /\ i' = i /\ dpc' = "ended" /\ input' = input
  BY DEF Fail
<1>2. IsList(<<>>) /\ Len(<<>>) = 0
  <2>1. <<>> \in Seq({})
    OBVIOUS
  <2> QED
    BY <2>1 DEF IsList
<1>3. IsList(stack') /\ Len(stack') <= MaxDepth + 1
  BY <1>1, <1>2, DepthAssumption
<1>4. input' \in Seq(Byte) /\ i' \in 0..Len(input')
  BY <1>1 DEF ReaderInv, Size
<1>5. ReaderInv'
  BY <1>1, <1>3, <1>4 DEF ReaderInv, Size
<1> QED
  BY <1>1, <1>5 DEF CloserOrOver

LEMMA FinishStep ==
    ASSUME ReaderInv, NEW el, NEW outer, IsList(outer), Len(outer) <= MaxDepth + 1, NEW at \in i + 1..Size,
           Finish(el, outer, at), UNCHANGED <<single, input>>
    PROVE  ReaderInv' /\ CloserOrOver
<1>0. /\ input \in Seq(Byte) /\ i \in 0..Size /\ input' = input
      /\ Size \in Nat /\ Size' = Size
  BY DEF ReaderInv, Size
<1>1. CASE outer # <<>>
  <2>1. PICK top : top = AddChild(outer[Len(outer)], el)
    OBVIOUS
  <2>2. stack' = ReplaceAt(outer, Len(outer), top) /\ i' = at /\ dpc' = "children"
    BY <1>1, <2>1 DEF Finish
  <2>3. IsList(stack') /\ Len(stack') = Len(outer) /\ stack' # <<>>
    BY <1>1, <2>2, ListReplaced
  <2>4. ReaderInv'
    BY <1>0, <2>2, <2>3 DEF ReaderInv, Size
  <2>5. Distance' < Distance /\ Distance' \in Nat
    BY <1>0, <2>2, NearerIs
  <2> QED
    BY <2>4, <2>5 DEF CloserOrOver
<1>2. CASE outer = <<>> /\ single /\ at # Size
  BY <1>2, FailStep DEF Finish
<1>3. CASE outer = <<>> /\ ~(single /\ at # Size)
  <2>1. stack' = outer /\ i' = at /\ dpc' = (IF at < Size THEN "element" ELSE "ended")
    BY <1>3 DEF Finish
  <2>2. ReaderInv'
    BY <1>0, <2>1 DEF ReaderInv, Size
  <2>3. Distance' < Distance /\ Distance' \in Nat
    BY <1>0, <2>1, NearerIs
  <2> QED
    BY <2>2, <2>3 DEF CloserOrOver
<1> QED
  BY <1>1, <1>2, <1>3

\* The bytes that mark a place.
LEMMA Places ==
    ASSUME ReaderInv, NEW k \in {0, 1}, At(k) # -1
    PROVE  i + k + 1 \in 0..Size /\ At(k) = input[i + k + 1]
<1>1. i \in 0..Size /\ Size \in Nat
  BY DEF ReaderInv, Size
<1> QED
  BY <1>1 DEF At

LEMMA HeadStep ==
    ASSUME ReaderInv, ReadHead
    PROVE  ReaderInv' /\ CloserOrOver
<1>0. /\ input \in Seq(Byte) /\ i \in 0..Size /\ IsList(stack) /\ UNCHANGED <<single, input>>
      /\ Size \in Nat /\ Size' = Size /\ Size = Len(input)
  BY DEF ReaderInv, Size, ReadHead
<1>1. PICK head : head = ReadEscaped(input, "tag", i + 1)
  OBVIOUS
<1>2. CASE Fail("malformed") \/ Fail("depth")
  BY <1>0, <1>2, FailStep
<1>3. CASE ~Fail("malformed") /\ ~Fail("depth")
  <2>1. ~TooDeep /\ At(0) = LBR /\ head.ok /\ input[head.at + 1] # LBR
    BY <1>1, <1>3 DEF ReadHead
  <2>2. i + 1 \in 0..Size
    <3>1. At(0) # -1
      BY <2>1 DEF LBR
    <3> QED
      BY <1>0, <3>1, Places
  <2>3. head.at \in i + 1..Size - 1
    <3>1. PICK p \in 0..Len(input) : p = i + 1
      BY <1>0, <2>2
    <3>2. ReadEscaped(input, "tag", p).at \in p..Len(input) - 1
      BY <1>0, <1>1, <2>1, <3>1, EscapedEnds
    <3> QED
      BY <1>0, <1>1, <3>1, <3>2
  <2>4. Len(stack) \in Nat /\ Len(stack) <= MaxDepth
    <3>1. Len(stack) \in Nat
      BY <1>0 DEF IsList
    <3> QED
      BY <2>1, <3>1, DepthAssumption DEF TooDeep
  <2>5. CASE input[head.at + 1] = RBR
    <3>1. PICK el : Finish(el, stack, head.at + 1)
      BY <1>1, <1>3, <2>1, <2>5 DEF ReadHead
    <3>2. PICK at \in i + 1..Size : at = head.at + 1
      BY <1>0, <2>3
    <3>3. Len(stack) <= MaxDepth + 1
      BY <2>4, DepthAssumption
    <3> QED
      BY <1>0, <3>1, <3>2, <3>3, FinishStep
  <2>6. CASE input[head.at + 1] # RBR
    <3>1. PICK el : stack' = Append(stack, el)
      BY <1>1, <1>3, <2>1, <2>6 DEF ReadHead
    <3>2. /\ i' = (IF head.at + 1 < Size /\ input[head.at + 2] = LSQ THEN head.at + 2 ELSE head.at + 1)
          /\ dpc' \in {"children", "pair", "close"}
      BY <1>1, <1>3, <2>1, <2>6 DEF ReadHead
    <3>3. IsList(stack') /\ Len(stack') = Len(stack) + 1 /\ stack' # <<>>
      BY <1>0, <3>1, ListLonger
    <3>4. i' \in i + 1..Size
      <4>1. PICK h \in i + 1..Size - 1 : h = head.at
        BY <2>3
      <4>2. i' = h + 1 \/ (h + 1 < Size /\ i' = h + 2)
        BY <3>2, <4>1
      <4> QED
        <5>1. h \in Int /\ i \in Int /\ Size \in Int /\ i + 1 <= h /\ h <= Size - 1
          BY <1>0
        <5>2. h + 1 \in i + 1..Size /\ (h + 1 < Size => h + 2 \in i + 1..Size)
          BY ONLY <5>1
        <5> QED
          BY <4>2, <5>2
    <3>5. ReaderInv'
      BY <1>0, <2>4, <3>3, <3>4, DepthAssumption DEF ReaderInv, Size
    <3>6. Distance' < Distance /\ Distance' \in Nat
      BY <1>0, <3>2, <3>4, NearerIs
    <3> QED
      BY <3>5, <3>6 DEF CloserOrOver
  <2> QED
    BY <2>5, <2>6
<1> QED
  BY <1>2, <1>3

\* A step that reads on in the element on top, which it may replace.
LEMMA MoveStep ==
    ASSUME ReaderInv, UNCHANGED <<single, input>>, stack # <<>>, i' \in i + 1..Size, dpc' \in {"pair", "close", "children"},
           stack' = stack \/ \E el : stack' = Append(Enclosing, el)
    PROVE  ReaderInv' /\ CloserOrOver
<1>0. /\ input \in Seq(Byte) /\ i \in 0..Size /\ IsList(stack) /\ Len(stack) <= MaxDepth + 1
      /\ Size \in Nat /\ Size' = Size /\ Size = Len(input)
  BY DEF ReaderInv, Size
<1>1. IsList(stack') /\ Len(stack') = Len(stack) /\ stack' # <<>>
  <2>1. CASE stack' = stack
    BY <1>0, <2>1
  <2>2. ASSUME NEW el, stack' = Append(Enclosing, el) PROVE IsList(stack') /\ Len(stack') = Len(stack) /\ stack' # <<>>
    <3>1. IsList(Enclosing) /\ Len(Enclosing) = Len(stack) - 1 /\ Len(stack) \in Nat
      BY <1>0, ListShorter DEF Enclosing
    <3>2. IsList(stack') /\ Len(stack') = Len(Enclosing) + 1 /\ stack' # <<>>
      BY <2>2, <3>1, ListLonger
    <3> QED
      BY <3>1, <3>2
  <2> QED
    BY <2>1, <2>2
<1>2. ReaderInv'
  BY <1>0, <1>1 DEF ReaderInv, Size
<1>3. Distance' < Distance /\ Distance' \in Nat
  BY <1>0, NearerIs
<1> QED
  BY <1>2, <1>3 DEF CloserOrOver

\* The element on top is done.
LEMMA DoneStep ==
    ASSUME ReaderInv, UNCHANGED <<single, input>>, stack # <<>>, NEW at \in i + 1..Size, Finish(Top, Enclosing, at)
    PROVE  ReaderInv' /\ CloserOrOver
<1>1. IsList(stack) /\ Len(stack) <= MaxDepth + 1
  BY DEF ReaderInv
<1>2. IsList(Enclosing) /\ Len(Enclosing) = Len(stack) - 1 /\ Len(stack) \in Nat
  BY <1>1, ListShorter DEF Enclosing
<1>3. Len(Enclosing) <= MaxDepth + 1
  BY <1>1, <1>2, DepthAssumption
<1> QED
  BY <1>2, <1>3, FinishStep

LEMMA PairStep ==
    ASSUME ReaderInv, ReadPair
    PROVE  ReaderInv' /\ CloserOrOver
<1>0. /\ input \in Seq(Byte) /\ i \in 0..Size /\ stack # <<>> /\ UNCHANGED <<single, input>>
      /\ Size \in Nat /\ Size = Len(input)
  BY DEF ReaderInv, Size, ReadPair
<1>1. PICK key : key = ReadEscaped(input, "key", i)
  OBVIOUS
<1>2. PICK val : val = ReadEscaped(input, "val", key.at + 1)
  OBVIOUS
<1>3. CASE Fail("malformed")
  BY <1>0, <1>3, FailStep
<1>4. CASE ~Fail("malformed")
  <2>1. key.ok /\ val.ok
    BY <1>1, <1>2, <1>4 DEF ReadPair
  <2>2. PICK k \in i..Size - 1 : k = key.at
    BY <1>0, <1>1, <2>1, EscapedEnds
  <2>3. PICK v \in k + 1..Size - 1 : v = val.at
    <3>1. PICK p \in 0..Len(input) : p = k + 1
      BY <1>0
    <3>2. val = ReadEscaped(input, "val", p)
      BY <1>2, <2>2, <3>1
    <3>3. val.at \in p..Len(input) - 1
      BY <1>0, <2>1, <3>1, <3>2, EscapedEnds
    <3> QED
      BY <1>0, <3>1, <3>3
  <2>4. i' \in {v, v + 1} /\ dpc' \in {"pair", "close"}
    BY <1>1, <1>2, <1>4, <2>3 DEF ReadPair
  <2>5. \E el : stack' = Append(Enclosing, el)
    BY <1>1, <1>2, <1>4 DEF ReadPair
  <2>6. i' \in i + 1..Size
    <3>1. k \in Int /\ v \in Int /\ i \in Int /\ Size \in Int /\ i <= k /\ k + 1 <= v /\ v <= Size - 1
      BY <1>0
    <3>2. v \in i + 1..Size /\ v + 1 \in i + 1..Size
      BY ONLY <3>1
    <3> QED
      BY <2>4, <3>2
  <2> QED
    BY <1>0, <2>4, <2>5, <2>6, MoveStep
<1> QED
  BY <1>3, <1>4

LEMMA CloseStep ==
    ASSUME ReaderInv, CloseAttrs
    PROVE  ReaderInv' /\ CloserOrOver
<1>0. /\ i \in 0..Size /\ stack # <<>> /\ UNCHANGED <<single, input>> /\ Size \in Nat
  BY DEF ReaderInv, Size, CloseAttrs
<1>1. CASE Fail("malformed")
  BY <1>0, <1>1, FailStep
<1>2. CASE ~Fail("malformed")
  <2>1. At(0) = RSQ
    BY <1>2 DEF CloseAttrs
  <2>2. i + 1 \in 0..Size
    <3>1. At(0) # -1
      BY <2>1 DEF RSQ
    <3> QED
      BY <1>0, <3>1, Places
  <2>3. At(1) \in {RBR, COM} => i + 2 \in 0..Size
    <3>1. At(1) \in {RBR, COM} => At(1) # -1
      BY DEF RBR, COM
    <3> QED
      BY <1>0, <3>1, Places
  <2>4. CASE At(1) = RBR
    <3>1. Finish(Top, Enclosing, i + 2)
      BY <2>1, <2>4, <1>2 DEF CloseAttrs
    <3>2. i + 2 \in i + 1..Size
      BY <1>0, <2>3, <2>4
    <3> QED
      BY <1>0, <3>1, <3>2, DoneStep
  <2>5. CASE At(1) # RBR
    <3>1. i' = (IF At(1) = COM THEN i + 2 ELSE i + 1) /\ dpc' = "children" /\ stack' = stack
      BY <1>2, <2>1, <2>5 DEF CloseAttrs
    <3>2. i' \in i + 1..Size
      BY <1>0, <2>2, <2>3, <3>1
    <3> QED
      BY <1>0, <3>1, <3>2, MoveStep
  <2> QED
    BY <2>4, <2>5
<1> QED
  BY <1>1, <1>2

LEMMA ChildStep ==
    ASSUME ReaderInv, ReadChild
    PROVE  ReaderInv' /\ CloserOrOver
<1>0. /\ input \in Seq(Byte) /\ i \in 0..Size /\ stack # <<>> /\ UNCHANGED <<single, input>>
      /\ Size \in Nat /\ Size = Len(input) /\ dpc = "children"
  BY DEF ReaderInv, Size, ReadChild
<1>1. PICK run : run = ReadContent(input, i)
  OBVIOUS
<1>2. CASE Fail("malformed")
  BY <1>0, <1>2, FailStep
<1>3. CASE ~Fail("malformed")
  <2>1. At(0) # -1 /\ i + 1 \in 0..Size /\ At(0) = input[i + 1]
    <3>1. At(0) # -1
      BY <1>3 DEF ReadChild, RBR
    <3> QED
      BY <1>0, <3>1, Places
  <2>2. CASE At(0) = RBR
    <3>1. Finish(Top, Enclosing, i + 1)
      BY <2>2 DEF ReadChild
    <3>2. i + 1 \in i + 1..Size
      BY <1>0, <2>1
    <3> QED
      BY <1>0, <3>1, <3>2, DoneStep
  <2>3. CASE At(0) = LBR
    <3>1. dpc' = "element" /\ i' = i /\ stack' = stack /\ input' = input
      BY <1>3, <2>1, <2>3 DEF ReadChild, LBR, RBR
    <3>2. ReaderInv'
      BY <1>0, <3>1 DEF ReaderInv, Size
    <3>3. Distance' = 2 * (Size - i) /\ Distance = 2 * (Size - i) + 1
      BY <1>0, <3>1 DEF Distance, Size
    <3>4. Distance' < Distance /\ Distance' \in Nat
      BY ONLY <1>0, <3>3
    <3> QED
      BY <3>2, <3>4 DEF CloserOrOver
  <2>4. CASE At(0) # RBR /\ At(0) # LBR
    <3>1. run.ok /\ i' = run.at /\ dpc' = dpc /\ (stack' = stack \/ \E el : stack' = Append(Enclosing, el))
      BY <1>1, <1>3, <2>1, <2>4 DEF ReadChild, Behind
    <3>2. i' \in i + 1..Size
      <4>1. i \in 0..Len(input) - 1
        BY <1>0, <2>1
      <4>2. input[i + 1] \notin {LBR, RBR} /\ ReadContent(input, i).ok
        BY <1>1, <2>1, <2>4, <3>1
      <4> QED
        BY <1>0, <1>1, <3>1, <4>1, <4>2, ContentEnds
    <3> QED
      BY <1>0, <3>1, <3>2, MoveStep
  <2> QED
    BY <2>2, <2>3, <2>4
<1> QED
  BY <1>2, <1>3

-----------------------------------------------------------------------------
LEMMA ReadStep ==
    ASSUME ReaderInv, Read
    PROVE  ReaderInv' /\ CloserOrOver
  BY HeadStep, PairStep, CloseStep, ChildStep DEF Read

LEMMA ReaderInvAlways == DecodeSpec => []ReaderInv
<1>1. DecodeInit => ReaderInv
  <2> SUFFICES ASSUME DecodeInit PROVE ReaderInv
    OBVIOUS
  <2>1. input \in Seq(Byte) /\ i = 0 /\ stack = <<>> /\ dpc = "element"
    BY InputAssumption DEF DecodeInit
  <2>2. IsList(stack) /\ Len(stack) = 0
    <3>1. <<>> \in Seq({})
      OBVIOUS
    <3> QED
      BY <2>1, <3>1 DEF IsList
  <2> QED
    BY <2>1, <2>2, DepthAssumption DEF ReaderInv, Size
<1>2. ReaderInv /\ [Read \/ Refused]_decodeVars => ReaderInv'
  <2> SUFFICES ASSUME ReaderInv, [Read \/ Refused]_decodeVars PROVE ReaderInv'
    OBVIOUS
  <2>1. CASE Read
    BY <2>1, ReadStep
  <2>2. CASE Refused
    BY <2>2, FailStep DEF Refused
  <2>3. CASE UNCHANGED decodeVars
    BY <2>3 DEF decodeVars, ReaderInv, Size
  <2> QED
    BY <2>1, <2>2, <2>3
<1> QED
  BY <1>1, <1>2, PTL DEF DecodeSpec

\* Whatever bytes tsml_decode and tsml_decode_document are given, the reader's position
\* never leaves them and at most MaxDepth + 1 elements are open.
THEOREM ReaderStaysInside == DecodeSpec => []ReaderInside
<1>1. ReaderInv => ReaderInside
  BY DEF ReaderInv, ReaderInside, Size
<1> QED
  BY <1>1, ReaderInvAlways, PTL

\* No step of the decoder can be repeated for ever: each one that does not return has a
\* byte less to read, or is about to read the head of an element at the same place.
THEOREM EveryStepCloser == DecodeSpec => [][Read => CloserOrOver]_decodeVars
<1>1. ReaderInv /\ [Read \/ Refused]_decodeVars => [Read => CloserOrOver]_decodeVars
  BY ReadStep
<1> QED
  BY <1>1, ReaderInvAlways, PTL DEF DecodeSpec
=============================================================================
