-------------------------- MODULE JsonProofs ----------------------------
(***************************************************************************)
(* The parser of tp_json_encode keeps its books for every text, nesting    *)
(* limit and path buffer: the depth it counts is the number of containers  *)
(* it is in, the encoder lives exactly as long as the parse, and each      *)
(* container it is in can bring its path back.  For the last one the       *)
(* invariant has to say that containers further in have saved longer       *)
(* paths: the path that is cut for one must still hold those around it.    *)
(*                                                                         *)
(* The walk of tp_json_decode stays where it belongs whatever bits it is   *)
(* given: inside the buffer, its stack and its key buffer.  Here too the   *)
(* frames further in have to have saved longer keys.  And every step of it *)
(* that does not end it moves the reader on.                               *)
(***************************************************************************)
EXTENDS JsonParse, JsonWalk, FormatLemmas

Call == [kind : {"obj", "arr"}, saved : Nat, idx : Nat]
TextWhole == Len(src) \in Nat /\ \A n \in 1..Len(src) : src[n].text \in Seq(Nat)
PathsNest == \A m, n \in 1..Len(stack) : m <= n => stack[m].saved <= stack[n].saved
SavedInside == \A n \in 1..Len(stack) : stack[n].saved <= Len(path)
ParseInv ==
    /\ TextWhole
    /\ path \in Seq(Nat) /\ stack \in Seq(Call)
    /\ PathsNest /\ SavedInside
    /\ TypeOK /\ DepthIsNesting

-----------------------------------------------------------------------------
\* The digits of an index are bytes.
LEMMA DecimalType ==
    ASSUME NEW n \in Nat
    PROVE  Decimal(n) \in Seq(Nat)
<1> DEFINE K == {k \in 1..9 : PowerOf10[k + 1] <= n}
<1>1. IsFiniteSet(1..9) /\ Cardinality(1..9) = 9
  <2>1. 1 \in Int /\ 9 \in Int /\ ~(1 > 9) /\ 9 - 1 + 1 = 9
    OBVIOUS
  <2> HIDE DEF K
  <2> QED
    BY <2>1, FS_Interval
<1>2. K \subseteq 1..9
  OBVIOUS
<1>3. Cardinality(K) \in Nat /\ Cardinality(K) <= 9
  <2> HIDE DEF K
  <2> QED
    BY <1>1, <1>2, FS_Subset, FS_CardinalityType
<1>4. Digits(n) \in 1..10
  BY <1>3 DEF Digits
<1>5. \A k \in 1..10 : PowerOf10[k] \in Nat \ {0}
  BY DEF PowerOf10
<1>6. \A m \in 1..Digits(n) : 48 + ((n \div PowerOf10[Digits(n) + 1 - m]) % 10) \in Nat
  <2> SUFFICES ASSUME NEW m \in 1..Digits(n)
               PROVE  48 + ((n \div PowerOf10[Digits(n) + 1 - m]) % 10) \in Nat
    OBVIOUS
  <2>1. Digits(n) + 1 - m \in 1..10
    BY <1>4
  <2> DEFINE d == PowerOf10[Digits(n) + 1 - m]
  <2>2. d \in Nat \ {0}
    BY <1>5, <2>1
  <2> HIDE DEF d
  <2>3. n \div d \in Nat
    BY <2>2
  <2>4. 48 + ((n \div d) % 10) \in Nat
    BY <2>3
  <2> QED
    BY <2>4 DEF d
<1> QED
  BY <1>4, <1>6 DEF Decimal

\* Pushing never shortens a path.
LEMMA PushKeyLonger ==
    ASSUME NEW p \in Seq(Nat), NEW key \in Seq(Nat)
    PROVE  PushKey(p, key) \in Seq(Nat) /\ Len(PushKey(p, key)) >= Len(p)
<1> DEFINE dotted == IF p = <<>> THEN p ELSE Append(p, Dot)
<1>1. dotted \in Seq(Nat) /\ Len(dotted) >= Len(p)
  BY DEF Dot
<1> HIDE DEF dotted
<1>2. dotted \o key \in Seq(Nat) /\ Len(dotted \o key) = Len(dotted) + Len(key) /\ Len(key) \in Nat
  BY <1>1
<1>3. PushKey(p, key) = dotted \/ PushKey(p, key) = dotted \o key
  BY DEF PushKey, dotted
<1>4. CASE PushKey(p, key) = dotted
  BY <1>1, <1>4
<1>5. CASE PushKey(p, key) = dotted \o key
  <2>1. Len(dotted \o key) >= Len(p)
    BY <1>1, <1>2
  <2> QED
    BY <1>2, <1>5, <2>1
<1> QED
  BY <1>3, <1>4, <1>5

LEMMA PushIndexLonger ==
    ASSUME NEW p \in Seq(Nat), NEW n \in Nat
    PROVE  PushIndex(p, n) \in Seq(Nat) /\ Len(PushIndex(p, n)) >= Len(p)
<1> DEFINE index == <<OpenBracket>> \o Decimal(n) \o <<CloseBracket>>
<1>1. index \in Seq(Nat)
  BY DecimalType DEF OpenBracket, CloseBracket
<1> HIDE DEF index
<1>2. p \o index \in Seq(Nat) /\ Len(p \o index) = Len(p) + Len(index) /\ Len(index) \in Nat
  BY <1>1
<1>3. PushIndex(p, n) = p \/ PushIndex(p, n) = p \o index
  BY DEF PushIndex, index
<1>4. CASE PushIndex(p, n) = p
  BY <1>4
<1>5. CASE PushIndex(p, n) = p \o index
  <2>1. Len(p \o index) >= Len(p)
    BY <1>2
  <2> QED
    BY <1>2, <1>5, <2>1
<1> QED
  BY <1>3, <1>4, <1>5

-----------------------------------------------------------------------------
LEMMA InitParse == Init => ParseInv
<1> SUFFICES ASSUME Init PROVE ParseInv
  OBVIOUS
<1>1. TextWhole
  BY SourceAssumption DEF Init, TextWhole
<1>2. Len(stack) = 0 /\ Len(path) = 0 /\ stack = <<>> /\ path = <<>> /\ depth = 0
  BY DEF Init
<1>3. PathsNest /\ SavedInside
  BY <1>2 DEF PathsNest, SavedInside
<1>4. TypeOK
  <2>1. pos \in 0..Len(src) /\ depth \in 0..MaxNesting /\ root \in {"obj", "arr"}
    BY <1>1, NestingAssumption DEF Init, TextWhole
  <2>2. \A n \in DOMAIN stack : FALSE
    BY <1>2
  <2>3. enc = (pc \notin {"create", "done"}) /\ (rc = "none" <=> pc # "done")
    BY Zenon DEF Init
  <2>4. pc \in {"create", "root", "key", "value", "after", "meta", "build", "done"}
    BY DEF Init
  <2> QED
    BY ONLY <2>1, <2>2, <2>3, <2>4, Zenon DEF TypeOK
<1>5. DepthIsNesting
  BY DEF Init, DepthIsNesting
<1> QED
  BY <1>1, <1>2, <1>3, <1>4, <1>5 DEF ParseInv

\* An error return leaves everything but the encoder in place.
LEMMA ReturnKeeps ==
    ASSUME ParseInv, NEW code, code # "none", Return(code)
    PROVE  ParseInv'
<1>1. TextWhole' /\ path' \in Seq(Nat) /\ stack' \in Seq(Call) /\ PathsNest' /\ SavedInside'
  BY DEF ParseInv, Return, TextWhole, PathsNest, SavedInside
<1>2. TypeOK'
  BY DEF ParseInv, TypeOK, Return
<1>3. DepthIsNesting'
  BY DEF Return, DepthIsNesting
<1> QED
  BY <1>1, <1>2, <1>3 DEF ParseInv

\* What the parser has seen is inside the text.
LEMMA SeenInside ==
    ASSUME ParseInv
    PROVE  /\ Peek(0) # "eof" => pos + 1 <= Len(src)
           /\ Peek(1) # "eof" => pos + 2 <= Len(src)
           /\ pos \in Nat /\ Len(src) \in Nat
  BY DEF ParseInv, TypeOK, TextWhole, Peek

\* Every call under way has saved a length.
LEMMA SavedNat ==
    ASSUME stack \in Seq(Call)
    PROVE  \A n \in 1..Len(stack) : stack[n].saved \in Nat
<1>1. \A n \in 1..Len(stack) : stack[n] \in Call
  OBVIOUS
<1> QED
  BY <1>1 DEF Call

\* One call more: its path is the longest of all.
LEMMA CallKeeps ==
    ASSUME ParseInv, NEW kind \in {"obj", "arr"}, stack' = Append(stack, Frame(kind, 0)),
           path' \in Seq(Nat), Len(path') >= Len(path)
    PROVE  /\ stack' \in Seq(Call) /\ Len(stack') = Len(stack) + 1
           /\ PathsNest' /\ SavedInside'
<1> DEFINE f == Frame(kind, 0)
<1>1. path \in Seq(Nat) /\ stack \in Seq(Call) /\ PathsNest /\ SavedInside
  BY DEF ParseInv
<1>2. f \in Call /\ f.saved = Len(path)
  BY <1>1 DEF Frame, Call
<1> HIDE DEF f
<1>3. stack' = Append(stack, f)
  BY DEF f
<1>4. /\ stack' \in Seq(Call) /\ Len(stack') = Len(stack) + 1
      /\ \A n \in 1..Len(stack) : stack'[n] = stack[n]
      /\ stack'[Len(stack) + 1] = f
  BY <1>1, <1>2, <1>3
<1>5. \A n \in 1..Len(stack) : stack[n].saved <= Len(path) /\ stack[n].saved \in Nat
  BY <1>1, SavedNat DEF SavedInside
<1>6. \A n \in 1..Len(stack') : stack'[n].saved <= Len(path) /\ stack'[n].saved \in Nat
  BY <1>1, <1>2, <1>4, <1>5
<1>7. SavedInside'
  BY <1>1, <1>6 DEF SavedInside
<1>8. PathsNest'
  <2> SUFFICES ASSUME NEW m \in 1..Len(stack'), NEW n \in 1..Len(stack'), m <= n
               PROVE  stack'[m].saved <= stack'[n].saved
    BY DEF PathsNest
  <2>1. CASE n = Len(stack) + 1
    BY <1>2, <1>4, <1>6, <2>1
  <2>2. CASE n # Len(stack) + 1
    BY <1>1, <1>4, <2>2 DEF PathsNest
  <2> QED
    BY <2>1, <2>2
<1> QED
  BY <1>4, <1>7, <1>8

\* A longer path does no call any harm.
LEMMA LongerKeeps ==
    ASSUME ParseInv, UNCHANGED stack, path' \in Seq(Nat), Len(path') >= Len(path)
    PROVE  stack' \in Seq(Call) /\ PathsNest' /\ SavedInside'
<1>1. path \in Seq(Nat) /\ stack \in Seq(Call) /\ PathsNest /\ SavedInside
  BY DEF ParseInv
<1>2. \A n \in 1..Len(stack) : stack[n].saved \in Nat /\ stack[n].saved <= Len(path)
  BY <1>1, SavedNat DEF SavedInside
<1>3. Len(path) \in Nat /\ Len(path') \in Nat /\ stack' = stack
  BY <1>1
<1>4. \A n \in 1..Len(stack) : stack[n].saved <= Len(path')
  BY <1>2, <1>3
<1> QED
  BY <1>1, <1>3, <1>4 DEF PathsNest, SavedInside

\* The beginning of a sequence.
LEMMA CutOff ==
    ASSUME NEW S, NEW s \in Seq(S), NEW n \in 0..Len(s)
    PROVE  /\ SubSeq(s, 1, n) \in Seq(S) /\ Len(SubSeq(s, 1, n)) = n
           /\ \A m \in 1..n : SubSeq(s, 1, n)[m] = s[m]
<1>1. \A m \in 1..n : s[m] \in S
  OBVIOUS
<1> QED
  BY <1>1

\* One call less: its path is the one it saved, and the calls around it saved no more.
LEMMA CallEnds ==
    ASSUME ParseInv, stack # <<>>, stack' = SubSeq(stack, 1, Len(stack) - 1), path' = Restored
    PROVE  /\ stack' \in Seq(Call) /\ Len(stack') = Len(stack) - 1
           /\ path' \in Seq(Nat) /\ PathsNest' /\ SavedInside'
<1>1. path \in Seq(Nat) /\ stack \in Seq(Call) /\ PathsNest /\ SavedInside
  BY DEF ParseInv
<1>2. Len(stack) \in Nat /\ Len(stack) >= 1
  BY <1>1
<1>3. \A n \in 1..Len(stack) : stack[n].saved \in Nat /\ stack[n].saved <= Len(path)
  BY <1>1, SavedNat DEF SavedInside
<1>4. Top.saved \in Nat /\ Top.saved <= Len(path)
  BY <1>2, <1>3 DEF Top
<1>5. path' \in Seq(Nat) /\ Len(path') = Top.saved
  BY <1>1, <1>4 DEF Restored
<1>6. stack' \in Seq(Call) /\ Len(stack') = Len(stack) - 1
  <2>1. Len(stack) - 1 \in 0..Len(stack)
    BY <1>2
  <2> QED
    BY <1>1, <2>1, CutOff
<1>7. \A n \in 1..Len(stack) - 1 : stack'[n] = stack[n]
  BY <1>1, <1>2
<1>8. PathsNest'
  <2> SUFFICES ASSUME NEW m \in 1..Len(stack) - 1, NEW n \in 1..Len(stack) - 1, m <= n
               PROVE  stack[m].saved <= stack[n].saved
    BY <1>6, <1>7 DEF PathsNest
  <2>1. m \in 1..Len(stack) /\ n \in 1..Len(stack)
    BY <1>2
  <2> QED
    BY <1>1, <2>1 DEF PathsNest
<1>9. SavedInside'
  <2>1. \A n \in 1..Len(stack) - 1 : stack[n].saved <= stack[Len(stack)].saved
    BY <1>1, <1>2 DEF PathsNest
  <2> QED
    BY <1>5, <1>6, <1>7, <2>1 DEF SavedInside, Top
<1> QED
  BY <1>5, <1>6, <1>8, <1>9

\* The part of TypeOK that speaks of the calls.
LEMMA CallsTyped ==
    ASSUME NEW st \in Seq(Call), NEW p \in Seq(Nat), \A n \in 1..Len(st) : st[n].saved <= Len(p)
    PROVE  \A n \in DOMAIN st : st[n].kind \in {"obj", "arr"} /\ st[n].idx \in Nat /\ st[n].saved \in 0..Len(p)
<1>1. \A n \in DOMAIN st : n \in 1..Len(st) /\ st[n] \in Call
  OBVIOUS
<1>2. Len(p) \in Nat
  OBVIOUS
<1> QED
  BY <1>1, <1>2 DEF Call

\* While a text is parsed the encoder is there and nothing has been returned; a step
\* that goes on parsing keeps the invariant if it keeps the calls and the place in the
\* text in order.
LEMMA GoesOn ==
    ASSUME ParseInv, pc \notin {"create", "done"}, UNCHANGED <<src, enc, rc>>, root' \in {"obj", "arr"},
           pc' \in {"root", "key", "value", "after", "meta", "build"},
           pos' \in 0..Len(src), depth' \in 0..MaxNesting, depth' = Len(stack'),
           pc' \in {"key", "value", "after"} => Len(stack') # 0,
           path' \in Seq(Nat), stack' \in Seq(Call), PathsNest', SavedInside'
    PROVE  ParseInv'
<1>1. TextWhole'
  BY DEF ParseInv, TextWhole
<1>2. enc = TRUE /\ rc = "none"
  <2>1. enc = (pc \notin {"create", "done"}) /\ (rc = "none" <=> pc # "done")
    BY ONLY ParseInv, Zenon DEF ParseInv, TypeOK
  <2> QED
    BY <2>1, Zenon
<1>3. pc' \notin {"create", "done"}
  OBVIOUS
<1>4. enc' = (pc' \notin {"create", "done"})
  <2>1. enc' = TRUE
    BY <1>2
  <2> QED
    BY <1>3, <2>1, Zenon
<1>5. rc' = "none" <=> pc' # "done"
  BY <1>2, <1>3
<1>6. \A n \in DOMAIN stack' : stack'[n].kind \in {"obj", "arr"} /\ stack'[n].idx \in Nat
                               /\ stack'[n].saved \in 0..Len(path')
  <2>1. \A n \in 1..Len(stack') : stack'[n].saved <= Len(path')
    BY DEF SavedInside
  <2> QED
    BY <2>1, CallsTyped
<1>7. pc' \in {"create", "root", "key", "value", "after", "meta", "build", "done"} /\ pos' \in 0..Len(src')
  OBVIOUS
<1>8. TypeOK'
  BY ONLY depth' \in 0..MaxNesting, root' \in {"obj", "arr"}, <1>4, <1>5, <1>6, <1>7, Zenon DEF TypeOK
<1>9. DepthIsNesting'
  BY DEF DepthIsNesting
<1> QED
  BY <1>1, <1>8, <1>9 DEF ParseInv

-----------------------------------------------------------------------------
\* parse_object and parse_array up to the first key or element.
LEMMA EnterKeeps ==
    ASSUME ParseInv, pc \in {"root", "value"}, NEW kind \in {"obj", "arr"}, Peek(0) # "eof", Enter(kind)
    PROVE  ParseInv'
<1>1. CASE depth + 1 > MaxNesting
  BY <1>1, ReturnKeeps DEF Enter
<1>2. CASE ~(depth + 1 > MaxNesting)
  <2>1. /\ path \in Seq(Nat) /\ stack \in Seq(Call) /\ PathsNest /\ SavedInside
        /\ pos \in 0..Len(src) /\ depth \in 0..MaxNesting /\ depth = Len(stack) /\ root \in {"obj", "arr"}
    BY DEF ParseInv, TypeOK, DepthIsNesting
  <2>2. UNCHANGED <<src, entries, root, enc, rc>> /\ pc \notin {"create", "done"} /\ MaxNesting \in Nat
    BY <1>2, NestingAssumption DEF Enter
  <2>3. CASE Peek(1) = Closer(kind)
    <3>1. pos' = pos + 2 /\ depth' = depth /\ ReturnTo(stack) /\ path' = path
      BY <1>2, <2>3 DEF Enter
    <3>2. stack' = stack /\ pc' = IF stack = <<>> THEN "meta" ELSE "after"
      BY <3>1 DEF ReturnTo
    <3>3. Peek(1) # "eof"
      BY <2>3 DEF Closer
    <3>4. pos' \in 0..Len(src)
      BY <3>1, <3>3, SeenInside
    <3>5. pc' \in {"key", "value", "after"} => Len(stack') # 0
      BY <2>1, <3>2
    <3>6. PathsNest' /\ SavedInside'
      BY <2>1, <3>1, <3>2 DEF PathsNest, SavedInside
    <3> QED
      BY <2>1, <2>2, <3>1, <3>2, <3>4, <3>5, <3>6, GoesOn
  <2>4. CASE Peek(1) # Closer(kind)
    <3>1. /\ pos' = pos + 1 /\ depth' = depth + 1 /\ stack' = Append(stack, Frame(kind, 0))
          /\ pc' = (IF kind = "obj" THEN "key" ELSE "value")
          /\ path' = (IF kind = "obj" THEN path ELSE PushIndex(path, 0))
      BY <1>2, <2>4 DEF Enter
    <3>2. path' \in Seq(Nat) /\ Len(path') >= Len(path)
      BY <2>1, <3>1, PushIndexLonger
    <3>3. stack' \in Seq(Call) /\ Len(stack') = Len(stack) + 1 /\ PathsNest' /\ SavedInside'
      BY <3>1, <3>2, CallKeeps
    <3>4. pos' \in 0..Len(src) /\ depth' \in 0..MaxNesting /\ depth' = Len(stack') /\ Len(stack') # 0
      BY <1>2, <2>1, <2>2, <3>1, <3>3, SeenInside
    <3>5. pc' \in {"root", "key", "value", "after", "meta", "build"}
      BY <3>1
    <3> QED
      BY <2>1, <2>2, <3>2, <3>3, <3>4, <3>5, GoesOn
  <2> QED
    BY <2>3, <2>4
<1> QED
  BY <1>1, <1>2

LEMMA BeginKeeps ==
    ASSUME ParseInv, Begin
    PROVE  ParseInv'
<1>1. CASE Return("ALLOC")
  BY <1>1, ReturnKeeps
<1>2. CASE enc' = TRUE /\ pc' = "root" /\ UNCHANGED <<src, pos, stack, depth, path, entries, root, rc>>
  <2>1. /\ TextWhole' /\ path' \in Seq(Nat) /\ stack' \in Seq(Call) /\ PathsNest' /\ SavedInside'
    BY <1>2 DEF ParseInv, TextWhole, PathsNest, SavedInside
  <2>2. rc' = "none" /\ pc' # "done" /\ pc' \notin {"create", "done"}
    BY <1>2 DEF Begin, ParseInv, TypeOK
  <2>3. enc' = (pc' \notin {"create", "done"}) /\ (rc' = "none" <=> pc' # "done")
    BY <1>2, <2>2, Zenon
  <2>4. /\ pos' \in 0..Len(src') /\ depth' \in 0..MaxNesting /\ root' \in {"obj", "arr"}
        /\ \A n \in DOMAIN stack' : stack'[n].kind \in {"obj", "arr"} /\ stack'[n].idx \in Nat
                               /\ stack'[n].saved \in 0..Len(path')
        /\ pc' \in {"create", "root", "key", "value", "after", "meta", "build", "done"}
    BY <1>2 DEF ParseInv, TypeOK
  <2>5. TypeOK'
    BY ONLY <2>3, <2>4, Zenon DEF TypeOK
  <2>6. DepthIsNesting'
    BY <1>2 DEF Begin, ParseInv, DepthIsNesting
  <2> QED
    BY <2>1, <2>5, <2>6 DEF ParseInv
<1> QED
  BY <1>1, <1>2 DEF Begin

\* What holds in the middle of a text.
LEMMA InMiddle ==
    ASSUME ParseInv
    PROVE  /\ path \in Seq(Nat) /\ stack \in Seq(Call) /\ PathsNest /\ SavedInside
           /\ pos \in 0..Len(src) /\ depth \in 0..MaxNesting /\ root \in {"obj", "arr"}
           /\ pc # "done" => depth = Len(stack)
           /\ pc \in {"key", "value", "after"} => Len(stack) \in Nat \ {0} /\ stack # <<>>
<1>1. /\ path \in Seq(Nat) /\ stack \in Seq(Call) /\ PathsNest /\ SavedInside
      /\ pos \in 0..Len(src) /\ depth \in 0..MaxNesting /\ root \in {"obj", "arr"}
      /\ pc # "done" => depth = Len(stack)
      /\ pc \in {"key", "value", "after"} => stack # <<>>
  BY DEF ParseInv, TypeOK, DepthIsNesting
<1>2. stack # <<>> => Len(stack) \in Nat \ {0}
  BY <1>1
<1> QED
  BY <1>1, <1>2

LEMMA ParseRootKeeps ==
    ASSUME ParseInv, ParseRoot
    PROVE  ParseInv'
<1>1. CASE Peek(0) = "{"
  BY <1>1, EnterKeeps DEF ParseRoot
<1>2. CASE Peek(0) = "["
  BY <1>2, EnterKeeps DEF ParseRoot
<1>3. CASE Peek(0) \notin {"{", "["}
  <2>1. Return("JSON_SYNTAX")
    BY <1>3 DEF ParseRoot
  <2> QED
    BY <2>1, ReturnKeeps
<1> QED
  BY <1>1, <1>2, <1>3

LEMMA ParseKeyKeeps ==
    ASSUME ParseInv, ParseKey
    PROVE  ParseInv'
<1>1. CASE Peek(0) = "string" /\ Peek(1) = ":"
  <2>1. /\ pc = "key" /\ pos' = pos + 2 /\ pc' = "value" /\ path' = PushKey(path, src[pos + 1].text)
        /\ UNCHANGED <<src, stack, depth, entries, root, enc, rc>>
    BY <1>1 DEF ParseKey
  <2>2. pos + 2 <= Len(src) /\ pos \in Nat /\ Len(src) \in Nat
    BY <1>1, SeenInside
  <2>3. src[pos + 1].text \in Seq(Nat)
    BY <2>2 DEF ParseInv, TextWhole
  <2>4. path' \in Seq(Nat) /\ Len(path') >= Len(path)
    BY <2>1, <2>3, InMiddle, PushKeyLonger
  <2>5. stack' \in Seq(Call) /\ PathsNest' /\ SavedInside'
    BY <2>1, <2>4, LongerKeeps
  <2>6. pos' \in 0..Len(src)
    BY <2>1, <2>2
  <2>7. depth' \in 0..MaxNesting /\ depth' = Len(stack') /\ Len(stack') # 0 /\ root' \in {"obj", "arr"}
    BY <2>1, InMiddle
  <2> QED
    BY <2>1, <2>4, <2>5, <2>6, <2>7, GoesOn
<1>2. CASE ~(Peek(0) = "string" /\ Peek(1) = ":")
  BY <1>2, ReturnKeeps DEF ParseKey
<1> QED
  BY <1>1, <1>2

LEMMA ParseContainerKeeps ==
    ASSUME ParseInv, ParseContainer
    PROVE  ParseInv'
<1>1. CASE Peek(0) = "{" /\ Enter("obj")
  BY <1>1, EnterKeeps DEF ParseContainer
<1>2. CASE Peek(0) = "[" /\ Enter("arr")
  BY <1>2, EnterKeeps DEF ParseContainer
<1> QED
  BY <1>1, <1>2 DEF ParseContainer

LEMMA ParseScalarKeeps ==
    ASSUME ParseInv, ParseScalar
    PROVE  ParseInv'
<1>1. CASE Return("ALLOC")
  BY <1>1, ReturnKeeps
<1>2. CASE Return("JSON_SYNTAX")
  BY <1>2, ReturnKeeps
<1>3. CASE /\ pc = "value" /\ Peek(0) \in {"string", "scalar"} /\ pos' = pos + 1 /\ pc' = "after"
           /\ UNCHANGED <<src, stack, depth, path, root, enc, rc>>
  <2>1. pos' \in 0..Len(src)
    BY <1>3, SeenInside
  <2>2. stack' \in Seq(Call) /\ PathsNest' /\ SavedInside' /\ path' \in Seq(Nat)
    BY <1>3, InMiddle, LongerKeeps
  <2>3. depth' \in 0..MaxNesting /\ depth' = Len(stack') /\ Len(stack') # 0 /\ root' \in {"obj", "arr"}
    BY <1>3, InMiddle
  <2> QED
    BY <1>3, <2>1, <2>2, <2>3, GoesOn
<1> QED
  BY <1>1, <1>2, <1>3 DEF ParseScalar

\* The next key or element of a container: the path is cut to what the call saved,
\* which is more than the calls around it have.
LEMMA NextItemKeeps ==
    ASSUME ParseInv, pc = "after", Peek(0) = "comma", NextItem
    PROVE  ParseInv'
<1>1. /\ path \in Seq(Nat) /\ stack \in Seq(Call) /\ PathsNest /\ SavedInside
      /\ depth \in 0..MaxNesting /\ depth = Len(stack) /\ root \in {"obj", "arr"}
      /\ Len(stack) \in Nat \ {0}
  BY InMiddle
<1>2. pos' = pos + 1 /\ UNCHANGED <<src, depth, entries, root, enc, rc>>
  BY DEF NextItem
<1>3. pos' \in 0..Len(src)
  BY <1>2, SeenInside
<1>4. \A n \in 1..Len(stack) : stack[n] \in Call /\ stack[n].saved \in Nat /\ stack[n].saved <= Len(path)
  BY <1>1, SavedNat DEF SavedInside
<1>5. Top = stack[Len(stack)] /\ Top \in Call /\ Top.saved \in Nat /\ Top.idx \in Nat /\ Top.saved \in 0..Len(path)
  <2>1. Top = stack[Len(stack)] /\ Len(stack) \in 1..Len(stack)
    BY <1>1 DEF Top
  <2>2. Top \in Call /\ Top.saved \in Nat /\ Top.saved <= Len(path)
    BY <1>4, <2>1
  <2> QED
    BY <1>1, <2>1, <2>2 DEF Call
<1>6. Restored \in Seq(Nat) /\ Len(Restored) = Top.saved
  BY <1>1, <1>5, CutOff DEF Restored
<1>7. \A n \in 1..Len(stack) : stack[n].saved <= Top.saved
  BY <1>1, <1>5 DEF PathsNest
<1>8. CASE Top.kind = "obj"
  <2>1. pc' = "key" /\ path' = Restored /\ stack' = stack
    BY <1>8 DEF NextItem
  <2>2. PathsNest' /\ SavedInside'
    BY <1>1, <1>6, <1>7, <2>1 DEF PathsNest, SavedInside
  <2> QED
    BY <1>1, <1>2, <1>3, <1>6, <2>1, <2>2, GoesOn
<1>9. CASE Top.kind # "obj"
  <2> DEFINE f == [kind |-> "arr", saved |-> Top.saved, idx |-> Top.idx + 1]
  <2>1. pc' = "value" /\ path' = PushIndex(Restored, Top.idx + 1) /\ stack' = [stack EXCEPT ![Len(stack)] = f]
    BY <1>9 DEF NextItem
  <2>2. f \in Call /\ f.saved = Top.saved
    BY <1>5 DEF Call
  <2> HIDE DEF f
  <2>3. stack' \in Seq(Call) /\ Len(stack') = Len(stack)
    BY <1>1, <2>1, <2>2
  <2>4. \A n \in 1..Len(stack) : stack'[n].saved = stack[n].saved
    BY <1>1, <1>5, <2>1, <2>2
  <2>5. path' \in Seq(Nat) /\ Len(path') >= Top.saved
    BY <1>5, <1>6, <2>1, PushIndexLonger
  <2>6. PathsNest'
    BY <1>1, <2>3, <2>4 DEF PathsNest
  <2>7. SavedInside'
    <3>1. \A n \in 1..Len(stack) : stack[n].saved <= Len(path')
      BY <1>4, <1>5, <1>7, <2>5
    <3> QED
      BY <2>3, <2>4, <3>1 DEF SavedInside
  <2>8. Len(stack') # 0 /\ depth' = Len(stack')
    BY <1>1, <1>2, <2>3
  <2> QED
    BY <1>1, <1>2, <1>3, <2>1, <2>3, <2>5, <2>6, <2>7, <2>8, GoesOn
<1> QED
  BY <1>8, <1>9

LEMMA AfterValueKeeps ==
    ASSUME ParseInv, AfterValue
    PROVE  ParseInv'
<1>1. pc = "after" /\ Closer(Top.kind) # "comma"
  BY DEF AfterValue, Closer
<1>2. CASE Peek(0) = Closer(Top.kind)
  <2>1. /\ pos' = pos + 1 /\ depth' = depth - 1 /\ path' = Restored
        /\ ReturnTo(SubSeq(stack, 1, Len(stack) - 1))
        /\ UNCHANGED <<src, entries, root, enc, rc>>
    BY <1>1, <1>2 DEF AfterValue
  <2>2. stack' = SubSeq(stack, 1, Len(stack) - 1) /\ pc' = IF stack' = <<>> THEN "meta" ELSE "after"
    BY <2>1 DEF ReturnTo
  <2>3. /\ stack' \in Seq(Call) /\ Len(stack') = Len(stack) - 1
        /\ path' \in Seq(Nat) /\ PathsNest' /\ SavedInside'
    BY <1>1, <2>1, <2>2, InMiddle, CallEnds
  <2>4. Peek(0) # "eof"
    BY <1>2 DEF Closer
  <2>5. pos' \in 0..Len(src)
    BY <2>1, <2>4, SeenInside
  <2>6. depth' \in 0..MaxNesting /\ depth' = Len(stack')
    <3>1. depth \in 0..MaxNesting /\ depth = Len(stack) /\ Len(stack) \in Nat \ {0} /\ MaxNesting \in Nat
      BY <1>1, InMiddle, NestingAssumption
    <3> QED
      BY <2>1, <2>3, <3>1
  <2>7. pc' \in {"key", "value", "after"} => Len(stack') # 0
    <3>1. stack' # <<>> => Len(stack') # 0
      BY <2>3
    <3> QED
      BY <2>2, <3>1
  <2>8. root' \in {"obj", "arr"}
    BY <2>1, InMiddle
  <2> QED
    BY <1>1, <2>1, <2>2, <2>3, <2>5, <2>6, <2>7, <2>8, GoesOn
<1>3. CASE Peek(0) = "comma"
  BY <1>1, <1>3, NextItemKeeps DEF AfterValue
<1>4. CASE Peek(0) # Closer(Top.kind) /\ Peek(0) # "comma"
  <2>1. Return("JSON_SYNTAX")
    BY <1>4 DEF AfterValue
  <2> QED
    BY <2>1, ReturnKeeps
<1> QED
  BY <1>2, <1>3, <1>4

LEMMA AddMetaKeeps ==
    ASSUME ParseInv, AddMeta
    PROVE  ParseInv'
<1>1. CASE Return("ALLOC")
  BY <1>1, ReturnKeeps
<1>2. CASE /\ root' = (IF src[1].kind = "{" THEN "obj" ELSE "arr") /\ pc' = "build"
           /\ UNCHANGED <<src, pos, stack, depth, path, enc, rc>>
  <2>1. root' \in {"obj", "arr"} /\ pc = "meta"
    BY <1>2 DEF AddMeta
  <2>2. stack' \in Seq(Call) /\ PathsNest' /\ SavedInside' /\ path' \in Seq(Nat)
    <3>1. path' = path /\ stack' = stack
      BY <1>2
    <3>2. path \in Seq(Nat) /\ Len(path) \in Nat
      BY InMiddle
    <3>3. path' \in Seq(Nat) /\ Len(path') >= Len(path)
      BY ONLY <3>1, <3>2
    <3> QED
      BY <3>1, <3>3, LongerKeeps
  <2>3. pos' \in 0..Len(src) /\ depth' \in 0..MaxNesting /\ depth' = Len(stack')
    BY <1>2, <2>1, InMiddle
  <2> QED
    BY <1>2, <2>1, <2>2, <2>3, GoesOn
<1> QED
  BY <1>1, <1>2 DEF AddMeta

-----------------------------------------------------------------------------
LEMMA NextParse == ParseInv /\ [Next]_parseVars => ParseInv'
<1> SUFFICES ASSUME ParseInv, [Next]_parseVars PROVE ParseInv'
  OBVIOUS
<1>1. CASE Begin
  BY <1>1, BeginKeeps
<1>2. CASE ParseRoot
  BY <1>2, ParseRootKeeps
<1>3. CASE ParseKey
  BY <1>3, ParseKeyKeeps
<1>4. CASE ParseContainer
  BY <1>4, ParseContainerKeeps
<1>5. CASE ParseScalar
  BY <1>5, ParseScalarKeeps
<1>6. CASE AfterValue
  BY <1>6, AfterValueKeeps
<1>7. CASE AddMeta
  BY <1>7, AddMetaKeeps
<1>8. CASE BuildDocument
  BY <1>8, ReturnKeeps DEF BuildDocument
<1>9. CASE UNCHANGED parseVars
  BY <1>9 DEF parseVars, ParseInv, TextWhole, PathsNest, SavedInside, TypeOK, DepthIsNesting
<1> QED
  BY <1>1, <1>2, <1>3, <1>4, <1>5, <1>6, <1>7, <1>8, <1>9 DEF Next, Parse

THEOREM BooksKept == Spec => []ParseInv
<1> QED
  BY InitParse, NextParse, PTL DEF Spec

\* tp_json_encode has an encoder exactly while it parses, whatever the text and
\* wherever it fails, its reader stays inside the text, and every open container has a
\* path to go back to.
THEOREM ParseTyped == Spec => []TypeOK
<1>1. ParseInv => TypeOK
  BY DEF ParseInv
<1> QED
  BY <1>1, BooksKept, PTL

\* parser.depth is the number of open containers for texts of any length: the limit of
\* TP_MAX_NESTING_DEPTH is neither worn down by siblings nor passed.
THEOREM DepthCounted == Spec => []DepthIsNesting
<1>1. ParseInv => DepthIsNesting
  BY DEF ParseInv
<1> QED
  BY <1>1, BooksKept, PTL

-----------------------------------------------------------------------------
(* What Open makes sure of *)

LEMMA FieldIsNumber ==
    ASSUME NEW b \in Seq(Bit), NEW n \in Nat \ {0}, NEW m \in Nat, m <= Len(b)
    PROVE  Number(SubSeq(b, n, m)) \in Nat
<1>1. \A k \in n..m : b[k] \in Bit
  OBVIOUS
<1>2. n \in Int /\ m \in Int
  OBVIOUS
<1>3. SubSeq(b, n, m) \in Seq(Bit)
  BY <1>1, <1>2, SubSeqProperties
<1> QED
  BY <1>3, NumberType

LEMMA OkIs == \A v, p : Ok(v, p).rc = "OK" /\ Ok(v, p).val = v /\ Ok(v, p).pos = p
BY DEF Ok

LEMMA FailIs == \A code, p : Fail(code, p).rc = code /\ Fail(code, p).pos = p
BY DEF Fail

\* The symbols are one to eight bits wide.
LEMMA ConfigIs ==
    ASSUME NEW b \in Seq(Bit), ParseTrieConfig(b).rc = "OK"
    PROVE  ParseTrieConfig(b).val.bps \in 1..8
<1> DEFINE r == ReadBits(b, HeaderBits, 4)
           s == ReadBits(b, r.pos, 8)
           t == ReadList(LAMBDA x : ReadBits(b, x, r.val), s.pos, NumControlCodes)
           u == ReadList(LAMBDA x : ReadVarintU(b, x), t.pos, s.val - NumControlCodes)
           sym == [ bps |-> r.val,
                    ctrl |-> [ END |-> t.val[1], END_VAL |-> t.val[2], SKIP |-> t.val[3],
                               SUFFIX |-> t.val[4], ESCAPE |-> t.val[5], BRANCH |-> t.val[6] ],
                    is_ctrl |-> ToSet(t.val), table |-> u.val ]
           few == s.val < NumControlCodes \/ s.val > 2^r.val
<1>1. ParseTrieConfig(b)
          = IF r.rc = "OK"
            THEN IF r.val \notin 1..8 THEN Fail("ALPHABET", r.pos)
                 ELSE IF s.rc = "OK"
                      THEN IF few THEN Fail("ALPHABET", s.pos)
                           ELSE IF t.rc = "OK"
                                THEN IF u.rc = "OK" THEN Ok(sym, u.pos) ELSE u
                                ELSE t
                      ELSE s
            ELSE r
  BY DEF ParseTrieConfig, Then
<1>2. sym.bps = r.val
  OBVIOUS
<1> HIDE DEF r, s, t, u, sym, few
<1>3. Fail("ALPHABET", r.pos).rc # "OK" /\ Fail("ALPHABET", s.pos).rc # "OK"
  BY FailIs
<1>4. r.rc = "OK"
  BY <1>1, Zenon
<1>5. r.val \in 1..8
  BY <1>1, <1>3, <1>4, Zenon
<1>6. s.rc = "OK" /\ ~few
  BY <1>1, <1>3, <1>4, <1>5, Zenon
<1>7. ParseTrieConfig(b) = Ok(sym, u.pos)
  <2>1. t.rc = "OK"
    BY <1>1, <1>4, <1>5, <1>6, Zenon
  <2>2. u.rc = "OK"
    BY <1>1, <1>4, <1>5, <1>6, <2>1, Zenon
  <2> QED
    BY <1>1, <1>4, <1>5, <1>6, <2>1, <2>2, Zenon
<1>8. ParseTrieConfig(b).val = sym
  BY <1>7, OkIs
<1> QED
  BY <1>2, <1>5, <1>8

LEMMA OpenedIs ==
    ASSUME NEW b \in Seq(Bit), NEW d, Open(b, TRUE).rc = "OK", d = Open(b, TRUE).val
    PROVE  d.buf = b /\ d.sym.bps \in 1..8 /\ d.num_keys \in Nat /\ d.trie_start \in Nat
<1> DEFINE config == ParseTrieConfig(b)
           h == ReadHeader(b)
           starts == FromHeaderEnd(h.trie_data_offset)
           flag == (h.flags \div FlagHasSuffixTable) % 2 = 1
           e == [ buf |-> b, sym |-> config.val, num_keys |-> h.num_keys, has_values |-> h.flags % 2 = 1,
                  trie_start |-> starts, value_start |-> FromHeaderEnd(h.value_store_offset) ]
           short == Len(b) < HeaderBits
           corrupt == ~CrcMatches(b)
<1>1. Open(b, TRUE)
          = IF short THEN Fail("TRUNCATED", 0)
            ELSE IF h.rc # "OK" THEN Fail(h.rc, 0)
            ELSE IF corrupt THEN Fail("CORRUPT", 0)
            ELSE IF flag THEN Fail("VERSION", 0)
            ELSE IF config.rc = "OK" THEN Ok(e, config.pos) ELSE config
  BY DEF Open, Then
<1>2. e.buf = b /\ e.sym = config.val /\ e.num_keys = h.num_keys /\ e.trie_start = starts
  OBVIOUS
<1> HIDE DEF config, h, starts, flag, e, short, corrupt
<1>3. ~short /\ h.rc = "OK" /\ config.rc = "OK" /\ Open(b, TRUE) = Ok(e, config.pos)
  <2>1. \A code : Fail(code, 0).rc = code
    BY FailIs
  <2>2. Fail("TRUNCATED", 0).rc # "OK" /\ Fail("CORRUPT", 0).rc # "OK" /\ Fail("VERSION", 0).rc # "OK"
    BY <2>1
  <2>3. ~short
    BY <1>1, <2>2, Zenon
  <2>4. h.rc = "OK"
    BY <1>1, <2>1, <2>3, Zenon
  <2>5. ~corrupt /\ ~flag
    BY <1>1, <2>2, <2>3, <2>4, Zenon
  <2>6. config.rc = "OK"
    BY <1>1, <2>3, <2>4, <2>5, Zenon
  <2> QED
    BY <1>1, <2>3, <2>4, <2>5, <2>6, Zenon
<1>4. d.buf = b /\ d.sym = config.val /\ d.num_keys = h.num_keys /\ d.trie_start = starts
  <2>1. d = e
    BY <1>3, OkIs
  <2> QED
    BY <1>2, <2>1
<1>5. config.val.bps \in 1..8
  BY <1>3, ConfigIs DEF config
<1>6. h.num_keys \in Nat /\ h.trie_data_offset \in Nat
  <2>1. h.num_keys = Number(SubSeq(b, 65, 96)) /\ h.trie_data_offset = Number(SubSeq(b, 97, 128))
    BY <1>3 DEF h, ReadHeader
  <2>2. Len(b) \in Nat /\ 96 <= Len(b) /\ 128 <= Len(b)
    BY <1>3 DEF short, HeaderBits
  <2>3. 65 \in Nat \ {0} /\ 96 \in Nat /\ 97 \in Nat \ {0} /\ 128 \in Nat
    OBVIOUS
  <2>4. Number(SubSeq(b, 65, 96)) \in Nat /\ Number(SubSeq(b, 97, 128)) \in Nat
    BY <2>2, <2>3, FieldIsNumber
  <2> QED
    BY <2>1, <2>4
<1>7. starts \in Nat
  BY <1>6 DEF starts, FromHeaderEnd, HeaderBits
<1> QED
  BY <1>4, <1>5, <1>6, <1>7

-----------------------------------------------------------------------------
(* The frames of the walk *)

OpenBranch == [key_len : Nat, remaining : Nat]
\* Frames further in have saved longer keys, none longer than the n bytes in the buffer.
Framed(frames, n) ==
    /\ frames \in Seq(OpenBranch)
    /\ \A i, j \in 1..Len(frames) : i <= j => frames[i].key_len <= frames[j].key_len
    /\ \A i \in 1..Len(frames) : frames[i].key_len <= n

\* The fields of walk.
Fields(w, p, k, s, e) == w = [pos |-> p, key |-> k, stack |-> s, entries |-> e]
Recorded(w) == Fields(w, w.pos, w.key, w.stack, w.entries)

WalkInv ==
    stage = "walk" =>
        /\ Recorded(walk)
        /\ dict.buf \in Seq(Bit) /\ dict.sym.bps \in 1..8 /\ dict.num_keys \in Nat
        /\ walk.pos \in 0..Len(dict.buf)
        /\ IsList(walk.entries) /\ Len(walk.entries) <= dict.num_keys
        /\ IsList(walk.key) /\ Len(walk.key) \in Nat /\ Len(walk.key) < KeyCap
        /\ Framed(walk.stack, Len(walk.key)) /\ Len(walk.stack) <= WalkDepth

LEMMA FrameNumbers == \A f \in OpenBranch : f.key_len \in Nat /\ f.remaining \in Nat
BY DEF OpenBranch

LEMMA FramedNumbers ==
    ASSUME NEW frames, NEW n, Framed(frames, n)
    PROVE  Len(frames) \in Nat /\ \A i \in 1..Len(frames) : frames[i] \in OpenBranch /\ frames[i].key_len \in Nat
<1>1. frames \in Seq(OpenBranch)
  BY DEF Framed
<1>2. Len(frames) \in Nat /\ \A i \in 1..Len(frames) : frames[i] \in OpenBranch
  BY <1>1
<1> QED
  BY <1>2, FrameNumbers

LEMMA FramesKept ==
    ASSUME NEW frames, NEW n \in Nat, NEW m \in Nat, n <= m, Framed(frames, n)
    PROVE  Framed(frames, m)
<1>1. \A i \in 1..Len(frames) : frames[i].key_len \in Nat
  BY FramedNumbers
<1> QED
  BY <1>1 DEF Framed

LEMMA FramesPushed ==
    ASSUME NEW frames, NEW n \in Nat, NEW r \in Nat, Framed(frames, n)
    PROVE  /\ Framed(Append(frames, [key_len |-> n, remaining |-> r]), n)
           /\ Len(frames) \in Nat
           /\ Len(Append(frames, [key_len |-> n, remaining |-> r])) = Len(frames) + 1
<1>1. PICK f \in OpenBranch : f = [key_len |-> n, remaining |-> r]
  BY DEF OpenBranch
<1>2. f.key_len = n
  BY <1>1
<1>3. frames \in Seq(OpenBranch)
  BY DEF Framed
<1>4. PICK t : t = Append(frames, f)
  OBVIOUS
<1>5. /\ t \in Seq(OpenBranch) /\ Len(frames) \in Nat /\ Len(t) = Len(frames) + 1 /\ t[Len(frames) + 1] = f
      /\ \A i \in 1..Len(frames) : t[i] = frames[i]
  BY <1>3, <1>4
<1>6. \A i \in 1..Len(frames) : frames[i].key_len \in Nat /\ frames[i].key_len <= n
  BY FramedNumbers DEF Framed
<1>7. \A i \in 1..Len(t) : t[i].key_len <= n
  BY <1>2, <1>5, <1>6
<1>8. \A i, j \in 1..Len(t) : i <= j => t[i].key_len <= t[j].key_len
  <2> SUFFICES ASSUME NEW i \in 1..Len(t), NEW j \in 1..Len(t), i <= j PROVE t[i].key_len <= t[j].key_len
    OBVIOUS
  <2>1. CASE j = Len(frames) + 1
    BY <1>2, <1>5, <1>7, <2>1
  <2>2. CASE j # Len(frames) + 1
    <3>1. i \in 1..Len(frames) /\ j \in 1..Len(frames)
      BY <1>5, <2>2
    <3> QED
      BY <1>5, <3>1 DEF Framed
  <2> QED
    BY <2>1, <2>2
<1> QED
  BY <1>1, <1>4, <1>5, <1>7, <1>8 DEF Framed

LEMMA FramesCut ==
    ASSUME NEW frames, NEW n \in Nat, Framed(frames, n), NEW k \in 1..Len(frames), NEW r \in Nat
    PROVE  /\ frames[k].key_len \in 0..n
           /\ Framed(Append(SubSeq(frames, 1, k - 1), [frames[k] EXCEPT !.remaining = r]), frames[k].key_len)
           /\ Len(Append(SubSeq(frames, 1, k - 1), [frames[k] EXCEPT !.remaining = r])) <= Len(frames)
<1>1. frames \in Seq(OpenBranch) /\ Len(frames) \in Nat
  BY DEF Framed
<1>2. PICK m \in Nat : m = frames[k].key_len
  BY FramedNumbers
<1>3. m \in 0..n
  BY <1>2 DEF Framed
<1>4. [frames[k] EXCEPT !.remaining = r] = [key_len |-> m, remaining |-> r]
  <2>1. PICK f \in OpenBranch : f = frames[k]
    BY <1>1
  <2>2. [f EXCEPT !.remaining = r] = [key_len |-> f.key_len, remaining |-> r]
    BY DEF OpenBranch
  <2> QED
    BY <1>2, <2>1, <2>2
<1>5. PICK s : s = SubSeq(frames, 1, k - 1)
  OBVIOUS
<1>6. s \in Seq(OpenBranch) /\ Len(s) = k - 1 /\ \A i \in 1..k - 1 : s[i] = frames[i]
  <2>1. PICK j \in Nat : j = k - 1 /\ j <= Len(frames)
    BY <1>1
  <2>2. 1 \in Int /\ j \in Int /\ \A i \in 1..j : frames[i] \in OpenBranch
    BY <1>1, <2>1
  <2>3. s \in Seq(OpenBranch) /\ Len(s) = (IF 1 <= j THEN j - 1 + 1 ELSE 0) /\ \A i \in 1..j : s[i] = frames[i]
    BY <1>1, <1>5, <2>1, <2>2, SubSeqProperties
  <2> QED
    BY <2>1, <2>3
<1>7. Framed(s, m)
  <2>1. \A i \in 1..Len(s) : s[i] = frames[i] /\ i \in 1..Len(frames) /\ i <= k
    BY <1>1, <1>6
  <2>2. \A i \in 1..Len(s) : s[i].key_len <= m
    BY <1>2, <2>1 DEF Framed
  <2>3. \A i, j \in 1..Len(s) : i <= j => s[i].key_len <= s[j].key_len
    BY <2>1 DEF Framed
  <2> QED
    BY <1>6, <2>2, <2>3 DEF Framed
<1>8. PICK t : t = Append(s, [key_len |-> m, remaining |-> r])
  OBVIOUS
<1>9. Framed(t, m) /\ Len(t) = Len(s) + 1
  BY <1>7, <1>8, FramesPushed
<1>10. Len(t) <= Len(frames)
  BY <1>1, <1>6, <1>9
<1> QED
  BY <1>2, <1>3, <1>4, <1>5, <1>8, <1>9, <1>10

-----------------------------------------------------------------------------
(* The reads of the walk *)

\* A field that is read moves the reader on.
LEMMA FieldOn ==
    ASSUME NEW b \in Seq(Bit), NEW p \in 0..Len(b), NEW n \in 1..8
    PROVE  /\ ReadBits(b, p, n).pos \in p..Len(b)
           /\ ReadBits(b, p, n).rc = "OK" => ReadBits(b, p, n).pos \in p + 1..Len(b)
<1>1. CASE p + n > Len(b)
  <2>1. ReadBits(b, p, n) = Fail("EOF", p)
    BY <1>1 DEF ReadBits
  <2>2. Fail("EOF", p).rc = "EOF" /\ Fail("EOF", p).pos = p
    BY FailIs
  <2> QED
    BY <2>1, <2>2
<1>2. CASE ~(p + n > Len(b))
  <2>1. ReadBits(b, p, n) = Ok(Number(SubSeq(b, p + 1, p + n)), p + n)
    BY <1>2 DEF ReadBits
  <2>2. ReadBits(b, p, n).pos = p + n
    BY <2>1, OkIs
  <2>3. p + n \in p + 1..Len(b) /\ p + n \in p..Len(b)
    BY <1>2
  <2> QED
    BY <2>2, <2>3
<1> QED
  BY <1>1, <1>2

LEMMA SkipInside ==
    ASSUME dict.buf \in Seq(Bit), dict.sym.bps \in 1..8, NEW p \in 0..Len(dict.buf)
    PROVE  ReadSkip(p).pos \in p..Len(dict.buf)
<1>1. PICK r : r = ReadBits(dict.buf, p, dict.sym.bps)
  OBVIOUS
<1>2. r.pos \in p..Len(dict.buf) /\ r.pos \in 0..Len(dict.buf)
  <2>1. r.pos \in p..Len(dict.buf)
    BY <1>1, FieldOn
  <2> QED
    BY <2>1
<1>3. PICK v : v = ReadVarintU(dict.buf, r.pos)
  OBVIOUS
<1>4. v.pos \in r.pos..Len(dict.buf)
  BY <1>2, <1>3, VarintInside
<1>5. ReadSkip(p) = IF r.rc = "OK" THEN v ELSE r
  BY <1>1, <1>3 DEF ReadSkip, Then
<1>6. v.pos \in p..Len(dict.buf)
  BY <1>2, <1>4
<1> QED
  BY <1>2, <1>5, <1>6

LEMMA EmptyFramed == \A n : Framed(<<>>, n) /\ Len(<<>>) = 0
<1>1. PICK e : e = <<>>
  OBVIOUS
<1>2. e \in Seq(OpenBranch) /\ Len(e) = 0
  BY <1>1
<1> QED
  BY <1>1, <1>2 DEF Framed

\* The innermost frame with children left.
LEMMA LastPending ==
    ASSUME Len(walk.stack) \in Nat, DOMAIN walk.stack = 1..Len(walk.stack), Pending # {}
    PROVE  \E n \in Pending : \A j \in Pending : j <= n
<1>1. PICK m \in Nat : m = Len(walk.stack)
  OBVIOUS
<1>2. PICK P : P = Pending
  OBVIOUS
<1>3. P \subseteq 1..m /\ P # {}
  BY <1>1, <1>2 DEF Pending
<1> DEFINE from == {k \in Nat : m - k \in P}
<1>4. PICK i \in 1..m : i \in P
  BY <1>3
<1>5. m - i \in from
  <2>1. m - i \in Nat /\ m - (m - i) = i
    OBVIOUS
  <2> QED
    BY <1>4, <2>1
<1>6. from \subseteq Nat /\ from # {}
  BY <1>5
<1>7. PICK k \in from : \A l \in from : k <= l
  <2> HIDE DEF from
  <2> QED
    BY <1>6, LeastElement
<1>8. PICK n \in P : n = m - k
  BY <1>7
<1>9. ASSUME NEW j \in P PROVE j <= n
  <2>1. j \in 1..m /\ m - j \in Nat /\ m - (m - j) = j
    BY <1>3
  <2>2. m - j \in from
    BY <2>1
  <2>3. k <= m - j /\ k \in Nat
    BY <1>7, <2>2
  <2> QED
    BY <1>8, <2>1, <2>3
<1> QED
  BY <1>2, <1>8, <1>9

LEMMA NextInside ==
    ASSUME WalkInv, stage = "walk", NEW p \in 0..Len(dict.buf)
    PROVE  /\ NextChild(p).pos \in p..Len(dict.buf)
           /\ IsList(NextChild(p).key) /\ Len(NextChild(p).key) \in 0..Len(walk.key)
           /\ Framed(NextChild(p).stack, Len(NextChild(p).key))
           /\ Len(NextChild(p).stack) \in 0..Len(walk.stack)
<1>1. /\ dict.buf \in Seq(Bit) /\ dict.sym.bps \in 1..8
      /\ IsList(walk.key) /\ Len(walk.key) \in Nat /\ Framed(walk.stack, Len(walk.key))
  BY DEF WalkInv
<1>2. Len(walk.stack) \in Nat /\ DOMAIN walk.stack = 1..Len(walk.stack)
  BY <1>1 DEF Framed
<1>3. CASE Pending = {}
  <2>1. PICK e : e = <<>>
    OBVIOUS
  <2>2. PICK key : key = walk.key
    OBVIOUS
  <2>3. NextChild(p) = [rc |-> "OK", pos |-> p, key |-> key, stack |-> e]
    BY <1>3, <2>1, <2>2 DEF NextChild
  <2>4. NextChild(p).pos = p /\ NextChild(p).key = key /\ NextChild(p).stack = e
    BY <2>3
  <2>5. Framed(e, Len(key)) /\ Len(e) = 0
    BY <2>1, EmptyFramed
  <2> QED
    BY <1>1, <1>2, <2>2, <2>4, <2>5
<1>4. CASE Pending # {}
  <2> DEFINE n == CHOOSE i \in Pending : \A j \in Pending : j <= i
             left == walk.stack[n].remaining - 1
             skip == IF left = 0 THEN Ok(0, p) ELSE ReadSkip(p)
             key == SubSeq(walk.key, 1, walk.stack[n].key_len)
             frames == Append(SubSeq(walk.stack, 1, n - 1), [walk.stack[n] EXCEPT !.remaining = left])
  <2>1. n \in Pending
    BY <1>2, <1>4, LastPending, Zenon
  <2>2. NextChild(p) = [rc |-> skip.rc, pos |-> skip.pos, key |-> key, stack |-> frames]
    BY <1>4, Zenon DEF NextChild
  <2>3. skip.pos \in p..Len(dict.buf)
    <3>1. ReadSkip(p).pos \in p..Len(dict.buf)
      BY <1>1, SkipInside
    <3>2. Ok(0, p).pos = p
      BY OkIs
    <3> QED
      BY <3>1, <3>2
  <2> HIDE DEF n
  <2>4. n \in 1..Len(walk.stack) /\ walk.stack[n].remaining > 0
    BY <1>2, <2>1 DEF Pending
  <2>5. left \in Nat
    <3>1. walk.stack[n] \in OpenBranch
      BY <1>1, <2>4, FramedNumbers
    <3>2. walk.stack[n].remaining \in Nat
      BY <3>1, FrameNumbers
    <3> QED
      BY <2>4, <3>2
  <2> HIDE DEF left
  <2>6. /\ walk.stack[n].key_len \in 0..Len(walk.key)
        /\ Framed(frames, walk.stack[n].key_len) /\ Len(frames) <= Len(walk.stack)
    BY <1>1, <2>4, <2>5, FramesCut
  <2> HIDE DEF frames, skip
  <2>7. IsList(key) /\ Len(key) = walk.stack[n].key_len
    BY <1>1, <2>6, ListBegins
  <2> HIDE DEF key
  <2>8. NextChild(p).pos = skip.pos /\ NextChild(p).key = key /\ NextChild(p).stack = frames
    BY <2>2
  <2>9. Len(frames) \in Nat
    BY <2>6, FramedNumbers
  <2>10. Len(frames) \in 0..Len(walk.stack) /\ Len(key) \in 0..Len(walk.key) /\ Framed(frames, Len(key))
    BY <1>2, <2>6, <2>7, <2>9
  <2> QED
    BY <2>3, <2>7, <2>8, <2>10
<1> QED
  BY <1>3, <1>4

-----------------------------------------------------------------------------
(* The steps of the walk *)

\* A step of the walk ends it or moves the reader on.
GoesForward == stage' # "walk" \/ walk'.pos > walk.pos

LEMMA FieldsAre ==
    ASSUME NEW w, NEW p, NEW k, NEW s, NEW e, w = [pos |-> p, key |-> k, stack |-> s, entries |-> e]
    PROVE  w.pos = p /\ w.key = k /\ w.stack = s /\ w.entries = e /\ Recorded(w)
<1>1. w.pos = p /\ w.key = k /\ w.stack = s /\ w.entries = e
  OBVIOUS
<1> QED
  BY ONLY <1>1, w = [pos |-> p, key |-> k, stack |-> s, entries |-> e] DEF Recorded, Fields

Moved(w, p) == [w EXCEPT !.pos = p]
Spelled(w, p, k) == [w EXCEPT !.pos = p, !.key = k]
Branched(w, p, s) == [w EXCEPT !.pos = p, !.stack = s]

LEMMA FieldsSet ==
    ASSUME NEW w, Recorded(w), NEW p, NEW x
    PROVE  /\ Fields(Moved(w, p), p, w.key, w.stack, w.entries)
           /\ Fields(Spelled(w, p, x), p, x, w.stack, w.entries)
           /\ Fields(Branched(w, p, x), p, w.key, x, w.entries)
<1>1. PICK q, k, s, e : w = [pos |-> q, key |-> k, stack |-> s, entries |-> e]
  BY DEF Recorded, Fields
<1>2. w.key = k /\ w.stack = s /\ w.entries = e
  BY <1>1
<1>3. [w EXCEPT !.pos = p] = [pos |-> p, key |-> k, stack |-> s, entries |-> e]
  BY ONLY <1>1
<1>4. PICK v : v = [w EXCEPT !.pos = p]
  OBVIOUS
<1>5. v = [pos |-> p, key |-> k, stack |-> s, entries |-> e]
  BY ONLY <1>3, <1>4
<1>6. [v EXCEPT !.key = x] = [pos |-> p, key |-> x, stack |-> s, entries |-> e]
  BY ONLY <1>5
<1>7. [v EXCEPT !.stack = x] = [pos |-> p, key |-> k, stack |-> x, entries |-> e]
  BY ONLY <1>5
<1> QED
  BY ONLY <1>2, <1>3, <1>4, <1>6, <1>7 DEF Fields, Moved, Spelled, Branched

LEMMA InitWalk == DecodeInit => WalkInv
<1>1. "idle" # "walk"
  OBVIOUS
<1> QED
  BY <1>1 DEF DecodeInit, WalkInv

LEMMA StillWalk == WalkInv /\ UNCHANGED decodeVars => WalkInv'
BY DEF WalkInv, decodeVars

LEMMA EndsWalk ==
    ASSUME NEW code, Ends(code)
    PROVE  WalkInv' /\ GoesForward
<1>1. stage' # "walk"
  BY DEF Ends
<1> QED
  BY <1>1 DEF WalkInv, GoesForward

\* What a walk has, and what it has to have after a step that goes on.
WalkHas(d, w) ==
    /\ Recorded(w)
    /\ d.buf \in Seq(Bit) /\ d.sym.bps \in 1..8 /\ d.num_keys \in Nat
    /\ w.pos \in 0..Len(d.buf)
    /\ IsList(w.entries) /\ Len(w.entries) <= d.num_keys
    /\ IsList(w.key) /\ Len(w.key) \in Nat /\ Len(w.key) < KeyCap
    /\ Framed(w.stack, Len(w.key)) /\ Len(w.stack) <= WalkDepth

LEMMA WalkIs == WalkInv <=> (stage = "walk" => WalkHas(dict, walk))
BY DEF WalkInv, WalkHas

LEMMA WalkGoes ==
    ASSUME NEW w, walk' = w, dict' = dict, WalkHas(dict, w)
    PROVE  WalkInv'
BY DEF WalkInv, WalkHas

LEMMA WalkBegins ==
    ASSUME NEW buf \in Seq(Bit), DecodeOpen(buf)
    PROVE  WalkInv'
<1>1. PICK opened : opened = Open(buf, TRUE)
  OBVIOUS
<1>2. PICK start : start = Seek(buf, opened.val.trie_start)
  OBVIOUS
<1>3. \/ \E code : Ends(code)
      \/ /\ opened.rc = "OK" /\ start.rc = "OK"
         /\ dict' = opened.val /\ walk' = [NoWalk EXCEPT !.pos = start.pos]
  BY <1>1, <1>2, Zenon DEF DecodeOpen
<1>4. CASE \E code : Ends(code)
  BY <1>4, EndsWalk
<1>5. CASE /\ opened.rc = "OK" /\ start.rc = "OK"
           /\ dict' = opened.val /\ walk' = [NoWalk EXCEPT !.pos = start.pos]
  <2>1. PICK d : d = opened.val
    OBVIOUS
  <2>2. d.buf = buf /\ d.sym.bps \in 1..8 /\ d.num_keys \in Nat /\ d.trie_start \in Nat
    BY <1>1, <1>5, <2>1, OpenedIs
  <2>3. start.pos \in 0..Len(buf)
    <3>1. CASE d.trie_start > Len(buf)
      BY <1>2, <1>5, <2>1, <3>1, FailIs DEF Seek
    <3>2. CASE ~(d.trie_start > Len(buf))
      <4>1. start = Ok(0, d.trie_start)
        BY <1>2, <2>1, <3>2 DEF Seek
      <4>2. start.pos = d.trie_start
        BY <4>1, OkIs
      <4> QED
        BY <2>2, <3>2, <4>2
    <3> QED
      BY <3>1, <3>2
  <2>4. PICK q : q = start.pos
    OBVIOUS
  <2>5. PICK e : e = <<>>
    OBVIOUS
  <2>6. walk' = [pos |-> q, key |-> e, stack |-> e, entries |-> e]
    BY <1>5, <2>4, <2>5 DEF NoWalk
  <2>7. walk'.pos = q /\ walk'.key = e /\ walk'.stack = e /\ walk'.entries = e
    BY <2>6
  <2>8. IsList(e) /\ Len(e) = 0
    <3>1. e \in Seq({}) /\ Len(e) = 0
      BY <2>5
    <3> QED
      BY <3>1 DEF IsList
  <2>9. Framed(e, 0)
    BY <2>5, EmptyFramed
  <2>10. Len(e) \in Nat /\ Len(e) < KeyCap /\ Len(e) <= WalkDepth
    BY <2>8, WalkAssumption
  <2>11. d.buf \in Seq(Bit) /\ q \in 0..Len(d.buf) /\ Len(e) <= d.num_keys
    BY <2>2, <2>3, <2>4, <2>8
  <2>12. dict' = d
    BY <1>5, <2>1
  <2>13. Recorded(walk')
    BY <2>6, FieldsAre
  <2> QED
    BY ONLY <2>2, <2>7, <2>8, <2>9, <2>10, <2>11, <2>12, <2>13 DEF WalkInv
<1> QED
  BY <1>3, <1>4, <1>5

\* What a step of the walk knows: its symbol was read or not, and its operand.
LEMMA SymIs ==
    ASSUME WalkInv, Walking
    PROVE  /\ WalkHas(dict, walk)
           /\ Symbol # "none" => /\ Sym.rc = "OK"
                                 /\ Sym.pos \in walk.pos + 1..Len(dict.buf)
                                 /\ Sym.pos \in 0..Len(dict.buf) /\ Sym.pos > walk.pos
           /\ Symbol # "none" => /\ Operand.pos \in 0..Len(dict.buf) /\ Operand.pos > walk.pos
                                 /\ Operand.val \in Nat
<1>1. WalkHas(dict, walk)
  BY WalkIs DEF Walking
<1>2. dict.buf \in Seq(Bit) /\ dict.sym.bps \in 1..8 /\ walk.pos \in 0..Len(dict.buf)
  BY <1>1 DEF WalkHas
<1>3. ASSUME Symbol # "none" PROVE Sym.rc = "OK"
  BY <1>3, Zenon DEF Symbol
<1>4. Sym.rc = "OK" => Sym.pos \in walk.pos + 1..Len(dict.buf)
  BY <1>2, FieldOn DEF Sym
<1>5. ASSUME Sym.pos \in walk.pos + 1..Len(dict.buf)
      PROVE  Sym.pos \in 0..Len(dict.buf) /\ Sym.pos > walk.pos
  BY <1>2, <1>5
<1>6. ASSUME Sym.pos \in 0..Len(dict.buf), Sym.pos > walk.pos
      PROVE  Operand.pos \in 0..Len(dict.buf) /\ Operand.pos > walk.pos /\ Operand.val \in Nat
  <2>1. Operand.pos \in Sym.pos..Len(dict.buf) /\ Operand.val \in Nat
    BY <1>2, <1>6, VarintInside DEF Operand
  <2> QED
    BY <1>2, <1>6, <2>1
<1> QED
  BY <1>1, <1>3, <1>4, <1>5, <1>6, Zenon

LEMMA TerminalWalks ==
    ASSUME WalkInv, WalkTerminal
    PROVE  WalkInv' /\ GoesForward
<1> DEFINE operand == IF Symbol = "END" THEN Ok(0, Sym.pos) ELSE Operand
           next == NextChild(operand.pos)
<1>1. Walking /\ Symbol # "none" /\ stage = "walk" /\ Len(walk.entries) < dict.num_keys
  <2>1. Walking /\ Symbol \in {"END", "END_VAL"}
    BY DEF WalkTerminal
  <2> QED
    BY <2>1 DEF Walking
<1>2. CASE operand.rc # "OK"
  <2>1. Ends(operand.rc)
    BY <1>2, Zenon DEF WalkTerminal
  <2> QED
    BY <2>1, EndsWalk
<1>3. CASE operand.rc = "OK"
  <2>1. operand.pos \in 0..Len(dict.buf) /\ operand.pos > walk.pos
    <3>1. Ok(0, Sym.pos).pos = Sym.pos
      BY OkIs
    <3> QED
      BY <1>1, <3>1, SymIs
  <2>2. WalkHas(dict, walk)
    BY <1>1, WalkIs
  <2>3. /\ next.pos \in operand.pos..Len(dict.buf)
        /\ IsList(next.key) /\ Len(next.key) \in 0..Len(walk.key)
        /\ Framed(next.stack, Len(next.key)) /\ Len(next.stack) \in 0..Len(walk.stack)
    BY <1>1, <2>1, NextInside
  <2>4. PICK e, stored : /\ e = EntryHere
                         /\ walk' = [ pos |-> next.pos, key |-> next.key, stack |-> next.stack,
                                      entries |-> IF stored THEN Append(walk.entries, e) ELSE walk.entries ]
    BY <1>3, Zenon DEF WalkTerminal
  <2>5. dict' = dict
    BY <1>3, Zenon DEF WalkTerminal
  <2>6. PICK collected : collected = IF stored THEN Append(walk.entries, e) ELSE walk.entries
    OBVIOUS
  <2>7. IsList(collected) /\ Len(collected) <= dict.num_keys
    <3>1. IsList(walk.entries) /\ dict.num_keys \in Nat
      BY <2>2 DEF WalkHas
    <3>2. /\ IsList(Append(walk.entries, e)) /\ Len(walk.entries) \in Nat
          /\ Len(Append(walk.entries, e)) = Len(walk.entries) + 1
      BY <3>1, ListLonger
    <3> QED
      BY <1>1, <2>6, <3>1, <3>2
  <2> HIDE DEF next, operand
  <2>8. PICK w : w = walk'
    OBVIOUS
  <2>9. /\ w.pos = next.pos /\ w.key = next.key /\ w.stack = next.stack /\ w.entries = collected
        /\ Recorded(w)
    <3>1. w = [pos |-> next.pos, key |-> next.key, stack |-> next.stack, entries |-> collected]
      BY <2>4, <2>6, <2>8
    <3> QED
      BY <3>1, FieldsAre
  <2>10. w.pos \in 0..Len(dict.buf) /\ w.pos > walk.pos
    <3>1. walk.pos \in Nat /\ Len(dict.buf) \in Nat
      BY <2>2 DEF WalkHas
    <3> QED
      BY <2>1, <2>3, <2>9, <3>1
  <2>11. Len(w.key) \in Nat /\ Len(w.key) < KeyCap /\ Len(w.stack) <= WalkDepth
    <3>1. /\ Len(walk.key) \in Nat /\ Len(walk.key) < KeyCap /\ Len(walk.stack) <= WalkDepth
          /\ Len(walk.stack) \in Nat /\ KeyCap \in Nat /\ WalkDepth \in Nat
      BY <2>2, FramedNumbers, WalkAssumption DEF WalkHas
    <3>2. Len(w.key) \in 0..Len(walk.key) /\ Len(w.stack) \in 0..Len(walk.stack)
      BY ONLY <2>3, <2>9
    <3>3. PICK a, b : a = Len(w.key) /\ b = Len(w.stack)
      OBVIOUS
    <3>4. PICK c, d \in Nat : c = Len(walk.key) /\ d = Len(walk.stack)
      BY <3>1
    <3>5. a \in 0..c /\ b \in 0..d /\ c < KeyCap /\ d <= WalkDepth /\ KeyCap \in Nat /\ WalkDepth \in Nat
      BY ONLY <3>1, <3>2, <3>3, <3>4
    <3>6. a \in Nat /\ a < KeyCap /\ b <= WalkDepth
      BY ONLY <3>5, c \in Nat, d \in Nat
    <3> QED
      BY ONLY <3>3, <3>6
  <2>12. WalkHas(dict, w)
    BY <2>2, <2>3, <2>7, <2>9, <2>10, <2>11 DEF WalkHas
  <2>13. WalkInv'
    BY <2>5, <2>8, <2>12, WalkGoes
  <2> QED
    BY <2>8, <2>10, <2>13 DEF GoesForward
<1> QED
  BY <1>2, <1>3

LEMMA BranchWalks ==
    ASSUME WalkInv, WalkBranch
    PROVE  WalkInv' /\ GoesForward
<1> DEFINE skip == IF Operand.val > 1 THEN ReadSkip(Operand.pos) ELSE Operand
           left == IF Operand.val > 1 THEN (Operand.val - 1) % CountLimit ELSE 0
           frame == [key_len |-> Len(walk.key), remaining |-> left]
<1>1. Walking /\ Symbol # "none" /\ stage = "walk"
  BY DEF WalkBranch, Walking
<1>2. WalkHas(dict, walk) /\ Operand.pos \in 0..Len(dict.buf) /\ Operand.pos > walk.pos /\ Operand.val \in Nat
  BY <1>1, SymIs
<1>3. CASE \E code : Ends(code)
  BY <1>3, EndsWalk
<1>4. CASE ~ \E code : Ends(code)
  <2>1. /\ ~(Len(walk.stack) >= WalkDepth)
        /\ walk' = [walk EXCEPT !.pos = skip.pos, !.stack = Append(@, frame)]
        /\ UNCHANGED <<stage, dict, refused, out>>
    BY <1>4, Zenon DEF WalkBranch
  <2>2. skip.pos \in 0..Len(dict.buf) /\ skip.pos > walk.pos
    <3>1. dict.buf \in Seq(Bit) /\ dict.sym.bps \in 1..8 /\ walk.pos \in 0..Len(dict.buf)
      BY <1>2 DEF WalkHas
    <3>2. ReadSkip(Operand.pos).pos \in Operand.pos..Len(dict.buf)
      BY <1>2, <3>1, SkipInside
    <3>3. ReadSkip(Operand.pos).pos \in 0..Len(dict.buf) /\ ReadSkip(Operand.pos).pos > walk.pos
      BY <1>2, <3>1, <3>2
    <3> QED
      BY <1>2, <3>3
  <2>3. left \in Nat
    <3>1. CountLimit \in Nat \ {0}
      BY WalkAssumption
    <3>2. PICK v \in Nat : v = Operand.val
      BY <1>2
    <3>3. v > 1 => v - 1 \in Nat /\ (v - 1) % CountLimit \in Nat
      BY <3>1
    <3> QED
      BY <3>2, <3>3
  <2> HIDE DEF skip, left
  <2>4. Len(walk.key) \in Nat /\ Framed(walk.stack, Len(walk.key)) /\ Len(walk.stack) <= WalkDepth
    BY <1>2 DEF WalkHas
  <2>5. /\ Framed(Append(walk.stack, frame), Len(walk.key)) /\ Len(walk.stack) \in Nat
        /\ Len(Append(walk.stack, frame)) = Len(walk.stack) + 1
    BY <2>3, <2>4, FramesPushed
  <2>6. Len(Append(walk.stack, frame)) <= WalkDepth
    BY <2>1, <2>4, <2>5, WalkAssumption
  <2> HIDE DEF frame
  <2>7. PICK w : w = walk'
    OBVIOUS
  <2>8. /\ w.pos = skip.pos /\ w.key = walk.key /\ w.stack = Append(walk.stack, frame)
        /\ w.entries = walk.entries /\ Recorded(w)
    <3>1. Recorded(walk)
      BY <1>2 DEF WalkHas
    <3>2. w = Branched(walk, skip.pos, Append(walk.stack, frame))
      BY <2>1, <2>7, Zenon DEF Branched
    <3>3. Fields(w, skip.pos, walk.key, Append(walk.stack, frame), walk.entries)
      BY <3>1, <3>2, FieldsSet
    <3> QED
      BY <3>3, FieldsAre DEF Fields
  <2>9. WalkHas(dict, w)
    BY <1>2, <2>2, <2>5, <2>6, <2>8 DEF WalkHas
  <2>10. WalkInv'
    BY <2>1, <2>7, <2>9, WalkGoes
  <2> QED
    BY <2>2, <2>7, <2>8, <2>10 DEF GoesForward
<1> QED
  BY <1>3, <1>4

LEMMA SkipWalks ==
    ASSUME WalkInv, WalkSkip
    PROVE  WalkInv' /\ GoesForward
<1>1. Walking /\ Symbol # "none" /\ stage = "walk"
  BY DEF WalkSkip, Walking
<1>2. WalkHas(dict, walk) /\ Operand.pos \in 0..Len(dict.buf) /\ Operand.pos > walk.pos
  BY <1>1, SymIs
<1>3. CASE Operand.rc # "OK"
  <2>1. Ends(Operand.rc)
    BY <1>3, Zenon DEF WalkSkip
  <2> QED
    BY <2>1, EndsWalk
<1>4. CASE Operand.rc = "OK"
  <2>1. walk' = Moved(walk, Operand.pos) /\ dict' = dict
    BY <1>4, Zenon DEF WalkSkip, Moved
  <2>2. PICK w : w = walk'
    OBVIOUS
  <2>3. /\ w.pos = Operand.pos /\ w.key = walk.key /\ w.stack = walk.stack
        /\ w.entries = walk.entries /\ Recorded(w)
    <3>1. Recorded(walk)
      BY <1>2 DEF WalkHas
    <3>2. Fields(w, Operand.pos, walk.key, walk.stack, walk.entries)
      BY <2>1, <2>2, <3>1, FieldsSet
    <3> QED
      BY <3>2, FieldsAre DEF Fields
  <2>4. WalkHas(dict, w)
    BY <1>2, <2>3 DEF WalkHas
  <2>5. WalkInv'
    BY <2>1, <2>2, <2>4, WalkGoes
  <2> QED
    BY <1>2, <2>2, <2>3, <2>5 DEF GoesForward
<1> QED
  BY <1>3, <1>4

LEMMA SymbolWalks ==
    ASSUME WalkInv, WalkSymbol
    PROVE  WalkInv' /\ GoesForward
<1>1. Walking /\ Symbol # "none" /\ stage = "walk"
  <2>1. Walking /\ Symbol \in {"byte", "other"}
    BY DEF WalkSymbol
  <2> QED
    BY <2>1 DEF Walking
<1>2. WalkHas(dict, walk) /\ Sym.pos \in 0..Len(dict.buf) /\ Sym.pos > walk.pos
  BY <1>1, SymIs
<1>3. PICK c : c = ByteOf(dict.sym, Sym.val)
  OBVIOUS
<1>4. PICK key : key = IF Symbol = "byte" /\ RoomForKey THEN Append(walk.key, c) ELSE walk.key
  OBVIOUS
<1>5. walk' = Spelled(walk, Sym.pos, key) /\ dict' = dict
  BY <1>3, <1>4, Zenon DEF WalkSymbol, Spelled
<1>6. IsList(walk.key) /\ Len(walk.key) \in Nat /\ Len(walk.key) < KeyCap /\ Framed(walk.stack, Len(walk.key))
  BY <1>2 DEF WalkHas
<1>7. IsList(key) /\ Len(key) \in Nat /\ Len(key) < KeyCap /\ Framed(walk.stack, Len(key))
  <2>1. CASE Symbol = "byte" /\ RoomForKey
    <3>1. IsList(key) /\ Len(key) = Len(walk.key) + 1
      BY <1>4, <1>6, <2>1, ListLonger
    <3>2. PICK n \in Nat : n = Len(walk.key)
      BY <1>6
    <3>3. n < KeyCap - 1 /\ KeyCap \in Nat
      BY <2>1, <3>2, WalkAssumption DEF RoomForKey
    <3>4. PICK m \in Nat : m = n + 1 /\ n <= m /\ m < KeyCap
      BY <3>3
    <3>5. Framed(walk.stack, m)
      BY <1>6, <3>2, <3>4, FramesKept
    <3> QED
      BY <3>1, <3>2, <3>4, <3>5
  <2>2. CASE ~(Symbol = "byte" /\ RoomForKey)
    BY <1>4, <1>6, <2>2
  <2> QED
    BY <2>1, <2>2
<1>8. PICK w : w = walk'
  OBVIOUS
<1>9. /\ w.pos = Sym.pos /\ w.key = key /\ w.stack = walk.stack
      /\ w.entries = walk.entries /\ Recorded(w)
  <2>1. Recorded(walk)
    BY <1>2 DEF WalkHas
  <2>2. Fields(w, Sym.pos, key, walk.stack, walk.entries)
    BY <1>5, <1>8, <2>1, FieldsSet
  <2> QED
    BY <2>2, FieldsAre DEF Fields
<1>10. WalkHas(dict, w)
  BY <1>2, <1>7, <1>9 DEF WalkHas
<1>11. WalkInv'
  BY <1>5, <1>8, <1>10, WalkGoes
<1> QED
  BY <1>2, <1>8, <1>9, <1>11 DEF GoesForward

LEMMA WalkKeeps == WalkInv /\ Walk => WalkInv' /\ GoesForward
<1> SUFFICES ASSUME WalkInv, Walk PROVE WalkInv' /\ GoesForward
  OBVIOUS
<1>1. CASE WalkTerminal
  BY <1>1, TerminalWalks
<1>2. CASE WalkBranch
  BY <1>2, BranchWalks
<1>3. CASE WalkSkip
  BY <1>3, SkipWalks
<1>4. CASE WalkSymbol
  BY <1>4, SymbolWalks
<1>5. CASE WalkFails
  <2>1. Ends(Sym.rc)
    BY <1>5 DEF WalkFails
  <2> QED
    BY <2>1, EndsWalk
<1>6. CASE WalkComplete
  <2>1. stage' # "walk"
    BY <1>6 DEF WalkComplete
  <2> QED
    BY <2>1 DEF WalkInv, GoesForward
<1> QED
  BY <1>1, <1>2, <1>3, <1>4, <1>5, <1>6 DEF Walk

LEMMA NextWalk == WalkInv /\ [(\E buf \in Seq(Bit) : DecodeOpen(buf)) \/ Walk]_decodeVars => WalkInv'
BY WalkBegins, WalkKeeps, StillWalk

THEOREM WalkTyped == WalkSpec => []WalkInv
BY InitWalk, NextWalk, PTL DEF WalkSpec

\* tp_json_decode walks any buffer of bits without leaving it: its reader stays inside,
\* it opens no more frames than the stack has and collects no more entries than there are
\* keys, and every open branch keeps a prefix of a key that fits the key buffer.
THEOREM WalkStaysInside == WalkSpec => []WalkInside
<1>1. WalkInv => WalkInside
  <2> SUFFICES ASSUME WalkInv, stage = "walk" PROVE WalkInside
    BY DEF WalkInside
  <2>1. walk.pos \in 0..Len(dict.buf) /\ Framed(walk.stack, Len(walk.key))
    BY DEF WalkInv
  <2>2. walk.pos <= Len(dict.buf)
    BY <2>1
  <2>3. \A i \in DOMAIN walk.stack : walk.stack[i].key_len <= Len(walk.key)
    <3>1. walk.stack \in Seq(OpenBranch)
      BY <2>1 DEF Framed
    <3>2. DOMAIN walk.stack = 1..Len(walk.stack)
      BY <3>1
    <3> QED
      BY <2>1, <3>2, Zenon DEF Framed
  <2> QED
    BY <2>2, <2>3 DEF WalkInv, WalkInside
<1> QED
  BY <1>1, WalkTyped, PTL

\* The loop of extract_entries cannot stay where it is: every turn of it that does not
\* end it moves the reader on, in a buffer that it does not leave.
THEOREM WalkGoesOn == WalkSpec => [][Walk => GoesForward]_decodeVars
<1>1. WalkInv /\ [(\E buf \in Seq(Bit) : DecodeOpen(buf)) \/ Walk]_decodeVars => [Walk => GoesForward]_decodeVars
  BY WalkKeeps
<1> QED
  BY <1>1, WalkTyped, PTL DEF WalkSpec
=============================================================================
