--------------------------- MODULE EncoderProofs ---------------------------
(***************************************************************************)
(* Proofs about Encoder, for every set of keys, values and addresses and   *)
(* every first capacity.  The invariant is proved in layers: types and     *)
(* the shape of entries, then who owns which block, then the order.  On    *)
(* top of them stands the refinement: the live entries of the array are    *)
(* the map of MapBuilder, in every state.                                  *)
(***************************************************************************)
EXTENDS Encoder, Induction, TLAPS

\* The first layer of the invariant.
Shape == TypeOK /\ Protocol /\ EntriesWhole

\* A fresh model has no encoder: the shape holds.
LEMMA ShapeInit == Init => Shape
<1> SUFFICES ASSUME Init PROVE Shape
  OBVIOUS
<1>1. arr \in [1..cap -> Slot \cup {Garbage}] /\ cap \in Nat /\ count \in 0..cap
  BY DEF Init, NoSlots
<1>2. DOMAIN added = {}
  BY DEF Init, NothingAdded
<1>3. TypeOK
  BY <1>1, <1>2 DEF Init, TypeOK, NoWriter
<1>4. Protocol
  BY DEF Init, Protocol
<1>5. EntriesWhole
  BY DEF Init, EntriesWhole, LiveSlots
<1> QED
  BY <1>3, <1>4, <1>5 DEF Shape

\* Every step, refused allocations included, keeps types, the protocol between
\* encoder, array and writer, and the completeness of the entries that count.
LEMMA ShapeNext == Shape /\ [Next]_vars => Shape'
<1> SUFFICES ASSUME Shape, [Next]_vars PROVE Shape'
  OBVIOUS
<1> USE KeyAssumption, ValAssumption, BlockAssumption, CapAssumption
<1> USE DEF Shape, TypeOK, Protocol, EntriesWhole, LiveSlots, entryVars, buildVars
<1>1. ASSUME NEW b \in Fresh, Create(b) PROVE Shape'
  BY <1>1 DEF Create, Fresh, NoSlots, NothingAdded
<1>2. ASSUME NEW b \in Fresh, WriterGrows(b) PROVE Shape'
  BY <1>2 DEF WriterGrows, Fresh
<1>3. ASSUME NEW k \in Key, NEW v \in Val, NEW b \in Block, NEW kb \in Block,
             NEW vb \in Block \cup {NoBlock}, Add(k, v, b, kb, vb)
      PROVE Shape'
  <2>1. cap' \in Nat /\ count + 1 <= cap' /\ cap <= cap' /\ cap' # 0
    BY <1>3 DEF Add, Reserve, NewCap
  <2>2. [key |-> k, val |-> v, keyBlock |-> kb, valBlock |-> vb] \in Slot
    BY DEF Slot, Pointer
  <2>3. arr' \in [1..cap' -> Slot \cup {Garbage}]
    BY <1>3, <2>1, <2>2 DEF Add, SlotsWith
  <2>4. \A n \in 1..count : arr'[n] = arr[n]
    BY <1>3, <2>1 DEF Add, SlotsWith
  <2>5. arr'[count + 1] = [key |-> k, val |-> v, keyBlock |-> kb, valBlock |-> vb]
    BY <1>3, <2>1 DEF Add, SlotsWith
  <2>6. EntriesWhole'
    <3>1. Whole(arr'[count + 1])
      BY <1>3, <2>2, <2>5 DEF Add, Whole
    <3> QED
      BY <1>3, <2>4, <3>1 DEF Add, Ready
  <2>7. arrBlock' = b /\ arrBlock' # NoBlock
    BY <1>3 DEF Add, Reserve
  <2>8. heap' \subseteq Block
    BY <1>3 DEF Add, HeapWith
  <2>9. DOMAIN added' \subseteq Key /\ \A x \in DOMAIN added' : added'[x] \in Val
    BY <1>3 DEF Add
  <2>10. Protocol'
    BY <1>3, <2>1, <2>7 DEF Add, Ready
  <2> QED
    BY <1>3, <2>1, <2>3, <2>6, <2>7, <2>8, <2>9, <2>10 DEF Add
<1>4. ASSUME NEW k \in Key, NEW v \in Val, NEW b \in Block, NEW kb \in Block,
             AddValueFails(k, v, b, kb)
      PROVE Shape'
  <2>1. cap' \in Nat /\ count + 1 <= cap' /\ cap <= cap' /\ cap' # 0
    BY <1>4 DEF AddValueFails, Reserve, NewCap
  <2>2. [key |-> k, val |-> v, keyBlock |-> kb, valBlock |-> Foreign] \in Slot
    BY DEF Slot, Pointer
  <2>3. arr' \in [1..cap' -> Slot \cup {Garbage}]
    BY <1>4, <2>1, <2>2 DEF AddValueFails, SlotsWith
  <2>4. \A n \in 1..count : arr'[n] = arr[n]
    BY <1>4, <2>1 DEF AddValueFails, SlotsWith
  <2>5. arrBlock' = b /\ arrBlock' # NoBlock
    BY <1>4 DEF AddValueFails, Reserve
  <2>6. heap' \subseteq Block
    BY <1>4 DEF AddValueFails, HeapWith
  <2>7. Protocol' /\ EntriesWhole'
    BY <1>4, <2>1, <2>4, <2>5 DEF AddValueFails, Ready
  <2> QED
    BY <1>4, <2>1, <2>3, <2>5, <2>6, <2>7 DEF AddValueFails, Ready
<1>5. ASSUME NEW b \in Block, AddKeyFails(b) PROVE Shape'
  <2>1. cap' \in Nat /\ count + 1 <= cap' /\ cap <= cap' /\ cap' # 0
    BY <1>5 DEF AddKeyFails, Reserve, NewCap
  <2>2. arr' \in [1..cap' -> Slot \cup {Garbage}] /\ \A n \in 1..count : arr'[n] = arr[n]
    BY <1>5, <2>1 DEF AddKeyFails, SlotsWith
  <2>3. arrBlock' = b /\ arrBlock' # NoBlock /\ heap' \subseteq Block
    BY <1>5 DEF AddKeyFails, Reserve, HeapWith
  <2> QED
    BY <1>5, <2>1, <2>2, <2>3 DEF AddKeyFails, Ready
<1>6. CASE BuildSort
  <2>1. PICK p \in [1..count -> 1..count] :
            arr' = [n \in DOMAIN arr |-> IF n \in 1..count THEN arr[p[n]] ELSE arr[n]]
    BY <1>6 DEF BuildSort
  <2>2. arr' \in [1..cap -> Slot \cup {Garbage}] /\ \A n \in 1..count : arr'[n] = arr[p[n]]
    BY <2>1
  <2>3. \A n \in 1..count : p[n] \in LiveSlots
    BY <1>6 DEF BuildSort, Ready
  <2>4. \A n \in LiveSlots' : n \in 1..count
    BY <1>6 DEF BuildSort
  <2>5. EntriesWhole'
    BY <2>2, <2>3, <2>4
  <2> QED
    BY <1>6, <2>2, <2>5 DEF BuildSort, Ready
<1>7. CASE DedupDrop
  <2>1. i \in LiveSlots /\ i \in 1..cap /\ arr[i] \in Slot
    BY <1>7 DEF DedupDrop, Whole
  <2>2. Released(arr[i]) \in Slot
    BY <2>1 DEF Slot, Pointer, Released
  <2>3. arr' \in [1..cap -> Slot \cup {Garbage}]
    BY <1>7, <2>1, <2>2 DEF DedupDrop
  <2>4. LiveSlots' = LiveSlots \ {i} /\ \A n \in LiveSlots' : arr'[n] = arr[n]
    BY <1>7, <2>1 DEF DedupDrop
  <2> QED
    BY <1>7, <2>3, <2>4 DEF DedupDrop, Free
<1>8. CASE DedupKeep
  <2>1. i \in LiveSlots /\ i \in 1..cap /\ arr[i] \in Slot /\ write + 1 \in 1..i
    BY <1>8 DEF DedupKeep, Whole
  <2>2. arr' \in [1..cap -> Slot \cup {Garbage}]
    BY <1>8, <2>1 DEF DedupKeep
  <2>3. LiveSlots' = 1..write + 1 \cup i + 1..count
    BY <1>8 DEF DedupKeep
  <2>4. \A n \in LiveSlots' : \E m \in LiveSlots : arr'[n] = arr[m]
    BY <1>8, <2>1, <2>3 DEF DedupKeep
  <2>5. EntriesWhole'
    BY <2>4
  <2> QED
    BY <1>8, <2>1, <2>2, <2>5 DEF DedupKeep
<1>9. CASE DedupEnd
  BY <1>9 DEF DedupEnd
<1>10. CASE BuildRefused
  BY <1>10 DEF BuildRefused
<1>11. ASSUME NEW w \in Fresh, NEW b \in Fresh, OpenWriter(w, b) PROVE Shape'
  BY <1>11 DEF OpenWriter, Fresh
<1>12. CASE WriteFails
  BY <1>12 DEF WriteFails, Free, NoWriter
<1>13. CASE BuildDone
  BY <1>13 DEF BuildDone, Free, NoWriter
<1>18. CASE DetachFails
  BY <1>18 DEF DetachFails, Free, NoWriter
<1>14. CASE Reset
  BY <1>14 DEF Reset, Ready, Free, NoSlots, NothingAdded
<1>15. CASE Destroy
  BY <1>15 DEF Destroy, Ready, Free, NoSlots, NothingAdded
<1>16. ASSUME NEW b \in user, UserFree(b) PROVE Shape'
  BY <1>16 DEF UserFree, Free
<1>17. CASE UNCHANGED vars
  BY <1>17 DEF vars
<1> QED
  BY <1>1, <1>2, <1>3, <1>4, <1>5, <1>6, <1>7, <1>8, <1>9, <1>10, <1>11, <1>12, <1>13,
     <1>14, <1>15, <1>16, <1>17, <1>18 DEF Next

-----------------------------------------------------------------------------
(***************************************************************************)
(* Ownership.                                                              *)
(***************************************************************************)
\* The second layer.
Own == Shape /\ SingleOwner /\ HeapExact /\ NoBadFree

\* An entry owns blocks only.
LEMMA OwnedBlocks == \A s : Whole(s) => Owned(s) \subseteq Block
  BY BlockAssumption, ValAssumption DEF Whole, Owned

\* With nothing allocated nothing is owned.
LEMMA OwnInit == Init => Own
  BY ShapeInit DEF Init, Own, SingleOwner, EntriesApart, EntriesOffBase, BaseDistinct, HeapExact, NoBadFree, Reachable,
                   BaseBlocks, LiveSlots, NoWriter

\* Every step keeps one owner for each block and frees only what it owns.
LEMMA OwnNext == Own /\ [Next]_vars => Own'
<1> SUFFICES ASSUME Own, [Next]_vars PROVE Own'
  OBVIOUS
<1>0. Shape'
  BY ShapeNext DEF Own
<1> USE BlockAssumption
<1> USE DEF Own, Shape, TypeOK, Protocol, SingleOwner, entryVars, buildVars, NoBadFree
<1>e. \A n \in LiveSlots : Owned(arr[n]) \subseteq Block
  BY OwnedBlocks DEF EntriesWhole
<1>h. \A x : x \in heap <=> x \in BaseBlocks \/ \E n \in LiveSlots : x \in Owned(arr[n])
  BY <1>e DEF HeapExact, Reachable, BaseBlocks
<1>1. ASSUME NEW b \in Fresh, Create(b) PROVE Own'
  <2>1. LiveSlots = {} /\ LiveSlots' = {}
    BY <1>1 DEF Create, LiveSlots
  <2>2. BaseBlocks' = BaseBlocks \cup {b} /\ b \notin BaseBlocks /\ b # NoBlock
    BY <1>1, <1>h DEF Create, BaseBlocks, Fresh
  <2>3. SingleOwner'
    <3>1. BaseDistinct'
      BY <1>1, <2>2 DEF Create, BaseDistinct, BaseBlocks
    <3> QED
      BY <2>1, <3>1 DEF EntriesApart, EntriesOffBase
  <2>4. HeapExact'
    BY <1>1, <1>h, <2>1, <2>2 DEF Create, HeapExact, Reachable, Fresh
  <2> QED
    BY <1>0, <1>1, <2>3, <2>4 DEF Create
<1>2. ASSUME NEW b \in Fresh, WriterGrows(b) PROVE Own'
  <2>1. LiveSlots' = LiveSlots /\ arr' = arr
    BY <1>2 DEF WriterGrows, LiveSlots
  <2>2. b \notin BaseBlocks /\ b # NoBlock /\ \A n \in LiveSlots : b \notin Owned(arr[n])
    BY <1>h DEF Fresh
  <2>3. BaseBlocks' = (BaseBlocks \ {writer.buf}) \cup {b}
    BY <1>2, <2>2 DEF WriterGrows, BaseBlocks, BaseDistinct
  <2>4. \A n \in LiveSlots : writer.buf \notin Owned(arr[n])
    BY <1>2 DEF WriterGrows, BaseBlocks, EntriesOffBase
  <2>5. SingleOwner'
    <3>1. BaseDistinct'
      BY <1>2, <2>2 DEF WriterGrows, BaseDistinct, BaseBlocks
    <3>2. EntriesApart'
      BY <2>1 DEF EntriesApart
    <3>3. EntriesOffBase'
      BY <2>1, <2>2, <2>3 DEF EntriesOffBase
    <3> QED
      BY <3>1, <3>2, <3>3
  <2>6. HeapExact'
    BY <1>2, <1>h, <1>e, <2>1, <2>2, <2>3, <2>4 DEF WriterGrows, HeapExact, Reachable, Fresh
  <2> QED
    BY <1>0, <1>2, <2>5, <2>6 DEF WriterGrows
<1>g. ASSUME NEW b \in Block, Ready, Reserve(b), UNCHANGED <<enc, buildVars>>
      PROVE  /\ BaseBlocks' = (BaseBlocks \ {arrBlock}) \cup {b}
             /\ BaseDistinct'
             /\ b # NoBlock
             /\ b = arrBlock \/ b \notin BaseBlocks
             /\ \A n \in LiveSlots : b \notin Owned(arr[n]) /\ arrBlock \notin Owned(arr[n])
             /\ LiveSlots = 1..count /\ cap' \in Nat /\ count + 1 <= cap' /\ cap <= cap'
             /\ \A x : x \in HeapWith(b) <=>
                    x \in BaseBlocks' \/ \E n \in LiveSlots : x \in Owned(arr[n])
  <2>1. LiveSlots = 1..count /\ b # NoBlock
    BY <1>g DEF Ready, LiveSlots
  <2>2. b = arrBlock \/ b \notin heap
    BY <1>g DEF Reserve
  <2>3. \A n \in LiveSlots : arrBlock \notin Owned(arr[n])
    BY <1>e DEF EntriesOffBase, BaseBlocks
  <2>4. \A n \in LiveSlots : b \notin Owned(arr[n])
    BY <1>h, <2>2, <2>3
  <2>5. b = arrBlock \/ b \notin BaseBlocks
    BY <1>h, <2>2
  <2>6. arrBlock' = b
    BY <1>g DEF Reserve
  <2>7. BaseBlocks' = (BaseBlocks \ {arrBlock}) \cup {b}
    BY <1>g, <2>1, <2>5, <2>6 DEF BaseBlocks, BaseDistinct
  <2>8. BaseDistinct'
    BY <1>g, <2>1, <2>5, <2>6 DEF BaseBlocks, BaseDistinct
  <2>9. cap' \in Nat /\ count + 1 <= cap' /\ cap <= cap'
    BY <1>g, CapAssumption DEF Reserve, NewCap
  <2>10. \A x : x \in HeapWith(b) <=>
             x \in BaseBlocks' \/ \E n \in LiveSlots : x \in Owned(arr[n])
    BY <1>h, <2>3, <2>7 DEF HeapWith
  <2> QED
    BY <2>1, <2>3, <2>4, <2>5, <2>7, <2>8, <2>9, <2>10
<1>3. ASSUME NEW k \in Key, NEW v \in Val, NEW b \in Block, NEW kb \in Block,
             NEW vb \in Block \cup {NoBlock}, Add(k, v, b, kb, vb)
      PROVE Own'
  <2> DEFINE s == [key |-> k, val |-> v, keyBlock |-> kb, valBlock |-> vb]
  <2>1. /\ Ready /\ Reserve(b) /\ UNCHANGED <<enc, buildVars>> /\ count' = count + 1
        /\ kb \notin HeapWith(b) /\ (vb # NoBlock => vb \notin HeapWith(b)) /\ bad' = bad
        /\ heap' = HeapWith(b) \cup {kb} \cup ({vb} \ {NoBlock})
    BY <1>3 DEF Add
  <2>2. BaseBlocks' = (BaseBlocks \ {arrBlock}) \cup {b} /\ LiveSlots = 1..count
    BY <1>g, <2>1
  <2>3. LiveSlots' = 1..count + 1
    BY <2>1 DEF LiveSlots, Ready
  <2>4. \A n \in LiveSlots : arr'[n] = arr[n]
    BY <1>3, <1>g, <2>1, <2>2 DEF Add, SlotsWith
  <2>5. arr'[count + 1] = s
    BY <1>3, <1>g, <2>1, <2>2 DEF Add, SlotsWith
  <2>6. Owned(s) = {kb} \cup ({vb} \ {NoBlock})
    BY DEF Owned
  <2> HIDE DEF s
  <2>7. \A x \in Owned(s) : x \notin HeapWith(b)
    BY <2>1, <2>6
  <2>8. \A x \in Owned(s) : x \notin BaseBlocks' /\ \A n \in LiveSlots : x \notin Owned(arr[n])
    BY <1>g, <2>1, <2>7
  <2>9. \A n \in LiveSlots' : n \in LiveSlots \/ n = count + 1
    BY <2>2, <2>3
  <2>10. \A n \in LiveSlots : Owned(arr[n]) \cap BaseBlocks' = {}
    BY <1>g, <2>1, <2>2 DEF EntriesOffBase
  <2>11. EntriesApart'
    BY <2>4, <2>5, <2>8, <2>9 DEF EntriesApart
  <2>12. EntriesOffBase'
    BY <2>4, <2>5, <2>8, <2>9, <2>10 DEF EntriesOffBase
  <2>13. \A x : x \in heap' <=> x \in BaseBlocks' \/ \E n \in LiveSlots' : x \in Owned(arr'[n])
    <3>1. \A x : (\E n \in LiveSlots' : x \in Owned(arr'[n])) <=>
                    x \in Owned(s) \/ \E n \in LiveSlots : x \in Owned(arr[n])
      BY <2>2, <2>3, <2>4, <2>5, <2>9
    <3> QED
      BY <1>g, <2>1, <2>6, <3>1
  <2>14. HeapExact'
    BY <1>0, <2>13 DEF HeapExact, Reachable
  <2> QED
    BY <1>0, <1>g, <2>1, <2>11, <2>12, <2>14
\* An addition that fails: at most the array has moved.
<1>f. ASSUME NEW b \in Block, Ready, Reserve(b), UNCHANGED <<enc, count, buildVars, bad>>,
             heap' = HeapWith(b), \A n \in 1..count : arr'[n] = arr[n]
      PROVE Own'
  <2>1. LiveSlots' = LiveSlots /\ LiveSlots = 1..count
    BY <1>f DEF LiveSlots, Ready
  <2>2. EntriesApart'
    BY <1>f, <2>1 DEF EntriesApart
  <2>3. EntriesOffBase'
    BY <1>f, <1>g, <2>1 DEF EntriesOffBase
  <2>4. \A x : x \in heap' <=> x \in BaseBlocks' \/ \E n \in LiveSlots' : x \in Owned(arr'[n])
    BY <1>f, <1>g, <2>1
  <2>5. HeapExact'
    BY <1>0, <2>4 DEF HeapExact, Reachable
  <2> QED
    BY <1>0, <1>f, <1>g, <2>2, <2>3, <2>5
<1>4. ASSUME NEW k \in Key, NEW v \in Val, NEW b \in Block, NEW kb \in Block,
             AddValueFails(k, v, b, kb)
      PROVE Own'
  <2>1. Ready /\ Reserve(b) /\ UNCHANGED <<enc, count, buildVars, bad>> /\ heap' = HeapWith(b)
    BY <1>4 DEF AddValueFails
  <2>2. \A n \in 1..count : arr'[n] = arr[n]
    BY <1>4, <1>g, <2>1 DEF AddValueFails, SlotsWith
  <2> QED
    BY <1>f, <2>1, <2>2
<1>5. ASSUME NEW b \in Block, AddKeyFails(b) PROVE Own'
  <2>1. Ready /\ Reserve(b) /\ UNCHANGED <<enc, count, buildVars, bad>> /\ heap' = HeapWith(b)
    BY <1>5 DEF AddKeyFails
  <2>2. \A n \in 1..count : arr'[n] = arr[n]
    BY <1>5, <1>g, <2>1 DEF AddKeyFails, SlotsWith
  <2> QED
    BY <1>f, <2>1, <2>2
\* A step that only moves entries, none of them lost or doubled.
<1>r. ASSUME NEW f,
             \A n \in LiveSlots' : f[n] \in LiveSlots /\ arr'[n] = arr[f[n]],
             \A m, n \in LiveSlots' : f[m] = f[n] => m = n,
             \A m \in LiveSlots : \E n \in LiveSlots' : f[n] = m,
             UNCHANGED <<enc, arrBlock, writer, user, heap, bad>>
      PROVE Own'
  <2>1. BaseBlocks' = BaseBlocks /\ BaseDistinct'
    BY <1>r DEF BaseBlocks, BaseDistinct
  <2>2. EntriesApart'
    <3> SUFFICES ASSUME NEW m \in LiveSlots', NEW n \in LiveSlots', m # n
                 PROVE  Owned(arr'[m]) \cap Owned(arr'[n]) = {}
      BY DEF EntriesApart
    <3>1. f[m] \in LiveSlots /\ f[n] \in LiveSlots /\ f[m] # f[n]
      BY <1>r
    <3>2. arr'[m] = arr[f[m]] /\ arr'[n] = arr[f[n]]
      BY <1>r
    <3>3. Owned(arr[f[m]]) \cap Owned(arr[f[n]]) = {}
      BY <3>1 DEF EntriesApart
    <3> QED
      BY <3>2, <3>3
  <2>3. EntriesOffBase'
    BY <1>r, <2>1 DEF EntriesOffBase
  <2>4. \A x : (\E n \in LiveSlots' : x \in Owned(arr'[n])) <=> \E n \in LiveSlots : x \in Owned(arr[n])
    BY <1>r
  <2>5. HeapExact'
    BY <1>r, <2>1, <2>4 DEF HeapExact, Reachable
  <2> QED
    BY <1>0, <1>r, <2>1, <2>2, <2>3, <2>5
<1>6. CASE BuildSort
  <2>1. PICK p \in [1..count -> 1..count] :
            /\ Sorts(p)
            /\ arr' = [n \in DOMAIN arr |-> IF n \in 1..count THEN arr[p[n]] ELSE arr[n]]
    BY <1>6 DEF BuildSort
  <2>2. LiveSlots = 1..count /\ LiveSlots' = 1..count
    BY <1>6 DEF BuildSort, Ready, LiveSlots
  <2>3. \A n \in LiveSlots' : p[n] \in LiveSlots /\ arr'[n] = arr[p[n]]
    BY <2>1, <2>2
  <2>4. /\ \A m, n \in LiveSlots' : p[m] = p[n] => m = n
        /\ \A m \in LiveSlots : \E n \in LiveSlots' : p[n] = m
    BY <2>1, <2>2 DEF Sorts
  <2>5. UNCHANGED <<enc, arrBlock, writer, user, heap, bad>>
    BY <1>6 DEF BuildSort
  <2> QED
    BY ONLY <1>r, <2>3, <2>4, <2>5
<1>7. CASE DedupDrop
  <2>1. i \in LiveSlots /\ LiveSlots' = LiveSlots \ {i} /\ \A n \in LiveSlots' : arr'[n] = arr[n]
    BY <1>7 DEF DedupDrop, LiveSlots
  <2>2. BaseBlocks' = BaseBlocks /\ BaseDistinct'
    BY <1>7 DEF DedupDrop, BaseBlocks, BaseDistinct
  <2>3. Owned(arr[i]) \subseteq heap
    BY <1>h, <2>1
  <2>4. heap' = heap \ Owned(arr[i]) /\ ~bad'
    BY <1>7, <2>3 DEF DedupDrop, Free
  <2>5. EntriesApart'
    BY <2>1 DEF EntriesApart
  <2>6. EntriesOffBase'
    BY <2>1, <2>2 DEF EntriesOffBase
  <2>7. \A x : x \in heap' <=> x \in BaseBlocks' \/ \E n \in LiveSlots' : x \in Owned(arr'[n])
    <3>1. \A n \in LiveSlots' : Owned(arr'[n]) \cap Owned(arr[i]) = {}
      BY <2>1 DEF EntriesApart
    <3>2. BaseBlocks \cap Owned(arr[i]) = {}
      BY <2>1 DEF EntriesOffBase
    <3>3. \A x : (\E n \in LiveSlots : x \in Owned(arr[n])) <=>
                    x \in Owned(arr[i]) \/ \E n \in LiveSlots' : x \in Owned(arr'[n])
      BY <2>1
    <3> QED
      BY <1>h, <2>2, <2>4, <3>1, <3>2, <3>3
  <2>8. HeapExact'
    BY <1>0, <2>7 DEF HeapExact, Reachable
  <2> QED
    BY <1>0, <2>2, <2>4, <2>5, <2>6, <2>8
<1>8. CASE DedupKeep
  <2> DEFINE f == [n \in LiveSlots' |-> IF n = write + 1 THEN i ELSE n]
  <2>1. write + 1 \in 1..i /\ i \in 1..count /\ i \in LiveSlots
    BY <1>8 DEF DedupKeep, LiveSlots
  <2>2. LiveSlots = 1..write \cup i..count /\ LiveSlots' = 1..write + 1 \cup i + 1..count
    BY <1>8 DEF DedupKeep, LiveSlots
  <2>3. \A n \in LiveSlots' : f[n] \in LiveSlots /\ arr'[n] = arr[f[n]]
    BY <1>8, <2>1, <2>2 DEF DedupKeep
  <2>4. \A m, n \in LiveSlots' : f[m] = f[n] => m = n
    BY <2>1, <2>2
  <2>5. ASSUME NEW m \in LiveSlots PROVE \E n \in LiveSlots' : f[n] = m
    <3>1. CASE m = i
      BY <2>1, <2>2, <3>1
    <3>2. CASE m # i
      <4>1. m \in LiveSlots' /\ m # write + 1
        BY <2>1, <2>2, <3>2
      <4> QED
        BY <4>1
    <3> QED
      BY <3>1, <3>2
  <2> HIDE DEF f
  <2> QED
    BY <1>8, <1>r, <2>3, <2>4, <2>5 DEF DedupKeep
\* A step that leaves the entries where they are.
<1>s. ASSUME LiveSlots' = LiveSlots, UNCHANGED <<enc, arrBlock, arr, writer, user, heap, bad>>
      PROVE Own'
  <2> DEFINE f == [n \in LiveSlots |-> n]
  <2>1. \A n \in LiveSlots : f[n] = n
    OBVIOUS
  <2> HIDE DEF f
  <2> QED
    BY <1>r, <1>s, <2>1
<1>9. CASE DedupEnd
  <2>1. LiveSlots' = LiveSlots
    BY <1>9 DEF DedupEnd, LiveSlots
  <2> QED
    BY <1>9, <1>s, <2>1 DEF DedupEnd
<1>10. CASE BuildRefused
  <2>1. LiveSlots' = LiveSlots
    BY <1>10 DEF BuildRefused, LiveSlots
  <2> QED
    BY <1>10, <1>s, <2>1 DEF BuildRefused
<1>17. CASE UNCHANGED vars
  <2>1. LiveSlots' = LiveSlots
    BY <1>17 DEF vars, LiveSlots
  <2> QED
    BY <1>17, <1>s, <2>1 DEF vars
<1>11. ASSUME NEW w \in Fresh, NEW b \in Fresh, OpenWriter(w, b) PROVE Own'
  <2>1. LiveSlots' = LiveSlots /\ arr' = arr
    BY <1>11 DEF OpenWriter, LiveSlots
  <2>2. /\ w \notin BaseBlocks /\ b \notin BaseBlocks /\ w # NoBlock /\ b # NoBlock
        /\ \A n \in LiveSlots : w \notin Owned(arr[n]) /\ b \notin Owned(arr[n])
    BY <1>h DEF Fresh
  <2>3. BaseBlocks' = BaseBlocks \cup {w, b}
    BY <1>11, <2>2 DEF OpenWriter, BaseBlocks, NoWriter
  <2>4. BaseDistinct'
    BY <1>11, <2>2 DEF OpenWriter, BaseDistinct, BaseBlocks
  <2>5. EntriesApart'
    BY <2>1 DEF EntriesApart
  <2>6. EntriesOffBase'
    BY <2>1, <2>2, <2>3 DEF EntriesOffBase
  <2>7. HeapExact'
    BY <1>11, <1>h, <1>e, <2>1, <2>2, <2>3 DEF OpenWriter, HeapExact, Reachable, Fresh
  <2> QED
    BY <1>0, <1>11, <2>4, <2>5, <2>6, <2>7 DEF OpenWriter
\* A step that frees blocks of the writer or of the caller and touches no entry.
<1>d. ASSUME NEW ps, Free(ps), ps \subseteq BaseBlocks, BaseBlocks' = BaseBlocks \ ps, BaseDistinct',
             LiveSlots' = LiveSlots, arr' = arr
      PROVE Own'
  <2>1. heap' = heap \ ps /\ ~bad'
    BY <1>d, <1>h DEF Free
  <2>2. \A n \in LiveSlots : Owned(arr[n]) \cap ps = {}
    BY <1>d DEF EntriesOffBase
  <2>3. EntriesApart'
    BY <1>d DEF EntriesApart
  <2>4. EntriesOffBase'
    BY <1>d DEF EntriesOffBase
  <2>5. \A x : x \in heap' <=> x \in BaseBlocks' \/ \E n \in LiveSlots' : x \in Owned(arr'[n])
    BY <1>d, <1>h, <2>1, <2>2
  <2>6. HeapExact'
    BY <1>0, <2>5 DEF HeapExact, Reachable
  <2> QED
    BY <1>0, <1>d, <2>1, <2>3, <2>4, <2>6
<1>12. CASE WriteFails
  <2> DEFINE ps == {writer.self, writer.buf}
  <2>1. Free(ps) /\ LiveSlots' = LiveSlots /\ arr' = arr
    BY <1>12 DEF WriteFails, LiveSlots
  <2>2. ps \subseteq BaseBlocks /\ BaseBlocks' = BaseBlocks \ ps
    BY <1>12 DEF WriteFails, BaseBlocks, BaseDistinct, NoWriter
  <2>3. BaseDistinct'
    BY <1>12 DEF WriteFails, BaseDistinct, NoWriter
  <2> HIDE DEF ps
  <2> QED
    BY <1>d, <2>1, <2>2, <2>3
<1>13. CASE BuildDone
  <2> DEFINE ps == {writer.self}
  <2>1. Free(ps) /\ LiveSlots' = LiveSlots /\ arr' = arr
    BY <1>13 DEF BuildDone, LiveSlots
  <2>2. ps \subseteq BaseBlocks /\ BaseBlocks' = BaseBlocks \ ps
    BY <1>13 DEF BuildDone, BaseBlocks, BaseDistinct, NoWriter
  <2>3. BaseDistinct'
    BY <1>13 DEF BuildDone, BaseDistinct, NoWriter
  <2> HIDE DEF ps
  <2> QED
    BY <1>d, <2>1, <2>2, <2>3
<1>18. CASE DetachFails
  <2> DEFINE ps == {writer.self}
  <2>1. Free(ps) /\ LiveSlots' = LiveSlots /\ arr' = arr
    BY <1>18 DEF DetachFails, LiveSlots
  <2>2. ps \subseteq BaseBlocks /\ BaseBlocks' = BaseBlocks \ ps
    BY <1>18 DEF DetachFails, BaseBlocks, BaseDistinct, NoWriter
  <2>3. BaseDistinct'
    BY <1>18 DEF DetachFails, BaseDistinct, NoWriter
  <2> HIDE DEF ps
  <2> QED
    BY <1>d, <2>1, <2>2, <2>3
<1>16. ASSUME NEW b \in user, UserFree(b) PROVE Own'
  <2> DEFINE ps == {b}
  <2>1. Free(ps) /\ LiveSlots' = LiveSlots /\ arr' = arr
    BY <1>16 DEF UserFree, LiveSlots
  <2>2. ps \subseteq BaseBlocks /\ BaseBlocks' = BaseBlocks \ ps
    BY <1>16 DEF UserFree, BaseBlocks, BaseDistinct
  <2>3. BaseDistinct'
    BY <1>16 DEF UserFree, BaseDistinct
  <2> HIDE DEF ps
  <2> QED
    BY <1>d, <2>1, <2>2, <2>3
\* A step that frees all entries and the array, and blocks ps besides.
<1>a. ASSUME NEW ps, Ready, Free(EntryBlocks \cup ps), ps \subseteq BaseBlocks, count' = 0, pc' = pc,
             BaseBlocks' = BaseBlocks \ (ps \cup {arrBlock}), BaseDistinct'
      PROVE Own'
  <2>1. LiveSlots = 1..count /\ LiveSlots' = {}
    BY <1>a DEF LiveSlots, Ready
  <2>2. \A x : x \in EntryBlocks <=>
            (x = arrBlock /\ arrBlock # NoBlock) \/ \E n \in LiveSlots : x \in Owned(arr[n])
    <3> DEFINE all == UNION {Owned(arr[n]) : n \in LiveSlots}
    <3>1. \A x : x \in all <=> \E n \in LiveSlots : x \in Owned(arr[n])
      BY ONLY Zenon
    <3>2. EntryBlocks = all \cup ({arrBlock} \ {NoBlock})
      BY <2>1, Zenon DEF EntryBlocks
    <3> HIDE DEF all
    <3> QED
      BY ONLY <3>1, <3>2
  <2>3. EntryBlocks \cup ps \subseteq heap
    BY <1>a, <1>h, <2>2 DEF BaseBlocks
  <2>4. heap' = heap \ (EntryBlocks \cup ps) /\ ~bad'
    BY <1>a, <2>3 DEF Free
  <2>5. \A x : x \in heap' <=> x \in BaseBlocks'
    <3>1. \A x \in BaseBlocks : \A n \in LiveSlots : x \notin Owned(arr[n])
      BY DEF EntriesOffBase
    <3>2. NoBlock \notin BaseBlocks
      BY DEF BaseBlocks
    <3> QED
      BY <1>a, <1>h, <2>2, <2>4, <3>1, <3>2
  <2>6. HeapExact'
    BY <1>0, <2>1, <2>5 DEF HeapExact, Reachable
  <2> QED
    BY <1>0, <1>a, <2>1, <2>4, <2>6 DEF EntriesApart, EntriesOffBase
<1>14. CASE Reset
  <2> DEFINE ps == {}
  <2>1. EntryBlocks \cup ps = EntryBlocks
    OBVIOUS
  <2>2. Free(EntryBlocks \cup ps) /\ Ready /\ count' = 0 /\ pc' = pc
    BY <1>14, <2>1 DEF Reset, buildVars
  <2>3. BaseBlocks' = BaseBlocks \ (ps \cup {arrBlock}) /\ ps \subseteq BaseBlocks
    BY <1>14 DEF Reset, BaseBlocks, BaseDistinct
  <2>4. BaseDistinct'
    BY <1>14 DEF Reset, BaseDistinct
  <2> HIDE DEF ps
  <2> QED
    BY <1>a, <2>2, <2>3, <2>4
<1>15. CASE Destroy
  <2>1. Free(EntryBlocks \cup {enc}) /\ Ready /\ count' = 0 /\ pc' = pc
    BY <1>15 DEF Destroy
  <2>2. {enc} \subseteq BaseBlocks /\ BaseBlocks' = BaseBlocks \ ({enc} \cup {arrBlock})
    BY <1>15 DEF Destroy, Ready, BaseBlocks, BaseDistinct
  <2>3. BaseDistinct'
    BY <1>15 DEF Destroy, BaseDistinct
  <2> QED
    BY <1>a, <2>1, <2>2, <2>3
<1> QED
  BY <1>1, <1>2, <1>3, <1>4, <1>5, <1>6, <1>7, <1>8, <1>9, <1>10, <1>11, <1>12, <1>13,
     <1>14, <1>15, <1>16, <1>17, <1>18 DEF Next

\* The types of the encoder's fields, and the bounds of the loop of dedup_entries,
\* hold in every state that the encoder reaches, whatever the allocator refuses.
THEOREM TypeCorrect == Spec => []TypeOK
<1>1. Shape => TypeOK
  BY DEF Shape
<1> QED
  BY ShapeInit, ShapeNext, <1>1, PTL DEF Spec

\* Every block has one owner, no block leaks and no live pointer dangles, at every
\* point of add, build, reset and destroy and after every failed allocation.
THEOREM OwnershipHolds == Spec => []Ownership
<1>1. Own => Ownership
  BY DEF Own, Shape, Ownership
<1> QED
  BY OwnInit, OwnNext, <1>1, PTL DEF Spec

\* Neither the encoder nor its caller frees a pointer that is not allocated.
THEOREM FreesAreGood == Spec => []NoBadFree
<1>1. Own => NoBadFree
  BY DEF Own
<1> QED
  BY OwnInit, OwnNext, <1>1, PTL DEF Spec

-----------------------------------------------------------------------------
(***************************************************************************)
(* The order of the entries, and which of them survive.                    *)
(***************************************************************************)
\* The third layer.
Order == Shape /\ LoopSorted /\ PreparedSorted /\ KeysKept

\* No entries are sorted.
LEMMA OrderInit == Init => Order
  BY ShapeInit DEF Init, Order, LoopSorted, PreparedSorted, KeysKept, LiveSlots, NothingAdded, Prepared

\* qsort and each turn of dedup_entries keep the order and lose no key.
LEMMA OrderNext == Order /\ [Next]_vars => Order'
<1> SUFFICES ASSUME Order, [Next]_vars PROVE Order'
  OBVIOUS
<1>0. Shape'
  BY ShapeNext DEF Order
<1> USE KeyAssumption
<1> USE DEF Order, Shape, TypeOK, entryVars, buildVars
<1>k. \A n \in LiveSlots : arr[n].key \in Int
  BY DEF EntriesWhole, Whole, Slot
\* Steps that leave the entries alone.
<1>s. ASSUME UNCHANGED <<arr, count, added>>, LiveSlots' = LiveSlots, pc' # "dedup",
             pc' \in {"check", "write"} => pc \in {"check", "write"}
      PROVE Order'
  BY <1>0, <1>s DEF LoopSorted, PreparedSorted, KeysKept, Prepared
\* Steps that leave the encoder idle with nothing added.
<1>z. ASSUME count' = 0, pc' = "idle", added' = NothingAdded PROVE Order'
  BY <1>0, <1>z DEF LoopSorted, PreparedSorted, KeysKept, Prepared, LiveSlots, NothingAdded
\* Steps of an idle encoder that keep the entries it has.
<1>f. ASSUME Ready, UNCHANGED <<count, buildVars, added>>, \A n \in 1..count : arr'[n] = arr[n]
      PROVE Order'
  BY <1>0, <1>f DEF LoopSorted, PreparedSorted, KeysKept, Prepared, Ready, LiveSlots
<1>g. ASSUME NEW b, Reserve(b) PROVE cap' \in Nat /\ count + 1 <= cap' /\ cap <= cap'
  BY <1>g, CapAssumption DEF Reserve, NewCap
<1>1. ASSUME NEW b \in Fresh, Create(b) PROVE Order'
  BY <1>1, <1>z DEF Create, Protocol
<1>2. ASSUME NEW b \in Fresh, WriterGrows(b) PROVE Order'
  <2>1. LiveSlots' = LiveSlots
    BY <1>2 DEF WriterGrows, LiveSlots
  <2> QED
    BY <1>2, <1>s, <2>1 DEF WriterGrows
<1>3. ASSUME NEW k \in Key, NEW v \in Val, NEW b \in Block, NEW kb \in Block,
             NEW vb \in Block \cup {NoBlock}, Add(k, v, b, kb, vb)
      PROVE Order'
  <2>1. pc = "idle" /\ pc' = "idle" /\ LiveSlots = 1..count /\ LiveSlots' = 1..count + 1
    BY <1>3 DEF Add, Ready, LiveSlots
  <2>2. \A n \in 1..count : arr'[n] = arr[n]
    BY <1>3, <1>g DEF Add, SlotsWith
  <2>3. arr'[count + 1].key = k
    BY <1>3, <1>g DEF Add, SlotsWith
  <2>4. DOMAIN added' = DOMAIN added \cup {k}
    BY <1>3 DEF Add
  <2>5. KeysKept'
    BY <2>1, <2>2, <2>3, <2>4 DEF KeysKept
  <2> QED
    BY <1>0, <2>1, <2>5 DEF LoopSorted, PreparedSorted, Prepared
<1>4. ASSUME NEW k \in Key, NEW v \in Val, NEW b \in Block, NEW kb \in Block,
             AddValueFails(k, v, b, kb)
      PROVE Order'
  <2>1. \A n \in 1..count : arr'[n] = arr[n]
    BY <1>4, <1>g DEF AddValueFails, SlotsWith
  <2> QED
    BY <1>4, <1>f, <2>1 DEF AddValueFails
<1>5. ASSUME NEW b \in Block, AddKeyFails(b) PROVE Order'
  <2>1. \A n \in 1..count : arr'[n] = arr[n]
    BY <1>5, <1>g DEF AddKeyFails, SlotsWith
  <2> QED
    BY <1>5, <1>f, <2>1 DEF AddKeyFails
<1>6. CASE BuildSort
  <2>1. PICK p \in [1..count -> 1..count] :
            /\ Sorts(p)
            /\ arr' = [n \in DOMAIN arr |-> IF n \in 1..count THEN arr[p[n]] ELSE arr[n]]
    BY <1>6 DEF BuildSort
  <2>2. LiveSlots = 1..count /\ LiveSlots' = 1..count /\ count' = count /\ added' = added
    BY <1>6 DEF BuildSort, Ready, LiveSlots
  <2>3. \A n \in 1..count : arr'[n] = arr[p[n]]
    BY <2>1
  <2>4. \A m, n \in 1..count : m < n => arr'[m].key <= arr'[n].key
    BY <2>1, <2>3 DEF Sorts
  <2>5. KeysKept'
    <3>1. \A n \in 1..count : arr'[n].key \in DOMAIN added
      BY <2>2, <2>3 DEF KeysKept
    <3>2. ASSUME NEW k \in DOMAIN added PROVE \E n \in 1..count : arr'[n].key = k
      <4>1. PICK m \in 1..count : arr[m].key = k
        BY <2>2 DEF KeysKept
      <4>2. PICK n \in 1..count : p[n] = m
        BY <2>1 DEF Sorts
      <4> QED
        BY <2>3, <4>1, <4>2
    <3> QED
      BY <2>2, <3>1, <3>2 DEF KeysKept
  <2>6. LoopSorted'
    <3>1. i' = 1 /\ write' = 0
      BY <1>6 DEF BuildSort
    <3>2. 1..write' = {} /\ i'..count' = 1..count
      BY <2>2, <3>1
    <3> QED
      BY <2>4, <3>2 DEF LoopSorted
  <2>7. PreparedSorted'
    BY <1>6, <2>2 DEF BuildSort, PreparedSorted, Prepared
  <2> QED
    BY <1>0, <2>5, <2>6, <2>7
<1>7. CASE DedupDrop
  <2>1. /\ i \in LiveSlots /\ LiveSlots' = LiveSlots \ {i} /\ \A n \in LiveSlots' : arr'[n] = arr[n]
        /\ i + 1 \in LiveSlots' /\ arr[i + 1].key = arr[i].key /\ added' = added
    BY <1>7 DEF DedupDrop, SameAsNext, LiveSlots
  <2>2. KeysKept'
    BY <2>1 DEF KeysKept
  <2>3. LoopSorted'
    BY <1>7, <2>1 DEF DedupDrop, LoopSorted, LiveSlots
  <2> QED
    BY <1>0, <1>7, <2>2, <2>3 DEF DedupDrop, PreparedSorted, Prepared
<1>8. CASE DedupKeep
  <2>1. write + 1 \in 1..i /\ i \in 1..count /\ i \in 1..cap
    BY <1>8 DEF DedupKeep
  <2>2. LiveSlots = 1..write \cup i..count /\ LiveSlots' = 1..write + 1 \cup i + 1..count
    BY <1>8 DEF DedupKeep, LiveSlots
  <2>3. /\ \A n \in 1..write : arr'[n] = arr[n]
        /\ \A n \in i + 1..count : arr'[n] = arr[n]
        /\ arr'[write + 1] = arr[i]
    BY <1>8, <2>1 DEF DedupKeep
  <2>4. KeysKept'
    <3>1. added' = added
      BY <1>8 DEF DedupKeep
    <3>2. \A n \in LiveSlots' : arr'[n].key \in DOMAIN added
      BY <2>1, <2>2, <2>3 DEF KeysKept
    <3>3. ASSUME NEW k \in DOMAIN added PROVE \E n \in LiveSlots' : arr'[n].key = k
      <4>1. PICK m \in LiveSlots : arr[m].key = k
        BY DEF KeysKept
      <4>2. CASE m = i
        BY <2>1, <2>2, <2>3, <4>1, <4>2
      <4>3. CASE m # i
        BY <2>1, <2>2, <2>3, <4>1, <4>3
      <4> QED
        BY <4>2, <4>3
    <3> QED
      BY <3>1, <3>2, <3>3 DEF KeysKept
  \* The next key is greater than this one, which is greater than those before.
  <2>5. \A n \in i + 1..count : arr[i].key < arr[n].key
    <3> SUFFICES ASSUME NEW n \in i + 1..count PROVE arr[i].key < arr[n].key
      OBVIOUS
    <3>1. arr[i].key \in Int /\ arr[i + 1].key \in Int /\ arr[n].key \in Int
      BY <1>k, <2>1, <2>2
    <3>2. arr[i].key # arr[i + 1].key
      BY <1>8, <2>1 DEF DedupKeep, SameAsNext
    <3>3. arr[i].key <= arr[i + 1].key /\ (n = i + 1 \/ arr[i + 1].key <= arr[n].key)
      BY <1>8, <2>1 DEF DedupKeep, LoopSorted
    <3> QED
      BY <3>1, <3>2, <3>3
  <2>6. LoopSorted'
    <3>1. \A m \in 1..write, n \in i..count : arr[m].key < arr[n].key
      BY <1>8 DEF DedupKeep, LoopSorted
    <3>2. \A m, n \in 1..write + 1 : m < n => arr'[m].key < arr'[n].key
      BY <1>8, <2>1, <2>3, <3>1 DEF DedupKeep, LoopSorted
    <3>3. \A m, n \in i + 1..count : m < n => arr'[m].key <= arr'[n].key
      BY <1>8, <2>1, <2>3 DEF DedupKeep, LoopSorted
    <3>4. \A m \in 1..write + 1, n \in i + 1..count : arr'[m].key < arr'[n].key
      <4> SUFFICES ASSUME NEW m \in 1..write + 1, NEW n \in i + 1..count
                   PROVE  arr'[m].key < arr'[n].key
        OBVIOUS
      <4>1. arr'[n] = arr[n] /\ n \in i..count
        BY <2>1, <2>3
      <4>2. CASE m = write + 1
        BY <2>3, <2>5, <4>1, <4>2
      <4>3. CASE m \in 1..write
        BY <2>3, <3>1, <4>1, <4>3
      <4> QED
        BY <4>2, <4>3
    <3> QED
      BY <1>8, <3>2, <3>3, <3>4 DEF DedupKeep, LoopSorted
  <2> QED
    BY <1>0, <1>8, <2>4, <2>6 DEF DedupKeep, PreparedSorted, Prepared
<1>9. CASE DedupEnd
  <2>1. LiveSlots' = LiveSlots /\ LiveSlots = 1..write
    BY <1>9 DEF DedupEnd, LiveSlots
  <2> QED
    BY <1>0, <1>9, <2>1 DEF DedupEnd, LoopSorted, PreparedSorted, Prepared, KeysKept
<1>10. CASE BuildRefused
  BY <1>10, <1>s DEF BuildRefused, LiveSlots
<1>11. ASSUME NEW w \in Fresh, NEW b \in Fresh, OpenWriter(w, b) PROVE Order'
  BY <1>11, <1>s DEF OpenWriter, LiveSlots
<1>12. CASE WriteFails
  BY <1>12, <1>s DEF WriteFails, LiveSlots
<1>13. CASE BuildDone
  BY <1>13, <1>s DEF BuildDone, LiveSlots
<1>18. CASE DetachFails
  BY <1>18, <1>s DEF DetachFails, LiveSlots
<1>14. CASE Reset
  BY <1>14, <1>z DEF Reset, Ready
<1>15. CASE Destroy
  BY <1>15, <1>z DEF Destroy, Ready
<1>16. ASSUME NEW b \in user, UserFree(b) PROVE Order'
  BY <1>0, <1>16 DEF UserFree, LoopSorted, PreparedSorted, Prepared, KeysKept, LiveSlots
<1>17. CASE UNCHANGED vars
  BY <1>0, <1>17 DEF vars, LoopSorted, PreparedSorted, Prepared, KeysKept, LiveSlots
<1> QED
  BY <1>1, <1>2, <1>3, <1>4, <1>5, <1>6, <1>7, <1>8, <1>9, <1>10, <1>11, <1>12, <1>13,
     <1>14, <1>15, <1>16, <1>17, <1>18 DEF Next

\* tp_encoder_build writes the trie from entries that are strictly sorted and have
\* exactly the keys added since the encoder was created or reset.
THEOREM BuildsFromSorted == Spec => []StrictlySorted
<1>1. Order => StrictlySorted
  <2> SUFFICES ASSUME Order, Prepared PROVE StrictlySorted
    BY DEF StrictlySorted
  <2>1. LiveSlots = 1..count
    BY DEF Prepared, LiveSlots
  <2> QED
    BY <2>1 DEF Order, StrictlySorted, PreparedSorted, KeysKept
<1> QED
  BY OrderInit, OrderNext, <1>1, PTL DEF Spec
-----------------------------------------------------------------------------
(***************************************************************************)
(* Which of the values added for a key is written, if qsort is stable.     *)
(***************************************************************************)
\* The fourth layer.
Latest == Order /\ LastKept

\* Without entries there is no last one.
LEMMA LatestInit == Init => Latest
  BY OrderInit DEF Init, Latest, LastKept, LiveSlots

\* With a stable qsort the last entry of each key stays the last and is the one
\* that dedup_entries keeps.
LEMMA LatestNext == ASSUME StableSort PROVE Latest /\ [Next]_vars => Latest'
<1> SUFFICES ASSUME Latest, [Next]_vars PROVE Latest'
  OBVIOUS
<1>0. Order'
  BY OrderNext DEF Latest
<1> USE KeyAssumption
<1> USE DEF Latest, Order, Shape, TypeOK, entryVars, buildVars
<1>k. \A n \in LiveSlots : arr[n].key \in DOMAIN added
  BY DEF KeysKept
<1>l. LiveSlots \subseteq Nat
  BY DEF LiveSlots
<1>s. ASSUME UNCHANGED added, LiveSlots' = LiveSlots, \A n \in LiveSlots : arr'[n] = arr[n]
      PROVE Latest'
  <2> SUFFICES ASSUME NEW n \in LiveSlots,
                      \A m \in LiveSlots : m > n => arr'[m].key # arr'[n].key
               PROVE  arr'[n].val = added[arr'[n].key]
    BY <1>0, <1>s DEF LastKept
  <2>1. \A m \in LiveSlots : m > n => arr[m].key # arr[n].key
    BY <1>s
  <2>2. arr[n].val = added[arr[n].key]
    BY <2>1 DEF LastKept
  <2> QED
    BY <1>s, <2>2
<1>z. ASSUME count' = 0, pc' = "idle" PROVE Latest'
  BY <1>0, <1>z DEF LastKept, LiveSlots
<1>g. ASSUME NEW b, Reserve(b) PROVE cap' \in Nat /\ count + 1 <= cap' /\ cap <= cap'
  BY <1>g, CapAssumption DEF Reserve, NewCap
<1>1. ASSUME NEW b \in Fresh, Create(b) PROVE Latest'
  BY <1>1, <1>z DEF Create, Protocol
<1>2. ASSUME NEW b \in Fresh, WriterGrows(b) PROVE Latest'
  BY <1>2, <1>s DEF WriterGrows, LiveSlots
<1>3. ASSUME NEW k \in Key, NEW v \in Val, NEW b \in Block, NEW kb \in Block,
             NEW vb \in Block \cup {NoBlock}, Add(k, v, b, kb, vb)
      PROVE Latest'
  <2>1. LiveSlots = 1..count /\ LiveSlots' = 1..count + 1
    BY <1>3 DEF Add, Ready, LiveSlots
  <2>2. \A n \in 1..count : arr'[n] = arr[n]
    BY <1>3, <1>g DEF Add, SlotsWith
  <2>3. arr'[count + 1].key = k /\ arr'[count + 1].val = v
    BY <1>3, <1>g DEF Add, SlotsWith
  <2>4. added' = [x \in DOMAIN added \cup {k} |-> IF x = k THEN v ELSE added[x]]
    BY <1>3 DEF Add
  <2>5. LastKept'
    <3> SUFFICES ASSUME NEW n \in 1..count + 1,
                        \A m \in 1..count + 1 : m > n => arr'[m].key # arr'[n].key
                 PROVE  arr'[n].val = added'[arr'[n].key]
      BY <2>1 DEF LastKept
    <3>1. CASE n = count + 1
      BY <2>3, <2>4, <3>1
    <3>2. CASE n \in 1..count
      <4>1. arr[n].key # k
        BY <2>2, <2>3, <3>2
      <4>2. \A m \in 1..count : m > n => arr[m].key # arr[n].key
        BY <2>2, <3>2
      <4>3. arr[n].val = added[arr[n].key]
        BY <2>1, <3>2, <4>2 DEF LastKept
      <4> QED
        BY <1>k, <2>1, <2>2, <2>4, <3>2, <4>1, <4>3
    <3> QED
      BY <3>1, <3>2
  <2> QED
    BY <1>0, <2>5
<1>4. ASSUME NEW k \in Key, NEW v \in Val, NEW b \in Block, NEW kb \in Block,
             AddValueFails(k, v, b, kb)
      PROVE Latest'
  <2>1. \A n \in 1..count : arr'[n] = arr[n]
    BY <1>4, <1>g DEF AddValueFails, SlotsWith
  <2>2. LiveSlots = 1..count /\ LiveSlots' = 1..count /\ added' = added
    BY <1>4 DEF AddValueFails, Ready, LiveSlots
  <2> QED
    BY <1>s, <2>1, <2>2
<1>5. ASSUME NEW b \in Block, AddKeyFails(b) PROVE Latest'
  <2>1. \A n \in 1..count : arr'[n] = arr[n]
    BY <1>5, <1>g DEF AddKeyFails, SlotsWith
  <2>2. LiveSlots = 1..count /\ LiveSlots' = 1..count /\ added' = added
    BY <1>5 DEF AddKeyFails, Ready, LiveSlots
  <2> QED
    BY <1>s, <2>1, <2>2
\* A stable sort leaves the last entry of a key the last one.
<1>6. CASE BuildSort
  <2>1. PICK p \in [1..count -> 1..count] :
            /\ Sorts(p)
            /\ arr' = [n \in DOMAIN arr |-> IF n \in 1..count THEN arr[p[n]] ELSE arr[n]]
    BY <1>6 DEF BuildSort
  <2>2. LiveSlots = 1..count /\ LiveSlots' = 1..count /\ added' = added
    BY <1>6 DEF BuildSort, Ready, LiveSlots
  <2>3. \A n \in 1..count : arr'[n] = arr[p[n]]
    BY <2>1
  <2>4. LastKept'
    <3> SUFFICES ASSUME NEW n \in 1..count,
                        \A m \in 1..count : m > n => arr'[m].key # arr'[n].key
                 PROVE  arr'[n].val = added[arr'[n].key]
      BY <2>2 DEF LastKept
    <3>1. ASSUME NEW m \in 1..count, m > p[n], arr[m].key = arr[p[n]].key PROVE FALSE
      <4>1. PICK q \in 1..count : p[q] = m
        BY <2>1 DEF Sorts
      <4>2. q < n
        <5>1. arr'[q].key = arr'[n].key
          BY <2>3, <3>1, <4>1
        <5>2. q # n /\ ~(q > n)
          BY <3>1, <4>1, <5>1
        <5> QED
          BY <5>2
      <4>3. p[q] < p[n]
        BY <2>1, <3>1, <4>1, <4>2 DEF Sorts
      <4> QED
        BY <2>1, <3>1, <4>1, <4>3
    <3>2. arr[p[n]].val = added[arr[p[n]].key]
      BY <2>1, <2>2, <3>1 DEF LastKept
    <3> QED
      BY <2>3, <3>2
  <2> QED
    BY <1>0, <2>4
<1>7. CASE DedupDrop
  <2>1. /\ LiveSlots' = LiveSlots \ {i} /\ \A n \in LiveSlots' : arr'[n] = arr[n]
        /\ i + 1 \in LiveSlots' /\ arr[i + 1].key = arr[i].key /\ added' = added
    BY <1>7 DEF DedupDrop, SameAsNext, LiveSlots
  <2>2. LastKept'
    <3> SUFFICES ASSUME NEW n \in LiveSlots',
                        \A m \in LiveSlots' : m > n => arr[m].key # arr[n].key
                 PROVE  arr[n].val = added[arr[n].key]
      BY <2>1 DEF LastKept
    <3>1. i > n => arr[i].key # arr[n].key
      BY <1>l, <2>1
    <3> QED
      BY <2>1, <3>1 DEF LastKept
  <2> QED
    BY <1>0, <2>2
<1>8. CASE DedupKeep
  <2>1. write + 1 \in 1..i /\ i \in 1..count /\ i \in 1..cap /\ added' = added
    BY <1>8 DEF DedupKeep
  <2>2. LiveSlots = 1..write \cup i..count /\ LiveSlots' = 1..write + 1 \cup i + 1..count
    BY <1>8 DEF DedupKeep, LiveSlots
  <2>3. /\ \A n \in 1..write : arr'[n] = arr[n]
        /\ \A n \in i + 1..count : arr'[n] = arr[n]
        /\ arr'[write + 1] = arr[i]
    BY <1>8, <2>1 DEF DedupKeep
  <2>4. LastKept'
    <3> SUFFICES ASSUME NEW n \in LiveSlots',
                        \A m \in LiveSlots' : m > n => arr'[m].key # arr'[n].key
                 PROVE  arr'[n].val = added[arr'[n].key]
      BY <2>1 DEF LastKept
    <3> DEFINE o == IF n = write + 1 THEN i ELSE n
    <3>1. o \in LiveSlots /\ arr'[n] = arr[o]
      BY <2>1, <2>2, <2>3
    <3>2. ASSUME NEW m \in LiveSlots, m > o PROVE arr[m].key # arr[o].key
      <4>1. CASE m = i
        <5>1. write + 1 > n /\ write + 1 \in LiveSlots'
          BY <2>1, <2>2, <3>2, <4>1
        <5> QED
          BY <2>3, <3>1, <4>1, <5>1
      <4>2. CASE m # i
        <5>1. m \in LiveSlots' /\ m > n /\ arr'[m] = arr[m]
          BY <2>1, <2>2, <2>3, <3>2, <4>2
        <5> QED
          BY <3>1, <5>1
      <4> QED
        BY <4>1, <4>2
    <3> HIDE DEF o
    <3>3. arr[o].val = added[arr[o].key]
      BY <3>1, <3>2 DEF LastKept
    <3> QED
      BY <3>1, <3>3
  <2> QED
    BY <1>0, <2>4
<1>9. CASE DedupEnd
  BY <1>9, <1>s DEF DedupEnd, LiveSlots
<1>10. CASE BuildRefused
  BY <1>10, <1>s DEF BuildRefused, LiveSlots
<1>11. ASSUME NEW w \in Fresh, NEW b \in Fresh, OpenWriter(w, b) PROVE Latest'
  BY <1>11, <1>s DEF OpenWriter, LiveSlots
<1>12. CASE WriteFails
  BY <1>12, <1>s DEF WriteFails, LiveSlots
<1>13. CASE BuildDone
  BY <1>13, <1>s DEF BuildDone, LiveSlots
<1>18. CASE DetachFails
  BY <1>18, <1>s DEF DetachFails, LiveSlots
<1>14. CASE Reset
  BY <1>14, <1>z DEF Reset, Ready
<1>15. CASE Destroy
  BY <1>15, <1>z DEF Destroy, Ready
<1>16. ASSUME NEW b \in user, UserFree(b) PROVE Latest'
  BY <1>16, <1>s DEF UserFree, LiveSlots
<1>17. CASE UNCHANGED vars
  BY <1>17, <1>s DEF vars, LiveSlots
<1> QED
  BY <1>1, <1>2, <1>3, <1>4, <1>5, <1>6, <1>7, <1>8, <1>9, <1>10, <1>11, <1>12, <1>13,
     <1>14, <1>15, <1>16, <1>17, <1>18 DEF Next

\* What is prepared for a build has the value added last for each key.
LEMMA PreparedLatest == Latest => LastAddedWins
<1> SUFFICES ASSUME Latest, Prepared, NEW n \in 1..count
             PROVE  arr[n].val = added[arr[n].key]
  BY DEF LastAddedWins
<1>1. LiveSlots = 1..count
  BY DEF Prepared, LiveSlots
<1>2. \A m \in 1..count : arr[m].key \in Int
  BY <1>1, KeyAssumption DEF Latest, Order, Shape, EntriesWhole, Whole, Slot
<1>3. \A m \in 1..count : m > n => arr[m].key # arr[n].key
  BY <1>2 DEF Latest, Order, PreparedSorted
<1> QED
  BY <1>1, <1>3 DEF Latest, LastKept

\* With a qsort that keeps equal keys in order, the value written for a key is
\* the one added last.
THEOREM LastAddedIsWritten == ASSUME StableSort PROVE Spec => []LastAddedWins
  BY LatestInit, LatestNext, PreparedLatest, PTL DEF Spec

-----------------------------------------------------------------------------
(***************************************************************************)
(* The encoder implements MapBuilder.  The map that the array stands for   *)
(* is the one that was added, whatever a build has done to the array; so   *)
(* adding, resetting and destroying are the steps of the map, sorting and  *)
(* deduplicating change nothing, and what is written lists the map.        *)
(***************************************************************************)
\* The fifth layer: the pairs added are a function.
Mapped == Latest /\ added = [k \in DOMAIN added |-> added[k]]

\* A fresh model has added nothing.
LEMMA MappedInit == Init => Mapped
  BY LatestInit DEF Init, Mapped, NothingAdded

\* Every step that changes what was added makes a function of it.
LEMMA MappedNext == ASSUME StableSort PROVE Mapped /\ [Next]_vars => Mapped'
<1> SUFFICES ASSUME Mapped, [Next]_vars PROVE Mapped'
  OBVIOUS
<1>0. Latest'
  BY LatestNext DEF Mapped
<1>1. CASE added' = added
  BY <1>0, <1>1 DEF Mapped
<1>2. CASE added' = NothingAdded
  BY <1>0, <1>2 DEF Mapped, NothingAdded
<1>3. ASSUME NEW k, NEW v, added' = [x \in DOMAIN added \cup {k} |-> IF x = k THEN v ELSE added[x]]
      PROVE  Mapped'
  BY <1>0, <1>3 DEF Mapped
<1>4. CASE UNCHANGED vars
  BY <1>1, <1>4 DEF vars
<1>5. ASSUME NEW b \in Fresh, Create(b) \/ WriterGrows(b) PROVE Mapped'
  BY <1>1, <1>2, <1>5 DEF Create, WriterGrows
<1>6. ASSUME NEW k \in Key, NEW v \in Val, NEW b \in Block, NEW kb \in Block,
             NEW vb \in Block \cup {NoBlock}, Add(k, v, b, kb, vb)
      PROVE  Mapped'
  BY <1>3, <1>6 DEF Add
<1>7. ASSUME NEW k \in Key, NEW v \in Val, NEW b \in Block, NEW kb \in Block,
             AddValueFails(k, v, b, kb)
      PROVE  Mapped'
  BY <1>1, <1>7 DEF AddValueFails
<1>8. CASE BuildSort \/ DedupDrop \/ DedupKeep \/ DedupEnd \/ BuildRefused
  BY <1>1, <1>8 DEF BuildSort, DedupDrop, DedupKeep, DedupEnd, BuildRefused
<1>9. ASSUME NEW w, NEW b, OpenWriter(w, b) \/ UserFree(b) PROVE Mapped'
  BY <1>1, <1>9 DEF OpenWriter, UserFree
<1>10. CASE WriteFails \/ BuildDone \/ DetachFails
  BY <1>1, <1>10 DEF WriteFails, BuildDone, DetachFails
<1>11. CASE Reset \/ Destroy
  BY <1>2, <1>11 DEF Reset, Destroy
<1>12. ASSUME NEW b \in Block, AddKeyFails(b) PROVE Mapped'
  BY <1>1, <1>12 DEF AddKeyFails
<1> QED
  BY <1>4, <1>5, <1>6, <1>7, <1>8, <1>9, <1>10, <1>11, <1>12 DEF Next

\* A set of slots that has an entry for a key has a last one for it.
LEMMA LastSlotExists ==
    ASSUME Order, NEW k \in Keys
    PROVE  /\ LastSlot(k) \in LiveSlots
           /\ arr[LastSlot(k)].key = k
           /\ \A m \in LiveSlots : m > LastSlot(k) => arr[m].key # k
<1> DEFINE left == {x \in Nat : \E n \in LiveSlots : arr[n].key = k /\ x = count - n}
<1>1. count \in Nat /\ \A n \in LiveSlots : n \in Nat /\ n <= count
  BY DEF Order, Shape, TypeOK, LiveSlots
<1>2. left # {}
  BY <1>1 DEF Keys
<1>3. PICK x \in left : \A y \in left : x <= y
  <2>1. left \in SUBSET Nat
    OBVIOUS
  <2> HIDE DEF left
  <2> QED
    BY <1>2, <2>1, LeastElement
<1>4. PICK n \in LiveSlots : arr[n].key = k /\ x = count - n
  BY <1>3
<1>5. \A m \in LiveSlots : m > n => arr[m].key # k
  BY <1>1, <1>3, <1>4
<1> QED
  BY <1>4, <1>5 DEF LastSlot

\* The map that the array stands for is the map that was added.
LEMMA ContentIsAdded == Mapped => Content = added
<1> SUFFICES ASSUME Mapped PROVE Content = added
  OBVIOUS
<1>1. Keys = DOMAIN added
  BY DEF Mapped, Latest, Order, KeysKept, Keys
<1>2. ASSUME NEW k \in Keys PROVE arr[LastSlot(k)].val = added[k]
  BY <1>2, LastSlotExists DEF Mapped, Latest, LastKept
<1> QED
  BY <1>1, <1>2 DEF Content, Mapped

\* What is prepared lists the map, in the order of the keys.
LEMMA PreparedListsAdded == Mapped /\ Prepared => Builder!Lists(Listing, added)
<1> SUFFICES ASSUME Mapped, Prepared PROVE Builder!Lists(Listing, added)
  OBVIOUS
<1>1. LiveSlots = 1..count /\ count \in Nat
  BY DEF Prepared, LiveSlots, Mapped, Latest, Order, Shape, TypeOK
<1>2. /\ Listing = [n \in 1..count |-> [key |-> arr[n].key, val |-> arr[n].val]]
      /\ Listing \in Seq([key : {arr[n].key : n \in 1..count}, val : {arr[n].val : n \in 1..count}])
  BY <1>1 DEF Listing
<1>3. Len(Listing) = count /\ DOMAIN Listing = 1..count
  BY <1>1, <1>2
<1>4. \A n \in 1..count : Listing[n].key = arr[n].key /\ Listing[n].val = arr[n].val
  BY <1>2
<1>5. \A m, n \in 1..count : m < n => arr[m].key < arr[n].key
  BY DEF Mapped, Latest, Order, PreparedSorted
<1>6. {Listing[n].key : n \in 1..count} = DOMAIN added
  <2>1. /\ \A n \in 1..count : Listing[n].key \in DOMAIN added
        /\ \A k \in DOMAIN added : \E n \in 1..count : Listing[n].key = k
    BY <1>1, <1>4 DEF Mapped, Latest, Order, KeysKept
  <2> QED
    BY <2>1
<1>7. \A n \in 1..count : arr[n].val = added[arr[n].key]
  BY PreparedLatest DEF Mapped, LastAddedWins
<1> QED
  BY <1>3, <1>4, <1>5, <1>6, <1>7 DEF Builder!Lists

\* What MapBuilder sees of an encoder in good order.
Mirrors == Own /\ Mapped /\ Content = added /\ (Prepared => Builder!Lists(Listing, added))

\* Every step of the encoder is a step of the map or invisible to it.
LEMMA StepImplements ==
    Mirrors /\ Mirrors' /\ [Next]_vars => [Builder!Next]_(Builder!vars)
<1> SUFFICES ASSUME Mirrors, Mirrors', [Next]_vars PROVE [Builder!Next]_(Builder!vars)
  OBVIOUS
<1> DEFINE seen == <<enc # NoBlock, added, Stage, Listing, user \ lost>>
<1>v. Builder!vars = seen /\ Builder!vars' = seen'
  BY DEF Builder!vars, Mirrors
<1>c. Content = added /\ Content' = added'
  BY DEF Mirrors
<1>t. /\ Protocol /\ BaseDistinct /\ lost \subseteq user /\ count \in Nat
      /\ pc \in {"idle", "dedup", "check", "write"}
  BY DEF Mirrors, Own, Shape, TypeOK, SingleOwner
\* Steps that the map does not notice.
<1>s. ASSUME UNCHANGED <<enc, added, Stage, Listing>>, user' \ lost' = user \ lost
      PROVE  [Builder!Next]_(Builder!vars)
  BY <1>s, <1>v
\* As long as nothing is prepared there is no listing.
<1>i. ~Prepared => Listing = <<>>
  BY DEF Listing
<1>j. ~Prepared' => Listing' = <<>>
  BY DEF Listing
<1> USE DEF entryVars, buildVars, Stage, Prepared
<1>1. ASSUME NEW b \in Fresh, Create(b) PROVE Builder!Create
  BY <1>1, <1>c, <1>i, <1>j, <1>t, BlockAssumption
     DEF Create, Fresh, Protocol, NothingAdded, Builder!Create, Builder!Empty
<1>2. ASSUME NEW b \in Fresh, WriterGrows(b) PROVE [Builder!Next]_(Builder!vars)
  BY <1>2, <1>s DEF WriterGrows, Listing
<1>3. ASSUME NEW k \in Key, NEW v \in Val, NEW b \in Block, NEW kb \in Block,
             NEW vb \in Block \cup {NoBlock}, Add(k, v, b, kb, vb)
      PROVE  Builder!Put(k, v)
  BY <1>3, <1>c, <1>i, <1>j DEF Add, Ready, Builder!Put
<1>4. ASSUME NEW k \in Key, NEW v \in Val, NEW b \in Block, NEW kb \in Block,
             AddValueFails(k, v, b, kb)
      PROVE  [Builder!Next]_(Builder!vars)
  BY <1>4, <1>i, <1>j, <1>s DEF AddValueFails, Ready
<1>5. ASSUME NEW b \in Block, AddKeyFails(b) PROVE [Builder!Next]_(Builder!vars)
  BY <1>5, <1>i, <1>j, <1>s DEF AddKeyFails, Ready
\* Sorting starts the preparation; an array of one entry needs no more.
<1>6. CASE BuildSort
  <2>1. CASE count <= 1
    <3>1. Builder!Lists(Listing', Content)
      BY <1>6, <1>c, <2>1 DEF BuildSort, Mirrors
    <3> QED
      BY <1>6, <1>c, <2>1, <3>1 DEF BuildSort, Ready, Builder!Next, Builder!List
  <2>2. CASE count > 1
    BY <1>6, <1>c, <1>i, <1>j, <1>t, <2>2 DEF BuildSort, Ready, Builder!Next, Builder!Begin
  <2> QED
    BY <1>t, <2>1, <2>2
<1>7. CASE DedupDrop
  BY <1>7, <1>i, <1>j, <1>s DEF DedupDrop
<1>8. CASE DedupKeep
  BY <1>8, <1>i, <1>j, <1>s DEF DedupKeep
<1>9. CASE DedupEnd
  <2>1. Builder!Lists(Listing', Content)
    BY <1>9, <1>c DEF DedupEnd, Mirrors
  <2>2. enc # NoBlock
    BY <1>9, <1>t DEF DedupEnd, Protocol
  <2> QED
    BY <1>9, <1>c, <2>1, <2>2 DEF DedupEnd, Builder!Next, Builder!List
<1>10. CASE BuildRefused
  BY <1>10, <1>c, <1>j DEF BuildRefused, Builder!Next, Builder!GiveUp, Builder!NoListing
<1>11. ASSUME NEW w \in Fresh, NEW b \in Fresh, OpenWriter(w, b)
       PROVE  [Builder!Next]_(Builder!vars)
  BY <1>11, <1>s DEF OpenWriter, Listing
<1>12. CASE WriteFails
  BY <1>12, <1>c, <1>j DEF WriteFails, Builder!Next, Builder!GiveUp, Builder!NoListing
\* The file that the user gets was nobody's before.
<1>13. CASE BuildDone
  <2>1. writer.buf \in Block /\ writer.buf \notin user
    BY <1>13, <1>t DEF BuildDone, Protocol, BaseDistinct, Mirrors, Own, Shape, TypeOK
  <2>2. user' \ lost' = (user \ lost) \cup {writer.buf}
    BY <1>13, <1>t, <2>1 DEF BuildDone
  <2>3. Builder!Finish(writer.buf)
    BY <1>13, <1>c, <1>j, <2>1, <2>2 DEF BuildDone, Builder!Finish, Builder!NoListing
  <2> QED
    BY <2>1, <2>3 DEF Builder!Next
<1>18. CASE DetachFails
  <2>1. user' \ lost' = user \ lost
    BY <1>18, <1>t DEF DetachFails, Protocol, BaseDistinct
  <2> QED
    BY <1>18, <1>c, <1>j, <2>1 DEF DetachFails, Builder!Next, Builder!GiveUp, Builder!NoListing
<1>14. CASE Reset
  BY <1>14, <1>c, <1>i, <1>j
     DEF Reset, Ready, NothingAdded, Builder!Next, Builder!Reset, Builder!Empty
<1>15. CASE Destroy
  BY <1>15, <1>c, <1>i, <1>j
     DEF Destroy, Ready, NothingAdded, Builder!Next, Builder!Destroy, Builder!Empty
<1>16. ASSUME NEW b \in user, UserFree(b) PROVE [Builder!Next]_(Builder!vars)
  <2>1. b \in Block /\ b \in user \ lost /\ user' \ lost' = (user \ lost) \ {b}
    BY <1>16 DEF UserFree, Mirrors, Own, Shape, TypeOK
  <2>2. Builder!Release(b)
    BY <1>16, <1>c, <2>1 DEF UserFree, Builder!Release, Listing
  <2> QED
    BY <2>1, <2>2 DEF Builder!Next
<1>17. CASE UNCHANGED vars
  BY <1>17, <1>s DEF vars, Listing
<1> QED
  BY <1>1, <1>2, <1>3, <1>4, <1>5, <1>6, <1>7, <1>8, <1>9, <1>10, <1>11, <1>12, <1>13,
     <1>14, <1>15, <1>16, <1>17, <1>18 DEF Next, Builder!Next

\* With a qsort that keeps equal keys in order, the encoder implements the map: adding,
\* sorting, deduplicating in place and every refusal lose and change no pair, and what
\* a build writes is exactly the map, in the order of its keys.
THEOREM EncoderImplementsBuilder == ASSUME StableSort PROVE Spec => ImplementsBuilder
<1>1. Init => Builder!Init
  <2> SUFFICES ASSUME Init PROVE Builder!Init
    OBVIOUS
  <2>1. Keys = {}
    BY DEF Init, Keys, LiveSlots
  <2>2. Content = Builder!Empty
    BY <2>1 DEF Content, Builder!Empty
  <2> QED
    BY <2>2 DEF Init, Builder!Init, Builder!NoListing, Stage, Listing, Prepared
<1>2. Own /\ Mapped => Mirrors
  BY ContentIsAdded, PreparedListsAdded DEF Mirrors
<1> QED
  BY <1>1, <1>2, OwnInit, OwnNext, MappedInit, MappedNext, StepImplements, PTL DEF Spec, ImplementsBuilder, Builder!Spec
=============================================================================
