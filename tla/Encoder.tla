------------------------------ MODULE Encoder ------------------------------
(***************************************************************************)
(* The encoder object (src/core/encoder.c): the growing array of entries,  *)
(* the heap blocks that entries own, and the phases of tp_encoder_build.   *)
(* Every allocation may fail.  qsort and the deduplication, which compacts *)
(* the array in place, are separate steps, the latter one step for each    *)
(* turn of its loop.  The bits that a build writes are the business of     *)
(* module TrieEncode.                                                      *)
(*                                                                         *)
(* A block is the address of a heap block; a freed address may be handed   *)
(* out again.  Slots of the array are numbered from 1, the code's from 0.  *)
(* enc->sorted is written but never read, and left out.                    *)
(***************************************************************************)
EXTENDS Integers, FiniteSets

CONSTANTS
    Key,            \* keys, as numbers in the order of entry_cmp
    Val,            \* values
    Pointing,       \* the values that point to memory: strings and blobs
    Block,          \* addresses of heap blocks
    NoBlock,        \* the NULL pointer
    Foreign,        \* a pointer to memory of the caller
    Garbage,        \* what a slot holds before it is written
    InitialCap,     \* the first capacity of the array: 16 in the code
    StableSort      \* whether qsort keeps the order of equal keys

ASSUME KeyAssumption == Key \subseteq Int
ASSUME ValAssumption == Pointing \subseteq Val
ASSUME BlockAssumption == NoBlock \notin Block /\ Foreign \notin Block /\ NoBlock # Foreign
ASSUME GarbageAssumption ==
    Garbage \notin [key : Key, val : Val, keyBlock : Block \cup {NoBlock, Foreign},
                    valBlock : Block \cup {NoBlock, Foreign}]
ASSUME CapAssumption == InitialCap \in Nat \ {0}
ASSUME SortAssumption == StableSort \in BOOLEAN

VARIABLES
    enc,            \* the block of the tp_encoder, or NoBlock
    arrBlock,       \* enc->entries
    cap,            \* enc->entries_cap
    arr,            \* the slots of the array; those behind count are stale
    count,          \* enc->count
    pc,             \* where the call of tp_encoder_build stands
    i, write,       \* the loop variables of dedup_entries
    writer,         \* the bit stream writer and its buffer
    user,           \* buffers detached from a writer and not freed since
    lost,           \* those of them that no build returned
    heap,           \* the blocks that are allocated
    bad,            \* whether something was freed that was not allocated
    added           \* the pairs added since the last create or reset, last wins
entryVars == <<arrBlock, cap, arr, count>>
buildVars == <<pc, i, write, writer, user, lost>>
vars == <<enc, entryVars, buildVars, heap, bad, added>>

Pointer == Block \cup {NoBlock, Foreign}
Slot == [key : Key, val : Val, keyBlock : Pointer, valBlock : Pointer]
NoWriter == [self |-> NoBlock, buf |-> NoBlock]
NoSlots == [n \in 1..0 |-> Garbage]
NothingAdded == [k \in {} |-> Garbage]

\* What an entry owns: its key and the copy behind a string or a blob.
Owned(s) == {s.keyBlock} \cup (IF s.valBlock = NoBlock THEN {} ELSE {s.valBlock})

\* The slots whose entries count.  Inside dedup_entries these are the compacted
\* ones and those that the loop has not reached.
LiveSlots == IF pc = "dedup" THEN 1..write \cup i..count ELSE 1..count

\* free() of a set of pointers.
Free(ps) ==
    /\ heap' = heap \ ps
    /\ bad' = (bad \/ ~(ps \subseteq heap))

Init ==
    /\ enc = NoBlock /\ arrBlock = NoBlock /\ cap = 0 /\ count = 0
    /\ arr = NoSlots
    /\ pc = "idle" /\ i = 1 /\ write = 0 /\ writer = NoWriter
    /\ user = {} /\ lost = {}
    /\ heap = {} /\ bad = FALSE /\ added = NothingAdded

-----------------------------------------------------------------------------
\* tp_encoder_create_ex with options it supports.
Create(b) ==
    /\ enc = NoBlock
    /\ enc' = b /\ heap' = heap \cup {b}
    /\ arrBlock' = NoBlock /\ cap' = 0 /\ arr' = NoSlots /\ count' = 0
    /\ added' = NothingAdded
    /\ UNCHANGED <<buildVars, bad>>

Ready == enc # NoBlock /\ pc = "idle"

\* The array that tp_encoder_add_n works on, at block b.  A full array is
\* reallocated, in place or at another address; the new slots hold garbage.
CapDoubled == 2 * cap       \* mutant
NewCap == IF cap = 0 THEN InitialCap ELSE 2 * cap
Reserve(b) ==
    \/ count < cap /\ b = arrBlock /\ cap' = cap /\ arrBlock' = b
    \/ count >= cap /\ b \in Block \ (heap \ {arrBlock}) /\ cap' = NewCap /\ arrBlock' = b
HeapWith(b) == (heap \ {arrBlock}) \cup {b}
SlotsWith(c) == [n \in 1..c |-> IF n <= cap THEN arr[n] ELSE Garbage]

\* tp_encoder_add_n with every allocation granted.
Add(k, v, b, kb, vb) ==
    /\ Ready
    /\ Reserve(b)
    /\ kb \notin HeapWith(b)
    /\ IF v \in Pointing THEN vb \in Block \ (HeapWith(b) \cup {kb}) ELSE vb = NoBlock
    /\ arr' = [SlotsWith(cap') EXCEPT
                  ![count + 1] = [key |-> k, val |-> v, keyBlock |-> kb, valBlock |-> vb]]
    /\ count' = count + 1
    /\ heap' = HeapWith(b) \cup {kb} \cup ({vb} \ {NoBlock})
    /\ added' = [x \in DOMAIN added \cup {k} |-> IF x = k THEN v ELSE added[x]]
    /\ UNCHANGED <<enc, buildVars, bad>>

\* The copy of the key is refused when the array has already grown.
AddKeyFails(b) ==
    /\ Ready
    /\ Reserve(b)
    /\ arr' = SlotsWith(cap')
    /\ heap' = HeapWith(b)
    /\ UNCHANGED <<enc, count, buildVars, bad, added>>

\* The copy of the value is refused: the key is freed again, and the slot behind
\* the entries keeps a dangling key and the pointer of the caller.
AddValueFails(k, v, b, kb) ==
    /\ Ready /\ v \in Pointing
    /\ Reserve(b)
    /\ kb \notin HeapWith(b)
    /\ arr' = [SlotsWith(cap') EXCEPT
                  ![count + 1] = [key |-> k, val |-> v, keyBlock |-> kb, valBlock |-> Foreign]]
    /\ heap' = HeapWith(b)
    /\ UNCHANGED <<enc, count, buildVars, bad, added>>

-----------------------------------------------------------------------------
\* tp_encoder_build.  First qsort: a permutation that sorts the entries.
Sorts(p) ==
    /\ \A m, n \in 1..count : p[m] = p[n] => m = n
    /\ \A m \in 1..count : \E n \in 1..count : p[n] = m
    /\ \A m, n \in 1..count : m < n => arr[p[m]].key <= arr[p[n]].key
    /\ StableSort =>
        \A m, n \in 1..count : m < n /\ arr[p[m]].key = arr[p[n]].key => p[m] < p[n]

BuildSort ==
    /\ Ready
    /\ \E p \in [1..count -> 1..count] :
        /\ Sorts(p)
        /\ arr' = [n \in DOMAIN arr |-> IF n \in 1..count THEN arr[p[n]] ELSE arr[n]]
    /\ pc' = (IF count <= 1 THEN "check" ELSE "dedup")
    /\ i' = 1 /\ write' = 0
    /\ UNCHANGED <<enc, arrBlock, cap, count, writer, user, lost, heap, bad, added>>

\* One turn of the loop of dedup_entries.
NotTheLastPair == i + 1 < count /\ arr[i].key = arr[i + 1].key     \* mutant
SameAsPrevious == i > 1 /\ arr[i].key = arr[i - 1].key              \* mutant
SameAsNext == i + 1 <= count /\ arr[i].key = arr[i + 1].key

\* value_free_copy resets the pointer to the value; the key is left dangling.
Released(s) == [key |-> s.key, val |-> s.val, keyBlock |-> s.keyBlock, valBlock |-> NoBlock]

\* Mutant: the copy of the value is not freed.
DedupDropLeaks ==
    /\ pc = "dedup" /\ i <= count /\ SameAsNext
    /\ Free({arr[i].keyBlock})
    /\ arr' = [arr EXCEPT ![i] = Released(arr[i])]
    /\ i' = i + 1
    /\ UNCHANGED <<enc, arrBlock, cap, count, pc, write, writer, user, lost, added>>

DedupDrop ==
    /\ pc = "dedup" /\ i <= count /\ SameAsNext
    /\ Free(Owned(arr[i]))
    /\ arr' = [arr EXCEPT ![i] = Released(arr[i])]
    /\ i' = i + 1
    /\ UNCHANGED <<enc, arrBlock, cap, count, pc, write, writer, user, lost, added>>

DedupKeep ==
    /\ pc = "dedup" /\ i <= count /\ ~SameAsNext
    /\ arr' = [arr EXCEPT ![write + 1] = arr[i]]
    /\ write' = write + 1
    /\ i' = i + 1
    /\ UNCHANGED <<enc, arrBlock, cap, count, pc, writer, user, lost, heap, bad, added>>

DedupEnd ==
    /\ pc = "dedup" /\ i > count
    /\ count' = write
    /\ pc' = "check"
    /\ UNCHANGED <<enc, arrBlock, cap, arr, i, write, writer, user, lost, heap, bad, added>>

\* The alphabet is too wide, or there is no memory for the writer.
BuildRefused ==
    /\ pc = "check"
    /\ pc' = "idle"
    /\ UNCHANGED <<enc, entryVars, i, write, writer, user, lost, heap, bad, added>>

\* tp_bs_writer_create
OpenWriter(w, b) ==
    /\ pc = "check"
    /\ w # b
    /\ writer' = [self |-> w, buf |-> b]
    /\ heap' = heap \cup {w, b}
    /\ pc' = "write"
    /\ UNCHANGED <<enc, entryVars, i, write, user, lost, bad, added>>

\* A value that cannot be encoded, a stream of more than 2^32 bits, or no memory
\* for a longer buffer: the writer is destroyed.
WriteFails ==
    /\ pc = "write"
    /\ Free({writer.self, writer.buf})
    /\ writer' = NoWriter
    /\ pc' = "idle"
    /\ UNCHANGED <<enc, entryVars, i, write, user, lost, added>>

\* ensure_capacity: the buffer of the writer is reallocated.
WriterGrows(b) ==
    /\ pc = "write"
    /\ b \notin heap
    /\ writer' = [self |-> writer.self, buf |-> b]
    /\ heap' = (heap \ {writer.buf}) \cup {b}
    /\ UNCHANGED <<enc, entryVars, pc, i, write, user, lost, bad, added>>

\* The buffer is detached and handed to the caller, the writer destroyed.
BuildDone ==
    /\ pc = "write"
    /\ user' = user \cup {writer.buf}
    /\ Free({writer.self})
    /\ writer' = NoWriter
    /\ pc' = "idle"
    /\ UNCHANGED <<enc, entryVars, i, write, lost, added>>

\* The buffer is detached, but the writer gets no new one.  The build returns the
\* error and keeps the address of the buffer to itself.
DetachFails ==
    /\ pc = "write"
    /\ user' = user \cup {writer.buf} /\ lost' = lost \cup {writer.buf}
    /\ Free({writer.self})
    /\ writer' = NoWriter
    /\ pc' = "idle"
    /\ UNCHANGED <<enc, entryVars, i, write, added>>

-----------------------------------------------------------------------------
\* Mutant: the slots behind count are freed too.
AllSlotBlocks ==
    (UNION {Owned(arr[n]) : n \in {m \in 1..cap : arr[m] # Garbage}}) \cup ({arrBlock} \ {NoBlock})

\* The blocks that both tp_encoder_reset and tp_encoder_destroy free.
EntryBlocks == (UNION {Owned(arr[n]) : n \in 1..count}) \cup ({arrBlock} \ {NoBlock})

\* tp_encoder_reset
Reset ==
    /\ Ready
    /\ Free(EntryBlocks)
    /\ arrBlock' = NoBlock /\ cap' = 0 /\ arr' = NoSlots /\ count' = 0
    /\ added' = NothingAdded
    /\ UNCHANGED <<enc, buildVars>>

\* tp_encoder_destroy
Destroy ==
    /\ Ready
    /\ Free(EntryBlocks \cup {enc})
    /\ enc' = NoBlock
    /\ arrBlock' = NoBlock /\ cap' = 0 /\ arr' = NoSlots /\ count' = 0
    /\ added' = NothingAdded
    /\ UNCHANGED buildVars

\* The caller frees a buffer that a build returned.
UserFree(b) ==
    /\ b \in user \ lost
    /\ user' = user \ {b}
    /\ Free({b})
    /\ UNCHANGED <<enc, entryVars, pc, i, write, writer, lost, added>>

Fresh == Block \ heap

Next ==
    \/ \E b \in Fresh : Create(b) \/ WriterGrows(b)
    \/ \E k \in Key, v \in Val, b, kb \in Block, vb \in Block \cup {NoBlock} : Add(k, v, b, kb, vb)
    \/ \E k \in Key, v \in Val, b, kb \in Block : AddValueFails(k, v, b, kb)
    \/ \E b \in Block : AddKeyFails(b)
    \/ BuildSort \/ DedupDrop \/ DedupKeep \/ DedupEnd \/ BuildRefused
    \/ \E w, b \in Fresh : OpenWriter(w, b)
    \/ WriteFails \/ BuildDone \/ DetachFails
    \/ Reset \/ Destroy
    \/ \E b \in user : UserFree(b)

Spec == Init /\ [][Next]_vars

-----------------------------------------------------------------------------
\* Types, and the bounds of the loop of dedup_entries: it writes behind where
\* it reads, inside the array.
TypeOK ==
    /\ enc \in Block \cup {NoBlock} /\ arrBlock \in Block \cup {NoBlock}
    /\ cap \in Nat /\ count \in 0..cap
    /\ arr \in [1..cap -> Slot \cup {Garbage}]
    /\ pc \in {"idle", "dedup", "check", "write"}
    /\ i \in Nat /\ write \in Nat
    /\ pc = "dedup" => i \in 1..count + 1 /\ write < i
    /\ writer \in [self : Block \cup {NoBlock}, buf : Block \cup {NoBlock}]
    /\ user \subseteq Block /\ lost \subseteq user /\ heap \subseteq Block
    /\ bad \in BOOLEAN
    /\ DOMAIN added \subseteq Key /\ \A k \in DOMAIN added : added[k] \in Val

\* The blocks that are not the property of an entry.
BaseBlocks == ({enc, arrBlock, writer.self, writer.buf} \ {NoBlock}) \cup user

\* Every entry that counts owns a key, and a copy of its value exactly when the
\* value points to memory.
Whole(s) ==
    /\ s \in Slot
    /\ s.keyBlock \in Block
    /\ IF s.val \in Pointing THEN s.valBlock \in Block ELSE s.valBlock = NoBlock
    /\ s.keyBlock # s.valBlock
EntriesWhole == \A n \in LiveSlots : Whole(arr[n])

\* No block has two owners: not two entries, not an entry and the encoder, the
\* writer or the caller, and not two of these.
BaseDistinct ==
    /\ enc # NoBlock => enc \notin {arrBlock, writer.self, writer.buf} \cup user
    /\ arrBlock # NoBlock => arrBlock \notin {writer.self, writer.buf} \cup user
    /\ writer.self # NoBlock => writer.self # writer.buf /\ writer.self \notin user
    /\ writer.buf # NoBlock => writer.buf \notin user

EntriesApart == \A m, n \in LiveSlots : m # n => Owned(arr[m]) \cap Owned(arr[n]) = {}
EntriesOffBase == \A n \in LiveSlots : Owned(arr[n]) \cap BaseBlocks = {}
SingleOwner == EntriesApart /\ EntriesOffBase /\ BaseDistinct

\* At every step of adding, of the in-place deduplication and of a build, failed
\* ones included, exactly the blocks of the encoder and the detached buffers are
\* allocated: no pointer in use dangles, and nothing else leaks.
Reachable(x) == x \in BaseBlocks \/ \E n \in LiveSlots : x \in Owned(arr[n])
HeapExact == heap = {x \in Block : Reachable(x)}

Ownership == EntriesWhole /\ SingleOwner /\ HeapExact

\* Nothing is ever freed twice, and no memory of the caller is freed.
NoBadFree == ~bad

\* What the trie is written from (pc past dedup_entries) is strictly sorted and
\* has exactly the keys that were added: the precondition of trie_write.
Prepared == pc \in {"check", "write"}
StrictlySorted ==
    Prepared =>
        /\ \A m, n \in 1..count : m < n => arr[m].key < arr[n].key
        /\ {arr[n].key : n \in 1..count} = DOMAIN added

\* Of the values added for a key the last one is written (comment on
\* dedup_entries: "keep last added").
LastAddedWins ==
    Prepared => \A n \in 1..count : arr[n].val = added[arr[n].key]

-----------------------------------------------------------------------------
\* The map that the array stands for, at any time: of the entries that count for a
\* key, the last one has its value.
Keys == {arr[n].key : n \in LiveSlots}
LastSlot(k) == CHOOSE n \in LiveSlots : arr[n].key = k /\ \A m \in LiveSlots : m > n => arr[m].key # k
Content == [k \in Keys |-> arr[LastSlot(k)].val]

\* What the trie is written from, and how far the build is.
Listing == IF Prepared THEN [n \in 1..count |-> [key |-> arr[n].key, val |-> arr[n].val]] ELSE <<>>

Stage == CASE pc = "idle" -> "idle" [] pc = "dedup" -> "prepare" [] OTHER -> "write"

Builder == INSTANCE MapBuilder WITH
    File <- Block,
    exists <- enc # NoBlock, content <- Content,
    stage <- Stage, listing <- Listing,
    files <- user \ lost

\* The array behaves as a map: growing it, sorting it, deduplicating it in place, and
\* every refusal on the way, lose, change and add nothing, and a build writes exactly
\* the map, in the order of the keys.
ImplementsBuilder == Builder!Spec

-----------------------------------------------------------------------------
\* The strengthening of these properties that every step preserves.

\* When there is no encoder there is no array, an array has slots, and a writer
\* exists exactly while a build writes.
Protocol ==
    /\ enc = NoBlock => arrBlock = NoBlock /\ pc = "idle"
    /\ arrBlock = NoBlock <=> cap = 0
    /\ IF pc = "write" THEN writer.self # NoBlock /\ writer.buf # NoBlock ELSE writer = NoWriter

\* The loop of dedup_entries: what is compacted is strictly sorted and less than
\* what is to come, which is sorted.
LoopSorted ==
    pc = "dedup" =>
        /\ \A m, n \in 1..write : m < n => arr[m].key < arr[n].key
        /\ \A m, n \in i..count : m < n => arr[m].key <= arr[n].key
        /\ \A m \in 1..write, n \in i..count : arr[m].key < arr[n].key
PreparedSorted ==
    Prepared => \A m, n \in 1..count : m < n => arr[m].key < arr[n].key

\* The entries that count have exactly the keys that were added, at any time.
KeysKept ==
    /\ \A n \in LiveSlots : arr[n].key \in DOMAIN added
    /\ \A k \in DOMAIN added : \E n \in LiveSlots : arr[n].key = k

\* The last entry that counts for a key has the value added last.
LastKept ==
    \A n \in LiveSlots :
        (\A m \in LiveSlots : m > n => arr[m].key # arr[n].key) => arr[n].val = added[arr[n].key]

IInv == TypeOK /\ Protocol /\ Ownership /\ NoBadFree /\ LoopSorted /\ PreparedSorted /\ KeysKept
=============================================================================
