---------------------------- MODULE Dictionary ----------------------------
(***************************************************************************)
(* The life of a dictionary: entries are compiled into a buffer, the       *)
(* buffer is opened, keys are looked up and iterators made, stepped, reset *)
(* and destroyed.  Everything after the build is answered from the bits of *)
(* the buffer by the operators of TrieDecode and TrieIterate.              *)
(***************************************************************************)
EXTENDS TrieIterate, Keys

CONSTANTS
    Maps,           \* the contents that may be compiled: functions on keys
    QueryKeys,      \* the keys and prefixes that are asked for
    FixedBits       \* the values of opts.bits_per_symbol in use; 0 is automatic

\* A key is a sequence of bytes, and an encoder holds finitely many.
ASSUME MapsAssumption == \A m \in Maps : IsFiniteSet(DOMAIN m) /\ DOMAIN m \subseteq Seq(0..255)

\* tp_encoder_create_ex refuses anything wider than the field of the header.
ASSUME FixedBitsAssumption == FixedBits \subseteq 0..15

VARIABLES
    contents,       \* what was compiled; the reader never looks at it
    dict,           \* the open tp_dict, or Closed
    it,             \* the tp_iterator, or NoIter
    asked,          \* the prefix that the iterator was made for
    left,           \* the keys of its range that it has not yielded
    out             \* the answer of the last call
vars == <<contents, dict, it, asked, left, out>>

Closed == [rc |-> "closed"]
NoIter == [rc |-> "none"]
IsOpen == dict # Closed
HasIter == it # NoIter

\* The keys below the root of an iterator.
RangeOf(i, p) == IF i.root_key_len = 0 THEN DOMAIN contents ELSE WithPrefix(DOMAIN contents, p)

Truth(b) == [type |-> "BOOL", data |-> b]
Answer(op, k, rc, v) == [op |-> op, key |-> k, rc |-> rc, val |-> v]
Nothing == Answer("none", <<>>, "OK", NullValue)

\* The entries of the encoder after sort_entries and dedup_entries.
Entries(m) ==
    LET keys == SortedKeys(DOMAIN m)
    IN  [i \in DOMAIN keys |-> [key |-> keys[i], val |-> m[keys[i]]]]

Init ==
    /\ contents = <<>> /\ dict = Closed
    /\ it = NoIter /\ asked = <<>> /\ left = {}
    /\ out = Nothing

\* tp_encoder_build and tp_dict_open.  A build that is refused opens nothing.
OpenBuilt(m, built, opened) ==
    IF built.rc = "OK" /\ opened.rc = "OK"
    THEN /\ dict' = opened.val /\ contents' = m
         /\ out' = Answer("open", <<>>, "OK", NullValue)
    ELSE /\ UNCHANGED <<dict, contents>>
         /\ out' = IF built.rc = "OK" THEN Answer("open", <<>>, opened.rc, NullValue)
                   ELSE Answer("build", <<>>, built.rc, NullValue)
BuildAndOpen(m, fixed) ==
    LET built == Build(Entries(m), fixed)
    IN  /\ ~IsOpen
        /\ OpenBuilt(m, built, Open(built.buf, TRUE))
        /\ UNCHANGED <<it, asked, left>>

\* tp_dict_lookup_n.  It makes a reader of its own and touches no iterator, so
\* to bound the states it is called while there is none.
AnswerLookup(k, r) == out' = Answer("lookup", k, r.rc, IF r.rc = "OK" THEN r.val ELSE NullValue)
LookupKey(k) ==
    /\ IsOpen /\ ~HasIter
    /\ AnswerLookup(k, Lookup(dict, k))
    /\ UNCHANGED <<contents, dict, it, asked, left>>

\* tp_dict_contains
AnswerContains(k, r) == out' = Answer("contains", k, r.rc, Truth(r.rc = "OK" /\ r.val))
ContainsKey(k) ==
    /\ IsOpen /\ ~HasIter
    /\ AnswerContains(k, DictContains(dict, k))
    /\ UNCHANGED <<contents, dict, it, asked, left>>

\* tp_dict_iterate (the empty prefix) and tp_dict_find_prefix
StartAt(p, r) ==
    /\ it' = (IF r.rc = "OK" THEN r.it ELSE NoIter)
    /\ left' = (IF r.rc # "OK" \/ r.it.done THEN {} ELSE RangeOf(r.it, p))
    /\ out' = Answer("find", p, r.rc, NullValue)
Find(p) ==
    /\ IsOpen /\ ~HasIter
    /\ StartAt(p, FindPrefix(dict, p)) /\ asked' = p
    /\ UNCHANGED <<contents, dict>>

\* tp_iter_next
Step(r) ==
    /\ it' = r.it
    /\ left' = (IF r.out.rc = "OK" THEN left \ {r.out.key} ELSE {})
    /\ out' = Answer("next", r.out.key, r.out.rc, r.out.val)
NextEntry ==
    /\ HasIter
    /\ Step(IterNext(dict, it))
    /\ UNCHANGED <<contents, dict, asked>>

\* tp_iter_reset
ResetIter ==
    /\ HasIter
    /\ it' = IterReset(dict, it)
    /\ left' = RangeOf(it, asked)
    /\ out' = Answer("reset", <<>>, "OK", NullValue)
    /\ UNCHANGED <<contents, dict, asked>>

\* tp_iter_destroy
DestroyIter ==
    /\ HasIter
    /\ it' = NoIter /\ asked' = <<>> /\ left' = {}
    /\ out' = Nothing
    /\ UNCHANGED <<contents, dict>>

\* tp_dict_close; an iterator points into its dictionary and goes first.
Close ==
    /\ IsOpen /\ ~HasIter
    /\ dict' = Closed /\ contents' = <<>>
    /\ out' = Nothing
    /\ UNCHANGED <<it, asked, left>>

Next ==
    \/ \E m \in Maps, fixed \in FixedBits : BuildAndOpen(m, fixed)
    \/ \E k \in QueryKeys : LookupKey(k) \/ ContainsKey(k) \/ Find(k)
    \/ NextEntry \/ ResetIter \/ DestroyIter \/ Close

Spec == Init /\ [][Next]_vars

-----------------------------------------------------------------------------
\* The iterator stands inside the buffer: the frames of its stack are nested
\* like the subtrees they stand for, each with a child left to start before the
\* end of its own subtree, and the stack never outgrows TP_ITER_MAX_DEPTH.
TypeOK ==
    /\ IsOpen => /\ HeaderBits < dict.trie_start /\ dict.trie_start <= dict.value_start
                 /\ dict.value_start <= Len(dict.buf)
                 /\ dict.num_keys = Cardinality(DOMAIN contents)
    /\ HasIter =>
        /\ IsOpen
        /\ dict.trie_start <= it.root_pos /\ it.root_pos <= it.root_end
        /\ it.root_end <= dict.value_start
        /\ Len(it.stack) <= MaxDepth
        /\ \A i \in DOMAIN it.stack :
            LET f == it.stack[i]
                outer == IF i = 1 THEN it.root_end ELSE it.stack[i - 1].subtree_end
            IN  /\ f.subtree_end <= outer /\ f.key_prefix_len <= Len(it.key)
                /\ f.remaining > 0 => f.next_child_pos < f.subtree_end

\* The dry run that sizes subtrees for SKIP distances (trie_subtree_size) counts
\* exactly the bits and value slots that trie_write then produces, whatever the
\* width of a symbol, and every entry gets one slot.  (It is asked of the contents
\* when they have just been compiled; they stay as they are until the closing.)
DryRunAgrees(E, hasValues, sym) ==
    LET written == TrieWrite(E, 1, Len(E) + 1, 0, hasValues, 0, sym)
        sized == SubtreeSize(E, 1, Len(E) + 1, 0, hasValues, 0, sym.bps)
    IN  sized.bits = Len(written.bits) /\ sized.vi = written.vi /\ written.vi = Len(E)
DryRunExact ==
    out.op = "open" /\ out.rc = "OK" /\ DOMAIN contents # {} =>
        LET E == Entries(contents)
        IN  \A fixed \in FixedBits : DryRunAgrees(E, HasValues(E), AnalyzeSymbols(E, fixed))

Map == INSTANCE OrderedMap WITH
    NoValue <- NullValue,
    loaded <- IsOpen,
    map <- contents,
    cursor <- HasIter,
    range <- IF HasIter THEN RangeOf(it, asked) ELSE {}

\* The bits of the buffer behave as the map that was compiled: every stored key
\* is found with its value, every other key that does not extend the greatest
\* one is not found, and an iterator yields exactly the keys of its range, in
\* byte order and with their values, before and after any reset.
ImplementsMap == Map!Spec

-----------------------------------------------------------------------------
\* What the documentation says beyond that.

\* A key that does not exist is answered with TP_ERR_NOT_FOUND
\* (docs/guide/api-reference.md, tp_dict_lookup).
AbsentIsNotFound ==
    out.op = "lookup" /\ out.key \notin DOMAIN contents => out.rc = "NOT_FOUND"

\* An iterator made by tp_dict_find_prefix yields keys with its prefix only
\* (include/triepack/triepack.h), also from the beginning after tp_iter_reset.
YieldsHavePrefix ==
    out.op = "next" /\ out.rc = "OK" => IsPrefix(asked, out.key)

\* A buffer that tp_encoder_build returns with TP_OK can be opened
\* (include/triepack/triepack_common.h: an alphabet too wide is refused "rather
\* than producing a dictionary that cannot be read").
BuiltIsReadable == out.op = "open" => out.rc = "OK"
=============================================================================
