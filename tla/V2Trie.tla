------------------------------ MODULE V2Trie ------------------------------
(***************************************************************************)
(* The core of format v2 as src/tools/v2_prototype.c builds and reads it:  *)
(* a radix trie over the words of a file, numbered breadth first and       *)
(* written as three ranked bit vectors, a run of labels, a pool of tails   *)
(* and a run of values; every lookup goes through those.  The value of a   *)
(* word is the line it stands on, from 0, and the last line wins.          *)
(*                                                                         *)
(* The tool has its own copies of the ranked bit vector and of the tail    *)
(* pool; modules BitVec and Tails model the library's.                     *)
(***************************************************************************)
EXTENDS BitVec, Tails

CONSTANTS
    WordLists,      \* the files: sequences of words
    QueryWords,     \* the words that are looked up
    LebBits,        \* payload bits of a byte of a LEB128 number: 7 in the code
    Sample          \* values between two entries of the sampled index: 32 in the code

ASSUME ValueAssumption == LebBits \in Nat \ {0} /\ Sample \in Nat \ {0}

VARIABLES
    words,          \* the file
    read,           \* how many of its words are in the trie
    stage,          \* "insert", "serialise", "index", "pool" or "ready"
    root,           \* the trie
    bfs,            \* its nodes, numbered: the node with number n is bfs[n + 1]
    labels, values, \* the runs of labels and of values
    valueOff,       \* where each value begins
    built,          \* the three bit vectors, by name
    answer          \* of the last lookup
v2Vars == <<bvVars, tailVars, words, read, stage, root, bfs, labels, values, valueOff, built, answer>>

NewNode(label) ==
    [label |-> label, tail |-> <<>>, kids |-> <<>>, terminal |-> FALSE, value |-> 0]
NotAsked == [word |-> <<>>, found |-> FALSE, value |-> 0, asked |-> FALSE]

V2Init ==
    /\ BitVecInit /\ TailsInit
    /\ words \in WordLists /\ read = 0 /\ stage = "insert"
    /\ root = NewNode(0) /\ bfs = <<>> /\ labels = <<>> /\ values = <<>> /\ valueOff = <<>>
    /\ built = <<>> /\ answer = NotAsked

-----------------------------------------------------------------------------
\* trie_insert and child_get_or_add: children are kept in the order of their labels.
RECURSIVE TrieInsert(_, _, _)
TrieInsert(v, key, value) ==
    IF key = <<>> THEN [v EXCEPT !.terminal = TRUE, !.value = value]
    ELSE LET below == Cardinality({i \in DOMAIN v.kids : v.kids[i].label < Head(key)})
             has == below < Len(v.kids) /\ v.kids[below + 1].label = Head(key)
             kid == IF has THEN v.kids[below + 1] ELSE NewNode(Head(key))
             grown == TrieInsert(kid, Tail(key), value)
         IN  [v EXCEPT !.kids = IF has THEN ReplaceAt(@, below + 1, grown) ELSE InsertAt(@, below + 1, grown)]

\* trie_compress: a node without a word and with one child takes that child in.
\* Mutant: a word inside a chain does not stop it.
IsChainAnyway(c) == Len(c.kids) = 1
IsChain(c) == Len(c.kids) = 1 /\ ~c.terminal
RECURSIVE Absorb(_)
\* Mutant: one node is taken in, not the whole chain.
AbsorbOne(c) ==
    IF IsChain(c)
    THEN LET g == c.kids[1]
         IN  [g EXCEPT !.label = c.label, !.tail = c.tail \o <<g.label>> \o g.tail]
    ELSE c
Absorb(c) ==
    IF IsChain(c)
    THEN LET g == c.kids[1]
         IN  Absorb([g EXCEPT !.label = c.label, !.tail = c.tail \o <<g.label>> \o g.tail])
    ELSE c
RECURSIVE TrieCompress(_)
TrieCompress(v) == [v EXCEPT !.kids = [i \in DOMAIN v.kids |-> TrieCompress(Absorb(v.kids[i]))]]

\* The nodes in breadth-first order.
RECURSIVE BreadthFirst(_)
BreadthFirst(queue) ==
    IF queue = <<>> THEN <<>>
    ELSE <<Head(queue)>> \o BreadthFirst(Tail(queue) \o Head(queue).kids)

\* leb128_write and leb128_read, which answers with the number and the place behind it.
RECURSIVE Leb(_)
Leb(n) ==
    IF n < 2^LebBits THEN <<n>> ELSE <<2^LebBits + (n % 2^LebBits)>> \o Leb(n \div 2^LebBits)
RECURSIVE LebRead(_)
LebRead(pos) ==
    LET byte == values[pos + 1]
        rest == LebRead(pos + 1)
    IN  IF byte < 2^LebBits THEN [val |-> byte, pos |-> pos + 1]
        ELSE [val |-> byte - 2^LebBits + 2^LebBits * rest.val, pos |-> rest.pos]

-----------------------------------------------------------------------------
\* main, reading: one word of the file.
Insert ==
    /\ stage = "insert" /\ read < Len(words)
    /\ root' = TrieInsert(root, words[read + 1], read)
    /\ read' = read + 1
    /\ UNCHANGED <<bvVars, tailVars, words, stage, bfs, labels, values, valueOff, built, answer>>

Compress ==
    /\ stage = "insert" /\ read = Len(words)
    /\ stage' = "serialise"
    /\ root' = TrieCompress(root)
    /\ bfs' = BreadthFirst(<<root'>>)
    /\ UNCHANGED <<bvVars, tailVars, words, read, labels, values, valueOff, built, answer>>

Ones(n) == [i \in 1..n |-> 1]
Flag(b) == IF b THEN 1 ELSE 0
Plain == [ louds |-> FlattenSeq([n \in DOMAIN bfs |-> Append(Ones(Len(bfs[n].kids)), 0)]),
           terminals |-> [n \in DOMAIN bfs |-> Flag(bfs[n].terminal)],
           present |-> [n \in 1..Len(bfs) - 1 |-> Flag(bfs[n + 1].tail # <<>>)] ]
Order == <<"louds", "present", "terminals">>

\* The loop over the numbered nodes.
Serialise ==
    LET valued == SelectSeq(bfs, LAMBDA v : v.terminal)
        encoded == [n \in DOMAIN valued |-> Leb(valued[n].value)]
    IN  /\ stage = "serialise"
        /\ stage' = "index"
        /\ labels' = [n \in 1..Len(bfs) - 1 |-> bfs[n + 1].label]
        /\ values' = FlattenSeq(encoded)
        /\ valueOff' = [n \in DOMAIN valued |-> Len(FlattenSeq(SubSeq(encoded, 1, n - 1)))]
        /\ UNCHANGED <<bvVars, tailVars, words, read, root, bfs, built, answer>>

\* bv_build_index for the three vectors in turn; then the pool is begun.
NextVector == Plain[Order[Len(built) + 1]]
EdgeTails == LET edges == SelectSeq(Tail(bfs), LAMBDA v : v.tail # <<>>)
             IN  [n \in DOMAIN edges |-> edges[n].tail]
Index ==
    /\ stage = "index"
    /\ \/ Len(built) < 3 /\ Create(NextVector) /\ UNCHANGED <<tailVars, built, stage>>
       \/ (IndexStep \/ IndexDone) /\ UNCHANGED <<tailVars, built, stage>>
       \/ /\ Destroy
          /\ built' = Append(built, bv)
          /\ UNCHANGED <<tailVars, stage>>
       \/ /\ Len(built) = 3 /\ BuildPool(EdgeTails) /\ stage' = "pool"
          /\ UNCHANGED <<bvVars, built>>
    /\ UNCHANGED <<words, read, root, bfs, labels, values, valueOff, answer>>

PoolStep ==
    /\ stage = "pool" /\ (EmitTail \/ PoolDone)
    /\ stage' = (IF tpc' = "ready" THEN "ready" ELSE stage)
    /\ UNCHANGED <<bvVars, words, read, root, bfs, labels, values, valueOff, built, answer>>

-----------------------------------------------------------------------------
Louds == built[1]
Present == built[2]
Terminals == built[3]

\* The binary search for a byte among the children of a node; the number of the child
\* or 0.
RECURSIVE FindChild(_, _, _, _)
FindChild(node, byte, lo, hi) ==
    IF lo >= hi THEN 0
    ELSE LET mid == (lo + hi) \div 2
             child == LoudsChild(Louds, node, mid)
         IN  IF labels[child] < byte THEN FindChild(node, byte, mid + 1, hi)
             ELSE IF labels[child] = byte THEN child
             ELSE FindChild(node, byte, lo, mid)

\* The tail on the edge into a node, taken from the pool.
TailAt(node) ==
    IF Bit(Present, node - 1) = 0 THEN <<>>
    ELSE TailBytes(TailRef(Rank1(Present, node - 1) + 1))

\* The node that a word leads to from a node, or -1.
RECURSIVE Descend(_, _)
Descend(node, key) ==
    IF key = <<>> THEN node
    ELSE LET child == FindChild(node, Head(key), 0, LoudsChildCount(Louds, node))
             tail == TailAt(child)
         IN  IF child = 0 THEN -1
             ELSE IF ~IsPrefix(tail, Tail(key)) THEN -1
             ELSE Descend(child, SubSeq(key, Len(tail) + 2, Len(key)))

\* The value of a node: by its number among the terminals, from the last sampled
\* offset before it.
RECURSIVE SkipLebs(_, _)
SkipLebs(pos, n) == IF n = 0 THEN pos ELSE SkipLebs(LebRead(pos).pos, n - 1)
FromFirstSample(ordinal) == SkipLebs(valueOff[1], ordinal % Sample)     \* mutant
FromSample(ordinal) == SkipLebs(valueOff[(ordinal \div Sample) * Sample + 1], ordinal % Sample)

Lookup(word) ==
    LET node == Descend(0, word)
        found == node # -1 /\ Bit(Terminals, node) = 1
    IN  /\ stage = "ready"
        /\ answer' = [ word |-> word, asked |-> TRUE, found |-> found,
                       value |-> IF found THEN LebRead(FromSample(Rank1(Terminals, node))).val ELSE 0 ]
        /\ UNCHANGED <<bvVars, tailVars, words, read, stage, root, bfs, labels, values, valueOff, built>>

Construct == Insert \/ Compress \/ Serialise \/ Index \/ PoolStep
V2Next == Construct \/ \E word \in QueryWords : Lookup(word)

\* The tool is one run of a program: once it has started it goes on.
V2Spec == V2Init /\ [][V2Next]_v2Vars /\ WF_v2Vars(Construct)

-----------------------------------------------------------------------------
\* A lookup through bits, labels, tails and samples finds exactly the words of the
\* file, with the last line each stands on.
LookupExact ==
    answer.asked =>
        LET lines == {i \in DOMAIN words : words[i] = answer.word}
        IN  /\ answer.found = (lines # {})
            /\ answer.found => answer.value = (CHOOSE i \in lines : \A j \in lines : j <= i) - 1

\* The LOUDS bits are the tree: the k-th child of a node, found by rank and select, is
\* the node that holds it, and no node has another parent or is missed.
TreeInBits ==
    stage = "ready" =>
        /\ \A n \in 0..Len(bfs) - 1 :
            /\ LoudsChildCount(Louds, n) = Len(bfs[n + 1].kids)
            /\ \A k \in 0..Len(bfs[n + 1].kids) - 1 : bfs[LoudsChild(Louds, n, k) + 1] = bfs[n + 1].kids[k + 1]
        /\ {LoudsChild(Louds, n, k) : <<n, k>> \in
               {<<n, k>> \in (0..Len(bfs) - 1) \X (0..Len(labels)) : k < Len(bfs[n + 1].kids)}} = 1..Len(bfs) - 1

\* The trie is written in its shortest form: below the root, a node holds a word or has
\* several children.
RadixForm ==
    stage # "insert" =>
        \A n \in 2..Len(bfs) : bfs[n].terminal \/ Len(bfs[n].kids) > 1

\* Building ends, whatever the words are.
Builds == <>(stage = "ready")
=============================================================================
