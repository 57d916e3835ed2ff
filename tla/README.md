# TLA+ verification of triepack

triepack compiles a set of keys with values into a read-only buffer (`.trp`) in
which the keys form a bit-packed prefix trie. This directory models the C code: the
core library and its bit stream (`src/core`, `src/bitstream`), the JSON layer on top
(`src/json`), the pieces of the coming format v2 (`src/v2`, `tools/v2_prototype.c`)
and the text format terseml (`terseml/terseml.c`). TLC checks it on small instances;
TLAPS proves properties of the loops and state machines for every instance.

## The system

| part | state it keeps | operations | hard parts | correct when |
|---|---|---|---|---|
| bit stream (`src/bitstream`) | buffer, bit position, capacity; reader position | create, write items of any width, grow, detach, reader over a buffer or a copy, read, seek | growth in the middle of an item, unwritten bits that must be zero, reads cut at the end, spellings of code points | what is written is read back, no read passes the end |
| encoder (`src/core/encoder.c`) | array of entries with heap copies of keys and values | create, add, build, reset, destroy | partial failure of `add`, in-place deduplication, repeated builds | every block has one owner; builds start from sorted, unique entries |
| trie writer (`encoder.c`, `value.c`, `header.c`, `integrity.c`) | value index, position | symbol analysis, dry run, trie, value store, header, CRC | SKIP distances come from a dry run that must agree with the writing pass to the bit | the buffer denotes the map |
| reader (`src/core/decoder.c`) | parsed header and symbol table | open, lookup, contains, close | the trie has no end mark; damaged files | answers are those of the map |
| iterators (`decoder.c`) | stack of branches, key buffer, value cursor, root bounds | iterate, find_prefix, next, reset, destroy | cached value cursor, bounded stack, reset at any time | yields the keys of the range in order |
| JSON encoder (`src/json/json_encode.c`) | text position, path buffer, depth, entries given so far | parse and flatten, then build | every way out of a container restores path and depth; spellings of strings and numbers | accepts the grammar, and gives the encoder the leaves under their paths |
| JSON decoder (`json_decode.c`, `json_dom.c`) | a walk over the bits with its own stack; sorted entries | decode, lookup of a path, count, root type | a second walk over the trie, apart from the iterator; nesting rebuilt from sorted flat keys | decode inverts encode; a path leads to its leaf |
| format v2 (`src/v2`, `tools/v2_prototype.c`) | ranked bit vectors, tail pool, runs of labels and values | build index, rank, select, LOUDS steps, merge tails, build and look up words | block boundaries, four runs kept in step by one numbering | equals the naive definitions; lookups are exact |
| terseml (`terseml/terseml.c`) | reader position, depth, tree | build trees, encode, decode one element or a document | escapes that depend on the place, three forms of a text, lengths from the input | decode inverts encode, nothing truncated is accepted |
| suffix table, fuzzy search | none | stubs that refuse | - | - |
| C++ wrapper, bindings, other tools and examples | a handle | forwarders, re-implementations of the format, programs that print | - | - |

The user calls the encoder; `tp_encoder_build` runs the trie writer over the bit
stream and hands a buffer to the user; the reader opens that buffer and never
copies it; iterators point into the reader. `tp_json_encode` is a user of the
encoder, `tp_json_decode` opens the buffer and then reads the bits itself. Format v2
and terseml share no state with the rest. Nothing runs concurrently: the hard
part is long sequences of legal calls, refused allocations, input of any form, and
offsets, counters and caches that have to stay in step. `PROJECT.json` lists the
hazards line by line.

## Modules

| module | models | remarks |
|---|---|---|
| `Bitstream` | bit stream reads and VarInts | operators on sequences of bits; a position is a bit offset |
| `BitWriter` | the growable writer | one step for each write and for each turn of the loop of `ensure_capacity` |
| `BitIO` | typed items through `BitWriter`, detach, both kinds of reader, UTF-8 | an item is one or more calls of `tp_bs_write_bits`, any of which may have to grow |
| `TrieEncode` | `tp_encoder_build` after the deduplication | recursive functions over the nodes of the trie that follow `trie_subtree_size` and `trie_write`; produces the whole file with its CRC |
| `TrieDecode` | `dict_open_impl`, `parse_trie_config`, `tp_dict_lookup_n`, `tp_value_decode` | answers from the bits alone; result codes as in the code |
| `TrieIterate` | `tp_iter_next`, `tp_iter_reset`, `descend_to_prefix`, `tp_dict_find_prefix` | an iterator is a record with the fields of `tp_iterator` |
| `Keys` | `entry_cmp` and ranges of keys | |
| `OrderedMap` | nothing: the abstract specification | a map and a cursor over a range of its keys |
| `Dictionary` | the life of a dictionary, composed of the four above | state: the open dictionary, one iterator, the last answer; `contents`, `asked` and `left` are history that the reader never sees |
| `Damage` | a file from the writer to the reader, composed of `BitIO` and `TrieDecode` | written field by field through the growing buffer, detached, patched, stored, then damaged and opened |
| `Encoder` | the encoder object and its heap | addresses are model values, a freed address can be handed out again; `qsort` is any sorting permutation; one step for each turn of the loop of `dedup_entries` |
| `MapBuilder` | nothing: the abstract specification of the encoder | a map that grows entry by entry, and files made of it |
| `JsonText` | bytes to tokens (`parse_string`, `parse_number`, ...) and values to bytes (`emit_value`, `emit_json_string`) | saturating integers of `WordBits` bits, doubles as multiples of 1/4 |
| `JsonParse` | `tp_json_encode` over tokens | the recursion is a stack, a step goes from one call of `parse_value` to the next |
| `JsonDocument` | nothing: documents, their tokens, their leaves, the grammar | the reference that `JsonParse` and `JsonDecode` are compared with |
| `JsonWalk` | `extract_entries`, opening included | a step is a symbol of the trie |
| `JsonDecode` | sorting and `emit_json`, behind `JsonWalk` | |
| `Json` | text, entries, buffer, decode and DOM, composed of the five above, `TrieEncode` and `TrieDecode` | |
| `BitVec` | `src/v2/v2_bitvec.c` | one step for each turn of the index loop; queries are operators |
| `Tails` | `src/v2/v2_tails.c` | one step for each tail that is emitted |
| `V2Trie` | the trie, its serialisation and its lookups in `tools/v2_prototype.c` | composed of `BitVec` and `Tails`; three bit vectors, one after the other |
| `TersemlTree`, `TersemlEncode` | bytes and trees; building and canonical bytes | |
| `TersemlDecode` | the decoder | the recursion of `decode_element` is a stack, that of the readers of names and texts a recursive function |
| `Terseml` | trees encoded, decoded and encoded again, composed of the two above | |
| `EncoderProofs` | proofs about `Encoder` | |
| `TrieProofs` | proofs about `Dictionary` | |
| `FileProofs` | proofs about `BitWriter`, `BitIO` and `Damage` | |
| `JsonProofs` | proofs about `JsonParse` and `JsonWalk` | |
| `V2Proofs` | proofs about `BitVec` and `Tails` | |
| `TersemlProofs` | proofs about `TersemlDecode` | |
| `Induction`, `FormatLemmas` | lemmas: induction through sets of numbers, folds, ordered sets, lists; what the operators of `Bitstream` and `TrieEncode` return, and what is read of fields and VarInts once written | |
| `MC*` | instances for TLC | |

Definitions with `mutant` in their comment are faulty variants used to test that
the properties can fail.

### How the state corresponds to the code

* `Encoder`: `enc`, `arrBlock`, `cap`, `count` are the pointer to the encoder and
  its fields `entries`, `entries_cap`, `count`. `arr[n]` is `entries[n-1]`, stale
  contents behind `count` included: `AddValueFails` leaves a freed key and the
  caller's pointer there, `DedupDrop` a freed key. `pc`, `i`, `write` are the
  progress of a build. `heap` and `bad` are the allocator's view. `added` is what
  the caller expects. A refused `realloc` or `malloc` before any change is a
  stuttering step.
* `Dictionary`: `dict` is the `tp_dict`, `it` the `tp_iterator`. A lookup makes its
  own reader and touches no iterator, so the model does it while there is none.
* Numbers read from a buffer are saturated at `WordMax`, far beyond the length of
  any buffer here; such a distance fails in the next read as it does in the code.
* `BitWriter`: `mem`, `cap`, `growth`, `wpos` are the fields of
  `tp_bitstream_writer`; `want` and `growTo` are the argument and the variable of the
  loop of `ensure_capacity`; `written` is history. `BitIO`: `phase` tells who owns the
  buffer; `calls` are the calls that the item under way still makes; `rpos`, `rlen`
  are the reader's. A refused allocation leads to phase "broken", in which the writer is destroyed or,
  after a failed detach, used again.
* `Damage`: `original` is what `TrieEncode` describes; `FileItems` are the items that
  `tp_encoder_build` writes: the header field by field, the data in pieces of up to 7
  bits, the padding and the CRC; `Patch` is what it does to the detached buffer.
* `JsonParse`: `depth`, `path`, `root` are the fields of `json_parser`; a frame of
  `stack` holds the local variables of `parse_object` or `parse_array`, the saved path
  length among them; `entries` is what `tp_encoder_add_n` was given. Any addition may
  fail.
* `JsonWalk`: `walk` holds the local variables of `extract_entries`. A refused
  `malloc` for a key drops the entry, as the code does; so do bytes behind the
  `KeyCap - 1`st of a key, and a child count is cut to 32 bits (`CountLimit`).
  The control codes are compared in the order of the code, for in a damaged file two of
  them may be the same.
* `BitVec`: `at`, `total`, `within` are the variables of the loop of `tp2_bv_create`.
  `Tails`: `left` and `prev` those of the loop of `tp2_tailpool_build`. `V2Trie`:
  `stage` is the progress of one run of the tool.
* `Terseml`: `i`, `stack` are `Reader.i` and the calls of `decode_element` under way;
  the depth is the length of `stack`. A length that is read wraps at
  `ClaimLimit` (2^64). `round` 2 decodes what the first tree encodes to.

## Runs

| run | expects | shows |
|---|---|---|
| `dictionary` | pass | with the code's constants, all dictionaries of up to 4 of 7 keys under 4 assignments of values implement `OrderedMap` (`ImplementsMap`) |
| `scaled` | pass | the same with one-bit VarInt groups and a stack of two frames; iterators stay inside their subtrees (`TypeOK`); the dry run is exact (`DryRunExact`), SKIP distances of several groups included |
| `damage` | pass | the buffer of the writer holds what was written (`WriterExact`) and its growth ends (`GrowthEnds`); items of all types come back from every prefix of it, up to the first that is cut (`ReadBack`); a code point has one spelling (`OneSpelling`); a file written that way and patched is the one described (`StoredAsBuilt`) and is refused once damaged (`DamageRefused`) |
| `encoder` | pass | `TypeOK`, `Ownership`, `NoBadFree`, `StrictlySorted`, `LastAddedWins`; the encoder implements `MapBuilder` (`ImplementsBuilder`) |
| `json` | pass | the parser accepts exactly the grammar (`AcceptsGrammar`), flattens a document into its leaves (`FlattensDocument`), keeps its stack and counter (`TypeOK`, `DepthIsNesting`) and returns (`Terminates`); texts in bytes are read as what they spell (`SpellingRead`); the walk stays inside (`WalkInside`) and ends (`DecodeEnds`); plain documents come back (`RoundTrip`), paths lead to their last leaf (`PathsLead`), written values are read as themselves (`WrittenReads`) |
| `v2` | pass | rank and select are exact (`RankExact`, `SelectExact`); the pool is minimal and its references are right (`PoolMinimal`, `RefsLead`); the LOUDS bits are the tree (`TreeInBits`), which is a radix tree (`RadixForm`); lookups are exact (`LookupExact`); building ends (`Builds`) |
| `terseml` | pass | what is encoded is decoded (`RoundTrip`), nothing truncated is (`TruncationRefused`), texts take their shortest form (`ShortestForm`), the reader stays inside (`ReaderInside`) and returns (`Returns`) |
| `overrun` | violation of `AbsentIsNotFound` | a lookup of an extension of the greatest key reads the value store as trie |
| `prefix_reset` | violation of `YieldsHavePrefix` | resetting the iterator of an absent prefix makes it yield everything |
| `fixed_bits` | violation of `BuiltIsReadable` | builds with an unusable fixed symbol width succeed |
| `unstable_sort` | violation of `LastAddedWins` | without stability of `qsort` an earlier value can win |
| `json_prefix` | violation of `RoundTripAll` | a document in which a key begins its sibling does not come back: `emit_json` takes it for a container |

Each violation run states what the documentation or a comment says; `PROJECT.json`
quotes the lines. `OrderedMap` promises only what the code keeps in two respects:
nothing for a lookup past the greatest key, and the whole map for the reset cursor of
an absent prefix. Everything else in it is exact. `RoundTrip` is likewise stated for
plain documents (`Plain` in `Json`): no empty containers inside, no key that is empty,
begins its sibling or holds a character of the path notation. It says in which order the
elements of a long array come back (`IndexOrdered`), which is not the one of the document.
For keys that begin a sibling it says nothing, and two things go wrong in the code:
`emit_json` (`json_prefix`), and the walk, see below.

### Bounds, and why they are enough

* `dictionary`: the seven keys have shared prefixes, keys that are prefixes of
  others, a literal run of several bytes and the empty key; four of them give
  branches of two children, nested branches, terminals with and without a branch,
  and mixed null and non-null values (END and END_VAL). The three byte values are
  those of `a`, `b`, `c`; 9 symbols need 4 bits, 8 need 3.
* `scaled`: a VarInt group of the code holds 7 bits, so a SKIP distance of two
  groups needs a subtree of 128 bits. With `GroupBits = 1` every number above 1 has
  several groups; with `MaxDepth = 2` chains of keys overflow the iterator's stack
  (256 in the code). `FixedBits` 4 also exercises a fixed width that fits.
* `damage`: `DefaultCap` 2 and `FileCap` 4 stand for 256, `Caps` {0, 1}: two items
  then fill the buffer once or twice, at any bit of an item, and the file grows
  several times; `Growths` {0, 3} are doubling and fixed steps. Programs are pairs of
  items, a first one to leave the position unaligned and a second at the edges of its
  type. `Spellings` are all shapes of two to four bytes that are nearly a code
  point. One file of about 45 bytes; every burst of up to 4 bits at every place, every
  truncation, up to 5 bytes of padding (more than the CRC's 4).
* `encoder`: two keys, one value that points to memory and one that does not, six
  addresses: the encoder, the array and two entries with two blocks each, or fewer
  entries and a writer. `InitialCap` is 1 (16 in the code) so that the array grows
  twice. States with a fourth entry (`MaxEntries` is 3) are checked and not explored
  from: three entries over two keys give a triple, and a pair beside a single key,
  which is every shape a turn of the deduplication can meet. The addresses are
  symmetric: `Encoder` only compares them for equality.
* `json`: `MaxNesting` 3 (32 in the code) is passed by the deepest documents; all
  sequences of up to `MaxShort` 3 tokens, and documents of two levels cut, with a
  token missing and with a token replaced, reach every error path. `PathCap` 64 (4096) is
  more than any path here, and so is `KeyCap` 64 (4096); `CountLimit` 65536 (2^32) is more than
  any buffer here has room for. `MayRefuse` allows one refused allocation in a decode.
  `WordBits` 12 (64) brings the edges of the integers into TLC's range, at
  2^11 and 2^12; `NumberText` 64 is the code's. The texts in bytes hold every spelling of 22 code points
  at the edges of their classes, the edges of the integers, doubles by point and
  exponent, and malformed relatives of each. They come from an encoding in `MCJson`
  that follows the general rules and shares nothing with `JsonText`.
* `v2`: `SuperBits` 4 and `BlockBits` 2 (2048 and 256) put several blocks and
  superblocks, whole and begun, into vectors of a few bits; `LebBits` 1 (7) and
  `Sample` 2 (32) give values of several bytes and several samples. Files of up to
  `MaxLines` 3 lines of any words of one or two bytes, and every subset of six words with long
  chains and shared ends.
* `terseml`: texts of any two of ten bytes (`TextLength`), longer ones for each of the three forms, and
  any `BehindOpening` 3 bytes behind nine openings; `LebBits` 1, `MaxGroups` 4 and `ClaimLimit` 8 (7, 10
  and 2^64) make lengths of several bytes, overlong ones and one that wraps to a short one; `MaxDepth` 2 (256) is
  reached and passed. The program stops after its rounds, so deadlock is not checked.

### Fairness

A call of the library is one computation in one thread: once it has begun, nothing
but itself decides whether it goes on. Where the model cuts a call into steps, weak
fairness of those steps says just that, and liveness says that the call returns:
`Parse` for `Terminates` and `DecodeGoesOn` for `DecodeEnds` (`json`), `Construct` for
`Builds` (`v2`), `Read` for `Returns` (`terseml`), `Grow` for `GrowthEnds`
(`damage`). No fairness is assumed of the caller, of a refused allocation or of damage.
`GrowthEnds` leaves out one case, see below. `Dictionary` and `Encoder` claim no
liveness: their calls are single steps or loops with a plain counter.

## Proofs

| module | theorem | statement |
|---|---|---|
| `EncoderProofs` | `TypeCorrect` | `Spec => []TypeOK` |
| | `OwnershipHolds` | `Spec => []Ownership` |
| | `FreesAreGood` | `Spec => []NoBadFree` |
| | `BuildsFromSorted` | `Spec => []StrictlySorted` |
| | `LastAddedIsWritten` | `Spec => []LastAddedWins`, if `StableSort` |
| | `EncoderImplementsBuilder` | `Spec => ImplementsBuilder`, if `StableSort` |
| `TrieProofs` | `DryRunAlwaysExact` | `Spec => []DryRunExact` of `Dictionary` |
| `FileProofs` | `WriterAlwaysExact` | `WriterSpec => []WriterExact` |
| | `AlwaysReadBack` | `IOSpec => []ReadBack` |
| | `SpellingAlwaysOne` | `IOSpec => []OneSpelling` |
| | `ReaderAlwaysInside` | `IOSpec => [](rpos \in 0..rlen /\ rlen <= Len(file))` |
| | `FileAlwaysAsBuilt` | `Spec => StoredAsBuilt` of `Damage`, an action property |
| | `FileWriterExact`, `FileReadBack`, `FileSpellingOne` | `Spec => []WriterExact`, `[]ReadBack`, `[]OneSpelling` of `Damage` |
| `JsonProofs` | `BooksKept`, `ParseTyped`, `DepthCounted` | `Spec => []ParseInv`, `[]TypeOK`, `[]DepthIsNesting` of `JsonParse` |
| | `WalkTyped`, `WalkStaysInside` | `WalkSpec => []WalkInv`, `[]WalkInside` |
| | `WalkGoesOn` | `WalkSpec => [][Walk => GoesForward]_decodeVars` |
| `TersemlProofs` | `ReaderStaysInside` | `DecodeSpec => []ReaderInside` |
| | `EveryStepCloser` | `DecodeSpec => [][Read => CloserOrOver]_decodeVars` |
| `V2Proofs` | `TablesExact`, `RankAlwaysExact`, `SelectAlwaysExact` | `BitVecSpec => []IndexInv`, `[]RankExact`, `[]SelectExact` |
| | `PoolKept`, `RefsAlwaysLead`, `PoolAlwaysMinimal` | `TailsSpec => []TailsInv`, `[]RefsLead`, `[]PoolMinimal` |

`WriterSpec`, `IOSpec`, `WalkSpec`, `DecodeSpec`, `BitVecSpec`, `TailsSpec` and the `Spec`
of `JsonParse` are those of the component alone, for any inputs (`WalkSpec` opens any
sequence of bits); the runs check the same invariants inside the
compositions. The theorems about `Encoder`, `Dictionary` and `Damage` are about the
specification that is run.

Assumptions, each named where the constant is declared:

* `Encoder`: keys are integers in the order of `entry_cmp`, the null pointer and the
  caller's memory are not heap blocks, stale memory is not an entry, the first capacity is positive.
* `WriterAssumption`: pieces are bits, capacities and steps are natural numbers, the
  default capacity is positive. `VarintAssumption`: a group has 1 to 7 bits, which fit
  into a byte with their mark. `ProgramsAssumption`: programs are sequences of items
  of the types that the library writes. A number of the model is below 2^28 (`WordMax`,
  where TLC's numbers saturate), so fields have 1 to 28 bits, unsigned VarInts are below
  2^28 and signed ones within 27 bits and a sign; a field may be given a larger number, which
  it truncates, and a code point any. Groups have 7 bits as in the code, and a VarInt
  may have at least the four that such a number needs (the code allows ten).
* `MapsAssumption`: the maps that are compiled are finite and their keys are strings of
  bytes. `FixedBitsAssumption`: the width is one that `tp_encoder_create_ex` accepts.
* `StoredAssumption`, `FileCapAssumption`: the entries of the stored file are strictly
  sorted (`BuildsFromSorted` says that they are) and their values are values.
* `SourceAssumption`, `NestingAssumption`, `PathAssumption`: texts are sequences whose
  tokens hold bytes, limits are positive.
* `WalkAssumption`: the limits of the walk are natural numbers, the key buffer is not
  empty. `LebAssumption`, `InputAssumption`, `DepthAssumption`: a group of a terseml
  length has 1 to 7 bits, inputs are sequences of bytes, the other limits natural numbers.
* `VectorsAssumption`, `BlockAssumption`: vectors are sequences of bits and a superblock
  is a whole number of blocks. `TailListsAssumption`: tails are sequences of numbers.

**Induction.** The provers cannot instantiate an induction theorem whose parameter is a
predicate. `Induction` states induction over a set of natural numbers instead
(`SetInduction`: a subset of `Nat` that holds 0 and is closed under successor is
`Nat`), and with it that recursive functions have the value their equation gives.
Everything below that goes over numbers, lengths, bits or nodes rests on this.

**Encoder.** None of the invariants is inductive alone. The strengthening is built in
layers, each proved from the one before:

1. `Shape`: `TypeOK`, `Protocol` (no array without an encoder, a writer exactly
   while a build writes) and `EntriesWhole` (live entries own what they should).
2. `Own` adds `SingleOwner` and `HeapExact`. The live slots (`LiveSlots`) are the
   key idea: inside `dedup_entries` they are those already compacted and those not
   yet reached, so that a turn either removes one slot and frees its blocks, or
   moves one. `NoBadFree` follows because what is freed is owned, and what is
   owned is allocated.
3. `Order` adds `LoopSorted` (the compacted part is strictly sorted and below the
   rest, which is sorted), `PreparedSorted` and `KeysKept` (no key is lost).
4. `Latest` adds `LastKept`: the last live entry of a key has the value added last;
   a stable sort preserves this, and the deduplication keeps exactly that entry.
5. The refinement: the map of `MapBuilder` is `Content`, the last live entry of each
   key. It equals `added` in every state, inside the loop of the deduplication too, so
   that sorting, compacting and refused allocations are stutters; when the
   preparation is over the array lists the map in the order of its keys, each once,
   which is what the abstract build hands over.

**Dry run.** A node of the trie is a range of entries and a depth. Both recursions go
from a node to its children, which are ranges of fewer entries because the node takes the
whole prefix that its entries share; so the recursive functions exist, and an induction
on the number of entries shows that what `trie_subtree_size` counts is the length and
the value slots of what `trie_write` produces (`Counted`). Children come one after
the other, so the value slots add up by an induction over them. The SKIP distance in front of a child is written
as a VarInt whose length depends on the distance itself: the dry run
counts the same VarInt because, by the induction, it has the same distance.

**Writer.** `WriterExact` says that the buffer starts with what was written and is zero
behind it. It is inductive once it is known that a call under way wants more than the
capacity (so the loop only enlarges) and that no call is under way without a writer.

**Items and readers.** `IOInv` adds to the writer's invariant that a program's calls are
pieces of bits, that a reader's part lies inside what was detached, and that what a code point
was read from spells it. The reader stays inside its part because every read checks what
is left before it moves, for each type of item. There is one spelling for each number
of continuation bytes: the lead byte tells it, and the checks of the range exclude
the shorter forms; what is above U+10FFFF is refused by the writer.

**Reading back.** Three layers. For the fields: a field of n bits holds a number modulo
2^n and gives that back (`NumberOfBits`); the groups of a VarInt, the least significant
written first, are read into the number group by group (`TurnShown`, `VarintShown`), and
folding the sign is undone; a code point is the value of the bytes it is written as
(`UtfBytesAre`). Each is stated for bits that stand in a buffer as far as the buffer
reaches (`Shows`): reading gives the value if they are all there, and `TP_ERR_EOF`
if not (`Gives`). For an item, `ItemShown` and `ItemHandedOut` put these together. For
the program: item k begins at a place that depends only on the items before it
(`PlacesOf`, which is `End`). While it is written, each item that is done stands at its place
and what the calls so far have written of the next is the beginning of it
(`Progress`), which is why a call that is retried after growing, or a program begun again
after a refusal, cannot shift anything; a complete buffer keeps them
all (`Whole`), whichever way it gets to the reader; and the reader, as long as nothing was
refused, is at the place of the next item (`Answers`).

**Stored file.** The described file is a header, the data, padding and a CRC. The items of
`FileItems` cut it into runs that join (`FileCut`, `Covers`), the data into pieces of
7 bits and a rest. While the file is written, `written` is the file's beginning up to
the cut in front of the item under way, with the fields that are not known yet as
zeros (`Laid`); growth and refusals do not change it, an abandoned attempt starts
again at the first cut. `Patch` puts the fields that were zeros in place, among them
the length of the data, whose number is the one it was counted as, and then the CRC over
what is now the described file.

**JSON parser.** Leaving a container cuts the path back to the length its frame saved.
That this length is inside the path is kept only if the lengths saved by the outer
frames are no longer than those of the inner ones (`PathsNest`, `SavedInside`); with
the tokens' bytes and the shape of the frames this is `ParseInv`, of which `TypeOK` and
`DepthIsNesting` are parts.

**JSON walk.** Here too a branch that is left cuts the key back, so the frames further in
have to have saved longer keys (`Framed`). That the reader is inside rests on two
lemmas about any buffer: a field and a VarInt leave the reader between where it was and
the end (`FieldOn`, `VarintInside`). The opening has to give what the walk relies on, a
symbol width of 1 to 8 bits among it (`OpenedIs`). A step that does not end the walk has
read at least its symbol, so the reader is further on: with the bound this is the safety half
of `DecodeEnds`.

**terseml.** The readers of names, texts and lengths are recursive functions on positions;
an induction from the end of the input backwards shows that they have a value at every position,
and that what they accept ends inside the input and behind where it began. A step can
leave the reader where it is only to begin an element, and the next step then takes a
byte (`Distance`).

**Rank.** While the loop of `tp2_bv_create` runs, its counters are the ones up to `at`
and since the last superblock boundary, and the table entries whose boundary has been
reached are exact (`IndexInv`). When it has run one past the last bit, all of them
have, the entry behind the last block included, and `RankExact` adds up the three parts.

**Select.** The number of bits of a kind before a position never falls, and grows by one
exactly behind such a bit. The bit asked for is therefore at the least position behind
which the count passes the given number. The binary search keeps that position in
its range and halves it: an induction on the length of the range shows that the search
returns it, and that the recursion it is written as has a value at all.

**Tails.** The distinct tails are ranked by their reversed bytes, so every distinct tail
has exactly one number; a tail that has been placed stands in the pool at its offset,
and the tail that was written out last stands at the end of it (`Placed`). A merged
tail ends the last one that was written, or one merged with it, and is placed in it. The pool
is minimal because of the order: the tails that end in a given one are neighbours in
the order of reversed bytes, so a tail that is a suffix of any other is one of the
next greater, which was written just before. The invariant is that the pool is the
whole tails done so far, each once, the last one at its end.

### What is only model-checked

* Liveness (`Terminates`, `DecodeEnds`, `Builds`, `Returns`, `GrowthEnds`): the provers
  here do not reason about fairness.
* `AcceptsGrammar`, `FlattensDocument`, `RoundTrip`, `PathsLead`, `SpellingRead` and `WrittenReads`
  of JSON, `LookupExact`, `TreeInBits` and `RadixForm` of format v2, `RoundTrip`,
  `TruncationRefused` and `ShortestForm` of terseml: their modules use `RECURSIVE` operators, over trees
  and texts, about which the provers here cannot reason.
* `DamageRefused`: that a CRC-32 detects short bursts is a fact about polynomials; the
  run looks at every burst, cut and padding of one file.
* `TypeOK` and `ImplementsMap` of `Dictionary`: see the plan.

## Where code and documentation part, without a run

A run states one disagreement; these were met while modelling and are left out of the
properties, each at the place that is named.

* Detaching (`encoder.c:758`, `bitstream.c:357`): if the replacement buffer is refused
  the finished buffer belongs to nobody (`lost` in `Encoder`). The writer is then left
  without capacity; with doubling growth the next write never returns
  (`bitstream_write.c:25`), the case `GrowthEnds` excludes. No caller in the library
  writes after a failed detach.
* `tp_bs_read_utf8` accepts U+110000 to U+1FFFFF, which `tp_bs_write_utf8` refuses.
* `tp_bs_reader_advance` adds in 64 bits and can wrap (`bitstream.c:308`).
* The bit-stream document says that turning a writer into a reader copies the data and
  that UTF-8 needs byte alignment (`docs/internals/bitstream-spec.md:532` and `:465`); the code aliases the buffer and does not check.
* JSON arrays of more than ten elements come back in the byte order of their indices with
  their brackets, 0, 10, 11, 1, 2 (`json_decode.c:89`, `IndexOrdered`); `tp_json_count`
  counts all leaves.
* The walk of `tp_json_decode` goes to the next child at every terminal
  (`json_decode.c:690`), although a key that begins another has a BRANCH behind its
  terminal. Unless it is the last child, that BRANCH is taken for the SKIP of the next
  child and its subtree is read under the key of the parent: of `{"a":1,"ab":2,"b":3}` the walk finds `a`, `b` and a `bb` that nobody stored, and
  the text is `{"a":1,"b":{"b":null},"bb":null}`. (The document of `json_prefix` is not
  of this kind: there `a` is the last child, and the walk finds every entry.)
* JSON text: a double without a fraction is written without a point and comes back as
  an integer, -0 as 0 (`json_decode.c:174`, `WholeAs` in `WrittenReads`). A number too large
  for a double is stored as an infinity and written as `inf`, which is not JSON; the
  doubles of the model are finite, so `WrittenReads` does not speak of it. Raw control
  characters, lone low surrogates, leading zeros and bytes behind the root are accepted.
  Numbers of 64 characters and more are cut (`json_encode.c:265`), and a path longer
  than its buffer loses its last key (`json_encode.c:69`).
* terseml: neighbouring or empty texts are not merged by the encoder, although
  `GRAMMAR.md` §7 says so: a text `[` behind a text can be refused or, with more behind
  it, be read as attributes; `RoundTrip` is stated for trees without them. The decoder
  accepts attributes followed by a child without a comma.

## Not modelled, and the plan

Left out for good:

* the C++ wrapper: each method calls one C function; a moved-from object holds a null
  handle. (`Iterator(dict, prefix)` passes `prefix.c_str()`, so a NUL ends the prefix.)
* bindings in other languages, and the Python and JavaScript terseml: they repeat what
  is modelled; other tools, measurements and examples: they print;
* the suffix table and fuzzy search (stubs), `tp_dict_get_info` and version queries
  (copies of constants);
* inside modelled parts: FLOAT32 and blob values of a JSON buffer, which no JSON text
  gives; the indentation of `tp_json_decode_pretty`; sizes of 2^32 bits and more; a
  refused `realloc` of an iterator's key buffer; the arena of terseml.

Planned, in this order:

1. Theorems: the iterator's stepping, `TypeOK` of `Dictionary`, over the nodes of
   `FormatLemmas`; then that the reader finds in the written trie what was stored
   (`ImplementsMap`), for which `FormatLemmas` says what is written where and
   `VarintShown` what the reader makes of it.
2. Buffers that did not pass the CRC (`tp_dict_open_unchecked`) with 64-bit sums that wrap.
