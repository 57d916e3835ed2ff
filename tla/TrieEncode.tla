---------------------------- MODULE TrieEncode ----------------------------
(***************************************************************************)
(* What tp_encoder_build writes for a list of entries that is sorted by    *)
(* key and free of duplicates (module Encoder is about getting there).     *)
(* An entry is a record with a key, a sequence of bytes, and a value.      *)
(* Offsets of the header are counted from the end of the header, as in the *)
(* code.                                                                   *)
(***************************************************************************)
EXTENDS Bitstream, FiniteSets, SequencesExt

\* Tags of tp_value_type.
Tag == [NULL |-> 0, BOOL |-> 1, INT |-> 2, UINT |-> 3, FLOAT32 |-> 4, FLOAT64 |-> 5,
        STRING |-> 6, BLOB |-> 7, ARRAY |-> 8, DICT |-> 9]

NullValue == [type |-> "NULL", data |-> 0]

\* Control codes, in the order of the special symbol map.
NumControlCodes == 6
Ctrl == [END |-> 0, END_VAL |-> 1, SKIP |-> 2, SUFFIX |-> 3, ESCAPE |-> 4, BRANCH |-> 5]

MaxSymbolCount == 255
HeaderBits == 256
Magic == <<84, 82, 80, 0>>      \* "TRP\0"
VersionMajor == 1
VersionMinor == 0
FlagHasValues == 1
FlagHasSuffixTable == 2

\* The members of a set of numbers in order.
Ascending(S) == [i \in 1..Cardinality(S) |-> CHOOSE x \in S : Cardinality({y \in S : y < x}) = i - 1]

-----------------------------------------------------------------------------
\* analyze_symbols: control codes first, then the bytes in use in byte order.
\* fixed is opts.bits_per_symbol; 0 asks for the least width that fits.
AnalyzeSymbols(E, fixed) ==
    LET used == UNION {ToSet(E[i].key) : i \in DOMAIN E}
        total == Cardinality(used) + NumControlCodes
    IN  [ bps |-> IF fixed # 0 THEN fixed
                  ELSE CHOOSE b \in 1..9 : 2^b >= total /\ 2^(b - 1) < total,
          count |-> total,
          table |-> Ascending(used),
          map |-> [b \in used |-> NumControlCodes + Cardinality({x \in used : x < b})] ]

\* The length of the common prefix of entries s..e-1, known to be at least p.
CommonPrefix(E, s, e, p) ==
    CHOOSE c \in p..Len(E[s].key) :
        /\ \A i \in s..e - 1 : Len(E[i].key) >= c /\ \A j \in p + 1..c : E[i].key[j] = E[s].key[j]
        /\ \E i \in s..e - 1 : Len(E[i].key) = c \/ E[i].key[c + 1] # E[s].key[c + 1]

\* The children of a node: the runs of entries cs..e-1 that agree on byte c + 1.
Children(E, cs, e, c) ==
    LET starts == Ascending({i \in cs..e - 1 : i > cs => E[i].key[c + 1] # E[i - 1].key[c + 1]})
    IN  [k \in DOMAIN starts |->
            [from |-> starts[k], to |-> IF k < Len(starts) THEN starts[k + 1] ELSE e]]

ChildrenOf(E, s, e, c) == Children(E, IF Len(E[s].key) = c THEN s + 1 ELSE s, e, c)

\* The nodes <<s, e, p, vi>> of the trie: the entries s..e-1 agree on their first p
\* bytes, and vi is the index of the next terminal.
Nodes(E) ==
    {x \in (1..Len(E)) \X (1..Len(E) + 1) \X Nat \X Nat :
        /\ x[1] < x[2]
        /\ \A i \in x[1]..x[2] - 1 : Len(E[i].key) >= x[3] /\ \A j \in 1..x[3] : E[i].key[j] = E[x[1]].key[j]}

CarriesValue(hasValues, entry) == hasValues /\ entry.val.type # "NULL"

\* trie_subtree_size: the dry run that computes SKIP distances.  It counts the
\* bits of a subtree and the value indices used up by it.

\* Mutant: the SKIP symbol in front of a nested child is not counted.
ChildrenSizeNoSkip(size, kids, c, vi, bps) ==
    LET after[k \in 0..Len(kids)] ==
            IF k = 0 THEN [bits |-> 0, vi |-> vi]
            ELSE LET before == after[k - 1]
                     child == size[<<kids[k].from, kids[k].to, c, before.vi>>]
                     skip == IF k < Len(kids) THEN VarintSize(child.bits) ELSE 0
                 IN  [bits |-> before.bits + skip + child.bits, vi |-> child.vi]
    IN  after[Len(kids)]

\* The children one after the other, each but the last behind its SKIP.
ChildrenSize(size, kids, c, vi, bps) ==
    LET after[k \in 0..Len(kids)] ==
            IF k = 0 THEN [bits |-> 0, vi |-> vi]
            ELSE LET before == after[k - 1]
                     child == size[<<kids[k].from, kids[k].to, c, before.vi>>]
                     skip == IF k < Len(kids) THEN bps + VarintSize(child.bits) ELSE 0
                 IN  [bits |-> before.bits + skip + child.bits, vi |-> child.vi]
    IN  after[Len(kids)]

\* The index of the next terminal: null values take a slot too.
NextIndex(vi, terminal) == IF terminal THEN vi + 1 ELSE vi

\* The size of a node, given that of its children.
NodeSize(E, hasValues, bps, size, s, e, p, vi) ==
    LET c == CommonPrefix(E, s, e, p)
        terminal == Len(E[s].key) = c
        kids == ChildrenOf(E, s, e, c)
        next == NextIndex(vi, terminal)
        own == (c - p) * bps
               + (IF ~terminal THEN 0
                  ELSE bps + (IF CarriesValue(hasValues, E[s]) THEN VarintSize(vi) ELSE 0))
        below == ChildrenSize(size, kids, c, next, bps)
    IN  IF kids = <<>> THEN [bits |-> own, vi |-> next]
        ELSE [bits |-> own + bps + VarintSize(Len(kids)) + below.bits, vi |-> below.vi]

SubtreeSize(E, s, e, p, hasValues, vi, bps) ==
    LET size[x \in Nodes(E)] == NodeSize(E, hasValues, bps, size, x[1], x[2], x[3], x[4])
    IN  size[<<s, e, p, vi>>]

\* The terminal of a node: END, or END_VAL and the index into the value store.
Terminal(entry, hasValues, vi, bps) ==
    IF CarriesValue(hasValues, entry) THEN Bits(Ctrl.END_VAL, bps) \o VarintU(vi)
    ELSE Bits(Ctrl.END, bps)

\* What precedes every child but the last: the distance to its next sibling.
SkipTo(E, child, c, hasValues, vi, bps) ==
    Bits(Ctrl.SKIP, bps)
        \o VarintU(SubtreeSize(E, child.from, child.to, c, hasValues, vi, bps).bits)

\* trie_write: the children, and a node, given what is written for its children.
ChildrenWrite(E, hasValues, sym, write, kids, c, vi) ==
    LET after[k \in 0..Len(kids)] ==
            IF k = 0 THEN [bits |-> <<>>, vi |-> vi]
            ELSE LET before == after[k - 1]
                     child == write[<<kids[k].from, kids[k].to, c, before.vi>>]
                     skip == IF k < Len(kids) THEN SkipTo(E, kids[k], c, hasValues, before.vi, sym.bps)
                                              ELSE <<>>
                 IN  [bits |-> before.bits \o skip \o child.bits, vi |-> child.vi]
    IN  after[Len(kids)]

NodeWrite(E, hasValues, sym, write, s, e, p, vi) ==
    LET c == CommonPrefix(E, s, e, p)
        terminal == Len(E[s].key) = c
        kids == ChildrenOf(E, s, e, c)
        next == NextIndex(vi, terminal)
        literals == FlattenSeq([i \in 1..c - p |-> Bits(sym.map[E[s].key[p + i]], sym.bps)])
        own == literals \o (IF terminal THEN Terminal(E[s], hasValues, vi, sym.bps) ELSE <<>>)
        below == ChildrenWrite(E, hasValues, sym, write, kids, c, next)
    IN  IF kids = <<>> THEN [bits |-> own, vi |-> next]
        ELSE [ bits |-> own \o Bits(Ctrl.BRANCH, sym.bps) \o VarintU(Len(kids)) \o below.bits,
               vi |-> below.vi ]

TrieWrite(E, s, e, p, hasValues, vi, sym) ==
    LET write[x \in Nodes(E)] == NodeWrite(E, hasValues, sym, write, x[1], x[2], x[3], x[4])
    IN  write[<<s, e, p, vi>>]

-----------------------------------------------------------------------------
\* tp_value_encode appends the tag and the payload of a value to buf.  The
\* payload of a float is its bit pattern, that of a string or blob its bytes.
EncodeValue(buf, v) ==
    LET b == buf \o Bits(Tag[v.type], 4)
    IN  CASE v.type = "NULL" -> b
          [] v.type = "BOOL" -> b \o <<IF v.data THEN 1 ELSE 0>>
          [] v.type = "INT" -> b \o VarintS(v.data)
          [] v.type = "UINT" -> b \o VarintU(v.data)
          [] v.type \in {"FLOAT32", "FLOAT64"} -> b \o v.data
          [] v.type \in {"STRING", "BLOB"} ->
                AlignWriter(b \o VarintU(Len(v.data))) \o Bytes(v.data)

\* tp_value_encode refuses containers, and with them the whole build.
Encodable(v) == v.type \notin {"ARRAY", "DICT"}

ValueStore(buf, E) ==
    LET store[i \in 0..Len(E)] == IF i = 0 THEN buf ELSE EncodeValue(store[i - 1], E[i].val)
    IN  store[Len(E)]

-----------------------------------------------------------------------------
\* tp_header_write, with the offsets that tp_encoder_build patches in later.
Header(h) ==
    Bytes(Magic) \o Bits(VersionMajor, 8) \o Bits(VersionMinor, 8) \o Bits(h.flags, 16)
        \o Bits(h.num_keys, 32) \o Bits(h.trie_data_offset, 32)
        \o Bits(h.value_store_offset, 32) \o Bits(0, 32) \o Bits(h.total_data_bits, 32)
        \o Bits(0, 32)

\* tp_crc32: the reflected CRC-32 with polynomial 0xEDB88320, whose table for a
\* byte the code holds.  Bit 1 of the register is the least significant; each
\* byte enters least significant bit first.
CrcPolynomial == <<0, 0, 0, 0, 0, 1, 0, 0, 1, 1, 0, 0, 0, 0, 0, 1,
                   0, 0, 0, 1, 1, 1, 0, 1, 1, 0, 1, 1, 0, 1, 1, 1>>

CrcStep(crc, bit) ==
    LET shifted == Append(Tail(crc), 0)
    IN  IF crc[1] = bit THEN shifted
        ELSE [k \in 1..32 |-> (shifted[k] + CrcPolynomial[k]) % 2]

\* The register after bits lo..hi-1.  The range is halved to keep the recursion
\* shallow, and the first half is evaluated before the second starts.
CrcRange(buf, start) ==
    LET range[x \in Nat \X Nat \X [1..32 -> Bit]] ==
            LET lo == x[1]
                hi == x[2]
                mid == (lo + hi) \div 2
            IN  IF hi <= lo THEN x[3]
                ELSE IF hi = lo + 1 THEN CrcStep(x[3], buf[lo - 2 * (lo % 8) + 8])
                ELSE range[<<mid, hi, range[<<lo, mid, x[3]>>]>>]
    IN  range[<<0, Len(buf), start>>]

Crc32(buf) ==
    LET crc == CrcRange(buf, [k \in 1..32 |-> 1])
    IN  [k \in 1..32 |-> 1 - crc[33 - k]]

-----------------------------------------------------------------------------
\* The trie configuration and the symbol table that precede the trie.
TrieConfig(sym) ==
    Bits(sym.bps, 4) \o Bits(sym.count, 8)
        \o FlattenSeq([c \in 1..NumControlCodes |-> Bits(c - 1, sym.bps)])
        \o FlattenSeq([i \in DOMAIN sym.table |-> VarintU(sym.table[i])])

\* The file without its CRC.
Body(E, hasValues, config, trie) ==
    LET data == IF hasValues THEN ValueStore(config \o trie, E) ELSE config \o trie
    IN  Header([ flags |-> IF hasValues THEN FlagHasValues ELSE 0,
                 num_keys |-> Len(E),
                 trie_data_offset |-> Len(config),
                 value_store_offset |-> Len(config) + Len(trie),
                 total_data_bits |-> Len(data) ]) \o AlignWriter(data)

WithCrc(body) == body \o Crc32(body)

HasValues(E) == \E i \in DOMAIN E : E[i].val.type # "NULL"
TrieBits(E, hasValues, sym) ==
    IF E = <<>> THEN <<>> ELSE TrieWrite(E, 1, Len(E) + 1, 0, hasValues, 0, sym).bits

\* tp_encoder_build after sort_entries and dedup_entries.
Build(E, fixed) ==
    LET sym == AnalyzeSymbols(E, fixed)
        trie == TrieBits(E, HasValues(E), sym)
    IN  IF sym.count > MaxSymbolCount THEN [rc |-> "ALPHABET", buf |-> <<>>]
        ELSE IF HasValues(E) /\ \E i \in DOMAIN E : ~Encodable(E[i].val)
             THEN [rc |-> "INVALID_PARAM", buf |-> <<>>]
        ELSE [rc |-> "OK", buf |-> WithCrc(Body(E, HasValues(E), TrieConfig(sym), trie))]
=============================================================================
