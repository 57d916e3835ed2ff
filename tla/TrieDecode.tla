---------------------------- MODULE TrieDecode ----------------------------
(***************************************************************************)
(* The reader of a compiled dictionary (src/core/decoder.c): opening a     *)
(* buffer, looking a key up, descending to a prefix and stepping an        *)
(* iterator.  A dictionary is the record that tp_dict_open fills in, an    *)
(* iterator the record behind tp_iterator.  Every operation reads the bits *)
(* of the buffer; none is given the keys that were encoded.                *)
(***************************************************************************)
EXTENDS TrieEncode

CONSTANT MaxDepth       \* TP_ITER_MAX_DEPTH: 256 in the code

ASSUME MaxDepthAssumption == MaxDepth \in Nat \ {0}

-----------------------------------------------------------------------------
\* tp_value_decode.  A tag without a case leaves the type as read and succeeds.
DecodeValue(buf, p) ==
    Then(ReadBits(buf, p, 4), LAMBDA tag, q :
        LET As(type, r) == Then(r, LAMBDA v, t : Ok([type |-> type, data |-> v], t))
            Sized == Then(ReadVarintU(buf, q), LAMBDA n, t :
                        Then(AlignReader(buf, t), LAMBDA x, u : ReadBytes(buf, u, n)))
        IN  CASE tag = Tag.NULL -> Ok(NullValue, q)
              [] tag = Tag.BOOL -> As("BOOL", Then(ReadBits(buf, q, 1), LAMBDA b, t : Ok(b = 1, t)))
              [] tag = Tag.INT -> As("INT", ReadVarintS(buf, q))
              [] tag = Tag.UINT -> As("UINT", ReadVarintU(buf, q))
              [] tag = Tag.FLOAT32 -> As("FLOAT32", ReadRaw(buf, q, 32))
              [] tag = Tag.FLOAT64 -> As("FLOAT64", ReadRaw(buf, q, 64))
              [] tag = Tag.STRING -> As("STRING", Sized)
              [] tag = Tag.BLOB -> As("BLOB", Sized)
              [] tag \in {Tag.ARRAY, Tag.DICT} -> Fail("INVALID_PARAM", q)
              [] OTHER -> Ok([type |-> "UNKNOWN", data |-> tag], q))

\* The loop that decodes and drops n values.
SkipValues(buf, p, n) ==
    LET after[x \in Nat \X Nat] ==         \* the position, and the values left
            IF x[2] = 0 THEN Ok(0, x[1])
            ELSE Then(DecodeValue(buf, x[1]), LAMBDA v, q : after[<<q, x[2] - 1>>])
    IN  after[<<p, n>>]

-----------------------------------------------------------------------------
\* tp_header_read: the fields that the reader uses, or the reason to refuse.
ReadHeader(buf) ==
    LET Field(byte, n) == Number(SubSeq(buf, 8 * byte + 1, 8 * byte + n))
    IN  IF [i \in 1..4 |-> Field(i - 1, 8)] # Magic THEN [rc |-> "BAD_MAGIC"]
        ELSE IF Field(4, 8) # VersionMajor THEN [rc |-> "VERSION"]
        ELSE [ rc |-> "OK", flags |-> Field(6, 16), num_keys |-> Field(8, 32),
               trie_data_offset |-> Field(12, 32), value_store_offset |-> Field(16, 32) ]

\* The control codes and symbol table that parse_trie_config reads at p.
ReadList(Read(_), p, n) ==
    LET after[i \in 0..n] ==
            IF i = 0 THEN Ok(<<>>, p)
            ELSE Then(after[i - 1], LAMBDA list, q :
                    Then(Read(q), LAMBDA x, t : Ok(Append(list, x), t)))
    IN  after[n]

ParseTrieConfig(buf) ==
    Then(ReadBits(buf, HeaderBits, 4), LAMBDA bps, p :
      IF bps \notin 1..8 THEN Fail("ALPHABET", p)
      ELSE Then(ReadBits(buf, p, 8), LAMBDA count, q :
        IF count < NumControlCodes \/ count > 2^bps THEN Fail("ALPHABET", q)
        ELSE Then(ReadList(LAMBDA x : ReadBits(buf, x, bps), q, NumControlCodes), LAMBDA codes, t :
          Then(ReadList(LAMBDA x : ReadVarintU(buf, x), t, count - NumControlCodes), LAMBDA table, u :
            Ok([ bps |-> bps,
                 ctrl |-> [ END |-> codes[1], END_VAL |-> codes[2], SKIP |-> codes[3],
                            SUFFIX |-> codes[4], ESCAPE |-> codes[5], BRANCH |-> codes[6] ],
                 is_ctrl |-> ToSet(codes),
                 table |-> table ], u)))))

\* The CRC in the last four bytes is that of all bytes before.
CrcIgnored(buf) == TRUE     \* mutant
CrcMatches(buf) == SubSeq(buf, Len(buf) - 31, Len(buf)) = Crc32(SubSeq(buf, 1, Len(buf) - 32))

\* Offsets of the header are counted from its end.
FromFileStart(offset) == offset     \* mutant
FromHeaderEnd(offset) == HeaderBits + offset

\* dict_open_impl: header, CRC, unsupported features, then the trie config.
Open(buf, checkCrc) ==
    IF Len(buf) < HeaderBits THEN Fail("TRUNCATED", 0)
    ELSE LET h == ReadHeader(buf)
         IN  IF h.rc # "OK" THEN Fail(h.rc, 0)
             ELSE IF checkCrc /\ ~CrcMatches(buf) THEN Fail("CORRUPT", 0)
             ELSE IF (h.flags \div FlagHasSuffixTable) % 2 = 1 THEN Fail("VERSION", 0)
             ELSE Then(ParseTrieConfig(buf), LAMBDA sym, p :
                    Ok([ buf |-> buf, sym |-> sym, num_keys |-> h.num_keys,
                         has_values |-> h.flags % 2 = 1,
                         trie_start |-> FromHeaderEnd(h.trie_data_offset),
                         value_start |-> FromHeaderEnd(h.value_store_offset) ], p))

\* symbol_map and reverse_map: 0 for a byte or a code the table does not name.
SymbolOf(sym, byte) ==
    IF \E i \in DOMAIN sym.table : sym.table[i] = byte
    THEN NumControlCodes - 1 + (CHOOSE i \in DOMAIN sym.table : sym.table[i] = byte)
    ELSE 0
ByteOf(sym, code) ==
    IF code - NumControlCodes + 1 \in DOMAIN sym.table THEN sym.table[code - NumControlCodes + 1] ELSE 0

-----------------------------------------------------------------------------
\* tp_dict_lookup_n.  k bytes of the key are matched; expectBranch is set behind
\* a terminal that did not end the lookup.  Nothing tells the walk where the
\* trie ends.
NotFound == Fail("NOT_FOUND", 0)

ValueAt(d, index) ==
    Then(Seek(d.buf, d.value_start), LAMBDA x, p :
        Then(SkipValues(d.buf, p, index), LAMBDA y, q : DecodeValue(d.buf, q)))

\* The loop over the n children of a BRANCH at p, for the one that starts with the
\* given byte: the position behind that first symbol.  The code of the SKIP is not
\* checked.
FindChild(d, byte, p, n) ==
    LET among[x \in Nat \X Nat] ==         \* the position, and the children left
            LET preamble == IF x[2] = 1 THEN Ok(0, x[1])
                            ELSE Then(ReadBits(d.buf, x[1], d.sym.bps), LAMBDA s, q : ReadVarintU(d.buf, q))
            IN  IF x[2] = 0 THEN NotFound
                ELSE Then(preamble, LAMBDA skip, q :
                       Then(ReadBits(d.buf, q, d.sym.bps), LAMBDA first, t :
                         IF first \notin d.sym.is_ctrl /\ first = SymbolOf(d.sym, byte) THEN Ok(0, t)
                         ELSE Then(Advance(d.buf, q, skip), LAMBDA y, end : among[<<end, x[2] - 1>>])))
    IN  among[<<p, n>>]

LookupFrom(d, key, start) ==
    LET at[x \in Nat \X Nat \X BOOLEAN] ==
            LET p == x[1]
                k == x[2]
                expectBranch == x[3]
                sym == ReadBits(d.buf, p, d.sym.bps)
            IN  CASE sym.rc # "OK" -> IF expectBranch THEN NotFound ELSE Fail(sym.rc, p)
                  [] sym.rc = "OK" /\ sym.val = d.sym.ctrl.END ->
                        IF k = Len(key) THEN Ok(NullValue, sym.pos) ELSE at[<<sym.pos, k, TRUE>>]
                  [] sym.rc = "OK" /\ sym.val = d.sym.ctrl.END_VAL ->
                        Then(ReadVarintU(d.buf, sym.pos), LAMBDA vi, q :
                            IF k < Len(key) THEN at[<<q, k, TRUE>>]
                            ELSE IF d.has_values THEN ValueAt(d, vi) ELSE Ok(NullValue, q))
                  [] sym.rc = "OK" /\ sym.val = d.sym.ctrl.BRANCH ->
                        Then(ReadVarintU(d.buf, sym.pos), LAMBDA n, q :
                            IF k >= Len(key) THEN NotFound
                            ELSE Then(FindChild(d, key[k + 1], q, n), LAMBDA y, t : at[<<t, k + 1, FALSE>>]))
                  [] OTHER ->
                        IF expectBranch THEN NotFound
                        ELSE IF sym.val \in d.sym.is_ctrl THEN Fail("INVALID_PARAM", p)
                        ELSE IF k >= Len(key) THEN NotFound
                        ELSE IF sym.val # SymbolOf(d.sym, key[k + 1]) THEN NotFound
                        ELSE at[<<sym.pos, k + 1, FALSE>>]
    IN  at[<<start, 0, FALSE>>]

Lookup(d, key) ==
    IF d.num_keys = 0 THEN NotFound
    ELSE Then(Seek(d.buf, d.trie_start), LAMBDA x, p : LookupFrom(d, key, p))

\* tp_dict_contains: only TP_OK and TP_ERR_NOT_FOUND become an answer.
DictContains(d, key) ==
    LET r == Lookup(d, key)
    IN  IF r.rc \in {"OK", "NOT_FOUND"} THEN Ok(r.rc = "OK", 0) ELSE Fail(r.rc, 0)
=============================================================================
