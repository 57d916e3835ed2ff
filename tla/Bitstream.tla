----------------------------- MODULE Bitstream -----------------------------
(***************************************************************************)
(* The part of the bit stream library (src/bitstream) that the dictionary  *)
(* format is written and read with.  A buffer is a sequence of bits, most  *)
(* significant bit of the first byte first; a bit position counts from 0,  *)
(* as in the code.  A writer is the sequence of the bits written so far.   *)
(* A read returns a record with the library's result code, the value read  *)
(* and the position the reader is left at.                                 *)
(***************************************************************************)
EXTENDS Integers, Sequences

CONSTANTS
    GroupBits,      \* payload bits of a VarInt group: 7 in the code
    MaxGroups       \* TP_VARINT_MAX_GROUPS: 10 in the code

ASSUME VarintAssumption == GroupBits \in 1..7 /\ MaxGroups \in Nat \ {0}

Bit == {0, 1}

\* The bound on every number read from a buffer.  A buffer of the model is
\* far shorter, so a distance or a count at the bound behaves like any larger
\* one: the next read ends at the end of the buffer.
WordMax == 2^28

\* tp_bs_write_bits: the low n bits of v, most significant first.
Bits(v, n) == [i \in 1..n |-> IF n - i > 28 THEN 0 ELSE (v \div 2^(n - i)) % 2]

\* tp_bs_read_bits_at: the number that a run of bits spells.
Number(bs) ==
    LET value[i \in 0..Len(bs)] ==
            IF i = 0 THEN 0
            ELSE LET v == 2 * value[i - 1] + bs[i] IN IF v > WordMax THEN WordMax ELSE v
    IN  value[Len(bs)]

Zeros(n) == [i \in 1..n |-> 0]

Ok(v, p) == [rc |-> "OK", val |-> v, pos |-> p]
Fail(code, p) == [rc |-> code, val |-> 0, pos |-> p]

\* The early return that follows every read of the code.
Then(r, Continue(_, _)) == IF r.rc = "OK" THEN Continue(r.val, r.pos) ELSE r

\* tp_bs_read_bits on a reader at p; a failing read does not move the reader.
ReadRaw(buf, p, n) ==
    IF p + n > Len(buf) THEN Fail("EOF", p) ELSE Ok(SubSeq(buf, p + 1, p + n), p + n)

ReadBits(buf, p, n) ==
    IF p + n > Len(buf) THEN Fail("EOF", p)
    ELSE Ok(Number(SubSeq(buf, p + 1, p + n)), p + n)

\* tp_bs_reader_seek and tp_bs_reader_advance
Seek(buf, p) == IF p > Len(buf) THEN Fail("INVALID_POSITION", p) ELSE Ok(0, p)
Advance(buf, p, n) == IF p + n > Len(buf) THEN Fail("EOF", p) ELSE Ok(0, p + n)

\* The zero bits that bring position p to a byte boundary.
PadTo8(p) == (8 - (p % 8)) % 8

\* tp_bs_writer_align_to_byte and tp_bs_reader_align_to_byte
AlignWriter(buf) == buf \o Zeros(PadTo8(Len(buf)))
AlignReader(buf, p) == Advance(buf, p, PadTo8(p))

\* tp_bs_write_varint_u: groups of GroupBits bits, the least significant group
\* first, each behind a bit that says whether another one follows.
VarintU(v) ==
    LET groups[x \in Nat] ==
            LET rest == x \div 2^GroupBits
            IN  <<IF rest = 0 THEN 0 ELSE 1>> \o Bits(x, GroupBits)
                    \o (IF rest = 0 THEN <<>> ELSE groups[rest])
    IN  groups[v]

\* varint_bits of the encoder: the length VarintU is expected to have.
VarintSize(v) ==
    LET size[x \in Nat] ==
            LET rest == x \div 2^GroupBits
            IN  GroupBits + 1 + (IF rest = 0 THEN 0 ELSE size[rest])
    IN  size[v]

\* tp_bs_read_varint_u.  A group that is missing or one too many fails after
\* the groups before it were consumed.
ReadVarintU(buf, p) ==
    LET after[g \in 0..MaxGroups] ==
            IF g = 0 THEN [more |-> TRUE, bits |-> <<>>, r |-> Ok(0, p)]
            ELSE LET before == after[g - 1]
                     group == ReadRaw(buf, before.r.pos, GroupBits + 1)
                 IN  IF ~before.more THEN before
                     ELSE IF group.rc # "OK" THEN [before EXCEPT !.more = FALSE, !.r = group]
                     ELSE LET bits == Tail(group.val) \o before.bits
                          IN  [ more |-> group.val[1] = 1, bits |-> bits,
                                r |-> Ok(Number(bits), group.pos) ]
        last == after[MaxGroups]
    IN  IF last.more THEN Fail("OVERFLOW", last.r.pos) ELSE last.r

\* tp_bs_write_varint_s and tp_bs_read_varint_s: zigzag.
VarintS(v) == VarintU(IF v < 0 THEN -2 * v - 1 ELSE 2 * v)
ReadVarintS(buf, p) ==
    Then(ReadVarintU(buf, p), LAMBDA u, q :
        Ok(IF u % 2 = 1 THEN -(u \div 2) - 1 ELSE u \div 2, q))

\* tp_bs_write_bytes, and tp_bs_reader_direct_ptr on an aligned reader.
Bytes(s) == [i \in 1..8 * Len(s) |-> Bits(s[(i - 1) \div 8 + 1], 8)[((i - 1) % 8) + 1]]

ReadBytes(buf, p, n) ==
    IF p % 8 # 0 THEN Fail("NOT_ALIGNED", p)
    ELSE IF n > (Len(buf) - p) \div 8 THEN Fail("EOF", p)
    ELSE Ok([i \in 1..n |-> Number(SubSeq(buf, p + 8 * i - 7, p + 8 * i))], p + 8 * n)
=============================================================================
