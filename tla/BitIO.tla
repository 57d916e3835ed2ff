------------------------------- MODULE BitIO -------------------------------
(***************************************************************************)
(* Typed items written with the bit stream library and read back in the    *)
(* same order: numbers of any width, signed numbers, VarInts, UTF-8 code   *)
(* points, bytes, alignment.  An item is written by one or several calls   *)
(* of tp_bs_write_bits, each of which may have to grow the buffer.         *)
(***************************************************************************)
EXTENDS Bitstream, BitWriter, SequencesExt

CONSTANT Programs       \* the sequences of items that are written

VARIABLES
    phase,          \* "idle", "write", "detached", "broken", "read" or "stored"
    prog,           \* the items
    at,             \* how many of them are written
    calls,          \* the calls that the next one still needs
    file,           \* the bits of a detached buffer, or of the writer's
    fileLen,        \* its length as it was reported
    rpos,           \* the position of the reader
    rlen,           \* the length that the reader was given
    got,            \* what the reader returned so far
    codepoint       \* the last code point that was read, from where to where
itemVars == <<prog, at, calls>>
readVars == <<rpos, rlen, got, codepoint>>
fileVars == <<file, fileLen>>
ioVars == <<writerVars, phase, itemVars, fileVars, readVars>>

\* An item: what it is, its number, the width of it, its bytes or bits.
Item(kind, val, n, content) == [kind |-> kind, val |-> val, n |-> n, content |-> content]
Align == Item("ALIGN", 0, 0, <<>>)

\* The items the model can tell apart: no number is wider than WordMax, and what
\* has no bytes is not written.
IsItem(it) ==
    \/ it.kind = "UNSIGNED" /\ it.val \in Nat /\ it.n \in 1..28
    \/ it.kind = "SIGNED" /\ it.val \in Int /\ it.n \in 1..28
    \/ it.kind = "UTF8" /\ it.val \in Nat
    \/ it.kind = "VARINT_U" /\ it.val \in Nat /\ it.val < WordMax
    \/ it.kind = "VARINT_S" /\ it.val \in Int /\ 2 * it.val < WordMax /\ -2 * it.val <= WordMax
    \/ it.kind = "BYTES" /\ it.content \in Seq(0..255) \ {<<>>}
    \/ it.kind = "APPEND" /\ it.content \in Seq(Bit)
    \/ it.kind = "ALIGN"
IsProgram(items) ==
    /\ Len(items) \in Nat \ {0} /\ DOMAIN items = 1..Len(items)
    /\ \A k \in 1..Len(items) : IsItem(items[k])

\* A group of a VarInt is a byte here, and a number of the model has four of them at most.
ASSUME ProgramsAssumption ==
    GroupBits = 7 /\ MaxGroups >= 4 /\ \A items \in Programs : IsProgram(items)

-----------------------------------------------------------------------------
(* Writing *)

\* How many bytes follow the first.
Following(cp) == IF cp < 2^7 THEN 0 ELSE IF cp < 2^11 THEN 1 ELSE IF cp < 2^16 THEN 2 ELSE 3
Surrogate(cp) == cp \in 55296..57343
LastCodepoint == 1114111
LeadByte == <<192, 224, 240>>

\* tp_bs_write_utf8
Utf8(cp) ==
    LET n == Following(cp)
    IN  IF n = 0 THEN <<cp>>
        ELSE <<LeadByte[n] + cp \div 64^n>> \o [k \in 1..n |-> 128 + ((cp \div 64^(n - k)) % 64)]

Octets(bits) == [k \in 1..Len(bits) \div 8 |-> SubSeq(bits, 8 * k - 7, 8 * k)]

\* The runs of bits that the calls of an item write.
CallsOf(it) ==
    CASE it.kind = "UNSIGNED" -> <<Bits(it.val, it.n)>>
      [] it.kind = "SIGNED"   -> <<Bits(it.val % 2^it.n, it.n)>>
      [] it.kind = "VARINT_U" -> Octets(VarintU(it.val))
      [] it.kind = "VARINT_S" -> Octets(VarintS(it.val))
      [] it.kind = "UTF8"     -> Octets(Bytes(Utf8(it.val)))
      [] it.kind = "BYTES"    -> Octets(Bytes(it.content))
      [] it.kind = "APPEND"   -> <<it.content>>
      [] it.kind = "ALIGN"    -> <<>>

IOInit ==
    /\ WriterInit
    /\ phase = "idle" /\ prog = <<>> /\ at = 0 /\ calls = <<>>
    /\ file = <<>> /\ fileLen = 0
    /\ rpos = 0 /\ rlen = 0 /\ got = <<>> /\ codepoint = <<>>

Begin(items) == prog' = items /\ at' = 0 /\ calls' = CallsOf(items[1])

OpenWriter(items, initial, g) ==
    /\ phase = "idle"
    /\ CreateWriter(initial, g)
    /\ Begin(items) /\ phase' = "write"
    /\ UNCHANGED <<fileVars, readVars>>

Current == prog[at + 1]
NextItem ==
    /\ at' = at + 1
    /\ calls' = IF at + 2 \in DOMAIN prog THEN CallsOf(prog[at + 2]) ELSE <<>>

Writing == phase = "write" /\ at < Len(prog)
Demand == IF Current.kind = "ALIGN" THEN Padding ELSE Len(Head(calls))

\* tp_bs_write_utf8 refuses what is no code point before it writes anything.
Refused(it) == it.kind = "UTF8" /\ (Surrogate(it.val) \/ it.val > LastCodepoint)

Grow ==
    /\ Writing /\ ~Refused(Current)
    /\ BeginGrowth(Demand) \/ GrowTurn \/ Realloc
    /\ UNCHANGED <<phase, itemVars, fileVars, readVars>>

RefuseItem ==
    /\ Writing /\ Refused(Current)
    /\ phase' = "broken"
    /\ UNCHANGED <<writerVars, itemVars, fileVars, readVars>>

WriteCall ==
    /\ Writing /\ ~Refused(Current)
    /\ IF Current.kind = "ALIGN" THEN AlignPiece ELSE WritePiece(Head(calls))
    /\ IF Len(calls) > 1 THEN calls' = Tail(calls) /\ UNCHANGED at ELSE NextItem
    /\ UNCHANGED <<phase, prog, fileVars, readVars>>

\* No memory: the caller hands the code on and destroys the writer.
Refuse ==
    /\ Writing /\ RefuseRealloc
    /\ phase' = "broken"
    /\ UNCHANGED <<itemVars, fileVars, readVars>>
GiveUp ==
    /\ phase = "broken" /\ DestroyWriter
    /\ phase' = "idle" /\ prog' = <<>> /\ at' = 0 /\ calls' = <<>>
    /\ UNCHANGED <<fileVars, readVars>>

Finished == phase = "write" /\ at = Len(prog)

Detach ==
    /\ Finished /\ DetachBuffer
    /\ phase' = "detached" /\ file' = Detached /\ fileLen' = wpos
    /\ UNCHANGED <<itemVars, readVars>>

\* The writer has no buffer any more.
DetachFails ==
    /\ Finished /\ DetachRefused
    /\ phase' = "broken"
    /\ UNCHANGED <<itemVars, fileVars, readVars>>
\* The writer is empty after a detach and can be used again, for the same items say.
WriteAgain ==
    /\ phase \in {"detached", "broken"} /\ live /\ written = <<>>
    /\ Begin(prog) /\ phase' = "write"
    /\ file' = <<>> /\ fileLen' = 0
    /\ UNCHANGED <<writerVars, readVars>>

CloseWriter ==
    /\ phase = "detached" /\ DestroyWriter
    /\ UNCHANGED <<phase, itemVars, fileVars, readVars>>

-----------------------------------------------------------------------------
(* Reading *)

\* tp_bs_reader_create or tp_bs_reader_create_copy on the first n bits of the buffer.
CreateReader(n) ==
    /\ phase = "detached" /\ ~live /\ prog \in Programs
    /\ phase' = "read" /\ rpos' = 0 /\ rlen' = n /\ got' = <<>> /\ codepoint' = <<>>
    /\ UNCHANGED <<writerVars, itemVars, fileVars>>

\* tp_bs_writer_to_reader: the reader looks at the buffer of the writer.
ToReader ==
    /\ Finished /\ prog \in Programs
    /\ phase' = "read" /\ file' = mem /\ fileLen' = wpos
    /\ rpos' = 0 /\ rlen' = wpos /\ got' = <<>> /\ codepoint' = <<>>
    /\ UNCHANGED <<writerVars, itemVars>>

View == SubSeq(file, 1, rlen)

\* Mutant: the least number of a width comes out positive.
SignExtendLate(v, n) == IF v > 2^(n - 1) THEN v - 2^n ELSE v
SignExtend(v, n) == IF v >= 2^(n - 1) THEN v - 2^n ELSE v
ReadSigned(buf, p, n) == Then(ReadBits(buf, p, n), LAMBDA v, q : Ok(SignExtend(v, n), q))

Least == <<2^7, 2^11, 2^16>>

\* Mutant: a long form of a short code point is accepted.
WellFormedLong(cp, n) == ~Surrogate(cp)
WellFormed(cp, n) == (n > 0 => cp >= Least[n]) /\ ~Surrogate(cp)

\* How many bytes the first byte announces, or -1.
Announced(first) ==
    CASE first < 128        -> 0
      [] first \div 32 = 6  -> 1
      [] first \div 16 = 14 -> 2
      [] first \div 8 = 30  -> 3
      [] OTHER              -> -1

\* The n bytes that follow the first, whose bits are cp.
ReadFollowing(buf, p, n, cp) ==
    LET after[k \in 0..n] ==
            IF k = 0 THEN Ok(cp, p)
            ELSE Then(after[k - 1], LAMBDA c, q :
                   Then(ReadBits(buf, q, 8), LAMBDA b, t :
                     IF b \div 64 # 2 THEN Fail("INVALID_UTF8", t) ELSE Ok(64 * c + (b % 64), t)))
    IN  after[n]

\* tp_bs_read_utf8
ReadUtf8(buf, p) ==
    Then(ReadBits(buf, p, 8), LAMBDA first, q :
        LET n == Announced(first)
        IN  IF n = -1 THEN Fail("INVALID_UTF8", q)
            ELSE Then(ReadFollowing(buf, q, n, IF n = 0 THEN first ELSE first % 2^(6 - n)), LAMBDA cp, end :
                    IF WellFormed(cp, n) THEN Ok(cp, end) ELSE Fail("INVALID_UTF8", end)))

\* tp_bs_read_bytes
ReadEach(buf, p, n) ==
    LET after[k \in 0..n] ==
            IF k = 0 THEN Ok(<<>>, p)
            ELSE Then(after[k - 1], LAMBDA bytes, q :
                   Then(ReadBits(buf, q, 8), LAMBDA b, t : Ok(Append(bytes, b), t)))
    IN  after[n]

ReadAs(it, buf, p) ==
    CASE it.kind = "UNSIGNED" -> ReadBits(buf, p, it.n)
      [] it.kind = "SIGNED"   -> ReadSigned(buf, p, it.n)
      [] it.kind = "VARINT_U" -> ReadVarintU(buf, p)
      [] it.kind = "VARINT_S" -> ReadVarintS(buf, p)
      [] it.kind = "UTF8"     -> ReadUtf8(buf, p)
      [] it.kind = "BYTES"    -> ReadEach(buf, p, Len(it.content))
      [] it.kind = "APPEND"   -> ReadRaw(buf, p, Len(it.content))
      [] it.kind = "ALIGN"    -> AlignReader(buf, p)

Reading == phase = "read" /\ Len(got) < Len(prog) /\ \A k \in DOMAIN got : got[k].rc = "OK"
Result(r) == rpos' = r.pos /\ got' = Append(got, [rc |-> r.rc, val |-> r.val])

ReadItem ==
    /\ Reading
    /\ Result(ReadAs(prog[Len(got) + 1], View, rpos))
    /\ UNCHANGED <<writerVars, phase, itemVars, fileVars, rlen, codepoint>>

\* tp_bs_reader_direct_ptr instead of tp_bs_read_bytes, where the reader is aligned.
ReadDirect ==
    /\ Reading /\ prog[Len(got) + 1].kind = "BYTES" /\ rpos % 8 = 0
    /\ Result(ReadBytes(View, rpos, Len(prog[Len(got) + 1].content)))
    /\ UNCHANGED <<writerVars, phase, itemVars, fileVars, rlen, codepoint>>

\* Whatever is there is read as a code point.
ReadCodepoint ==
    /\ Reading /\ codepoint = <<>>
    /\ LET r == ReadUtf8(View, rpos) IN r.rc = "OK" /\ codepoint' = <<r.val, rpos, r.pos>>
    /\ UNCHANGED <<writerVars, phase, itemVars, fileVars, rpos, rlen, got>>

\* tp_bs_reader_destroy, and tp_bs_writer_destroy if the buffer was the writer's.
CloseReader ==
    /\ phase = "read"
    /\ IF live THEN DestroyWriter ELSE UNCHANGED writerVars
    /\ phase' = "idle" /\ prog' = <<>> /\ at' = 0 /\ calls' = <<>> /\ file' = <<>> /\ fileLen' = 0
    /\ rpos' = 0 /\ rlen' = 0 /\ got' = <<>> /\ codepoint' = <<>>

IONext ==
    \/ \E items \in Programs, initial \in Caps, g \in Growths : OpenWriter(items, initial, g)
    \/ WriteAgain \/ Grow \/ WriteCall \/ Refuse \/ RefuseItem \/ GiveUp \/ Detach \/ DetachFails \/ CloseWriter
    \/ \E n \in 0..fileLen : CreateReader(n)
    \/ ToReader \/ ReadItem \/ ReadDirect \/ ReadCodepoint \/ CloseReader

\* A call that has begun to grow the buffer goes on; that memory is granted is not assumed.
IOSpec == IOInit /\ [][IONext]_ioVars /\ WF_ioVars(Grow)

-----------------------------------------------------------------------------
\* What the calls for an item have to add up to, from the documentation of the format:
\* the length of the stream behind the first k items.
End(k) ==
    LET after[i \in 0..k] ==
            IF i = 0 THEN 0
            ELSE after[i - 1] + (IF prog[i].kind = "ALIGN" THEN PadTo8(after[i - 1])
                                 ELSE Len(FlattenSeq(CallsOf(prog[i]))))
    IN  after[k]

\* The value that comes back: itself if it fits the width, and truncated to it otherwise.
Expected(it) ==
    CASE it.kind = "UNSIGNED" -> it.val % 2^it.n
      [] it.kind = "SIGNED"   -> CHOOSE v \in -(2^(it.n - 1))..2^(it.n - 1) - 1 : (v - it.val) % 2^it.n = 0
      [] it.kind = "BYTES"    -> it.content
      [] it.kind = "APPEND"   -> it.content
      [] it.kind = "ALIGN"    -> 0
      [] OTHER                -> it.val

\* Items come back in order with their values as long as they are whole in the part of
\* the buffer that the reader was given; the first that is not ends in TP_ERR_EOF.
ReadBack ==
    phase = "read" =>
        \A k \in DOMAIN got :
            IF End(k) <= rlen THEN got[k].rc = "OK" /\ got[k].val = Expected(prog[k])
                              ELSE got[k].rc = "EOF"

\* A code point that was read has no other spelling: the bytes it was read from are
\* those that tp_bs_write_utf8 makes of it.  (Above U+10FFFF the reader accepts what
\* the writer refuses.)
OneSpelling ==
    codepoint # <<>> /\ codepoint[1] <= LastCodepoint =>
        ~Surrogate(codepoint[1]) /\ SubSeq(file, codepoint[2] + 1, codepoint[3]) = Bytes(Utf8(codepoint[1]))

\* The search for a larger capacity ends, unless it starts at zero and doubles.
GrowthEnds == (want > 0 /\ growTo > 0) ~> want = 0
=============================================================================
