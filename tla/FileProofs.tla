---------------------------- MODULE FileProofs ----------------------------
(***************************************************************************)
(* Items written and read with the bit stream library: the growing buffer  *)
(* holds what was written, whoever calls it; what is read is what was      *)
(* written; a code point that is read has one spelling; no read leaves     *)
(* the part of the buffer that it was given.  The steps are those of       *)
(* module BitIO for any program, and the one that module Damage adds.      *)
(*                                                                         *)
(* The file that a build hands over is the one that the trie writer        *)
(* describes.  The described file is a header, the data, padding and a     *)
(* CRC; the items that tp_encoder_build writes cut it into runs that join; *)
(* wherever the writer is among them, what is written is the beginning of  *)
(* the file up to there.  What the patching changes is what was written as *)
(* zeros.                                                                  *)
(***************************************************************************)
EXTENDS Damage, FormatLemmas

-----------------------------------------------------------------------------
(* The writer *)

BitStrings == Seq({0, 1})

\* WriterExact with what its steps rely on: a buffer that grows gets larger.
WriterInv ==
    /\ mem \in BitStrings /\ written \in BitStrings
    /\ cap \in Nat /\ growth \in Nat /\ wpos \in Nat /\ want \in Nat /\ growTo \in Nat
    /\ want > 0 => want > cap
    /\ WriterExact

LEMMA ClearedBits ==
    ASSUME NEW n \in Nat
    PROVE  Cleared(n) \in BitStrings /\ Len(Cleared(n)) = n /\ \A i \in 1..n : Cleared(n)[i] = 0
  BY DEF Cleared, BitStrings

LEMMA InitWriter == WriterInit => WriterInv
  BY DEF WriterInit, WriterInv, WriterExact, BitStrings

\* A cleared buffer in which nothing is written.
LEMMA EmptyBuffer ==
    ASSUME NEW c \in Nat, cap' = c, mem' = Cleared(8 * c), wpos' = 0, written' = <<>>,
           growth' \in Nat, want' = want, growTo' = growTo, want = 0, growTo \in Nat
    PROVE  WriterInv'
<1>1. 8 * c \in Nat
  OBVIOUS
<1>2. mem' \in BitStrings /\ Len(mem') = 8 * c /\ \A i \in 1..Len(mem') : mem'[i] = 0
  BY <1>1, ClearedBits
<1>3. written' \in BitStrings /\ Len(written') = 0
  BY DEF BitStrings
<1>4. WriterExact'
  BY <1>1, <1>2, <1>3 DEF WriterExact
<1> QED
  BY <1>2, <1>3, <1>4 DEF WriterInv

LEMMA CreateKeeps ==
    ASSUME WriterInv, ~live, NEW initial \in Nat, NEW g \in Nat, CreateWriter(initial, g), want = 0
    PROVE  WriterInv'
<1>1. cap' \in Nat /\ mem' = Cleared(8 * cap') /\ wpos' = 0 /\ written' = <<>> /\ growth' \in Nat
      /\ want' = want /\ growTo' = growTo /\ growTo \in Nat
  BY WriterAssumption DEF CreateWriter, WriterInv
<1> QED
  BY <1>1, EmptyBuffer

\* Growing keeps what is there and clears what is new.
LEMMA ReallocKeeps ==
    ASSUME WriterInv, Realloc
    PROVE  WriterInv'
<1> DEFINE new == 8 * (growTo - cap)
<1>1. /\ mem \in BitStrings /\ cap \in Nat /\ growTo \in Nat /\ growTo > cap /\ wpos \in Nat /\ wpos <= 8 * cap
      /\ Len(mem) = 8 * cap
  BY DEF WriterInv, WriterExact, Realloc
<1>2. new \in Nat /\ 8 * cap + new = 8 * growTo
  BY <1>1
<1>3. Cleared(new) \in BitStrings /\ Len(Cleared(new)) = new /\ \A i \in 1..new : Cleared(new)[i] = 0
  BY <1>2, ClearedBits
<1>4. mem' = mem \o Cleared(new) /\ cap' = growTo /\ UNCHANGED <<growth, wpos, written>> /\ want' = 0 /\ growTo' = 0
  BY DEF Realloc
<1> HIDE DEF new
<1>5. /\ mem' \in BitStrings /\ Len(mem') = Len(mem) + new
      /\ \A i \in 1..Len(mem) + new : mem'[i] = IF i <= Len(mem) THEN mem[i] ELSE Cleared(new)[i - Len(mem)]
  BY <1>1, <1>3, <1>4, ConcatProperties DEF BitStrings
<1>6. Len(mem') = 8 * cap' /\ wpos' <= 8 * cap'
  BY <1>1, <1>2, <1>4, <1>5
<1>7. \A i \in 1..Len(mem') : mem'[i] = IF i <= wpos' THEN written'[i] ELSE 0
  <2> SUFFICES ASSUME NEW i \in 1..Len(mem') PROVE mem'[i] = IF i <= wpos' THEN written'[i] ELSE 0
    OBVIOUS
  <2>1. CASE i <= Len(mem)
    <3>1. i \in 1..Len(mem) /\ mem'[i] = mem[i]
      BY <1>1, <1>2, <1>5, <2>1
    <3> QED
      BY <1>4, <3>1 DEF WriterInv, WriterExact
  <2>2. CASE ~(i <= Len(mem))
    <3>1. i - Len(mem) \in 1..new /\ mem'[i] = Cleared(new)[i - Len(mem)] /\ ~(i <= wpos)
      BY <1>1, <1>2, <1>5, <2>2
    <3> QED
      BY <1>3, <1>4, <3>1
  <2> QED
    BY <2>1, <2>2
<1>8. wpos' = Len(written')
  BY <1>4 DEF WriterInv, WriterExact
<1> QED
  BY <1>1, <1>4, <1>5, <1>6, <1>7, <1>8 DEF WriterInv, WriterExact

\* Bits appended to what was written, in a buffer that has them in their place.
LEMMA AppendKeeps ==
    ASSUME WriterInv, NEW bits \in BitStrings, want = 0, NeededBytes(Len(bits)) <= cap,
           mem' \in BitStrings, Len(mem') = Len(mem),
           \A i \in 1..Len(mem) : mem'[i] = IF i - wpos \in 1..Len(bits) THEN bits[i - wpos] ELSE mem[i],
           wpos' = wpos + Len(bits), written' = written \o bits,
           UNCHANGED <<cap, growth, want, growTo>>
    PROVE  WriterInv'
<1>1. /\ written \in BitStrings /\ cap \in Nat /\ wpos \in Nat /\ wpos = Len(written) /\ Len(mem) = 8 * cap
      /\ wpos <= 8 * cap /\ Len(bits) \in Nat
      /\ \A i \in 1..Len(mem) : mem[i] = IF i <= wpos THEN written[i] ELSE 0
  BY DEF WriterInv, WriterExact, BitStrings
<1>2. /\ written' \in BitStrings /\ Len(written') = wpos + Len(bits)
      /\ \A i \in 1..wpos + Len(bits) : written'[i] = IF i <= wpos THEN written[i] ELSE bits[i - wpos]
  BY <1>1, ConcatProperties DEF BitStrings
<1>3. wpos + Len(bits) <= 8 * cap
  <2>1. \A x, y \in Nat : (x + 7) \div 8 <= y => x <= 8 * y
    OBVIOUS
  <2>2. wpos + Len(bits) \in Nat /\ (wpos + Len(bits) + 7) \div 8 <= cap
    BY <1>1 DEF NeededBytes
  <2> QED
    BY <1>1, <2>1, <2>2
<1>4. \A i \in 1..Len(mem') : mem'[i] = IF i <= wpos' THEN written'[i] ELSE 0
  <2> SUFFICES ASSUME NEW i \in 1..Len(mem) PROVE mem'[i] = IF i <= wpos' THEN written'[i] ELSE 0
    OBVIOUS
  <2>1. CASE i <= wpos
    BY <1>1, <1>2, <2>1
  <2>2. CASE i > wpos /\ i <= wpos + Len(bits)
    BY <1>1, <1>2, <2>2
  <2>3. CASE i > wpos + Len(bits)
    BY <1>1, <2>3
  <2> QED
    BY <1>1, <2>1, <2>2, <2>3
<1> QED
  BY <1>1, <1>2, <1>3, <1>4 DEF WriterInv, WriterExact

LEMMA WriteKeeps ==
    ASSUME WriterInv, NEW bits \in BitStrings, WritePiece(bits)
    PROVE  WriterInv'
<1>1. mem \in BitStrings /\ Len(mem) \in Nat /\ wpos \in Nat
  BY DEF WriterInv, BitStrings
<1>2. mem' = [i \in 1..Len(mem) |-> IF i - wpos \in 1..Len(bits) THEN bits[i - wpos] ELSE mem[i]]
  BY DEF WritePiece
<1>3. \A i \in 1..Len(mem) : (IF i - wpos \in 1..Len(bits) THEN bits[i - wpos] ELSE mem[i]) \in {0, 1}
  BY <1>1 DEF BitStrings
<1>4. mem' \in BitStrings /\ Len(mem') = Len(mem)
  BY <1>1, <1>2, <1>3 DEF BitStrings
<1> QED
  BY <1>2, <1>4, AppendKeeps DEF WritePiece, Fits

\* Aligning writes nothing: the zeros are there already.
LEMMA AlignKeeps ==
    ASSUME WriterInv, AlignPiece
    PROVE  WriterInv'
<1>1. wpos \in Nat /\ mem \in BitStrings /\ wpos <= 8 * cap /\ cap \in Nat /\ Len(mem) \in Nat
      /\ \A i \in 1..Len(mem) : mem[i] = IF i <= wpos THEN written[i] ELSE 0
  BY DEF WriterInv, WriterExact, BitStrings
<1>2. Padding \in Nat
  BY <1>1 DEF Padding
<1> DEFINE zeros == Cleared(Padding)
<1>3. zeros \in BitStrings /\ Len(zeros) = Padding /\ \A i \in 1..Padding : zeros[i] = 0
  BY <1>2, ClearedBits
<1>4. UNCHANGED <<mem, cap, growth, want, growTo>> /\ want = 0 /\ NeededBytes(Padding) <= cap
      /\ wpos' = wpos + Padding /\ written' = written \o zeros
  BY DEF AlignPiece, Fits
<1> HIDE DEF zeros
<1>5. \A i \in 1..Len(mem) : mem'[i] = IF i - wpos \in 1..Len(zeros) THEN zeros[i - wpos] ELSE mem[i]
  <2> SUFFICES ASSUME NEW i \in 1..Len(mem) PROVE mem[i] = IF i - wpos \in 1..Len(zeros) THEN zeros[i - wpos] ELSE mem[i]
    BY <1>4
  <2>1. CASE i - wpos \in 1..Len(zeros)
    <3>1. ~(i <= wpos) /\ zeros[i - wpos] = 0
      BY <1>1, <1>2, <1>3, <2>1
    <3> QED
      BY <1>1, <2>1, <3>1
  <2>2. CASE ~(i - wpos \in 1..Len(zeros))
    BY <2>2
  <2> QED
    BY <2>1, <2>2
<1> QED
  BY <1>1, <1>3, <1>4, <1>5, AppendKeeps

\* Without a writer no call is under way.
Idle == live \in BOOLEAN /\ (~live => want = 0)

\* The steps of a writer, whoever takes them and whatever is written.
WriterStep ==
    \/ \E initial \in Nat, g \in Nat : CreateWriter(initial, g)
    \/ \E bits \in BitStrings : WritePiece(bits)
    \/ \E n \in Nat : BeginGrowth(n)
    \/ AlignPiece \/ GrowTurn \/ Realloc \/ RefuseRealloc
    \/ DetachBuffer \/ DetachRefused \/ DestroyWriter

LEMMA WriterStepKeeps ==
    ASSUME WriterInv, Idle, [WriterStep]_writerVars
    PROVE  WriterInv' /\ Idle'
<1>1. CASE \E initial \in Nat, g \in Nat : CreateWriter(initial, g)
  <2>1. PICK initial \in Nat, g \in Nat : CreateWriter(initial, g)
    BY <1>1
  <2>2. ~live /\ want = 0
    BY <2>1 DEF CreateWriter, Idle
  <2> QED
    BY <2>1, <2>2, CreateKeeps DEF CreateWriter, Idle
<1>2. CASE \E bits \in BitStrings : WritePiece(bits)
  BY <1>2, WriteKeeps DEF WritePiece, Idle
<1>3. CASE \E n \in Nat : BeginGrowth(n)
  <2>1. PICK n \in Nat : BeginGrowth(n)
    BY <1>3
  <2>2. /\ want' = NeededBytes(n) /\ NeededBytes(n) > cap /\ growTo' = Larger(cap)
        /\ live /\ UNCHANGED <<live, mem, cap, growth, wpos, written>>
    BY <2>1 DEF BeginGrowth
  <2>3. want' \in Nat /\ growTo' \in Nat
    BY <2>1, <2>2 DEF WriterInv, NeededBytes, Larger
  <2> QED
    BY <2>2, <2>3 DEF WriterInv, WriterExact, Idle
<1>4. CASE AlignPiece
  BY <1>4, AlignKeeps DEF AlignPiece, Idle
<1>5. CASE GrowTurn
  BY <1>5 DEF GrowTurn, WriterInv, WriterExact, Larger, Idle
<1>6. CASE Realloc
  BY <1>6, ReallocKeeps DEF Realloc, Idle
<1>7. CASE RefuseRealloc
  BY <1>7 DEF RefuseRealloc, WriterInv, WriterExact, Idle
<1>8. CASE DetachBuffer
  BY <1>8, EmptyBuffer DEF DetachBuffer, WriterInv, Idle
<1>9. CASE DetachRefused \/ DestroyWriter
  <2>1. /\ mem' = <<>> /\ cap' = 0 /\ wpos' = 0 /\ written' = <<>> /\ UNCHANGED <<growth, want, growTo>>
        /\ want = 0 /\ live' \in BOOLEAN
    BY <1>9 DEF DetachRefused, DestroyWriter, Idle
  <2> QED
    BY <2>1 DEF WriterInv, WriterExact, BitStrings, Idle
<1>10. CASE UNCHANGED writerVars
  BY <1>10 DEF writerVars, WriterInv, WriterExact, Idle
<1> QED
  BY <1>1, <1>2, <1>3, <1>4, <1>5, <1>6, <1>7, <1>8, <1>9, <1>10 DEF WriterStep

LEMMA PaddingType ==
    ASSUME WriterInv
    PROVE  Padding \in Nat
  BY DEF WriterInv, Padding

-----------------------------------------------------------------------------
\* Whatever is written, with any growth, any refused allocation, any detach: the buffer
\* of tp_bitstream_writer holds exactly the bits of the calls, and zeros behind them.
THEOREM WriterAlwaysExact == WriterSpec => []WriterExact
<1>1. WriterInit => WriterInv /\ Idle
  BY InitWriter DEF WriterInit, Idle
<1>2. ASSUME WriterInv, Idle, [WriterNext]_writerVars PROVE WriterInv' /\ Idle'
  <2>1. [WriterStep]_writerVars
    <3>1. Padding \in Nat
      BY <1>2, PaddingType
    <3>2. \A bits \in Pieces : bits \in BitStrings /\ Len(bits) \in Nat
      BY WriterAssumption DEF BitStrings
    <3>3. Caps \subseteq Nat /\ Growths \subseteq Nat
      BY WriterAssumption
    <3> QED
      BY <1>2, <3>1, <3>2, <3>3 DEF WriterNext, WriterStep
  <2> QED
    BY <1>2, <2>1, WriterStepKeeps
<1>3. WriterInv => WriterExact
  BY DEF WriterInv
<1> QED
  BY <1>1, <1>2, <1>3, PTL DEF WriterSpec

-----------------------------------------------------------------------------
(* Code points *)

\* The byte at position p.
ByteAt(buf, p, x) ==
    /\ x \in 0..255 /\ p + 8 <= Len(buf)
    /\ \A i \in 1..8 : Bits(x, 8)[i] = buf[p + i]

LEMMA ReadByte ==
    ASSUME NEW buf \in Seq(Bit), NEW p \in Nat
    PROVE  \/ ReadBits(buf, p, 8) = Fail("EOF", p)
           \/ \E x : ByteAt(buf, p, x) /\ ReadBits(buf, p, 8) = Ok(x, p + 8)
<1>1. Len(buf) \in Nat
  OBVIOUS
<1>2. CASE p + 8 > Len(buf)
  BY <1>2 DEF ReadBits
<1>3. CASE ~(p + 8 > Len(buf))
  <2> DEFINE bs == SubSeq(buf, p + 1, p + 8)
  <2>1. bs \in Seq(Bit) /\ Len(bs) = 8 /\ \A i \in 1..8 : bs[i] = buf[p + i]
    <3>1. p + 1 \in 1..Len(buf) + 1 /\ p + 8 \in 0..Len(buf) /\ (p + 8) - (p + 1) + 1 = 8 /\ p + 1 <= p + 8
      BY <1>1, <1>3
    <3>2. bs \in Seq(Bit) /\ Len(bs) = 8 /\ \A i \in 1..8 : bs[i] = buf[p + 1 + i - 1]
      BY <3>1, SubSeqProperties
    <3>3. \A i \in 1..8 : p + 1 + i - 1 = p + i
      OBVIOUS
    <3> QED
      BY ONLY <3>2, <3>3
  <2>2. ReadBits(buf, p, 8) = Ok(Number(bs), p + 8)
    BY <1>3 DEF ReadBits
  <2> HIDE DEF bs
  <2>3. Number(bs) \in 0..255 /\ \A i \in 1..8 : Bits(Number(bs), 8)[i] = bs[i]
    BY <2>1, ByteIs
  <2>4. ByteAt(buf, p, Number(bs))
    <3>1. PICK x : x = Number(bs)
      OBVIOUS
    <3>2. x \in 0..255 /\ \A i \in 1..8 : Bits(x, 8)[i] = bs[i]
      BY <2>3, <3>1
    <3>3. \A i \in 1..8 : Bits(x, 8)[i] = buf[p + i]
      BY <2>1, <3>2
    <3>4. p + 8 <= Len(buf)
      BY <1>1, <1>3
    <3> QED
      BY <3>1, <3>2, <3>3, <3>4 DEF ByteAt
  <2> QED
    BY <2>2, <2>4
<1> QED
  BY <1>2, <1>3

\* One continuation byte more.
NextByte(buf, r) ==
    Then(r, LAMBDA c, q :
      Then(ReadBits(buf, q, 8), LAMBDA b, t :
        IF b \div 64 # 2 THEN Fail("INVALID_UTF8", t) ELSE Ok(64 * c + (b % 64), t)))

\* The equation of ReadFollowing.
FollowingOf(after, buf, p, n, cp) ==
    [k \in 0..n |-> IF k = 0 THEN Ok(cp, p) ELSE NextByte(buf, after[k - 1])]

LEMMA FollowingIs ==
    ASSUME NEW buf, NEW p, NEW n \in 0..3, NEW cp
    PROVE  /\ n = 0 => ReadFollowing(buf, p, n, cp) = Ok(cp, p)
           /\ n = 1 => ReadFollowing(buf, p, n, cp) = NextByte(buf, Ok(cp, p))
           /\ n = 2 => ReadFollowing(buf, p, n, cp) = NextByte(buf, NextByte(buf, Ok(cp, p)))
           /\ n = 3 => ReadFollowing(buf, p, n, cp)
                        = NextByte(buf, NextByte(buf, NextByte(buf, Ok(cp, p))))
<1> DEFINE a0 == Ok(cp, p)
           a1 == NextByte(buf, a0)
           a2 == NextByte(buf, a1)
           a3 == NextByte(buf, a2)
           F == CHOOSE f : f = FollowingOf(f, buf, p, n, cp)
<1>1. ReadFollowing(buf, p, n, cp) = F[n]
  BY DEF ReadFollowing, FollowingOf, NextByte
<1> HIDE DEF F
<1>2. PICK g : g = [k \in 0..n |-> IF k = 0 THEN a0 ELSE IF k = 1 THEN a1 ELSE IF k = 2 THEN a2 ELSE a3]
  OBVIOUS
<1>3. g = FollowingOf(g, buf, p, n, cp)
  <2>1. ASSUME NEW k \in 0..n PROVE g[k] = IF k = 0 THEN Ok(cp, p) ELSE NextByte(buf, g[k - 1])
    <3>1. g[k] = IF k = 0 THEN a0 ELSE IF k = 1 THEN a1 ELSE IF k = 2 THEN a2 ELSE a3
      BY <1>2
    <3>2. k = 0 \/ k = 1 \/ k = 2 \/ k = 3
      OBVIOUS
    <3>3. CASE k = 0
      BY <3>1, <3>3
    <3>4. k # 0 => g[k - 1] = IF k - 1 = 0 THEN a0 ELSE IF k - 1 = 1 THEN a1 ELSE IF k - 1 = 2 THEN a2 ELSE a3
      BY <1>2
    <3>5. CASE k = 1
      <4>1. g[k - 1] = a0 /\ g[k] = a1
        BY <3>1, <3>4, <3>5
      <4> QED
        BY <4>1, <3>5
    <3>6. CASE k = 2
      <4>1. g[k - 1] = a1 /\ g[k] = a2
        BY <3>1, <3>4, <3>6
      <4> QED
        BY <4>1, <3>6
    <3>7. CASE k = 3
      <4>1. g[k - 1] = a2 /\ g[k] = a3
        BY <3>1, <3>4, <3>7
      <4> QED
        BY <4>1, <3>7
    <3> QED
      BY <3>2, <3>3, <3>5, <3>6, <3>7
  <2>2. g = [k \in 0..n |-> g[k]]
    BY <1>2
  <2> HIDE DEF a0, a1, a2, a3
  <2> QED
    BY <2>1, <2>2, Zenon DEF FollowingOf
<1>4. F = FollowingOf(F, buf, p, n, cp)
  BY <1>3 DEF F
<1>5. F[0] = a0 /\ \A k \in 1..n : F[k] = NextByte(buf, F[k - 1])
  <2> HIDE DEF a1, a2, a3
  <2>1. PICK h : h = F
    OBVIOUS
  <2>2. h = [k \in 0..n |-> IF k = 0 THEN a0 ELSE NextByte(buf, h[k - 1])]
    BY <1>4, <2>1 DEF FollowingOf
  <2> QED
    BY <2>1, <2>2
<1>6. CASE n = 0
  BY <1>1, <1>5, <1>6
<1>7. n >= 1 => F[1] = a1
  BY <1>5
<1>8. n >= 2 => F[2] = a2
  <2> HIDE DEF a0, a1
  <2> QED
    BY <1>5, <1>7
<1>9. n >= 3 => F[3] = a3
  <2> HIDE DEF a0, a1, a2
  <2> QED
    BY <1>5, <1>8
<1> QED
  <2> HIDE DEF a0, a1, a2, a3
  <2>1. /\ n = 2 => ReadFollowing(buf, p, n, cp) = a2
        /\ n = 3 => ReadFollowing(buf, p, n, cp) = a3
    BY <1>1, <1>8, <1>9
  <2>2. /\ n = 0 => ReadFollowing(buf, p, n, cp) = a0
        /\ n = 1 => ReadFollowing(buf, p, n, cp) = a1
    BY <1>1, <1>5, <1>7
  <2> QED
    BY <2>1, <2>2 DEF a0, a1, a2, a3

\* A read that succeeds.
Read(r) == r.rc = "OK"

LEMMA FailsAre ==
    ASSUME NEW code, code # "OK", NEW p
    PROVE  ~Read(Fail(code, p)) /\ Fail(code, p).pos = p
  BY DEF Read, Fail

LEMMA OksAre ==
    ASSUME NEW v, NEW p
    PROVE  Read(Ok(v, p)) /\ Ok(v, p).val = v /\ Ok(v, p).pos = p
  BY DEF Read, Ok

\* The code point c becomes w with the continuation byte y at q.
Continues(buf, q, c, y, w) ==
    /\ ByteAt(buf, q, y) /\ y = 128 + (w % 64)
    /\ w \in Nat /\ w \div 64 = c /\ w < 64 * c + 64
    /\ NextByte(buf, Ok(c, q)) = Ok(w, q + 8)

LEMMA NextByteIs ==
    ASSUME NEW buf \in Seq(Bit), NEW c \in Nat, NEW q \in Nat, Read(NextByte(buf, Ok(c, q)))
    PROVE  \E y, w : Continues(buf, q, c, y, w)
<1> DEFINE r == Ok(c, q)
           b == ReadBits(buf, q, 8)
<1>1. Read(r) /\ r.val = c /\ r.pos = q
  BY OksAre
<1> HIDE DEF r
<1>2. NextByte(buf, r) = IF b.rc = "OK" THEN IF b.val \div 64 # 2 THEN Fail("INVALID_UTF8", b.pos)
                                             ELSE Ok(64 * c + (b.val % 64), b.pos)
                         ELSE b
  BY <1>1 DEF NextByte, Then, Read
<1>3. b = Fail("EOF", q) \/ \E x : ByteAt(buf, q, x) /\ b = Ok(x, q + 8)
  BY ReadByte
<1> HIDE DEF b
<1>4. Read(b)
  BY <1>2 DEF Read, r
<1>5. PICK x : ByteAt(buf, q, x) /\ b = Ok(x, q + 8)
  BY <1>3, <1>4, FailsAre
<1>6. b.val = x /\ b.pos = q + 8
  BY <1>5, OksAre
<1>7. NextByte(buf, r) = IF x \div 64 # 2 THEN Fail("INVALID_UTF8", q + 8) ELSE Ok(64 * c + (x % 64), q + 8)
  BY <1>2, <1>4, <1>6 DEF Read
<1>8. x \div 64 = 2 /\ x \in 0..255
  BY <1>5, <1>7, FailsAre DEF r, ByteAt
<1>9. PICK d \in 0..63 : d = x % 64 /\ x = 128 + d
  BY ONLY <1>8
<1>10. PICK w : w = 64 * c + d
  OBVIOUS
<1>11. w \in Nat /\ w \div 64 = c /\ w % 64 = d /\ w < 64 * c + 64
  BY ONLY <1>10, c \in Nat, d \in 0..63
<1>12. Continues(buf, q, c, x, w)
  BY <1>5, <1>7, <1>8, <1>9, <1>10, <1>11 DEF r, Continues
<1> QED
  BY <1>12

\* What is read behind a failure fails.
LEMMA NextByteReads ==
    ASSUME NEW buf, NEW r, Read(NextByte(buf, r))
    PROVE  Read(r)
<1>1. PICK s : s = NextByte(buf, r)
  OBVIOUS
<1>2. CASE r.rc # "OK"
  <2>1. NextByte(buf, r) = r
    BY <1>2, Zenon DEF NextByte, Then
  <2> QED
    BY <2>1
<1> QED
  BY <1>2 DEF Read

\* The bytes of s are those from position p on.
BytesAt(buf, p, s) ==
    Len(s) \in Nat \ {0} /\ \A k \in 1..Len(s) : ByteAt(buf, p + 8 * (k - 1), s[k])

LEMMA BytesMatch ==
    ASSUME NEW buf \in Seq(Bit), NEW p \in Nat, NEW s, BytesAt(buf, p, s)
    PROVE  SubSeq(buf, p + 1, p + 8 * Len(s)) = Bytes(s)
<1>1. PICK m \in Nat \ {0} : m = Len(s)
  BY DEF BytesAt
<1>2. PICK L \in Nat : L = Len(buf)
  OBVIOUS
<1>3. p + 8 * m <= L
  <2>1. ByteAt(buf, p + 8 * (m - 1), s[m])
    BY <1>1 DEF BytesAt
  <2>2. p + 8 * (m - 1) + 8 <= L
    BY <1>2, <2>1 DEF ByteAt
  <2> QED
    BY <2>2
<1>4. /\ SubSeq(buf, p + 1, p + 8 * m) = [i \in 1..8 * m |-> buf[p + i]]
  <2>1. SubSeq(buf, p + 1, p + 8 * m) = [i \in 1..((p + 8 * m) - (p + 1) + 1) |-> buf[p + 1 + i - 1]]
    OBVIOUS
  <2>2. (p + 8 * m) - (p + 1) + 1 = 8 * m
    OBVIOUS
  <2>3. \A i \in 1..8 * m : p + 1 + i - 1 = p + i
    OBVIOUS
  <2> QED
    BY <2>1, <2>2, <2>3
<1>5. ASSUME NEW i \in 1..8 * m PROVE Bits(s[(i - 1) \div 8 + 1], 8)[((i - 1) % 8) + 1] = buf[p + i]
  <2>1. PICK k \in 1..m : k = (i - 1) \div 8 + 1
    OBVIOUS
  <2>2. PICK j \in 1..8 : j = ((i - 1) % 8) + 1
    OBVIOUS
  <2>3. p + 8 * (k - 1) + j = p + i
    <3>1. PICK z \in Nat : z = i - 1
      OBVIOUS
    <3>2. 8 * (z \div 8) + (z % 8) = z /\ k = z \div 8 + 1 /\ j = (z % 8) + 1
      BY <2>1, <2>2, <3>1
    <3> QED
      BY <3>1, <3>2
  <2>4. ByteAt(buf, p + 8 * (k - 1), s[k])
    BY <1>1 DEF BytesAt
  <2>5. Bits(s[k], 8)[j] = buf[p + 8 * (k - 1) + j]
    BY <2>4 DEF ByteAt
  <2> QED
    BY <2>1, <2>2, <2>3, <2>5
<1>6. Bytes(s) = [i \in 1..8 * m |-> Bits(s[(i - 1) \div 8 + 1], 8)[((i - 1) % 8) + 1]]
  BY <1>1 DEF Bytes
<1> QED
  BY <1>1, <1>4, <1>5, <1>6

\* The bytes of a code point, by their number.
LEMMA Utf8Is ==
    ASSUME NEW v \in Nat
    PROVE  /\ v < 128 => Following(v) = 0
           /\ 128 <= v /\ v < 2048 => Following(v) = 1
           /\ 2048 <= v /\ v < 65536 => Following(v) = 2
           /\ 65536 <= v => Following(v) = 3
           /\ Following(v) = 0 => Utf8(v) = <<v>>
           /\ \A n \in 1..3 : n = Following(v) =>
                /\ Len(Utf8(v)) = n + 1 /\ Utf8(v)[1] = LeadByte[n] + v \div 64^n
                /\ \A k \in 1..n : Utf8(v)[k + 1] = 128 + ((v \div 64^(n - k)) % 64)
<1>1. PICK a, b, c : a = 2^7 /\ b = 2^11 /\ c = 2^16
  OBVIOUS
<1>2. Following(v) = IF v < 128 THEN 0 ELSE IF v < 2048 THEN 1 ELSE IF v < 65536 THEN 2 ELSE 3
  <2>1. a = 128
    BY ONLY <1>1
  <2>2. b = 2048
    BY ONLY <1>1
  <2>3. c = 65536
    BY ONLY <1>1
  <2>4. Following(v) = IF v < a THEN 0 ELSE IF v < b THEN 1 ELSE IF v < c THEN 2 ELSE 3
    BY ONLY <1>1, Zenon DEF Following
  <2> QED
    BY ONLY <2>1, <2>2, <2>3, <2>4
<1>3. v < 128 => Following(v) = 0
  BY ONLY <1>2
<1>4. 128 <= v /\ v < 2048 => Following(v) = 1
  BY ONLY <1>2, v \in Nat
<1>5. 2048 <= v /\ v < 65536 => Following(v) = 2
  BY ONLY <1>2, v \in Nat
<1>6. 65536 <= v => Following(v) = 3
  BY ONLY <1>2, v \in Nat
<1>7. Following(v) = 0 => Utf8(v) = <<v>>
  BY DEF Utf8
<1>8. ASSUME NEW n \in 1..3, n = Following(v)
      PROVE  /\ Len(Utf8(v)) = n + 1 /\ Utf8(v)[1] = LeadByte[n] + v \div 64^n
             /\ \A k \in 1..n : Utf8(v)[k + 1] = 128 + ((v \div 64^(n - k)) % 64)
  <2>1. PICK w : w = [k \in 1..n |-> 128 + ((v \div 64^(n - k)) % 64)]
    OBVIOUS
  <2>2. PICK x : x = LeadByte[n] + v \div 64^n
    OBVIOUS
  <2>3. Utf8(v) = <<x>> \o w
    <3>1. Utf8(v) = IF n = 0 THEN <<v>> ELSE <<x>> \o w
      BY <1>8, <2>1, <2>2, Zenon DEF Utf8
    <3> QED
      BY <3>1
  <2>4. PICK S : S = {x} \cup {w[k] : k \in 1..n}
    OBVIOUS
  <2>5. w = [k \in 1..n |-> w[k]]
    BY ONLY <2>1
  <2>6. w \in Seq(S) /\ Len(w) = n
    BY ONLY <2>4, <2>5, n \in 1..3
  <2>7. /\ Len(<<x>> \o w) = n + 1 /\ (<<x>> \o w)[1] = x
        /\ \A k \in 1..n : (<<x>> \o w)[k + 1] = w[k]
    BY ONLY <2>4, <2>6, n \in 1..3
  <2>8. \A k \in 1..n : w[k] = 128 + ((v \div 64^(n - k)) % 64)
    BY ONLY <2>1
  <2> QED
    BY ONLY <2>2, <2>3, <2>7, <2>8
<1> QED
  BY ONLY <1>3, <1>4, <1>5, <1>6, <1>7, <1>8

\* Dividing twice.
LEMMA DigitsAbove ==
    ASSUME NEW v \in Nat
    PROVE  v \div 4096 = (v \div 64) \div 64 /\ v \div 262144 = (v \div 4096) \div 64
  OBVIOUS

\* What ReadUtf8 does behind its first byte x.
Continuing(buf, p, x, n) == ReadFollowing(buf, p + 8, n, IF n = 0 THEN x ELSE x % 2^(6 - n))
ReadBehind(buf, p, x, n, r) ==
    /\ ByteAt(buf, p, x) /\ n = Announced(x) /\ n \in 0..3
    /\ r = Continuing(buf, p, x, n) /\ Read(r) /\ WellFormed(r.val, n)
    /\ ReadUtf8(buf, p) = Ok(r.val, r.pos)

LEMMA FirstByteIs ==
    ASSUME NEW buf \in Seq(Bit), NEW p \in Nat, Read(ReadUtf8(buf, p))
    PROVE  \E x, n, r : ReadBehind(buf, p, x, n, r)
<1> DEFINE b == ReadBits(buf, p, 8)
           rest(x, q) == LET n == Announced(x)
                         IN IF n = -1 THEN Fail("INVALID_UTF8", q)
                            ELSE Then(ReadFollowing(buf, q, n, IF n = 0 THEN x ELSE x % 2^(6 - n)),
                                      LAMBDA cp, end : IF WellFormed(cp, n) THEN Ok(cp, end) ELSE Fail("INVALID_UTF8", end))
<1>1. ReadUtf8(buf, p) = IF b.rc = "OK" THEN rest(b.val, b.pos) ELSE b
  BY DEF ReadUtf8, Then
<1>2. b = Fail("EOF", p) \/ \E x : ByteAt(buf, p, x) /\ b = Ok(x, p + 8)
  BY ReadByte
<1> HIDE DEF b
<1>3. Read(b)
  <2> HIDE DEF rest
  <2> QED
    BY <1>1 DEF Read
<1>4. PICK x : ByteAt(buf, p, x) /\ b = Ok(x, p + 8)
  BY <1>2, <1>3, FailsAre
<1>5. ReadUtf8(buf, p) = rest(x, p + 8)
  <2> HIDE DEF rest
  <2>1. b.val = x /\ b.pos = p + 8
    BY <1>4, OksAre
  <2> QED
    BY <1>1, <1>3, <2>1 DEF Read
<1>6. PICK n : n = Announced(x)
  OBVIOUS
<1>7. n \in {-1, 0, 1, 2, 3}
  BY <1>6 DEF Announced
<1> DEFINE r == Continuing(buf, p, x, n)
<1>8. ReadUtf8(buf, p) = IF n = -1 THEN Fail("INVALID_UTF8", p + 8)
                         ELSE IF r.rc = "OK" THEN IF WellFormed(r.val, n) THEN Ok(r.val, r.pos) ELSE Fail("INVALID_UTF8", r.pos)
                         ELSE r
  BY <1>5, <1>6, Zenon DEF Then, Continuing
<1>9. n # -1
  BY <1>8, FailsAre
<1> HIDE DEF r
<1>10. Read(r)
  BY <1>8, <1>9 DEF Read
<1>11. WellFormed(r.val, n) /\ ReadUtf8(buf, p) = Ok(r.val, r.pos)
  <2>1. ~Read(Fail("INVALID_UTF8", r.pos))
    BY FailsAre
  <2> QED
    BY <1>8, <1>9, <1>10, <2>1 DEF Read
<1>12. n \in 0..3
  BY <1>7, <1>9
<1> QED
  <2>1. ReadBehind(buf, p, x, n, r)
    BY <1>4, <1>6, <1>10, <1>11, <1>12 DEF r, ReadBehind
  <2> QED
    BY <2>1

\* The code point v was read from the bits from p to e, which are its spelling.
Spelled(buf, p, e, v) ==
    /\ v \in Nat /\ e \in Nat /\ p < e /\ e <= Len(buf)
    /\ ReadUtf8(buf, p) = Ok(v, e)
    /\ v <= LastCodepoint => ~Surrogate(v) /\ SubSeq(buf, p + 1, e) = Bytes(Utf8(v))

\* The n bytes of s are at p, and are read as v, which is written as s.
HasBytes(buf, p, v, s, n) ==
    /\ s = Utf8(v) /\ Len(s) = n /\ \A k \in 1..n : ByteAt(buf, p + 8 * (k - 1), s[k])
    /\ ReadUtf8(buf, p) = Ok(v, p + 8 * n) /\ ~Surrogate(v)

LEMMA SpelledByBytes ==
    ASSUME NEW buf \in Seq(Bit), NEW p \in Nat, NEW v \in Nat, NEW s, NEW n \in Nat \ {0},
           HasBytes(buf, p, v, s, n)
    PROVE  Spelled(buf, p, p + 8 * n, v)
<1>1. BytesAt(buf, p, s)
  BY DEF BytesAt, HasBytes
<1>2. SubSeq(buf, p + 1, p + 8 * n) = Bytes(s)
  BY <1>1, BytesMatch DEF HasBytes
<1>3. p + 8 * n <= Len(buf)
  <2>1. ByteAt(buf, p + 8 * (n - 1), s[n])
    BY DEF HasBytes
  <2>2. p + 8 * (n - 1) + 8 <= Len(buf) /\ p + 8 * (n - 1) + 8 = p + 8 * n
    BY <2>1 DEF ByteAt
  <2> QED
    BY <2>2
<1>4. PICK e : e = p + 8 * n
  OBVIOUS
<1>5. e \in Nat /\ p < e /\ e <= Len(buf)
  BY <1>3, <1>4
<1> QED
  BY <1>2, <1>4, <1>5 DEF Spelled, HasBytes

LEMMA SpelledByOne ==
    ASSUME NEW buf \in Seq(Bit), NEW p \in Nat, NEW x, NEW r, ReadBehind(buf, p, x, 0, r)
    PROVE  Spelled(buf, p, p + 8, x)
<1>1. x \in 0..255 /\ ByteAt(buf, p, x) /\ 0 = Announced(x)
  BY DEF ReadBehind, ByteAt
<1>2. r = Ok(x, p + 8)
  <2>1. r = ReadFollowing(buf, p + 8, 0, x)
    BY DEF ReadBehind, Continuing
  <2> QED
    BY <2>1, FollowingIs
<1>3. ReadUtf8(buf, p) = Ok(x, p + 8) /\ ~Surrogate(x)
  <2>1. r.val = x /\ r.pos = p + 8
    BY <1>2, OksAre
  <2> QED
    BY <2>1 DEF ReadBehind, WellFormed
<1>4. x < 128
  BY <1>1 DEF Announced
<1>5. Utf8(x) = <<x>>
  BY <1>1, <1>4, Utf8Is
<1>6. p + 8 * 1 = p + 8 /\ p + 8 * (1 - 1) = p
  OBVIOUS
<1>7. HasBytes(buf, p, x, <<x>>, 1)
  BY <1>1, <1>3, <1>5, <1>6 DEF HasBytes
<1>8. Spelled(buf, p, p + 8 * 1, x)
  BY <1>1, <1>7, SpelledByBytes
<1> QED
  BY <1>6, <1>8

LEMMA SpelledByTwo ==
    ASSUME NEW buf \in Seq(Bit), NEW p \in Nat, NEW x, NEW r, ReadBehind(buf, p, x, 1, r)
    PROVE  Spelled(buf, p, p + 16, r.val)
<1>1. x \in 0..255 /\ ByteAt(buf, p, x) /\ 1 = Announced(x) /\ p + 8 \in Nat /\ p + 8 + 8 = p + 16
  BY DEF ReadBehind, ByteAt
<1>2. PICK a \in 0..31 : a = x % 32 /\ x = 192 + a
  <2>1. x \div 32 = 6
    BY <1>1 DEF Announced
  <2> QED
    BY ONLY <1>1, <2>1
<1>3. r = NextByte(buf, Ok(a, p + 8)) /\ Read(r)
  <2>1. 2^(6 - 1) = 32
    OBVIOUS
  <2>2. r = ReadFollowing(buf, p + 8, 1, a) /\ Read(r)
    BY <1>2, <2>1 DEF ReadBehind, Continuing
  <2> QED
    BY <2>2, FollowingIs
<1>4. PICK y, v : Continues(buf, p + 8, a, y, v)
  BY <1>1, <1>3, NextByteIs
<1>5. y = 128 + (v % 64) /\ v \in Nat /\ v \div 64 = a /\ v < 64 * a + 64 /\ r = Ok(v, p + 16)
      /\ ByteAt(buf, p + 8, y)
  BY <1>1, <1>3, <1>4 DEF Continues
<1>6. ReadUtf8(buf, p) = Ok(v, p + 16) /\ r.val = v /\ ~Surrogate(v) /\ v >= 128
  <2>1. r.val = v /\ r.pos = p + 16
    BY <1>5, OksAre
  <2>2. Least[1] = 128
    BY DEF Least
  <2> QED
    BY <2>1, <2>2 DEF ReadBehind, WellFormed
<1>7. v < 2048
  BY ONLY <1>5, a \in 0..31
<1>8. Len(Utf8(v)) = 2 /\ Utf8(v)[1] = x /\ Utf8(v)[2] = y
  <2>1. 1 = Following(v) /\ 1 \in 1..3
    BY <1>5, <1>6, <1>7, Utf8Is
  <2>2. Len(Utf8(v)) = 1 + 1 /\ Utf8(v)[1] = LeadByte[1] + v \div 64^1
        /\ \A k \in 1..1 : Utf8(v)[k + 1] = 128 + ((v \div 64^(1 - k)) % 64)
    BY <1>5, <2>1, Utf8Is
  <2>3. 64^1 = 64 /\ 64^(1 - 1) = 1 /\ LeadByte[1] = 192 /\ v \div 1 = v
    BY <1>5 DEF LeadByte
  <2>4. Utf8(v)[2] = 128 + ((v \div 64^(1 - 1)) % 64)
    BY <2>2
  <2>5. Utf8(v)[1] = 192 + a /\ Utf8(v)[2] = 128 + (v % 64)
    BY ONLY <1>5, <2>2, <2>3, <2>4
  <2> QED
    BY <1>2, <1>5, <2>2, <2>5
<1>9. Spelled(buf, p, p + 16, v)
  <2>1. PICK s : s = Utf8(v)
    OBVIOUS
  <2>2. Len(s) = 2 /\ s[1] = x /\ s[2] = y
    BY <1>8, <2>1
  <2>3. p + 8 * (1 - 1) = p /\ p + 8 * (2 - 1) = p + 8
    OBVIOUS
  <2>4. \A k \in 1..2 : ByteAt(buf, p + 8 * (k - 1), s[k])
    BY <1>1, <1>5, <2>2, <2>3
  <2>5. ReadUtf8(buf, p) = Ok(v, p + 8 * 2) /\ p + 8 * 2 = p + 16
    BY <1>6
  <2>6. HasBytes(buf, p, v, s, 2)
    BY <1>6, <2>1, <2>2, <2>4, <2>5 DEF HasBytes
  <2>7. Spelled(buf, p, p + 8 * 2, v)
    BY <1>5, <2>6, SpelledByBytes
  <2> QED
    BY <2>5, <2>7
<1> QED
  BY <1>6, <1>9

LEMMA SpelledByThree ==
    ASSUME NEW buf \in Seq(Bit), NEW p \in Nat, NEW x, NEW r, ReadBehind(buf, p, x, 2, r)
    PROVE  Spelled(buf, p, p + 24, r.val)
<1>1. /\ x \in 0..255 /\ ByteAt(buf, p, x) /\ 2 = Announced(x)
      /\ p + 8 \in Nat /\ p + 8 + 8 = p + 16 /\ p + 16 \in Nat /\ p + 16 + 8 = p + 24
  BY DEF ReadBehind, ByteAt
<1>2. PICK a \in 0..15 : a = x % 16 /\ x = 224 + a
  <2>1. x \div 16 = 14
    BY <1>1 DEF Announced
  <2> QED
    BY ONLY <1>1, <2>1
<1>3. PICK r1 : r1 = NextByte(buf, Ok(a, p + 8)) /\ Read(r1) /\ r = NextByte(buf, r1) /\ Read(r)
  <2>1. 2^(6 - 2) = 16
    OBVIOUS
  <2>2. r = ReadFollowing(buf, p + 8, 2, a) /\ Read(r)
    BY <1>2, <2>1 DEF ReadBehind, Continuing
  <2>3. r = NextByte(buf, NextByte(buf, Ok(a, p + 8)))
    BY <2>2, FollowingIs
  <2> QED
    BY <2>2, <2>3, NextByteReads
<1>4. PICK y, w : Continues(buf, p + 8, a, y, w)
  BY <1>1, <1>3, NextByteIs
<1>5. /\ y = 128 + (w % 64) /\ w \in Nat /\ w \div 64 = a /\ w < 64 * a + 64 /\ r1 = Ok(w, p + 16)
      /\ ByteAt(buf, p + 8, y)
  BY <1>1, <1>3, <1>4 DEF Continues
<1>6. PICK z, v : Continues(buf, p + 16, w, z, v)
  BY <1>1, <1>3, <1>5, NextByteIs
<1>7. /\ z = 128 + (v % 64) /\ v \in Nat /\ v \div 64 = w /\ v < 64 * w + 64 /\ r = Ok(v, p + 24)
      /\ ByteAt(buf, p + 16, z)
  BY <1>1, <1>3, <1>5, <1>6 DEF Continues
<1>8. ReadUtf8(buf, p) = Ok(v, p + 24) /\ r.val = v /\ ~Surrogate(v) /\ v >= 2048
  <2>1. r.val = v /\ r.pos = p + 24
    BY <1>7, OksAre
  <2>2. Least[2] = 2048
    BY DEF Least
  <2> QED
    BY <2>1, <2>2 DEF ReadBehind, WellFormed
<1>9. v < 65536 /\ v \div 4096 = a
  <2>1. w < 1024
    BY ONLY <1>5, a \in 0..15
  <2>2. v < 65536
    BY ONLY <1>7, <2>1, <1>5
  <2> QED
    BY ONLY <1>5, <1>7, <2>2, DigitsAbove
<1>10. Len(Utf8(v)) = 3 /\ Utf8(v)[1] = x /\ Utf8(v)[2] = y /\ Utf8(v)[3] = z
  <2>1. 2 = Following(v) /\ 2 \in 1..3
    BY <1>7, <1>8, <1>9, Utf8Is
  <2>2. Len(Utf8(v)) = 2 + 1 /\ Utf8(v)[1] = LeadByte[2] + v \div 64^2
        /\ \A k \in 1..2 : Utf8(v)[k + 1] = 128 + ((v \div 64^(2 - k)) % 64)
    BY <1>7, <2>1, Utf8Is
  <2>3. 64^2 = 4096 /\ 64^(2 - 1) = 64 /\ 64^(2 - 2) = 1 /\ LeadByte[2] = 224 /\ v \div 1 = v
    BY <1>7 DEF LeadByte
  <2>4. Utf8(v)[2] = 128 + ((v \div 64^(2 - 1)) % 64) /\ Utf8(v)[3] = 128 + ((v \div 64^(2 - 2)) % 64)
    BY <2>2
  <2>5. Utf8(v)[1] = 224 + a /\ Utf8(v)[2] = 128 + (w % 64) /\ Utf8(v)[3] = 128 + (v % 64)
    BY ONLY <1>7, <1>9, <2>2, <2>3, <2>4
  <2> QED
    BY <1>2, <1>5, <1>7, <2>2, <2>5
<1>11. Spelled(buf, p, p + 24, v)
  <2>1. PICK s : s = Utf8(v)
    OBVIOUS
  <2>2. Len(s) = 3 /\ s[1] = x /\ s[2] = y /\ s[3] = z
    BY <1>10, <2>1
  <2>3. p + 8 * (1 - 1) = p /\ p + 8 * (2 - 1) = p + 8 /\ p + 8 * (3 - 1) = p + 16
    OBVIOUS
  <2>4. \A k \in 1..3 : ByteAt(buf, p + 8 * (k - 1), s[k])
    BY <1>1, <1>5, <1>7, <2>2, <2>3
  <2>5. ReadUtf8(buf, p) = Ok(v, p + 8 * 3) /\ p + 8 * 3 = p + 24
    <3>1. p + 8 * 3 = p + 24
      OBVIOUS
    <3>2. PICK q : q = p + 24
      OBVIOUS
    <3>3. ReadUtf8(buf, p) = Ok(v, q)
      BY <1>8, <3>2
    <3> QED
      BY ONLY <3>1, <3>2, <3>3
  <2>6. HasBytes(buf, p, v, s, 3)
    BY <1>8, <2>1, <2>2, <2>4, <2>5 DEF HasBytes
  <2>7. Spelled(buf, p, p + 8 * 3, v)
    <3>1. v \in Nat /\ 3 \in Nat \ {0}
      BY <1>7
    <3> QED
      BY ONLY buf \in Seq(Bit), p \in Nat, <2>6, <3>1, SpelledByBytes
  <2> QED
    BY <2>5, <2>7
<1> QED
  BY <1>8, <1>11

LEMMA SpelledByFour ==
    ASSUME NEW buf \in Seq(Bit), NEW p \in Nat, NEW x, NEW r, ReadBehind(buf, p, x, 3, r)
    PROVE  Spelled(buf, p, p + 32, r.val)
<1>1. /\ x \in 0..255 /\ ByteAt(buf, p, x) /\ 3 = Announced(x)
      /\ p + 8 \in Nat /\ p + 8 + 8 = p + 16 /\ p + 16 \in Nat /\ p + 16 + 8 = p + 24
      /\ p + 24 \in Nat /\ p + 24 + 8 = p + 32
  BY DEF ReadBehind, ByteAt
<1>2. PICK a \in 0..7 : a = x % 8 /\ x = 240 + a
  <2>1. x \div 8 = 30
    BY <1>1 DEF Announced
  <2> QED
    BY ONLY <1>1, <2>1
<1>3. PICK r1, r2 : /\ r1 = NextByte(buf, Ok(a, p + 8)) /\ Read(r1) /\ r2 = NextByte(buf, r1) /\ Read(r2)
                    /\ r = NextByte(buf, r2) /\ Read(r)
  <2>1. 2^(6 - 3) = 8
    OBVIOUS
  <2>2. r = ReadFollowing(buf, p + 8, 3, a) /\ Read(r)
    BY <1>2, <2>1 DEF ReadBehind, Continuing
  <2>3. r = NextByte(buf, NextByte(buf, NextByte(buf, Ok(a, p + 8))))
    BY <2>2, FollowingIs
  <2>4. Read(NextByte(buf, NextByte(buf, Ok(a, p + 8))))
    BY <2>2, <2>3, NextByteReads
  <2> QED
    BY <2>2, <2>3, <2>4, NextByteReads
<1>4. PICK y, w : Continues(buf, p + 8, a, y, w)
  BY <1>1, <1>3, NextByteIs
<1>5. /\ y = 128 + (w % 64) /\ w \in Nat /\ w \div 64 = a /\ w < 64 * a + 64 /\ r1 = Ok(w, p + 16)
      /\ ByteAt(buf, p + 8, y)
  BY <1>1, <1>3, <1>4 DEF Continues
<1>6. PICK z, u : Continues(buf, p + 16, w, z, u)
  BY <1>1, <1>3, <1>5, NextByteIs
<1>7. /\ z = 128 + (u % 64) /\ u \in Nat /\ u \div 64 = w /\ u < 64 * w + 64 /\ r2 = Ok(u, p + 24)
      /\ ByteAt(buf, p + 16, z)
  BY <1>1, <1>3, <1>5, <1>6 DEF Continues
<1>8. PICK t, v : Continues(buf, p + 24, u, t, v)
  BY <1>1, <1>3, <1>7, NextByteIs
<1>9. /\ t = 128 + (v % 64) /\ v \in Nat /\ v \div 64 = u /\ v < 64 * u + 64 /\ r = Ok(v, p + 32)
      /\ ByteAt(buf, p + 24, t)
  BY <1>1, <1>3, <1>7, <1>8 DEF Continues
<1>r. r.val = v /\ r.pos = p + 32
  BY <1>9, OksAre
<1>10. ReadUtf8(buf, p) = Ok(v, p + 32) /\ r.val = v /\ ~Surrogate(v)
  BY <1>r DEF ReadBehind, WellFormed
<1>m. v >= 65536
  <2>1. Least[3] = 65536
    BY DEF Least
  <2> QED
    BY <1>r, <2>1 DEF ReadBehind, WellFormed
<1>11. v \div 4096 = w /\ v \div 262144 = a
  BY ONLY <1>5, <1>7, <1>9, DigitsAbove
<1>12. Len(Utf8(v)) = 4 /\ Utf8(v)[1] = x /\ Utf8(v)[2] = y /\ Utf8(v)[3] = z /\ Utf8(v)[4] = t
  <2>1. 3 = Following(v) /\ 3 \in 1..3
    BY <1>9, <1>m, Utf8Is
  <2>2. Len(Utf8(v)) = 3 + 1 /\ Utf8(v)[1] = LeadByte[3] + v \div 64^3
        /\ \A k \in 1..3 : Utf8(v)[k + 1] = 128 + ((v \div 64^(3 - k)) % 64)
    BY <1>9, <2>1, Utf8Is
  <2>3. /\ 64^3 = 262144 /\ 64^(3 - 1) = 4096 /\ 64^(3 - 2) = 64 /\ 64^(3 - 3) = 1
        /\ LeadByte[3] = 240 /\ v \div 1 = v
    BY <1>9 DEF LeadByte
  <2>4. /\ Utf8(v)[2] = 128 + ((v \div 64^(3 - 1)) % 64) /\ Utf8(v)[3] = 128 + ((v \div 64^(3 - 2)) % 64)
        /\ Utf8(v)[4] = 128 + ((v \div 64^(3 - 3)) % 64)
    BY <2>2
  <2>5. v \div 64^3 = a /\ v \div 64^(3 - 1) = w /\ v \div 64^(3 - 2) = u /\ v \div 64^(3 - 3) = v
    BY ONLY <1>9, <1>11, <2>3
  <2>6. /\ Utf8(v)[1] = 240 + a /\ Utf8(v)[2] = 128 + (w % 64) /\ Utf8(v)[3] = 128 + (u % 64)
        /\ Utf8(v)[4] = 128 + (v % 64)
    <3>1. LeadByte[3] = 240
      BY DEF LeadByte
    <3> QED
      BY ONLY <2>2, <2>4, <2>5, <3>1
  <2> QED
    BY <1>2, <1>5, <1>7, <1>9, <2>2, <2>6
<1>13. Spelled(buf, p, p + 32, v)
  <2>1. PICK s : s = Utf8(v)
    OBVIOUS
  <2>2. Len(s) = 4 /\ s[1] = x /\ s[2] = y /\ s[3] = z /\ s[4] = t
    BY <1>12, <2>1
  <2>3. p + 8 * (1 - 1) = p /\ p + 8 * (2 - 1) = p + 8 /\ p + 8 * (3 - 1) = p + 16 /\ p + 8 * (4 - 1) = p + 24
    OBVIOUS
  <2>4. \A k \in 1..4 : ByteAt(buf, p + 8 * (k - 1), s[k])
    BY <1>1, <1>5, <1>7, <1>9, <2>2, <2>3
  <2>5. ReadUtf8(buf, p) = Ok(v, p + 8 * 4) /\ p + 8 * 4 = p + 32
    <3>1. p + 8 * 4 = p + 32
      OBVIOUS
    <3>2. PICK q : q = p + 32
      OBVIOUS
    <3>3. ReadUtf8(buf, p) = Ok(v, q)
      BY <1>10, <3>2
    <3> QED
      BY ONLY <3>1, <3>2, <3>3
  <2>6. HasBytes(buf, p, v, s, 4)
    BY <1>10, <2>1, <2>2, <2>4, <2>5 DEF HasBytes
  <2>7. Spelled(buf, p, p + 8 * 4, v)
    BY <1>9, <2>6, SpelledByBytes
  <2> QED
    BY <2>5, <2>7
<1> QED
  BY <1>10, <1>13

\* tp_bs_read_utf8 accepts a code point only in the bytes that tp_bs_write_utf8 makes
\* of it: forms that are too long and surrogates are refused.
LEMMA OneSpellingRead ==
    ASSUME NEW buf \in Seq(Bit), NEW p \in Nat, Read(ReadUtf8(buf, p))
    PROVE  \E e, v : Spelled(buf, p, e, v)
<1>1. PICK x, n, r : ReadBehind(buf, p, x, n, r)
  BY FirstByteIs
<1>2. n \in 0..3
  BY <1>1 DEF ReadBehind
<1>3. CASE n = 0
  BY <1>1, <1>3, SpelledByOne
<1>4. CASE n = 1
  BY <1>1, <1>4, SpelledByTwo
<1>5. CASE n = 2
  BY <1>1, <1>5, SpelledByThree
<1>6. CASE n = 3
  BY <1>1, <1>6, SpelledByFour
<1> QED
  BY <1>2, <1>3, <1>4, <1>5, <1>6

-----------------------------------------------------------------------------
(* Bits and bytes *)

LEMMA ZerosType ==
    ASSUME NEW n \in Nat
    PROVE  Zeros(n) \in Seq(Bit) /\ Len(Zeros(n)) = n /\ \A i \in 1..n : Zeros(n)[i] = 0
<1>1. Zeros(n) = [i \in 1..n |-> 0] /\ 0 \in Bit
  BY DEF Zeros, Bit
<1> QED
  BY ONLY <1>1, n \in Nat

LEMMA PadIs ==
    ASSUME NEW p \in Nat
    PROVE  PadTo8(p) \in 0..7 /\ (p + PadTo8(p)) % 8 = 0
  BY DEF PadTo8

LEMMA BytesType ==
    ASSUME NEW s \in Seq(Int)
    PROVE  Bytes(s) \in Seq(Bit) /\ Len(Bytes(s)) = 8 * Len(s)
<1>1. PICK n \in Nat : n = Len(s)
  OBVIOUS
<1>2. PICK b : b = Bytes(s)
  OBVIOUS
<1>3. b = [i \in 1..8 * n |-> Bits(s[(i - 1) \div 8 + 1], 8)[((i - 1) % 8) + 1]]
  BY <1>1, <1>2 DEF Bytes
<1>4. ASSUME NEW i \in 1..8 * n PROVE b[i] \in Bit
  <2>1. PICK k \in 1..n : k = (i - 1) \div 8 + 1
    OBVIOUS
  <2>2. PICK j \in 1..8 : j = ((i - 1) % 8) + 1
    OBVIOUS
  <2>3. PICK x \in Int : x = s[k]
    BY <1>1, ElementOfSeq
  <2>4. Bits(x, 8) \in Seq(Bit) /\ Len(Bits(x, 8)) = 8
    BY BitsType
  <2>5. Bits(x, 8)[j] \in Bit
    BY <2>4, ElementOfSeq
  <2> QED
    BY <1>3, <2>1, <2>2, <2>3, <2>5
<1>5. PICK m \in Nat : m = 8 * n
  OBVIOUS
<1>6. b \in Seq(Bit) /\ Len(b) = m
  <2>1. PICK B : B = Bit
    OBVIOUS
  <2>2. b = [i \in 1..m |-> b[i]] /\ \A i \in 1..m : b[i] \in B
    BY <1>3, <1>4, <1>5, <2>1
  <2>3. b \in Seq(B) /\ Len(b) = m
    BY ONLY <2>2, m \in Nat
  <2> QED
    BY <2>1, <2>3
<1> QED
  BY <1>1, <1>2, <1>5, <1>6

-----------------------------------------------------------------------------
(* The calls of an item *)

Calls == Seq(BitStrings) \ {<<>>}

LEMMA OctetsType ==
    ASSUME NEW b \in Seq(Bit), Len(b) >= 8
    PROVE  Octets(b) \in Calls
<1>1. PICK m \in Nat : m = Len(b)
  OBVIOUS
<1>2. PICK n \in Nat : n = m \div 8 /\ n > 0
  BY <1>1
<1>3. PICK s : s = Octets(b)
  OBVIOUS
<1>4. s = [k \in 1..n |-> SubSeq(b, 8 * k - 7, 8 * k)]
  BY <1>1, <1>2, <1>3 DEF Octets
<1>5. PICK T : T = Seq(Bit)
  OBVIOUS
<1>6. ASSUME NEW k \in 1..n PROVE SubSeq(b, 8 * k - 7, 8 * k) \in T
  <2>1. 8 * k - 7 \in 1..m + 1 /\ 8 * k \in 0..m
    BY <1>2
  <2>2. SubSeq(b, 8 * k - 7, 8 * k) \in Seq(Bit)
    BY <1>1, <2>1, SubSeqProperties
  <2> QED
    BY <1>5, <2>2
<1>7. s \in Seq(T) /\ Len(s) = n
  BY ONLY <1>4, <1>6, n \in Nat
<1>8. s # <<>>
  BY <1>2, <1>7
<1> QED
  BY <1>3, <1>5, <1>7, <1>8 DEF Calls, BitStrings, Bit

LEMMA OneCall ==
    ASSUME NEW b \in Seq(Bit)
    PROVE  <<b>> \in Calls
<1>1. PICK T : T = Seq(Bit)
  OBVIOUS
<1>2. <<b>> \in Seq(T) /\ <<b>> # <<>>
  BY <1>1
<1> QED
  BY <1>1, <1>2 DEF Calls, BitStrings, Bit

LEMMA PowerDivides ==
    ASSUME NEW v \in Nat, NEW k \in 0..3
    PROVE  v \div 64^k \in Int
<1>1. 64^0 \in Nat \ {0} /\ 64^1 \in Nat \ {0} /\ 64^2 \in Nat \ {0} /\ 64^3 \in Nat \ {0}
  OBVIOUS
<1>2. k \in {0, 1, 2, 3}
  OBVIOUS
<1>3. PICK d \in Nat \ {0} : d = 64^k
  BY ONLY <1>1, <1>2
<1>4. v \div d \in Int
  BY ONLY v \in Nat, d \in Nat \ {0}
<1> QED
  BY ONLY <1>3, <1>4

\* The bytes of a code point are numbers.
LEMMA Utf8Type ==
    ASSUME NEW v \in Nat
    PROVE  Utf8(v) \in Seq(Int) /\ Len(Utf8(v)) > 0
<1>1. PICK n \in 0..3 : n = Following(v)
  BY DEF Following
<1>2. CASE n = 0
  <2>1. Utf8(v) = <<v>>
    BY ONLY <1>1, <1>2, Zenon DEF Utf8
  <2> QED
    BY <2>1
<1>3. CASE n # 0
  <2>1. PICK lead : lead = LeadByte[n] + v \div 64^n
    OBVIOUS
  <2>2. lead \in Int
    <3>1. n \in 1..3
      BY <1>3
    <3>2. LeadByte[n] \in Int
      BY <3>1 DEF LeadByte
    <3>3. v \div 64^n \in Int
      BY <3>1, PowerDivides
    <3> QED
      BY <2>1, <3>2, <3>3
  <2>3. PICK s : s = [k \in 1..n |-> 128 + ((v \div 64^(n - k)) % 64)]
    OBVIOUS
  <2>4. ASSUME NEW k \in 1..n PROVE s[k] \in Int
    <3>1. PICK m \in 0..3 : m = n - k
      OBVIOUS
    <3>2. PICK x \in Int : x = v \div 64^m
      BY PowerDivides
    <3>3. 128 + (x % 64) \in Int
      OBVIOUS
    <3> QED
      BY <2>3, <3>1, <3>2, <3>3
  <2>5. s \in Seq(Int) /\ Len(s) = n
    <3>1. s = [k \in 1..n |-> s[k]]
      BY <2>3
    <3> QED
      BY ONLY <2>4, <3>1, n \in 0..3
  <2>6. <<lead>> \o s \in Seq(Int) /\ Len(<<lead>> \o s) > 0
    BY ONLY <2>2, <2>5, n \in 0..3
  <2>7. Utf8(v) = <<lead>> \o s
    BY <1>1, <1>3, <2>1, <2>3 DEF Utf8
  <2> QED
    BY <2>6, <2>7
<1> QED
  BY <1>2, <1>3

LEMMA VarintCalls ==
    ASSUME NEW v \in Nat
    PROVE  Octets(VarintU(v)) \in Calls
<1>1. VarintU(v) \in Seq(Bit) /\ Len(VarintU(v)) > 7
  BY VarintLength, ProgramsAssumption
<1>2. PICK b \in Seq(Bit) : b = VarintU(v)
  BY <1>1
<1>3. Len(b) >= 8
  BY ONLY <1>1, <1>2
<1> QED
  BY <1>2, <1>3, OctetsType

LEMMA BytesCalls ==
    ASSUME NEW s \in Seq(Int), Len(s) > 0
    PROVE  Octets(Bytes(s)) \in Calls
<1>1. PICK b \in Seq(Bit) : b = Bytes(s) /\ Len(b) = 8 * Len(s)
  BY BytesType
<1>2. Len(b) >= 8
  BY <1>1
<1> QED
  BY <1>1, <1>2, OctetsType

\* Every item but an alignment has a call, and its calls write bits.
LEMMA CallsType ==
    ASSUME NEW it, IsItem(it), it.kind # "ALIGN"
    PROVE  CallsOf(it) \in Calls
<1>1. CASE it.kind = "UNSIGNED"
  <2>1. it.val \in Int /\ it.n \in Nat
    BY <1>1 DEF IsItem
  <2>2. Bits(it.val, it.n) \in Seq(Bit)
    BY <2>1, BitsType
  <2>3. CallsOf(it) = <<Bits(it.val, it.n)>>
    BY ONLY <1>1, Zenon DEF CallsOf
  <2> QED
    BY <2>2, <2>3, OneCall
<1>2. CASE it.kind = "SIGNED"
  <2>1. it.val \in Int /\ it.n \in 1..28
    BY <1>2 DEF IsItem
  <2>2. PICK n \in 1..28 : n = it.n
    BY <2>1
  <2>3. PICK d \in Nat \ {0} : d = 2^n
    <3>1. n \in 0..28
      OBVIOUS
    <3> QED
      BY <3>1, PowerIs
  <2>4. PICK v \in Int : v = it.val % d
    BY <2>1
  <2>5. Bits(v, n) \in Seq(Bit)
    BY BitsType
  <2>6. CallsOf(it) = <<Bits(it.val % 2^it.n, it.n)>>
    BY ONLY <1>2, Zenon DEF CallsOf
  <2> QED
    BY <2>2, <2>3, <2>4, <2>5, <2>6, OneCall
<1>3. CASE it.kind = "VARINT_U"
  <2>1. it.val \in Nat
    BY <1>3 DEF IsItem
  <2>2. CallsOf(it) = Octets(VarintU(it.val))
    BY ONLY <1>3, Zenon DEF CallsOf
  <2> QED
    BY <2>1, <2>2, VarintCalls
<1>4. CASE it.kind = "VARINT_S"
  <2>1. it.val \in Int
    BY <1>4 DEF IsItem
  <2>2. PICK u : u = IF it.val < 0 THEN -2 * it.val - 1 ELSE 2 * it.val
    OBVIOUS
  <2>3. u \in Nat
    BY <2>1, <2>2
  <2>4. CallsOf(it) = Octets(VarintU(u))
    BY ONLY <1>4, <2>2, Zenon DEF CallsOf, VarintS
  <2> QED
    BY <2>3, <2>4, VarintCalls
<1>5. CASE it.kind = "UTF8"
  <2>1. it.val \in Nat
    BY <1>5 DEF IsItem
  <2>2. CallsOf(it) = Octets(Bytes(Utf8(it.val)))
    BY ONLY <1>5, Zenon DEF CallsOf
  <2>3. PICK s \in Seq(Int) : s = Utf8(it.val) /\ Len(s) > 0
    BY <2>1, Utf8Type
  <2> QED
    BY <2>2, <2>3, BytesCalls
<1>6. CASE it.kind = "BYTES"
  <2>1. PICK s : s = it.content
    OBVIOUS
  <2>2. s \in Seq(Int) /\ Len(s) > 0
    <3>1. PICK B : B = 0..255
      OBVIOUS
    <3>2. s \in Seq(B) /\ s # <<>>
      BY <1>6, <2>1, <3>1 DEF IsItem
    <3>3. B \subseteq Int
      BY <3>1
    <3>4. Len(s) > 0
      BY ONLY <3>2
    <3>5. PICK n \in Nat : n = Len(s) /\ s = [k \in 1..n |-> s[k]]
      BY ONLY <3>2
    <3>6. \A k \in 1..n : s[k] \in Int
      BY <3>2, <3>3, <3>5, ElementOfSeq
    <3>7. s \in Seq(Int)
      BY <3>5, <3>6, SequenceIs
    <3> QED
      BY <3>4, <3>7
  <2>3. CallsOf(it) = Octets(Bytes(s))
    BY ONLY <1>6, <2>1, Zenon DEF CallsOf
  <2> QED
    BY <2>2, <2>3, BytesCalls
<1>7. CASE it.kind = "APPEND"
  <2>1. it.content \in Seq(Bit)
    BY <1>7 DEF IsItem
  <2>2. CallsOf(it) = <<it.content>>
    BY ONLY <1>7, Zenon DEF CallsOf
  <2> QED
    BY <2>1, <2>2, OneCall
<1> QED
  BY <1>1, <1>2, <1>3, <1>4, <1>5, <1>6, <1>7 DEF IsItem

-----------------------------------------------------------------------------
(* Where the reader is left *)

LEMMA NextByteInside ==
    ASSUME NEW buf \in Seq(Bit), NEW r, Inside(r, buf)
    PROVE  Inside(NextByte(buf, r), buf)
<1>1. CASE r.rc # "OK"
  <2>1. NextByte(buf, r) = r
    BY <1>1, Zenon DEF NextByte, Then
  <2> QED
    BY <2>1
<1>2. CASE r.rc = "OK"
  <2>1. PICK q \in 0..Len(buf) : q = r.pos
    BY DEF Inside
  <2>2. PICK b : b = ReadBits(buf, q, 8)
    OBVIOUS
  <2>3. Inside(b, buf)
    BY <2>2, FieldsInside
  <2>4. NextByte(buf, r) = IF b.rc = "OK" THEN IF b.val \div 64 # 2 THEN Fail("INVALID_UTF8", b.pos)
                                               ELSE Ok(64 * r.val + (b.val % 64), b.pos)
                           ELSE b
    BY <1>2, <2>1, <2>2 DEF NextByte, Then
  <2>5. \A v : Inside(Ok(v, b.pos), buf) /\ Inside(Fail("INVALID_UTF8", b.pos), buf)
    BY <2>3 DEF Inside, Ok, Fail
  <2> QED
    BY <2>3, <2>4, <2>5
<1> QED
  BY <1>1, <1>2

LEMMA Utf8Inside ==
    ASSUME NEW buf \in Seq(Bit), NEW p \in 0..Len(buf)
    PROVE  Inside(ReadUtf8(buf, p), buf)
<1>1. PICK first : first = ReadBits(buf, p, 8)
  OBVIOUS
<1>2. Inside(first, buf)
  BY <1>1, FieldsInside
<1>3. CASE first.rc # "OK"
  <2>1. ReadUtf8(buf, p) = first
    BY ONLY <1>1, <1>3, Zenon DEF ReadUtf8, Then
  <2> QED
    BY <1>2, <2>1
<1>4. CASE first.rc = "OK"
  <2>1. PICK n : n = Announced(first.val)
    OBVIOUS
  <2>2. n \in {-1, 0, 1, 2, 3}
    BY <2>1 DEF Announced
  <2>3. PICK cp : cp = IF n = 0 THEN first.val ELSE first.val % 2^(6 - n)
    OBVIOUS
  <2>4. PICK r : r = ReadFollowing(buf, first.pos, n, cp)
    OBVIOUS
  <2>5. ReadUtf8(buf, p) = IF n = -1 THEN Fail("INVALID_UTF8", first.pos)
                           ELSE IF r.rc = "OK"
                                THEN IF WellFormed(r.val, n) THEN Ok(r.val, r.pos) ELSE Fail("INVALID_UTF8", r.pos)
                                ELSE r
    BY ONLY <1>1, <1>4, <2>1, <2>3, <2>4, Zenon DEF ReadUtf8, Then
  <2>6. n # -1 => Inside(r, buf)
    <3> SUFFICES ASSUME n # -1 PROVE Inside(r, buf)
      OBVIOUS
    <3>1. n \in 0..3
      BY <2>2
    <3>2. PICK a0 : a0 = Ok(cp, first.pos)
      OBVIOUS
    <3>3. Inside(a0, buf)
      BY <1>2, <3>2 DEF Inside, Ok
    <3>4. PICK a1 : a1 = NextByte(buf, a0)
      OBVIOUS
    <3>5. PICK a2 : a2 = NextByte(buf, a1)
      OBVIOUS
    <3>6. PICK a3 : a3 = NextByte(buf, a2)
      OBVIOUS
    <3>7. Inside(a1, buf)
      BY <3>3, <3>4, NextByteInside
    <3>8. Inside(a2, buf)
      BY <3>5, <3>7, NextByteInside
    <3>9. Inside(a3, buf)
      BY <3>6, <3>8, NextByteInside
    <3>10. /\ n = 0 => r = a0
           /\ n = 1 => r = a1
           /\ n = 2 => r = a2
           /\ n = 3 => r = a3
      BY <2>4, <3>1, <3>2, <3>4, <3>5, <3>6, FollowingIs
    <3> QED
      BY <3>1, <3>3, <3>7, <3>8, <3>9, <3>10
  <2>7. /\ Inside(Fail("INVALID_UTF8", first.pos), buf)
        /\ n # -1 => \A v : Inside(Ok(v, r.pos), buf) /\ Inside(Fail("INVALID_UTF8", r.pos), buf)
    BY <1>2, <2>6 DEF Inside, Ok, Fail
  <2> QED
    BY <2>5, <2>6, <2>7
<1> QED
  BY <1>3, <1>4

\* The turns of ReadEach.
OneByteMore(buf, r) ==
    Then(r, LAMBDA bytes, q : Then(ReadBits(buf, q, 8), LAMBDA b, t : Ok(Append(bytes, b), t)))
EachOf(after, buf, p, n) == [k \in 0..n |-> IF k = 0 THEN Ok(<<>>, p) ELSE OneByteMore(buf, after[k - 1])]

\* What ReadEach has read so far.
BytesRead(buf) ==
    {Ok(s, q) : s \in Seq(0..255), q \in 0..Len(buf)} \cup {Fail("EOF", q) : q \in 0..Len(buf)}

LEMMA EachTurn ==
    ASSUME NEW buf \in Seq(Bit), NEW r \in BytesRead(buf)
    PROVE  OneByteMore(buf, r) \in BytesRead(buf)
<1>0. PICK B : B = 0..255
  OBVIOUS
<1>1. PICK m \in Nat : m = Len(buf)
  OBVIOUS
<1>2. BytesRead(buf) = {Ok(s, q) : s \in Seq(B), q \in 0..m} \cup {Fail("EOF", q) : q \in 0..m}
  BY <1>0, <1>1 DEF BytesRead
<1>3. CASE \E q \in 0..m : r = Fail("EOF", q)
  <2>1. r.rc # "OK"
    BY <1>3 DEF Fail
  <2>2. OneByteMore(buf, r) = r
    BY <2>1, Zenon DEF OneByteMore, Then
  <2> QED
    BY <2>2
<1>4. CASE \E s \in Seq(B), q \in 0..m : r = Ok(s, q)
  <2>1. PICK s \in Seq(B), q \in 0..m : r = Ok(s, q)
    BY <1>4
  <2>2. r.rc = "OK" /\ r.val = s /\ r.pos = q
    BY <2>1 DEF Ok
  <2>3. PICK b : b = ReadBits(buf, q, 8)
    OBVIOUS
  <2>4. OneByteMore(buf, r) = IF b.rc = "OK" THEN Ok(Append(s, b.val), b.pos) ELSE b
    BY <2>2, <2>3 DEF OneByteMore, Then
  <2>5. q \in Nat
    OBVIOUS
  <2>6. b = Fail("EOF", q) \/ \E x : ByteAt(buf, q, x) /\ b = Ok(x, q + 8)
    BY <2>3, <2>5, ReadByte
  <2>7. CASE b = Fail("EOF", q)
    <3>1. b.rc # "OK"
      BY <2>7 DEF Fail
    <3> QED
      BY <1>2, <2>4, <2>7, <3>1
  <2>8. CASE \E x : ByteAt(buf, q, x) /\ b = Ok(x, q + 8)
    <3>1. PICK x : ByteAt(buf, q, x) /\ b = Ok(x, q + 8)
      BY <2>8
    <3>2. b.rc = "OK" /\ b.val = x /\ b.pos = q + 8
      BY <3>1 DEF Ok
    <3>3. x \in B /\ q + 8 \in 0..m
      BY <1>0, <1>1, <2>5, <3>1 DEF ByteAt
    <3>4. Append(s, x) \in Seq(B)
      BY ONLY <3>3, s \in Seq(B)
    <3>5. PICK u \in Seq(B) : u = Append(s, x)
      BY <3>4
    <3>6. PICK t \in 0..m : t = q + 8
      BY <3>3
    <3>7. OneByteMore(buf, r) = Ok(u, t)
      BY ONLY <2>4, <3>2, <3>5, <3>6
    <3> QED
      BY ONLY <1>2, <3>7, u \in Seq(B), t \in 0..m
  <2> QED
    BY <2>6, <2>7, <2>8
<1> QED
  <2> QED
    BY <1>2, <1>3, <1>4

\* Nothing is read before the first turn of ReadEach.
LEMMA NoByteRead ==
    ASSUME NEW buf \in Seq(Bit), NEW p \in 0..Len(buf)
    PROVE  Ok(<<>>, p) \in BytesRead(buf)
<1>1. PICK B : B = 0..255
  OBVIOUS
<1>2. PICK e : e = <<>>
  OBVIOUS
<1>3. e \in Seq(B)
  BY <1>2
<1>4. BytesRead(buf) = {Ok(s, q) : s \in Seq(B), q \in 0..Len(buf)} \cup {Fail("EOF", q) : q \in 0..Len(buf)}
  BY <1>1 DEF BytesRead
<1>5. Ok(e, p) \in BytesRead(buf)
  BY <1>3, <1>4
<1> QED
  BY <1>2, <1>5

\* The turns of ReadEach are a function.
LEMMA EachExists ==
    ASSUME NEW buf \in Seq(Bit), NEW p \in 0..Len(buf), NEW n \in Nat
    PROVE  \E f : f = EachOf(f, buf, p, n)
<1> DEFINE turn(r) == OneByteMore(buf, r)
<1>2. PICK V : V = BytesRead(buf)
  OBVIOUS
<1>3. Ok(<<>>, p) \in V
  BY <1>2, NoByteRead
<1>4. \A r \in V : turn(r) \in V
  BY <1>2, EachTurn
<1>6. \A f : f = EachOf(f, buf, p, n) <=> f = [k \in 0..n |-> IF k = 0 THEN Ok(<<>>, p) ELSE turn(f[k - 1])]
  BY DEF EachOf
<1> HIDE DEF turn
<1> DEFINE next == [z \in (1..n) \X V |-> turn(z[2])]
<1>7. next \in [(1..n) \X V -> V]
  BY <1>4
<1>8. PICK f : CountsBy(f, Ok(<<>>, p), next, n, V)
  <2> HIDE DEF next
  <2> QED
    BY <1>3, <1>7, CountingExists
<1>9. f = EachOf(f, buf, p, n)
  <2>1. f \in [0..n -> V] /\ f[0] = Ok(<<>>, p) /\ \A k \in 1..n : f[k] = next[<<k, f[k - 1]>>]
    BY <1>8 DEF CountsBy
  <2>2. \A k \in 1..n : f[k] = turn(f[k - 1])
    <3> SUFFICES ASSUME NEW k \in 1..n PROVE f[k] = turn(f[k - 1])
      OBVIOUS
    <3>1. k - 1 \in 0..n
      OBVIOUS
    <3>2. PICK v \in V : v = f[k - 1]
      BY <2>1, <3>1
    <3>3. next[<<k, v>>] = turn(v)
      OBVIOUS
    <3> QED
      BY <2>1, <3>2, <3>3
  <2>3. f = [k \in 0..n |-> IF k = 0 THEN Ok(<<>>, p) ELSE turn(f[k - 1])]
    <3>1. f = [k \in 0..n |-> f[k]]
      BY <2>1
    <3>2. \A k \in 0..n : f[k] = IF k = 0 THEN Ok(<<>>, p) ELSE turn(f[k - 1])
      BY <2>1, <2>2
    <3> QED
      BY ONLY <3>1, <3>2
  <2> QED
    BY <1>6, <2>3
<1> QED
  BY <1>9

LEMMA EachInside ==
    ASSUME NEW buf \in Seq(Bit), NEW p \in 0..Len(buf), NEW n \in Nat
    PROVE  Inside(ReadEach(buf, p, n), buf)
<1> DEFINE F == CHOOSE f : f = EachOf(f, buf, p, n)
           turn(r) == OneByteMore(buf, r)
<1>1. ReadEach(buf, p, n) = F[n]
  BY DEF ReadEach, EachOf, OneByteMore
<1>2. PICK V : V = BytesRead(buf)
  OBVIOUS
<1>3. Ok(<<>>, p) \in V
  BY <1>2, NoByteRead
<1>4. \A r \in V : turn(r) \in V
  BY <1>2, EachTurn
<1>5. EachOf(F, buf, p, n) = [k \in 0..n |-> IF k = 0 THEN Ok(<<>>, p) ELSE turn(F[k - 1])]
  BY DEF EachOf
<1>6. \A f : f = EachOf(f, buf, p, n) <=> f = [k \in 0..n |-> IF k = 0 THEN Ok(<<>>, p) ELSE turn(f[k - 1])]
  BY DEF EachOf
<1> HIDE DEF turn
<1>10. F = EachOf(F, buf, p, n)
  BY EachExists
<1> HIDE DEF F
<1> DEFINE good == {k \in Nat : k <= n => F[k] \in V}
<1>11. \A k \in Nat : k \in good
  <2>1. 0 \in good
    BY <1>3, <1>6, <1>10
  <2>2. ASSUME NEW k \in Nat, k \in good PROVE k + 1 \in good
    <3> SUFFICES ASSUME k + 1 <= n PROVE F[k + 1] \in V
      OBVIOUS
    <3>1. PICK j \in 0..n : j = k + 1 /\ j # 0 /\ j - 1 = k
      OBVIOUS
    <3>2. F[j] = turn(F[j - 1])
      BY <1>6, <1>10, <3>1
    <3> QED
      BY <1>4, <2>2, <3>1, <3>2
  <2> HIDE DEF good
  <2> QED
    BY <2>1, <2>2, SetInduction
<1>12. F[n] \in V
  BY <1>11
<1>13. \A r \in V : Inside(r, buf)
  BY <1>2 DEF BytesRead, Inside, Ok, Fail
<1> QED
  BY <1>1, <1>12, <1>13

LEMMA ContentLength ==
    ASSUME NEW it, IsItem(it), it.kind = "BYTES"
    PROVE  Len(it.content) \in Nat
<1>1. PICK B : B = 0..255
  OBVIOUS
<1>2. PICK s : s = it.content
  OBVIOUS
<1>3. s \in Seq(B)
  BY <1>1, <1>2 DEF IsItem
<1>4. Len(s) \in Nat
  BY ONLY <1>3
<1> QED
  BY <1>2, <1>4

\* Every item leaves the reader inside its buffer, whatever is there.
LEMMA ReadInside ==
    ASSUME NEW buf \in Seq(Bit), NEW p \in 0..Len(buf), NEW it, IsItem(it)
    PROVE  Inside(ReadAs(it, buf, p), buf)
<1>1. CASE it.kind = "UNSIGNED"
  <2>0. PICK n : n = it.n
    OBVIOUS
  <2>1. n \in Nat
    <3>1. n \in 1..28
      BY <1>1, <2>0 DEF IsItem
    <3> QED
      BY ONLY <3>1
  <2>2. ReadAs(it, buf, p) = ReadBits(buf, p, n)
    BY ONLY <1>1, <2>0, Zenon DEF ReadAs
  <2> QED
    BY <2>1, <2>2, FieldsInside
<1>2. CASE it.kind = "SIGNED"
  <2>0. PICK n : n = it.n
    OBVIOUS
  <2>1. n \in Nat
    <3>1. n \in 1..28
      BY <1>2, <2>0 DEF IsItem
    <3> QED
      BY ONLY <3>1
  <2>2. PICK r : r = ReadBits(buf, p, n)
    OBVIOUS
  <2>3. ReadAs(it, buf, p) = IF r.rc = "OK" THEN Ok(SignExtend(r.val, n), r.pos) ELSE r
    BY ONLY <1>2, <2>0, <2>2, Zenon DEF ReadAs, ReadSigned, Then
  <2>4. Inside(r, buf)
    BY <2>1, <2>2, FieldsInside
  <2> QED
    BY <2>3, <2>4 DEF Inside, Ok
<1>3. CASE it.kind = "VARINT_U"
  <2>1. ReadAs(it, buf, p) = ReadVarintU(buf, p)
    BY ONLY <1>3, Zenon DEF ReadAs
  <2> QED
    BY <2>1, VarintInside
<1>4. CASE it.kind = "VARINT_S"
  <2>1. PICK r : r = ReadVarintU(buf, p)
    OBVIOUS
  <2>2. ReadAs(it, buf, p) = IF r.rc = "OK"
                             THEN Ok(IF r.val % 2 = 1 THEN -(r.val \div 2) - 1 ELSE r.val \div 2, r.pos)
                             ELSE r
    BY ONLY <1>4, <2>1, Zenon DEF ReadAs, ReadVarintS, Then
  <2>3. Inside(r, buf)
    BY <2>1, VarintInside
  <2> QED
    BY <2>2, <2>3 DEF Inside, Ok
<1>5. CASE it.kind = "UTF8"
  <2>1. ReadAs(it, buf, p) = ReadUtf8(buf, p)
    BY ONLY <1>5, Zenon DEF ReadAs
  <2> QED
    BY <2>1, Utf8Inside
<1>6. CASE it.kind = "BYTES"
  <2>1. PICK n \in Nat : n = Len(it.content)
    BY ContentLength, <1>6
  <2>2. ReadAs(it, buf, p) = ReadEach(buf, p, n)
    BY ONLY <1>6, <2>1, Zenon DEF ReadAs
  <2> QED
    BY <2>2, EachInside
<1>7. CASE it.kind = "APPEND"
  <2>1. PICK n \in Nat : n = Len(it.content)
    BY <1>7 DEF IsItem
  <2>2. ReadAs(it, buf, p) = ReadRaw(buf, p, n)
    BY ONLY <1>7, <2>1, Zenon DEF ReadAs
  <2> QED
    BY <2>2, FieldsInside
<1>8. CASE it.kind = "ALIGN"
  <2>1. p \in Nat
    OBVIOUS
  <2>2. PICK n \in Nat : n = PadTo8(p)
    <3>1. PadTo8(p) \in 0..7
      BY <2>1, PadIs
    <3> QED
      BY ONLY <3>1
  <2>3. ReadAs(it, buf, p) = Advance(buf, p, n)
    BY ONLY <1>8, <2>2, Zenon DEF ReadAs, AlignReader
  <2> QED
    BY <2>3, FieldsInside
<1> QED
  BY <1>1, <1>2, <1>3, <1>4, <1>5, <1>6, <1>7, <1>8 DEF IsItem

-----------------------------------------------------------------------------
(* The bits of the calls of an item *)

LEMMA MultipleIs ==
    ASSUME NEW y \in Int, NEW m \in Nat \ {0}, y % m = 0
    PROVE  \E k \in Int : y = m * k
<1>1. PICK k \in Int : k = y \div m
  OBVIOUS
<1>2. y = m * k + (y % m)
  BY ONLY <1>1, y \in Int, m \in Nat \ {0}
<1>3. PICK z \in Int : z = m * k
  OBVIOUS
<1> QED
  BY ONLY <1>2, <1>3, y % m = 0, z \in Int, k \in Int

\* The number of a signed field that a width leaves of one.
LEMMA SignedIs ==
    ASSUME NEW x \in Int, NEW n \in 1..28, NEW u, u = x % 2^n
    PROVE  SignExtend(u, n) = CHOOSE v \in -(2^(n - 1))..2^(n - 1) - 1 : (v - x) % 2^n = 0
<1>1. PICK h \in Nat \ {0} : h = 2^(n - 1)
  <2>1. n - 1 \in 0..28
    OBVIOUS
  <2> QED
    BY <2>1, PowerIs
<1>2. PICK m \in Nat \ {0} : m = 2^n /\ m = 2 * h
  <2>1. PICK k \in 0..27 : k = n - 1 /\ k + 1 = n
    OBVIOUS
  <2>2. 2^(k + 1) = 2 * 2^k
    BY TwiceAsMuch
  <2>3. 2^n = 2 * h
    BY ONLY <1>1, <2>1, <2>2
  <2>4. 2 * h \in Nat \ {0}
    OBVIOUS
  <2> QED
    BY ONLY <2>3, <2>4
<1>3. PICK q \in Int : x = m * q + u
  <2>1. x \div m \in Int /\ x = m * (x \div m) + (x % m)
    BY ONLY x \in Int, m \in Nat \ {0}
  <2> QED
    BY ONLY <1>2, <2>1, u = x % 2^n
<1>4. u \in 0..m - 1
  BY ONLY <1>2, u = x % 2^n, x \in Int, m \in Nat \ {0}
<1>5. PICK s \in Int : s = SignExtend(u, n) /\ s = IF u >= h THEN u - m ELSE u
  <2>1. SignExtend(u, n) = IF u >= h THEN u - m ELSE u
    BY ONLY <1>1, <1>2 DEF SignExtend
  <2>2. (IF u >= h THEN u - m ELSE u) \in Int
    BY ONLY <1>4, h \in Nat, m \in Nat
  <2> QED
    BY ONLY <2>1, <2>2
<1>6. s \in -h..h - 1
  BY ONLY <1>2, <1>4, <1>5, h \in Nat \ {0}, m \in Nat, s \in Int
<1>7. (s - x) % m = 0
  <2>1. PICK z \in Int : z = m * q
    OBVIOUS
  <2>2. s - x = m * (-q) \/ s - x = m * (-q - 1)
    <3>1. m * (-q) = -z /\ m * (-q - 1) = -z - m
      BY ONLY <2>1, m \in Nat, q \in Int, z \in Int
    <3> QED
      BY ONLY <1>3, <1>4, <1>5, <2>1, <3>1, m \in Nat, h \in Nat, z \in Int, x \in Int, s \in Int
  <2>3. PICK k \in Int : s - x = m * k
    <3>1. -q \in Int /\ -q - 1 \in Int
      OBVIOUS
    <3> QED
      BY ONLY <2>2, <3>1, Zenon
  <2>4. (m * k) % m = 0
    BY ONLY m \in Nat \ {0}, k \in Int
  <2> QED
    BY ONLY <2>3, <2>4
<1>8. ASSUME NEW t \in -h..h - 1, (t - x) % m = 0 PROVE t = s
  <2>1. PICK a \in Int : t - x = m * a
    <3>1. t - x \in Int
      BY ONLY t \in -h..h - 1, x \in Int, h \in Nat
    <3> QED
      BY ONLY <1>8, <3>1, m \in Nat \ {0}, MultipleIs
  <2>2. PICK b \in Int : s - x = m * b
    <3>1. s - x \in Int
      OBVIOUS
    <3> QED
      BY ONLY <1>7, <3>1, m \in Nat \ {0}, MultipleIs
  <2>3. PICK c \in Int : c = a - b
    OBVIOUS
  <2>4. t - s = m * c
    <3>1. m * c = m * a - m * b
      BY ONLY <2>3, a \in Int, b \in Int, m \in Nat
    <3>2. PICK y \in Int : y = m * a
      OBVIOUS
    <3>3. PICK z \in Int : z = m * b
      OBVIOUS
    <3>4. m * c = y - z /\ t - x = y /\ s - x = z
      BY ONLY <2>1, <2>2, <3>1, <3>2, <3>3
    <3>5. t - s = y - z
      BY ONLY <3>4, t \in -h..h - 1, h \in Nat, s \in Int, x \in Int, y \in Int, z \in Int
    <3> QED
      BY ONLY <3>4, <3>5
  <2>5. -m < t - s /\ t - s < m
    BY ONLY <1>2, <1>6, h \in Nat \ {0}, m \in Nat, s \in Int, t \in -h..h - 1
  <2>6. c = 0
    <3>1. c >= 1 => m * c >= m
      BY ONLY m \in Nat, c \in Int
    <3>2. c <= -1 => m * c <= -m
      BY ONLY m \in Nat, c \in Int
    <3>3. PICK y \in Int : y = m * c
      OBVIOUS
    <3> QED
      BY ONLY <2>4, <2>5, <3>1, <3>2, <3>3, c \in Int, y \in Int, m \in Nat
  <2> QED
    BY ONLY <2>4, <2>6, m \in Nat, s \in Int, t \in -h..h - 1, h \in Nat
<1>9. (CHOOSE v \in -h..h - 1 : (v - x) % m = 0) = s
  BY ONLY <1>6, <1>7, <1>8
<1> QED
  BY ONLY <1>1, <1>2, <1>5, <1>9

\* The bytes of a run of bits are the run.
LEMMA FlattenOctets ==
    ASSUME NEW b \in Seq(Bit), NEW k \in Nat, Len(b) = 8 * k
    PROVE  FlattenSeq(Octets(b)) = b
<1>1. PICK T : T = Seq(Bit)
  OBVIOUS
<1> DEFINE good == {n \in Nat : \A c \in T : Len(c) = 8 * n => FlattenSeq(Octets(c)) = c}
<1>2. 0 \in good
  <2> SUFFICES ASSUME NEW c \in T, Len(c) = 0 PROVE FlattenSeq(Octets(c)) = c
    OBVIOUS
  <2>1. c = <<>>
    BY <1>1
  <2>2. PICK o : o = Octets(c)
    OBVIOUS
  <2>3. o = [j \in 1..0 |-> SubSeq(c, 8 * j - 7, 8 * j)]
    <3>1. Len(c) \div 8 = 0
      OBVIOUS
    <3> QED
      BY ONLY <2>2, <3>1, Zenon DEF Octets
  <2>4. o = <<>> /\ Len(o) = 0
    BY ONLY <2>3
  <2>5. FlattenSeq(o) = o
    BY ONLY <2>4, Zenon DEF FlattenSeq
  <2> QED
    BY ONLY <2>1, <2>2, <2>4, <2>5
<1>3. ASSUME NEW n \in Nat, n \in good PROVE n + 1 \in good
  <2> SUFFICES ASSUME NEW c \in T, Len(c) = 8 * (n + 1) PROVE FlattenSeq(Octets(c)) = c
    OBVIOUS
  <2>1. c \in Seq(Bit) /\ Len(c) = 8 * n + 8
    BY <1>1
  <2>2. PICK d : d = SubSeq(c, 1, 8 * n)
    OBVIOUS
  <2>3. PICK x : x = SubSeq(c, 8 * n + 1, 8 * n + 8)
    OBVIOUS
  <2>4. d \in Seq(Bit) /\ Len(d) = 8 * n /\ x \in Seq(Bit)
    <3>1. 1 \in 1..Len(c) + 1 /\ 8 * n \in 0..Len(c) /\ 8 * n + 1 \in 1..Len(c) + 1 /\ 8 * n + 8 \in 0..Len(c)
      BY ONLY <2>1, n \in Nat
    <3>2. \A i \in 1..8 * n : c[i] \in Bit
      BY ONLY <2>1, n \in Nat, ElementOfSeq
    <3>3. \A i \in 8 * n + 1..8 * n + 8 : c[i] \in Bit
      BY ONLY <2>1, n \in Nat, ElementOfSeq
    <3>4. d \in Seq(Bit) /\ Len(d) = IF 1 <= 8 * n THEN 8 * n - 1 + 1 ELSE 0
      <4>1. 1 \in Int /\ 8 * n \in Int
        OBVIOUS
      <4> QED
        BY ONLY <2>2, <3>2, <4>1, SubSeqProperties
    <3>5. x \in Seq(Bit)
      <4>1. 8 * n + 1 \in Int /\ 8 * n + 8 \in Int
        OBVIOUS
      <4> QED
        BY ONLY <2>3, <3>3, <4>1, SubSeqProperties
    <3> QED
      BY ONLY <3>4, <3>5, n \in Nat
  <2>5. d \o x = c
    <3>1. 1 \in 1..Len(c) + 1 /\ 8 * n \in 1 - 1..Len(c) /\ 8 * n + 8 \in 8 * n..Len(c) /\ Len(c) = 8 * n + 8
      BY ONLY <2>1, n \in Nat
    <3>2. SubSeq(c, 1, 8 * n) \o SubSeq(c, 8 * n + 1, 8 * n + 8) = SubSeq(c, 1, 8 * n + 8)
      BY ONLY <2>1, <3>1, ConcatAdjacentSubSeq
    <3>3. SubSeq(c, 1, Len(c)) = c
      BY ONLY <2>1, SubSeqFull
    <3> QED
      BY ONLY <2>2, <2>3, <3>1, <3>2, <3>3
  <2>6. PICK o : o = Octets(c)
    OBVIOUS
  <2>7. o = [j \in 1..n + 1 |-> SubSeq(c, 8 * j - 7, 8 * j)]
    <3>1. Len(c) \div 8 = n + 1
      BY ONLY <2>1, n \in Nat
    <3> QED
      BY ONLY <2>6, <3>1, Zenon DEF Octets
  <2>8. PICK t : t = Octets(d)
    OBVIOUS
  <2>9. t = [j \in 1..n |-> SubSeq(d, 8 * j - 7, 8 * j)]
    <3>1. Len(d) \div 8 = n
      BY ONLY <2>4, n \in Nat
    <3> QED
      BY ONLY <2>8, <3>1, Zenon DEF Octets
  <2>10. ASSUME NEW j \in 1..n PROVE t[j] = o[j] /\ t[j] \in T
    <3>1. j \in 1..n + 1 /\ 8 * j - 7 \in 1..8 * n /\ 8 * j \in 1..8 * n
      OBVIOUS
    <3>2. t[j] = SubSeq(d, 8 * j - 7, 8 * j) /\ o[j] = SubSeq(c, 8 * j - 7, 8 * j)
      BY ONLY <2>7, <2>9, <3>1, j \in 1..n
    <3>3. SubSeq(d \o x, 8 * j - 7, 8 * j) = SubSeq(d, 8 * j - 7, 8 * j)
      <4>1. 8 * j - 7 \in 1..Len(d) /\ 8 * j \in 1..Len(d)
        BY ONLY <2>4, <3>1
      <4> QED
        BY ONLY <2>4, <4>1, SubSeqOfConcat1
    <3>4. SubSeq(d, 8 * j - 7, 8 * j) \in Seq(Bit)
      <4>1. 8 * j - 7 \in Int /\ 8 * j \in Int
        OBVIOUS
      <4>2. \A i \in 8 * j - 7..8 * j : d[i] \in Bit
        BY ONLY <2>4, <3>1, n \in Nat, j \in 1..n, ElementOfSeq
      <4> QED
        BY ONLY <4>1, <4>2, SubSeqProperties
    <3> QED
      BY ONLY <1>1, <2>5, <3>2, <3>3, <3>4
  <2>11. o[n + 1] = x
    <3>1. n + 1 \in 1..n + 1 /\ 8 * (n + 1) - 7 = 8 * n + 1 /\ 8 * (n + 1) = 8 * n + 8
      OBVIOUS
    <3> QED
      BY ONLY <2>3, <2>7, <3>1
  <2>12. o = Append(t, x) /\ t \in Seq(T)
    <3>1. t \in Seq(T) /\ Len(t) = n
      <4>1. t = [j \in 1..n |-> t[j]]
        BY ONLY <2>9
      <4>2. \A j \in 1..n : t[j] \in T
        BY ONLY <2>10
      <4> QED
        BY ONLY <4>1, <4>2, n \in Nat, SequenceIs
    <3>2. x \in T
      BY ONLY <1>1, <2>4
    <3>3. PICK y \in Seq(T) : /\ y = Append(t, x) /\ Len(y) = n + 1
                              /\ \A j \in 1..n : y[j] = t[j]
                              /\ y[n + 1] = x
      <4>1. /\ Append(t, x) \in Seq(T) /\ Len(Append(t, x)) = Len(t) + 1
            /\ \A i \in 1..Len(t) : Append(t, x)[i] = t[i]
            /\ Append(t, x)[Len(t) + 1] = x
        BY ONLY <3>1, <3>2, AppendProperties
      <4> QED
        BY ONLY <3>1, <4>1
    <3>4. y = [j \in 1..n + 1 |-> y[j]]
      <4>1. y \in [1..n + 1 -> T]
        BY ONLY <3>3, y \in Seq(T), LenProperties
      <4> QED
        BY ONLY <4>1
    <3>5. \A j \in 1..n + 1 : y[j] = o[j]
      <4> SUFFICES ASSUME NEW j \in 1..n + 1 PROVE y[j] = o[j]
        OBVIOUS
      <4>1. j \in 1..n \/ j = n + 1
        OBVIOUS
      <4> QED
        BY ONLY <2>10, <2>11, <3>3, <4>1
    <3>6. o = [j \in 1..n + 1 |-> o[j]]
      BY ONLY <2>7
    <3> QED
      BY ONLY <3>1, <3>3, <3>4, <3>5, <3>6
  <2>13. FlattenSeq(o) = FlattenSeq(t) \o x
    <3>1. t \in Seq(Seq(Bit))
      BY ONLY <1>1, <2>12
    <3> QED
      BY ONLY <2>4, <2>12, <3>1, FlattenLast
  <2>14. FlattenSeq(t) = d
    <3>1. d \in T
      BY ONLY <1>1, <2>4
    <3> QED
      BY ONLY <1>3, <2>4, <2>8, <3>1
  <2> QED
    BY ONLY <2>5, <2>6, <2>13, <2>14
<1>4. \A n \in Nat : n \in good
  <2> HIDE DEF good
  <2> QED
    BY ONLY <1>2, <1>3, SetInduction
<1>5. k \in good
  BY ONLY <1>4, k \in Nat
<1> QED
  BY <1>1, <1>5

-----------------------------------------------------------------------------
(* Bytes that are shown *)

LEMMA ByteShown ==
    ASSUME NEW buf \in Seq(Bit), NEW p \in Nat, NEW x \in 0..255, Shows(buf, p, Bits(x, 8))
    PROVE  Gives(ReadBits(buf, p, 8), x, p + 8, buf)
<1>1. PICK c : c = Bits(x, 8)
  OBVIOUS
<1>2. x \in Int /\ 8 \in Nat /\ 8 \in 0..28
  OBVIOUS
<1>3. c \in Seq(Bit) /\ 8 = Len(c)
  BY ONLY <1>1, <1>2, BitsType
<1>4. Number(c) = x
  <2>1. Number(c) = x % 2^8
    BY ONLY <1>1, <1>2, NumberOfBits
  <2>2. 2^8 = 256
    OBVIOUS
  <2>3. x % 256 = x
    OBVIOUS
  <2> QED
    BY ONLY <2>1, <2>2, <2>3
<1>5. Shows(buf, p, c)
  BY ONLY <1>1, Shows(buf, p, Bits(x, 8))
<1>6. Gives(ReadBits(buf, p, 8), Number(c), p + 8, buf)
  BY ONLY <1>3, <1>5, buf \in Seq(Bit), p \in Nat, ReadShown
<1> QED
  BY ONLY <1>4, <1>6

\* A byte of a run of bytes.
LEMMA ByteOfRun ==
    ASSUME NEW buf \in Seq(Bit), NEW p \in Nat, NEW s \in Seq(Int), NEW n, n = Len(s), Shows(buf, p, Bytes(s)),
           NEW k \in 1..n
    PROVE  Shows(buf, p + 8 * (k - 1), Bits(s[k], 8))
<1>1. PICK x \in Int : x = s[k]
  BY ElementOfSeq
<1>2. Len(Bits(x, 8)) = 8
  <2>1. 8 \in Nat
    OBVIOUS
  <2> QED
    BY ONLY <2>1, x \in Int, BitsType
<1>3. n \in Nat
  OBVIOUS
<1>4. ASSUME NEW i \in 1..8, p + 8 * (k - 1) + i <= Len(buf) PROVE buf[p + 8 * (k - 1) + i] = Bits(x, 8)[i]
  <2>1. PICK j \in 1..8 * n : j = 8 * (k - 1) + i
    <3>1. 8 * (k - 1) + i \in 1..8 * n
      BY ONLY <1>3, k \in 1..n, i \in 1..8
    <3> QED
      BY ONLY <3>1
  <2>2. p + j = p + 8 * (k - 1) + i
    BY ONLY <1>3, <2>1, p \in Nat, k \in 1..n, i \in 1..8
  <2>3. (j - 1) \div 8 + 1 = k /\ ((j - 1) % 8) + 1 = i
    <3>1. j - 1 = 8 * (k - 1) + (i - 1) /\ k - 1 \in Nat /\ i - 1 \in 0..7
      BY ONLY <1>3, <2>1, k \in 1..n, i \in 1..8
    <3>2. PICK a \in Nat : a = k - 1
      BY ONLY <3>1
    <3>3. PICK b \in 0..7 : b = i - 1
      BY ONLY <3>1
    <3>4. PICK z \in Nat : z = 8 * a + b
      OBVIOUS
    <3>5. z \div 8 = a /\ z % 8 = b
      BY ONLY <3>4, a \in Nat, b \in 0..7, z \in Nat
    <3>6. z = j - 1
      BY ONLY <3>1, <3>2, <3>3, <3>4
    <3> QED
      BY ONLY <1>3, <3>2, <3>3, <3>5, <3>6, k \in 1..n, i \in 1..8
  <2>4. Len(Bytes(s)) = 8 * n
    BY BytesType
  <2>5. buf[p + j] = Bytes(s)[j]
    BY ONLY <1>4, <2>2, <2>4, j \in 1..8 * n, Shows(buf, p, Bytes(s)) DEF Shows
  <2>6. Bytes(s)[j] = Bits(s[(j - 1) \div 8 + 1], 8)[((j - 1) % 8) + 1]
    <3>1. j \in 1..8 * Len(s)
      OBVIOUS
    <3> QED
      BY ONLY <3>1, Zenon DEF Bytes
  <2> QED
    BY ONLY <1>1, <2>2, <2>3, <2>5, <2>6
<1> QED
  BY ONLY <1>1, <1>2, <1>4 DEF Shows

\* One byte more of ReadEach.
LEMMA OneByteShown ==
    ASSUME NEW buf \in Seq(Bit), NEW q \in Nat, NEW r, NEW t, Gives(r, t, q, buf), NEW x \in 0..255,
           Shows(buf, q, Bits(x, 8))
    PROVE  Gives(OneByteMore(buf, r), Append(t, x), q + 8, buf)
<1>1. PICK m \in Nat : m = Len(buf)
  OBVIOUS
<1>2. CASE q <= m
  <2>1. r = Ok(t, q)
    BY ONLY <1>1, <1>2, Gives(r, t, q, buf) DEF Gives
  <2>2. r.rc = "OK" /\ r.val = t /\ r.pos = q
    BY ONLY <2>1 DEF Ok
  <2>3. PICK b : b = ReadBits(buf, q, 8)
    OBVIOUS
  <2>4. OneByteMore(buf, r) = IF b.rc = "OK" THEN Ok(Append(t, b.val), b.pos) ELSE b
    BY ONLY <2>2, <2>3, Zenon DEF OneByteMore, Then
  <2>5. Gives(b, x, q + 8, buf)
    BY ONLY <2>3, buf \in Seq(Bit), q \in Nat, x \in 0..255, Shows(buf, q, Bits(x, 8)), ByteShown
  <2>6. CASE q + 8 <= Len(buf)
    <3>1. b = Ok(x, q + 8)
      BY ONLY <2>5, <2>6 DEF Gives
    <3>2. b.rc = "OK" /\ b.val = x /\ b.pos = q + 8
      BY ONLY <3>1 DEF Ok
    <3>3. OneByteMore(buf, r) = Ok(Append(t, x), q + 8)
      BY ONLY <2>4, <3>2
    <3> QED
      BY ONLY <2>6, <3>3 DEF Gives
  <2>7. CASE ~(q + 8 <= Len(buf))
    <3>1. b.rc = "EOF" /\ b.rc # "OK"
      BY ONLY <2>5, <2>7 DEF Gives
    <3>2. OneByteMore(buf, r) = b
      BY ONLY <2>4, <3>1
    <3> QED
      BY ONLY <2>7, <3>1, <3>2 DEF Gives
  <2> QED
    BY ONLY <2>6, <2>7
<1>3. CASE ~(q <= m)
  <2>1. r.rc = "EOF" /\ r.rc # "OK"
    BY ONLY <1>1, <1>3, Gives(r, t, q, buf) DEF Gives
  <2>2. OneByteMore(buf, r) = r
    BY ONLY <2>1, Zenon DEF OneByteMore, Then
  <2>3. ~(q + 8 <= m)
    BY ONLY <1>3, q \in Nat, m \in Nat
  <2> QED
    BY ONLY <1>1, <2>1, <2>2, <2>3 DEF Gives
<1> QED
  BY ONLY <1>2, <1>3

\* What the reading of bytes gives for bytes that are shown.
LEMMA EachShown ==
    ASSUME NEW buf \in Seq(Bit), NEW p \in 0..Len(buf), NEW s \in Seq(0..255), NEW n, n = Len(s), Shows(buf, p, Bytes(s))
    PROVE  Gives(ReadEach(buf, p, n), s, p + 8 * n, buf)
<1> DEFINE F == CHOOSE f : f = EachOf(f, buf, p, n)
           Begun(k) == [i \in 1..k |-> s[i]]
<1>0. n \in Nat /\ p \in Nat
  OBVIOUS
<1>1. ReadEach(buf, p, n) = F[n]
  BY DEF ReadEach, EachOf, OneByteMore
<1>2. F = EachOf(F, buf, p, n)
  BY <1>0, EachExists
<1> HIDE DEF F
<1>3. F[0] = Ok(<<>>, p)
  <2>1. 0 \in 0..n
    BY <1>0
  <2> QED
    BY ONLY <1>2, <2>1, Zenon DEF EachOf
<1>4. ASSUME NEW k \in Nat, k < n PROVE F[k + 1] = OneByteMore(buf, F[k])
  <2>1. k + 1 \in 0..n /\ k + 1 # 0 /\ (k + 1) - 1 = k
    BY <1>0, <1>4
  <2>2. PICK j : j = k + 1
    OBVIOUS
  <2>3. F[j] = OneByteMore(buf, F[j - 1])
    BY ONLY <1>2, <2>1, <2>2, Zenon DEF EachOf
  <2> QED
    BY ONLY <2>1, <2>2, <2>3
<1>5. PICK B : B = 0..255
  OBVIOUS
<1>6. s \in Seq(B) /\ B \subseteq Int
  BY <1>5
<1>7. s \in Seq(Int)
  BY ONLY <1>6, SeqMonotonic
<1> DEFINE good == {k \in Nat : k <= n => Gives(F[k], Begun(k), p + 8 * k, buf)}
<1>8. 0 \in good
  <2>1. Begun(0) = <<>>
    OBVIOUS
  <2>2. p + 8 * 0 = p /\ p <= Len(buf)
    OBVIOUS
  <2> HIDE DEF Begun
  <2>3. Gives(F[0], Begun(0), p + 8 * 0, buf)
    BY ONLY <1>3, <2>1, <2>2 DEF Gives
  <2> QED
    BY <2>3
<1>9. ASSUME NEW k \in Nat, k \in good PROVE k + 1 \in good
  <2> SUFFICES ASSUME k + 1 <= n PROVE Gives(F[k + 1], Begun(k + 1), p + 8 * (k + 1), buf)
    OBVIOUS
  <2>1. PICK j \in 1..n : j = k + 1
    BY <1>0
  <2>2. k < n /\ k <= n /\ j - 1 = k
    BY <1>0, <2>1
  <2>3. PICK x \in B : x = s[j]
    BY <1>6, ElementOfSeq
  <2>4. PICK q \in Nat : q = p + 8 * k
    BY <1>0
  <2>5. Shows(buf, q, Bits(x, 8))
    <3>1. Shows(buf, p + 8 * (j - 1), Bits(s[j], 8))
      BY ONLY <1>0, <1>7, n = Len(s), buf \in Seq(Bit), j \in 1..n, Shows(buf, p, Bytes(s)), ByteOfRun
    <3> QED
      BY ONLY <2>2, <2>3, <2>4, <3>1
  <2>6. PICK t : t = Begun(k)
    OBVIOUS
  <2>7. Gives(F[k], t, q, buf)
    BY ONLY <1>9, <2>2, <2>4, <2>6
  <2>8. Gives(OneByteMore(buf, F[k]), Append(t, x), q + 8, buf)
    <3>1. PICK r : r = F[k]
      OBVIOUS
    <3>2. Gives(r, t, q, buf)
      BY ONLY <2>7, <3>1
    <3>3. x \in 0..255
      BY ONLY <1>5, x \in B
    <3>4. Gives(OneByteMore(buf, r), Append(t, x), q + 8, buf)
      BY ONLY <2>5, <3>2, <3>3, buf \in Seq(Bit), q \in Nat, OneByteShown
    <3> QED
      BY ONLY <3>1, <3>4
  <2>9. Append(t, x) = Begun(k + 1)
    <3>1. t = [i \in 1..k |-> s[i]]
      BY ONLY <2>6
    <3>2. \A i \in 1..k : t[i] \in B
      <4>1. \A i \in 1..k : i \in 1..Len(s)
        BY ONLY <1>0, <2>2, n = Len(s), k \in Nat
      <4> QED
        BY ONLY <1>6, <3>1, <4>1, ElementOfSeq
    <3>3. t \in Seq(B) /\ Len(t) = k
      <4>1. t = [i \in 1..k |-> t[i]]
        BY ONLY <3>1
      <4> QED
        BY ONLY <3>2, <4>1, k \in Nat, SequenceIs
    <3>4. PICK y : y = Append(t, x)
      OBVIOUS
    <3>5. y \in Seq(B) /\ Len(y) = k + 1 /\ y[k + 1] = x /\ \A i \in 1..k : y[i] = t[i]
      BY ONLY <3>3, <3>4, x \in B, AppendProperties
    <3>6. y \in [1..k + 1 -> B]
      BY ONLY <3>5, LenProperties
    <3>7. \A i \in 1..k + 1 : y[i] = s[i]
      <4> SUFFICES ASSUME NEW i \in 1..k + 1 PROVE y[i] = s[i]
        OBVIOUS
      <4>1. i \in 1..k \/ i = k + 1
        OBVIOUS
      <4> QED
        BY ONLY <2>1, <2>3, <3>1, <3>5, <4>1
    <3>8. y = [i \in 1..k + 1 |-> s[i]]
      BY ONLY <3>6, <3>7
    <3> QED
      BY ONLY <3>4, <3>8
  <2>10. q + 8 = p + 8 * (k + 1)
    BY ONLY <1>0, <2>4, k \in Nat
  <2>11. F[k + 1] = OneByteMore(buf, F[k])
    BY ONLY <1>4, <2>2, k \in Nat
  <2> QED
    BY ONLY <2>8, <2>9, <2>10, <2>11
<1>10. \A k \in Nat : k \in good
  <2> HIDE DEF good
  <2> QED
    BY ONLY <1>8, <1>9, SetInduction
<1>11. Gives(F[n], Begun(n), p + 8 * n, buf)
  BY <1>0, <1>10
<1>12. Begun(n) = s
  BY ONLY <1>6, n = Len(s), LenProperties
<1> QED
  BY ONLY <1>1, <1>11, <1>12

\* The same where the reader hands the bytes out at once.
LEMMA DirectShown ==
    ASSUME NEW buf \in Seq(Bit), NEW p \in 0..Len(buf), p % 8 = 0, NEW s \in Seq(0..255), NEW n, n = Len(s),
           Shows(buf, p, Bytes(s))
    PROVE  Gives(ReadBytes(buf, p, n), s, p + 8 * n, buf)
<1>0. n \in Nat /\ p \in Nat
  OBVIOUS
<1>1. PICK m \in Nat : m = Len(buf) /\ p <= m
  OBVIOUS
<1>2. n > (m - p) \div 8 <=> p + 8 * n > m
  <2>1. PICK d \in Nat : d = m - p
    <3>1. m - p \in Nat
      BY ONLY <1>0, <1>1, m \in Nat
    <3> QED
      BY ONLY <3>1
  <2>2. n > d \div 8 <=> 8 * n > d
    BY ONLY <1>0, d \in Nat
  <2> QED
    BY ONLY <1>0, <2>1, <2>2, m \in Nat
<1>3. PICK B : B = 0..255
  OBVIOUS
<1>4. s \in Seq(B) /\ B \subseteq Int
  BY <1>3
<1>5. s \in Seq(Int)
  BY ONLY <1>4, SeqMonotonic
<1>6. CASE p + 8 * n > m
  <2>1. ReadBytes(buf, p, n) = Fail("EOF", p)
    BY <1>1, <1>2, <1>6 DEF ReadBytes
  <2>2. Fail("EOF", p).rc = "EOF"
    BY DEF Fail
  <2>3. ~(p + 8 * n <= m)
    BY ONLY <1>0, <1>6, m \in Nat
  <2> QED
    BY ONLY <1>1, <2>1, <2>2, <2>3 DEF Gives
<1>7. CASE ~(p + 8 * n > m)
  <2>1. ReadBytes(buf, p, n) = Ok([i \in 1..n |-> Number(SubSeq(buf, p + 8 * i - 7, p + 8 * i))], p + 8 * n)
    BY <1>1, <1>2, <1>7 DEF ReadBytes
  <2>2. ASSUME NEW i \in 1..n PROVE Number(SubSeq(buf, p + 8 * i - 7, p + 8 * i)) = s[i]
    <3>1. PICK q \in Nat : q = p + 8 * (i - 1)
      BY <1>0
    <3>2. q + 8 = p + 8 * i /\ q + 1 = p + 8 * i - 7
      BY ONLY <1>0, <3>1, i \in 1..n
    <3>3. q + 8 <= m
      BY ONLY <1>0, <1>7, <3>2, i \in 1..n, m \in Nat
    <3>4. PICK x \in B : x = s[i]
      BY <1>4, ElementOfSeq
    <3>5. Gives(ReadBits(buf, q, 8), x, q + 8, buf)
      <4>1. Shows(buf, p + 8 * (i - 1), Bits(s[i], 8))
        BY ONLY <1>0, <1>5, n = Len(s), buf \in Seq(Bit), i \in 1..n, Shows(buf, p, Bytes(s)), ByteOfRun
      <4>2. Shows(buf, q, Bits(x, 8)) /\ x \in 0..255
        BY ONLY <1>3, <3>1, <3>4, <4>1
      <4> QED
        BY ONLY <4>2, buf \in Seq(Bit), q \in Nat, ByteShown
    <3>6. ReadBits(buf, q, 8) = Ok(x, q + 8)
      BY ONLY <1>1, <3>3, <3>5 DEF Gives
    <3>7. ReadBits(buf, q, 8) = Ok(Number(SubSeq(buf, q + 1, q + 8)), q + 8)
      <4>1. ~(q + 8 > m)
        BY ONLY <3>3, q \in Nat, m \in Nat
      <4> QED
        BY ONLY <1>1, <4>1 DEF ReadBits
    <3>8. Number(SubSeq(buf, q + 1, q + 8)) = x
      BY ONLY <3>6, <3>7 DEF Ok
    <3> QED
      BY ONLY <3>2, <3>4, <3>8
  <2>3. s = [i \in 1..n |-> s[i]]
    BY ONLY <1>4, n = Len(s), LenProperties
  <2>4. [i \in 1..n |-> Number(SubSeq(buf, p + 8 * i - 7, p + 8 * i))] = s
    BY ONLY <2>2, <2>3
  <2>5. p + 8 * n <= m
    BY ONLY <1>0, <1>7, m \in Nat
  <2> QED
    BY ONLY <1>1, <2>1, <2>4, <2>5 DEF Gives
<1> QED
  BY ONLY <1>6, <1>7

-----------------------------------------------------------------------------
(* Code points that are shown *)

\* One continuation byte more.
LEMMA NextByteShown ==
    ASSUME NEW buf \in Seq(Bit), NEW q \in Nat, NEW r, NEW c \in Nat, Gives(r, c, q, buf), NEW y \in 128..191,
           Shows(buf, q, Bits(y, 8)), NEW w, w = 64 * c + (y % 64)
    PROVE  Gives(NextByte(buf, r), w, q + 8, buf)
<1>1. PICK m \in Nat : m = Len(buf)
  OBVIOUS
<1>2. CASE q <= m
  <2>1. r = Ok(c, q)
    BY ONLY <1>1, <1>2, Gives(r, c, q, buf) DEF Gives
  <2>2. r.rc = "OK" /\ r.val = c /\ r.pos = q
    BY ONLY <2>1 DEF Ok
  <2>3. PICK b : b = ReadBits(buf, q, 8)
    OBVIOUS
  <2>4. NextByte(buf, r) = IF b.rc = "OK" THEN IF b.val \div 64 # 2 THEN Fail("INVALID_UTF8", b.pos)
                                               ELSE Ok(64 * c + (b.val % 64), b.pos)
                           ELSE b
    BY ONLY <2>2, <2>3, Zenon DEF NextByte, Then
  <2>5. Gives(b, y, q + 8, buf)
    <3>1. y \in 0..255
      OBVIOUS
    <3> QED
      BY ONLY <2>3, <3>1, buf \in Seq(Bit), q \in Nat, Shows(buf, q, Bits(y, 8)), ByteShown
  <2>6. CASE q + 8 <= Len(buf)
    <3>1. b = Ok(y, q + 8)
      BY ONLY <2>5, <2>6 DEF Gives
    <3>2. b.rc = "OK" /\ b.val = y /\ b.pos = q + 8
      BY ONLY <3>1 DEF Ok
    <3>3. y \div 64 = 2
      BY ONLY y \in 128..191
    <3>4. NextByte(buf, r) = Ok(w, q + 8)
      BY ONLY <2>4, <3>2, <3>3, w = 64 * c + (y % 64)
    <3> QED
      BY ONLY <2>6, <3>4 DEF Gives
  <2>7. CASE ~(q + 8 <= Len(buf))
    <3>1. b.rc = "EOF" /\ b.rc # "OK"
      BY ONLY <2>5, <2>7 DEF Gives
    <3>2. NextByte(buf, r) = b
      BY ONLY <2>4, <3>1
    <3> QED
      BY ONLY <2>7, <3>1, <3>2 DEF Gives
  <2> QED
    BY ONLY <2>6, <2>7
<1>3. CASE ~(q <= m)
  <2>1. r.rc = "EOF" /\ r.rc # "OK"
    BY ONLY <1>1, <1>3, Gives(r, c, q, buf) DEF Gives
  <2>2. NextByte(buf, r) = r
    BY ONLY <2>1, Zenon DEF NextByte, Then
  <2>3. ~(q + 8 <= m)
    BY ONLY <1>3, q \in Nat, m \in Nat
  <2> QED
    BY ONLY <1>1, <2>1, <2>2, <2>3 DEF Gives
<1> QED
  BY ONLY <1>2, <1>3

\* The bytes of a code point: the number that the first announces, what is left of the
\* first, and the digits of the others.
Leads(x, n, c) == x \in 0..255 /\ n = Announced(x) /\ c = (IF n = 0 THEN x ELSE x % 2^(6 - n)) /\ c \in Nat
Digit(y, c, w) == y \in 128..191 /\ w = 64 * c + (y % 64) /\ w \in Nat
UtfBytes(s, n, v) ==
    \E c0, c1, c2, c3 :
        /\ Len(s) = n + 1 /\ Leads(s[1], n, c0) /\ n \in 0..3
        /\ n >= 1 => Digit(s[2], c0, c1)
        /\ n >= 2 => Digit(s[3], c1, c2)
        /\ n >= 3 => Digit(s[4], c2, c3)
        /\ v = IF n = 0 THEN c0 ELSE IF n = 1 THEN c1 ELSE IF n = 2 THEN c2 ELSE c3

LEMMA UtfBytesAre ==
    ASSUME NEW v \in Nat, v <= LastCodepoint
    PROVE  UtfBytes(Utf8(v), Following(v), v) /\ (Following(v) > 0 => v >= Least[Following(v)])
<1>0. v <= 1114111
  BY DEF LastCodepoint
<1>1. PICK s : s = Utf8(v)
  OBVIOUS
<1>2. CASE v < 128
  <2>1. Following(v) = 0 /\ s = <<v>>
    BY ONLY <1>1, <1>2, v \in Nat, Utf8Is
  <2>2. Len(s) = 0 + 1 /\ s[1] = v
    BY ONLY <2>1
  <2>3. Leads(v, 0, v)
    <3>1. Announced(v) = 0
      BY ONLY <1>2 DEF Announced
    <3> QED
      BY ONLY <1>2, <3>1, v \in Nat DEF Leads
  <2>4. 0 \in 0..3 /\ ~(0 >= 1) /\ ~(0 >= 2) /\ ~(0 >= 3) /\ ~(0 > 0)
    OBVIOUS
  <2>5. UtfBytes(s, 0, v)
    BY ONLY <2>2, <2>3, <2>4, Zenon DEF UtfBytes
  <2> QED
    BY ONLY <1>1, <2>1, <2>4, <2>5
<1>3. CASE 128 <= v /\ v < 2048
  <2>1. Following(v) = 1
    BY ONLY <1>3, v \in Nat, Utf8Is
  <2>2. /\ Len(s) = 1 + 1 /\ s[1] = LeadByte[1] + v \div 64^1
        /\ \A k \in 1..1 : s[k + 1] = 128 + ((v \div 64^(1 - k)) % 64)
    <3>1. 1 \in 1..3
      OBVIOUS
    <3> QED
      BY ONLY <1>1, <2>1, <3>1, v \in Nat, Utf8Is
  <2>3. PICK a \in 2..31 : a = v \div 64
    BY ONLY <1>3, v \in Nat
  <2>4. PICK b \in 0..63 : b = v % 64 /\ v = 64 * a + b
    BY ONLY <2>3, v \in Nat
  <2>5. s[1] = 192 + a
    BY ONLY <2>2, <2>3 DEF LeadByte
  <2>6. s[2] = 128 + b
    <3>1. 1 \in 1..1 /\ 1 + 1 = 2 /\ 64^(1 - 1) = 1
      OBVIOUS
    <3>2. s[2] = 128 + ((v \div 1) % 64)
      BY ONLY <2>2, <3>1
    <3>3. v \div 1 = v
      OBVIOUS
    <3> QED
      BY ONLY <2>4, <3>2, <3>3
  <2>7. Leads(s[1], 1, a)
    <3>1. Announced(192 + a) = 1
      <4>1. ~(192 + a < 128) /\ (192 + a) \div 32 = 6
        OBVIOUS
      <4> QED
        BY ONLY <4>1 DEF Announced
    <3>2. 192 + a \in 0..255 /\ (192 + a) % 2^(6 - 1) = a /\ a \in Nat
      OBVIOUS
    <3> QED
      BY ONLY <2>5, <3>1, <3>2 DEF Leads
  <2>8. Digit(s[2], a, v)
    <3>1. 128 + b \in 128..191 /\ (128 + b) % 64 = b
      OBVIOUS
    <3> QED
      BY ONLY <2>4, <2>6, <3>1, v \in Nat DEF Digit
  <2>9. 1 \in 0..3 /\ 1 # 0 /\ ~(1 >= 2) /\ ~(1 >= 3)
    OBVIOUS
  <2>10. UtfBytes(s, 1, v)
    BY ONLY <2>2, <2>7, <2>8, <2>9, Zenon DEF UtfBytes
  <2>11. v >= Least[1]
    <3>1. 2^7 = 128
      OBVIOUS
    <3> QED
      BY ONLY <1>3, <3>1, v \in Nat DEF Least
  <2> QED
    BY ONLY <1>1, <2>1, <2>10, <2>11
<1>4. CASE 2048 <= v /\ v < 65536
  <2>1. Following(v) = 2
    BY ONLY <1>4, v \in Nat, Utf8Is
  <2>2. /\ Len(s) = 2 + 1 /\ s[1] = LeadByte[2] + v \div 64^2
        /\ \A k \in 1..2 : s[k + 1] = 128 + ((v \div 64^(2 - k)) % 64)
    <3>1. 2 \in 1..3
      OBVIOUS
    <3> QED
      BY ONLY <1>1, <2>1, <3>1, v \in Nat, Utf8Is
  <2>3. PICK d \in Nat : d = v \div 64
    OBVIOUS
  <2>4. PICK b \in 0..63 : b = v % 64 /\ v = 64 * d + b
    BY ONLY <2>3, v \in Nat
  <2>5. PICK a \in 0..15 : a = d \div 64
    BY ONLY <1>4, <2>3, <2>4, d \in Nat, v \in Nat
  <2>6. PICK e \in 0..63 : e = d % 64 /\ d = 64 * a + e
    BY ONLY <2>5, d \in Nat
  <2>7. v \div 4096 = a
    BY ONLY <2>3, <2>5, v \in Nat, DigitsAbove
  <2>8. s[1] = 224 + a
    <3>1. 64^2 = 4096
      OBVIOUS
    <3> QED
      BY ONLY <2>2, <2>7, <3>1 DEF LeadByte
  <2>9. s[2] = 128 + e
    <3>1. 1 \in 1..2 /\ 1 + 1 = 2 /\ 64^(2 - 1) = 64
      OBVIOUS
    <3>2. s[2] = 128 + ((v \div 64) % 64)
      BY ONLY <2>2, <3>1
    <3> QED
      BY ONLY <2>3, <2>6, <3>2
  <2>10. s[3] = 128 + b
    <3>1. 2 \in 1..2 /\ 2 + 1 = 3 /\ 64^(2 - 2) = 1
      OBVIOUS
    <3>2. s[3] = 128 + ((v \div 1) % 64)
      BY ONLY <2>2, <3>1
    <3>3. v \div 1 = v
      OBVIOUS
    <3> QED
      BY ONLY <2>4, <3>2, <3>3
  <2>11. Leads(s[1], 2, a)
    <3>1. Announced(224 + a) = 2
      <4>1. ~(224 + a < 128) /\ (224 + a) \div 32 # 6 /\ (224 + a) \div 16 = 14
        OBVIOUS
      <4> QED
        BY ONLY <4>1 DEF Announced
    <3>2. 224 + a \in 0..255 /\ (224 + a) % 2^(6 - 2) = a /\ a \in Nat
      OBVIOUS
    <3> QED
      BY ONLY <2>8, <3>1, <3>2 DEF Leads
  <2>12. Digit(s[2], a, d)
    <3>1. 128 + e \in 128..191 /\ (128 + e) % 64 = e
      OBVIOUS
    <3> QED
      BY ONLY <2>6, <2>9, <3>1, d \in Nat DEF Digit
  <2>13. Digit(s[3], d, v)
    <3>1. 128 + b \in 128..191 /\ (128 + b) % 64 = b
      OBVIOUS
    <3> QED
      BY ONLY <2>4, <2>10, <3>1, v \in Nat DEF Digit
  <2>14. 2 \in 0..3 /\ 2 # 0 /\ 2 # 1 /\ ~(2 >= 3)
    OBVIOUS
  <2>15. UtfBytes(s, 2, v)
    BY ONLY <2>2, <2>11, <2>12, <2>13, <2>14, Zenon DEF UtfBytes
  <2>16. v >= Least[2]
    <3>1. 2^11 = 2048
      OBVIOUS
    <3> QED
      BY ONLY <1>4, <3>1, v \in Nat DEF Least
  <2> QED
    BY ONLY <1>1, <2>1, <2>15, <2>16
<1>5. CASE 65536 <= v
  <2>1. Following(v) = 3
    BY ONLY <1>5, v \in Nat, Utf8Is
  <2>2. /\ Len(s) = 3 + 1 /\ s[1] = LeadByte[3] + v \div 64^3
        /\ \A k \in 1..3 : s[k + 1] = 128 + ((v \div 64^(3 - k)) % 64)
    <3>1. 3 \in 1..3
      OBVIOUS
    <3> QED
      BY ONLY <1>1, <2>1, <3>1, v \in Nat, Utf8Is
  <2>3. PICK d \in Nat : d = v \div 64
    OBVIOUS
  <2>4. PICK b \in 0..63 : b = v % 64 /\ v = 64 * d + b
    BY ONLY <2>3, v \in Nat
  <2>5. PICK g \in Nat : g = d \div 64
    OBVIOUS
  <2>6. PICK e \in 0..63 : e = d % 64 /\ d = 64 * g + e
    BY ONLY <2>5, d \in Nat
  <2>a. PICK h \in 0..63 : h = g % 64
    OBVIOUS
  <2>b. PICK a \in 0..7 : a = g \div 64 /\ g = 64 * a + h
    <3>1. g <= 272
      BY ONLY <1>0, <2>4, <2>6, v \in Nat, d \in Nat, g \in Nat, b \in 0..63, e \in 0..63
    <3> QED
      BY ONLY <2>a, <3>1, g \in Nat
  <2>7. v \div 4096 = g /\ v \div 262144 = a
    <3>1. v \div 4096 = g
      BY ONLY <2>3, <2>5, v \in Nat, DigitsAbove
    <3>2. v \div 262144 = (v \div 4096) \div 64
      BY DigitsAbove
    <3> QED
      BY ONLY <2>b, <3>1, <3>2
  <2>8. s[1] = 240 + a
    <3>1. 64^3 = 262144
      OBVIOUS
    <3> QED
      BY ONLY <2>2, <2>7, <3>1 DEF LeadByte
  <2>9. s[2] = 128 + h
    <3>1. 1 \in 1..3 /\ 1 + 1 = 2 /\ 64^(3 - 1) = 4096
      OBVIOUS
    <3>2. s[2] = 128 + ((v \div 4096) % 64)
      BY ONLY <2>2, <3>1
    <3> QED
      BY ONLY <2>7, <2>a, <3>2
  <2>10. s[3] = 128 + e
    <3>1. 2 \in 1..3 /\ 2 + 1 = 3 /\ 64^(3 - 2) = 64
      OBVIOUS
    <3>2. s[3] = 128 + ((v \div 64) % 64)
      BY ONLY <2>2, <3>1
    <3> QED
      BY ONLY <2>3, <2>6, <3>2
  <2>11. s[4] = 128 + b
    <3>1. 3 \in 1..3 /\ 3 + 1 = 4 /\ 64^(3 - 3) = 1
      OBVIOUS
    <3>2. s[4] = 128 + ((v \div 1) % 64)
      BY ONLY <2>2, <3>1
    <3>3. v \div 1 = v
      OBVIOUS
    <3> QED
      BY ONLY <2>4, <3>2, <3>3
  <2>12. Leads(s[1], 3, a)
    <3>1. Announced(240 + a) = 3
      <4>1. ~(240 + a < 128) /\ (240 + a) \div 32 # 6 /\ (240 + a) \div 16 # 14 /\ (240 + a) \div 8 = 30
        OBVIOUS
      <4> QED
        BY ONLY <4>1 DEF Announced
    <3>2. 240 + a \in 0..255 /\ (240 + a) % 2^(6 - 3) = a /\ a \in Nat
      OBVIOUS
    <3> QED
      BY ONLY <2>8, <3>1, <3>2 DEF Leads
  <2>13. Digit(s[2], a, g)
    <3>1. 128 + h \in 128..191 /\ (128 + h) % 64 = h
      OBVIOUS
    <3> QED
      BY ONLY <2>b, <2>9, <3>1, g \in Nat DEF Digit
  <2>14. Digit(s[3], g, d)
    <3>1. 128 + e \in 128..191 /\ (128 + e) % 64 = e
      OBVIOUS
    <3> QED
      BY ONLY <2>6, <2>10, <3>1, d \in Nat DEF Digit
  <2>15. Digit(s[4], d, v)
    <3>1. 128 + b \in 128..191 /\ (128 + b) % 64 = b
      OBVIOUS
    <3> QED
      BY ONLY <2>4, <2>11, <3>1, v \in Nat DEF Digit
  <2>16. 3 \in 0..3 /\ 3 # 0 /\ 3 # 1 /\ 3 # 2
    OBVIOUS
  <2>17. UtfBytes(s, 3, v)
    BY ONLY <2>2, <2>12, <2>13, <2>14, <2>15, <2>16, Zenon DEF UtfBytes
  <2>18. v >= Least[3]
    <3>1. 2^16 = 65536
      OBVIOUS
    <3> QED
      BY ONLY <1>5, <3>1, v \in Nat DEF Least
  <2> QED
    BY ONLY <1>1, <2>1, <2>17, <2>18
<1> QED
  BY ONLY <1>2, <1>3, <1>4, <1>5, v \in Nat

LEMMA Utf8Shown ==
    ASSUME NEW buf \in Seq(Bit), NEW p \in Nat, NEW v \in Nat, v <= LastCodepoint, ~Surrogate(v), NEW s, s = Utf8(v),
           Shows(buf, p, Bytes(s))
    PROVE  Gives(ReadUtf8(buf, p), v, p + 8 * Len(s), buf)
<1>1. PICK n \in 0..3 : n = Following(v) /\ UtfBytes(s, n, v) /\ (n > 0 => v >= Least[n])
  <2>1. UtfBytes(s, Following(v), v) /\ (Following(v) > 0 => v >= Least[Following(v)])
    BY ONLY v \in Nat, v <= LastCodepoint, s = Utf8(v), UtfBytesAre
  <2>2. Following(v) \in 0..3
    BY DEF Following
  <2> QED
    BY ONLY <2>1, <2>2
<1>2. PICK c0, c1, c2, c3 :
        /\ Len(s) = n + 1 /\ Leads(s[1], n, c0) /\ n \in 0..3
        /\ n >= 1 => Digit(s[2], c0, c1)
        /\ n >= 2 => Digit(s[3], c1, c2)
        /\ n >= 3 => Digit(s[4], c2, c3)
        /\ v = IF n = 0 THEN c0 ELSE IF n = 1 THEN c1 ELSE IF n = 2 THEN c2 ELSE c3
  BY ONLY <1>1, Zenon DEF UtfBytes
<1>3. PICK x \in 0..255 : x = s[1]
  BY ONLY <1>2 DEF Leads
<1>4. n = Announced(x) /\ c0 = (IF n = 0 THEN x ELSE x % 2^(6 - n)) /\ c0 \in Nat
  BY ONLY <1>2, <1>3 DEF Leads
<1>5. s \in Seq(Int) /\ n + 1 = Len(s)
  BY ONLY <1>2, v \in Nat, s = Utf8(v), Utf8Type
<1>6. ASSUME NEW k \in 1..n + 1 PROVE Shows(buf, p + 8 * (k - 1), Bits(s[k], 8))
  <2>1. PICK l \in Nat : l = n + 1
    OBVIOUS
  <2>2. k \in 1..l /\ l = Len(s)
    BY ONLY <1>5, <2>1, k \in 1..n + 1
  <2> QED
    BY ONLY <1>5, <2>2, buf \in Seq(Bit), p \in Nat, Shows(buf, p, Bytes(s)), ByteOfRun
<1>7. PICK q \in Nat : q = p + 8
  OBVIOUS
<1>8. PICK b : b = ReadBits(buf, p, 8)
  OBVIOUS
<1>9. Gives(b, x, q, buf)
  <2>1. Shows(buf, p, Bits(x, 8))
    <3>1. 1 \in 1..n + 1 /\ p + 8 * (1 - 1) = p
      OBVIOUS
    <3> QED
      BY ONLY <1>3, <1>6, <3>1
  <2> QED
    BY ONLY <1>7, <1>8, <2>1, buf \in Seq(Bit), p \in Nat, x \in 0..255, ByteShown
<1> DEFINE behind(i, z, t) ==
               IF i = -1 THEN Fail("INVALID_UTF8", t)
               ELSE Then(ReadFollowing(buf, t, i, IF i = 0 THEN z ELSE z % 2^(6 - i)),
                         LAMBDA cp, end : IF WellFormed(cp, i) THEN Ok(cp, end) ELSE Fail("INVALID_UTF8", end))
           rest(z, t) == behind(Announced(z), z, t)
<1>10. ReadUtf8(buf, p) = IF b.rc = "OK" THEN rest(b.val, b.pos) ELSE b
  BY ONLY <1>8 DEF ReadUtf8, Then
<1>11. PICK r : r = ReadFollowing(buf, q, n, c0)
  OBVIOUS
<1>12. rest(x, q) = IF r.rc = "OK" THEN IF WellFormed(r.val, n) THEN Ok(r.val, r.pos) ELSE Fail("INVALID_UTF8", r.pos) ELSE r
  <2>1. n # -1
    OBVIOUS
  <2>2. rest(x, q) = Then(ReadFollowing(buf, q, n, IF n = 0 THEN x ELSE x % 2^(6 - n)),
                          LAMBDA cp, end : IF WellFormed(cp, n) THEN Ok(cp, end) ELSE Fail("INVALID_UTF8", end))
    <3> HIDE DEF behind
    <3>1. rest(x, q) = behind(n, x, q)
      BY ONLY <1>4, Zenon
    <3> QED
      BY ONLY <2>1, <3>1, Zenon DEF behind
  <2>3. rest(x, q) = Then(r, LAMBDA cp, end : IF WellFormed(cp, n) THEN Ok(cp, end) ELSE Fail("INVALID_UTF8", end))
    BY ONLY <1>4, <1>11, <2>2, Zenon
  <2> HIDE DEF behind, rest
  <2> QED
    BY ONLY <2>3, Zenon DEF Then
<1> HIDE DEF behind, rest
<1>13. PICK m \in Nat : m = Len(buf)
  OBVIOUS
<1>14. PICK e \in Nat : e = p + 8 * Len(s) /\ e = q + 8 * n
  BY ONLY <1>5, <1>7, p \in Nat, q \in Nat, n \in 0..3
<1>15. CASE ~(q <= m)
  <2>1. b.rc = "EOF" /\ b.rc # "OK"
    BY ONLY <1>9, <1>13, <1>15 DEF Gives
  <2>2. ReadUtf8(buf, p) = b
    BY ONLY <1>10, <2>1
  <2>3. ~(e <= m)
    BY ONLY <1>14, <1>15, e \in Nat, q \in Nat, m \in Nat, n \in 0..3
  <2> QED
    BY ONLY <1>13, <1>14, <2>1, <2>2, <2>3 DEF Gives
<1>16. CASE q <= m
  <2>1. b = Ok(x, q)
    BY ONLY <1>9, <1>13, <1>16 DEF Gives
  <2>2. b.rc = "OK" /\ b.val = x /\ b.pos = q
    BY ONLY <2>1 DEF Ok
  <2>3. ReadUtf8(buf, p) = rest(x, q)
    BY ONLY <1>10, <2>2
  <2>4. PICK r0 : r0 = Ok(c0, q)
    OBVIOUS
  <2>5. Gives(r0, c0, q, buf)
    BY ONLY <1>13, <1>16, <2>4 DEF Gives
  <2>6. /\ n = 0 => r = r0
        /\ n = 1 => r = NextByte(buf, r0)
        /\ n = 2 => r = NextByte(buf, NextByte(buf, r0))
        /\ n = 3 => r = NextByte(buf, NextByte(buf, NextByte(buf, r0)))
    BY ONLY <1>11, <2>4, n \in 0..3, FollowingIs
  <2>7. ASSUME n >= 1 PROVE c1 \in Nat /\ Gives(NextByte(buf, r0), c1, q + 8, buf)
    <3>1. PICK y \in 128..191 : y = s[2] /\ c1 = 64 * c0 + (y % 64) /\ c1 \in Nat
      BY ONLY <1>2, <2>7 DEF Digit
    <3>2. Shows(buf, q, Bits(y, 8))
      <4>1. 2 \in 1..n + 1 /\ p + 8 * (2 - 1) = q
        BY ONLY <1>7, <2>7, p \in Nat, n \in 0..3
      <4> QED
        BY ONLY <1>6, <3>1, <4>1
    <3> QED
      BY ONLY <1>4, <2>5, <3>1, <3>2, buf \in Seq(Bit), q \in Nat, y \in 128..191, NextByteShown
  <2>8. ASSUME n >= 2 PROVE c2 \in Nat /\ Gives(NextByte(buf, NextByte(buf, r0)), c2, q + 16, buf)
    <3>1. PICK y \in 128..191 : y = s[3] /\ c2 = 64 * c1 + (y % 64) /\ c2 \in Nat
      BY ONLY <1>2, <2>8 DEF Digit
    <3>2. PICK t \in Nat : t = q + 8
      OBVIOUS
    <3>3. Shows(buf, t, Bits(y, 8))
      <4>1. 3 \in 1..n + 1 /\ p + 8 * (3 - 1) = t
        BY ONLY <1>7, <2>8, <3>2, p \in Nat, n \in 0..3
      <4> QED
        BY ONLY <1>6, <3>1, <4>1
    <3>4. PICK r1 : r1 = NextByte(buf, r0)
      OBVIOUS
    <3>5. c1 \in Nat /\ Gives(r1, c1, t, buf)
      <4>1. n >= 1
        BY ONLY <2>8, n \in 0..3
      <4> QED
        BY ONLY <2>7, <3>2, <3>4, <4>1
    <3>6. Gives(NextByte(buf, r1), c2, t + 8, buf)
      BY ONLY <3>1, <3>3, <3>5, buf \in Seq(Bit), t \in Nat, y \in 128..191, NextByteShown
    <3>7. t + 8 = q + 16
      BY ONLY <3>2, q \in Nat
    <3> QED
      BY ONLY <3>1, <3>4, <3>6, <3>7
  <2>9. ASSUME n >= 3 PROVE c3 \in Nat /\ Gives(NextByte(buf, NextByte(buf, NextByte(buf, r0))), c3, q + 24, buf)
    <3>1. PICK y \in 128..191 : y = s[4] /\ c3 = 64 * c2 + (y % 64) /\ c3 \in Nat
      BY ONLY <1>2, <2>9 DEF Digit
    <3>2. PICK t \in Nat : t = q + 16
      OBVIOUS
    <3>3. Shows(buf, t, Bits(y, 8))
      <4>1. 4 \in 1..n + 1 /\ p + 8 * (4 - 1) = t
        BY ONLY <1>7, <2>9, <3>2, p \in Nat, n \in 0..3
      <4> QED
        BY ONLY <1>6, <3>1, <4>1
    <3>4. PICK r2 : r2 = NextByte(buf, NextByte(buf, r0))
      OBVIOUS
    <3>5. c2 \in Nat /\ Gives(r2, c2, t, buf)
      <4>1. n >= 2
        BY ONLY <2>9, n \in 0..3
      <4> QED
        BY ONLY <2>8, <3>2, <3>4, <4>1
    <3>6. Gives(NextByte(buf, r2), c3, t + 8, buf)
      BY ONLY <3>1, <3>3, <3>5, buf \in Seq(Bit), t \in Nat, y \in 128..191, NextByteShown
    <3>7. t + 8 = q + 24
      BY ONLY <3>2, q \in Nat
    <3> QED
      BY ONLY <3>1, <3>4, <3>6, <3>7
  <2>10. Gives(r, v, e, buf)
    <3>1. CASE n = 0
      <4>1. e = q
        BY ONLY <1>14, <3>1, q \in Nat
      <4> QED
        BY ONLY <1>2, <2>5, <2>6, <3>1, <4>1
    <3>2. CASE n = 1
      <4>1. e = q + 8 /\ n >= 1
        BY ONLY <1>14, <3>2, q \in Nat
      <4>2. v = c1
        BY ONLY <1>2, <3>2
      <4> QED
        BY ONLY <2>6, <2>7, <3>2, <4>1, <4>2
    <3>3. CASE n = 2
      <4>1. e = q + 16 /\ n >= 2
        BY ONLY <1>14, <3>3, q \in Nat
      <4>2. v = c2
        BY ONLY <1>2, <3>3
      <4> QED
        BY ONLY <2>6, <2>8, <3>3, <4>1, <4>2
    <3>4. CASE n = 3
      <4>1. e = q + 24 /\ n >= 3
        BY ONLY <1>14, <3>4, q \in Nat
      <4>2. v = c3
        BY ONLY <1>2, <3>4
      <4> QED
        BY ONLY <2>6, <2>9, <3>4, <4>1, <4>2
    <3>5. n = 0 \/ n = 1 \/ n = 2 \/ n = 3
      OBVIOUS
    <3> QED
      BY ONLY <3>1, <3>2, <3>3, <3>4, <3>5
  <2>11. WellFormed(v, n)
    BY ONLY <1>1, ~Surrogate(v) DEF WellFormed
  <2>12. CASE e <= Len(buf)
    <3>1. r = Ok(v, e)
      BY ONLY <2>10, <2>12 DEF Gives
    <3>2. r.rc = "OK" /\ r.val = v /\ r.pos = e
      BY ONLY <3>1 DEF Ok
    <3>3. ReadUtf8(buf, p) = Ok(v, e)
      BY ONLY <1>12, <2>3, <2>11, <3>2
    <3> QED
      BY ONLY <1>14, <2>12, <3>3 DEF Gives
  <2>13. CASE ~(e <= Len(buf))
    <3>1. r.rc = "EOF" /\ r.rc # "OK"
      BY ONLY <2>10, <2>13 DEF Gives
    <3>2. ReadUtf8(buf, p) = r
      BY ONLY <1>12, <2>3, <3>1
    <3> QED
      BY ONLY <1>14, <2>13, <3>1, <3>2 DEF Gives
  <2> QED
    BY ONLY <2>12, <2>13
<1> QED
  BY ONLY <1>15, <1>16

-----------------------------------------------------------------------------
(* What an item gives *)

\* The bits of an item, and how many they are behind position p.
Content(it) == FlattenSeq(CallsOf(it))
SizeAt(it, p) == IF it.kind = "ALIGN" THEN PadTo8(p) ELSE Len(Content(it))

\* A VarInt is whole bytes.
LEMMA VarintBytes ==
    ASSUME GroupBits = 7
    PROVE  \A v \in Nat : \E k \in Nat : Len(VarintU(v)) = 8 * k
<1> DEFINE Whole(x) == \E k \in Nat : Len(VarintU(x)) = 8 * k
           good == {n \in Nat : \A x \in Nat : x < n => Whole(x)}
<1>1. 0 \in good
  OBVIOUS
<1>2. ASSUME NEW n \in Nat, n \in good PROVE n + 1 \in good
  <2> SUFFICES ASSUME NEW x \in Nat, x < n + 1 PROVE Whole(x)
    OBVIOUS
  <2>1. PICK rest \in Nat : rest = x \div 128
    OBVIOUS
  <2>2. PICK c : c = VarintU(x)
    OBVIOUS
  <2>3. PICK d : d = VarintU(rest)
    OBVIOUS
  <2>4. Grouped(c, x, rest, d)
    BY ONLY <2>1, <2>2, <2>3, GroupBits = 7, x \in Nat, VarintIs
  <2>5. Len(c) = 8 + (IF rest = 0 THEN 0 ELSE Len(d))
    BY ONLY <2>4 DEF Grouped
  <2>6. CASE rest = 0
    <3>1. Len(c) = 8 * 1
      BY ONLY <2>5, <2>6
    <3>2. 1 \in Nat
      OBVIOUS
    <3> QED
      BY ONLY <2>2, <3>1, <3>2, Zenon
  <2>7. CASE rest # 0
    <3>1. rest < n
      BY ONLY <2>1, <2>7, x \in Nat, rest \in Nat, n \in Nat, x < n + 1
    <3>2. PICK k \in Nat : Len(d) = 8 * k
      <4>1. Whole(rest)
        BY ONLY <1>2, <3>1, rest \in Nat
      <4> QED
        BY ONLY <2>3, <4>1
    <3>3. Len(c) = 8 * (k + 1) /\ k + 1 \in Nat
      BY ONLY <2>5, <2>7, <3>2, k \in Nat
    <3> QED
      BY ONLY <2>2, <3>3, Zenon
  <2> QED
    BY ONLY <2>6, <2>7
<1>3. \A n \in Nat : n \in good
  <2> HIDE DEF good
  <2> QED
    BY ONLY <1>1, <1>2, SetInduction
<1> QED
  <2> SUFFICES ASSUME NEW v \in Nat PROVE Whole(v)
    OBVIOUS
  <2>1. v + 1 \in Nat /\ v < v + 1
    OBVIOUS
  <2>2. v + 1 \in good
    BY ONLY <1>3, <2>1
  <2> HIDE DEF Whole
  <2> QED
    BY <2>1, <2>2

\* The bits of the bytes of a VarInt, of bytes, and of a single call.
LEMMA VarintContent ==
    ASSUME GroupBits = 7, NEW v \in Nat
    PROVE  FlattenSeq(Octets(VarintU(v))) = VarintU(v)
<1>1. PICK k \in Nat : Len(VarintU(v)) = 8 * k
  BY VarintBytes
<1>2. PICK b \in Seq(Bit) : b = VarintU(v)
  BY VarintLength
<1>3. Len(b) = 8 * k
  BY ONLY <1>1, <1>2
<1>4. FlattenSeq(Octets(b)) = b
  BY ONLY <1>3, b \in Seq(Bit), k \in Nat, FlattenOctets
<1> QED
  BY ONLY <1>2, <1>4

LEMMA BytesContent ==
    ASSUME NEW s \in Seq(Int)
    PROVE  FlattenSeq(Octets(Bytes(s))) = Bytes(s)
<1>1. PICK k \in Nat : k = Len(s)
  OBVIOUS
<1>2. PICK b \in Seq(Bit) : b = Bytes(s) /\ Len(b) = 8 * k
  BY <1>1, BytesType
<1>3. FlattenSeq(Octets(b)) = b
  BY ONLY <1>2, b \in Seq(Bit), k \in Nat, FlattenOctets
<1> QED
  BY ONLY <1>2, <1>3

\* The bytes of an item.
LEMMA ContentBytes ==
    ASSUME NEW it, IsItem(it), it.kind = "BYTES"
    PROVE  it.content \in Seq(0..255) /\ it.content \in Seq(Int) /\ Content(it) = Bytes(it.content)
<1>1. PICK B : B = 0..255
  OBVIOUS
<1>2. PICK s : s = it.content
  OBVIOUS
<1>3. s \in Seq(B) /\ B \subseteq Int
  BY <1>1, <1>2 DEF IsItem
<1>4. s \in Seq(Int)
  BY ONLY <1>3, SeqMonotonic
<1>5. CallsOf(it) = Octets(Bytes(s))
  BY ONLY <1>2, it.kind = "BYTES", Zenon DEF CallsOf
<1>6. FlattenSeq(Octets(Bytes(s))) = Bytes(s)
  BY ONLY <1>4, BytesContent
<1> QED
  BY ONLY <1>1, <1>2, <1>3, <1>4, <1>5, <1>6 DEF Content

\* Every item that is shown gives what is expected of it, and leaves the reader behind it.
LEMMA ItemShown ==
    ASSUME NEW buf \in Seq(Bit), NEW p \in 0..Len(buf), NEW it, IsItem(it), ~Refused(it), Shows(buf, p, Content(it))
    PROVE  Gives(ReadAs(it, buf, p), Expected(it), p + SizeAt(it, p), buf)
<1>0. GroupBits = 7 /\ MaxGroups >= 4 /\ p \in Nat
  BY ProgramsAssumption
<1>1. CASE it.kind = "UNSIGNED"
  <2>1. it.val \in Int /\ it.n \in 1..28
    BY <1>1 DEF IsItem
  <2>2. PICK v \in Int : v = it.val
    BY <2>1
  <2>3. PICK n \in 1..28 : n = it.n
    BY <2>1
  <2>4. PICK c : c = Bits(v, n)
    OBVIOUS
  <2>5. c \in Seq(Bit) /\ n = Len(c)
    <3>1. n \in Nat
      OBVIOUS
    <3> QED
      BY ONLY <2>4, <3>1, v \in Int, BitsType
  <2>6. Content(it) = c
    <3>1. CallsOf(it) = <<c>>
      BY ONLY <1>1, <2>2, <2>3, <2>4, Zenon DEF CallsOf
    <3>2. FlattenSeq(<<c>>) = c
      BY ONLY <2>5, FlattenOne
    <3> QED
      BY ONLY <3>1, <3>2 DEF Content
  <2>7. Number(c) = v % 2^n
    <3>1. n \in 0..28
      OBVIOUS
    <3> QED
      BY ONLY <2>4, <3>1, v \in Int, NumberOfBits
  <2>8. ReadAs(it, buf, p) = ReadBits(buf, p, n) /\ Expected(it) = v % 2^n
    BY ONLY <1>1, <2>2, <2>3, Zenon DEF ReadAs, Expected
  <2>9. SizeAt(it, p) = n
    BY ONLY <1>1, <2>5, <2>6 DEF SizeAt
  <2>10. Gives(ReadBits(buf, p, n), Number(c), p + n, buf)
    <3>1. Shows(buf, p, c)
      BY ONLY <2>6, Shows(buf, p, Content(it))
    <3> QED
      BY ONLY <1>0, <2>5, <3>1, buf \in Seq(Bit), ReadShown
  <2> QED
    BY ONLY <2>7, <2>8, <2>9, <2>10
<1>2. CASE it.kind = "SIGNED"
  <2>1. it.val \in Int /\ it.n \in 1..28
    BY <1>2 DEF IsItem
  <2>2. PICK v \in Int : v = it.val
    BY <2>1
  <2>3. PICK n \in 1..28 : n = it.n /\ n \in 0..28 /\ n \in Nat
    BY <2>1
  <2>a. PICK m \in Nat \ {0} : m = 2^n
    BY ONLY <2>3, PowerIs
  <2>b. PICK u \in Int : u = v % m
    OBVIOUS
  <2>4. PICK c : c = Bits(u, n)
    OBVIOUS
  <2>5. c \in Seq(Bit) /\ n = Len(c)
    BY ONLY <2>3, <2>4, u \in Int, BitsType
  <2>6. Content(it) = c
    <3>1. CallsOf(it) = <<c>>
      BY ONLY <1>2, <2>2, <2>3, <2>4, <2>a, <2>b, Zenon DEF CallsOf
    <3>2. FlattenSeq(<<c>>) = c
      BY ONLY <2>5, FlattenOne
    <3> QED
      BY ONLY <3>1, <3>2 DEF Content
  <2>7. Number(c) = u
    <3>1. Number(c) = u % 2^n
      BY ONLY <2>3, <2>4, u \in Int, NumberOfBits
    <3>2. u % m = u
      BY ONLY <2>b, v \in Int, m \in Nat \ {0}
    <3> QED
      BY ONLY <2>a, <3>1, <3>2
  <2>8. SignExtend(u, n) = Expected(it)
    <3>1. SignExtend(u, n) = CHOOSE x \in -(2^(n - 1))..2^(n - 1) - 1 : (x - v) % 2^n = 0
      BY ONLY <2>a, <2>b, v \in Int, n \in 1..28, SignedIs
    <3>2. Expected(it) = CHOOSE x \in -(2^(n - 1))..2^(n - 1) - 1 : (x - v) % 2^n = 0
      BY ONLY <1>2, <2>2, <2>3, Zenon DEF Expected
    <3> QED
      BY ONLY <3>1, <3>2
  <2>9. PICK b : b = ReadBits(buf, p, n)
    OBVIOUS
  <2>10. ReadAs(it, buf, p) = IF b.rc = "OK" THEN Ok(SignExtend(b.val, n), b.pos) ELSE b
    BY ONLY <1>2, <2>3, <2>9, Zenon DEF ReadAs, ReadSigned, Then
  <2>11. SizeAt(it, p) = n
    BY ONLY <1>2, <2>5, <2>6 DEF SizeAt
  <2>12. Gives(b, u, p + n, buf)
    <3>1. Shows(buf, p, c)
      BY ONLY <2>6, Shows(buf, p, Content(it))
    <3>2. Gives(ReadBits(buf, p, n), Number(c), p + n, buf)
      BY ONLY <1>0, <2>5, <3>1, buf \in Seq(Bit), ReadShown
    <3> QED
      BY ONLY <2>7, <2>9, <3>2
  <2>13. CASE p + n <= Len(buf)
    <3>1. b = Ok(u, p + n)
      BY ONLY <2>12, <2>13 DEF Gives
    <3>2. b.rc = "OK" /\ b.val = u /\ b.pos = p + n
      BY ONLY <3>1 DEF Ok
    <3>3. ReadAs(it, buf, p) = Ok(Expected(it), p + n)
      BY ONLY <2>8, <2>10, <3>2
    <3> QED
      BY ONLY <2>11, <2>13, <3>3 DEF Gives
  <2>14. CASE ~(p + n <= Len(buf))
    <3>1. b.rc = "EOF" /\ b.rc # "OK"
      BY ONLY <2>12, <2>14 DEF Gives
    <3>2. ReadAs(it, buf, p) = b
      BY ONLY <2>10, <3>1
    <3> QED
      BY ONLY <2>11, <2>14, <3>1, <3>2 DEF Gives
  <2> QED
    BY ONLY <2>13, <2>14
<1>3. CASE it.kind = "VARINT_U"
  <2>1. PICK v \in Nat : v = it.val /\ v < WordMax
    BY <1>3 DEF IsItem
  <2>2. Content(it) = VarintU(v)
    <3>1. CallsOf(it) = Octets(VarintU(v))
      BY ONLY <1>3, <2>1, Zenon DEF CallsOf
    <3>2. FlattenSeq(Octets(VarintU(v))) = VarintU(v)
      BY ONLY <1>0, v \in Nat, VarintContent
    <3> QED
      BY ONLY <3>1, <3>2 DEF Content
  <2>3. ReadAs(it, buf, p) = ReadVarintU(buf, p) /\ Expected(it) = v
    BY ONLY <1>3, <2>1, Zenon DEF ReadAs, Expected
  <2>4. SizeAt(it, p) = Len(VarintU(v))
    BY ONLY <1>3, <2>2 DEF SizeAt
  <2>5. PICK e : e = p + Len(VarintU(v))
    OBVIOUS
  <2>6. Gives(ReadVarintU(buf, p), v, e, buf)
    <3>1. Shows(buf, p, VarintU(v))
      BY ONLY <2>2, Shows(buf, p, Content(it))
    <3> QED
      BY ONLY <1>0, <2>1, <2>5, <3>1, buf \in Seq(Bit), p \in 0..Len(buf), v \in Nat, VarintShown
  <2> QED
    BY ONLY <2>3, <2>4, <2>5, <2>6
<1>4. CASE it.kind = "VARINT_S"
  <2>1. PICK v \in Int : v = it.val /\ 2 * v < WordMax /\ -2 * v <= WordMax
    BY <1>4 DEF IsItem
  <2>2. Content(it) = VarintS(v)
    <3>1. CallsOf(it) = Octets(VarintS(v))
      BY ONLY <1>4, <2>1, Zenon DEF CallsOf
    <3>2. PICK u \in Nat : u = IF v < 0 THEN -2 * v - 1 ELSE 2 * v
      <4>1. (IF v < 0 THEN -2 * v - 1 ELSE 2 * v) \in Nat
        OBVIOUS
      <4> QED
        BY ONLY <4>1
    <3>3. VarintS(v) = VarintU(u)
      BY ONLY <3>2 DEF VarintS
    <3>4. FlattenSeq(Octets(VarintU(u))) = VarintU(u)
      BY ONLY <1>0, u \in Nat, VarintContent
    <3> QED
      BY ONLY <3>1, <3>3, <3>4 DEF Content
  <2>3. ReadAs(it, buf, p) = ReadVarintS(buf, p) /\ Expected(it) = v
    BY ONLY <1>4, <2>1, Zenon DEF ReadAs, Expected
  <2>4. SizeAt(it, p) = Len(VarintS(v))
    BY ONLY <1>4, <2>2 DEF SizeAt
  <2>5. PICK e : e = p + Len(VarintS(v))
    OBVIOUS
  <2>6. Gives(ReadVarintS(buf, p), v, e, buf)
    <3>1. Shows(buf, p, VarintS(v))
      BY ONLY <2>2, Shows(buf, p, Content(it))
    <3> QED
      BY ONLY <1>0, <2>1, <2>5, <3>1, buf \in Seq(Bit), p \in 0..Len(buf), v \in Int, SignedVarintShown
  <2> QED
    BY ONLY <2>3, <2>4, <2>5, <2>6
<1>5. CASE it.kind = "UTF8"
  <2>1. PICK v \in Nat : v = it.val
    BY <1>5 DEF IsItem
  <2>2. ~Surrogate(v) /\ v <= LastCodepoint
    <3>1. ~Surrogate(v) /\ ~(v > LastCodepoint)
      BY ONLY <1>5, <2>1, ~Refused(it) DEF Refused
    <3>2. LastCodepoint \in Nat
      BY DEF LastCodepoint
    <3> QED
      BY ONLY <3>1, <3>2, v \in Nat
  <2>3. PICK s : s = Utf8(v)
    OBVIOUS
  <2>4. s \in Seq(Int)
    BY ONLY <2>3, v \in Nat, Utf8Type
  <2>5. Content(it) = Bytes(s)
    <3>1. CallsOf(it) = Octets(Bytes(s))
      BY ONLY <1>5, <2>1, <2>3, Zenon DEF CallsOf
    <3>2. FlattenSeq(Octets(Bytes(s))) = Bytes(s)
      BY ONLY <2>4, BytesContent
    <3> QED
      BY ONLY <3>1, <3>2 DEF Content
  <2>6. ReadAs(it, buf, p) = ReadUtf8(buf, p) /\ Expected(it) = v
    BY ONLY <1>5, <2>1, Zenon DEF ReadAs, Expected
  <2>7. SizeAt(it, p) = 8 * Len(s)
    <3>1. Len(Bytes(s)) = 8 * Len(s)
      BY ONLY <2>4, BytesType
    <3> QED
      BY ONLY <1>5, <2>5, <3>1 DEF SizeAt
  <2>8. Gives(ReadUtf8(buf, p), v, p + 8 * Len(s), buf)
    <3>1. Shows(buf, p, Bytes(s))
      BY ONLY <2>5, Shows(buf, p, Content(it))
    <3> QED
      BY ONLY <1>0, <2>2, <2>3, <3>1, buf \in Seq(Bit), v \in Nat, Utf8Shown
  <2> QED
    BY ONLY <2>6, <2>7, <2>8
<1>6. CASE it.kind = "BYTES"
  <2>1. PICK s : s = it.content
    OBVIOUS
  <2>2. s \in Seq(0..255) /\ s \in Seq(Int) /\ Content(it) = Bytes(s)
    BY ONLY <1>6, <2>1, IsItem(it), ContentBytes
  <2>3. PICK n : n = Len(s)
    OBVIOUS
  <2>4. ReadAs(it, buf, p) = ReadEach(buf, p, n) /\ Expected(it) = s
    BY ONLY <1>6, <2>1, <2>3, Zenon DEF ReadAs, Expected
  <2>5. SizeAt(it, p) = 8 * n
    <3>1. Len(Bytes(s)) = 8 * Len(s)
      BY ONLY <2>2, BytesType
    <3> QED
      BY ONLY <1>6, <2>2, <2>3, <3>1 DEF SizeAt
  <2>6. Gives(ReadEach(buf, p, n), s, p + 8 * n, buf)
    <3>1. Shows(buf, p, Bytes(s))
      BY ONLY <2>2, Shows(buf, p, Content(it))
    <3> QED
      BY ONLY <2>2, <2>3, <3>1, buf \in Seq(Bit), p \in 0..Len(buf), EachShown
  <2> QED
    BY ONLY <2>4, <2>5, <2>6
<1>7. CASE it.kind = "APPEND"
  <2>1. PICK c : c = it.content
    OBVIOUS
  <2>2. c \in Seq(Bit)
    BY ONLY <1>7, <2>1, IsItem(it) DEF IsItem
  <2>3. Content(it) = c
    <3>1. CallsOf(it) = <<c>>
      BY ONLY <1>7, <2>1, Zenon DEF CallsOf
    <3>2. FlattenSeq(<<c>>) = c
      BY ONLY <2>2, FlattenOne
    <3> QED
      BY ONLY <3>1, <3>2 DEF Content
  <2>4. PICK n : n = Len(c)
    OBVIOUS
  <2>5. ReadAs(it, buf, p) = ReadRaw(buf, p, n) /\ Expected(it) = c
    BY ONLY <1>7, <2>1, <2>4, Zenon DEF ReadAs, Expected
  <2>6. SizeAt(it, p) = n
    BY ONLY <1>7, <2>3, <2>4 DEF SizeAt
  <2>7. Gives(ReadRaw(buf, p, n), c, p + n, buf)
    <3>1. Shows(buf, p, c)
      BY ONLY <2>3, Shows(buf, p, Content(it))
    <3> QED
      BY ONLY <1>0, <2>2, <2>4, <3>1, buf \in Seq(Bit), ReadShown
  <2> QED
    BY ONLY <2>5, <2>6, <2>7
<1>8. CASE it.kind = "ALIGN"
  <2>1. PICK z \in Nat : z = PadTo8(p)
    BY <1>0, PadIs
  <2>2. ReadAs(it, buf, p) = Advance(buf, p, z) /\ Expected(it) = 0
    <3>1. ReadAs(it, buf, p) = AlignReader(buf, p)
      BY ONLY <1>8, Zenon DEF ReadAs
    <3>2. Expected(it) = 0
      BY ONLY <1>8, Zenon DEF Expected
    <3> QED
      BY ONLY <2>1, <3>1, <3>2 DEF AlignReader
  <2>3. SizeAt(it, p) = z
    BY ONLY <1>8, <2>1 DEF SizeAt
  <2>4. PICK m \in Nat : m = Len(buf)
    OBVIOUS
  <2>5. CASE p + z > m
    <3>1. Advance(buf, p, z) = Fail("EOF", p)
      BY ONLY <2>4, <2>5 DEF Advance
    <3>2. Fail("EOF", p).rc = "EOF"
      BY DEF Fail
    <3>3. ~(p + z <= m)
      BY ONLY <1>0, <2>5, z \in Nat, m \in Nat
    <3> QED
      BY ONLY <2>2, <2>3, <2>4, <3>1, <3>2, <3>3 DEF Gives
  <2>6. CASE ~(p + z > m)
    <3>1. Advance(buf, p, z) = Ok(0, p + z)
      BY ONLY <2>4, <2>6 DEF Advance
    <3>2. p + z <= m
      BY ONLY <1>0, <2>6, z \in Nat, m \in Nat
    <3> QED
      BY ONLY <2>2, <2>3, <2>4, <3>1, <3>2 DEF Gives
  <2> QED
    BY ONLY <2>5, <2>6
<1> QED
  BY ONLY <1>1, <1>2, <1>3, <1>4, <1>5, <1>6, <1>7, <1>8, IsItem(it) DEF IsItem

\* The bytes of an item that the reader hands out.
LEMMA ItemHandedOut ==
    ASSUME NEW buf \in Seq(Bit), NEW p \in 0..Len(buf), p % 8 = 0, NEW it, IsItem(it), it.kind = "BYTES",
           Shows(buf, p, Content(it))
    PROVE  Gives(ReadBytes(buf, p, Len(it.content)), Expected(it), p + SizeAt(it, p), buf)
<1>1. PICK s : s = it.content
  OBVIOUS
<1>2. s \in Seq(0..255) /\ s \in Seq(Int) /\ Content(it) = Bytes(s)
  BY ONLY <1>1, IsItem(it), it.kind = "BYTES", ContentBytes
<1>3. PICK n : n = Len(s)
  OBVIOUS
<1>4. Expected(it) = s
  BY ONLY <1>1, it.kind = "BYTES", Zenon DEF Expected
<1>5. SizeAt(it, p) = 8 * n
  <2>1. Len(Bytes(s)) = 8 * Len(s)
    BY ONLY <1>2, BytesType
  <2> QED
    BY ONLY <1>2, <1>3, <2>1, it.kind = "BYTES" DEF SizeAt
<1>6. Gives(ReadBytes(buf, p, n), s, p + 8 * n, buf)
  <2>1. Shows(buf, p, Bytes(s))
    BY ONLY <1>2, Shows(buf, p, Content(it))
  <2> QED
    BY ONLY <1>2, <1>3, <2>1, buf \in Seq(Bit), p \in 0..Len(buf), p % 8 = 0, DirectShown
<1> QED
  BY ONLY <1>1, <1>3, <1>4, <1>5, <1>6

-----------------------------------------------------------------------------
(* The places of the items *)

\* What an item writes: its calls, one after the other.
LEMMA ContentType ==
    ASSUME NEW it, IsItem(it)
    PROVE  Content(it) \in Seq(Bit) /\ (it.kind = "ALIGN" => Content(it) = <<>>)
<1>1. CASE it.kind = "ALIGN"
  <2>1. PICK c : c = CallsOf(it)
    OBVIOUS
  <2>2. c = <<>>
    BY ONLY <1>1, <2>1, Zenon DEF CallsOf
  <2>3. FlattenSeq(c) = c
    <3>1. Len(c) = 0
      BY ONLY <2>2
    <3> QED
      BY ONLY <2>2, <3>1, Zenon DEF FlattenSeq
  <2>4. c \in Seq(Bit)
    BY ONLY <2>2
  <2> QED
    BY ONLY <2>1, <2>2, <2>3, <2>4 DEF Content
<1>2. CASE it.kind # "ALIGN"
  <2>1. CallsOf(it) \in Calls
    BY ONLY <1>2, IsItem(it), CallsType
  <2>2. CallsOf(it) \in Seq(Seq(Bit))
    BY ONLY <2>1 DEF Calls, BitStrings, Bit
  <2>3. FlattenSeq(CallsOf(it)) \in Seq(Bit)
    BY ONLY <2>2, FlattenType
  <2> QED
    BY ONLY <1>2, <2>3 DEF Content
<1> QED
  BY <1>1, <1>2

LEMMA SizeType ==
    ASSUME NEW it, IsItem(it), NEW p \in Nat
    PROVE  SizeAt(it, p) \in Nat
<1>1. CASE it.kind = "ALIGN"
  <2>1. PadTo8(p) \in 0..7
    BY ONLY p \in Nat, PadIs
  <2> QED
    BY ONLY <1>1, <2>1 DEF SizeAt
<1>2. CASE it.kind # "ALIGN"
  <2>1. PICK c \in Seq(Bit) : c = Content(it)
    BY ContentType
  <2>2. Len(c) \in Nat
    OBVIOUS
  <2> QED
    BY ONLY <1>2, <2>1, <2>2 DEF SizeAt
<1> QED
  BY <1>1, <1>2

\* Where the items begin and the last one ends.
Places(f, items) ==
    /\ f \in [0..Len(items) -> Nat] /\ f[0] = 0
    /\ \A k \in 1..Len(items) : f[k] = f[k - 1] + SizeAt(items[k], f[k - 1])
PlacesOf(items) == CHOOSE f : Places(f, items)

LEMMA PlacesExist ==
    ASSUME NEW items, IsProgram(items)
    PROVE  Places(PlacesOf(items), items)
<1>0. Len(items) \in Nat
  BY DEF IsProgram
<1>1. PICK n \in Nat : n = Len(items)
  BY ONLY <1>0
<1>2. \A k \in 1..n : IsItem(items[k])
  BY <1>1 DEF IsProgram
<1>3. PICK next : next = [x \in (1..n) \X Nat |-> x[2] + SizeAt(items[x[1]], x[2])]
  OBVIOUS
<1>4. ASSUME NEW k \in 1..n, NEW p \in Nat
      PROVE  next[<<k, p>>] = p + SizeAt(items[k], p) /\ p + SizeAt(items[k], p) \in Nat
  <2>1. next[<<k, p>>] = p + SizeAt(items[k], p)
    BY ONLY <1>3, k \in 1..n, p \in Nat
  <2>2. SizeAt(items[k], p) \in Nat
    BY ONLY <1>2, k \in 1..n, p \in Nat, SizeType
  <2> QED
    BY ONLY <2>1, <2>2, p \in Nat
<1>5. next \in [(1..n) \X Nat -> Nat]
  <2>1. ASSUME NEW x \in (1..n) \X Nat PROVE x[2] + SizeAt(items[x[1]], x[2]) \in Nat
    <3>1. PICK k \in 1..n, p \in Nat : x = <<k, p>>
      OBVIOUS
    <3>2. p + SizeAt(items[k], p) \in Nat
      BY ONLY <1>4, k \in 1..n, p \in Nat
    <3>3. x[1] = k /\ x[2] = p
      BY ONLY <3>1
    <3> QED
      BY ONLY <3>2, <3>3
  <2> QED
    BY ONLY <1>3, <2>1
<1>6. PICK f : CountsBy(f, 0, next, n, Nat)
  <2>1. 0 \in Nat
    OBVIOUS
  <2> QED
    BY ONLY <1>5, <2>1, n \in Nat, CountingExists
<1>7. f \in [0..n -> Nat] /\ f[0] = 0 /\ \A k \in 1..n : f[k] = next[<<k, f[k - 1]>>]
  BY ONLY <1>6 DEF CountsBy
<1>8. ASSUME NEW k \in 1..n PROVE f[k] = f[k - 1] + SizeAt(items[k], f[k - 1])
  <2>1. k - 1 \in 0..n
    BY ONLY n \in Nat, k \in 1..n
  <2>2. f[k - 1] \in Nat
    BY ONLY <1>7, <2>1
  <2> QED
    BY ONLY <1>4, <1>7, <2>2, k \in 1..n
<1>9. Places(f, items)
  BY ONLY <1>1, <1>7, <1>8 DEF Places
<1> QED
  BY ONLY <1>9, Zenon DEF PlacesOf

\* The end of an item that the documentation gives is its place.
LEMMA EndIs ==
    ASSUME IsProgram(prog), NEW k \in 0..Len(prog)
    PROVE  End(k) = PlacesOf(prog)[k]
<1>0. Len(prog) \in Nat
  BY DEF IsProgram
<1>1. PICK n \in Nat : n = Len(prog)
  BY ONLY <1>0
<1>2. PICK f : f = PlacesOf(prog)
  OBVIOUS
<1>3. f \in [0..n -> Nat] /\ f[0] = 0 /\ \A i \in 1..n : f[i] = f[i - 1] + SizeAt(prog[i], f[i - 1])
  BY ONLY <1>1, <1>2, IsProgram(prog), PlacesExist DEF Places
<1>4. k \in Nat /\ k <= n
  BY ONLY <1>1, k \in 0..Len(prog), n \in Nat
<1> DEFINE Ending(g) ==
             [i \in 0..k |-> IF i = 0 THEN 0
                             ELSE g[i - 1] + (IF prog[i].kind = "ALIGN" THEN PadTo8(g[i - 1])
                                              ELSE Len(FlattenSeq(CallsOf(prog[i]))))]
           after == CHOOSE g : g = Ending(g)
<1>5. End(k) = after[k]
  BY DEF End
<1>6. ASSUME NEW g, NEW i \in 1..k
      PROVE  Ending(g)[i] = g[i - 1] + SizeAt(prog[i], g[i - 1])
  <2>1. i \in 0..k /\ i # 0
    BY ONLY <1>4, i \in 1..k
  <2>2. Ending(g)[i] = g[i - 1] + (IF prog[i].kind = "ALIGN" THEN PadTo8(g[i - 1])
                                    ELSE Len(FlattenSeq(CallsOf(prog[i]))))
    BY ONLY <2>1
  <2>3. SizeAt(prog[i], g[i - 1]) = IF prog[i].kind = "ALIGN" THEN PadTo8(g[i - 1])
                                    ELSE Len(FlattenSeq(CallsOf(prog[i])))
    BY ONLY Zenon DEF SizeAt, Content
  <2> QED
    BY ONLY <2>2, <2>3
<1>7. ASSUME NEW g PROVE Ending(g)[0] = 0 /\ Ending(g) = [i \in 0..k |-> Ending(g)[i]]
  BY ONLY <1>4
<1> HIDE DEF Ending
<1>8. \E g : g = Ending(g)
  <2>1. PICK g : g = [i \in 0..k |-> f[i]]
    OBVIOUS
  <2>2. ASSUME NEW i \in 0..k PROVE Ending(g)[i] = f[i]
    <3>1. CASE i = 0
      BY ONLY <1>3, <1>7, <3>1
    <3>2. CASE i # 0
      <4>1. i \in 1..k /\ i \in 1..n /\ i - 1 \in 0..k
        BY ONLY <1>4, <3>2, i \in 0..k
      <4>2. g[i - 1] = f[i - 1]
        BY ONLY <2>1, <4>1
      <4>3. Ending(g)[i] = g[i - 1] + SizeAt(prog[i], g[i - 1])
        BY ONLY <1>6, <4>1
      <4> QED
        BY ONLY <1>3, <4>1, <4>2, <4>3
    <3> QED
      BY <3>1, <3>2
  <2>3. Ending(g) = g
    BY ONLY <1>7, <2>1, <2>2
  <2> QED
    BY ONLY <2>3, Zenon
<1>9. PICK a : a = after
  OBVIOUS
<1>10. a = Ending(a)
  BY ONLY <1>8, <1>9, Zenon
<1> HIDE DEF after
<1> DEFINE good == {i \in Nat : i <= k => a[i] = f[i]}
<1>11. 0 \in good
  BY ONLY <1>3, <1>7, <1>10
<1>12. ASSUME NEW i \in Nat, i \in good PROVE i + 1 \in good
  <2> SUFFICES ASSUME i + 1 <= k PROVE a[i + 1] = f[i + 1]
    OBVIOUS
  <2>1. PICK j : j = i + 1
    OBVIOUS
  <2>2. j \in 1..k /\ j \in 1..n /\ j - 1 = i /\ a[i] = f[i]
    BY ONLY <1>4, <1>12, <2>1, i + 1 <= k, i \in Nat
  <2>3. a[j] = a[j - 1] + SizeAt(prog[j], a[j - 1])
    BY ONLY <1>6, <1>10, <2>2
  <2> QED
    BY ONLY <1>3, <2>1, <2>2, <2>3
<1>13. \A i \in Nat : i \in good
  <2> HIDE DEF good
  <2> QED
    BY ONLY <1>11, <1>12, SetInduction
<1>14. a[k] = f[k]
  BY ONLY <1>4, <1>13
<1> QED
  BY ONLY <1>2, <1>5, <1>9, <1>14

-----------------------------------------------------------------------------
(* Items that stand in a buffer *)

\* The run c stands in w at p.
Stands(w, p, c) == p + Len(c) <= Len(w) /\ \A i \in 1..Len(c) : w[p + i] = c[i]

\* So do the first m items, each at its place.
Stand(w, m, items, f) ==
    \A k \in 1..m : ~Refused(items[k]) /\ Stands(w, f[k - 1], Content(items[k]))

\* At p, the part of c stands in w that the calls before those of more have written.
Under(w, p, more, c) ==
    \E before, done \in Seq(Bit) :
        /\ Len(before) = p /\ Joins(w, before, done)
        /\ FlattenSeq(more) \in Seq(Bit) /\ Joins(c, done, FlattenSeq(more))

\* What stands in w is still there when w gets longer, or in another buffer that begins with w.
LEMMA StillStands ==
    ASSUME NEW w, NEW l \in Nat, Len(w) = l, NEW v, Len(v) \in Nat, l <= Len(v), \A i \in 1..l : v[i] = w[i],
           NEW p \in Nat, NEW c \in Seq(Bit), Stands(w, p, c)
    PROVE  Stands(v, p, c)
<1>1. PICK n \in Nat : n = Len(c)
  OBVIOUS
<1>2. p + n <= l /\ \A i \in 1..n : w[p + i] = c[i]
  BY ONLY <1>1, Len(w) = l, Stands(w, p, c) DEF Stands
<1>3. ASSUME NEW i \in 1..n PROVE v[p + i] = c[i]
  <2>1. p + i \in 1..l
    BY ONLY <1>2, i \in 1..n, n \in Nat, p \in Nat, l \in Nat
  <2> QED
    BY ONLY <1>2, <2>1, i \in 1..n, \A j \in 1..l : v[j] = w[j]
<1>4. p + n <= Len(v)
  BY ONLY <1>2, l \in Nat, n \in Nat, p \in Nat, Len(v) \in Nat, l <= Len(v)
<1> QED
  BY ONLY <1>1, <1>3, <1>4 DEF Stands

LEMMA AllStillStand ==
    ASSUME NEW w, NEW l \in Nat, Len(w) = l, NEW v, Len(v) \in Nat, l <= Len(v), \A i \in 1..l : v[i] = w[i],
           NEW items, IsProgram(items), NEW m \in 0..Len(items), NEW f, Places(f, items), Stand(w, m, items, f)
    PROVE  Stand(v, m, items, f)
<1>1. Len(items) \in Nat
  BY ONLY IsProgram(items) DEF IsProgram
<1> SUFFICES ASSUME NEW k \in 1..m PROVE ~Refused(items[k]) /\ Stands(v, f[k - 1], Content(items[k]))
  BY DEF Stand
<1>2. k \in 1..Len(items) /\ k - 1 \in 0..Len(items)
  BY ONLY <1>1, k \in 1..m, m \in 0..Len(items)
<1>3. PICK p \in Nat : p = f[k - 1]
  BY ONLY <1>2, Places(f, items) DEF Places
<1>4. IsItem(items[k])
  BY ONLY <1>2, IsProgram(items) DEF IsProgram
<1>5. PICK c \in Seq(Bit) : c = Content(items[k])
  BY ONLY <1>4, ContentType
<1>6. ~Refused(items[k]) /\ Stands(w, p, c)
  BY ONLY <1>3, <1>5, k \in 1..m, Stand(w, m, items, f) DEF Stand
<1>7. Stands(v, p, c)
  BY ONLY <1>6, l \in Nat, Len(w) = l, Len(v) \in Nat, l <= Len(v), \A i \in 1..l : v[i] = w[i],
          p \in Nat, c \in Seq(Bit), StillStands
<1> QED
  BY ONLY <1>3, <1>5, <1>6, <1>7

\* A longer sequence begins with what it is longer than.
Longer(v, w, x) ==
    /\ v \in Seq(Bit) /\ Len(v) = Len(w) + Len(x) /\ Len(v) \in Nat /\ Len(w) \in Nat /\ Len(x) \in Nat
    /\ Len(w) <= Len(v) /\ (\A i \in 1..Len(w) : v[i] = w[i]) /\ \A i \in 1..Len(x) : v[Len(w) + i] = x[i]

LEMMA LongerBegins ==
    ASSUME NEW w \in Seq(Bit), NEW x \in Seq(Bit), NEW v, Joins(v, w, x)
    PROVE  Longer(v, w, x)
<1>1. PICK l \in Nat : l = Len(w)
  OBVIOUS
<1>2. PICK n \in Nat : n = Len(x)
  OBVIOUS
<1>3. Run(w, l) /\ Run(x, n)
  BY ONLY <1>1, <1>2, w \in Seq(Bit), x \in Seq(Bit) DEF Run
<1>4. Run(v, l + n) /\ Begins(v, w, l) /\ Follows(v, x, l, n)
  BY ONLY <1>3, Joins(v, w, x), Joined
<1>5. v \in Seq(Bit) /\ Len(v) = l + n /\ (\A i \in 1..l : v[i] = w[i]) /\ \A i \in 1..n : v[l + i] = x[i]
  BY ONLY <1>4 DEF Run, Begins, Follows
<1>6. l + n \in Nat /\ l <= l + n
  BY ONLY l \in Nat, n \in Nat
<1> QED
  BY ONLY <1>1, <1>2, <1>5, <1>6, l \in Nat, n \in Nat DEF Longer

LEMMA JoinAgain ==
    ASSUME NEW a \in Seq(Bit), NEW b \in Seq(Bit), NEW c \in Seq(Bit)
    PROVE  (a \o b) \o c = a \o (b \o c)
<1>1. PICK S : S = Bit
  OBVIOUS
<1>2. a \in Seq(S) /\ b \in Seq(S) /\ c \in Seq(S)
  BY ONLY <1>1, a \in Seq(Bit), b \in Seq(Bit), c \in Seq(Bit)
<1> QED
  BY ONLY <1>2, ConcatAssociative

\* Another call of the item.
LEMMA CallMore ==
    ASSUME NEW w, NEW p \in Nat, NEW more \in Calls, NEW c, Under(w, p, more, c), NEW v, Joins(v, w, Head(more))
    PROVE  Under(v, p, Tail(more), c)
<1>1. PICK before, done \in Seq(Bit) :
        /\ Len(before) = p /\ Joins(w, before, done)
        /\ FlattenSeq(more) \in Seq(Bit) /\ Joins(c, done, FlattenSeq(more))
  BY ONLY Under(w, p, more, c), Zenon DEF Under
<1>2. more \in Seq(Seq(Bit)) /\ more # <<>>
  BY ONLY more \in Calls DEF Calls, BitStrings, Bit
<1>3. Head(more) \in Seq(Bit) /\ Tail(more) \in Seq(Seq(Bit))
  <2>1. PICK T : T = Seq(Bit)
    OBVIOUS
  <2>2. more \in Seq(T)
    BY ONLY <1>2, <2>1
  <2>3. Head(more) \in T /\ Tail(more) \in Seq(T)
    BY ONLY <1>2, <2>2, HeadTailProperties
  <2> QED
    BY ONLY <2>1, <2>3
<1>4. PICK x \in Seq(Bit) : x = Head(more)
  BY <1>3
<1>5. PICK y \in Seq(Bit) : y = FlattenSeq(Tail(more))
  BY ONLY <1>3, FlattenType
<1>6. FlattenSeq(more) = x \o y
  <2>1. \A s \in Seq(Seq(Bit)) : s # <<>> => FlattenSeq(s) = Head(s) \o FlattenSeq(Tail(s))
    BY ONLY FlattenType, FlattenHead
  <2> QED
    BY ONLY <1>2, <1>4, <1>5, <2>1
<1>7. PICK next \in Seq(Bit) : next = done \o x
  BY ONLY done \in Seq(Bit), x \in Seq(Bit), ConcatProperties
<1>8. v = before \o next
  <2>1. (before \o done) \o x = before \o (done \o x)
    BY ONLY before \in Seq(Bit), done \in Seq(Bit), x \in Seq(Bit), JoinAgain
  <2> QED
    BY ONLY <1>1, <1>4, <1>7, <2>1, Joins(v, w, Head(more)) DEF Joins
<1>9. c = next \o y
  <2>1. (done \o x) \o y = done \o (x \o y)
    BY ONLY done \in Seq(Bit), x \in Seq(Bit), y \in Seq(Bit), JoinAgain
  <2> QED
    BY ONLY <1>1, <1>6, <1>7, <2>1 DEF Joins
<1>10. Joins(v, before, next) /\ Joins(c, next, y)
  BY ONLY <1>8, <1>9 DEF Joins
<1> QED
  BY ONLY <1>1, <1>5, <1>10, before \in Seq(Bit), next \in Seq(Bit), y \in Seq(Bit), Zenon DEF Under

\* The last call is done: the item stands.
LEMMA CallsDone ==
    ASSUME NEW w, NEW p \in Nat, NEW c, Under(w, p, <<>>, c)
    PROVE  Stands(w, p, c) /\ Len(w) = p + Len(c)
<1>0. PICK e : e = <<>>
  OBVIOUS
<1>1. PICK before, done \in Seq(Bit) :
        /\ Len(before) = p /\ Joins(w, before, done)
        /\ FlattenSeq(e) \in Seq(Bit) /\ Joins(c, done, FlattenSeq(e))
  BY ONLY <1>0, Under(w, p, <<>>, c), Zenon DEF Under
<1>2. FlattenSeq(e) = <<>>
  <2>1. e = <<>> /\ Len(e) = 0
    BY ONLY <1>0
  <2>2. FlattenSeq(e) = e
    BY ONLY <2>1, Zenon DEF FlattenSeq
  <2> QED
    BY ONLY <2>1, <2>2
<1>3. c = done
  <2>1. done \o <<>> = done
    BY ONLY done \in Seq(Bit), ConcatEmptySeq
  <2> QED
    BY ONLY <1>1, <1>2, <2>1 DEF Joins
<1>4. Len(w) = p + Len(done) /\ \A i \in 1..Len(done) : w[p + i] = done[i]
  <2>1. /\ Len(w) = Len(before) + Len(done)
        /\ \A i \in 1..Len(done) : w[Len(before) + i] = done[i]
    <3>1. Longer(w, before, done)
      BY ONLY <1>1, before \in Seq(Bit), done \in Seq(Bit), LongerBegins
    <3> QED
      BY ONLY <3>1 DEF Longer
  <2> QED
    BY ONLY <1>1, <2>1
<1>5. Len(w) <= Len(w)
  <2>1. Len(done) \in Nat
    BY ONLY done \in Seq(Bit)
  <2> QED
    BY ONLY <1>4, <2>1, p \in Nat
<1> QED
  BY ONLY <1>3, <1>4, <1>5 DEF Stands

\* Nothing of an item is written yet.
LEMMA NothingYet ==
    ASSUME NEW w \in Seq(Bit), NEW it, IsItem(it)
    PROVE  Under(w, Len(w), CallsOf(it), Content(it))
<1>1. PICK e \in Seq(Bit) : e = <<>>
  BY EmptySeq
<1>2. PICK c \in Seq(Bit) : c = Content(it)
  BY ContentType
<1>3. FlattenSeq(CallsOf(it)) = c
  BY ONLY <1>2 DEF Content
<1>4. w \o e = w /\ e \o c = c
  BY ONLY <1>1, w \in Seq(Bit), c \in Seq(Bit), ConcatEmptySeq
<1>5. Joins(w, w, e) /\ Joins(c, e, c)
  BY ONLY <1>4 DEF Joins
<1>6. Len(w) = Len(w)
  OBVIOUS
<1> QED
  BY ONLY <1>2, <1>3, <1>5, <1>6, w \in Seq(Bit), e \in Seq(Bit), c \in Seq(Bit), Zenon DEF Under

\* One more item stands.
LEMMA OneMoreStands ==
    ASSUME NEW w, NEW items, NEW m \in Nat, NEW f, Stand(w, m, items, f), ~Refused(items[m + 1]),
           NEW p, p = f[m], NEW c, c = Content(items[m + 1]), Stands(w, p, c)
    PROVE  Stand(w, m + 1, items, f)
<1> SUFFICES ASSUME NEW k \in 1..m + 1 PROVE ~Refused(items[k]) /\ Stands(w, f[k - 1], Content(items[k]))
  BY DEF Stand
<1>1. CASE k = m + 1
  <2>1. k - 1 = m
    BY ONLY <1>1, m \in Nat
  <2> QED
    BY ONLY <1>1, <2>1, ~Refused(items[m + 1]), p = f[m], c = Content(items[m + 1]), Stands(w, p, c)
<1>2. CASE k # m + 1
  <2>1. k \in 1..m
    BY ONLY <1>2, k \in 1..m + 1, m \in Nat
  <2> QED
    BY ONLY <2>1, Stand(w, m, items, f), Zenon DEF Stand
<1> QED
  BY ONLY <1>1, <1>2

\* A reader that is given the first l bits sees of an item what is in them.
LEMMA StandingShown ==
    ASSUME NEW w \in Seq(Bit), NEW l \in 0..Len(w), NEW v, v = SubSeq(w, 1, l), NEW p \in Nat, NEW c \in Seq(Bit),
           Stands(w, p, c)
    PROVE  Shows(v, p, c)
<1>1. PICK n \in Nat : n = Len(w)
  OBVIOUS
<1>2. l \in Nat /\ l <= n
  BY ONLY <1>1, l \in 0..Len(w)
<1>3. Len(v) = l /\ \A i \in 1..l : v[i] = w[i]
  <2>1. v = [i \in 1..l |-> w[i]]
    <3>1. SubSeq(w, 1, l) = [i \in 1..l - 1 + 1 |-> w[i + 1 - 1]]
      BY ONLY <1>1, <1>2, w \in Seq(Bit)
    <3>2. l - 1 + 1 = l /\ \A i \in 1..l : i + 1 - 1 = i
      BY ONLY <1>2
    <3> QED
      BY ONLY <3>1, <3>2, v = SubSeq(w, 1, l)
  <2> QED
    BY ONLY <1>2, <2>1
<1>4. PICK m \in Nat : m = Len(c)
  OBVIOUS
<1>5. ASSUME NEW i \in 1..m, p + i <= l PROVE v[p + i] = c[i]
  <2>1. p + i \in 1..l
    BY ONLY <1>2, i \in 1..m, p + i <= l, p \in Nat, m \in Nat
  <2>2. w[p + i] = c[i]
    BY ONLY <1>4, i \in 1..m, Stands(w, p, c) DEF Stands
  <2> QED
    BY ONLY <1>3, <2>1, <2>2
<1> QED
  BY ONLY <1>3, <1>4, <1>5 DEF Shows

\* So far the first m items are in w, and of the next one what more leaves.
Progress(w, m, more, items, f) ==
    /\ m \in 0..Len(items) /\ Stand(w, m, items, f)
    /\ m = Len(items) => Len(w) = f[m]
    /\ m < Len(items) => IF items[m + 1].kind = "ALIGN" THEN more = <<>> /\ Len(w) = f[m]
                         ELSE Under(w, f[m], more, Content(items[m + 1]))

CallsAt(items, k) == IF k \in 1..Len(items) THEN CallsOf(items[k]) ELSE <<>>

\* Between two items.
LEMMA ProgressAtItem ==
    ASSUME NEW items, IsProgram(items), NEW f, NEW m \in 0..Len(items), NEW w \in Seq(Bit),
           Stand(w, m, items, f), Len(w) = f[m]
    PROVE  Progress(w, m, CallsAt(items, m + 1), items, f)
<1>0. Len(items) \in Nat
  BY DEF IsProgram
<1>1. PICK n \in Nat : n = Len(items)
  BY ONLY <1>0
<1>2. CASE m < n
  <2>1. m + 1 \in 1..n
    BY ONLY <1>1, <1>2, m \in 0..Len(items), n \in Nat
  <2>2. IsItem(items[m + 1])
    BY ONLY <1>1, <2>1, IsProgram(items) DEF IsProgram
  <2>3. PICK it : it = items[m + 1]
    OBVIOUS
  <2>4. CallsAt(items, m + 1) = CallsOf(it)
    BY ONLY <1>1, <2>1, <2>3 DEF CallsAt
  <2>5. CASE it.kind = "ALIGN"
    <3>1. CallsOf(it) = <<>>
      BY ONLY <2>5, Zenon DEF CallsOf
    <3>2. m # n
      BY ONLY <1>1, <1>2, m \in 0..Len(items)
    <3> QED
      BY ONLY <1>1, <2>3, <2>4, <2>5, <3>1, <3>2, m \in 0..Len(items), Stand(w, m, items, f), Len(w) = f[m]
         DEF Progress
  <2>6. CASE it.kind # "ALIGN"
    <3>1. Under(w, Len(w), CallsOf(it), Content(it))
      BY ONLY <2>2, <2>3, w \in Seq(Bit), NothingYet
    <3>2. m # n
      BY ONLY <1>1, <1>2, m \in 0..Len(items)
    <3> QED
      BY ONLY <1>1, <2>3, <2>4, <2>6, <3>1, <3>2, m \in 0..Len(items), Stand(w, m, items, f), Len(w) = f[m]
         DEF Progress
  <2> QED
    BY <2>5, <2>6
<1>3. CASE ~(m < n)
  BY ONLY <1>1, <1>3, m \in 0..Len(items), Stand(w, m, items, f), Len(w) = f[m] DEF Progress
<1> QED
  BY <1>2, <1>3

LEMMA ProgressStarts ==
    ASSUME NEW items, IsProgram(items)
    PROVE  Progress(<<>>, 0, CallsOf(items[1]), items, PlacesOf(items))
<1>1. PICK f : f = PlacesOf(items)
  OBVIOUS
<1>2. PICK w \in Seq(Bit) : w = <<>>
  BY EmptySeq
<1>3. PICK m : m = 0
  OBVIOUS
<1>4. Len(items) \in Nat \ {0}
  BY DEF IsProgram
<1>5. m \in 0..Len(items) /\ m + 1 = 1 /\ 1 \in 1..Len(items)
  BY ONLY <1>3, <1>4
<1>6. Stand(w, m, items, f)
  <2>1. \A k \in 1..m : FALSE
    BY ONLY <1>3
  <2> QED
    BY ONLY <2>1, Zenon DEF Stand
<1>7. Len(w) = f[m]
  <2>1. f[0] = 0
    BY ONLY <1>1, IsProgram(items), PlacesExist DEF Places
  <2> QED
    BY ONLY <1>2, <1>3, <2>1
<1>8. Progress(w, m, CallsAt(items, m + 1), items, f)
  BY ONLY <1>5, <1>6, <1>7, IsProgram(items), w \in Seq(Bit), ProgressAtItem
<1>9. CallsAt(items, m + 1) = CallsOf(items[1])
  BY ONLY <1>5 DEF CallsAt
<1> QED
  BY ONLY <1>1, <1>2, <1>3, <1>8, <1>9

\* The next item is complete.
LEMMA ItemComplete ==
    ASSUME NEW items, IsProgram(items), NEW f, f = PlacesOf(items), NEW m \in Nat, m < Len(items),
           NEW w \in Seq(Bit), Stand(w, m, items, f), NEW it, it = items[m + 1], ~Refused(it),
           Stands(w, f[m], Content(it)), Len(w) = f[m] + SizeAt(it, f[m])
    PROVE  Progress(w, m + 1, CallsAt(items, m + 2), items, f)
<1>0. Len(items) \in Nat
  BY DEF IsProgram
<1>1. PICK n \in Nat : n = Len(items)
  BY ONLY <1>0
<1>2. PICK j : j = m + 1
  OBVIOUS
<1>3. j \in 1..n /\ j \in 0..n /\ j - 1 = m /\ j + 1 = m + 2
  BY ONLY <1>1, <1>2, m \in Nat, m < Len(items)
<1>4. f[j] = f[m] + SizeAt(it, f[m])
  <2>1. Places(f, items)
    BY ONLY IsProgram(items), f = PlacesOf(items), PlacesExist
  <2> QED
    BY ONLY <1>1, <1>2, <1>3, <2>1, it = items[m + 1] DEF Places
<1>5. Stand(w, j, items, f)
  <2>1. PICK p : p = f[m]
    OBVIOUS
  <2>2. PICK c : c = Content(it)
    OBVIOUS
  <2>3. Stand(w, m + 1, items, f)
    BY ONLY <2>1, <2>2, m \in Nat, Stand(w, m, items, f), it = items[m + 1], ~Refused(it), Stands(w, f[m], Content(it)),
            OneMoreStands
  <2> QED
    BY ONLY <1>2, <2>3
<1>6. Progress(w, j, CallsAt(items, j + 1), items, f)
  BY ONLY <1>1, <1>3, <1>4, <1>5, IsProgram(items), w \in Seq(Bit), Len(w) = f[m] + SizeAt(it, f[m]), ProgressAtItem
<1> QED
  BY ONLY <1>2, <1>3, <1>6

\* One call of the writer further.
LEMMA ProgressByCall ==
    ASSUME NEW items, IsProgram(items), NEW f, f = PlacesOf(items), NEW m \in Nat, m < Len(items),
           NEW w \in Seq(Bit), NEW more, Progress(w, m, more, items, f),
           NEW it, it = items[m + 1], ~Refused(it),
           NEW x \in Seq(Bit), NEW v, Joins(v, w, x),
           it.kind = "ALIGN" => Len(x) = PadTo8(Len(w)),
           it.kind # "ALIGN" => more \in Calls /\ x = Head(more)
    PROVE  IF Len(more) > 1 THEN Progress(v, m, Tail(more), items, f)
           ELSE Progress(v, m + 1, CallsAt(items, m + 2), items, f)
<1>0. Len(items) \in Nat
  BY DEF IsProgram
<1>1. m \in 0..Len(items) /\ m + 1 \in 1..Len(items) /\ m # Len(items)
  BY ONLY <1>0, m \in Nat, m < Len(items)
<1>2. /\ Stand(w, m, items, f)
      /\ IF it.kind = "ALIGN" THEN more = <<>> /\ Len(w) = f[m] ELSE Under(w, f[m], more, Content(it))
  BY ONLY Progress(w, m, more, items, f), m < Len(items), it = items[m + 1], Zenon DEF Progress
<1>3. Longer(v, w, x)
  BY ONLY w \in Seq(Bit), x \in Seq(Bit), Joins(v, w, x), LongerBegins
<1>4. Places(f, items)
  BY ONLY IsProgram(items), f = PlacesOf(items), PlacesExist
<1>5. IsItem(it)
  <2>1. PICK k : k = m + 1
    OBVIOUS
  <2>2. k \in 1..Len(items) /\ it = items[k]
    BY ONLY <1>1, <2>1, it = items[m + 1]
  <2> QED
    BY ONLY <2>2, IsProgram(items) DEF IsProgram
<1>6. PICK p \in Nat : p = f[m]
  BY ONLY <1>1, <1>4 DEF Places
<1>7. PICK c \in Seq(Bit) : c = Content(it)
  BY ONLY <1>5, ContentType
<1>8. v \in Seq(Bit)
  BY ONLY <1>3 DEF Longer
<1>9. Stand(v, m, items, f)
  <2>1. PICK l \in Nat : l = Len(w)
    OBVIOUS
  <2>2. Len(w) = l /\ Len(v) \in Nat /\ l <= Len(v) /\ \A i \in 1..l : v[i] = w[i]
    BY ONLY <1>3, <2>1 DEF Longer
  <2> QED
    BY ONLY <1>1, <1>2, <1>4, <2>2, l \in Nat, IsProgram(items), AllStillStand
<1>10. CASE it.kind = "ALIGN"
  <2>1. more = <<>> /\ Len(w) = p /\ c = <<>>
    BY ONLY <1>2, <1>5, <1>6, <1>7, <1>10, ContentType
  <2>2. ~(Len(more) > 1)
    <3>1. Len(more) = 0
      BY ONLY <2>1
    <3> QED
      BY ONLY <3>1
  <2>3. Len(v) = p + SizeAt(it, p)
    <3>1. Len(x) = PadTo8(p) /\ Len(v) = p + Len(x)
      BY ONLY <1>3, <1>10, <2>1, it.kind = "ALIGN" => Len(x) = PadTo8(Len(w)) DEF Longer
    <3>2. SizeAt(it, p) = PadTo8(p)
      BY ONLY <1>10 DEF SizeAt
    <3> QED
      BY ONLY <3>1, <3>2
  <2>4. Stands(v, p, c)
    <3>1. Len(c) = 0 /\ p <= Len(v)
      BY ONLY <1>3, <2>1 DEF Longer
    <3>2. p + Len(c) <= Len(v)
      BY ONLY <3>1, p \in Nat
    <3>3. \A i \in 1..Len(c) : FALSE
      BY ONLY <3>1
    <3> QED
      BY ONLY <3>2, <3>3, Zenon DEF Stands
  <2>5. Progress(v, m + 1, CallsAt(items, m + 2), items, f)
    BY ONLY <1>6, <1>7, <1>8, <1>9, <2>3, <2>4, IsProgram(items), f = PlacesOf(items), m \in Nat, m < Len(items),
            it = items[m + 1], ~Refused(it), ItemComplete
  <2> QED
    BY ONLY <2>2, <2>5
<1>11. CASE it.kind # "ALIGN"
  <2>1. more \in Calls /\ x = Head(more) /\ Under(w, p, more, c)
    BY ONLY <1>2, <1>6, <1>7, <1>11, it.kind # "ALIGN" => more \in Calls /\ x = Head(more)
  <2>2. Under(v, p, Tail(more), c)
    BY ONLY <2>1, p \in Nat, Joins(v, w, x), CallMore
  <2>3. CASE Len(more) > 1
    <3>1. Progress(v, m, Tail(more), items, f)
      BY ONLY <1>1, <1>6, <1>7, <1>9, <1>11, <2>2, it = items[m + 1] DEF Progress
    <3> QED
      BY ONLY <2>3, <3>1
  <2>4. CASE ~(Len(more) > 1)
    <3>1. Tail(more) = <<>>
      <4>1. PICK T : T = BitStrings
        OBVIOUS
      <4>2. more \in Seq(T) /\ more # <<>>
        BY ONLY <2>1, <4>1 DEF Calls
      <4>3. Tail(more) \in Seq(T) /\ Len(Tail(more)) = Len(more) - 1 /\ Len(more) \in Nat
        BY ONLY <4>2, HeadTailProperties, LenProperties
      <4>4. PICK t \in Seq(T) : t = Tail(more)
        BY ONLY <4>3
      <4>5. Len(t) <= 0 /\ Len(t) \in Nat
        BY ONLY <2>4, <4>3, <4>4
      <4>6. t = <<>>
        BY ONLY <4>5, t \in Seq(T)
      <4> QED
        BY ONLY <4>4, <4>6
    <3>2. Stands(v, p, c) /\ Len(v) = p + Len(c)
      BY ONLY <2>2, <3>1, p \in Nat, CallsDone
    <3>3. SizeAt(it, p) = Len(c)
      BY ONLY <1>7, <1>11 DEF SizeAt
    <3>4. Progress(v, m + 1, CallsAt(items, m + 2), items, f)
      BY ONLY <1>6, <1>7, <1>8, <1>9, <3>2, <3>3, IsProgram(items), f = PlacesOf(items), m \in Nat, m < Len(items),
              it = items[m + 1], ~Refused(it), ItemComplete
    <3> QED
      BY ONLY <2>4, <3>4
  <2> QED
    BY ONLY <2>3, <2>4
<1> QED
  BY ONLY <1>10, <1>11

\* All items are in the first l bits of b.
Whole(b, l, items, f) == l = f[Len(items)] /\ l \in 0..Len(b) /\ Stand(b, Len(items), items, f)

LEMMA WholeIs ==
    ASSUME NEW items, IsProgram(items), NEW f, f = PlacesOf(items), NEW w \in Seq(Bit), NEW more,
           Progress(w, Len(items), more, items, f), NEW b \in Seq(Bit), NEW l, l = Len(w), l \in 0..Len(b),
           \A i \in 1..l : b[i] = w[i]
    PROVE  Whole(b, l, items, f)
<1>0. Len(items) \in Nat
  BY DEF IsProgram
<1>1. PICK n \in Nat : n = Len(items)
  BY ONLY <1>0
<1>2. Len(w) = f[n] /\ Stand(w, n, items, f)
  BY ONLY <1>1, Progress(w, Len(items), more, items, f) DEF Progress
<1>3. Places(f, items)
  BY ONLY IsProgram(items), f = PlacesOf(items), PlacesExist
<1>4. l \in Nat /\ Len(b) \in Nat /\ l <= Len(b) /\ n \in 0..Len(items)
  BY ONLY <1>1, b \in Seq(Bit), l \in 0..Len(b)
<1>5. Stand(b, n, items, f)
  BY ONLY <1>2, <1>3, <1>4, l = Len(w), IsProgram(items), \A i \in 1..l : b[i] = w[i], AllStillStand
<1> QED
  BY ONLY <1>1, <1>2, <1>5, l = Len(w), l \in 0..Len(b) DEF Whole

\* What the reader says of an item that ends at e.
Answer(x, it, e, l) == IF e <= l THEN x.rc = "OK" /\ x.val = Expected(it) ELSE x.rc = "EOF"

\* The answers so far are those, and the reader is behind the last of them if none was refused.
Answers(a, pos, l, items, f) ==
    /\ Len(a) <= Len(items)
    /\ \A k \in 1..Len(a) : Answer(a[k], items[k], f[k], l)
    /\ (\A k \in 1..Len(a) : a[k].rc = "OK") => pos = f[Len(a)]

\* An item is read in one of two ways.
ReadBy(r, it, v, p) ==
    \/ r = ReadAs(it, v, p)
    \/ it.kind = "BYTES" /\ p % 8 = 0 /\ r = ReadBytes(v, p, Len(it.content))

\* None of the answers is a refusal.
Given(a, m) == m = Len(a) /\ a = [k \in 1..m |-> a[k]] /\ \A k \in 1..m : a[k].rc = "OK"

\* One answer more: the item that ends at e is read from a part of the buffer of length l.
LEMMA AnswerMore ==
    ASSUME NEW items, IsProgram(items), NEW f, f = PlacesOf(items), NEW b, b \in Seq(Bit),
           NEW whole, Whole(b, whole, items, f), NEW l, l \in 0..Len(b), NEW v, v = SubSeq(b, 1, l), v \in Seq(Bit),
           Len(v) = l, NEW a, NEW m \in Nat, Given(a, m), m < Len(items),
           NEW p, p \in 0..Len(v), Answers(a, p, l, items, f),
           NEW it, it = items[m + 1], NEW r, ReadBy(r, it, v, p),
           NEW new, new = Append(a, [rc |-> r.rc, val |-> r.val])
    PROVE  Answers(new, r.pos, l, items, f)
<1>a. m = Len(a) /\ a = [k \in 1..Len(a) |-> a[k]] /\ \A k \in 1..Len(a) : a[k].rc = "OK"
  BY DEF Given
<1>0. Len(items) \in Nat
  BY DEF IsProgram
<1>1. PICK n \in Nat : n = Len(items)
  BY ONLY <1>0
<1>2. PICK j : j = m + 1
  OBVIOUS
<1>3. j \in 1..n /\ j \in 0..n /\ j - 1 = m /\ m \in 0..n
  BY ONLY <1>1, <1>2, m \in Nat, m < Len(items)
<1>4. IsItem(it)
  BY ONLY <1>1, <1>2, <1>3, IsProgram(items), it = items[m + 1] DEF IsProgram
<1>5. PICK c \in Seq(Bit) : c = Content(it)
  BY ONLY <1>4, ContentType
<1>6. p = f[m] /\ p \in Nat
  <2>1. p = f[m]
    BY ONLY <1>a, Answers(a, p, l, items, f) DEF Answers
  <2>2. p \in Nat
    BY ONLY p \in 0..Len(v), Len(v) = l
  <2> QED
    BY ONLY <2>1, <2>2
<1>7. ~Refused(it) /\ Stands(b, p, c)
  <2>1. ~Refused(items[j]) /\ Stands(b, f[j - 1], Content(items[j]))
    BY ONLY <1>1, <1>3, Whole(b, whole, items, f) DEF Whole, Stand
  <2> QED
    BY ONLY <1>2, <1>3, <1>5, <1>6, <2>1, it = items[m + 1]
<1>8. Shows(v, p, Content(it))
  <2>1. Shows(v, p, c)
    BY ONLY <1>6, <1>7, b \in Seq(Bit), l \in 0..Len(b), v = SubSeq(b, 1, l), c \in Seq(Bit), StandingShown
  <2> QED
    BY ONLY <1>5, <2>1
<1>9. PICK e : e = p + SizeAt(it, p)
  OBVIOUS
<1>10. Gives(r, Expected(it), e, v)
  <2>1. CASE r = ReadAs(it, v, p)
    <3>1. Gives(ReadAs(it, v, p), Expected(it), p + SizeAt(it, p), v)
      BY ONLY <1>4, <1>7, <1>8, v \in Seq(Bit), p \in 0..Len(v), ItemShown
    <3> QED
      BY ONLY <1>9, <2>1, <3>1
  <2>2. CASE it.kind = "BYTES" /\ p % 8 = 0 /\ r = ReadBytes(v, p, Len(it.content))
    <3>1. Gives(ReadBytes(v, p, Len(it.content)), Expected(it), p + SizeAt(it, p), v)
      BY ONLY <1>4, <1>8, <2>2, v \in Seq(Bit), p \in 0..Len(v), ItemHandedOut
    <3> QED
      BY ONLY <1>9, <2>2, <3>1
  <2> QED
    BY <2>1, <2>2 DEF ReadBy
<1>11. e = f[j]
  <2>1. Places(f, items)
    BY ONLY IsProgram(items), f = PlacesOf(items), PlacesExist
  <2>2. f[j] = f[j - 1] + SizeAt(items[j], f[j - 1])
    BY ONLY <1>1, <1>3, <2>1 DEF Places
  <2> QED
    BY ONLY <1>2, <1>3, <1>6, <1>9, <2>2, it = items[m + 1]
<1>12. PICK x : x = [rc |-> r.rc, val |-> r.val]
  OBVIOUS
<1>13. Answer(x, it, e, l) /\ (x.rc = "OK" => r.pos = e)
  <2>1. x.rc = r.rc /\ x.val = r.val
    BY ONLY <1>12
  <2>2. CASE e <= l
    <3>1. r = Ok(Expected(it), e)
      BY ONLY <1>10, <2>2, Len(v) = l DEF Gives
    <3>2. r.rc = "OK" /\ r.val = Expected(it) /\ r.pos = e
      BY ONLY <3>1 DEF Ok
    <3> QED
      BY ONLY <2>1, <2>2, <3>2 DEF Answer
  <2>3. CASE ~(e <= l)
    <3>1. r.rc = "EOF"
      BY ONLY <1>10, <2>3, Len(v) = l DEF Gives
    <3> QED
      BY ONLY <2>1, <2>3, <3>1 DEF Answer
  <2> QED
    BY <2>2, <2>3
<1>14. Len(new) = j /\ new[j] = x /\ \A k \in 1..m : new[k] = a[k]
  <2> DEFINE T == {a[k] : k \in 1..m} \cup {x}
  <2>1. \A k \in 1..m : a[k] \in T
    OBVIOUS
  <2>2. x \in T
    OBVIOUS
  <2> HIDE DEF T
  <2>3. a \in Seq(T) /\ Len(a) = m
    BY ONLY <1>a, <2>1, m \in Nat, SequenceIs
  <2>4. new = Append(a, x)
    BY ONLY <1>12, new = Append(a, [rc |-> r.rc, val |-> r.val])
  <2>5. Len(new) = Len(a) + 1 /\ new[Len(a) + 1] = x /\ \A k \in 1..Len(a) : new[k] = a[k]
    BY ONLY <2>2, <2>3, <2>4, AppendProperties
  <2> QED
    BY ONLY <1>2, <2>3, <2>5
<1>15. ASSUME NEW k \in 1..j PROVE Answer(new[k], items[k], f[k], l)
  <2>1. CASE k = j
    BY ONLY <1>2, <1>11, <1>13, <1>14, <2>1, it = items[m + 1]
  <2>2. CASE k # j
    <3>1. k \in 1..m
      BY ONLY <1>2, <2>2, k \in 1..j, m \in Nat
    <3>2. Answer(a[k], items[k], f[k], l)
      BY ONLY <1>a, <3>1, Answers(a, p, l, items, f) DEF Answers
    <3> QED
      BY ONLY <1>14, <3>1, <3>2
  <2> QED
    BY <2>1, <2>2
<1>16. (\A k \in 1..Len(new) : new[k].rc = "OK") => r.pos = f[Len(new)]
  <2> SUFFICES ASSUME \A k \in 1..Len(new) : new[k].rc = "OK" PROVE r.pos = f[Len(new)]
    OBVIOUS
  <2>1. j \in 1..j
    BY ONLY <1>3, n \in Nat
  <2>2. x.rc = "OK"
    BY ONLY <1>14, <2>1, \A k \in 1..Len(new) : new[k].rc = "OK"
  <2> QED
    BY ONLY <1>11, <1>13, <1>14, <2>2
<1>17. Len(new) <= Len(items)
  BY ONLY <1>1, <1>3, <1>14, n \in Nat
<1> QED
  BY ONLY <1>14, <1>15, <1>16, <1>17 DEF Answers

-----------------------------------------------------------------------------
(* The program that is written and read *)

\* The steps of module BitIO, for any program, and the end of a file that is stored.
OpenProgram == \E items : \E initial, g \in Nat : IsProgram(items) /\ OpenWriter(items, initial, g)
StoreFile ==
    /\ phase = "detached" /\ ~live /\ phase' = "stored"
    /\ prog' = <<>> /\ at' = 0 /\ calls' = <<>> /\ file' = <<>> /\ fileLen' = 0
    /\ UNCHANGED <<writerVars, readVars>>
IOStep ==
    \/ OpenProgram \/ WriteAgain \/ Grow \/ WriteCall \/ Refuse \/ RefuseItem \/ GiveUp \/ Detach
    \/ DetachFails \/ CloseWriter
    \/ \E n \in 0..fileLen : CreateReader(n)
    \/ ToReader \/ ReadItem \/ ReadDirect \/ ReadCodepoint \/ CloseReader
    \/ StoreFile

\* There is a program wherever one is needed, and the next item has its calls.
ProgInv ==
    /\ phase \notin {"idle", "stored"} => IsProgram(prog)
    /\ at \in Nat
    /\ phase = "write" /\ at < Len(prog) => (Current.kind # "ALIGN" => calls \in Calls)

\* The reader is in the part of the file that it was given.
FileInv ==
    /\ file \in BitStrings /\ fileLen \in 0..Len(file) /\ rlen \in 0..fileLen /\ rpos \in 0..rlen
    /\ phase # "read" => rlen = 0 /\ rpos = 0 /\ codepoint = <<>>
    /\ got = [k \in 1..Len(got) |-> got[k]] /\ Len(got) \in Nat

\* What the last code point was read from.
SpellInv ==
    codepoint # <<>> =>
        /\ phase = "read"
        /\ \E p, e, v : codepoint = <<v, p, e>> /\ p \in Nat /\ Spelled(View, p, e, v)

IOInv == WriterInv /\ Idle /\ ProgInv /\ FileInv /\ SpellInv

LEMMA IOStarts == IOInit => IOInv
<1> SUFFICES ASSUME IOInit PROVE IOInv
  OBVIOUS
<1>1. WriterInv /\ Idle
  BY InitWriter DEF IOInit, WriterInit, Idle
<1>2. ProgInv
  BY DEF IOInit, ProgInv
<1>3. FileInv
  BY DEF IOInit, FileInv, BitStrings
<1>4. SpellInv
  BY DEF IOInit, SpellInv
<1> QED
  BY <1>1, <1>2, <1>3, <1>4 DEF IOInv

\* The item that is written next.
LEMMA CurrentIs ==
    ASSUME ProgInv, Writing
    PROVE  /\ IsItem(Current) /\ at + 1 \in 1..Len(prog)
           /\ Current.kind # "ALIGN" => calls \in Calls /\ Head(calls) \in BitStrings /\ Len(Head(calls)) \in Nat
<1>1. IsProgram(prog)
  BY DEF ProgInv, Writing
<1>2. PICK n : n = Len(prog)
  OBVIOUS
<1>n. n \in Nat
  BY <1>1, <1>2 DEF IsProgram
<1>3. at + 1 \in 1..n
  BY <1>2, <1>n DEF ProgInv, Writing
<1>4. IsItem(Current)
  BY <1>1, <1>2, <1>3 DEF IsProgram, Current
<1>5. ASSUME Current.kind # "ALIGN"
      PROVE  calls \in Calls /\ Head(calls) \in BitStrings /\ Len(Head(calls)) \in Nat
  <2>1. calls \in Calls
    BY <1>5 DEF ProgInv, Writing
  <2>2. PICK B : B = BitStrings
    OBVIOUS
  <2>3. calls \in Seq(B) /\ calls # <<>>
    BY <2>1, <2>2 DEF Calls
  <2>4. Head(calls) \in B
    BY ONLY <2>3, HeadTailProperties
  <2>5. Head(calls) \in BitStrings
    BY <2>2, <2>4
  <2>6. Len(Head(calls)) \in Nat
    BY <2>5 DEF BitStrings
  <2> QED
    BY <2>1, <2>5, <2>6
<1> QED
  BY <1>2, <1>3, <1>4, <1>5

\* Whatever the program, the writer only takes steps of its own.
LEMMA IOWriterStep ==
    ASSUME IOInv, IOStep
    PROVE  [WriterStep]_writerVars
<1>1. CASE OpenProgram
  BY <1>1 DEF OpenProgram, OpenWriter, WriterStep
<1>2. CASE Grow
  <2>1. Demand \in Nat
    BY <1>2, CurrentIs, PaddingType DEF Grow, Demand, IOInv
  <2> QED
    BY <1>2, <2>1 DEF Grow, WriterStep
<1>3. CASE WriteCall
  <2>1. CASE Current.kind = "ALIGN"
    BY <1>3, <2>1 DEF WriteCall, WriterStep
  <2>2. CASE Current.kind # "ALIGN"
    BY <1>3, <2>2, CurrentIs DEF WriteCall, WriterStep, IOInv
  <2> QED
    BY <2>1, <2>2
<1>4. CASE Refuse
  BY <1>4 DEF Refuse, WriterStep
<1>5. CASE GiveUp \/ CloseWriter
  BY <1>5 DEF GiveUp, CloseWriter, WriterStep
<1>6. CASE Detach
  BY <1>6 DEF Detach, WriterStep
<1>7. CASE DetachFails
  BY <1>7 DEF DetachFails, WriterStep
<1>8. CASE CloseReader
  BY <1>8 DEF CloseReader, WriterStep
<1>9. CASE \/ WriteAgain \/ RefuseItem \/ \E n \in 0..fileLen : CreateReader(n)
           \/ ToReader \/ ReadItem \/ ReadDirect \/ ReadCodepoint \/ StoreFile
  BY <1>9 DEF WriteAgain, RefuseItem, CreateReader, ToReader, ReadItem, ReadDirect, ReadCodepoint, StoreFile
<1> QED
  BY <1>1, <1>2, <1>3, <1>4, <1>5, <1>6, <1>7, <1>8, <1>9 DEF IOStep

LEMMA FirstCalls ==
    ASSUME NEW items, IsProgram(items)
    PROVE  items[1].kind # "ALIGN" => CallsOf(items[1]) \in Calls
<1>1. PICK n : n = Len(items)
  OBVIOUS
<1>2. n \in Nat \ {0} /\ \A k \in 1..n : IsItem(items[k])
  BY <1>1 DEF IsProgram
<1>3. 1 \in 1..n
  BY <1>2
<1> QED
  BY <1>2, <1>3, CallsType

\* One call less, or the calls of the next item.
LEMMA CallsLeft ==
    ASSUME ProgInv, WriteCall
    PROVE  ProgInv'
<1>1. Writing /\ UNCHANGED <<phase, prog>> /\ phase = "write" /\ IsProgram(prog) /\ at \in Nat
  BY DEF WriteCall, Writing, ProgInv
<1>2. PICK n : n = Len(prog)
  OBVIOUS
<1>3. n \in Nat /\ DOMAIN prog = 1..n /\ \A k \in 1..n : IsItem(prog[k])
  BY <1>1, <1>2 DEF IsProgram
<1>4. CASE Len(calls) > 1 /\ calls' = Tail(calls) /\ UNCHANGED at
  <2>1. ASSUME Current.kind # "ALIGN" PROVE Tail(calls) \in Calls
    <3>1. PICK B : B = BitStrings
      OBVIOUS
    <3>2. calls \in Seq(B) /\ calls # <<>>
      BY <1>1, <2>1, <3>1, CurrentIs DEF Calls
    <3>3. Tail(calls) \in Seq(B) /\ Len(Tail(calls)) = Len(calls) - 1
      BY ONLY <3>2, HeadTailProperties
    <3>4. PICK t \in Seq(B) : t = Tail(calls)
      BY <3>3
    <3>5. Len(t) = Len(calls) - 1 /\ Len(calls) \in Nat
      BY <3>2, <3>3, <3>4
    <3>6. Len(t) > 0
      BY <1>4, <3>5
    <3>7. t # <<>>
      BY ONLY <3>6, t \in Seq(B)
    <3> QED
      BY <3>1, <3>4, <3>7 DEF Calls
  <2>2. Current' = Current
    BY <1>1, <1>4 DEF Current
  <2> QED
    BY <1>1, <1>4, <2>1, <2>2 DEF ProgInv
<1>5. CASE NextItem
  <2>1. at' = at + 1 /\ calls' = IF at + 2 \in 1..n THEN CallsOf(prog[at + 2]) ELSE <<>>
    BY <1>3, <1>5 DEF NextItem
  <2>2. Current' = prog[at + 2] /\ Len(prog') = n /\ at' \in Nat
    <3>1. at + 1 + 1 = at + 2
      BY <1>1
    <3> QED
      BY <1>1, <1>2, <2>1, <3>1 DEF Current
  <2>3. ASSUME at' < n, Current'.kind # "ALIGN" PROVE calls' \in Calls
    <3>1. at + 2 \in 1..n
      BY <1>1, <1>3, <2>1, <2>3
    <3> QED
      BY <1>3, <2>1, <2>2, <2>3, <3>1, CallsType
  <2> QED
    BY <1>1, <2>2, <2>3 DEF ProgInv
<1> QED
  BY <1>4, <1>5 DEF WriteCall

LEMMA ProgKeeps ==
    ASSUME ProgInv, IOStep
    PROVE  ProgInv'
<1>1. ASSUME NEW items, IsProgram(items), Begin(items), phase' = "write"
      PROVE  ProgInv'
  <2>1. Current' = items[1]
    <3>1. 0 + 1 = 1
      OBVIOUS
    <3> QED
      BY <1>1, <3>1 DEF Begin, Current
  <2> QED
    BY <1>1, <2>1, FirstCalls DEF Begin, ProgInv
<1>2. CASE OpenProgram
  BY <1>1, <1>2 DEF OpenProgram, OpenWriter
<1>3. CASE WriteAgain
  BY <1>1, <1>3 DEF WriteAgain, ProgInv
<1>4. CASE WriteCall
  BY <1>4, CallsLeft
<1>5. CASE Grow
  <2>1. UNCHANGED <<phase, prog, at, calls>>
    BY <1>5 DEF Grow, itemVars
  <2> QED
    BY <2>1 DEF ProgInv, Current
<1>6. CASE Refuse \/ RefuseItem \/ Detach \/ DetachFails \/ ToReader \/ \E n \in 0..fileLen : CreateReader(n)
  <2>1. UNCHANGED <<prog, at, calls>> /\ phase' # "write" /\ phase \notin {"idle", "stored"}
    BY <1>6 DEF Refuse, RefuseItem, Detach, DetachFails, ToReader, CreateReader, Writing, Finished, itemVars
  <2> QED
    BY <2>1 DEF ProgInv
<1>7. CASE GiveUp \/ CloseReader \/ StoreFile
  BY <1>7 DEF GiveUp, CloseReader, StoreFile, ProgInv
<1>8. CASE CloseWriter \/ ReadItem \/ ReadDirect \/ ReadCodepoint
  <2>1. UNCHANGED <<phase, prog, at, calls>>
    BY <1>8 DEF CloseWriter, ReadItem, ReadDirect, ReadCodepoint, itemVars
  <2> QED
    BY <2>1 DEF ProgInv, Current
<1> QED
  BY <1>2, <1>3, <1>4, <1>5, <1>6, <1>7, <1>8 DEF IOStep

\* What the reader sees.
LEMMA ViewIs ==
    ASSUME FileInv
    PROVE  View \in Seq(Bit) /\ Len(View) = rlen /\ rlen \in Nat /\ rpos \in 0..Len(View)
<1>1. PICK f : f = file
  OBVIOUS
<1>2. f \in Seq(Bit)
  BY <1>1 DEF FileInv, BitStrings, Bit
<1>3. PICK m \in Nat : m = Len(f)
  BY <1>2
<1>4. PICK n : n = rlen
  OBVIOUS
<1>5. n \in 0..m
  <2>1. PICK l \in 0..m : l = fileLen
    BY <1>1, <1>3 DEF FileInv
  <2>2. n \in 0..l
    BY <1>4, <2>1 DEF FileInv
  <2> QED
    BY ONLY <2>2, l \in 0..m, m \in Nat
<1>6. \A i \in 1..n : f[i] \in Bit
  <2> SUFFICES ASSUME NEW i \in 1..n PROVE f[i] \in Bit
    OBVIOUS
  <2>1. i \in 1..Len(f)
    BY <1>3, <1>5
  <2> QED
    BY <1>2, <2>1, ElementOfSeq
<1>7. n \in Int /\ n \in Nat
  BY <1>3, <1>5
<1>8. SubSeq(f, 1, n) \in Seq(Bit) /\ Len(SubSeq(f, 1, n)) = IF 1 <= n THEN n - 1 + 1 ELSE 0
  BY <1>6, <1>7, SubSeqProperties
<1>9. Len(SubSeq(f, 1, n)) = n
  BY <1>7, <1>8
<1>10. rpos \in 0..n
  BY <1>4 DEF FileInv
<1> QED
  BY <1>1, <1>4, <1>7, <1>8, <1>9, <1>10 DEF View

LEMMA OneMoreResult ==
    ASSUME NEW s, s = [k \in 1..Len(s) |-> s[k]], Len(s) \in Nat, NEW x
    PROVE  /\ Append(s, x) = [k \in 1..Len(Append(s, x)) |-> Append(s, x)[k]]
           /\ Len(Append(s, x)) = Len(s) + 1
<1> DEFINE T == {s[k] : k \in 1..Len(s)} \cup {x}
<1>1. PICK n \in Nat : n = Len(s)
  OBVIOUS
<1>2. \A k \in 1..n : s[k] \in T
  BY <1>1
<1>3. x \in T
  OBVIOUS
<1> HIDE DEF T
<1>4. s \in Seq(T)
  BY <1>1, <1>2, SequenceIs
<1>5. PICK t : t = Append(s, x)
  OBVIOUS
<1>6. t \in Seq(T) /\ Len(t) = Len(s) + 1
  BY ONLY <1>3, <1>4, <1>5
<1>7. t = [k \in 1..Len(t) |-> t[k]]
  BY ONLY <1>6
<1> QED
  BY <1>5, <1>6, <1>7

\* The buffer that a writer hands over is long enough for what was written.
LEMMA HandedOver ==
    ASSUME WriterInv
    PROVE  /\ mem \in BitStrings /\ wpos \in 0..Len(mem)
           /\ Detached \in BitStrings /\ wpos \in 0..Len(Detached)
<1>1. /\ mem \in Seq({0, 1}) /\ cap \in Nat /\ wpos \in Nat /\ Len(mem) = 8 * cap /\ wpos <= 8 * cap
  BY DEF WriterInv, WriterExact, BitStrings
<1>2. PICK n : n = 8 * NeededBytes(0)
  OBVIOUS
<1>3. n \in wpos..Len(mem) /\ n \in Nat
  BY <1>1, <1>2 DEF NeededBytes
<1>4. PICK B : B = {0, 1}
  OBVIOUS
<1>5. SubSeq(mem, 1, n) \in Seq(B) /\ Len(SubSeq(mem, 1, n)) = n
  <2>1. mem \in Seq(B) /\ n \in Nat /\ Len(mem) \in Nat /\ n <= Len(mem)
    BY <1>1, <1>3, <1>4
  <2>2. \A i \in 1..n : mem[i] \in B
    <3> SUFFICES ASSUME NEW i \in 1..n PROVE mem[i] \in B
      OBVIOUS
    <3>1. i \in 1..Len(mem)
      BY <2>1
    <3> QED
      BY <2>1, <3>1, ElementOfSeq
  <2>3. SubSeq(mem, 1, n) \in Seq(B) /\ Len(SubSeq(mem, 1, n)) = IF 1 <= n THEN n - 1 + 1 ELSE 0
    BY <2>1, <2>2, SubSeqProperties
  <2>4. (IF 1 <= n THEN n - 1 + 1 ELSE 0) = n
    BY <2>1
  <2> QED
    BY <2>3, <2>4
<1>6. Detached \in BitStrings /\ Len(Detached) = n
  BY <1>2, <1>4, <1>5 DEF Detached, BitStrings
<1>7. wpos \in 0..Len(mem) /\ wpos \in 0..n
  BY <1>1, <1>3
<1> QED
  BY <1>1, <1>6, <1>7 DEF BitStrings

\* The item that is read next, and where the reader is behind it.
LEMMA ResultsInside ==
    ASSUME ProgInv, FileInv, Reading, phase = "read", ReadItem \/ ReadDirect
    PROVE  /\ rpos' \in 0..rlen /\ got' = [k \in 1..Len(got') |-> got'[k]] /\ Len(got') \in Nat
           /\ UNCHANGED <<writerVars, phase, itemVars, fileVars, rlen, codepoint>>
<1>1. View \in Seq(Bit) /\ Len(View) = rlen /\ rpos \in 0..Len(View)
  BY ViewIs
<1>2. PICK it : it = prog[Len(got) + 1]
  OBVIOUS
<1>3. IsItem(it)
  <2>1. PICK n : n = Len(prog)
    OBVIOUS
  <2>2. IsProgram(prog)
    BY DEF ProgInv
  <2>3. n \in Nat /\ \A k \in 1..n : IsItem(prog[k])
    BY <2>1, <2>2 DEF IsProgram
  <2>4. Len(got) \in Nat /\ Len(got) < n
    BY <2>1 DEF FileInv, Reading
  <2>5. Len(got) + 1 \in 1..n
    BY <2>3, <2>4
  <2> QED
    BY <1>2, <2>3, <2>5
<1>4. PICK v \in Seq(Bit) : v = View
  BY <1>1
<1>5. PICK r : Inside(r, v) /\ Result(r)
  <2>1. CASE ReadItem
    <3>1. Result(ReadAs(it, v, rpos))
      BY <1>2, <1>4, <2>1 DEF ReadItem
    <3>2. Inside(ReadAs(it, v, rpos), v)
      BY <1>1, <1>3, <1>4, ReadInside
    <3> QED
      BY <3>1, <3>2
  <2>2. CASE ReadDirect
    <3>1. PICK n : n = Len(it.content)
      OBVIOUS
    <3>2. n \in Nat
      BY <1>2, <1>3, <2>2, <3>1, ContentLength DEF ReadDirect
    <3>3. Result(ReadBytes(v, rpos, n))
      BY <1>2, <1>4, <2>2, <3>1 DEF ReadDirect
    <3>4. Inside(ReadBytes(v, rpos, n), v)
      BY <1>1, <1>4, <3>2, FieldsInside
    <3> QED
      BY <3>3, <3>4
  <2> QED
    BY <2>1, <2>2
<1>6. rpos' \in 0..rlen
  BY <1>1, <1>4, <1>5 DEF Inside, Result
<1>7. got' = Append(got, [rc |-> r.rc, val |-> r.val])
  BY <1>5 DEF Result
<1>8. got' = [k \in 1..Len(got') |-> got'[k]] /\ Len(got') \in Nat
  <2>1. got = [k \in 1..Len(got) |-> got[k]] /\ Len(got) \in Nat
    BY DEF FileInv
  <2>2. PICK x : x = [rc |-> r.rc, val |-> r.val]
    OBVIOUS
  <2>3. got' = Append(got, x)
    BY <1>7, <2>2
  <2>4. /\ Append(got, x) = [k \in 1..Len(Append(got, x)) |-> Append(got, x)[k]]
        /\ Len(Append(got, x)) = Len(got) + 1
    BY <2>1, OneMoreResult
  <2> QED
    BY ONLY <2>1, <2>3, <2>4
<1> QED
  BY <1>6, <1>8 DEF ReadItem, ReadDirect

LEMMA FileKeeps ==
    ASSUME WriterInv, ProgInv, FileInv, IOStep
    PROVE  FileInv'
<1>0. <<>> \in BitStrings /\ Len(<<>>) = 0
  BY EmptySeq DEF BitStrings
<1>1. CASE OpenProgram \/ RefuseItem \/ Refuse \/ GiveUp \/ DetachFails \/ CloseWriter \/ Grow \/ WriteCall
  <2>1. UNCHANGED <<file, fileLen, rpos, rlen, got, codepoint>>
    BY <1>1 DEF OpenProgram, OpenWriter, RefuseItem, Refuse, GiveUp, DetachFails, CloseWriter, Grow, WriteCall,
                fileVars, readVars
  <2>2. phase # "read"
    BY <1>1 DEF OpenProgram, OpenWriter, RefuseItem, Refuse, GiveUp, DetachFails, CloseWriter, Grow, WriteCall,
                Writing, Finished
  <2> QED
    BY <2>1, <2>2 DEF FileInv
<1>2. CASE WriteAgain \/ StoreFile
  <2>1. /\ file' = <<>> /\ fileLen' = 0 /\ UNCHANGED <<rpos, rlen, got, codepoint>> /\ phase # "read"
    BY <1>2 DEF WriteAgain, StoreFile, readVars
  <2>2. rpos = 0 /\ rlen = 0 /\ codepoint = <<>>
    BY <2>1 DEF FileInv
  <2> QED
    BY <1>0, <2>1, <2>2 DEF FileInv
<1>3. CASE Detach
  <2>1. /\ file' = Detached /\ fileLen' = wpos /\ UNCHANGED <<rpos, rlen, got, codepoint>> /\ phase # "read"
    BY <1>3 DEF Detach, Finished, readVars
  <2>2. rpos = 0 /\ rlen = 0 /\ codepoint = <<>>
    BY <2>1 DEF FileInv
  <2>3. Detached \in BitStrings /\ wpos \in 0..Len(Detached)
    BY HandedOver
  <2>4. rlen' \in 0..fileLen' /\ rpos' \in 0..rlen'
    BY <2>1, <2>2, <2>3
  <2> QED
    BY <2>1, <2>2, <2>3, <2>4 DEF FileInv
<1>4. CASE \E n \in 0..fileLen : CreateReader(n)
  <2>1. PICK n \in 0..fileLen : CreateReader(n)
    BY <1>4
  <2>2. phase' = "read" /\ rpos' = 0 /\ rlen' = n /\ got' = <<>> /\ UNCHANGED <<file, fileLen>>
    BY <2>1 DEF CreateReader, fileVars
  <2>3. rpos' \in 0..rlen' /\ rlen' \in 0..fileLen
    BY <2>2
  <2> QED
    BY <1>0, <2>2, <2>3 DEF FileInv
<1>5. CASE ToReader
  <2>1. phase' = "read" /\ file' = mem /\ fileLen' = wpos /\ rpos' = 0 /\ rlen' = wpos /\ got' = <<>>
    BY <1>5 DEF ToReader
  <2>2. mem \in BitStrings /\ wpos \in 0..Len(mem)
    BY HandedOver
  <2>3. rpos' \in 0..rlen' /\ rlen' \in 0..fileLen'
    BY <2>1, <2>2
  <2> QED
    BY <1>0, <2>1, <2>2, <2>3 DEF FileInv
<1>6. CASE ReadItem \/ ReadDirect
  <2>1. Reading /\ phase = "read"
    BY <1>6 DEF ReadItem, ReadDirect, Reading
  <2>2. /\ rpos' \in 0..rlen /\ got' = [k \in 1..Len(got') |-> got'[k]] /\ Len(got') \in Nat
        /\ UNCHANGED <<writerVars, phase, itemVars, fileVars, rlen, codepoint>>
    BY <1>6, <2>1, ResultsInside
  <2> QED
    BY <2>1, <2>2 DEF FileInv, fileVars
<1>7. CASE ReadCodepoint
  <2>1. UNCHANGED <<file, fileLen, rpos, rlen, got, phase>> /\ phase = "read"
    BY <1>7 DEF ReadCodepoint, Reading, fileVars
  <2> QED
    BY <2>1 DEF FileInv
<1>8. CASE CloseReader
  <2>1. file' = <<>> /\ fileLen' = 0 /\ rpos' = 0 /\ rlen' = 0 /\ got' = <<>> /\ codepoint' = <<>>
    BY <1>8 DEF CloseReader
  <2> QED
    BY <1>0, <2>1 DEF FileInv
<1> QED
  BY <1>1, <1>2, <1>3, <1>4, <1>5, <1>6, <1>7, <1>8 DEF IOStep

LEMMA SpellKeeps ==
    ASSUME FileInv, SpellInv, IOStep
    PROVE  SpellInv'
<1>1. CASE codepoint' = <<>>
  BY <1>1 DEF SpellInv
<1>2. CASE ReadCodepoint
  <2>1. PICK r : r = ReadUtf8(View, rpos)
    OBVIOUS
  <2>2. r.rc = "OK" /\ codepoint' = <<r.val, rpos, r.pos>>
    BY <1>2, <2>1 DEF ReadCodepoint
  <2>3. PICK p \in Nat : p = rpos
    BY ViewIs
  <2>4. PICK b \in Seq(Bit) : b = View
    BY ViewIs
  <2>5. Read(ReadUtf8(b, p))
    BY <2>1, <2>2, <2>3, <2>4 DEF Read
  <2>6. PICK e, v : Spelled(b, p, e, v)
    BY <2>5, OneSpellingRead
  <2>7. ReadUtf8(b, p) = Ok(v, e)
    BY <2>6 DEF Spelled
  <2>8. r.val = v /\ r.pos = e
    BY <2>1, <2>3, <2>4, <2>7, OksAre
  <2>9. codepoint' = <<v, p, e>>
    BY <2>2, <2>3, <2>8
  <2>10. View' = b /\ phase' = "read"
    BY <1>2, <2>4 DEF ReadCodepoint, Reading, View, fileVars
  <2>11. Spelled(View', p, e, v)
    BY <2>6, <2>10
  <2> QED
    BY <2>9, <2>10, <2>11 DEF SpellInv
<1>3. CASE UNCHANGED <<phase, file, rlen, codepoint>>
  BY <1>3 DEF SpellInv, View
<1>4. CASE phase # "read" /\ UNCHANGED codepoint
  <2>1. codepoint = <<>>
    BY <1>4 DEF FileInv
  <2> QED
    BY <1>1, <1>4, <2>1
<1>5. CASE ReadItem \/ ReadDirect
  BY <1>3, <1>5 DEF ReadItem, ReadDirect, fileVars
<1>6. CASE (\E n \in 0..fileLen : CreateReader(n)) \/ ToReader \/ CloseReader
  BY <1>1, <1>6 DEF CreateReader, ToReader, CloseReader
<1>7. CASE OpenProgram \/ WriteAgain \/ Grow \/ WriteCall \/ Refuse \/ RefuseItem \/ GiveUp \/ Detach
           \/ DetachFails \/ CloseWriter \/ StoreFile
  BY <1>4, <1>7 DEF OpenProgram, OpenWriter, WriteAgain, Grow, WriteCall, Refuse, RefuseItem, GiveUp, Detach,
                    DetachFails, CloseWriter, StoreFile, Writing, Finished, readVars
<1> QED
  BY <1>2, <1>5, <1>6, <1>7 DEF IOStep

\* The invariant is kept by every step of the writer and of the reader.
LEMMA IOKeeps ==
    ASSUME IOInv, IOStep
    PROVE  IOInv'
<1>1. WriterInv' /\ Idle'
  BY IOWriterStep, WriterStepKeeps DEF IOInv
<1>2. ProgInv' /\ FileInv' /\ SpellInv'
  BY ProgKeeps, FileKeeps, SpellKeeps DEF IOInv
<1> QED
  BY <1>1, <1>2 DEF IOInv

LEMMA IOStutters ==
    ASSUME IOInv, UNCHANGED ioVars
    PROVE  IOInv'
<1>1. UNCHANGED writerVars /\ UNCHANGED <<phase, prog, at, calls, file, fileLen, rpos, rlen, got, codepoint>>
  BY DEF ioVars, itemVars, fileVars, readVars
<1>2. WriterInv' /\ Idle'
  BY <1>1, WriterStepKeeps DEF IOInv
<1>3. ProgInv' /\ FileInv' /\ SpellInv'
  BY <1>1 DEF IOInv, ProgInv, Current, FileInv, SpellInv, View
<1> QED
  BY <1>2, <1>3 DEF IOInv

\* What the last code point was read from is its only spelling.
LEMMA SpellingIs ==
    ASSUME FileInv, SpellInv
    PROVE  OneSpelling
<1> SUFFICES ASSUME codepoint # <<>>, codepoint[1] <= LastCodepoint
             PROVE  ~Surrogate(codepoint[1]) /\ SubSeq(file, codepoint[2] + 1, codepoint[3]) = Bytes(Utf8(codepoint[1]))
  BY DEF OneSpelling
<1>1. PICK p, e, v : codepoint = <<v, p, e>> /\ p \in Nat /\ Spelled(View, p, e, v)
  BY DEF SpellInv
<1>2. codepoint[1] = v /\ codepoint[2] = p /\ codepoint[3] = e
  BY <1>1
<1>3. ~Surrogate(v) /\ SubSeq(View, p + 1, e) = Bytes(Utf8(v)) /\ e \in Nat /\ p < e /\ e <= Len(View)
  BY <1>1, <1>2 DEF Spelled
<1>4. PICK f : f = file
  OBVIOUS
<1>5. f \in Seq(Bit) /\ fileLen \in 0..Len(f) /\ rlen \in 0..fileLen
  BY <1>4 DEF FileInv, BitStrings, Bit
<1>6. PICK n \in Nat : n = rlen
  BY ViewIs
<1>7. e <= n /\ n <= Len(f) /\ Len(f) \in Nat
  BY <1>3, <1>5, <1>6, ViewIs
<1>8. SubSeq(SubSeq(f, 1, n), p + 1, e) = SubSeq(f, p + 1, e)
  <2>1. /\ 1 \in 1..Len(f) /\ n \in 1..Len(f) /\ p + 1 \in 1..n - 1 + 1 /\ e \in 1..n - 1 + 1
        /\ 1 + (p + 1) - 1 = p + 1 /\ 1 + e - 1 = e
    BY <1>1, <1>3, <1>7
  <2> QED
    BY <1>5, <2>1, SubSeqOfSubSeq
<1>9. View = SubSeq(f, 1, n)
  BY <1>4, <1>6 DEF View
<1> QED
  BY <1>2, <1>3, <1>4, <1>8, <1>9

LEMMA IONextIs ==
    ASSUME IONext
    PROVE  IOStep
<1>1. CASE \E items \in Programs, initial \in Caps, g \in Growths : OpenWriter(items, initial, g)
  <2>1. PICK items \in Programs, initial \in Caps, g \in Growths : OpenWriter(items, initial, g)
    BY <1>1
  <2>2. IsProgram(items) /\ initial \in Nat /\ g \in Nat
    BY ProgramsAssumption, WriterAssumption
  <2>3. OpenProgram
    BY ONLY <2>1, <2>2, Zenon DEF OpenProgram
  <2> QED
    BY <2>3 DEF IOStep
<1>2. CASE ~\E items \in Programs, initial \in Caps, g \in Growths : OpenWriter(items, initial, g)
  BY <1>2 DEF IONext, IOStep
<1> QED
  BY <1>1, <1>2

\* A code point that tp_bs_read_utf8 accepts, wherever in whatever was written, has no
\* spelling but the one that tp_bs_write_utf8 gives it.
THEOREM SpellingAlwaysOne == IOSpec => []OneSpelling
<1>1. IOInv /\ [IONext]_ioVars => IOInv'
  BY IONextIs, IOKeeps, IOStutters
<1>2. IOInv => OneSpelling
  BY SpellingIs DEF IOInv
<1> QED
  BY IOStarts, <1>1, <1>2, PTL DEF IOSpec

\* Whatever is read as whatever, and wherever it fails: no read moves the reader out of
\* the part of the buffer that it was given.
THEOREM ReaderAlwaysInside == IOSpec => [](rpos \in 0..rlen /\ rlen <= Len(file))
<1>1. IOInv /\ [IONext]_ioVars => IOInv'
  BY IONextIs, IOKeeps, IOStutters
<1>2. IOInv => rpos \in 0..rlen /\ rlen <= Len(file)
  <2> SUFFICES ASSUME FileInv PROVE rlen <= Len(file)
    BY DEF IOInv, FileInv
  <2>1. PICK n \in Nat : n = Len(file)
    BY DEF FileInv, BitStrings
  <2>2. PICK m \in 0..n : m = fileLen
    BY <2>1 DEF FileInv
  <2>3. rlen \in 0..m
    BY <2>2 DEF FileInv
  <2> QED
    BY <2>1, <2>3
<1> QED
  BY IOStarts, <1>1, <1>2, PTL DEF IOSpec

-----------------------------------------------------------------------------
(* What was written is read back *)

\* While a program is written its items stand one behind the other in what was written,
\* when it is complete they stand in the file, and the answers of the reader are theirs.
BackInv ==
    /\ phase = "write" => Progress(written, at, calls, prog, PlacesOf(prog))
    /\ phase \in {"detached", "read"} => Whole(file, fileLen, prog, PlacesOf(prog))
    /\ phase = "read" => Answers(got, rpos, rlen, prog, PlacesOf(prog))

\* The bits of the writer's buffer, and of what it hands over.
LEMMA HandedOverExact ==
    ASSUME WriterInv
    PROVE  wpos = Len(written) /\ (\A i \in 1..wpos : mem[i] = written[i]) /\ \A i \in 1..wpos : Detached[i] = written[i]
<1>1. /\ mem \in BitStrings /\ wpos = Len(written) /\ wpos \in Nat /\ cap \in Nat /\ Len(mem) = 8 * cap /\ wpos <= 8 * cap
      /\ \A i \in 1..Len(mem) : mem[i] = IF i <= wpos THEN written[i] ELSE 0
  BY DEF WriterInv, WriterExact
<1>2. ASSUME NEW i \in 1..wpos PROVE mem[i] = written[i]
  <2>1. i \in 1..Len(mem) /\ i <= wpos
    BY ONLY <1>1, i \in 1..wpos
  <2> QED
    BY ONLY <1>1, <2>1
<1>3. PICK n : n = 8 * NeededBytes(0)
  OBVIOUS
<1>4. n \in Nat /\ wpos <= n /\ n <= Len(mem)
  BY ONLY <1>1, <1>3 DEF NeededBytes
<1>5. PICK s : s = mem
  OBVIOUS
<1>6. s \in Seq(Bit) /\ n <= Len(s)
  BY ONLY <1>1, <1>4, <1>5 DEF BitStrings, Bit
<1>7. SubSeq(s, 1, n) = [i \in 1..n |-> s[i]]
  <2>1. SubSeq(s, 1, n) = [i \in 1..n - 1 + 1 |-> s[i + 1 - 1]]
    BY ONLY <1>4, <1>6
  <2>2. n - 1 + 1 = n /\ \A i \in 1..n : i + 1 - 1 = i
    BY ONLY <1>4
  <2> QED
    BY ONLY <2>1, <2>2
<1>8. Detached = SubSeq(s, 1, n)
  BY ONLY <1>3, <1>5 DEF Detached
<1>9. ASSUME NEW i \in 1..wpos PROVE Detached[i] = written[i]
  <2>1. i \in 1..n
    BY ONLY <1>1, <1>4, i \in 1..wpos
  <2> QED
    BY ONLY <1>2, <1>5, <1>7, <1>8, <2>1, i \in 1..wpos
<1> QED
  BY <1>1, <1>2, <1>9

LEMMA BackStarts == IOInit => BackInv
  BY DEF IOInit, BackInv

\* A call writes the next run of the program.
LEMMA BackWritten ==
    ASSUME IOInv, BackInv, WriteCall
    PROVE  BackInv'
<1>1. /\ phase = "write" /\ phase' = "write" /\ prog' = prog /\ at < Len(prog) /\ at \in Nat /\ Writing
      /\ ~Refused(Current) /\ IsProgram(prog)
  BY DEF WriteCall, Writing, IOInv, ProgInv
<1>2. PICK items : items = prog
  OBVIOUS
<1>3. PICK f : f = PlacesOf(items)
  OBVIOUS
<1>4. PICK m \in Nat : m = at
  BY <1>1
<1>5. PICK it : it = items[m + 1]
  OBVIOUS
<1>6. Current = it
  BY ONLY <1>2, <1>4, <1>5 DEF Current
<1>7. PICK w \in Seq(Bit) : w = written
  BY DEF IOInv, WriterInv, BitStrings, Bit
<1>8. PICK more : more = calls
  OBVIOUS
<1>9. Progress(w, m, more, items, f)
  BY ONLY <1>1, <1>2, <1>3, <1>4, <1>7, <1>8, BackInv DEF BackInv
<1>10. it.kind # "ALIGN" => more \in Calls /\ Head(more) \in BitStrings
  BY <1>1, <1>6, <1>8, CurrentIs DEF IOInv
<1>11. Padding = PadTo8(Len(w)) /\ Len(w) \in Nat
  <2>1. wpos = Len(w)
    BY <1>7 DEF IOInv, WriterInv, WriterExact
  <2> QED
    BY ONLY <2>1, w \in Seq(Bit) DEF Padding, PadTo8
<1>12. PICK v : v = written'
  OBVIOUS
<1>13. PICK x \in Seq(Bit) : /\ Joins(v, w, x)
                             /\ it.kind = "ALIGN" => Len(x) = PadTo8(Len(w))
                             /\ it.kind # "ALIGN" => more \in Calls /\ x = Head(more)
  <2>1. CASE it.kind = "ALIGN"
    <3>1. AlignPiece
      BY <1>6, <2>1 DEF WriteCall
    <3>2. PICK n \in Nat : n = Padding
      BY ONLY <1>11, PadIs
    <3>3. Cleared(n) \in BitStrings /\ Len(Cleared(n)) = n
      BY ONLY n \in Nat, ClearedBits
    <3>4. Joins(v, w, Cleared(n))
      BY ONLY <1>7, <1>12, <3>1, <3>2 DEF AlignPiece, Joins
    <3>5. Cleared(n) \in Seq(Bit)
      BY ONLY <3>3 DEF BitStrings, Bit
    <3> QED
      BY ONLY <1>11, <2>1, <3>2, <3>3, <3>4, <3>5
  <2>2. CASE it.kind # "ALIGN"
    <3>1. WritePiece(Head(calls))
      BY <1>6, <2>2 DEF WriteCall
    <3>2. Joins(v, w, Head(more))
      BY ONLY <1>7, <1>8, <1>12, <3>1 DEF WritePiece, Joins
    <3>3. Head(more) \in Seq(Bit)
      BY ONLY <1>10, <2>2 DEF BitStrings, Bit
    <3> QED
      BY ONLY <1>10, <2>2, <3>2, <3>3
  <2> QED
    BY ONLY <2>1, <2>2
<1>14. IF Len(more) > 1 THEN Progress(v, m, Tail(more), items, f)
       ELSE Progress(v, m + 1, CallsAt(items, m + 2), items, f)
  <2>1. IsProgram(items) /\ m < Len(items) /\ ~Refused(it)
    BY ONLY <1>1, <1>2, <1>4, <1>6
  <2> QED
    BY ONLY <1>3, <1>5, <1>9, <1>13, <2>1, m \in Nat, w \in Seq(Bit), x \in Seq(Bit), ProgressByCall
<1>15. Progress(v, at', calls', items, f)
  <2>1. CASE Len(more) > 1
    <3>1. at' = m /\ calls' = Tail(more)
      BY <1>4, <1>8, <2>1 DEF WriteCall
    <3> QED
      BY ONLY <1>14, <2>1, <3>1
  <2>2. CASE ~(Len(more) > 1)
    <3>1. NextItem
      BY <1>8, <2>2 DEF WriteCall
    <3>2. DOMAIN items = 1..Len(items)
      BY ONLY <1>1, <1>2 DEF IsProgram
    <3>3. calls' = CallsAt(items, m + 2) /\ at' = m + 1
      BY ONLY <1>2, <1>4, <3>1, <3>2 DEF NextItem, CallsAt
    <3> QED
      BY ONLY <1>14, <2>2, <3>3
  <2> QED
    BY ONLY <2>1, <2>2
<1>16. Progress(written', at', calls', prog', PlacesOf(prog'))
  BY ONLY <1>1, <1>2, <1>3, <1>12, <1>15
<1> QED
  BY ONLY <1>1, <1>16 DEF BackInv

\* A reader begins.
LEMMA NoAnswers ==
    ASSUME NEW items, IsProgram(items), NEW l
    PROVE  Answers(<<>>, 0, l, items, PlacesOf(items))
<1>1. PICK f : f = PlacesOf(items)
  OBVIOUS
<1>2. f[0] = 0
  BY ONLY <1>1, IsProgram(items), PlacesExist DEF Places
<1>3. PICK a : a = <<>> /\ Len(a) = 0
  OBVIOUS
<1>4. Len(items) \in Nat
  BY DEF IsProgram
<1>5. Len(a) <= Len(items) /\ \A k \in 1..Len(a) : FALSE
  BY ONLY <1>3, <1>4
<1>6. Answers(a, 0, l, items, f)
  BY ONLY <1>2, <1>3, <1>5, Zenon DEF Answers
<1> QED
  BY ONLY <1>1, <1>3, <1>6

\* The complete buffer is handed over, or looked at.
LEMMA BackWhole ==
    ASSUME IOInv, BackInv, Finished, NEW b, b \in {mem, Detached}
    PROVE  Whole(b, wpos, prog, PlacesOf(prog)) /\ IsProgram(prog)
<1>1. phase = "write" /\ at = Len(prog) /\ IsProgram(prog)
  BY DEF Finished, IOInv, ProgInv
<1>2. PICK items : items = prog
  OBVIOUS
<1>3. PICK f : f = PlacesOf(items)
  OBVIOUS
<1>4. PICK w \in Seq(Bit) : w = written
  BY DEF IOInv, WriterInv, BitStrings, Bit
<1>5. PICK more : more = calls
  OBVIOUS
<1>6. Progress(w, Len(items), more, items, f)
  BY ONLY <1>1, <1>2, <1>3, <1>4, <1>5, BackInv DEF BackInv
<1>7. PICK l : l = wpos
  OBVIOUS
<1>8. l = Len(w) /\ \A i \in 1..l : b[i] = w[i]
  BY <1>4, <1>7, HandedOverExact DEF IOInv
<1>9. b \in BitStrings /\ l \in 0..Len(b)
  BY <1>7, HandedOver DEF IOInv
<1>10. b \in Seq(Bit)
  BY ONLY <1>9 DEF BitStrings, Bit
<1>11. Whole(b, l, items, f)
  BY ONLY <1>1, <1>2, <1>3, <1>6, <1>8, <1>9, <1>10, w \in Seq(Bit), WholeIs
<1> QED
  BY ONLY <1>1, <1>2, <1>3, <1>7, <1>11

\* An item is read.
LEMMA BackRead ==
    ASSUME IOInv, BackInv, ReadItem \/ ReadDirect
    PROVE  BackInv'
<1>1. /\ phase = "read" /\ Len(got) < Len(prog) /\ \A k \in DOMAIN got : got[k].rc = "OK"
      /\ UNCHANGED <<phase, prog, file, fileLen, rlen>>
  BY DEF ReadItem, ReadDirect, Reading, itemVars, fileVars
<1>2. IsProgram(prog)
  BY <1>1 DEF IOInv, ProgInv
<1>3. PICK items : items = prog
  OBVIOUS
<1>4. PICK f : f = PlacesOf(items)
  OBVIOUS
<1>5. PICK b : b = file
  OBVIOUS
<1>6. PICK whole : whole = fileLen
  OBVIOUS
<1>7. PICK l : l = rlen
  OBVIOUS
<1>8. b \in Seq(Bit) /\ whole \in 0..Len(b) /\ l \in 0..whole
  BY ONLY <1>5, <1>6, <1>7, IOInv DEF IOInv, FileInv, BitStrings, Bit
<1>9. l \in 0..Len(b)
  <2>1. Len(b) \in Nat
    BY ONLY <1>8
  <2> QED
    BY ONLY <1>8, <2>1
<1>10. PICK a : a = got
  OBVIOUS
<1>11. a = [k \in 1..Len(a) |-> a[k]] /\ Len(a) \in Nat
  BY ONLY <1>10, IOInv DEF IOInv, FileInv
<1>12. PICK m \in Nat : m = Len(a)
  BY ONLY <1>11
<1>13. PICK v : v = View
  OBVIOUS
<1>14. v \in Seq(Bit) /\ Len(v) = l /\ rpos \in 0..Len(v)
  BY ONLY <1>7, <1>13, IOInv, ViewIs DEF IOInv
<1>15. v = SubSeq(b, 1, l)
  BY ONLY <1>5, <1>7, <1>13 DEF View
<1>16. PICK p : p = rpos
  OBVIOUS
<1>17. Whole(b, whole, items, f) /\ Answers(a, p, l, items, f)
  BY ONLY <1>1, <1>3, <1>4, <1>5, <1>6, <1>7, <1>10, <1>16, BackInv DEF BackInv
<1>18. PICK it : it = items[m + 1]
  OBVIOUS
<1>19. PICK r : Result(r) /\ ReadBy(r, it, v, p)
  <2>1. CASE ReadItem
    <3>1. Result(ReadAs(it, v, p))
      BY ONLY <1>3, <1>10, <1>12, <1>13, <1>16, <1>18, <2>1 DEF ReadItem
    <3> QED
      BY ONLY <3>1, Zenon DEF ReadBy
  <2>2. CASE ReadDirect
    <3>1. it.kind = "BYTES" /\ p % 8 = 0 /\ Result(ReadBytes(v, p, Len(it.content)))
      BY ONLY <1>3, <1>10, <1>12, <1>13, <1>16, <1>18, <2>2 DEF ReadDirect
    <3> QED
      BY ONLY <3>1, Zenon DEF ReadBy
  <2> QED
    BY <2>1, <2>2
<1>20. PICK new : new = got'
  OBVIOUS
<1>21. rpos' = r.pos /\ new = Append(a, [rc |-> r.rc, val |-> r.val])
  BY ONLY <1>10, <1>19, <1>20 DEF Result
<1>22. Answers(new, r.pos, l, items, f)
  <2>1. m < Len(items) /\ IsProgram(items)
    BY ONLY <1>1, <1>2, <1>3, <1>10, <1>12
  <2>2. Given(a, m)
    <3>1. DOMAIN a = 1..Len(a)
      BY ONLY <1>11
    <3> QED
      BY ONLY <1>1, <1>10, <1>11, <1>12, <3>1 DEF Given
  <2>3. p \in 0..Len(v)
    BY ONLY <1>14, <1>16
  <2>4. b \in Seq(Bit) /\ v \in Seq(Bit) /\ Len(v) = l
    BY ONLY <1>8, <1>14
  <2> QED
    BY ONLY <1>4, <1>9, <1>15, <1>17, <1>18, <1>19, <1>21, <2>1, <2>2, <2>3, <2>4, m \in Nat, AnswerMore
<1>23. Whole(file', fileLen', prog', PlacesOf(prog')) /\ Answers(got', rpos', rlen', prog', PlacesOf(prog'))
  BY ONLY <1>1, <1>3, <1>4, <1>5, <1>6, <1>7, <1>17, <1>20, <1>21, <1>22
<1> QED
  BY ONLY <1>1, <1>23 DEF BackInv

LEMMA BackKeeps ==
    ASSUME IOInv, BackInv, IOStep
    PROVE  BackInv'
<1>1. ASSUME NEW items, IsProgram(items), Begin(items), phase' = "write", written' = <<>>
      PROVE  BackInv'
  <2>1. prog' = items /\ at' = 0 /\ calls' = CallsOf(items[1])
    BY ONLY <1>1 DEF Begin
  <2>2. Progress(<<>>, 0, CallsOf(items[1]), items, PlacesOf(items))
    BY ONLY <1>1, ProgressStarts
  <2>3. Progress(written', at', calls', prog', PlacesOf(prog'))
    BY ONLY <1>1, <2>1, <2>2
  <2> QED
    BY ONLY <1>1, <2>3 DEF BackInv
<1>2. CASE OpenProgram
  BY <1>1, <1>2 DEF OpenProgram, OpenWriter, CreateWriter
<1>3. CASE WriteAgain
  <2>1. IsProgram(prog)
    BY <1>3 DEF WriteAgain, IOInv, ProgInv
  <2> QED
    BY <1>1, <1>3, <2>1 DEF WriteAgain, writerVars
<1>4. CASE Grow
  <2>1. UNCHANGED <<phase, prog, at, calls, written>> /\ phase = "write"
    BY <1>4 DEF Grow, Writing, itemVars, BeginGrowth, GrowTurn, Realloc
  <2>2. Progress(written', at', calls', prog', PlacesOf(prog'))
    BY ONLY <2>1, BackInv DEF BackInv
  <2> QED
    BY ONLY <2>1, <2>2 DEF BackInv
<1>5. CASE WriteCall
  BY <1>5, BackWritten
<1>6. CASE Detach
  <2>1. Finished /\ phase' = "detached" /\ file' = Detached /\ fileLen' = wpos /\ prog' = prog
    BY <1>6 DEF Detach, itemVars
  <2>2. Whole(Detached, wpos, prog, PlacesOf(prog))
    BY <2>1, BackWhole
  <2>3. Whole(file', fileLen', prog', PlacesOf(prog'))
    BY ONLY <2>1, <2>2
  <2> QED
    BY ONLY <2>1, <2>3 DEF BackInv
<1>7. CASE ToReader
  <2>1. /\ Finished /\ phase' = "read" /\ file' = mem /\ fileLen' = wpos /\ prog' = prog
        /\ rpos' = 0 /\ got' = <<>>
    BY <1>7 DEF ToReader, itemVars
  <2>2. Whole(mem, wpos, prog, PlacesOf(prog)) /\ IsProgram(prog)
    BY <2>1, BackWhole
  <2>3. Whole(file', fileLen', prog', PlacesOf(prog'))
    BY ONLY <2>1, <2>2
  <2>4. PICK l : l = rlen'
    OBVIOUS
  <2>5. Answers(<<>>, 0, l, prog, PlacesOf(prog))
    BY ONLY <2>2, NoAnswers
  <2>6. Answers(got', rpos', rlen', prog', PlacesOf(prog'))
    BY ONLY <2>1, <2>4, <2>5
  <2> QED
    BY ONLY <2>1, <2>3, <2>6 DEF BackInv
<1>8. CASE \E n \in 0..fileLen : CreateReader(n)
  <2>1. /\ phase = "detached" /\ phase' = "read" /\ UNCHANGED <<file, fileLen, prog>> /\ rpos' = 0 /\ got' = <<>>
    BY <1>8 DEF CreateReader, itemVars, fileVars
  <2>2. Whole(file', fileLen', prog', PlacesOf(prog'))
    BY ONLY <2>1, BackInv DEF BackInv
  <2>3. IsProgram(prog)
    BY <2>1 DEF IOInv, ProgInv
  <2>4. PICK l : l = rlen'
    OBVIOUS
  <2>5. Answers(<<>>, 0, l, prog, PlacesOf(prog))
    BY ONLY <2>3, NoAnswers
  <2>6. Answers(got', rpos', rlen', prog', PlacesOf(prog'))
    BY ONLY <2>1, <2>4, <2>5
  <2> QED
    BY ONLY <2>1, <2>2, <2>6 DEF BackInv
<1>9. CASE ReadItem \/ ReadDirect
  BY <1>9, BackRead
<1>10. CASE CloseWriter
  <2>1. phase = "detached" /\ UNCHANGED <<phase, prog, file, fileLen>>
    BY <1>10 DEF CloseWriter, itemVars, fileVars
  <2>2. Whole(file', fileLen', prog', PlacesOf(prog'))
    BY ONLY <2>1, BackInv DEF BackInv
  <2> QED
    BY ONLY <2>1, <2>2 DEF BackInv
<1>11. CASE ReadCodepoint
  <2>1. phase = "read" /\ UNCHANGED <<phase, prog, file, fileLen, rlen, rpos, got>>
    BY <1>11 DEF ReadCodepoint, Reading, itemVars, fileVars
  <2>2. Whole(file', fileLen', prog', PlacesOf(prog')) /\ Answers(got', rpos', rlen', prog', PlacesOf(prog'))
    BY ONLY <2>1, BackInv DEF BackInv
  <2> QED
    BY ONLY <2>1, <2>2 DEF BackInv
<1>12. CASE Refuse \/ RefuseItem \/ GiveUp \/ DetachFails \/ CloseReader \/ StoreFile
  <2>1. phase' \notin {"write", "detached", "read"}
    BY <1>12 DEF Refuse, RefuseItem, GiveUp, DetachFails, CloseReader, StoreFile
  <2> QED
    BY ONLY <2>1 DEF BackInv
<1> QED
  BY <1>2, <1>3, <1>4, <1>5, <1>6, <1>7, <1>8, <1>9, <1>10, <1>11, <1>12 DEF IOStep

LEMMA BackStutters ==
    ASSUME BackInv, UNCHANGED ioVars
    PROVE  BackInv'
<1>1. UNCHANGED <<phase, prog, at, calls, file, fileLen, rpos, rlen, got, written>>
  BY DEF ioVars, itemVars, fileVars, readVars, writerVars
<1> QED
  BY ONLY <1>1, BackInv DEF BackInv

LEMMA BackIsRead ==
    ASSUME IOInv, BackInv
    PROVE  ReadBack
<1> SUFFICES ASSUME phase = "read", NEW k \in DOMAIN got
             PROVE  IF End(k) <= rlen THEN got[k].rc = "OK" /\ got[k].val = Expected(prog[k]) ELSE got[k].rc = "EOF"
  BY DEF ReadBack
<1>1. IsProgram(prog)
  BY DEF IOInv, ProgInv
<1>2. Answers(got, rpos, rlen, prog, PlacesOf(prog))
  BY ONLY BackInv, phase = "read" DEF BackInv
<1>3. got = [i \in 1..Len(got) |-> got[i]] /\ Len(got) \in Nat
  BY DEF IOInv, FileInv
<1>4. k \in 1..Len(got)
  BY ONLY <1>3, k \in DOMAIN got
<1>5. k \in 0..Len(prog)
  <2>1. Len(got) <= Len(prog) /\ Len(prog) \in Nat
    BY ONLY <1>1, <1>2 DEF Answers, IsProgram
  <2> QED
    BY ONLY <1>3, <1>4, <2>1
<1>6. End(k) = PlacesOf(prog)[k]
  BY ONLY <1>1, <1>5, EndIs
<1>7. Answer(got[k], prog[k], PlacesOf(prog)[k], rlen)
  BY ONLY <1>2, <1>4 DEF Answers
<1> QED
  BY ONLY <1>6, <1>7 DEF Answer

\* Items of every kind come back in order with their values, however the buffer grew,
\* whatever was refused and begun again, and wherever the part that the reader is given ends.
THEOREM AlwaysReadBack == IOSpec => []ReadBack
<1>1. IOInv /\ BackInv /\ [IONext]_ioVars => IOInv' /\ BackInv'
  BY IONextIs, IOKeeps, IOStutters, BackKeeps, BackStutters
<1>2. IOInv /\ BackInv => ReadBack
  BY BackIsRead
<1> QED
  BY IOStarts, BackStarts, <1>1, <1>2, PTL DEF IOSpec

-----------------------------------------------------------------------------
(* The file that the trie writer describes *)

\* A register of the CRC.
Registers == [1..32 -> Bit]

LEMMA CrcStepType ==
    ASSUME NEW crc \in Registers, NEW bit
    PROVE  CrcStep(crc, bit) \in Registers
<1>1. PICK s : s = Append(Tail(crc), 0)
  OBVIOUS
<1>2. crc \in Seq(Bit) /\ Len(crc) = 32
  <2>1. crc = [k \in 1..32 |-> crc[k]] /\ \A k \in 1..32 : crc[k] \in Bit
    BY DEF Registers
  <2> QED
    BY ONLY <2>1
<1>3. s \in Seq(Bit) /\ Len(s) = 32
  <2>1. PICK B : B = Bit
    OBVIOUS
  <2>2. 0 \in B
    BY <2>1 DEF Bit
  <2>3. Tail(crc) \in Seq(B) /\ Len(Tail(crc)) = 31
    <3>1. crc \in Seq(B) /\ Len(crc) = 32
      BY <1>2, <2>1
    <3>2. crc # <<>>
      <4> SUFFICES ASSUME crc = <<>> PROVE FALSE
        OBVIOUS
      <4>1. Len(crc) = 0
        BY EmptySeq
      <4> QED
        BY <3>1, <4>1
    <3>3. Tail(crc) \in Seq(B) /\ Len(Tail(crc)) = Len(crc) - 1
      BY <3>1, <3>2, HeadTailProperties
    <3> QED
      BY <3>1, <3>3
  <2>4. s \in Seq(B) /\ Len(s) = 31 + 1
    BY ONLY <1>1, <2>2, <2>3
  <2> QED
    BY <2>1, <2>4
<1>4. s \in Registers
  <2>1. s = [k \in 1..32 |-> s[k]]
    BY <1>3
  <2>2. \A k \in 1..32 : s[k] \in Bit
    BY <1>3, ElementOfSeq
  <2> QED
    BY ONLY <2>1, <2>2 DEF Registers
<1>5. \A k \in 1..32 : s[k] \in 0..1 /\ CrcPolynomial[k] \in 0..1
  <2>1. \A k \in 1..32 : s[k] \in 0..1
    BY <1>4 DEF Registers, Bit
  <2>2. CrcPolynomial \in Seq(0..1) /\ Len(CrcPolynomial) = 32
    BY DEF CrcPolynomial
  <2>3. \A k \in 1..32 : CrcPolynomial[k] \in 0..1
    BY <2>2, ElementOfSeq
  <2> QED
    BY <2>1, <2>3
<1>6. \A k \in 1..32 : (s[k] + CrcPolynomial[k]) % 2 \in Bit
  <2> SUFFICES ASSUME NEW k \in 1..32 PROVE (s[k] + CrcPolynomial[k]) % 2 \in Bit
    OBVIOUS
  <2>1. PICK a \in 0..1, b \in 0..1 : a = s[k] /\ b = CrcPolynomial[k]
    BY <1>5
  <2>2. (a + b) % 2 \in {0, 1}
    BY ONLY a \in 0..1, b \in 0..1
  <2> QED
    BY <2>1, <2>2 DEF Bit
<1>7. [k \in 1..32 |-> (s[k] + CrcPolynomial[k]) % 2] \in Registers
  BY <1>6 DEF Registers
<1>8. CrcStep(crc, bit) = IF crc[1] = bit THEN s ELSE [k \in 1..32 |-> (s[k] + CrcPolynomial[k]) % 2]
  BY <1>1 DEF CrcStep
<1> QED
  BY <1>4, <1>7, <1>8

\* The equation of CrcRange: the register behind the bits x[1]..x[2]-1, from x[3] on.
CrcSpans == Nat \X Nat \X Registers
SpanStep(buf, x, f) ==
    LET lo == x[1]
        hi == x[2]
        mid == (lo + hi) \div 2
    IN  IF hi <= lo THEN x[3]
        ELSE IF hi = lo + 1 THEN CrcStep(x[3], buf[lo - 2 * (lo % 8) + 8])
        ELSE f[<<mid, hi, f[<<lo, mid, x[3]>>]>>]
SpanOf(range, buf) == [x \in CrcSpans |-> SpanStep(buf, x, range)]

\* The two halves of a span are shorter.
LEMMA SpanHalves ==
    ASSUME NEW buf, NEW x \in CrcSpans, NEW f \in [CrcSpans -> Registers]
    PROVE  /\ SpanStep(buf, x, f) \in Registers
           /\ \A g :
                (\A y \in CrcSpans : x[1] < x[2] /\ y[2] - y[1] < x[2] - x[1] => f[y] = g[y])
                  => SpanStep(buf, x, f) = SpanStep(buf, x, g)
<1>1. PICK lo \in Nat, hi \in Nat, crc \in Registers : x = <<lo, hi, crc>>
  BY DEF CrcSpans
<1>2. x[1] = lo /\ x[2] = hi /\ x[3] = crc
  BY <1>1
<1>3. PICK mid : mid = (lo + hi) \div 2
  OBVIOUS
<1>4. SpanStep(buf, x, f) = IF hi <= lo THEN crc
                            ELSE IF hi = lo + 1 THEN CrcStep(crc, buf[lo - 2 * (lo % 8) + 8])
                            ELSE f[<<mid, hi, f[<<lo, mid, crc>>]>>]
  BY <1>2, <1>3 DEF SpanStep
<1>5. ASSUME NEW g
      PROVE  SpanStep(buf, x, g) = IF hi <= lo THEN crc
                                   ELSE IF hi = lo + 1 THEN CrcStep(crc, buf[lo - 2 * (lo % 8) + 8])
                                   ELSE g[<<mid, hi, g[<<lo, mid, crc>>]>>]
  BY <1>2, <1>3 DEF SpanStep
<1>6. mid \in Nat /\ (~(hi <= lo) /\ hi # lo + 1 => lo < mid /\ mid < hi)
  BY <1>3
<1>7. CASE hi <= lo
  BY <1>4, <1>5, <1>7
<1>8. CASE ~(hi <= lo) /\ hi = lo + 1
  <2>1. CrcStep(crc, buf[lo - 2 * (lo % 8) + 8]) \in Registers
    BY CrcStepType
  <2> QED
    BY <1>4, <1>5, <1>8, <2>1
<1>9. CASE ~(hi <= lo) /\ hi # lo + 1
  <2>1. PICK y : y = <<lo, mid, crc>>
    OBVIOUS
  <2>2. y \in CrcSpans /\ y[2] - y[1] < hi - lo
    BY <1>6, <1>9, <2>1 DEF CrcSpans
  <2>3. PICK c \in Registers : c = f[y]
    BY <2>2
  <2>4. PICK z : z = <<mid, hi, c>>
    OBVIOUS
  <2>5. z \in CrcSpans /\ z[2] - z[1] < hi - lo
    BY <1>6, <1>9, <2>4 DEF CrcSpans
  <2>6. SpanStep(buf, x, f) = f[z] /\ f[z] \in Registers
    BY <1>4, <1>9, <2>1, <2>3, <2>4, <2>5
  <2>7. ASSUME NEW g,
               \A w \in CrcSpans : x[1] < x[2] /\ w[2] - w[1] < x[2] - x[1] => f[w] = g[w]
        PROVE  SpanStep(buf, x, g) = f[z]
    <3>1. g[y] = c /\ g[z] = f[z]
      BY <1>2, <1>9, <2>2, <2>3, <2>5, <2>7
    <3> QED
      BY <1>5, <1>9, <2>1, <2>4, <3>1
  <2> QED
    BY <2>6, <2>7
<1> QED
  BY <1>7, <1>8, <1>9

LEMMA CrcRangeIs ==
    ASSUME NEW buf, NEW start
    PROVE  CrcRange(buf, start) = (CHOOSE f : f = SpanOf(f, buf))[<<0, Len(buf), start>>]
  BY DEF CrcRange, CrcSpans, Registers, SpanOf, SpanStep

LEMMA CrcType ==
    ASSUME NEW buf, Len(buf) \in Nat
    PROVE  Crc32(buf) \in Seq(Bit) /\ Len(Crc32(buf)) = 32
<1> DEFINE size == [x \in CrcSpans |-> IF x[1] < x[2] THEN x[2] - x[1] ELSE 0]
           step == [z \in CrcSpans \X [CrcSpans -> Registers] |-> SpanStep(buf, z[1], z[2])]
           R == CHOOSE f : f = SpanOf(f, buf)
<1>1. size \in [CrcSpans -> Nat] /\ \A x \in CrcSpans : x[1] \in Nat /\ x[2] \in Nat
  BY DEF CrcSpans
<1>2. step \in [CrcSpans \X [CrcSpans -> Registers] -> Registers]
  BY SpanHalves
<1>3. ASSUME NEW x \in CrcSpans, NEW f \in [CrcSpans -> Registers], NEW g \in [CrcSpans -> Registers],
             \A y \in CrcSpans : size[y] < size[x] => f[y] = g[y]
      PROVE  step[<<x, f>>] = step[<<x, g>>]
  <2>1. step[<<x, f>>] = SpanStep(buf, x, f) /\ step[<<x, g>>] = SpanStep(buf, x, g)
    OBVIOUS
  <2>2. ASSUME NEW y \in CrcSpans, x[1] < x[2], y[2] - y[1] < x[2] - x[1] PROVE f[y] = g[y]
    <3>1. size[y] < size[x]
      BY <1>1, <2>2
    <3> QED
      BY <1>3, <3>1
  <2>3. SpanStep(buf, x, f) = SpanStep(buf, x, g)
    BY <2>2, SpanHalves
  <2> QED
    BY <2>1, <2>3
<1>4. IsRecursion(step, size, CrcSpans, Registers)
  <2> HIDE DEF step, size
  <2> QED
    BY <1>1, <1>2, <1>3 DEF IsRecursion
<1>5. PICK one \in Registers : one = [k \in 1..32 |-> 1]
  BY DEF Registers, Bit
<1>6. PICK f : IsDefinedBy(f, step, CrcSpans, Registers)
  <2> HIDE DEF step, size
  <2> QED
    BY <1>4, RecursionExists
<1>7. f \in [CrcSpans -> Registers] /\ \A x \in CrcSpans : f[x] = SpanStep(buf, x, f)
  BY <1>6 DEF IsDefinedBy
<1>8. R = SpanOf(R, buf)
  <2>1. f = SpanOf(f, buf)
    BY <1>7 DEF SpanOf
  <2> QED
    BY <2>1
<1> HIDE DEF R
<1>9. \A x \in CrcSpans : R[x] = SpanStep(buf, x, R)
  BY <1>8 DEF SpanOf
\* The two functions agree on ever longer spans.
<1> DEFINE good == {n \in Nat : \A x \in CrcSpans : x[2] - x[1] < n => R[x] = f[x]}
<1>10. 0 \in good
  <2> SUFFICES ASSUME NEW x \in CrcSpans, x[2] - x[1] < 0 PROVE R[x] = f[x]
    OBVIOUS
  <2>1. ~(x[1] < x[2])
    BY <1>1
  <2>2. SpanStep(buf, x, f) = SpanStep(buf, x, R)
    BY <1>7, <2>1, SpanHalves
  <2> QED
    BY <1>7, <1>9, <2>2
<1>11. ASSUME NEW n \in Nat, n \in good PROVE n + 1 \in good
  <2> SUFFICES ASSUME NEW x \in CrcSpans, x[2] - x[1] < n + 1 PROVE R[x] = f[x]
    OBVIOUS
  <2>1. ASSUME NEW y \in CrcSpans, y[2] - y[1] < x[2] - x[1] PROVE f[y] = R[y]
    <3>1. PICK d \in Int, e \in Int : d = y[2] - y[1] /\ e = x[2] - x[1]
      <4>1. x[1] \in Nat /\ x[2] \in Nat /\ y[1] \in Nat /\ y[2] \in Nat
        BY <1>1
      <4> QED
        BY ONLY <4>1
    <3>2. d < n
      BY ONLY <2>1, <3>1, n \in Nat, d \in Int, e \in Int, x[2] - x[1] < n + 1
    <3> QED
      BY <1>11, <3>1, <3>2
  <2>2. SpanStep(buf, x, f) = SpanStep(buf, x, R)
    BY <1>7, <2>1, SpanHalves
  <2> QED
    BY <1>7, <1>9, <2>2
<1>12. \A n \in Nat : n \in good
  <2> HIDE DEF good
  <2> QED
    BY <1>10, <1>11, SetInduction
<1>13. PICK L \in Nat : L = Len(buf)
  OBVIOUS
<1>14. PICK x : x = <<0, L, one>>
  OBVIOUS
<1>15. x \in CrcSpans /\ x[2] - x[1] = L
  BY <1>14 DEF CrcSpans
<1>16. PICK crc \in Registers : crc = R[x]
  <2>1. L + 1 \in good /\ L < L + 1
    BY <1>12
  <2>2. R[x] = f[x]
    BY <1>15, <2>1
  <2> QED
    BY <1>7, <1>15, <2>2
<1>17. CrcRange(buf, one) = crc
  BY <1>13, <1>14, <1>16, CrcRangeIs DEF R
<1>18. Crc32(buf) = [k \in 1..32 |-> 1 - crc[33 - k]]
  BY <1>5, <1>17 DEF Crc32
<1>19. \A k \in 1..32 : 1 - crc[33 - k] \in Bit
  <2> SUFFICES ASSUME NEW k \in 1..32 PROVE 1 - crc[33 - k] \in Bit
    OBVIOUS
  <2>1. 33 - k \in 1..32
    OBVIOUS
  <2>2. crc[33 - k] \in Bit
    BY <2>1 DEF Registers
  <2> QED
    BY <2>2 DEF Bit
<1> QED
  BY ONLY <1>18, <1>19

LEMMA AlignType ==
    ASSUME NEW b \in Seq(Bit)
    PROVE  AlignWriter(b) \in Seq(Bit) /\ Len(AlignWriter(b)) = Len(b) + PadTo8(Len(b))
<1>1. PICK n \in Nat : n = Len(b)
  OBVIOUS
<1>2. PICK z : z = Zeros(PadTo8(n))
  OBVIOUS
<1>3. z \in Seq(Bit) /\ Len(z) = PadTo8(n)
  <2>1. PICK p \in 0..7 : p = PadTo8(n)
    BY PadIs
  <2>2. p \in Nat
    OBVIOUS
  <2> QED
    BY <1>2, <2>1, <2>2, ZerosType
<1>4. b \o z \in Seq(Bit) /\ Len(b \o z) = n + Len(z)
  BY <1>1, <1>3
<1> QED
  BY <1>1, <1>2, <1>3, <1>4 DEF AlignWriter

\* The configuration of a trie.
LEMMA ConfigType ==
    ASSUME NEW E, BytesOnly(E), Len(E) \in Nat, NEW fixed \in Nat
    PROVE  TrieConfig(AnalyzeSymbols(E, fixed)) \in Seq(Bit)
<1> DEFINE used == UsedBytes(E)
<1>2. IsFiniteSet(used) /\ used \in SUBSET Nat
  <2>1. PICK B : B = 0..255
    OBVIOUS
  <2>2. \A x \in B : x \in Nat
    BY <2>1
  <2>3. IsFiniteSet(used) /\ used \in SUBSET B
    BY <2>1, UsedAreFew
  <2> HIDE DEF used
  <2> QED
    BY ONLY <2>2, <2>3
<1>3. PICK sym : sym = AnalyzeSymbols(E, fixed)
  OBVIOUS
<1>4. sym.bps \in Nat
  BY <1>3, AnalyzedFits DEF SymbolsFit
<1>5. sym.count = Cardinality(used) + 6 /\ sym.table = Ascending(used)
  BY <1>3 DEF AnalyzeSymbols, NumControlCodes, UsedBytes
<1> HIDE DEF used
<1>6. PICK n \in Nat : n = Cardinality(used)
  BY <1>2, FS_CardinalityType
<1>7. PICK t : t = Ascending(used)
  OBVIOUS
<1>8. t \in Seq(used) /\ Len(t) = n
  <2>1. used \in SUBSET Int
    BY <1>2
  <2> QED
    BY <1>2, <1>6, <1>7, <2>1, AscendingOrder
<1>9. DOMAIN t = 1..n /\ \A i \in 1..n : t[i] \in Nat
  <2>1. \A i \in 1..n : t[i] \in used
    BY <1>8, ElementOfSeq
  <2>2. \A i \in 1..n : t[i] \in Nat
    BY <1>2, <2>1
  <2>3. DOMAIN t = 1..n
    BY <1>8
  <2> QED
    BY <2>2, <2>3
<1>10. PICK v : v = [i \in 1..n |-> VarintU(t[i])]
  OBVIOUS
<1>11. v \in Seq(Seq(Bit))
  <2>1. PICK V : V = Seq(Bit)
    OBVIOUS
  <2>2. \A i \in 1..n : VarintU(t[i]) \in V
    BY <1>9, <2>1, VarintLength
  <2>3. v \in Seq(V)
    BY ONLY <1>10, <2>2, n \in Nat
  <2> QED
    BY <2>1, <2>3
<1>12. PICK c : c = [k \in 1..6 |-> Bits(k - 1, sym.bps)]
  OBVIOUS
<1>13. c \in Seq(Seq(Bit))
  <2>1. PICK V : V = Seq(Bit)
    OBVIOUS
  <2>2. \A k \in 1..6 : Bits(k - 1, sym.bps) \in V
    BY <1>4, <2>1, BitsType
  <2>3. c \in Seq(V)
    BY ONLY <1>12, <2>2
  <2> QED
    BY <2>1, <2>3
<1>14. TrieConfig(sym) = Bits(sym.bps, 4) \o Bits(sym.count, 8) \o FlattenSeq(c) \o FlattenSeq(v)
  BY <1>5, <1>7, <1>9, <1>10, <1>12 DEF TrieConfig, NumControlCodes
<1>15. PICK p \in Seq(Bit), q \in Seq(Bit), r \in Seq(Bit), s \in Seq(Bit) :
            p = Bits(sym.bps, 4) /\ q = Bits(sym.count, 8) /\ r = FlattenSeq(c) /\ s = FlattenSeq(v)
  <2>1. sym.count \in Int
    BY <1>5, <1>6
  <2>2. Bits(sym.bps, 4) \in Seq(Bit) /\ Bits(sym.count, 8) \in Seq(Bit)
    <3>1. PICK x \in Int : x = sym.bps
      BY <1>4
    <3>2. PICK y \in Int : y = sym.count
      BY <2>1
    <3>3. Bits(x, 4) \in Seq(Bit)
      BY BitsType
    <3>4. Bits(y, 8) \in Seq(Bit)
      BY BitsType
    <3> QED
      BY <3>1, <3>2, <3>3, <3>4
  <2>3. FlattenSeq(c) \in Seq(Bit) /\ FlattenSeq(v) \in Seq(Bit)
    BY <1>11, <1>13, FlattenType
  <2> QED
    BY ONLY <2>2, <2>3
<1>16. p \o q \o r \o s \in Seq(Bit)
  BY ONLY p \in Seq(Bit), q \in Seq(Bit), r \in Seq(Bit), s \in Seq(Bit)
<1> QED
  BY <1>3, <1>14, <1>15, <1>16

-----------------------------------------------------------------------------
(* What the trie writer describes *)

LEMMA BytesAreNumbers ==
    ASSUME NEW s \in Seq(0..255)
    PROVE  s \in Seq(Nat) /\ s \in Seq(Int)
<1>1. PICK B : B = 0..255
  OBVIOUS
<1>2. B \in SUBSET Nat /\ s \in Seq(B)
  <2>1. B \in SUBSET Nat
    BY ONLY <1>1
  <2> QED
    BY <1>1, <2>1
<1>3. PICK n \in Nat : n = Len(s)
  BY <1>2
<1>4. s = [i \in 1..n |-> s[i]] /\ \A i \in 1..n : s[i] \in B
  BY ONLY <1>2, <1>3
<1>5. \A i \in 1..n : s[i] \in Nat
  BY <1>2, <1>4
<1>6. \A i \in 1..n : s[i] \in Int
  BY <1>5
<1>7. s \in Seq(Nat)
  BY ONLY <1>4, <1>5, n \in Nat
<1>8. s \in Seq(Int)
  BY ONLY <1>4, <1>6, n \in Nat
<1> QED
  BY <1>7, <1>8

\* A value is written behind the bits that are there.
LEMMA EncodeValueType ==
    ASSUME NEW buf \in Seq(Bit), NEW v, IsValue(v)
    PROVE  EncodeValue(buf, v) \in Seq(Bit)
<1> DEFINE types == {"NULL", "BOOL", "INT", "UINT", "FLOAT32", "FLOAT64", "STRING", "BLOB"}
<1>1. v.type \in types
  BY DEF IsValue
<1>2. PICK t \in Int : t = Tag[v.type]
  BY <1>1 DEF Tag
<1>3. Bits(t, 4) \in Seq(Bit)
  BY BitsType
<1>4. PICK b \in Seq(Bit) : b = buf \o Bits(Tag[v.type], 4)
  <2>1. PICK p \in Seq(Bit) : p = Bits(Tag[v.type], 4)
    BY <1>2, <1>3
  <2>2. buf \o p \in Seq(Bit)
    OBVIOUS
  <2> QED
    BY <2>1, <2>2
<1>5. CASE v.type = "NULL"
  BY <1>4, <1>5 DEF EncodeValue
<1>6. CASE v.type = "BOOL"
  <2>1. EncodeValue(buf, v) = b \o <<IF v.data THEN 1 ELSE 0>>
    BY <1>4, <1>6 DEF EncodeValue
  <2>2. <<IF v.data THEN 1 ELSE 0>> \in Seq(Bit)
    BY DEF Bit
  <2> QED
    BY <2>1, <2>2
<1>7. CASE v.type = "INT"
  <2>1. EncodeValue(buf, v) = b \o VarintS(v.data)
    BY <1>4, <1>7 DEF EncodeValue
  <2>2. v.data \in Int
    BY <1>7 DEF IsValue
  <2>3. PICK x \in Nat : x = IF v.data < 0 THEN -2 * v.data - 1 ELSE 2 * v.data
    BY <2>2
  <2>4. VarintS(v.data) = VarintU(x)
    BY <2>3 DEF VarintS
  <2>5. PICK y \in Seq(Bit) : y = VarintU(x)
    BY VarintLength
  <2> QED
    BY <2>1, <2>4, <2>5
<1>8. CASE v.type = "UINT"
  <2>1. EncodeValue(buf, v) = b \o VarintU(v.data)
    BY <1>4, <1>8 DEF EncodeValue
  <2>2. PICK x \in Nat : x = v.data
    BY <1>8 DEF IsValue
  <2>3. PICK y \in Seq(Bit) : y = VarintU(x)
    BY VarintLength
  <2> QED
    BY <2>1, <2>2, <2>3
<1>9. CASE v.type \in {"FLOAT32", "FLOAT64"}
  <2>1. EncodeValue(buf, v) = b \o v.data
    BY <1>4, <1>9 DEF EncodeValue
  <2>2. v.data \in Seq(Bit)
    BY <1>9 DEF IsValue
  <2> QED
    BY <2>1, <2>2
<1>10. CASE v.type \in {"STRING", "BLOB"}
  <2>1. EncodeValue(buf, v) = AlignWriter(b \o VarintU(Len(v.data))) \o Bytes(v.data)
    BY <1>4, <1>10 DEF EncodeValue
  <2>2. PICK s : s = v.data
    OBVIOUS
  <2>3. s \in Seq(0..255)
    BY <1>10, <2>2 DEF IsValue
  <2>4. PICK n \in Nat : n = Len(s)
    BY <2>3
  <2>5. PICK y \in Seq(Bit) : y = VarintU(n)
    BY VarintLength
  <2>6. AlignWriter(b \o y) \in Seq(Bit)
    <3>0. b \o y \in Seq(Bit)
      BY ONLY b \in Seq(Bit), y \in Seq(Bit)
    <3>1. PICK c \in Seq(Bit) : c = b \o y
      BY ONLY <3>0
    <3> QED
      BY <3>1, AlignType
  <2>7. s \in Seq(Int)
    BY <2>3, BytesAreNumbers
  <2>8. Bytes(s) \in Seq(Bit)
    BY <2>7, BytesType
  <2>9. AlignWriter(b \o y) \o Bytes(s) \in Seq(Bit)
    BY ONLY <2>6, <2>8
  <2> QED
    BY <2>1, <2>2, <2>4, <2>5, <2>9
<1> QED
  BY <1>1, <1>5, <1>6, <1>7, <1>8, <1>9, <1>10

LEMMA ValueStoreType ==
    ASSUME NEW buf \in Seq(Bit), NEW E, Len(E) \in Nat, \A k \in 1..Len(E) : IsValue(E[k].val)
    PROVE  ValueStore(buf, E) \in Seq(Bit)
<1>1. PICK n \in Nat : n = Len(E)
  OBVIOUS
<1>2. PICK V : V = Seq(Bit)
  OBVIOUS
<1> DEFINE next == [z \in (1..n) \X V |-> EncodeValue(z[2], E[z[1]].val)]
           OfStore(f) == [i \in 0..n |-> IF i = 0 THEN buf ELSE EncodeValue(f[i - 1], E[i].val)]
<1>3. next \in [(1..n) \X V -> V]
  <2> SUFFICES ASSUME NEW z \in (1..n) \X V PROVE EncodeValue(z[2], E[z[1]].val) \in V
    OBVIOUS
  <2>1. z[1] \in 1..n /\ z[2] \in Seq(Bit)
    BY <1>2
  <2>2. IsValue(E[z[1]].val)
    BY <1>1, <2>1
  <2> QED
    BY <1>2, <2>1, <2>2, EncodeValueType
<1>4. PICK f : CountsBy(f, buf, next, n, V)
  <2> HIDE DEF next
  <2> QED
    BY <1>2, <1>3, CountingExists
<1>5. f \in [0..n -> V] /\ f[0] = buf /\ \A k \in 1..n : f[k] = next[<<k, f[k - 1]>>]
  <2> HIDE DEF next
  <2> QED
    BY <1>4 DEF CountsBy
<1>6. f = OfStore(f)
  <2>1. ASSUME NEW k \in 1..n PROVE f[k] = EncodeValue(f[k - 1], E[k].val)
    <3>1. f[k - 1] \in V
      BY <1>5
    <3> QED
      BY <1>5, <3>1
  <2>2. f = [i \in 0..n |-> f[i]]
    BY <1>5
  <2>3. \A i \in 0..n : f[i] = IF i = 0 THEN buf ELSE EncodeValue(f[i - 1], E[i].val)
    <3> SUFFICES ASSUME NEW i \in 0..n, i # 0 PROVE f[i] = EncodeValue(f[i - 1], E[i].val)
      BY <1>5
    <3>1. i \in 1..n
      OBVIOUS
    <3> QED
      BY <2>1, <3>1
  <2> QED
    BY ONLY <2>2, <2>3
<1> DEFINE g == CHOOSE h : h = OfStore(h)
<1>7. g = OfStore(g)
  BY <1>6
<1>8. ValueStore(buf, E) = g[n]
  BY <1>1 DEF ValueStore
<1> HIDE DEF g
<1>9. g[0] = buf /\ \A k \in 1..n : g[k] = EncodeValue(g[k - 1], E[k].val)
  BY <1>7
<1> DEFINE good == {k \in Nat : k <= n => g[k] \in Seq(Bit)}
<1>10. ASSUME NEW k \in Nat, k \in good PROVE k + 1 \in good
  <2> SUFFICES ASSUME k + 1 <= n PROVE g[k + 1] \in Seq(Bit)
    OBVIOUS
  <2>1. k + 1 \in 1..n /\ (k + 1) - 1 = k /\ g[k] \in Seq(Bit)
    BY <1>10
  <2>2. IsValue(E[k + 1].val)
    BY <1>1, <2>1
  <2>3. g[k + 1] = EncodeValue(g[k], E[k + 1].val)
    BY <1>9, <2>1
  <2> QED
    BY <2>1, <2>2, <2>3, EncodeValueType
<1>11. \A k \in Nat : k \in good
  <2>1. 0 \in good
    BY <1>9
  <2> HIDE DEF good
  <2> QED
    BY <1>10, <2>1, SetInduction
<1>12. g[n] \in Seq(Bit)
  BY <1>11
<1> QED
  BY <1>8, <1>12

LEMMA HeaderIs ==
    ASSUME NEW h, h.flags \in Nat, h.num_keys \in Nat, h.trie_data_offset \in Nat,
           h.value_store_offset \in Nat, NEW d \in Nat, h.total_data_bits = d
    PROVE  /\ Run(Header(h), HeaderBits)
           /\ SubSeq(Header(h), 193, 224) = Bits(d, 32)
<1>1. PICK p1 : p1 = Bytes(Magic)
  OBVIOUS
<1>2. PICK p2 : p2 = Bits(VersionMajor, 8)
  OBVIOUS
<1>3. PICK p3 : p3 = Bits(VersionMinor, 8)
  OBVIOUS
<1>4. PICK p4 : p4 = Bits(h.flags, 16)
  OBVIOUS
<1>5. PICK p5 : p5 = Bits(h.num_keys, 32)
  OBVIOUS
<1>6. PICK p6 : p6 = Bits(h.trie_data_offset, 32)
  OBVIOUS
<1>7. PICK p7 : p7 = Bits(h.value_store_offset, 32)
  OBVIOUS
<1>8. PICK p8 : p8 = Bits(0, 32)
  OBVIOUS
<1>9. PICK p9 : p9 = Bits(d, 32)
  OBVIOUS
<1>10. Run(p1, 32)
  <2>1. Magic \in Seq(Int) /\ Len(Magic) = 4
    BY DEF Magic
  <2>2. PICK s \in Seq(Int) : s = Magic /\ Len(s) = 4
    BY <2>1
  <2>3. Bytes(s) \in Seq(Bit) /\ Len(Bytes(s)) = 8 * Len(s)
    BY BytesType
  <2> QED
    BY <1>1, <2>2, <2>3 DEF Run
<1>11. Run(p2, 8)
  <2>1. PICK v \in Int : v = VersionMajor
    BY DEF VersionMajor
  <2>2. Bits(v, 8) \in Seq(Bit) /\ Len(Bits(v, 8)) = 8
    BY BitsType
  <2> QED
    BY <1>2, <2>1, <2>2 DEF Run
<1>12. Run(p3, 8)
  <2>1. PICK v \in Int : v = VersionMinor
    BY DEF VersionMinor
  <2>2. Bits(v, 8) \in Seq(Bit) /\ Len(Bits(v, 8)) = 8
    BY BitsType
  <2> QED
    BY <1>3, <2>1, <2>2 DEF Run
<1>13. Run(p4, 16)
  <2>1. PICK v \in Int : v = h.flags
    OBVIOUS
  <2>2. Bits(v, 16) \in Seq(Bit) /\ Len(Bits(v, 16)) = 16
    BY BitsType
  <2> QED
    BY <1>4, <2>1, <2>2 DEF Run
<1>14. Run(p5, 32)
  <2>1. PICK v \in Int : v = h.num_keys
    OBVIOUS
  <2>2. Bits(v, 32) \in Seq(Bit) /\ Len(Bits(v, 32)) = 32
    BY BitsType
  <2> QED
    BY <1>5, <2>1, <2>2 DEF Run
<1>15. Run(p6, 32)
  <2>1. PICK v \in Int : v = h.trie_data_offset
    OBVIOUS
  <2>2. Bits(v, 32) \in Seq(Bit) /\ Len(Bits(v, 32)) = 32
    BY BitsType
  <2> QED
    BY <1>6, <2>1, <2>2 DEF Run
<1>16. Run(p7, 32)
  <2>1. PICK v \in Int : v = h.value_store_offset
    OBVIOUS
  <2>2. Bits(v, 32) \in Seq(Bit) /\ Len(Bits(v, 32)) = 32
    BY BitsType
  <2> QED
    BY <1>7, <2>1, <2>2 DEF Run
<1>17. Run(p8, 32)
  <2>1. PICK v \in Int : v = 0
    OBVIOUS
  <2>2. Bits(v, 32) \in Seq(Bit) /\ Len(Bits(v, 32)) = 32
    BY BitsType
  <2> QED
    BY <1>8, <2>1, <2>2 DEF Run
<1>18. Run(p9, 32)
  <2>1. PICK v \in Int : v = d
    OBVIOUS
  <2>2. Bits(v, 32) \in Seq(Bit) /\ Len(Bits(v, 32)) = 32
    BY BitsType
  <2> QED
    BY <1>9, <2>1, <2>2 DEF Run
<1>19. PICK x1 : Joins(x1, p1, p2)
  BY DEF Joins
<1>20. Run(x1, 40)
  BY ONLY <1>10, <1>11, <1>19, Joined
<1>21. PICK x2 : Joins(x2, x1, p3)
  BY DEF Joins
<1>22. Run(x2, 48)
  BY ONLY <1>20, <1>12, <1>21, Joined
<1>23. PICK x3 : Joins(x3, x2, p4)
  BY DEF Joins
<1>24. Run(x3, 64)
  BY ONLY <1>22, <1>13, <1>23, Joined
<1>25. PICK x4 : Joins(x4, x3, p5)
  BY DEF Joins
<1>26. Run(x4, 96)
  BY ONLY <1>24, <1>14, <1>25, Joined
<1>27. PICK x5 : Joins(x5, x4, p6)
  BY DEF Joins
<1>28. Run(x5, 128)
  BY ONLY <1>26, <1>15, <1>27, Joined
<1>29. PICK x6 : Joins(x6, x5, p7)
  BY DEF Joins
<1>30. Run(x6, 160)
  BY ONLY <1>28, <1>16, <1>29, Joined
<1>31. PICK x7 : Joins(x7, x6, p8)
  BY DEF Joins
<1>32. Run(x7, 192)
  BY ONLY <1>30, <1>17, <1>31, Joined
<1>33. PICK x8 : Joins(x8, x7, p9)
  BY DEF Joins
<1>34. Run(x8, 224) /\ SubSeq(x8, 193, 224) = p9
  <2>1. Run(x8, 192 + 32)
    BY ONLY <1>32, <1>18, <1>33, Joined
  <2>2. Follows(x8, p9, 192, 32)
    BY ONLY <1>32, <1>18, <1>33, Joined
  <2> QED
    BY ONLY <2>1, <2>2 DEF Follows
<1>35. PICK x9 : Joins(x9, x8, p8)
  BY DEF Joins
<1>36. Run(x9, 256) /\ SubSeq(x9, 193, 224) = SubSeq(x8, 193, 224)
  <2>1. Run(x9, 224 + 32)
    BY ONLY <1>34, <1>17, <1>35, Joined
  <2>3. Begins(x9, x8, 224)
    BY ONLY <1>34, <1>17, <1>35, Joined
  <2>2. SubSeq(x9, 193, 224) = SubSeq(x8, 193, 224)
    BY <2>1, <2>3, <1>34 DEF Run, Begins
  <2> QED
    BY ONLY <2>1, <2>2
<1>37. Header(h) = x9
  BY ONLY <1>1, <1>2, <1>3, <1>4, <1>5, <1>6, <1>7, <1>8, <1>9, <1>19, <1>21, <1>23, <1>25, <1>27,
          <1>29, <1>31, <1>33, <1>35, h.total_data_bits = d DEF Header, Joins
<1> QED
  BY <1>9, <1>34, <1>36, <1>37 DEF HeaderBits

LEMMA TrieBitsType ==
    ASSUME NEW E, E = [k \in 1..Len(E) |-> E[k]], KeysAscend(E), NEW hv, NEW sym, SymbolsFit(E, sym)
    PROVE  TrieBits(E, hv, sym) \in Seq(Bit)
<1>1. CASE E = <<>>
  BY <1>1 DEF TrieBits
<1>2. CASE E # <<>>
  <2>1. PICK n \in Nat : n = Len(E) /\ n >= 1
    <3>1. Len(E) \in Nat
      BY DEF KeysAscend
    <3>2. Len(E) # 0
      <4> SUFFICES ASSUME Len(E) = 0 PROVE FALSE
        OBVIOUS
      <4>1. E = [k \in 1..0 |-> E[k]]
        OBVIOUS
      <4>2. [k \in 1..0 |-> E[k]] = <<>>
        OBVIOUS
      <4> QED
        BY ONLY <1>2, <4>1, <4>2
    <3> QED
      BY <3>1, <3>2
  <2>2. sym.bps \in Nat
    BY DEF SymbolsFit
  <2>3. PICK S : Sizes(S, E, hv, sym.bps)
    BY <2>2, SubtreeSizeIs
  <2>4. PICK x : x = <<1, n + 1, 0, 0>>
    OBVIOUS
  <2>5. x \in Nodes(E) /\ x[1] = 1 /\ x[2] = n + 1 /\ x[3] = 0 /\ x[4] = 0
    <3>1. \A i \in 1..n : Len(E[i].key) >= 0
      <4> SUFFICES ASSUME NEW i \in 1..n PROVE Len(E[i].key) >= 0
        OBVIOUS
      <4>1. E[i].key \in Seq(Nat)
        BY <2>1 DEF KeysAscend
      <4> QED
        BY ONLY <4>1
    <3>2. IsNode(E, 1, n + 1, 0)
      BY <2>1, <3>1 DEF IsNode
    <3> QED
      BY <2>4, <3>2, NodesAreNodes
  <2>6. TrieWrite(E, 1, n + 1, 0, hv, 0, sym) \in Written
    <3>1. WritesSizes(E, hv, sym, S)
      BY <2>3, TrieWriteIs
    <3> QED
      BY <2>5, <3>1 DEF WritesSizes
  <2>7. PICK w \in Written : w = TrieWrite(E, 1, n + 1, 0, hv, 0, sym)
    BY <2>6
  <2>8. w.bits \in Seq(Bit)
    BY WrittenParts
  <2>9. TrieBits(E, hv, sym) = w.bits
    BY <1>2, <2>1, <2>7 DEF TrieBits
  <2> QED
    BY <2>8, <2>9
<1> QED
  BY <1>1, <1>2

\* The shape of a file: header, data, zeros up to a byte, the CRC of all that.
FileShape(body, data, d) ==
    /\ d \in Nat /\ Run(data, d)
    /\ \E h : /\ Run(h, HeaderBits) /\ SubSeq(h, 193, 224) = Bits(d, 32)
              /\ body = h \o AlignWriter(data)

LEMMA BuiltShape ==
    ASSUME NEW E, E = [k \in 1..Len(E) |-> E[k]], KeysAscend(E), BytesOnly(E),
           \A k \in 1..Len(E) : IsValue(E[k].val), Build(E, 0).rc = "OK"
    PROVE  \E body, data, d : FileShape(body, data, d) /\ Build(E, 0).buf = body \o Crc32(body)
<1>1. PICK n \in Nat : n = Len(E)
  BY DEF KeysAscend
<1>2. PICK sym : sym = AnalyzeSymbols(E, 0)
  OBVIOUS
<1>3. SymbolsFit(E, sym)
  BY <1>1, <1>2, AnalyzedFits
<1>4. PICK hv : hv = HasValues(E)
  OBVIOUS
<1>5. PICK trie : trie = TrieBits(E, hv, sym)
  OBVIOUS
<1>6. trie \in Seq(Bit)
  BY <1>3, <1>5, TrieBitsType
<1>7. PICK config : config = TrieConfig(sym)
  OBVIOUS
<1>8. config \in Seq(Bit)
  BY <1>1, <1>2, <1>7, ConfigType
<1>9. PICK both : both = config \o trie
  OBVIOUS
<1>10. both \in Seq(Bit) /\ Len(config) \in Nat /\ Len(trie) \in Nat
  BY ONLY <1>6, <1>8, <1>9
<1>11. PICK data : data = IF hv THEN ValueStore(both, E) ELSE both
  OBVIOUS
<1>12. data \in Seq(Bit)
  <2>1. ValueStore(both, E) \in Seq(Bit)
    BY <1>1, <1>10, ValueStoreType
  <2> QED
    BY <1>10, <1>11, <2>1
<1>13. PICK d \in Nat : d = Len(data)
  BY <1>12
<1> DEFINE fields == [ flags |-> IF hv THEN FlagHasValues ELSE 0,
                       num_keys |-> Len(E),
                       trie_data_offset |-> Len(config),
                       value_store_offset |-> Len(config) + Len(trie),
                       total_data_bits |-> Len(data) ]
<1>14. Run(Header(fields), HeaderBits) /\ SubSeq(Header(fields), 193, 224) = Bits(d, 32)
  <2>1. fields.flags \in Nat /\ fields.num_keys \in Nat /\ fields.trie_data_offset \in Nat
        /\ fields.value_store_offset \in Nat /\ fields.total_data_bits = d
    BY <1>1, <1>10, <1>13 DEF FlagHasValues
  <2> HIDE DEF fields
  <2> QED
    BY <2>1, HeaderIs
<1>15. PICK body : body = Header(fields) \o AlignWriter(data)
  OBVIOUS
<1>16. Body(E, hv, config, trie) = body
  BY <1>9, <1>11, <1>15 DEF Body
<1>17. Build(E, 0).buf = body \o Crc32(body)
  BY <1>2, <1>4, <1>5, <1>7, <1>16 DEF Build, WithCrc
<1>18. FileShape(body, data, d)
  <2> HIDE DEF fields
  <2> QED
    BY <1>12, <1>13, <1>14, <1>15 DEF FileShape, Run
<1> QED
  BY <1>17, <1>18

\* What the writer of a file has to reproduce.
Described(body, d) ==
    /\ d \in Nat /\ Run(body, HeaderBits + d + PadTo8(d))
    /\ original = body \o Crc32(body) /\ DataBits = d
    /\ \A i \in 1..PadTo8(d) : body[HeaderBits + d + i] = 0

LEMMA PaddedIs ==
    ASSUME NEW data, NEW d, Run(data, d)
    PROVE  /\ d \in Nat /\ Run(AlignWriter(data), d + PadTo8(d))
           /\ \A i \in 1..PadTo8(d) : AlignWriter(data)[d + i] = 0
<1>1. data \in Seq(Bit) /\ Len(data) = d /\ d \in Nat
  BY DEF Run
<1>2. PICK m \in 0..7 : m = PadTo8(d)
  BY <1>1, PadIs
<1>3. PICK z : z = Zeros(m)
  OBVIOUS
<1>4. Run(z, m) /\ \A i \in 1..m : z[i] = 0
  <2>1. m \in Nat
    OBVIOUS
  <2>2. Zeros(m) \in Seq(Bit) /\ Len(Zeros(m)) = m /\ \A i \in 1..m : Zeros(m)[i] = 0
    BY <2>1, ZerosType
  <2> QED
    BY <1>3, <2>2 DEF Run
<1>5. PICK w : w = AlignWriter(data)
  OBVIOUS
<1>6. w = data \o z
  BY <1>1, <1>2, <1>3, <1>5 DEF AlignWriter
<1>7. Run(w, d + m)
  BY <1>4, <1>6, Joined DEF Joins
<1>8. \A i \in 1..m : w[d + i] = 0
  <2>1. z \in Seq(Bit) /\ Len(z) = m
    BY <1>4 DEF Run
  <2>2. \A i \in 1..m : (data \o z)[d + i] = z[i]
    BY ONLY <1>1, <2>1, m \in 0..7
  <2> QED
    BY <1>4, <1>6, <2>2
<1> QED
  BY <1>1, <1>2, <1>5, <1>7, <1>8

LEMMA OriginalIs ==
    ASSUME original = Build(Stored, 0).buf
    PROVE  \E body, d : Described(body, d)
<1>1. PICK n \in Nat : n = Len(Stored)
  BY StoredAssumption
<1>2. /\ Stored = [k \in 1..n |-> Stored[k]]
      /\ \A k \in 1..n : Stored[k].key \in Seq(0..255) /\ IsValue(Stored[k].val)
      /\ \A j, k \in 1..n : j < k => KeyLess(Stored[j].key, Stored[k].key)
      /\ Build(Stored, 0).rc = "OK" /\ Len(Build(Stored, 0).buf) < WordMax
  BY <1>1, StoredAssumption
<1>3. KeysAscend(Stored)
  <2>1. \A k \in 1..n : Stored[k].key \in Seq(Nat)
    BY <1>2, BytesAreNumbers
  <2> QED
    BY <1>1, <1>2, <2>1 DEF KeysAscend
<1>4. BytesOnly(Stored)
  <2>1. DOMAIN Stored = 1..n
    BY <1>2
  <2> QED
    BY <1>1, <1>2, <2>1 DEF BytesOnly
<1>5. PICK body, data, d : FileShape(body, data, d) /\ Build(Stored, 0).buf = body \o Crc32(body)
  BY <1>1, <1>2, <1>3, <1>4, BuiltShape
<1>6. d \in Nat /\ Run(data, d)
  BY <1>5 DEF FileShape
<1>7. PICK h : Run(h, HeaderBits) /\ SubSeq(h, 193, 224) = Bits(d, 32) /\ body = h \o AlignWriter(data)
  BY <1>5 DEF FileShape
<1>8. PICK w : w = AlignWriter(data)
  OBVIOUS
<1>9. PICK m \in 0..7 : m = PadTo8(d)
  BY <1>6, PadIs
<1>10. Run(w, d + m) /\ \A i \in 1..m : w[d + i] = 0
  BY <1>6, <1>8, <1>9, PaddedIs
<1>11. PICK c : c = Crc32(body)
  OBVIOUS
<1>12. Joins(body, h, w) /\ Joins(original, body, c)
  BY <1>5, <1>7, <1>8, <1>11 DEF Joins
<1>13. Run(body, HeaderBits + (d + m)) /\ Begins(body, h, HeaderBits) /\ Follows(body, w, HeaderBits, d + m)
  BY ONLY <1>7, <1>10, <1>12, Joined
<1>14. PICK len \in Nat : len = HeaderBits + (d + m)
  BY <1>6 DEF HeaderBits
<1>15. Run(c, 32)
  <2>1. Len(body) \in Nat
    BY <1>13, <1>14 DEF Run
  <2> QED
    BY <1>11, <2>1, CrcType DEF Run
<1>16. Run(original, len + 32) /\ Begins(original, body, len)
  BY ONLY <1>12, <1>13, <1>14, <1>15, Joined
<1>17. DataBits = d
  <2>1. SubSeq(original, 193, 224) = SubSeq(h, 193, 224)
    <3>1. original \in Seq(Bit) /\ Len(original) >= 256
      BY <1>6, <1>14, <1>16 DEF Run, HeaderBits
    <3>2. h \in Seq(Bit) /\ Len(h) = 256
      BY <1>7 DEF Run, HeaderBits
    <3>3. \A i \in 1..256 : original[i] = h[i]
      <4>1. \A i \in 1..len : original[i] = body[i]
        BY <1>16 DEF Begins
      <4>2. \A i \in 1..256 : body[i] = h[i]
        BY <1>13 DEF Begins, HeaderBits
      <4>3. \A i \in 1..256 : i \in 1..len
        BY <1>6, <1>14 DEF HeaderBits
      <4> QED
        BY ONLY <4>1, <4>2, <4>3
    <3> QED
      BY ONLY <3>1, <3>2, <3>3
  <2>2. d < WordMax
    <3>1. Len(original) = len + 32
      BY <1>16 DEF Run
    <3>2. len + 32 < WordMax
      BY <1>2, <3>1
    <3>3. d <= len + 32
      BY <1>6, <1>14 DEF HeaderBits
    <3>4. WordMax \in Nat
      BY WordIs
    <3> QED
      BY ONLY <1>6, <3>2, <3>3, <3>4, len \in Nat
  <2>3. Number(Bits(d, 32)) = d
    BY <1>6, <2>2, NumberSpelled
  <2>4. DataBits = Number(SubSeq(original, 193, 224))
    BY DEF DataBits
  <2> QED
    BY ONLY <1>7, <2>1, <2>3, <2>4
<1>18. \A i \in 1..m : body[HeaderBits + d + i] = 0
  <2>1. \A j \in 1..d + m : body[HeaderBits + j] = w[j]
    BY <1>13 DEF Follows
  <2> SUFFICES ASSUME NEW i \in 1..m PROVE body[HeaderBits + d + i] = 0
    OBVIOUS
  <2>2. d + i \in 1..d + m /\ HeaderBits + d + i = HeaderBits + (d + i)
    BY <1>6 DEF HeaderBits
  <2> QED
    BY ONLY <1>10, <2>1, <2>2
<1>19. HeaderBits + (d + m) = HeaderBits + d + m
  BY <1>6 DEF HeaderBits
<1> QED
  BY <1>5, <1>6, <1>9, <1>13, <1>17, <1>18, <1>19 DEF Described

-----------------------------------------------------------------------------
(* What is written before the offsets are filled in *)

WrittenFile == Unpatched \o Crc32(Unpatched)

LEMMA UnpatchedIs ==
    ASSUME NEW body, NEW d, Described(body, d), NEW len, len = HeaderBits + d + PadTo8(d)
    PROVE  /\ Run(Unpatched, len) /\ Run(Crc32(Unpatched), CrcBits) /\ Len(original) = len + CrcBits
           /\ \A n \in 1..len : Unpatched[n] = IF n \in FilledIn THEN 0 ELSE original[n]
           /\ \A i \in 1..PadTo8(d) : Unpatched[HeaderBits + d + i] = 0
           /\ original = body \o Crc32(body) /\ Begins(original, body, len)
           /\ d \in Nat /\ len \in Nat
<1>1. d \in Nat /\ Run(body, len) /\ original = body \o Crc32(body)
      /\ \A i \in 1..PadTo8(d) : body[HeaderBits + d + i] = 0
  BY DEF Described
<1>2. PICK m \in 0..7 : m = PadTo8(d)
  BY <1>1, PadIs
<1>3. len \in Nat
  BY <1>1, <1>2 DEF HeaderBits
<1>4. PICK c : c = Crc32(body)
  OBVIOUS
<1>5. Run(c, 32)
  <2>1. Len(body) \in Nat
    BY <1>1, <1>3 DEF Run
  <2> QED
    BY <1>4, <2>1, CrcType DEF Run
<1>6. Joins(original, body, c)
  BY <1>1, <1>4 DEF Joins
<1>7. Run(original, len + 32) /\ Begins(original, body, len)
  BY ONLY <1>1, <1>5, <1>6, Joined
<1>8. original \in Seq(Bit) /\ Len(original) = len + 32
  BY <1>7 DEF Run
<1>9. \A n \in 1..len : original[n] = body[n] /\ original[n] \in Bit
  <2>1. \A n \in 1..len : original[n] = body[n]
    BY <1>7 DEF Begins
  <2>2. \A n \in 1..len : n \in 1..Len(original)
    BY <1>3, <1>8
  <2>3. \A n \in 1..len : original[n] \in Bit
    BY <1>8, <2>2, ElementOfSeq
  <2> QED
    BY ONLY <2>1, <2>3
<1>10. PICK u : u = Unpatched
  OBVIOUS
<1>11. u = [n \in 1..len |-> IF n \in FilledIn THEN 0 ELSE original[n]]
  <2>1. Len(original) - CrcBits = len
    BY <1>3, <1>8 DEF CrcBits
  <2> HIDE DEF FilledIn
  <2> QED
    BY <1>10, <2>1 DEF Unpatched
<1>12. Run(u, len)
  <2>1. \A n \in 1..len : u[n] \in Bit
    BY <1>9, <1>11 DEF Bit
  <2>2. u = [n \in 1..len |-> u[n]]
    BY <1>11
  <2> QED
    BY <1>3, <2>1, <2>2, SequenceIs DEF Run
<1>13. Run(Crc32(u), 32)
  <2>1. Len(u) \in Nat
    BY <1>3, <1>12 DEF Run
  <2> QED
    BY <2>1, CrcType DEF Run
<1>14. \A n \in 1..len : u[n] = IF n \in FilledIn THEN 0 ELSE original[n]
  BY <1>11
<1>15. ASSUME NEW i \in 1..m PROVE u[HeaderBits + d + i] = 0
  <2>1. PICK n \in 1..len : n = HeaderBits + d + i /\ n > 224
    BY <1>1, <1>2, <1>3 DEF HeaderBits
  <2>2. n \notin FilledIn
    BY <2>1 DEF FilledIn
  <2>3. u[n] = body[n]
    BY <1>9, <1>14, <2>2
  <2>4. body[HeaderBits + d + i] = 0
    BY <1>1, <1>2
  <2> QED
    BY ONLY <2>1, <2>3, <2>4
<1> QED
  BY <1>1, <1>2, <1>3, <1>7, <1>8, <1>10, <1>12, <1>13, <1>14, <1>15 DEF CrcBits

LEMMA PatchedIs ==
    ASSUME NEW body, NEW d, Described(body, d)
    PROVE  Patch(WrittenFile) = original
<1>1. PICK len : len = HeaderBits + d + PadTo8(d)
  OBVIOUS
<1>2. PICK u : u = Unpatched
  OBVIOUS
<1>3. PICK c : c = Crc32(u)
  OBVIOUS
<1>4. /\ Run(u, len) /\ Run(c, CrcBits) /\ Len(original) = len + CrcBits
      /\ \A n \in 1..len : u[n] = IF n \in FilledIn THEN 0 ELSE original[n]
      /\ original = body \o Crc32(body) /\ Begins(original, body, len)
      /\ len \in Nat
  BY <1>1, <1>2, <1>3, UnpatchedIs
<1>5. PICK f : f = WrittenFile
  OBVIOUS
<1>6. Joins(f, u, c)
  BY <1>2, <1>3, <1>5 DEF WrittenFile, Joins
<1>7. Run(f, len + CrcBits) /\ Begins(f, u, len)
  BY ONLY <1>4, <1>6, Joined
<1>8. Len(f) - CrcBits = len
  BY <1>4, <1>7 DEF Run, CrcBits
<1>9. \A n \in 1..len : f[n] = u[n]
  BY <1>7 DEF Begins
<1>10. body = [n \in 1..len |-> original[n]]
  <2>1. Run(body, len)
    BY <1>1 DEF Described
  <2>2. body = [n \in 1..len |-> body[n]]
    BY <2>1 DEF Run
  <2>3. \A n \in 1..len : original[n] = body[n]
    BY <1>4 DEF Begins
  <2> QED
    BY ONLY <2>2, <2>3
<1>11. [n \in 1..len |-> IF n \in FilledIn THEN original[n] ELSE f[n]] = body
  <2>1. \A n \in 1..len : (IF n \in FilledIn THEN original[n] ELSE f[n]) = original[n]
    BY ONLY <1>4, <1>9
  <2> QED
    BY ONLY <1>10, <2>1
<1>12. Patch(f) = body \o Crc32(body)
  BY <1>8, <1>11 DEF Patch
<1> QED
  BY <1>4, <1>5, <1>12

\* Where the k-th item of a file with d bits of data ends.
FileCut(d) ==
    [k \in 0..d \div PieceBits + 16 |->
        IF k <= 12 THEN HeaderStarts[k + 1]
        ELSE IF k <= 13 + d \div PieceBits THEN HeaderBits + PieceBits * (k - 13)
        ELSE IF k = 14 + d \div PieceBits THEN HeaderBits + d
        ELSE IF k = 15 + d \div PieceBits THEN HeaderBits + d + PadTo8(d)
        ELSE HeaderBits + d + PadTo8(d) + CrcBits]

\* An item that writes the bits of f behind position from, up to position to.
Covers(it, f, from, to) ==
    /\ from \in Nat /\ to \in Nat /\ from <= to /\ to <= Len(f)
    /\ \/ it = Item("APPEND", 0, 0, SubSeq(f, from + 1, to))
       \/ it = Align /\ to = from + PadTo8(from) /\ \A i \in from + 1..to : f[i] = 0

\* Items that write all of f, cut into runs.
WritesAll(items, f, cut) ==
    /\ Len(items) \in Nat \ {0} /\ DOMAIN items = 1..Len(items)
    /\ f \in Seq(Bit) /\ cut[0] = 0 /\ cut[Len(items)] = Len(f)
    /\ \A k \in 1..Len(items) : Covers(items[k], f, cut[k - 1], cut[k])

\* A file with d bits of data has m whole pieces of them, r bits behind and p bits of padding.
Parts(cut, d, m, r, p) ==
    /\ d \in Nat /\ m \in Nat /\ r \in 0..6 /\ p \in 0..7 /\ d = 7 * m + r
    /\ p = PadTo8(d) /\ m = d \div PieceBits /\ r = d % PieceBits /\ cut = FileCut(d)

LEMMA PartsAre ==
    ASSUME NEW d \in Nat
    PROVE  \E cut, m, r, p : Parts(cut, d, m, r, p)
<1>1. PICK m : m = d \div PieceBits
  OBVIOUS
<1>2. PICK r : r = d % PieceBits
  OBVIOUS
<1>3. PICK p \in 0..7 : p = PadTo8(d)
  BY PadIs
<1>4. m \in Nat /\ d = 7 * m + r /\ r \in 0..6
  BY <1>1, <1>2 DEF PieceBits
<1> QED
  BY <1>1, <1>2, <1>3, <1>4 DEF Parts

LEMMA CutsAre ==
    ASSUME NEW cut, NEW d, NEW m, NEW r, NEW p, Parts(cut, d, m, r, p)
    PROVE  /\ \A k \in 1..13 : /\ cut[k - 1] = HeaderStarts[k]
                               /\ cut[k] = HeaderStarts[k] + HeaderWidths[k]
                               /\ HeaderStarts[k] \in 0..224 /\ HeaderWidths[k] \in 1..32
           /\ \A k \in 1..m : cut[13 + k - 1] = 256 + 7 * (k - 1) /\ cut[13 + k] = 256 + 7 * (k - 1) + 7
           /\ cut[13 + m] = 256 + d - r /\ cut[14 + m] = 256 + d
           /\ cut[15 + m] = 256 + d + p /\ cut[16 + m] = 256 + d + p + 32
           /\ cut[0] = 0
<1>0. d \in Nat /\ m \in Nat /\ r \in 0..6 /\ p \in 0..7 /\ d = 7 * m + r
  BY DEF Parts
<1>2. p = PadTo8(d) /\ m = d \div PieceBits /\ cut = FileCut(d)
  BY DEF Parts
<1>3. HeaderBits = 256 /\ PieceBits = 7 /\ CrcBits = 32
  BY DEF HeaderBits, PieceBits, CrcBits
<1>4. cut = [k \in 0..m + 16 |->
        IF k <= 12 THEN HeaderStarts[k + 1]
        ELSE IF k <= 13 + m THEN 256 + 7 * (k - 13)
        ELSE IF k = 14 + m THEN 256 + d
        ELSE IF k = 15 + m THEN 256 + d + p
        ELSE 256 + d + p + 32]
  BY ONLY <1>2, <1>3, Zenon DEF FileCut
<1>10. \A k \in 0..m + 16 :
          cut[k] = IF k <= 12 THEN HeaderStarts[k + 1]
                   ELSE IF k <= 13 + m THEN 256 + 7 * (k - 13)
                   ELSE IF k = 14 + m THEN 256 + d
                   ELSE IF k = 15 + m THEN 256 + d + p
                   ELSE 256 + d + p + 32
  BY ONLY <1>4
<1>11. m \in Nat
  BY <1>0
<1>5. /\ cut[0] = 0 /\ cut[1] = 8 /\ cut[2] = 16 /\ cut[3] = 24 /\ cut[4] = 32 /\ cut[5] = 40
      /\ cut[6] = 48 /\ cut[7] = 64 /\ cut[8] = 96 /\ cut[9] = 128 /\ cut[10] = 160 /\ cut[11] = 192
      /\ cut[12] = 224 /\ cut[13] = 256
  <2>1. ASSUME NEW k \in 0..12 PROVE cut[k] = HeaderStarts[k + 1]
    <3>1. k \in 0..m + 16 /\ k <= 12
      BY ONLY <1>11, k \in 0..12
    <3> QED
      BY ONLY <1>10, <3>1
  <2>2. cut[13] = 256
    <3>1. 13 \in 0..m + 16 /\ ~(13 <= 12) /\ 13 <= 13 + m /\ 256 + 7 * (13 - 13) = 256
      BY ONLY <1>11
    <3> QED
      BY ONLY <1>10, <3>1
  <2> QED
    BY <2>1, <2>2 DEF HeaderStarts
<1>6. \A k \in 1..13 : /\ cut[k - 1] = HeaderStarts[k] /\ cut[k] = HeaderStarts[k] + HeaderWidths[k]
                       /\ HeaderStarts[k] \in 0..224 /\ HeaderWidths[k] \in 1..32
  <2> SUFFICES ASSUME NEW k \in 1..13
               PROVE  /\ cut[k - 1] = HeaderStarts[k] /\ cut[k] = HeaderStarts[k] + HeaderWidths[k]
                      /\ HeaderStarts[k] \in 0..224 /\ HeaderWidths[k] \in 1..32
    OBVIOUS
  <2>1. k = 1 \/ k = 2 \/ k = 3 \/ k = 4 \/ k = 5 \/ k = 6 \/ k = 7 \/ k = 8 \/ k = 9 \/ k = 10
        \/ k = 11 \/ k = 12 \/ k = 13
    OBVIOUS
  <2> QED
    BY ONLY <1>5, <2>1 DEF HeaderStarts, HeaderWidths
<1>7. \A k \in 1..m : cut[13 + k - 1] = 256 + 7 * (k - 1) /\ cut[13 + k] = 256 + 7 * (k - 1) + 7
  <2> SUFFICES ASSUME NEW k \in 1..m
               PROVE  cut[13 + k - 1] = 256 + 7 * (k - 1) /\ cut[13 + k] = 256 + 7 * (k - 1) + 7
    OBVIOUS
  <2>1. ASSUME NEW j \in 13..13 + m PROVE cut[j] = 256 + 7 * (j - 13)
    <3>1. j \in 0..m + 16 /\ ~(j <= 12) /\ j <= 13 + m
      BY ONLY <1>11, j \in 13..13 + m
    <3> QED
      BY ONLY <1>10, <3>1
  <2>2. /\ 13 + k - 1 \in 13..13 + m /\ 13 + k \in 13..13 + m
        /\ 13 + k - 1 - 13 = k - 1 /\ 7 * (13 + k - 13) = 7 * (k - 1) + 7
    BY ONLY <1>11, k \in 1..m
  <2>3. cut[13 + k - 1] = 256 + 7 * (13 + k - 1 - 13) /\ cut[13 + k] = 256 + 7 * (13 + k - 13)
    BY ONLY <2>1, <2>2
  <2>4. 256 + (7 * (k - 1) + 7) = 256 + 7 * (k - 1) + 7
    BY ONLY k \in 1..m, <1>11
  <2> QED
    BY ONLY <2>2, <2>3, <2>4
<1>8. cut[13 + m] = 256 + d - r
  <2>1. PICK j : j = 13 + m
    OBVIOUS
  <2>5. j \in 0..m + 16 /\ ~(j <= 12) /\ j <= 13 + m
    BY ONLY <1>11, <2>1
  <2>6. cut[j] = 256 + 7 * (j - 13)
    BY ONLY <1>10, <2>5
  <2>2. cut[j] = 256 + 7 * m
    <3>1. j - 13 = m
      BY ONLY <1>11, <2>1
    <3> QED
      BY ONLY <2>6, <3>1
  <2>4. 256 + 7 * m = 256 + d - r
    BY ONLY <1>0
  <2>7. cut[j] = 256 + d - r
    BY ONLY <2>2, <2>4
  <2> QED
    BY ONLY <2>1, <2>7, Zenon
<1>9. cut[14 + m] = 256 + d /\ cut[15 + m] = 256 + d + p /\ cut[16 + m] = 256 + d + p + 32
  <2>1. /\ 14 + m \in 0..m + 16 /\ ~(14 + m <= 12) /\ ~(14 + m <= 13 + m)
        /\ 15 + m \in 0..m + 16 /\ ~(15 + m <= 12) /\ ~(15 + m <= 13 + m) /\ 15 + m # 14 + m
        /\ 16 + m \in 0..m + 16 /\ ~(16 + m <= 12) /\ ~(16 + m <= 13 + m) /\ 16 + m # 14 + m
        /\ 16 + m # 15 + m
    BY ONLY <1>11
  <2> QED
    BY ONLY <1>10, <2>1
<1> QED
  BY ONLY <1>5, <1>6, <1>7, <1>8, <1>9

\* One sequence of anything behind another.
Listed(a, m) == m \in Nat /\ a = [k \in 1..m |-> a[k]]

LEMMA Linked ==
    ASSUME NEW a, NEW m, Listed(a, m), NEW b, NEW n, Listed(b, n), NEW c, Joins(c, a, b)
    PROVE  /\ Listed(c, m + n) /\ Len(c) = m + n
           /\ \A k \in 1..m : c[k] = a[k]
           /\ \A k \in 1..n : c[m + k] = b[k]
<1>0. m \in Nat /\ n \in Nat /\ a = [k \in 1..m |-> a[k]] /\ b = [k \in 1..n |-> b[k]] /\ c = a \o b
  BY DEF Listed, Joins
<1> DEFINE T == {a[k] : k \in 1..m} \cup {b[k] : k \in 1..n}
<1>1. \A k \in 1..m : a[k] \in T
  OBVIOUS
<1>2. \A k \in 1..n : b[k] \in T
  OBVIOUS
<1> HIDE DEF T
<1>3. a \in Seq(T) /\ Len(a) = m
  BY ONLY <1>0, <1>1, SequenceIs
<1>4. b \in Seq(T) /\ Len(b) = n
  BY ONLY <1>0, <1>2, SequenceIs
<1>5. c \in Seq(T) /\ Len(c) = m + n
  BY ONLY <1>0, <1>3, <1>4
<1>6. c = [k \in 1..m + n |-> c[k]]
  BY ONLY <1>5
<1>7. \A k \in 1..m : c[k] = a[k]
  BY ONLY <1>0, <1>3, <1>4
<1>8. \A k \in 1..n : c[m + k] = b[k]
  BY ONLY <1>0, <1>3, <1>4
<1> QED
  BY ONLY <1>0, <1>5, <1>6, <1>7, <1>8 DEF Listed

\* What covers bits is an item of a program.
LEMMA CoveredIs ==
    ASSUME NEW it, NEW f \in Seq(Bit), NEW from, NEW to, Covers(it, f, from, to)
    PROVE  IsItem(it)
<1>1. CASE it = Align
  BY <1>1 DEF Align, Item, IsItem
<1>2. CASE it = Item("APPEND", 0, 0, SubSeq(f, from + 1, to))
  <2>1. from \in Nat /\ to \in Nat /\ from <= to /\ to <= Len(f)
    BY DEF Covers
  <2>2. PICK s : s = SubSeq(f, from + 1, to)
    OBVIOUS
  <2>3. s \in Seq(Bit)
    <3>1. \A i \in from + 1..to : f[i] \in Bit
      <4> SUFFICES ASSUME NEW i \in from + 1..to PROVE f[i] \in Bit
        OBVIOUS
      <4>1. i \in 1..Len(f)
        BY <2>1
      <4> QED
        BY <4>1, ElementOfSeq
    <3>2. from + 1 \in Int /\ to \in Int
      BY <2>1
    <3> QED
      BY <2>2, <3>1, <3>2, SubSeqProperties
  <2> QED
    BY <1>2, <2>2, <2>3 DEF Item, IsItem
<1> QED
  BY <1>1, <1>2 DEF Covers

\* The items of a file write all of it, bit after bit.
LEMMA FileWritten ==
    ASSUME NEW body, NEW d, Described(body, d)
    PROVE  /\ WritesAll(FileItems, WrittenFile, FileCut(d)) /\ IsProgram(FileItems)
           /\ Len(WrittenFile) \in Nat /\ Len(WrittenFile) % 8 = 0
<1>1. PICK len : len = HeaderBits + d + PadTo8(d)
  OBVIOUS
<1>2. PICK u : u = Unpatched
  OBVIOUS
<1>3. PICK c : c = Crc32(u)
  OBVIOUS
<1>4. /\ Run(u, len) /\ Run(c, CrcBits) /\ \A i \in 1..PadTo8(d) : u[HeaderBits + d + i] = 0
      /\ d \in Nat /\ len \in Nat
  BY <1>1, <1>2, <1>3, UnpatchedIs
<1>5. PICK f : f = WrittenFile
  OBVIOUS
<1>6. Joins(f, u, c)
  BY <1>2, <1>3, <1>5 DEF WrittenFile, Joins
<1>7. Run(f, len + CrcBits) /\ Begins(f, u, len) /\ Follows(f, c, len, CrcBits)
  BY ONLY <1>4, <1>6, Joined
<1>8. DataBits = d
  BY DEF Described
<1>9. PICK cut, m, r, p : Parts(cut, d, m, r, p)
  BY <1>4, PartsAre
<1>10. m \in Nat /\ r \in 0..6 /\ p \in 0..7 /\ d = 7 * m + r
  BY <1>9 DEF Parts
<1>12. p = PadTo8(d) /\ m = d \div PieceBits /\ r = d % PieceBits /\ cut = FileCut(d)
  BY <1>9 DEF Parts
<1>11. (d + p) % 8 = 0
  BY <1>4, <1>12, PadIs
<1>13. /\ \A k \in 1..13 : /\ cut[k - 1] = HeaderStarts[k]
                           /\ cut[k] = HeaderStarts[k] + HeaderWidths[k]
                           /\ HeaderStarts[k] \in 0..224 /\ HeaderWidths[k] \in 1..32
       /\ \A k \in 1..m : cut[13 + k - 1] = 256 + 7 * (k - 1) /\ cut[13 + k] = 256 + 7 * (k - 1) + 7
       /\ cut[13 + m] = 256 + d - r /\ cut[14 + m] = 256 + d
       /\ cut[15 + m] = 256 + d + p /\ cut[16 + m] = 256 + d + p + 32
       /\ cut[0] = 0
  BY ONLY <1>9, CutsAre
<1>14. HeaderBits = 256 /\ PieceBits = 7 /\ CrcBits = 32 /\ len = 256 + d + p
  BY <1>1, <1>12 DEF HeaderBits, PieceBits, CrcBits
<1>15. f \in Seq(Bit) /\ Len(f) = len + 32
  BY <1>7, <1>14 DEF Run
<1>16. PICK a : a = HeaderPieces
  OBVIOUS
<1>17. PICK b : b = DataPieces
  OBVIOUS
<1>18. PICK t : t = << Piece(256 + d - r, r), Align, Item("APPEND", 0, 0, c) >>
  OBVIOUS
<1>19. PICK ab : ab = a \o b
  OBVIOUS
<1>20. PICK items : items = FileItems
  OBVIOUS
<1>21. items = ab \o t
  BY ONLY <1>2, <1>3, <1>8, <1>12, <1>14, <1>16, <1>17, <1>18, <1>19, <1>20, Zenon DEF FileItems
<1>22. a = [k \in 1..13 |-> Piece(HeaderStarts[k], HeaderWidths[k])]
  <2>1. Len(HeaderWidths) = 13
    BY DEF HeaderWidths
  <2> QED
    BY <1>16, <2>1 DEF HeaderPieces
<1>23. b = [k \in 1..m |-> Piece(256 + 7 * (k - 1), 7)]
  BY <1>8, <1>12, <1>14, <1>17 DEF DataPieces
<1>24. t = [k \in 1..3 |-> t[k]] /\ t[1] = Piece(256 + d - r, r) /\ t[2] = Align
       /\ t[3] = Item("APPEND", 0, 0, c)
  BY <1>18
<1>25. /\ Listed(ab, 13 + m)
       /\ \A k \in 1..13 : ab[k] = a[k]
       /\ \A k \in 1..m : ab[13 + k] = b[k]
  <2>1. Listed(a, 13)
    BY <1>22 DEF Listed
  <2>2. Listed(b, m)
    BY <1>10, <1>23 DEF Listed
  <2>3. Joins(ab, a, b)
    BY <1>19 DEF Joins
  <2> QED
    BY ONLY <2>1, <2>2, <2>3, Linked
<1>26. PICK l \in Nat : l = 13 + m
  BY <1>10
<1>27. /\ Listed(items, l + 3) /\ Len(items) = l + 3
       /\ \A k \in 1..l : items[k] = ab[k]
       /\ \A k \in 1..3 : items[l + k] = t[k]
  <2>1. Listed(ab, l)
    BY <1>25, <1>26
  <2>2. Listed(t, 3)
    BY <1>24 DEF Listed
  <2>3. Joins(items, ab, t)
    BY <1>21 DEF Joins
  <2> QED
    BY ONLY <2>1, <2>2, <2>3, Linked
<1>28. ASSUME NEW from \in Nat, NEW n \in Nat, from + n <= len
       PROVE  Covers(Piece(from, n), f, from, from + n)
  <2>1. PICK to \in Nat : to = from + n /\ from <= to /\ to <= len
    BY <1>28
  <2>2. u \in Seq(Bit) /\ Len(u) = len /\ \A i \in 1..len : f[i] = u[i]
    BY <1>4, <1>7 DEF Run, Begins
  <2>3. SubSeq(f, from + 1, to) = SubSeq(u, from + 1, to)
    <3>1. SubSeq(f, from + 1, to) = [i \in 1..to - (from + 1) + 1 |-> f[i + (from + 1) - 1]]
      BY ONLY <1>4, <1>15, <2>1, from \in Nat, to \in Nat
    <3>2. SubSeq(u, from + 1, to) = [i \in 1..to - (from + 1) + 1 |-> u[i + (from + 1) - 1]]
      BY ONLY <1>4, <2>1, <2>2, from \in Nat, to \in Nat
    <3>3. \A i \in 1..to - (from + 1) + 1 : i + (from + 1) - 1 \in 1..len
      BY ONLY <1>4, <2>1, from \in Nat, to \in Nat
    <3> QED
      BY ONLY <2>2, <3>1, <3>2, <3>3
  <2>4. to <= Len(f)
    BY ONLY <1>4, <1>15, <2>1, to \in Nat
  <2>5. Piece(from, n) = Item("APPEND", 0, 0, SubSeq(u, from + 1, to))
    BY ONLY <1>2, <2>1 DEF Piece
  <2> QED
    BY ONLY <2>1, <2>3, <2>4, <2>5, from \in Nat, to \in Nat DEF Covers
<1>29. ASSUME NEW k \in 1..13 PROVE Covers(items[k], f, cut[k - 1], cut[k])
  <2>1. PICK from \in 0..224 : from = HeaderStarts[k]
    BY <1>13
  <2>2. PICK n \in 1..32 : n = HeaderWidths[k]
    BY <1>13
  <2>3. items[k] = Piece(from, n)
    <3>1. k \in 1..l
      BY <1>10, <1>26
    <3> QED
      BY <1>22, <1>25, <1>27, <2>1, <2>2, <3>1
  <2>4. from \in Nat /\ n \in Nat /\ from + n <= len
    BY <1>4, <1>10, <1>14
  <2>5. Covers(Piece(from, n), f, from, from + n)
    BY <1>28, <2>4
  <2>6. cut[k - 1] = from /\ cut[k] = from + n
    BY ONLY <1>13, <2>1, <2>2, k \in 1..13
  <2> QED
    BY ONLY <2>3, <2>5, <2>6
<1>30. ASSUME NEW k \in 14..13 + m PROVE Covers(items[k], f, cut[k - 1], cut[k])
  <2>1. PICK j \in 1..m : j = k - 13 /\ 13 + j = k /\ 13 + j - 1 = k - 1
    BY <1>10
  <2>2. PICK from \in Nat : from = 256 + 7 * (j - 1)
    BY <1>10
  <2>3. items[k] = Piece(from, 7)
    <3>1. k \in 1..l
      BY <1>10, <1>26
    <3>2. ab[13 + j] = b[j]
      BY ONLY <1>25, j \in 1..m
    <3>3. b[j] = Piece(256 + 7 * (j - 1), 7)
      BY ONLY <1>23, j \in 1..m
    <3> QED
      BY ONLY <1>27, <2>1, <2>2, <3>1, <3>2, <3>3
  <2>4. 7 \in Nat /\ from + 7 <= len
    BY ONLY <1>4, <1>10, <1>14, <2>2, j \in 1..m
  <2>5. Covers(Piece(from, 7), f, from, from + 7)
    BY <1>28, <2>4
  <2>6. cut[13 + j - 1] = 256 + 7 * (j - 1) /\ cut[13 + j] = 256 + 7 * (j - 1) + 7
    BY ONLY <1>13, j \in 1..m
  <2> QED
    BY ONLY <2>1, <2>2, <2>3, <2>5, <2>6
<1>31. Covers(items[l + 1], f, cut[13 + m], cut[14 + m])
  <2>1. PICK from \in Nat : from = 256 + d - r
    BY <1>4, <1>10
  <2>2. r \in Nat /\ from + r = 256 + d /\ from + r <= len
    BY <1>4, <1>10, <1>14, <2>1
  <2>3. Covers(Piece(from, r), f, from, from + r)
    BY <1>28, <2>2
  <2>4. items[l + 1] = Piece(from, r)
    <3>1. 1 \in 1..3
      OBVIOUS
    <3> QED
      BY ONLY <1>24, <1>27, <2>1, <3>1
  <2> QED
    BY ONLY <1>13, <2>1, <2>2, <2>3, <2>4
<1>32. Covers(items[l + 2], f, cut[14 + m], cut[15 + m])
  <2>1. items[l + 2] = Align
    <3>1. 2 \in 1..3
      OBVIOUS
    <3> QED
      BY ONLY <1>24, <1>27, <3>1
  <2>2. PICK from \in Nat : from = 256 + d
    BY <1>4, <1>14
  <2>3. PICK to \in Nat : to = 256 + d + p /\ to = from + p
    BY <1>4, <1>10, <2>2
  <2>4. from <= to /\ to <= Len(f)
    BY <1>4, <1>10, <1>14, <1>15, <2>2, <2>3
  <2>5. PadTo8(from) = p
    <3>1. from % 8 = d % 8
      BY ONLY <1>4, <2>2
    <3> QED
      BY ONLY <1>11, <1>12, <3>1, <1>4, <1>10, <2>2 DEF PadTo8
  <2>6. ASSUME NEW i \in from + 1..to PROVE f[i] = 0
    <3>1. PICK j \in 1..p : i = from + j
      <4>1. i - from \in 1..p /\ i = from + (i - from)
        BY ONLY <2>2, <2>3, i \in from + 1..to, <1>10, from \in Nat
      <4> QED
        BY <4>1
    <3>2. u[from + j] = 0
      BY <1>4, <1>12, <1>14, <2>2, <3>1
    <3>3. i \in 1..len
      BY <1>4, <1>10, <1>14, <2>2, <2>3
    <3>4. f[i] = u[i]
      BY <1>7, <3>3 DEF Begins
    <3> QED
      BY ONLY <3>1, <3>2, <3>4
  <2>7. Covers(Align, f, from, to)
    BY ONLY <2>3, <2>4, <2>5, <2>6, from \in Nat, to \in Nat DEF Covers
  <2> QED
    BY ONLY <1>13, <2>1, <2>2, <2>3, <2>7
<1>33. Covers(items[l + 3], f, cut[15 + m], cut[16 + m])
  <2>1. items[l + 3] = Item("APPEND", 0, 0, c)
    <3>1. 3 \in 1..3
      OBVIOUS
    <3> QED
      BY ONLY <1>24, <1>27, <3>1
  <2>2. SubSeq(f, len + 1, len + 32) = c
    BY <1>7, <1>14 DEF Follows
  <2>3. cut[15 + m] = len /\ cut[16 + m] = len + 32
    BY ONLY <1>13, <1>14
  <2>4. len + 32 \in Nat /\ len <= len + 32 /\ len + 32 <= Len(f)
    BY ONLY <1>4, <1>15
  <2>5. Covers(Item("APPEND", 0, 0, c), f, len, len + 32)
    BY ONLY <1>4, <2>2, <2>4 DEF Covers
  <2> QED
    BY ONLY <2>1, <2>3, <2>5
<1>34. PICK n \in Nat : n = l + 3 /\ n = 16 + m
  BY <1>10, <1>26
<1>35. ASSUME NEW k \in 1..n PROVE Covers(items[k], f, cut[k - 1], cut[k])
  <2>1. CASE k \in 1..13
    BY ONLY <1>29, <2>1
  <2>2. CASE k \in 14..13 + m
    BY ONLY <1>30, <2>2
  <2>3. CASE k = l + 1
    <3>1. k - 1 = 13 + m /\ k = 14 + m
      BY ONLY <1>10, <1>26, <2>3
    <3> QED
      BY ONLY <1>31, <2>3, <3>1
  <2>4. CASE k = l + 2
    <3>1. k - 1 = 14 + m /\ k = 15 + m
      BY ONLY <1>10, <1>26, <2>4
    <3> QED
      BY ONLY <1>32, <2>4, <3>1
  <2>5. CASE k = l + 3
    <3>1. k - 1 = 15 + m /\ k = 16 + m
      BY ONLY <1>10, <1>26, <2>5
    <3> QED
      BY ONLY <1>33, <2>5, <3>1
  <2>6. k \in 1..13 \/ k \in 14..13 + m \/ k = l + 1 \/ k = l + 2 \/ k = l + 3
    BY ONLY <1>10, <1>26, <1>34, k \in 1..n
  <2> QED
    BY <2>1, <2>2, <2>3, <2>4, <2>5, <2>6
<1>36. Len(items) = n /\ DOMAIN items = 1..n /\ n \in Nat \ {0}
  <2>1. items = [k \in 1..n |-> items[k]] /\ Len(items) = n
    BY ONLY <1>27, <1>34 DEF Listed
  <2>2. DOMAIN items = 1..n
    BY ONLY <2>1
  <2>3. n \in Nat \ {0}
    BY ONLY <1>10, <1>34
  <2> QED
    BY ONLY <2>1, <2>2, <2>3
<1>37. cut[0] = 0 /\ cut[n] = Len(f)
  <2>1. cut[16 + m] = 256 + d + p + 32
    BY ONLY <1>13
  <2>2. Len(f) = 256 + d + p + 32
    BY ONLY <1>14, <1>15
  <2> QED
    BY ONLY <1>13, <1>34, <2>1, <2>2
<1>38. WritesAll(items, f, cut)
  BY ONLY <1>15, <1>35, <1>36, <1>37 DEF WritesAll
<1>39. IsProgram(items)
  <2>1. ASSUME NEW k \in 1..n PROVE IsItem(items[k])
    BY ONLY <1>15, <1>35, k \in 1..n, CoveredIs
  <2> QED
    BY ONLY <1>36, <2>1 DEF IsProgram
<1>40. Len(f) \in Nat /\ Len(f) % 8 = 0
  <2>1. PICK x \in Nat : x = d + p /\ x % 8 = 0
    BY <1>4, <1>10, <1>11
  <2>2. Len(f) = x + 288
    BY ONLY <1>4, <1>10, <1>14, <1>15, <2>1
  <2> QED
    BY ONLY <2>1, <2>2, x \in Nat
<1> QED
  BY ONLY <1>5, <1>12, <1>20, <1>38, <1>39, <1>40

-----------------------------------------------------------------------------
(* The file is written *)

\* While given items are written, the writer is where the cut says, and with the last of
\* them all of f is there.
Laid(items, f, cut) ==
    /\ phase = "write" /\ prog = items =>
        /\ at \in 0..Len(items) /\ written = SubSeq(f, 1, cut[at])
        /\ at < Len(items) => calls = CallsOf(items[at + 1])
    /\ phase = "detached" /\ prog = items => file = f

\* One item more.
LEMMA OneItemMore ==
    ASSUME NEW it, NEW f \in Seq(Bit), NEW from, NEW to, Covers(it, f, from, to),
           WriterInv, WriteCall, Current = it, written = SubSeq(f, 1, from), calls = CallsOf(it)
    PROVE  NextItem /\ written' = SubSeq(f, 1, to)
<1>1. from \in Nat /\ to \in Nat /\ from <= to /\ to <= Len(f)
  BY DEF Covers
<1>2. PICK n \in Nat : n = Len(f)
  OBVIOUS
<1>3. SubSeq(f, 1, from) = [i \in 1..from |-> f[i]] /\ SubSeq(f, 1, to) = [i \in 1..to |-> f[i]]
  <2>1. SubSeq(f, 1, from) = [i \in 1..from - 1 + 1 |-> f[i + 1 - 1]]
    BY ONLY <1>1, <1>2, f \in Seq(Bit)
  <2>2. SubSeq(f, 1, to) = [i \in 1..to - 1 + 1 |-> f[i + 1 - 1]]
    BY ONLY <1>1, <1>2, f \in Seq(Bit)
  <2>3. from - 1 + 1 = from /\ to - 1 + 1 = to
    BY <1>1
  <2>4. \A i \in 1..to : i + 1 - 1 = i
    BY <1>1
  <2>5. \A i \in 1..from : i + 1 - 1 = i
    BY <1>1
  <2> QED
    BY ONLY <2>1, <2>2, <2>3, <2>4, <2>5
<1>4. ASSUME NEW more, more = [i \in 1..to - from |-> f[from + i]], written' = written \o more
      PROVE  written' = SubSeq(f, 1, to)
  <2>1. PICK a : a = written /\ a = [i \in 1..from |-> f[i]]
    BY <1>3
  <2>2. PICK m \in Nat : m = to - from /\ from + m = to
    BY <1>1
  <2>3. Listed(a, from) /\ Listed(more, m)
    BY ONLY <1>1, <1>4, <2>1, <2>2, m \in Nat DEF Listed
  <2>4. PICK c : c = written'
    OBVIOUS
  <2>5. Joins(c, a, more)
    BY <1>4, <2>1, <2>4 DEF Joins
  <2>6. /\ c = [k \in 1..to |-> c[k]]
        /\ \A k \in 1..from : c[k] = a[k]
        /\ \A k \in 1..m : c[from + k] = more[k]
    <3>1. Listed(c, from + m) /\ (\A k \in 1..from : c[k] = a[k]) /\ \A k \in 1..m : c[from + k] = more[k]
      BY ONLY <2>3, <2>5, Linked
    <3> QED
      BY ONLY <2>2, <3>1 DEF Listed
  <2>7. ASSUME NEW k \in 1..to PROVE c[k] = f[k]
    <3>1. CASE k \in 1..from
      BY ONLY <2>1, <2>6, <3>1
    <3>2. CASE k \notin 1..from
      <4>1. PICK j \in 1..m : k = from + j
        <5>1. k - from \in 1..m /\ k = from + (k - from)
          BY ONLY <1>1, <2>2, <3>2, k \in 1..to
        <5> QED
          BY <5>1
      <4>2. more[j] = f[from + j]
        BY ONLY <1>4, <2>2, j \in 1..m
      <4>3. c[from + j] = more[j]
        BY ONLY <2>6, j \in 1..m
      <4> QED
        BY ONLY <4>1, <4>2, <4>3
    <3> QED
      BY <3>1, <3>2
  <2> QED
    BY ONLY <1>3, <2>4, <2>6, <2>7
<1>5. CASE it = Item("APPEND", 0, 0, SubSeq(f, from + 1, to))
  <2>1. PICK s : s = SubSeq(f, from + 1, to)
    OBVIOUS
  <2>2. it.kind = "APPEND" /\ it.content = s
    BY <1>5, <2>1 DEF Item
  <2>3. calls = <<s>>
    BY ONLY <2>2, calls = CallsOf(it), Zenon DEF CallsOf
  <2>4. Len(calls) = 1 /\ Head(calls) = s
    BY ONLY <2>3
  <2>5. NextItem /\ WritePiece(s)
    BY <2>2, <2>4 DEF WriteCall
  <2>6. s = [i \in 1..to - from |-> f[from + i]]
    <3>1. s = [i \in 1..to - (from + 1) + 1 |-> f[i + (from + 1) - 1]]
      BY ONLY <1>1, <1>2, <2>1, f \in Seq(Bit)
    <3>2. to - (from + 1) + 1 = to - from
      BY ONLY <1>1
    <3>3. \A i \in 1..to - from : i + (from + 1) - 1 = from + i
      BY ONLY <1>1
    <3> QED
      BY ONLY <3>1, <3>2, <3>3
  <2>7. written' = written \o s
    BY <2>5 DEF WritePiece
  <2> QED
    BY <1>4, <2>5, <2>6, <2>7
<1>6. CASE it = Align /\ to = from + PadTo8(from) /\ \A i \in from + 1..to : f[i] = 0
  <2>1. it.kind = "ALIGN"
    BY <1>6 DEF Align, Item
  <2>2. calls = <<>>
    BY ONLY <2>1, calls = CallsOf(it), Zenon DEF CallsOf
  <2>3. Len(calls) = 0
    BY ONLY <2>2
  <2>4. NextItem /\ AlignPiece
    BY <2>1, <2>3 DEF WriteCall
  <2>5. wpos = from
    <3>1. Len(written) = from
      BY <1>1, <1>3
    <3> QED
      BY <3>1 DEF WriterInv, WriterExact
  <2>6. Padding = to - from
    <3>1. PICK x \in Nat : x = from
      BY <1>1
    <3>2. Padding = PadTo8(x)
      BY ONLY <2>5, <3>1 DEF Padding, PadTo8
    <3>3. PICK y \in 0..7 : y = PadTo8(x)
      BY PadIs
    <3>4. to = x + y
      BY ONLY <1>6, <3>1, <3>3
    <3> QED
      BY ONLY <3>1, <3>2, <3>3, <3>4, x \in Nat, y \in 0..7
  <2>7. PICK s : s = Cleared(Padding)
    OBVIOUS
  <2>8. s = [i \in 1..to - from |-> f[from + i]]
    <3>1. s = [i \in 1..to - from |-> 0]
      BY <2>6, <2>7 DEF Cleared
    <3>2. \A i \in 1..to - from : f[from + i] = 0
      <4> SUFFICES ASSUME NEW i \in 1..to - from PROVE f[from + i] = 0
        OBVIOUS
      <4>1. from + i \in from + 1..to
        BY ONLY <1>1, i \in 1..to - from
      <4> QED
        BY <1>6, <4>1
    <3> QED
      BY ONLY <3>1, <3>2
  <2>9. written' = written \o s
    BY <2>4, <2>7 DEF AlignPiece
  <2> QED
    BY <1>4, <2>4, <2>8, <2>9
<1> QED
  BY <1>5, <1>6 DEF Covers

LEMMA LaidKeeps ==
    ASSUME NEW items, NEW f, NEW cut, WritesAll(items, f, cut), Len(f) % 8 = 0,
           WriterInv, ProgInv, Laid(items, f, cut), IOStep
    PROVE  Laid(items, f, cut)'
<1>1. PICK n \in Nat \ {0} : n = Len(items)
  <2>1. Len(items) \in Nat \ {0}
    BY DEF WritesAll
  <2> QED
    BY ONLY <2>1
<1>2. /\ DOMAIN items = 1..n /\ f \in Seq(Bit) /\ cut[0] = 0 /\ cut[n] = Len(f)
      /\ \A k \in 1..n : Covers(items[k], f, cut[k - 1], cut[k])
  BY <1>1 DEF WritesAll
<1>3. ASSUME NEW new, Begin(new), phase' = "write", written' = <<>>
      PROVE  Laid(items, f, cut)'
  <2>1. prog' = new /\ at' = 0 /\ calls' = CallsOf(new[1])
    BY <1>3 DEF Begin
  <2>2. SubSeq(f, 1, cut[0]) = <<>>
    <3>1. SubSeq(f, 1, 0) = <<>>
      BY ONLY <1>2
    <3> QED
      BY ONLY <1>2, <3>1
  <2>3. 0 + 1 = 1 /\ 0 \in 0..Len(items)
    BY <1>1
  <2> QED
    BY <1>3, <2>1, <2>2, <2>3 DEF Laid
<1>4. CASE OpenProgram
  BY <1>3, <1>4 DEF OpenProgram, OpenWriter, CreateWriter
<1>5. CASE WriteAgain
  BY <1>3, <1>5 DEF WriteAgain, writerVars
<1>6. CASE Grow
  <2>1. UNCHANGED <<phase, prog, at, calls, file, written>>
    BY <1>6 DEF Grow, itemVars, fileVars, BeginGrowth, GrowTurn, Realloc
  <2> QED
    BY <2>1 DEF Laid
<1>7. CASE WriteCall
  <2>1. phase = "write" /\ phase' = "write" /\ prog' = prog /\ at < Len(prog) /\ at \in Nat
    BY <1>7 DEF WriteCall, Writing, ProgInv
  <2> SUFFICES ASSUME prog = items
               PROVE  /\ at' \in 0..Len(items) /\ written' = SubSeq(f, 1, cut[at'])
                      /\ at' < Len(items) => calls' = CallsOf(items[at' + 1])
    BY <2>1 DEF Laid
  <2>2. at < n /\ written = SubSeq(f, 1, cut[at]) /\ calls = CallsOf(items[at + 1])
    BY <1>1, <2>1 DEF Laid
  <2>3. PICK k \in 1..n : k = at + 1 /\ k - 1 = at
    BY <2>1, <2>2
  <2>4. Covers(items[k], f, cut[k - 1], cut[k])
    BY <1>2
  <2>5. PICK from : from = cut[at]
    OBVIOUS
  <2>6. PICK to : to = cut[k]
    OBVIOUS
  <2>7. PICK it : it = items[k]
    OBVIOUS
  <2>8. Covers(it, f, from, to) /\ Current = it /\ written = SubSeq(f, 1, from) /\ calls = CallsOf(it)
    BY <2>2, <2>3, <2>4, <2>5, <2>6, <2>7 DEF Current
  <2>9. NextItem /\ written' = SubSeq(f, 1, to)
    BY <1>2, <1>7, <2>8, OneItemMore
  <2>10. at' = k /\ calls' = IF k + 1 \in 1..n THEN CallsOf(items[k + 1]) ELSE <<>>
    <3>1. at + 2 = k + 1 /\ at + 1 = k
      BY <2>1, <2>3
    <3> QED
      BY <1>2, <2>9, <3>1 DEF NextItem
  <2>11. k < n => k + 1 \in 1..n
    OBVIOUS
  <2> QED
    BY <1>1, <2>6, <2>9, <2>10, <2>11
<1>8. CASE Detach
  <2>1. phase = "write" /\ at = Len(prog) /\ prog' = prog /\ phase' = "detached" /\ file' = Detached
    BY <1>8 DEF Detach, Finished, itemVars
  <2> SUFFICES ASSUME prog = items PROVE Detached = f
    BY <2>1 DEF Laid
  <2>2. written = SubSeq(f, 1, cut[n])
    BY <1>1, <2>1 DEF Laid
  <2>3. PICK m \in Nat : m = Len(f) /\ m % 8 = 0
    BY <1>2
  <2>4. written = f
    <3>1. SubSeq(f, 1, m) = f
      BY ONLY <1>2, <2>3
    <3> QED
      BY <1>2, <2>2, <2>3, <3>1
  <2>5. wpos = m /\ Len(mem) = 8 * cap /\ cap \in Nat /\ wpos <= 8 * cap /\ mem \in Seq(Bit)
        /\ \A i \in 1..Len(mem) : mem[i] = IF i <= m THEN f[i] ELSE 0
    BY <2>3, <2>4 DEF WriterInv, WriterExact, BitStrings, Bit
  <2>6. 8 * NeededBytes(0) = m
    BY ONLY <2>3, <2>5, m \in Nat DEF NeededBytes
  <2>7. PICK s : s = mem
    OBVIOUS
  <2>8. s \in Seq(Bit) /\ Len(s) >= m /\ Len(s) \in Nat /\ \A i \in 1..m : s[i] = f[i]
    BY <2>5, <2>7
  <2>9. SubSeq(s, 1, m) = f
    BY ONLY <1>2, <2>3, <2>8
  <2> QED
    BY <2>6, <2>7, <2>9 DEF Detached
<1>9. CASE CloseWriter
  <2>1. phase = "detached" /\ UNCHANGED <<phase, prog, file>>
    BY <1>9 DEF CloseWriter, itemVars, fileVars
  <2> QED
    BY <2>1 DEF Laid
<1>10. CASE \/ Refuse \/ RefuseItem \/ GiveUp \/ DetachFails \/ CloseReader \/ StoreFile \/ ToReader
            \/ \E k \in 0..fileLen : CreateReader(k)
  <2>1. phase' \notin {"write", "detached"}
    BY <1>10 DEF Refuse, RefuseItem, GiveUp, DetachFails, CloseReader, StoreFile, ToReader, CreateReader
  <2> QED
    BY <2>1 DEF Laid
<1>11. CASE ReadItem \/ ReadDirect \/ ReadCodepoint
  <2>1. phase' = "read"
    BY <1>11 DEF ReadItem, ReadDirect, ReadCodepoint, Reading
  <2> QED
    BY <2>1 DEF Laid
<1> QED
  BY <1>4, <1>5, <1>6, <1>7, <1>8, <1>9, <1>10, <1>11 DEF IOStep

-----------------------------------------------------------------------------
(* The whole way of the file *)

\* Wherever the file is, it is the described one.
StoreInv ==
    /\ IOInv /\ original = Build(Stored, 0).buf
    /\ Laid(FileItems, WrittenFile, FileCut(DataBits))

LEMMA SameFile ==
    ASSUME original' = original
    PROVE  FileItems' = FileItems /\ WrittenFile' = WrittenFile /\ FileCut(DataBits)' = FileCut(DataBits)
<1>1. Unpatched' = Unpatched
  BY DEF Unpatched
<1>2. DataBits' = DataBits
  BY DEF DataBits
<1>3. HeaderPieces' = HeaderPieces
  BY <1>1 DEF HeaderPieces, Piece
<1>4. DataPieces' = DataPieces
  BY <1>1, <1>2 DEF DataPieces, Piece
<1>5. FileItems' = FileItems
  BY <1>1, <1>2, <1>3, <1>4 DEF FileItems, Piece
<1>6. WrittenFile' = WrittenFile
  BY <1>1 DEF WrittenFile
<1> QED
  BY <1>2, <1>5, <1>6 DEF FileCut

LEMMA FileIs ==
    ASSUME original = Build(Stored, 0).buf
    PROVE  /\ WritesAll(FileItems, WrittenFile, FileCut(DataBits)) /\ IsProgram(FileItems)
           /\ Len(WrittenFile) % 8 = 0 /\ Patch(WrittenFile) = original
<1>1. PICK body, d : Described(body, d)
  BY OriginalIs
<1>2. DataBits = d
  BY <1>1 DEF Described
<1> QED
  BY <1>1, <1>2, FileWritten, PatchedIs

LEMMA StoreStarts == Init => StoreInv
<1> SUFFICES ASSUME Init PROVE StoreInv
  OBVIOUS
<1>1. IOInv /\ original = Build(Stored, 0).buf
  BY IOStarts DEF Init
<1>2. phase = "idle"
  BY DEF Init, IOInit
<1> QED
  BY <1>1, <1>2 DEF StoreInv, Laid

\* What the rest of the dictionary's file does to the writer and the reader.
LEMMA DamageStep ==
    ASSUME StoreInv, [Next]_vars
    PROVE  (IOStep \/ UNCHANGED ioVars) /\ original' = original
<1>1. CASE IONext /\ UNCHANGED <<original, image, opened>>
  BY <1>1, IONextIs
<1>2. CASE BeginFile
  <2>1. PICK items : items = FileItems
    OBVIOUS
  <2>2. IsProgram(items)
    BY <2>1, FileIs DEF StoreInv
  <2>3. PICK c \in Nat : c = FileCap
    BY FileCapAssumption
  <2>4. OpenWriter(items, c, 0) /\ original' = original
    BY <1>2, <2>1, <2>3 DEF BeginFile
  <2>5. 0 \in Nat
    OBVIOUS
  <2>6. OpenProgram
    BY ONLY <2>2, <2>4, <2>5, c \in Nat, Zenon DEF OpenProgram
  <2> QED
    BY <2>4, <2>6 DEF IOStep
<1>3. CASE Store
  BY <1>3 DEF Store, StoreFile, IOStep
<1>4. CASE \E p \in 0..Len(original) - 1, burst \in Bursts : Disturb(p, burst)
  BY <1>4 DEF Disturb
<1>5. CASE \E n \in 0..Len(original) \div 8 - 1 : Truncate(n)
  BY <1>5 DEF Truncate
<1>6. CASE \E n \in 1..MaxPadding : Pad(n)
  BY <1>6 DEF Pad
<1>7. CASE OpenChecked \/ Restore
  BY <1>7 DEF OpenChecked, Restore
<1>8. CASE UNCHANGED vars
  BY <1>8 DEF vars
<1> QED
  BY <1>1, <1>2, <1>3, <1>4, <1>5, <1>6, <1>7, <1>8 DEF Next

LEMMA StoreKeeps ==
    ASSUME StoreInv, [Next]_vars
    PROVE  StoreInv'
<1>1. (IOStep \/ UNCHANGED ioVars) /\ original' = original
  BY DamageStep
<1>2. original' = Build(Stored, 0).buf
  BY <1>1 DEF StoreInv
<1>3. IOInv'
  BY <1>1, IOKeeps, IOStutters DEF StoreInv
<1>4. PICK items : items = FileItems
  OBVIOUS
<1>5. PICK f : f = WrittenFile
  OBVIOUS
<1>6. PICK cut : cut = FileCut(DataBits)
  OBVIOUS
<1>7. items = FileItems' /\ f = WrittenFile' /\ cut = FileCut(DataBits)'
  BY <1>1, <1>4, <1>5, <1>6, SameFile
<1>8. Laid(items, f, cut) /\ WritesAll(items, f, cut) /\ Len(f) % 8 = 0
  BY <1>4, <1>5, <1>6, FileIs DEF StoreInv
<1>9. Laid(items, f, cut)'
  <2>1. CASE IOStep
    BY <1>8, <2>1, LaidKeeps DEF StoreInv, IOInv
  <2>2. CASE UNCHANGED ioVars
    BY <1>8, <2>2 DEF Laid, ioVars, itemVars, fileVars, writerVars
  <2> QED
    BY <1>1, <2>1, <2>2
<1>10. Laid(FileItems, WrittenFile, FileCut(DataBits))'
  BY <1>7, <1>9 DEF Laid
<1> QED
  BY <1>2, <1>3, <1>10 DEF StoreInv

LEMMA StoreIsExact ==
    ASSUME StoreInv, Next, phase' = "stored", phase # "stored"
    PROVE  image' = original
<1>1. Store
  <2>1. CASE IONext
    BY <2>1 DEF IONext, OpenWriter, WriteAgain, Grow, WriteCall, Refuse, RefuseItem, GiveUp, Detach, DetachFails,
                CloseWriter, CreateReader, ToReader, ReadItem, ReadDirect, ReadCodepoint, CloseReader
  <2>2. CASE BeginFile
    BY <2>2 DEF BeginFile, OpenWriter
  <2>3. CASE UNCHANGED ioVars
    BY <2>3 DEF ioVars
  <2>4. CASE \E p \in 0..Len(original) - 1, burst \in Bursts : Disturb(p, burst)
    BY <2>3, <2>4 DEF Disturb
  <2>5. CASE (\E n \in 0..Len(original) \div 8 - 1 : Truncate(n)) \/ \E n \in 1..MaxPadding : Pad(n)
    BY <2>3, <2>5 DEF Truncate, Pad
  <2>6. CASE OpenChecked \/ Restore
    BY <2>3, <2>6 DEF OpenChecked, Restore
  <2> QED
    BY <2>1, <2>2, <2>4, <2>5, <2>6 DEF Next
<1>2. phase = "detached" /\ prog = FileItems /\ image' = Patch(file)
  BY <1>1 DEF Store
<1>3. file = WrittenFile
  BY <1>2 DEF StoreInv, Laid
<1> QED
  BY <1>2, <1>3, FileIs DEF StoreInv

\* The file that tp_encoder_build hands over is bit for bit the one that the trie writer
\* describes, for every dictionary, every first capacity of the buffer, wherever it has to
\* grow, and whatever was refused and begun again before.
THEOREM FileAlwaysAsBuilt == Spec => StoredAsBuilt
<1>1. StoreInv /\ [Next]_vars => StoreInv'
  BY StoreKeeps
<1>2. StoreInv /\ [Next]_vars => [phase' = "stored" /\ phase # "stored" => image' = original]_vars
  BY StoreIsExact
<1> QED
  BY StoreStarts, <1>1, <1>2, PTL DEF Spec, StoredAsBuilt

\* The same for what the rest of the run states of the writer and the reader, under the
\* specification of the file: neither storing nor patching nor damage disturbs the buffer.
THEOREM FileWriterExact == Spec => []WriterExact
<1>1. StoreInv /\ [Next]_vars => StoreInv'
  BY StoreKeeps
<1>2. StoreInv => WriterExact
  BY DEF StoreInv, IOInv, WriterInv
<1> QED
  BY StoreStarts, <1>1, <1>2, PTL DEF Spec

\* A code point that is read while a file is written or damaged has one spelling, too.
THEOREM FileSpellingOne == Spec => []OneSpelling
<1>1. StoreInv /\ [Next]_vars => StoreInv'
  BY StoreKeeps
<1>2. StoreInv => OneSpelling
  BY SpellingIs DEF StoreInv, IOInv
<1> QED
  BY StoreStarts, <1>1, <1>2, PTL DEF Spec

\* So it is where one of the programs is the file of a dictionary.
THEOREM FileReadBack == Spec => []ReadBack
<1>1. Init => StoreInv /\ BackInv
  BY StoreStarts, BackStarts DEF Init
<1>2. StoreInv /\ BackInv /\ [Next]_vars => StoreInv' /\ BackInv'
  BY StoreKeeps, DamageStep, BackKeeps, BackStutters DEF StoreInv
<1>3. StoreInv /\ BackInv => ReadBack
  BY BackIsRead DEF StoreInv
<1> QED
  BY <1>1, <1>2, <1>3, PTL DEF Spec
=============================================================================
