----------------------------- MODULE BitWriter -----------------------------
(***************************************************************************)
(* The growable writer of the bit stream library (tp_bitstream_writer).    *)
(* Its buffer is a sequence of bits, eight to a byte.  A write that does   *)
(* not fit begins to grow the buffer; the loop that looks for a capacity   *)
(* goes one turn a step.                                                   *)
(***************************************************************************)
EXTENDS Integers, Sequences

CONSTANTS
    Pieces,         \* the runs of bits that one call may write
    Caps,           \* initial capacities in bytes, 0 for the default
    Growths,        \* growth increments in bytes, 0 for doubling
    DefaultCap      \* DEFAULT_WRITER_CAP: 256 in the code

ASSUME WriterAssumption ==
    /\ Pieces \subseteq Seq({0, 1})
    /\ Caps \subseteq Nat /\ Growths \subseteq Nat /\ DefaultCap \in Nat \ {0}

VARIABLES
    live,           \* there is a writer
    mem,            \* the bits of its buffer
    cap,            \* the size of the buffer in bytes
    growth,
    wpos,           \* the position in bits
    want,           \* in ensure_capacity: the bytes that are needed, else 0
    growTo,         \* in ensure_capacity: the capacity that is considered
    written         \* history: what was written since the buffer is empty
writerVars == <<live, mem, cap, growth, wpos, want, growTo, written>>

Cleared(n) == [i \in 1..n |-> 0]

WriterInit ==
    /\ live = FALSE /\ mem = <<>> /\ cap = 0 /\ growth = 0
    /\ wpos = 0 /\ want = 0 /\ growTo = 0 /\ written = <<>>

\* tp_bs_writer_create
CreateWriter(initial, g) ==
    /\ ~live
    /\ live' = TRUE /\ growth' = g
    /\ cap' = IF initial > 0 THEN initial ELSE DefaultCap
    /\ mem' = Cleared(8 * cap') /\ wpos' = 0 /\ written' = <<>>
    /\ UNCHANGED <<want, growTo>>

\* Also where growing fails and the caller gives up, as every caller in the library does.
DestroyWriter ==
    /\ live /\ want = 0
    /\ live' = FALSE /\ mem' = <<>> /\ cap' = 0 /\ wpos' = 0 /\ written' = <<>>
    /\ UNCHANGED <<growth, want, growTo>>

-----------------------------------------------------------------------------
(* ensure_capacity *)

NeededBytes(n) == (wpos + n + 7) \div 8
\* Mutant: without an increment the capacity stays.
LargerByIncrement(c) == c + growth
Larger(c) == IF growth > 0 THEN c + growth ELSE 2 * c
Fits(n) == want = 0 /\ NeededBytes(n) <= cap

\* A call that writes n bits finds that they do not fit.
BeginGrowth(n) ==
    /\ live /\ want = 0 /\ NeededBytes(n) > cap
    /\ want' = NeededBytes(n) /\ growTo' = Larger(cap)
    /\ UNCHANGED <<live, mem, cap, growth, wpos, written>>

GrowTurn ==
    /\ want > 0 /\ growTo < want
    /\ growTo' = Larger(growTo)
    /\ UNCHANGED <<live, mem, cap, growth, wpos, want, written>>

\* Mutant: what realloc adds is not cleared.
ReallocDirty ==
    /\ want > 0 /\ growTo >= want
    /\ mem' = mem \o [i \in 1..8 * (growTo - cap) |-> 1] /\ cap' = growTo /\ want' = 0 /\ growTo' = 0
    /\ UNCHANGED <<live, growth, wpos, written>>

\* realloc, and memset on what it has added.
Realloc ==
    /\ want > 0 /\ growTo >= want
    /\ mem' = mem \o Cleared(8 * (growTo - cap)) /\ cap' = growTo /\ want' = 0 /\ growTo' = 0
    /\ UNCHANGED <<live, growth, wpos, written>>

\* realloc returns NULL and the call TP_ERR_ALLOC.
RefuseRealloc ==
    /\ want > 0 /\ growTo >= want
    /\ want' = 0 /\ growTo' = 0
    /\ UNCHANGED <<live, mem, cap, growth, wpos, written>>

-----------------------------------------------------------------------------
\* The loop of tp_bs_write_bits, tp_bs_writer_append_buffer and tp_bs_copy_bits.
WritePiece(bits) ==
    /\ live /\ Fits(Len(bits))
    /\ mem' = [i \in 1..Len(mem) |-> IF i - wpos \in 1..Len(bits) THEN bits[i - wpos] ELSE mem[i]]
    /\ wpos' = wpos + Len(bits)
    /\ written' = written \o bits
    /\ UNCHANGED <<live, cap, growth, want, growTo>>

\* The zero bits that bring the writer to a byte boundary.
Padding == (8 - (wpos % 8)) % 8

\* tp_bs_writer_align_to_byte relies on the buffer being clear there.
AlignPiece ==
    /\ live /\ Fits(Padding)
    /\ wpos' = wpos + Padding
    /\ written' = written \o Cleared(Padding)
    /\ UNCHANGED <<live, mem, cap, growth, want, growTo>>

\* What tp_bs_writer_detach_buffer hands over: whole bytes.
Detached == SubSeq(mem, 1, 8 * NeededBytes(0))

DetachBuffer ==
    /\ live /\ want = 0
    /\ mem' = Cleared(8 * cap) /\ wpos' = 0 /\ written' = <<>>
    /\ UNCHANGED <<live, cap, growth, want, growTo>>

\* No memory for the next buffer: the writer is left without one.
DetachRefused ==
    /\ live /\ want = 0
    /\ mem' = <<>> /\ cap' = 0 /\ wpos' = 0 /\ written' = <<>>
    /\ UNCHANGED <<live, growth, want, growTo>>

WriterNext ==
    \/ \E initial \in Caps, g \in Growths : CreateWriter(initial, g)
    \/ \E bits \in Pieces : BeginGrowth(Len(bits)) \/ WritePiece(bits)
    \/ BeginGrowth(Padding) \/ AlignPiece
    \/ GrowTurn \/ Realloc \/ RefuseRealloc
    \/ DetachBuffer \/ DetachRefused \/ DestroyWriter
WriterSpec == WriterInit /\ [][WriterNext]_writerVars

-----------------------------------------------------------------------------
\* The buffer holds exactly what was written, in its place, however often it has grown,
\* and is clear behind: aligning and the last byte of a detached buffer rely on it.
WriterExact ==
    /\ Len(mem) = 8 * cap /\ wpos = Len(written) /\ wpos <= 8 * cap
    /\ \A i \in 1..Len(mem) : mem[i] = IF i <= wpos THEN written[i] ELSE 0
=============================================================================
