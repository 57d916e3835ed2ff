------------------------------ MODULE Damage ------------------------------
(***************************************************************************)
(* The file of a dictionary, from the writer to the reader.  It is written *)
(* through the growing buffer of BitIO, detached and patched as            *)
(* tp_encoder_build does; between then and the opening a run of bits is    *)
(* disturbed, the end is cut off, or zero bytes are added.  tp_dict_open   *)
(* reads what is left of it.                                               *)
(***************************************************************************)
EXTENDS TrieDecode, BitIO, Keys

CONSTANTS
    Stored,         \* the entries of the dictionary, sorted
    FileCap,        \* the first capacity of its writer: 256 in the code
    Bursts,         \* patterns of disturbed bits, each starting with a 1
    MaxPadding      \* how many zero bytes may be added

IsValue(v) ==
    \/ v.type = "NULL"
    \/ v.type = "BOOL" /\ v.data \in BOOLEAN
    \/ v.type = "INT" /\ v.data \in Int
    \/ v.type = "UINT" /\ v.data \in Nat
    \/ v.type \in {"FLOAT32", "FLOAT64"} /\ v.data \in Seq(Bit)
    \/ v.type \in {"STRING", "BLOB"} /\ v.data \in Seq(0..255)

\* The entries are what tp_encoder_build makes a file of, one that the model can count.
ASSUME StoredAssumption ==
    /\ Len(Stored) \in Nat /\ Stored = [k \in 1..Len(Stored) |-> Stored[k]]
    /\ \A k \in 1..Len(Stored) : Stored[k].key \in Seq(0..255) /\ IsValue(Stored[k].val)
    /\ \A j, k \in 1..Len(Stored) : j < k => KeyLess(Stored[j].key, Stored[k].key)
    /\ Build(Stored, 0).rc = "OK" /\ Len(Build(Stored, 0).buf) < WordMax
ASSUME FileCapAssumption == FileCap \in Nat

VARIABLES
    original,       \* the bits that the trie writer describes
    image,          \* the bytes of the file, as bits, or <<>> while there is none
    opened          \* the code that the last opening returned, or "no"
vars == <<ioVars, original, image, opened>>

Init == IOInit /\ original = Build(Stored, 0).buf /\ image = <<>> /\ opened = "no"

-----------------------------------------------------------------------------
(* The end of tp_encoder_build *)

\* The bits of the bytes 12 to 27 of the header, which are written as zeros at first.
FilledIn == 8 * 12 + 1 .. 8 * 28
CrcBits == 32
Unpatched == [n \in 1..Len(original) - CrcBits |-> IF n \in FilledIn THEN 0 ELSE original[n]]

\* The header field by field, the data in short pieces, the padding, and a CRC of all that.
HeaderStarts == <<0, 8, 16, 24, 32, 40, 48, 64, 96, 128, 160, 192, 224>>
HeaderWidths == <<8, 8, 8, 8, 8, 8, 16, 32, 32, 32, 32, 32, 32>>
DataBits == Number(SubSeq(original, 8 * 24 + 1, 8 * 28))
PieceBits == 7
Piece(from, n) == Item("APPEND", 0, 0, SubSeq(Unpatched, from + 1, from + n))
HeaderPieces == [k \in 1..Len(HeaderWidths) |-> Piece(HeaderStarts[k], HeaderWidths[k])]
DataPieces == [k \in 1..DataBits \div PieceBits |-> Piece(HeaderBits + PieceBits * (k - 1), PieceBits)]
FileItems ==
    HeaderPieces \o DataPieces
        \o << Piece(HeaderBits + DataBits - (DataBits % PieceBits), DataBits % PieceBits),
              Align, Item("APPEND", 0, 0, Crc32(Unpatched)) >>

BeginFile == OpenWriter(FileItems, FileCap, 0) /\ UNCHANGED <<original, image, opened>>

\* Mutant: the CRC of the header without its offsets is left in the file.
PatchOnce(f) == [n \in DOMAIN f |-> IF n \in FilledIn THEN original[n] ELSE f[n]]

\* The offsets are filled in behind the writer's back, and the CRC is made again.
Patch(f) ==
    LET body == [n \in 1..Len(f) - CrcBits |-> IF n \in FilledIn THEN original[n] ELSE f[n]]
    IN  body \o Crc32(body)

Store ==
    /\ phase = "detached" /\ ~live /\ prog = FileItems
    /\ phase' = "stored" /\ image' = Patch(file)
    /\ prog' = <<>> /\ at' = 0 /\ calls' = <<>> /\ file' = <<>> /\ fileLen' = 0
    /\ UNCHANGED <<writerVars, readVars, original, opened>>

-----------------------------------------------------------------------------
Intact == image = original
Untouched == phase = "stored" /\ opened = "no" /\ Intact

\* The bits of a burst are inverted, from position p on.
Disturb(p, burst) ==
    /\ Untouched
    /\ p + Len(burst) <= Len(image)
    /\ image' = [n \in DOMAIN image |->
                    IF n - p \in DOMAIN burst THEN (image[n] + burst[n - p]) % 2 ELSE image[n]]
    /\ UNCHANGED <<ioVars, original, opened>>

\* Only the first n bytes are kept.
Truncate(n) ==
    /\ Untouched
    /\ 8 * n < Len(image)
    /\ image' = SubSeq(image, 1, 8 * n)
    /\ UNCHANGED <<ioVars, original, opened>>

Pad(n) ==
    /\ Untouched
    /\ image' = image \o Zeros(8 * n)
    /\ UNCHANGED <<ioVars, original, opened>>

\* tp_dict_open
OpenChecked ==
    /\ phase = "stored" /\ opened = "no"
    /\ opened' = Open(image, TRUE).rc
    /\ UNCHANGED <<ioVars, original, image>>

\* tp_dict_close, and another copy of the file.
Restore ==
    /\ opened # "no"
    /\ opened' = "no" /\ image' = original
    /\ UNCHANGED <<ioVars, original>>

Next ==
    \/ IONext /\ UNCHANGED <<original, image, opened>>
    \/ BeginFile \/ Store
    \/ \E p \in 0..Len(original) - 1, burst \in Bursts : Disturb(p, burst)
    \/ \E n \in 0..Len(original) \div 8 - 1 : Truncate(n)
    \/ \E n \in 1..MaxPadding : Pad(n)
    \/ OpenChecked \/ Restore

\* A call that has begun to grow the buffer goes on; that memory is granted is not assumed.
Spec == Init /\ [][Next]_vars /\ WF_vars(Grow /\ UNCHANGED <<original, image, opened>>)

-----------------------------------------------------------------------------
\* tp_dict_open accepts the file that was built and no damaged one: the checks of
\* length, magic, version and CRC together leave no gap (the CRC covers all bytes
\* but its own, and a cut file does not pass for a shorter one).
DamageRefused == opened # "no" => (opened = "OK" <=> Intact)

\* The file that tp_encoder_build hands over is the one that the trie writer describes:
\* neither the growth of the buffer nor the patching behind the writer leaves a trace.
StoredAsBuilt == [][phase' = "stored" /\ phase # "stored" => image' = original]_vars
=============================================================================
