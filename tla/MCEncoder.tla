----------------------------- MODULE MCEncoder -----------------------------
(***************************************************************************)
(* A small heap for Encoder.  The addresses are interchangeable.           *)
(***************************************************************************)
EXTENDS Encoder, TLC

Addresses == Permutations(Block)

\* Longer arrays are checked when they are reached and not explored from.
MaxEntries == 3
ShortArray == count <= MaxEntries
=============================================================================
