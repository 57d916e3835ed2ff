----------------------------- MODULE MapBuilder -----------------------------
(***************************************************************************)
(* What an encoder promises its user: a map that grows entry by entry, the *)
(* value added last for a key counting, and files that are made of it.  A  *)
(* file is made of the entries of the whole map in the order of their      *)
(* keys, each once, and making it leaves the map as it was, whether it     *)
(* succeeds or not.  Nothing here knows of arrays, sorting or memory.      *)
(***************************************************************************)
EXTENDS Integers, Sequences

CONSTANTS
    Key, Val,       \* as of the encoder
    File            \* what names a file

VARIABLES
    exists,         \* whether there is an encoder
    content,        \* the map
    stage,          \* "idle", "prepare" or "write": how far a build is
    listing,        \* the entries that a file is being made of
    files           \* the files that the user has
vars == <<exists, content, stage, listing, files>>

Empty == [k \in {} |-> k]
NoListing == <<>>

Init == exists = FALSE /\ content = Empty /\ stage = "idle" /\ listing = NoListing /\ files = {}

Create ==
    /\ ~exists /\ stage = "idle"
    /\ exists' = TRUE /\ content' = Empty
    /\ UNCHANGED <<stage, listing, files>>

Put(k, v) ==
    /\ exists /\ stage = "idle"
    /\ content' = [x \in DOMAIN content \cup {k} |-> IF x = k THEN v ELSE content[x]]
    /\ UNCHANGED <<exists, stage, listing, files>>

Begin ==
    /\ exists /\ stage = "idle"
    /\ stage' = "prepare"
    /\ UNCHANGED <<exists, content, listing, files>>

\* The entries of a map in the order of their keys.
Lists(l, m) ==
    /\ DOMAIN l = 1..Len(l)
    /\ \A x, y \in DOMAIN l : x < y => l[x].key < l[y].key
    /\ {l[x].key : x \in DOMAIN l} = DOMAIN m
    /\ \A x \in DOMAIN l : l[x].val = m[l[x].key]

\* A map of at most one entry needs no preparation.
List ==
    /\ exists /\ stage \in {"idle", "prepare"}
    /\ stage' = "write" /\ Lists(listing', content)
    /\ UNCHANGED <<exists, content, files>>

\* The file is made, or it is not.
Finish(f) ==
    /\ stage = "write" /\ f \notin files
    /\ stage' = "idle" /\ listing' = NoListing /\ files' = files \cup {f}
    /\ UNCHANGED <<exists, content>>
GiveUp ==
    /\ stage = "write"
    /\ stage' = "idle" /\ listing' = NoListing
    /\ UNCHANGED <<exists, content, files>>

Reset ==
    /\ exists /\ stage = "idle"
    /\ content' = Empty
    /\ UNCHANGED <<exists, stage, listing, files>>

Destroy ==
    /\ exists /\ stage = "idle"
    /\ exists' = FALSE /\ content' = Empty
    /\ UNCHANGED <<stage, listing, files>>

Release(f) ==
    /\ f \in files /\ files' = files \ {f}
    /\ UNCHANGED <<exists, content, stage, listing>>

Next ==
    \/ Create \/ Begin \/ List \/ GiveUp \/ Reset \/ Destroy
    \/ \E k \in Key, v \in Val : Put(k, v)
    \/ \E f \in File : Finish(f) \/ Release(f)

Spec == Init /\ [][Next]_vars
=============================================================================
