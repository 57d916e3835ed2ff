---------------------------- MODULE OrderedMap ----------------------------
(***************************************************************************)
(* What a compiled dictionary promises its user: a finite map from keys to *)
(* values that is loaded once and then only read, and a cursor that yields *)
(* the keys of a range of the map in byte order.  Nothing here knows of    *)
(* bits.  The cursor is the set of keys it has still to yield (left) and   *)
(* the set it starts from again when it is reset (range).                  *)
(***************************************************************************)
EXTENDS Keys, FiniteSets

CONSTANTS
    Maps,           \* the maps that may be loaded
    QueryKeys,      \* the keys and prefixes that are asked for
    MaxDepth,       \* how many branchings a cursor can be inside of
    NoValue         \* the value reported along with a failure

VARIABLES loaded, map, cursor, range, left, out
vars == <<loaded, map, cursor, range, left, out>>

Truth(b) == [type |-> "BOOL", data |-> b]
Answer(op, k, rc, v) == [op |-> op, key |-> k, rc |-> rc, val |-> v]
Nothing == Answer("none", <<>>, "OK", NoValue)
NoCursor == cursor' = FALSE /\ range' = {} /\ left' = {}

Init ==
    /\ loaded = FALSE /\ map = <<>>
    /\ cursor = FALSE /\ range = {} /\ left = {}
    /\ out = Nothing

Load ==
    /\ ~loaded
    /\ loaded' = TRUE /\ map' \in Maps
    /\ NoCursor
    /\ out' = Answer("open", <<>>, "OK", NoValue)

\* A lookup tells whether the key is in the map, and its value.  Of a key that
\* extends the greatest key of the map by further bytes nothing is promised:
\* the reader has no mark for the end of the trie there.
PastTheLast(k) == DOMAIN map # {} /\ IsStrictPrefix(LastKey(DOMAIN map), k)

Lookup(k) ==
    /\ loaded
    /\ out'.op = "lookup" /\ out'.key = k
    /\ k \in DOMAIN map => out' = Answer("lookup", k, "OK", map[k])
    /\ k \notin DOMAIN map /\ ~PastTheLast(k) => out' = Answer("lookup", k, "NOT_FOUND", NoValue)
    /\ UNCHANGED <<loaded, map, cursor, range, left>>

\* The answer to a question of membership is right wherever a lookup is.
Member(k) ==
    /\ loaded
    /\ out'.op = "contains" /\ out'.key = k
    /\ k \in DOMAIN map \/ ~PastTheLast(k) =>
        out' = Answer("contains", k, "OK", Truth(k \in DOMAIN map))
    /\ UNCHANGED <<loaded, map, cursor, range, left>>

\* A cursor over the keys that start with p.  Without such a key it yields
\* nothing, and a reset turns it into a cursor over the whole map.
Find(p) ==
    LET keys == WithPrefix(DOMAIN map, p)
    IN  /\ loaded /\ ~cursor
        /\ cursor' = TRUE
        /\ range' = (IF keys = {} THEN DOMAIN map ELSE keys)
        /\ left' = keys
        /\ out' = Answer("find", p, "OK", NoValue)
        /\ UNCHANGED <<loaded, map>>

\* The points where the keys of S part on the way to k: k itself when it has
\* extensions, and every prefix of k that other keys leave.
Branchings(S, k) ==
    {n \in 0..Len(k) :
        LET below == WithPrefix(S, SubSeq(k, 1, n))
        IN  \E x \in below : Len(x) > n
                /\ \E y \in below : Len(y) = n \/ (Len(y) > n /\ y[n + 1] # x[n + 1])}

\* A step yields the least key that is left.  It fails, and ends the iteration,
\* when that key is nested too deep.
Step ==
    LET k == FirstKey(left)
    IN  /\ cursor
        /\ \/ /\ left = {}
              /\ left' = {} /\ out' = Answer("next", <<>>, "EOF", NoValue)
           \/ /\ left # {} /\ Cardinality(Branchings(range, k)) <= MaxDepth
              /\ left' = left \ {k} /\ out' = Answer("next", k, "OK", map[k])
           \/ /\ left # {} /\ Cardinality(Branchings(range, k)) > MaxDepth
              /\ left' = {} /\ out' = Answer("next", <<>>, "OVERFLOW", NoValue)
        /\ UNCHANGED <<loaded, map, cursor, range>>

Reset ==
    /\ cursor
    /\ left' = range
    /\ out' = Answer("reset", <<>>, "OK", NoValue)
    /\ UNCHANGED <<loaded, map, cursor, range>>

Destroy ==
    /\ cursor
    /\ NoCursor
    /\ out' = Nothing
    /\ UNCHANGED <<loaded, map>>

Close ==
    /\ loaded /\ ~cursor
    /\ loaded' = FALSE /\ map' = <<>>
    /\ out' = Nothing
    /\ UNCHANGED <<cursor, range, left>>

Next ==
    \/ Load \/ Step \/ Reset \/ Destroy \/ Close
    \/ \E k \in QueryKeys : Lookup(k) \/ Member(k) \/ Find(k)

Spec == Init /\ [][Next]_vars
=============================================================================
