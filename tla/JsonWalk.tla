----------------------------- MODULE JsonWalk -----------------------------
(***************************************************************************)
(* The first half of tp_json_decode (src/json/json_decode.c): a walk over  *)
(* the bits of a compiled document that collects keys and values, one step *)
(* for each symbol.  A refused malloc of a key loses the entry and the     *)
(* walk goes on.                                                           *)
(***************************************************************************)
EXTENDS TrieDecode, Keys

CONSTANTS
    WalkDepth,      \* frames of the stack of extract_entries: 256 in the code
    KeyCap,         \* sizeof key_buf: 4096 in the code
    CountLimit,     \* remaining_children stays below: 2^32 in the code
    MayRefuse       \* bound: whether a malloc may be refused, once in a decode

ASSUME WalkAssumption == WalkDepth \in Nat /\ KeyCap \in Nat \ {0} /\ CountLimit \in Nat \ {0}

VARIABLES
    stage,          \* "idle", "walk", "finish", "done"
    dict,           \* the open dictionary
    walk,           \* the reader, key buffer, stack and entries of the walk
    refused,        \* whether a malloc was refused
    out             \* the result code and the tree
decodeVars == <<stage, dict, walk, refused, out>>

NoDict == [buf |-> <<>>]
NoWalk == [pos |-> 0, key |-> <<>>, stack |-> <<>>, entries |-> <<>>]
NoTree == <<"none">>

DecodeInit ==
    /\ stage = "idle" /\ dict = NoDict /\ walk = NoWalk
    /\ refused = FALSE /\ out = [rc |-> "none", tree |-> NoTree]

Ends(code) ==
    /\ stage' = "done" /\ out' = [rc |-> code, tree |-> NoTree]
    /\ UNCHANGED <<dict, walk, refused>>

\* extract_entries up to the loop.
DecodeOpen(buf) ==
    LET opened == Open(buf, TRUE)
        start == Seek(buf, opened.val.trie_start)
    IN  /\ stage = "idle"
        /\ \/ opened.rc # "OK" /\ Ends(opened.rc)
           \/ opened.rc = "OK" /\ MayRefuse /\ Ends("ALLOC")
           \/ opened.rc = "OK" /\ start.rc # "OK" /\ Ends(start.rc)
           \/ /\ opened.rc = "OK" /\ start.rc = "OK"
              /\ stage' = "walk" /\ dict' = opened.val
              /\ walk' = [NoWalk EXCEPT !.pos = start.pos]
              /\ UNCHANGED <<refused, out>>

\* The condition and the first read of the loop, and what the symbol is taken for: the
\* control codes are compared with it in this order.
Walking == stage = "walk" /\ Len(walk.entries) < dict.num_keys
Sym == ReadBits(dict.buf, walk.pos, dict.sym.bps)
Symbol ==
    LET c == dict.sym.ctrl
    IN  IF Sym.rc # "OK" THEN "none"
        ELSE IF Sym.val = c.END THEN "END"
        ELSE IF Sym.val = c.END_VAL THEN "END_VAL"
        ELSE IF Sym.val = c.BRANCH THEN "BRANCH"
        ELSE IF Sym.val = c.SKIP THEN "SKIP"
        ELSE IF Sym.val \in dict.sym.is_ctrl THEN "other" ELSE "byte"
Operand == ReadVarintU(dict.buf, Sym.pos)

\* The SKIP and the distance in front of a child, read at p.
ReadSkip(p) ==
    Then(ReadBits(dict.buf, p, dict.sym.bps), LAMBDA s, q : ReadVarintU(dict.buf, q))

\* Behind a terminal: drop the frames without children left, go to the next child
\* of the one that has, or stay.  The last child has no SKIP.  A terminal with a
\* branch behind it is not expected.
Pending == {i \in DOMAIN walk.stack : walk.stack[i].remaining > 0}

\* Mutant: the frames without children left stay above it.
NextChildKeepsFrames(p) ==
    IF Pending = {} THEN [rc |-> "OK", pos |-> p, key |-> walk.key, stack |-> <<>>]
    ELSE LET n == CHOOSE i \in Pending : \A j \in Pending : j <= i
             frame == walk.stack[n]
             left == frame.remaining - 1
             skip == IF left = 0 THEN Ok(0, p) ELSE ReadSkip(p)
         IN  [ rc |-> skip.rc, pos |-> skip.pos, key |-> SubSeq(walk.key, 1, frame.key_len),
               stack |-> [walk.stack EXCEPT ![n] = [frame EXCEPT !.remaining = left]] ]

NextChild(p) ==
    IF Pending = {} THEN [rc |-> "OK", pos |-> p, key |-> walk.key, stack |-> <<>>]
    ELSE LET n == CHOOSE i \in Pending : \A j \in Pending : j <= i
             frame == walk.stack[n]
             left == frame.remaining - 1
             skip == IF left = 0 THEN Ok(0, p) ELSE ReadSkip(p)
         IN  [ rc |-> skip.rc, pos |-> skip.pos, key |-> SubSeq(walk.key, 1, frame.key_len),
               stack |-> Append(SubSeq(walk.stack, 1, n - 1), [frame EXCEPT !.remaining = left]) ]

\* The entry for the key in the buffer: its value is looked up again.
EntryHere ==
    LET r == Lookup(dict, walk.key)
    IN  [key |-> walk.key, val |-> IF r.rc = "OK" THEN <<r.val.type, r.val.data>> ELSE <<"NULL", 0>>]

\* END and END_VAL.  When the SKIP behind it cannot be read the walk ends as if it
\* were complete.
WalkTerminal ==
    LET operand == IF Symbol = "END" THEN Ok(0, Sym.pos) ELSE Operand
        next == NextChild(operand.pos)
    IN  /\ Walking /\ Symbol \in {"END", "END_VAL"}
        /\ IF operand.rc # "OK" THEN Ends(operand.rc)
           ELSE /\ \E stored \in {TRUE} \cup {~(MayRefuse /\ ~refused)} :
                    /\ refused' = (refused \/ ~stored)
                    /\ walk' = [ pos |-> next.pos, key |-> next.key, stack |-> next.stack,
                                 entries |-> IF stored THEN Append(walk.entries, EntryHere)
                                             ELSE walk.entries ]
                /\ stage' = (IF next.rc = "OK" THEN "walk" ELSE "finish")
                /\ UNCHANGED <<dict, out>>

\* BRANCH: the first of several children is behind a SKIP.
WalkBranch ==
    LET skip == IF Operand.val > 1 THEN ReadSkip(Operand.pos) ELSE Operand
        frame == [ key_len |-> Len(walk.key),
                   remaining |-> IF Operand.val > 1 THEN (Operand.val - 1) % CountLimit ELSE 0 ]
    IN  /\ Walking /\ Symbol = "BRANCH"
        /\ IF Operand.rc # "OK" THEN Ends(Operand.rc)
           ELSE IF Len(walk.stack) >= WalkDepth THEN Ends("JSON_DEPTH")
           ELSE IF skip.rc # "OK" THEN Ends(skip.rc)
           ELSE /\ walk' = [walk EXCEPT !.pos = skip.pos, !.stack = Append(@, frame)]
                /\ UNCHANGED <<stage, dict, refused, out>>

WalkSkip ==
    /\ Walking /\ Symbol = "SKIP"
    /\ IF Operand.rc # "OK" THEN Ends(Operand.rc)
       ELSE walk' = [walk EXCEPT !.pos = Operand.pos] /\ UNCHANGED <<stage, dict, refused, out>>

\* A byte of the key, as long as there is room for the zero byte behind it; the other
\* control codes are passed over.
RoomForKey == Len(walk.key) < KeyCap - 1
WalkSymbol ==
    /\ Walking /\ Symbol \in {"byte", "other"}
    /\ walk' = [walk EXCEPT !.pos = Sym.pos,
                            !.key = IF Symbol = "byte" /\ RoomForKey THEN Append(@, ByteOf(dict.sym, Sym.val)) ELSE @]
    /\ UNCHANGED <<stage, dict, refused, out>>

WalkFails == Walking /\ Symbol = "none" /\ Ends(Sym.rc)

WalkComplete ==
    /\ stage = "walk" /\ ~Walking
    /\ stage' = "finish"
    /\ UNCHANGED <<dict, walk, refused, out>>

Walk == WalkTerminal \/ WalkBranch \/ WalkSkip \/ WalkSymbol \/ WalkFails \/ WalkComplete

\* The walk over any bits at all.
WalkSpec == DecodeInit /\ [][(\E buf \in Seq(Bit) : DecodeOpen(buf)) \/ Walk]_decodeVars

-----------------------------------------------------------------------------
\* The reader and the stack of the walk stay where they belong: inside the buffer,
\* in a key buffer that each open branch has a prefix of, below the depth limit.
WalkInside ==
    stage = "walk" =>
        /\ walk.pos <= Len(dict.buf)
        /\ Len(walk.stack) <= WalkDepth
        /\ Len(walk.entries) <= dict.num_keys
        /\ Len(walk.key) < KeyCap
        /\ \A i \in DOMAIN walk.stack : walk.stack[i].key_len <= Len(walk.key)
=============================================================================
