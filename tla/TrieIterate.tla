---------------------------- MODULE TrieIterate ----------------------------
(***************************************************************************)
(* Iterators and prefix search (src/core/decoder.c).  A frame of the stack *)
(* is a BRANCH the walk is inside of.  The key buffer is modelled by its   *)
(* first key_len bytes.                                                    *)
(***************************************************************************)
EXTENDS TrieDecode

\* Mutant: an iteration that has ended is not taken up again.
IterResetKeepsDone(d, it) ==
    [it EXCEPT !.started = FALSE, !.stack = <<>>, !.key = SubSeq(it.key, 1, it.root_key_len),
               !.value_pos = d.value_start, !.value_index = 0]

\* tp_iter_reset
IterReset(d, it) ==
    [it EXCEPT !.done = FALSE, !.started = FALSE, !.stack = <<>>,
               !.key = SubSeq(it.key, 1, it.root_key_len),
               !.value_pos = d.value_start, !.value_index = 0]

\* tp_dict_iterate
Iterate(d) ==
    IterReset(d, [ done |-> FALSE, started |-> FALSE, stack |-> <<>>, key |-> <<>>,
                   root_pos |-> d.trie_start, root_end |-> d.value_start, root_key_len |-> 0,
                   value_pos |-> 0, value_index |-> 0 ])

\* The outcomes of a call: an entry, or a code.  ITER_FAIL ends the iteration.
Yield(it, k, v) == [it |-> it, out |-> [rc |-> "OK", key |-> k, val |-> v]]
IterFail(it, code) ==
    [it |-> [it EXCEPT !.done = TRUE], out |-> [rc |-> code, key |-> <<>>, val |-> NullValue]]
ThenIter(it, r, Continue(_, _)) ==
    IF r.rc = "OK" THEN Continue(r.val, r.pos) ELSE IterFail(it, r.rc)

\* Mutant: the cursor is taken to stand at the index.
CursorTrusted(d, it, index) == Ok(0, it.value_pos)

\* An iterator in the middle of a call, and what the call does next with it.
Going(it) == [it |-> it, out |-> [rc |-> "OK"]]
ThenOn(r, Continue(_)) == IF r.out.rc = "OK" THEN Continue(r.it) ELSE r

\* iter_value_at: the cursor of the value store is used when it already stands
\* at the index, and left behind the value that was decoded.
CursorAt(d, it, index) ==
    IF index = it.value_index THEN Ok(0, it.value_pos)
    ELSE Then(Seek(d.buf, d.value_start), LAMBDA x, p : SkipValues(d.buf, p, index))

YieldValueAt(d, it, index) ==
    IF ~d.has_values THEN Yield(it, it.key, NullValue)
    ELSE ThenIter(it, CursorAt(d, it, index), LAMBDA x, p :
           ThenIter([it EXCEPT !.value_pos = p, !.value_index = index], DecodeValue(d.buf, p),
             LAMBDA v, q : Yield([it EXCEPT !.value_pos = q, !.value_index = index + 1], it.key, v)))

\* The stack has TP_ITER_MAX_DEPTH frames.
StackFullLate(stack) == Len(stack) > MaxDepth       \* mutant
StackFull(stack) == Len(stack) >= MaxDepth

\* A BRANCH read at p is pushed as a frame, unless the stack is full.  The result
\* is the iterator with the frame, or a failure.
PushFrame(d, it, p, end) ==
    ThenIter(it, ReadVarintU(d.buf, p), LAMBDA n, q :
        IF StackFull(it.stack) THEN IterFail(it, "OVERFLOW")
        ELSE Going([it EXCEPT !.stack = Append(it.stack,
                [ subtree_end |-> end, next_child_pos |-> q, remaining |-> n,
                  key_prefix_len |-> Len(it.key) ])]))

\* A terminal: a BRANCH follows exactly when the subtree goes on.
AtTerminal(d, it, p, end) ==
    IF p >= end THEN Going(it)
    ELSE ThenIter(it, ReadBits(d.buf, p, d.sym.bps), LAMBDA b, q :
           IF b # d.sym.ctrl.BRANCH THEN IterFail(it, "CORRUPT")
           ELSE PushFrame(d, it, q, end))

\* The frames left when those without unvisited children are unwound.
Unwind(stack) ==
    LET open == {i \in DOMAIN stack : stack[i].remaining # 0}
    IN  SubSeq(stack, 1, IF open = {} THEN 0 ELSE Max(open))

\* Where the last child of a frame ends: where its parent does.
LastChildEnd(f) == f.subtree_end

\* An iterator that goes on with the subtree from p to end.
GoingDown(it, p, end) == [it |-> it, out |-> [rc |-> "OK"], p |-> p, end |-> end]

\* The next unvisited child of the innermost frame, or the end.
NextSibling(d, it0) ==
    LET it == [it0 EXCEPT !.stack = Unwind(it0.stack)]
        f == Last(it.stack)
        top == Len(it.stack)
        here == [it EXCEPT !.key = SubSeq(it.key, 1, f.key_prefix_len)]
        Visit(child, end, next) ==
            GoingDown([here EXCEPT !.stack[top].remaining = f.remaining - 1,
                                   !.stack[top].next_child_pos = next], child, end)
    IN  IF it.stack = <<>> THEN IterFail(it, "EOF")
        ELSE ThenIter(here, Seek(d.buf, f.next_child_pos), LAMBDA x, p :
               IF f.remaining = 1 THEN Visit(p, LastChildEnd(f), p)
               ELSE ThenIter(here, ReadBits(d.buf, p, d.sym.bps), LAMBDA s, q :
                      IF s # d.sym.ctrl.SKIP THEN IterFail(here, "CORRUPT")
                      ELSE ThenIter(here, ReadVarintU(d.buf, q), LAMBDA dist, child :
                             Visit(child, child + dist, child + dist))))

Frame == [subtree_end : Nat, next_child_pos : Nat, remaining : Nat, key_prefix_len : Nat]
Iterator == [ done : BOOLEAN, started : BOOLEAN, stack : Seq(Frame), key : Seq(Nat), root_pos : Nat,
              root_end : Nat, root_key_len : Nat, value_pos : Nat, value_index : Nat ]

\* Down the subtree that r, the outcome of the last step, leads to, from sibling to
\* sibling, until it yields a key.
Walk(d, r) ==
    LET from[x \in Iterator \X Nat \X Nat] ==
            LET it == x[1]
                p == x[2]
                end == x[3]
                Down(r1) == ThenOn(r1, LAMBDA i : from[<<i, r1.p, r1.end>>])
            IN  ThenIter(it, Seek(d.buf, p), LAMBDA y, p0 :
                  IF p >= end THEN Down(NextSibling(d, it))
                  ELSE ThenIter(it, ReadBits(d.buf, p, d.sym.bps), LAMBDA code, q :
                    CASE code = d.sym.ctrl.END ->
                            ThenOn(AtTerminal(d, it, q, end), LAMBDA i : Yield(i, i.key, NullValue))
                      [] code = d.sym.ctrl.END_VAL ->
                            ThenIter(it, ReadVarintU(d.buf, q), LAMBDA vi, t :
                                ThenOn(AtTerminal(d, it, t, end), LAMBDA i : YieldValueAt(d, i, vi)))
                      [] code = d.sym.ctrl.BRANCH ->
                            ThenOn(PushFrame(d, it, q, end), LAMBDA i : Down(NextSibling(d, i)))
                      [] OTHER ->
                            IF code \in d.sym.is_ctrl THEN IterFail(it, "CORRUPT")
                            ELSE from[<<[it EXCEPT !.key = Append(it.key, ByteOf(d.sym, code))], q, end>>]))
    IN  ThenOn(r, LAMBDA i : from[<<i, r.p, r.end>>])

\* tp_iter_next
IterNext(d, it) ==
    IF it.done \/ d.num_keys = 0 THEN IterFail(it, "EOF")
    ELSE Walk(d, IF it.started THEN NextSibling(d, it)
                 ELSE GoingDown([it EXCEPT !.started = TRUE, !.key = SubSeq(it.key, 1, it.root_key_len)],
                                it.root_pos, it.root_end))

-----------------------------------------------------------------------------
\* descend_to_prefix: the bounds of the subtree below the prefix.

\* The child of a BRANCH whose first symbol is the given byte, among n children from
\* p to end; the symbol is read again by the caller.
DescendChild(d, byte, p, end, n) ==
    LET First(q) == Number(SubSeq(d.buf, q + 1, q + d.sym.bps))
        among[x \in Nat \X Nat] ==         \* the position, and the children left
            LET Try(child, stop) == IF First(child) = SymbolOf(d.sym, byte)
                                    THEN Ok([pos |-> child, end |-> stop], stop)
                                    ELSE among[<<stop, x[2] - 1>>]
            IN  IF x[2] = 0 THEN NotFound
                ELSE Then(Seek(d.buf, x[1]), LAMBDA y, q :
                       IF x[2] = 1 THEN Try(q, end)
                       ELSE Then(ReadBits(d.buf, q, d.sym.bps), LAMBDA s, t :
                              IF s # d.sym.ctrl.SKIP THEN Fail("CORRUPT", q)
                              ELSE Then(ReadVarintU(d.buf, t), LAMBDA dist, u : Try(u, u + dist))))
    IN  among[<<p, n>>]

Descend(d, prefix, start, stop) ==
    LET from[x \in Nat \X Nat \X Nat] ==
            LET p == x[1]
                end == x[2]
                matched == x[3]
                AtBranch(q) ==
                    Then(ReadVarintU(d.buf, q), LAMBDA n, t :
                        Then(DescendChild(d, prefix[matched + 1], t, end, n), LAMBDA child, u :
                            from[<<child.pos, child.end, matched>>]))
                PastKey(q) == IF q >= end THEN NotFound
                              ELSE Then(ReadBits(d.buf, q, d.sym.bps), LAMBDA b, t :
                                     IF b # d.sym.ctrl.BRANCH THEN Fail("CORRUPT", q) ELSE AtBranch(t))
            IN  IF matched = Len(prefix) THEN Ok([pos |-> p, end |-> end], p)
                ELSE IF p >= end THEN NotFound
                ELSE Then(ReadBits(d.buf, p, d.sym.bps), LAMBDA code, q :
                  CASE code = d.sym.ctrl.END -> PastKey(q)
                    [] code = d.sym.ctrl.END_VAL -> Then(ReadVarintU(d.buf, q), LAMBDA vi, t : PastKey(t))
                    [] code = d.sym.ctrl.BRANCH -> AtBranch(q)
                    [] OTHER -> IF code \in d.sym.is_ctrl THEN Fail("CORRUPT", p)
                                ELSE IF ByteOf(d.sym, code) # prefix[matched + 1] THEN NotFound
                                ELSE from[<<q, end, matched + 1>>])
    IN  from[<<start, stop, 0>>]

\* The iterator tp_dict_find_prefix makes of what the descent found: without a
\* match it is ended, and its root stays the whole trie.
Found(d, prefix, it, sub) ==
    IF prefix = <<>> \/ d.num_keys = 0 THEN [rc |-> "OK", it |-> it]
    ELSE IF sub.rc = "NOT_FOUND" THEN [rc |-> "OK", it |-> [it EXCEPT !.done = TRUE]]
    ELSE IF sub.rc # "OK" THEN [rc |-> sub.rc, it |-> it]
    ELSE [ rc |-> "OK",
           it |-> IterReset(d, [it EXCEPT !.key = prefix, !.root_pos = sub.val.pos,
                                          !.root_end = sub.val.end,
                                          !.root_key_len = Len(prefix)]) ]
FindPrefix(d, prefix) ==
    Found(d, prefix, Iterate(d), Descend(d, prefix, d.trie_start, d.value_start))
=============================================================================
