--------------------------- MODULE TersemlDecode ---------------------------
(***************************************************************************)
(* tsml_decode and tsml_decode_document (src/terseml/terseml.c) on any     *)
(* bytes.  The recursion of decode_element is a stack, and a step reads    *)
(* the head of an element, an attribute, or a child.  Any allocation may   *)
(* be refused; every call that returns an error frees its vector and the   *)
(* outermost the document, so nothing of it is left.                       *)
(***************************************************************************)
EXTENDS TersemlTree

CONSTANTS
    Inputs,         \* what is decoded: sequences of bytes
    MaxDepth        \* TSML_MAX_DEPTH: 256 in the code

Byte == 0..255
ASSUME InputAssumption == Inputs \subseteq Seq(Byte)
ASSUME DepthAssumption == MaxDepth \in Nat

-----------------------------------------------------------------------------
\* What a reader of a run returns: whether it could, the bytes, the position behind.
Unread == [ok |-> FALSE, text |-> <<>>, at |-> 0]
Prepend(byte, run) == [run EXCEPT !.text = <<byte>> \o @]
\* From a position up to an unescaped byte that ends the run, which has to come; meaning
\* maps the bytes that may be escaped, and width bytes of the end belong to the run.
ReadRun(b, ends, meaning, width, at) ==
    LET run[p \in 0..Len(b)] ==
            IF p = Len(b) THEN Unread
            ELSE IF b[p + 1] = BS
                 THEN IF p + 1 < Len(b) /\ b[p + 2] \in DOMAIN meaning
                      THEN Prepend(meaning[b[p + 2]], run[p + 2])
                      ELSE Unread
            ELSE IF b[p + 1] \in ends THEN [ok |-> TRUE, text |-> <<>>, at |-> p + width]
            ELSE Prepend(b[p + 1], run[p + 1])
    IN  run[at]

\* read_escaped
ReadEscaped(b, ctx, at) == ReadRun(b, Reserved[ctx], [c \in Escapable |-> c], 0, at)
\* read_binary, from the byte behind the letter, for either form
ReadTerminated(b, at) == ReadRun(b, {0}, [c \in {Zero, BS} |-> IF c = Zero THEN 0 ELSE BS], 1, at)
\* The number of groups a claim has, 0 if it does not end in time.
Groups(b, at) ==
    LET ends == {g \in 1..MaxGroups : at + g <= Len(b) /\ (b[at + g] \div 2^LebBits) % 2 = 0}
    IN  IF ends = {} THEN 0 ELSE CHOOSE g \in ends : \A h \in ends : g <= h
\* The last group holds the highest bits; what does not fit is dropped.
ReadCounted(b, at) ==
    LET g == Groups(b, at)
        sum[k \in 0..g] == IF k = 0 THEN 0 ELSE sum[k - 1] * 2^LebBits + (b[at + g + 1 - k] % 2^LebBits)
        claim == sum[g] % ClaimLimit
        start == at + g
    IN  IF g = 0 \/ claim > Len(b) - start THEN Unread
        ELSE [ok |-> TRUE, text |-> SubSeq(b, start + 1, start + claim), at |-> start + claim]

IsBinary(b, at) == at + 1 < Len(b) /\ b[at + 1] = BS /\ b[at + 2] \in {Terminated, Counted}
ReadContent(b, at) ==
    IF ~IsBinary(b, at) THEN ReadEscaped(b, "text", at)
    ELSE IF b[at + 2] = Counted THEN ReadCounted(b, at + 2)
    ELSE ReadTerminated(b, at + 2)

-----------------------------------------------------------------------------
VARIABLES
    single,         \* whether tsml_decode reads, not tsml_decode_document
    input,          \* the bytes
    i,              \* the reader's position, from 0
    dpc,            \* where the decoder is
    stack,          \* the elements that are being read, the innermost last
    roots,          \* the document
    result          \* "none", "ok", "malformed", "depth" or "alloc"
decodeVars == <<single, input, i, dpc, stack, roots, result>>

DecodeInit ==
    /\ i = 0 /\ stack = <<>> /\ roots = <<>> /\ result = "none"
    /\ single \in BOOLEAN /\ input \in Inputs /\ dpc = "element"

Size == Len(input)
At(k) == IF i + k < Size THEN input[i + k + 1] ELSE -1
Top == stack[Len(stack)]
Enclosing == SubSeq(stack, 1, Len(stack) - 1)

\* Mutant: tsml_decode_document is content with the elements before the malformed one.
FailKeepsRoots(rc) ==
    LET content == rc = "malformed" /\ roots # <<>>
    IN  /\ result' = (IF content THEN "ok" ELSE rc) /\ dpc' = "ended" /\ stack' = <<>>
        /\ roots' = (IF content THEN roots ELSE <<>>)
        /\ UNCHANGED i
\* An error is returned through all the calls under way.
Fail(rc) ==
    /\ result' = rc /\ dpc' = "ended" /\ stack' = <<>> /\ roots' = <<>>
    /\ UNCHANGED i

\* The end of decode_element: a child for the element around it, or an element of the
\* document, which for tsml_decode has to end the input.
Finish(el, outer, at) ==
    IF outer # <<>>
    THEN /\ stack' = ReplaceAt(outer, Len(outer), AddChild(outer[Len(outer)], el))
         /\ i' = at /\ dpc' = "children" /\ UNCHANGED <<roots, result>>
    ELSE IF single /\ at # Size THEN Fail("malformed")
    ELSE /\ stack' = outer /\ i' = at /\ roots' = Append(roots, el)
         /\ dpc' = (IF at < Size THEN "element" ELSE "ended")
         /\ result' = (IF at < Size THEN "none" ELSE "ok")

\* decode_element, up to the attributes or the children.
TooDeepEarly == Len(stack) >= MaxDepth      \* mutant
TooDeep == Len(stack) > MaxDepth
ReadHead ==
    LET head == ReadEscaped(input, "tag", i + 1)
        after == input[head.at + 1]
        slot == head.at + 1 < Size /\ input[head.at + 2] = LSQ
        pairs == head.at + 2 < Size /\ input[head.at + 3] # RSQ
        implicit == IF head.text = <<>> THEN Element(TagText) ELSE AddChild(Element(TagText), Text(head.text))
    IN  /\ dpc = "element"
        /\ IF Size = 0 /\ ~single THEN Fail("malformed")
           ELSE IF TooDeep THEN Fail("depth")
           ELSE IF At(0) # LBR \/ ~head.ok \/ after = LBR THEN Fail("malformed")
           ELSE IF after = RBR THEN Finish(implicit, stack, head.at + 1)
           ELSE /\ stack' = Append(stack, Element(head.text))
                /\ i' = (IF slot THEN head.at + 2 ELSE head.at + 1)
                /\ dpc' = (IF ~slot THEN "children" ELSE IF pairs THEN "pair" ELSE "close")
                /\ UNCHANGED <<roots, result>>
        /\ UNCHANGED <<single, input>>

\* decode_attrs: a key and its value.
ReadPair ==
    LET key == ReadEscaped(input, "key", i)
        val == ReadEscaped(input, "val", key.at + 1)
        comma == input[val.at + 1] = COM
        last == val.at + 1 < Size /\ input[val.at + 2] = RSQ
    IN  /\ dpc = "pair"
        /\ IF ~key.ok \/ input[key.at + 1] # COL \/ ~val.ok THEN Fail("malformed")
           ELSE /\ stack' = Append(Enclosing, AddAttr(Top, key.text, val.text))
                /\ i' = (IF comma THEN val.at + 1 ELSE val.at)
                /\ dpc' = (IF comma /\ ~last THEN "pair" ELSE "close")
                /\ UNCHANGED <<roots, result>>
        /\ UNCHANGED <<single, input>>

\* The end of decode_attrs, and what decode_element does next: the comma before the
\* children may be missing.
CloseAttrs ==
    /\ dpc = "close"
    /\ IF At(0) # RSQ THEN Fail("malformed")
       ELSE IF At(1) = RBR THEN Finish(Top, Enclosing, i + 2)
       ELSE /\ i' = (IF At(1) = COM THEN i + 2 ELSE i + 1)
            /\ dpc' = "children"
            /\ UNCHANGED <<stack, roots, result>>
    /\ UNCHANGED <<single, input>>

\* decode_children: the closing brace, a child element, or a run of bytes.  An empty
\* run is no child.
BehindStays(run) == IF run.text = <<>> THEN i ELSE run.at     \* mutant
BehindPast(run) == run.at + 1                               \* mutant
Behind(run) == run.at
ReadChild ==
    LET run == ReadContent(input, i)
    IN  /\ dpc = "children"
        /\ IF At(0) = RBR THEN Finish(Top, Enclosing, i + 1)
           ELSE IF At(0) = -1 THEN Fail("malformed")
           ELSE IF At(0) = LBR THEN dpc' = "element" /\ UNCHANGED <<i, stack, roots, result>>
           ELSE IF ~run.ok THEN Fail("malformed")
           ELSE /\ i' = Behind(run)
                /\ stack' = (IF run.text = <<>> THEN stack ELSE Append(Enclosing, AddChild(Top, Text(run.text))))
                /\ UNCHANGED <<dpc, roots, result>>
        /\ UNCHANGED <<single, input>>

\* Somewhere in a step malloc is refused.
Refused ==
    /\ dpc \in {"element", "pair", "close", "children"}
    /\ dpc = "element" => ~TooDeep /\ (At(0) = LBR \/ roots = <<>>)
    /\ dpc = "close" => At(0) = RSQ /\ (Top.attrs # <<>> \/ At(1) = RBR)
    /\ dpc = "children" => At(0) \notin {-1, LBR}
    /\ Fail("alloc")
    /\ UNCHANGED <<single, input>>

Read == ReadHead \/ ReadPair \/ CloseAttrs \/ ReadChild

\* One decoding of any bytes.
DecodeSpec == DecodeInit /\ [][Read \/ Refused]_decodeVars

-----------------------------------------------------------------------------
\* The reader stays inside its input and inside the nesting limit.
ReaderInside == i <= Size /\ Len(stack) <= MaxDepth + 1
=============================================================================
