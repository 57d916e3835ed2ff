----------------------------- MODULE JsonParse -----------------------------
(***************************************************************************)
(* tp_json_encode (src/json/json_encode.c): the recursive descent over the *)
(* text of a document, which flattens it into keys and values for an       *)
(* encoder.  The recursion of parse_object, parse_array and parse_value is *)
(* a stack of frames here, and one step goes from one call of parse_value  *)
(* to the next.  The text is a sequence of tokens, which JsonText takes    *)
(* from the bytes.  Whatever starts no token is a token of kind "bad".     *)
(*                                                                         *)
(* The code copies a key into 1024 bytes and a string into 4096; the texts *)
(* of this model are shorter.  Each addition to the encoder may fail.      *)
(***************************************************************************)
EXTENDS Integers, Sequences, FiniteSets

CONSTANTS
    Source,         \* the texts that are encoded: sequences of tokens
    MaxNesting,     \* TP_MAX_NESTING_DEPTH: 32 in the code
    PathCap         \* the size of the path buffer: 4096 in the code

ASSUME NestingAssumption == MaxNesting \in Nat \ {0}
ASSUME PathAssumption == PathCap \in Nat \ {0}
ASSUME SourceAssumption ==
    \A s \in Source : Len(s) \in Nat /\ \A n \in 1..Len(s) : s[n].text \in Seq(Nat)

VARIABLES
    src,            \* the text
    pos,            \* how many tokens are consumed
    pc,             \* what the innermost call is about to read
    stack,          \* the calls of parse_object and parse_array under way
    depth,          \* parser.depth
    path,           \* parser.path up to parser.path_len
    entries,        \* what the encoder was given, in order
    root,           \* root_type
    enc,            \* whether the encoder exists
    rc              \* the result code, or "none" before the return
parseVars == <<src, pos, pc, stack, depth, path, entries, root, enc, rc>>

\* Bytes that the notation of paths gives a meaning to.
Dot == 46
OpenBracket == 91
CloseBracket == 93

\* The decimal digits of n, as snprintf writes a number of 32 bits.
PowerOf10 == <<1, 10, 100, 1000, 10000, 100000, 1000000, 10000000, 100000000, 1000000000>>
Digits(n) == 1 + Cardinality({k \in 1..9 : PowerOf10[k + 1] <= n})
Decimal(n) == [i \in 1..Digits(n) |-> 48 + ((n \div PowerOf10[Digits(n) + 1 - i]) % 10)]

\* peek, at distance d
Peek(d) == IF pos + d < Len(src) THEN src[pos + d + 1].kind ELSE "eof"
Top == stack[Len(stack)]
Closer(kind) == IF kind = "obj" THEN "}" ELSE "]"

\* path_push_key: the dot is written whether the key fits or not.
PushKey(p, key) ==
    LET dotted == IF p = <<>> THEN p ELSE Append(p, Dot)
    IN  IF Len(dotted) + Len(key) < PathCap THEN dotted \o key ELSE dotted

\* path_push_index
PushIndex(p, n) ==
    LET index == <<OpenBracket>> \o Decimal(n) \o <<CloseBracket>>
    IN  IF Len(p) + Len(index) < PathCap THEN p \o index ELSE p

Init ==
    /\ src \in Source /\ pos = 0 /\ pc = "create"
    /\ stack = <<>> /\ depth = 0 /\ path = <<>>
    /\ entries = <<>> /\ root = "obj" /\ enc = FALSE /\ rc = "none"

-----------------------------------------------------------------------------
\* Mutant: the encoder outlives a failed parse.
ReturnLeaks(code) ==
    /\ rc' = code /\ pc' = "done" /\ enc' = (enc /\ code # "OK")
    /\ UNCHANGED <<src, pos, stack, depth, path, entries, root>>

\* Every error return ends in tp_encoder_destroy.
Return(code) ==
    /\ rc' = code /\ pc' = "done" /\ enc' = FALSE
    /\ UNCHANGED <<src, pos, stack, depth, path, entries, root>>

\* The container at the top returns TP_OK to the calls s below it.
ReturnTo(s) ==
    /\ stack' = s
    /\ pc' = (IF s = <<>> THEN "meta" ELSE "after")

\* The frame of a container and the path under its n-th element.
Frame(kind, idx) == [kind |-> kind, saved |-> Len(path), idx |-> idx]

\* Mutant: an empty container leaves its level counted.
EnterKeepsDepth(kind) ==
    IF depth + 1 > MaxNesting THEN Return("JSON_DEPTH")
    ELSE /\ IF Peek(1) = Closer(kind)
            THEN /\ pos' = pos + 2 /\ depth' = depth + 1
                 /\ ReturnTo(stack)
                 /\ UNCHANGED path
            ELSE /\ pos' = pos + 1 /\ depth' = depth + 1
                 /\ stack' = Append(stack, Frame(kind, 0))
                 /\ pc' = (IF kind = "obj" THEN "key" ELSE "value")
                 /\ path' = (IF kind = "obj" THEN path ELSE PushIndex(path, 0))
         /\ UNCHANGED <<src, entries, root, enc, rc>>

\* parse_object and parse_array up to the first key or element.
Enter(kind) ==
    IF depth + 1 > MaxNesting THEN Return("JSON_DEPTH")
    ELSE /\ IF Peek(1) = Closer(kind)
            THEN /\ pos' = pos + 2 /\ depth' = depth
                 /\ ReturnTo(stack)
                 /\ UNCHANGED path
            ELSE /\ pos' = pos + 1 /\ depth' = depth + 1
                 /\ stack' = Append(stack, Frame(kind, 0))
                 /\ pc' = (IF kind = "obj" THEN "key" ELSE "value")
                 /\ path' = (IF kind = "obj" THEN path ELSE PushIndex(path, 0))
         /\ UNCHANGED <<src, entries, root, enc, rc>>

\* tp_encoder_create, or its failure.
Begin ==
    /\ pc = "create"
    /\ \/ enc' = TRUE /\ pc' = "root" /\ UNCHANGED <<src, pos, stack, depth, path, entries, root, rc>>
       \/ Return("ALLOC")

\* The root must be a container.
ParseRoot ==
    /\ pc = "root"
    /\ CASE Peek(0) = "{" -> Enter("obj")
         [] Peek(0) = "[" -> Enter("arr")
         [] OTHER -> Return("JSON_SYNTAX")

\* Mutant: the colon is not asked for.
ParseKeyNoColon ==
    /\ pc = "key"
    /\ IF Peek(0) = "string"
       THEN /\ pos' = (IF Peek(1) = ":" THEN pos + 2 ELSE pos + 1) /\ pc' = "value"
            /\ path' = PushKey(path, src[pos + 1].text)
            /\ UNCHANGED <<src, stack, depth, entries, root, enc, rc>>
       ELSE Return("JSON_SYNTAX")

\* parse_object: a key, a colon, and the path to the value.
ParseKey ==
    /\ pc = "key"
    /\ IF Peek(0) = "string" /\ Peek(1) = ":"
       THEN /\ pos' = pos + 2 /\ pc' = "value"
            /\ path' = PushKey(path, src[pos + 1].text)
            /\ UNCHANGED <<src, stack, depth, entries, root, enc, rc>>
       ELSE Return("JSON_SYNTAX")

\* parse_value of a container
ParseContainer ==
    /\ pc = "value"
    /\ \/ Peek(0) = "{" /\ Enter("obj")
       \/ Peek(0) = "[" /\ Enter("arr")

\* parse_value of anything else; the token carries the value.
ParseScalar ==
    /\ pc = "value" /\ Peek(0) \notin {"{", "["}
    /\ IF Peek(0) \in {"string", "scalar"}
       THEN \/ /\ entries' = Append(entries, [key |-> path, val |-> src[pos + 1].val])
               /\ pos' = pos + 1 /\ pc' = "after"
               /\ UNCHANGED <<src, stack, depth, path, root, enc, rc>>
            \/ Return("ALLOC")
       ELSE Return("JSON_SYNTAX")

\* path_restore
RestoreNothing == path          \* mutant
Restored == SubSeq(path, 1, Top.saved)

\* Mutant: the comma is looked at and not consumed.
NextItemStuck == UNCHANGED parseVars

\* The next turn of the loop of parse_object and parse_array.
NextItem ==
    /\ pos' = pos + 1
    /\ IF Top.kind = "obj"
       THEN pc' = "key" /\ path' = Restored /\ UNCHANGED stack
       ELSE /\ pc' = "value" /\ path' = PushIndex(Restored, Top.idx + 1)
            /\ stack' = [stack EXCEPT ![Len(stack)] =
                            [kind |-> "arr", saved |-> Top.saved, idx |-> Top.idx + 1]]
    /\ UNCHANGED <<src, depth, entries, root, enc, rc>>

\* Behind a value: the end of the container or a comma.
AfterValue ==
    /\ pc = "after"
    /\ CASE Peek(0) = Closer(Top.kind) ->
                /\ pos' = pos + 1 /\ depth' = depth - 1 /\ path' = Restored
                /\ ReturnTo(SubSeq(stack, 1, Len(stack) - 1))
                /\ UNCHANGED <<src, entries, root, enc, rc>>
         [] Peek(0) = "comma" -> NextItem
         [] OTHER -> Return("JSON_SYNTAX")

\* The key that says what the root is: "\x01root", 1 for an object, 2 for an array.
MetaRoot == <<1, 114, 111, 111, 116>>
RootType(kind) == <<"UINT", IF kind = "obj" THEN 1 ELSE 2>>
AddMeta ==
    /\ pc = "meta"
    /\ \/ /\ root' = (IF src[1].kind = "{" THEN "obj" ELSE "arr")
          /\ entries' = Append(entries, [key |-> MetaRoot, val |-> RootType(root')])
          /\ pc' = "build"
          /\ UNCHANGED <<src, pos, stack, depth, path, enc, rc>>
       \/ Return("ALLOC")

\* tp_encoder_build and tp_encoder_destroy
BuildDocument == pc = "build" /\ (Return("OK") \/ Return("ALLOC"))

Parse ==
    Begin \/ ParseRoot \/ ParseKey \/ ParseContainer \/ ParseScalar \/ AfterValue
    \/ AddMeta \/ BuildDocument
Next == Parse \/ (pc = "done" /\ UNCHANGED parseVars)

\* tp_json_encode is one call: once it runs it goes on.
Spec == Init /\ [][Next]_parseVars /\ WF_parseVars(Parse)

-----------------------------------------------------------------------------
\* Types; the encoder lives exactly as long as the parse, whichever way it ends.
TypeOK ==
    /\ pos \in 0..Len(src)
    /\ pc \in {"create", "root", "key", "value", "after", "meta", "build", "done"}
    /\ depth \in 0..MaxNesting
    /\ root \in {"obj", "arr"}
    /\ enc = (pc \notin {"create", "done"})
    /\ rc = "none" <=> pc # "done"
    /\ \A i \in DOMAIN stack : stack[i].kind \in {"obj", "arr"} /\ stack[i].idx \in Nat
                               /\ stack[i].saved \in 0..Len(path)

\* parser.depth counts the containers that are open, empty ones that were passed
\* excluded: neither siblings nor errors wear the limit down.
DepthIsNesting == pc # "done" => depth = Len(stack) /\ (pc \in {"key", "value", "after"} => stack # <<>>)

\* Every call of tp_json_encode returns.
Terminates == <>(pc = "done")
=============================================================================
