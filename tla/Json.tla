------------------------------- MODULE Json -------------------------------
(***************************************************************************)
(* A document on its way through the JSON layer: tp_json_encode parses and *)
(* flattens it (JsonParse) and compiles the entries (TrieEncode); the      *)
(* buffer is decoded (JsonDecode), or opened as a tp_json and asked for    *)
(* paths (src/json/json_dom.c).  Some documents start as bytes (JsonText). *)
(***************************************************************************)
EXTENDS JsonText, JsonDecode

CONSTANT Spelled        \* texts in bytes, and the entries that they stand for

VARIABLES
    doc,            \* the document; the code sees its text only
    spelled,        \* the bytes that the text was given in, or NotSpelled
    buf,            \* the buffer that tp_json_encode returned
    json,           \* the open tp_json, or NoJson
    asked           \* the path and the answer of the last tp_json_lookup_path
jsonVars == <<parseVars, decodeVars, doc, spelled, buf, json, asked>>

NoJson == [dict |-> NoDict, root |-> "none", count |-> 0]
NoDocument == <<"none">>      \* the text is not known to be one of a document
Illegal == <<>>               \* what a text stands for that is none
NotSpelled == [text |-> <<>>, entries |-> Illegal]
NotAsked == [path |-> <<>>, rc |-> "none", val |-> <<"NULL", 0>>]

JsonInit ==
    /\ \/ doc \in Document /\ src = Tokens(doc) /\ spelled = NotSpelled
       \/ doc = NoDocument /\ src \in Source /\ spelled = NotSpelled
       \/ doc = NoDocument /\ spelled \in Spelled /\ src = Lex(spelled.text)
    /\ pos = 0 /\ pc = "create"
    /\ stack = <<>> /\ depth = 0 /\ path = <<>>
    /\ entries = <<>> /\ root = "obj" /\ enc = FALSE /\ rc = "none"
    /\ DecodeInit
    /\ buf = <<>> /\ json = NoJson /\ asked = NotAsked

ParseStep ==
    /\ Begin \/ ParseRoot \/ ParseKey \/ ParseContainer \/ ParseScalar \/ AfterValue \/ AddMeta
    /\ UNCHANGED <<decodeVars, doc, spelled, buf, json, asked>>

\* What tp_encoder_build compiles: the keys in order, each with the value added last.
\* Mutant: the value added first.
FirstAdded(k) == entries[CHOOSE i \in DOMAIN entries :
                            entries[i].key = k /\ \A j \in 1..i - 1 : entries[j].key # k].val
LastAdded(k) == entries[CHOOSE i \in DOMAIN entries :
                            entries[i].key = k /\ \A j \in i + 1..Len(entries) : entries[j].key # k].val
Compiled ==
    LET keys == SortedKeys({entries[i].key : i \in DOMAIN entries})
    IN  [i \in DOMAIN keys |->
            [key |-> keys[i], val |-> [type |-> LastAdded(keys[i])[1], data |-> LastAdded(keys[i])[2]]]]

Compile ==
    /\ BuildDocument
    /\ buf' = (IF rc' = "OK" THEN Build(Compiled, 0).buf ELSE <<>>)
    /\ UNCHANGED <<decodeVars, doc, spelled, json, asked>>

Encoded == rc = "OK"

\* tp_json_decode; the pretty form differs in white space only.
Decode ==
    /\ Encoded /\ json = NoJson
    /\ DecodeOpen(buf) \/ DecodeStep
    /\ UNCHANGED <<parseVars, doc, spelled, buf, json, asked>>

-----------------------------------------------------------------------------
\* tp_json_open
RootOf(d) == IF IsArrayRoot(Lookup(d, MetaKey)) THEN "ARRAY" ELSE "DICT"
JsonOpen ==
    LET opened == Open(buf, TRUE)
    IN  /\ Encoded /\ stage = "idle" /\ json = NoJson
        /\ opened.rc = "OK"
        /\ json' = [dict |-> opened.val, root |-> RootOf(opened.val),
                    count |-> IF opened.val.num_keys > 0 THEN opened.val.num_keys - 1 ELSE 0]
        /\ UNCHANGED <<parseVars, decodeVars, doc, spelled, buf, asked>>

\* tp_json_lookup_path
LookupPath(p) ==
    LET r == Lookup(json.dict, p)
    IN  /\ json # NoJson
        /\ asked' = [path |-> p, rc |-> r.rc,
                     val |-> IF r.rc = "OK" THEN <<r.val.type, r.val.data>> ELSE <<"NULL", 0>>]
        /\ UNCHANGED <<parseVars, decodeVars, doc, spelled, buf, json>>

\* tp_json_close
JsonClose ==
    /\ json # NoJson
    /\ json' = NoJson /\ asked' = NotAsked
    /\ UNCHANGED <<parseVars, decodeVars, doc, spelled, buf>>

\* The paths that are asked for: those of the document.
Paths ==
    LET leaves == IF doc = NoDocument THEN <<>> ELSE Leaves(doc, <<>>)
    IN  {leaves[i].key : i \in DOMAIN leaves}

Dom == JsonOpen \/ (\E p \in Paths : LookupPath(p)) \/ JsonClose

JsonNext ==
    \/ ParseStep \/ Compile \/ Decode \/ Dom
    \/ pc = "done" /\ ~Encoded /\ UNCHANGED jsonVars
    \/ stage = "done" /\ UNCHANGED jsonVars

\* Weak fairness of Decode, written out: a step of it is possible exactly while a
\* decode is under way, and no other action changes decodeVars.
DecodeGoesOn == []<>(stage \notin {"walk", "finish"}) \/ []<><<TRUE>>_decodeVars

\* tp_json_encode and tp_json_decode are one call each: once begun they go on.
JsonSpec == JsonInit /\ [][JsonNext]_jsonVars /\ WF_parseVars(Parse) /\ DecodeGoesOn

-----------------------------------------------------------------------------
\* The document without the order of its members; the last of equal keys counts.
RECURSIVE Meaning(_)
Meaning(t) ==
    CASE t[1] = "val" -> t
      [] t[1] = "arr" -> <<"arr", [i \in DOMAIN t[2] |-> Meaning(t[2][i])]>>
      [] t[1] = "obj" ->
            <<"obj", [k \in {t[2][i][1] : i \in DOMAIN t[2]} |->
                LET i == CHOOSE i \in DOMAIN t[2] :
                            t[2][i][1] = k /\ \A j \in i + 1..Len(t[2]) : t[2][j][1] # k
                IN  Meaning(t[2][i][2])]>>

\* Documents that flat keys can stand for: keys that do not begin their siblings,
\* with none of the bytes that paths are written with; no empty container but the
\* root.
PlainKey(k) == k # <<>> /\ k[1] # 1 /\ \A i \in DOMAIN k : k[i] \notin {Dot, OpenBracket}
RECURSIVE Plain(_)
Plain(t) ==
    CASE t[1] = "val" -> TRUE
      [] t[1] = "arr" -> \A i \in DOMAIN t[2] : t[2][i][2] # <<>> /\ Plain(t[2][i])
      [] t[1] = "obj" ->
            /\ \A i \in DOMAIN t[2] : PlainKey(t[2][i][1]) /\ t[2][i][2][2] # <<>> /\ Plain(t[2][i][2])
            /\ \A i, j \in DOMAIN t[2] : i # j => ~IsPrefix(t[2][i][1], t[2][j][1])

\* The document with the elements of its arrays in the byte order of "[0]", "[1]", ...:
\* as they are up to ten, and the eleventh before the second.
RECURSIVE IndexOrdered(_)
IndexOrdered(t) ==
    LET Before(i, j) == KeyLess(IndexSegment(i), IndexSegment(j))
        order == SortSeq([i \in DOMAIN t[2] |-> i], Before)
    IN  CASE t[1] = "val" -> t
          [] t[1] = "arr" -> <<"arr", [i \in DOMAIN t[2] |-> IndexOrdered(t[2][order[i]])]>>
          [] t[1] = "obj" -> <<"obj", [i \in DOMAIN t[2] |-> <<t[2][i][1], IndexOrdered(t[2][i][2])>>]>>

Decoded == doc # NoDocument /\ stage = "done" /\ out.rc = "OK" /\ ~refused

\* Decoding what was encoded gives the document back, for every plain document:
\* through the parser, the trie, the walk over its bits and emit_json.  Nothing is lost of
\* an array of more than ten elements, but its order is that of the keys.
RoundTrip == Decoded /\ Plain(doc) => out.tree = Meaning(IndexOrdered(doc))

\* The same for every document, and in its order (docs/guide/how-it-works.md: "The hierarchical JSON
\* structure is reconstructed on decode").
RoundTripAll == Decoded => out.tree = Meaning(doc)

\* A path of the document leads to the leaf that was written there last, also where
\* documents are not plain and several leaves share a path.
PathsLead ==
    asked # NotAsked =>
        LET leaves == Leaves(doc, <<>>)
            here == {i \in DOMAIN leaves : leaves[i].key = asked.path}
        IN  asked.rc = "OK" /\ asked.val = leaves[CHOOSE i \in here : \A j \in here : j <= i].val

\* The bytes of a text are read as what they stand for, whichever of the spellings of
\* a character or number they use, and a text with a malformed one is refused: escapes,
\* surrogate pairs, the edges of the integers, numbers with a point or an exponent.
SpellingRead ==
    spelled # NotSpelled =>
        /\ rc = "OK" => entries = Append(spelled.entries, [key |-> MetaRoot, val |-> RootType("arr")])
        /\ rc \in {"OK", "JSON_SYNTAX"} => (rc = "OK" <=> spelled.entries # Illegal)

RECURSIVE ValuesIn(_)
ValuesIn(t) ==
    IF t[1] = "val" THEN {t[2]} ELSE UNION {ValuesIn(t[2][i]) : i \in DOMAIN t[2]}

\* A double without a fraction, and the integer of the same number.
WholeAs(v, w) ==
    /\ v[1] = "FLOAT64" /\ w[1] = "INT"
    /\ IF v[2][1] = 1 THEN Quarters(v[2]) = -4 * w[2] ELSE Quarters(v[2]) = 4 * w[2]

\* The bytes that tp_json_decode writes for a value are read by tp_json_encode as that
\* value; a double without a fraction comes back as the integer.  No control character
\* is written as itself.
WrittenReads ==
    stage = "done" /\ out.rc = "OK" =>
        \A v \in ValuesIn(out.tree) : \A text \in {WriteValue(v)} :
            LET back == Lex(text)
            IN  /\ \A i \in DOMAIN text : text[i] >= 32
                /\ Len(back) = 1
                /\ back[1].val = v \/ WholeAs(v, back[1].val)

\* A decode that has started ends, also when the walk misreads the trie or loses an
\* entry: no sequence of bits keeps it going.
DecodeEnds == (stage = "walk") ~> (stage = "done")
=============================================================================
