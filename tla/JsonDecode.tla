---------------------------- MODULE JsonDecode ----------------------------
(***************************************************************************)
(* The second half of tp_json_decode (src/json/json_decode.c): the nesting *)
(* is rebuilt from the sorted keys of the walk.  The text that is written  *)
(* is the tree it spells: <<"val", v>>, <<"arr", elements>>, <<"obj",      *)
(* function from keys to trees>>.                                          *)
(***************************************************************************)
EXTENDS JsonWalk

\* emit_json.  F is the sequence of entries, sorted by key.
PathDot == 46
PathBracket == 91
PathBracketEnd == 93

\* Where the segment behind a prefix of length n starts: a dot is passed over.
SegmentStart(key, n) == IF n < Len(key) /\ key[n + 1] = PathDot THEN n + 1 ELSE n

\* next_segment: from "[" through "]", or up to the next "." or "[".
NextSegment(key, p) ==
    IF key[p + 1] = PathBracket
    THEN LET ends == {e \in p + 2..Len(key) : key[e] = PathBracketEnd}
         IN  SubSeq(key, p + 1, IF ends = {} THEN Len(key) ELSE CHOOSE e \in ends : \A x \in ends : e <= x)
    ELSE LET ends == {e \in p + 1..Len(key) : key[e] \in {PathDot, PathBracket}}
         IN  SubSeq(key, p + 1, IF ends = {} THEN Len(key) ELSE (CHOOSE e \in ends : \A x \in ends : e <= x) - 1)

ExactlyAt(F, prefix) == {i \in DOMAIN F : F[i].key = prefix}
LongerThan(F, prefix) == {i \in DOMAIN F : F[i].key # prefix /\ IsPrefix(prefix, F[i].key)}
LeafAt(F, prefix) == <<"val", F[CHOOSE i \in ExactlyAt(F, prefix) : TRUE].val>>

\* The segments behind a prefix, each once, in the order of the entries.
RECURSIVE Segments(_, _, _)
Segments(F, n, is) ==
    IF is = <<>> THEN <<>>
    ELSE LET rest == Segments(F, n, Front(is))
             seg == NextSegment(F[Last(is)].key, SegmentStart(F[Last(is)].key, n))
         IN  IF seg = <<>> \/ Contains(rest, seg) THEN rest ELSE Append(rest, seg)

\* Mutant: members are looked for without the dot.
MemberPrefixPlain(prefix, seg) == prefix \o seg
MemberPrefix(prefix, seg) == IF prefix = <<>> THEN seg ELSE prefix \o <<PathDot>> \o seg

RECURSIVE EmitJson(_, _)
\* What stands at path p: a leaf if nothing is below it.
EmitAt(F, p) == IF ExactlyAt(F, p) # {} /\ LongerThan(F, p) = {} THEN LeafAt(F, p) ELSE EmitJson(F, p)
Elements(F, prefix, segs) == <<"arr", [i \in DOMAIN segs |-> EmitAt(F, prefix \o segs[i])]>>
Members(F, prefix, segs) == <<"obj", [s \in ToSet(segs) |-> EmitAt(F, MemberPrefix(prefix, s))]>>
EmitJson(F, prefix) ==
    LET n == Len(prefix)
        deeper == Ascending({i \in DOMAIN F : IsPrefix(prefix, F[i].key)
                                              /\ SegmentStart(F[i].key, n) < Len(F[i].key)})
        allArray == \A i \in ToSet(deeper) : F[i].key[SegmentStart(F[i].key, n) + 1] = PathBracket
        segs == Segments(F, n, deeper)
    IN  IF deeper = <<>>
        THEN IF ExactlyAt(F, prefix) # {} THEN LeafAt(F, prefix) ELSE <<"val", <<"NULL", 0>>>>
        ELSE IF allArray THEN Elements(F, prefix, segs) ELSE Members(F, prefix, segs)

\* Metadata keys start with the byte 1.
IsMeta(e) == e.key # <<>> /\ e.key[1] = 1
MetaKey == <<1, 114, 111, 111, 116>>
IsArrayRoot(r) == r.rc = "OK" /\ r.val \in [type : {"UINT", "INT"}, data : {2}]

\* The end of extract_entries and decode_impl: drop the metadata, sort, emit.
DecodeFinish ==
    LET kept == SelectSeq(walk.entries, LAMBDA e : ~IsMeta(e))
        F == SortSeq(kept, LAMBDA x, y : KeyLess(x.key, y.key))
        root == Lookup(dict, MetaKey)
        empty == IF IsArrayRoot(root) THEN <<"arr", <<>>>> ELSE <<"obj", <<>>>>
    IN  /\ stage = "finish"
        /\ stage' = "done"
        /\ out' = [rc |-> "OK", tree |-> IF F = <<>> THEN empty ELSE EmitJson(F, <<>>)]
        /\ UNCHANGED <<dict, walk, refused>>

\* Mutant: a refused allocation starts the decode over.
DecodeRetries ==
    /\ stage = "finish" /\ stage' = "walk"
    /\ walk' = [NoWalk EXCEPT !.pos = dict.trie_start]
    /\ UNCHANGED <<dict, refused, out>>

\* There is no memory for the text.
DecodeFails == stage = "finish" /\ Ends("ALLOC")

DecodeStep == Walk \/ DecodeFinish \/ DecodeFails
=============================================================================
