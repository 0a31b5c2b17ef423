------------------------ MODULE MCKnowledgeVersions ------------------------
(* Versions are interchangeable, and so are workers.  What processing a     *)
(* version stores is the chunking of its document, checked in the same run. *)
EXTENDS KnowledgeVersions, TLC

Symmetry == Permutations(Versions) \cup Permutations(Workers)

Segment(text, code, path) == [text |-> text, code |-> code, path |-> path]

Words(n) == [k \in 1 .. n |-> "letter"]

\* Headings, which are also the texts of segments.
A == Words(1)
B == Words(2)
C == <<"letter", "space", "letter">>
D == Words(4)

\* Every text of up to seven characters as a document of one segment.
OneSegment ==
    {<<Segment(text, code, <<A>>)>> :
        code \in BOOLEAN,
        text \in {t \in UNION {[1 .. n -> Characters] : n \in 1 .. 7} :
                     \E k \in DOMAIN t : ~IsSpace(t[k])}}

\* Three segments of several sizes in sections that are the same, nested,
\* apart or without a name; some are only the heading of their section.
Texts == {A, B, C, D, <<"letter", "stop", "space", "letter">>}
Paths == {<<>>, <<A>>, <<A, B>>, <<A, B, C>>, <<D>>}
ThreeSegments ==
    {<<Segment(t, FALSE, <<A>>), Segment(u, FALSE, p), Segment(v, FALSE, q)>> :
        t, u, v \in Texts, p, q \in Paths}

\* One long segment of five words, sentence ends and breaks, cut several times.
Blocks == {Words(1), Words(4), <<"stop", "space">>, <<"space">>, <<"newline">>}
LongSegment ==
    {<<Segment(FlattenSeq(<<Words(1)>> \o blocks), code, <<A>>)>> :
        blocks \in [1 .. 5 -> Blocks], code \in BOOLEAN}

\* One content is a heading with a body of its section, the other a heading
\* whose body does not fit its chunk.
MCNormalized ==
    LET first == CHOOSE c \in Contents : TRUE IN
    [c \in Contents |->
        <<Segment(A, FALSE, <<A>>), Segment(IF c = first THEN B ELSE Words(5), FALSE, <<A>>)>>]

MCSegmented ==
    OneSegment \cup LongSegment \cup ThreeSegments \cup {MCNormalized[c] : c \in Contents}
=============================================================================
