------------------------- MODULE StructuralChunking -------------------------
(***************************************************************************)
(* How a normalized document is cut into the chunks that a completed       *)
(* version stores: oversized segments are split where the text allows,     *)
(* small pieces are packed together within related sections, and a chunk   *)
(* repeats the end of the one before it.                                   *)
(*                                                                         *)
(* A chunk that is only the heading of its section is refused, and with it *)
(* the whole document.                                                     *)
(*                                                                         *)
(* One stop, space and newline stand for all of their kind.  An offset is  *)
(* the number of characters before it: a piece from a to b holds a+1..b.   *)
(***************************************************************************)
EXTENDS Naturals, Sequences, FiniteSets, SequencesExt, FiniteSetsExt

CONSTANTS TargetChars, MaxChars, MinChunkChars, OverlapChars,
          Separator,          \* its length
          DepthDistance,      \* max_section_depth_distance
          Letters,            \* the characters that allow no cut
          Segmented           \* the documents considered

Characters == Letters \cup {"stop", "space", "newline"}
IsSpace(c) == c \in {"space", "newline"}

\* The path is the headings of the sections around the segment.
Segments == [text : Seq(Characters), code : BOOLEAN, path : Seq(Seq(Characters))]

\* What the configuration validates; a document has a segment, and none is blank.
ASSUME ChunkingAssumption ==
    /\ OverlapChars \in Nat /\ Separator \in Nat /\ DepthDistance \in Nat
    /\ MinChunkChars \in Nat /\ TargetChars \in Nat \ {0} /\ MaxChars \in Nat \ {0}
    /\ MinChunkChars <= TargetChars /\ TargetChars <= MaxChars
    /\ OverlapChars < MaxChars /\ Separator < MaxChars
    /\ \A doc \in Segmented :
           /\ doc \in Seq(Segments) /\ doc # <<>>
           /\ \A i \in DOMAIN doc : \E k \in DOMAIN doc[i].text : ~IsSpace(doc[i].text[k])

-----------------------------------------------------------------------------
(* Splitting a segment.                                                    *)

\* The next offset from i that no space follows, or the end.
SkipSpace(text, i) ==
    Min({k \in i .. Len(text) - 1 : ~IsSpace(text[k + 1])} \cup {Len(text)})

\* The range without the spaces around it.
Trimmed(text, from, to) ==
    LET solid == {k \in from .. to - 1 : ~IsSpace(text[k + 1])} IN
    IF solid = {} THEN [from |-> to, to |-> to] ELSE [from |-> Min(solid), to |-> Max(solid) + 1]

\* Offsets behind a newline, a sentence or a space, in a range of the text.
NewlineCuts(text, from, to) == {k + 1 : k \in {i \in from .. to - 1 : text[i + 1] = "newline"}}

SentenceCuts(text, from, to) ==
    {k + 1 : k \in {i \in from .. to - 1 :
        text[i + 1] = "stop" /\ (i + 1 >= to \/ IsSpace(text[i + 2]))}}

SpaceCuts(text, from, to) == {k + 1 : k \in {i \in from .. to - 1 : IsSpace(text[i + 1])}}

\* The last good place to cut, not too early in the range.
BestSplit(text, from, to) ==
    LET floor == IF from + TargetChars \div 2 \in from + 1 .. to - 1
                 THEN from + TargetChars \div 2 ELSE from + 1
        newlines == NewlineCuts(text, floor, to)
        sentences == SentenceCuts(text, floor, to)
        spaces == SpaceCuts(text, floor, to)
    IN  IF newlines # {} THEN Max(newlines)
        ELSE IF sentences # {} THEN Max(sentences)
        ELSE IF spaces # {} THEN Max(spaces)
        ELSE to

\* Code is cut behind lines only.
CodeSplit(text, from, to) == Max(NewlineCuts(text, from + 1, to) \cup {from})

NextCut(text, cursor, code) ==
    LET hard == cursor + MaxChars IN
    IF hard >= Len(text) THEN Len(text)
    ELSE IF ~code THEN BestSplit(text, cursor, hard)
    ELSE IF CodeSplit(text, cursor, hard) > cursor THEN CodeSplit(text, cursor, hard)
    ELSE hard

\* Cut from the cursor on; what is only spaces makes no piece.
Cuts(segment, index) ==
    LET text == segment.text
        from[cursor \in 0 .. Len(text)] ==
          IF cursor = Len(text) THEN <<>>
          ELSE LET cut == NextCut(text, cursor, segment.code)
                   range == Trimmed(text, cursor, cut)
               IN  (IF range.from < range.to
                    THEN <<[segment |-> index, from |-> range.from, to |-> range.to,
                            path |-> segment.path]>>
                    ELSE <<>>) \o from[SkipSpace(text, cut)]
    IN  from[0]

\* A segment that fits is kept as it is.
SplitSegment(segment, index) ==
    IF ~segment.code /\ Len(segment.text) <= MaxChars
    THEN <<[segment |-> index, from |-> 0, to |-> Len(segment.text), path |-> segment.path]>>
    ELSE Cuts(segment, index)

SourcePieces(doc) ==
    FoldLeft(LAMBDA pieces, i : pieces \o SplitSegment(doc[i], i), <<>>, [i \in DOMAIN doc |-> i])

-----------------------------------------------------------------------------
(* Packing pieces into chunks.                                             *)

Length(piece) == piece.to - piece.from

Rendered(pieces) ==
    FoldLeft(LAMBDA n, p : n + Length(p), 0, pieces)
      + (IF pieces = <<>> THEN 0 ELSE Separator * (Len(pieces) - 1))

CommonDepth(left, right) == Len(LongestCommonPrefix({left, right}))

\* Sections without a name are related to all.
Related(left, right) ==
    \/ left = <<>> \/ right = <<>>
    \/ LET depth == CommonDepth(left, right) IN
       depth > 0 /\ Max({Len(left), Len(right)}) - depth <= DepthDistance

RequiresBreak(current, piece) ==
    LET path == Last(current).path IN
    /\ path # piece.path
    /\ Rendered(current) >= MinChunkChars \/ ~Related(path, piece.path)

\* Where the repeated end of a piece begins: behind the first newline, or
\* sentence, or space of the last "wanted" characters; its end if none.
OverlapStart(text, wanted) ==
    LET naive == Len(text) - wanted
        begins(cuts) == {SkipSpace(text, k) : k \in cuts} \ {Len(text)}
        newlines == begins(NewlineCuts(text, naive, Len(text)))
        sentences == begins({k \in SentenceCuts(text, naive, Len(text)) : k < Len(text)})
        spaces == begins(SpaceCuts(text, naive, Len(text)))
    IN  IF newlines # {} THEN Min(newlines)
        ELSE IF sentences # {} THEN Min(sentences)
        ELSE Min(spaces \cup {Len(text)})

\* The form a plausible mistake would give the definition below.
BugCarry(doc, path, acc, piece) ==
    IF Length(piece) <= acc.left
    THEN [kept |-> <<piece>> \o acc.kept, left |-> acc.left - Length(piece)]
    ELSE [acc EXCEPT !.left = 0]

\* Pieces from the end of a chunk, as many as the budget takes, the first of
\* them perhaps in part, and none of another section.
Carry(doc, path, acc, piece) ==
    IF acc.left = 0 \/ piece.path # path THEN [acc EXCEPT !.left = 0]
    ELSE IF Length(piece) <= acc.left
    THEN [kept |-> <<piece>> \o acc.kept, left |-> acc.left - Length(piece)]
    ELSE LET text == SubSeq(doc[piece.segment].text, piece.from + 1, piece.to)
             start == OverlapStart(text, acc.left)
         IN  [kept |-> (IF start < Len(text) THEN <<[piece EXCEPT !.from = @ + start]>> ELSE <<>>)
                       \o acc.kept,
              left |-> 0]

Overlap(doc, pieces, path) ==
    FoldLeft(LAMBDA acc, p : Carry(doc, path, acc, p), [kept |-> <<>>, left |-> OverlapChars],
             Reverse(pieces)).kept

\* The longest end of the overlap that leaves room for the piece.
Fitted(overlap, piece) ==
    LET rest(k) == SubSeq(overlap, k, Len(overlap))
        fits == {k \in DOMAIN overlap : Rendered(Append(rest(k), piece)) <= MaxChars}
    IN  IF fits = {} THEN <<>> ELSE rest(Min(fits))

Pack(doc, acc, piece) ==
    LET current == acc.current
        size == Rendered(Append(current, piece))
    IN  IF current = <<>> THEN [acc EXCEPT !.current = <<piece>>]
        ELSE IF RequiresBreak(current, piece)
        THEN [done |-> Append(acc.done, current), current |-> <<piece>>]
        ELSE IF size <= TargetChars \/ (size <= MaxChars /\ Rendered(current) < MinChunkChars)
        THEN [acc EXCEPT !.current = Append(@, piece)]
        ELSE [done |-> Append(acc.done, current),
              current |-> Append(Fitted(Overlap(doc, current, piece.path), piece), piece)]

\* The chunks of a document, each the sequence of its pieces.
Chunked(doc) ==
    LET acc == FoldLeft(LAMBDA a, p : Pack(doc, a, p), [done |-> <<>>, current |-> <<>>],
                        SourcePieces(doc))
    IN  Append(acc.done, acc.current)

-----------------------------------------------------------------------------
(* What the chunker checks of its chunks.                                  *)

Spanned(piece) == {<<piece.segment, k>> : k \in piece.from .. piece.to - 1}

Text(chunk) == UNION {Spanned(p) : p \in ToSet(chunk)}

Precedes(a, b) == a[1] < b[1] \/ (a[1] = b[1] /\ a[2] < b[2])

\* Blank, too long, or with spans that are empty, outside of their segment,
\* out of order or overlapping (also ChunkSourceSpan and ChunkCandidate).
Malformed(doc, chunk) ==
    \/ \A a \in Text(chunk) : IsSpace(doc[a[1]].text[a[2] + 1])
    \/ Rendered(chunk) > MaxChars
    \/ \E p \in ToSet(chunk) : p.from >= p.to \/ p.to > Len(doc[p.segment].text)
    \/ \E j \in 1 .. Len(chunk) - 1 :
           \E a \in Spanned(chunk[j]), b \in Spanned(chunk[j + 1]) : ~Precedes(a, b)

\* The text of a chunk; the separator is of newlines, as it is by default.
Rendering(doc, chunk) ==
    FlattenSeq([j \in DOMAIN chunk |->
        [k \in 1 .. (IF j = 1 THEN 0 ELSE Separator) |-> "newline"]
          \o SubSeq(doc[chunk[j].segment].text, chunk[j].from + 1, chunk[j].to)])

Stripped(text) ==
    LET range == Trimmed(text, 0, Len(text)) IN SubSeq(text, range.from + 1, range.to)

CommonPath(chunk) == LongestCommonPrefix({p.path : p \in ToSet(chunk)})

\* It says no more than the heading of the section that its pieces share.
HeadingOnly(doc, chunk) ==
    LET path == CommonPath(chunk) IN
    path # <<>> /\ Stripped(Rendering(doc, chunk)) = Stripped(Last(path))

\* The chunker raises, and the version fails.
Refused(doc) ==
    \/ \E i \in DOMAIN doc : SplitSegment(doc[i], i) = <<>>
    \/ \E chunk \in ToSet(Chunked(doc)) : Malformed(doc, chunk) \/ HeadingOnly(doc, chunk)

-----------------------------------------------------------------------------
(* What a chunking promises, whatever the document.                        *)

Earlier(chunking, n) == UNION {Text(chunking[m]) : m \in 1 .. n - 1}

\* What chunk n repeats of the one before it, and its first piece that is new.
Repeated(chunking, n) == Text(chunking[n]) \cap Earlier(chunking, n)
FirstNew(chunking, n) ==
    chunking[n][Min({j \in DOMAIN chunking[n] :
                        ~(Spanned(chunking[n][j]) \subseteq Repeated(chunking, n))})]

\* Every word of the document gets into a chunk, first in its order there.
Covers(doc, chunking) ==
    /\ \A i \in DOMAIN doc : \A k \in 0 .. Len(doc[i].text) - 1 :
           ~IsSpace(doc[i].text[k + 1]) => <<i, k>> \in Earlier(chunking, Len(chunking) + 1)
    /\ \A n \in DOMAIN chunking :
           \A a \in Earlier(chunking, n), b \in Text(chunking[n]) \ Earlier(chunking, n) : Precedes(a, b)

\* A chunk repeats little, from the one before it alone, and only of the
\* section it goes on with.  None lies within another, but for one whose
\* pieces fit the overlap once the separators, which its own size counts, are
\* gone; and that within the next alone, if the target has room for the
\* overlap with a separator for each character, as it has by default.
OverlapsModestly(chunking) ==
    /\ \A n \in DOMAIN chunking \ {1} :
           /\ Repeated(chunking, n) \subseteq Text(chunking[n - 1])
           /\ Cardinality(Repeated(chunking, n)) <= OverlapChars
           /\ \A p \in ToSet(chunking[n]) :
                  Spanned(p) \subseteq Repeated(chunking, n) => p.path = FirstNew(chunking, n).path
    /\ \A m, n \in DOMAIN chunking : m # n /\ Text(chunking[m]) \subseteq Text(chunking[n]) =>
           /\ m < n /\ Cardinality(Text(chunking[m])) <= OverlapChars
           /\ (Separator + 1) * OverlapChars <= TargetChars => n = m + 1

\* A chunk ends only before a section that breaks with it, or a piece that
\* would make it too long, or longer than it need be.
MustEnd(chunk, piece) ==
    LET size == Rendered(Append(chunk, piece)) IN
    \/ RequiresBreak(chunk, piece)
    \/ size > MaxChars
    \/ size > TargetChars /\ Rendered(chunk) >= MinChunkChars

\* The chunker loses no text and repeats little.  All its checks but one
\* always succeed, so that no segment and no size fails a version; the one
\* that may not, and does fail a version, refuses a heading without a body:
\* only where nothing may follow it in its chunk, as no chunk ends early.
ChunkingIsSound ==
    \A doc \in Segmented :
        LET chunking == Chunked(doc) IN
        /\ Covers(doc, chunking)
        /\ OverlapsModestly(chunking)
        /\ \A i \in DOMAIN doc : SplitSegment(doc[i], i) # <<>>
        /\ \A n \in DOMAIN chunking :
               /\ ~Malformed(doc, chunking[n])
               /\ n > 1 => MustEnd(chunking[n - 1], FirstNew(chunking, n))
=============================================================================
