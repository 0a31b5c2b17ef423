-------------------------- MODULE HybridRetrieval --------------------------
(***************************************************************************)
(* From the two rankings of a hybrid search to the context of an answer:   *)
(* reciprocal rank fusion, the candidate limits, and the selection of      *)
(* blocks under a token budget.                                            *)
(***************************************************************************)
EXTENDS Naturals, Sequences, FiniteSets, SequencesExt, FiniteSetsExt

CONSTANTS Documents,      \* numbered, so that chunk ids are ordered
          MaxPublished,   \* bound on the versions a document publishes
          Parts,          \* the chunks of a version, numbered
          RankConstant,   \* rrf_k
          SearchLimit,    \* vector_candidate_limit, lexical_candidate_limit
          FusedLimit,     \* fused_candidate_limit
          FinalLimit,     \* final_candidate_limit
          Tokens,         \* the estimate for the chunk of each part
          Within,         \* <<p, q>> if part p's text lies within part q's
          MaxTokens, MaxBlocks, MaxBlocksPerDocument

ASSUME RetrievalAssumption ==
    /\ Documents \subseteq Nat /\ Parts \subseteq Nat /\ MaxPublished \in Nat
    /\ RankConstant \in Nat \ {0}
    /\ SearchLimit \in Nat \ {0} /\ FusedLimit \in 1..(2 * SearchLimit) /\ FinalLimit \in 1..FusedLimit
    /\ Tokens \in [Parts -> Nat \ {0}]
    /\ Within \subseteq Parts \X Parts
    /\ {MaxTokens, MaxBlocks, MaxBlocksPerDocument} \subseteq Nat \ {0}

\* "version" is the how-manieth version its document published.
Chunks == [doc : Documents, version : 1..MaxPublished, part : Parts]

\* What a search may return: distinct chunks, best first.
Rankings(S) ==
    {r \in BoundedSeq(S, SearchLimit) : IsInjective(r)}

-----------------------------------------------------------------------------
(* Reciprocal rank fusion.                                                 *)

Position(ranking, c) == CHOOSE i \in DOMAIN ranking : ranking[i] = c

\* 1 / (k + rank), in units that make every share a whole number.
Unit == ProductSet({RankConstant + i : i \in 1..SearchLimit})
Share(rank) == Unit \div (RankConstant + rank)

Listing(rankings, c) == {k \in DOMAIN rankings : c \in ToSet(rankings[k])}

Score(rankings, c) ==
    SumFunction([k \in Listing(rankings, c) |-> Share(Position(rankings[k], c))])

BestRank(rankings, c) ==
    Min({Position(rankings[k], c) : k \in Listing(rankings, c)})

RankSum(rankings, c) ==
    SumFunction([k \in Listing(rankings, c) |-> Position(rankings[k], c)])

IdBefore(c, e) ==
    \/ c.doc < e.doc
    \/ c.doc = e.doc /\ c.version < e.version
    \/ c.doc = e.doc /\ c.version = e.version /\ c.part < e.part

\* Forms a plausible mistake would give the definitions below.
BugOutranks(rankings, c, e) ==
    \/ Score(rankings, c) < Score(rankings, e)
    \/ Score(rankings, c) = Score(rankings, e) /\ IdBefore(c, e)

\* The first of these to differ decides.
Outranks(rankings, c, e) ==
    LET score(x) == Score(rankings, x)
        best(x) == BestRank(rankings, x)
        sum(x) == RankSum(rankings, x)
    IN  \/ score(c) > score(e)
        \/ score(c) = score(e) /\ best(c) < best(e)
        \/ score(c) = score(e) /\ best(c) = best(e) /\ sum(c) < sum(e)
        \/ score(c) = score(e) /\ best(c) = best(e) /\ sum(c) = sum(e) /\ IdBefore(c, e)

Listed(rankings) == UNION {ToSet(rankings[k]) : k \in DOMAIN rankings}

FirstOf(s, n) == SubSeq(s, 1, IF Len(s) < n THEN Len(s) ELSE n)

\* One more than the chunks that go before it.
Place(rankings, c) ==
    Cardinality({e \in Listed(rankings) : Outranks(rankings, e, c)}) + 1

Sorted(rankings) ==
    LET placed == {<<Place(rankings, c), c>> : c \in Listed(rankings)}
    IN  [i \in 1..Cardinality(placed) |-> CHOOSE c \in Listed(rankings) : <<i, c>> \in placed]

Fused(rankings) == FirstOf(Sorted(rankings), FusedLimit)

Candidates(rankings) == FirstOf(Fused(rankings), FinalLimit)

-----------------------------------------------------------------------------
(* The grounding context.                                                  *)

Contained(c, b) == c.part = b.part \/ <<c.part, b.part>> \in Within

\* Only text of the same version is redundant.
Redundant(c, S) ==
    \E b \in S : b.doc = c.doc /\ b.version = c.version /\ Contained(c, b)

Estimate(S) == SumFunction([c \in S |-> Tokens[c.part]])

OfDocument(d, S) == {c \in S : c.doc = d}

BugFits(c, blocks) ==
    /\ Cardinality(OfDocument(c.doc, ToSet(blocks))) < MaxBlocksPerDocument
    /\ Len(blocks) < MaxBlocks
    /\ Estimate(ToSet(blocks)) <= MaxTokens

Fits(c, blocks) ==
    /\ Cardinality(OfDocument(c.doc, ToSet(blocks))) < MaxBlocksPerDocument
    /\ Len(blocks) < MaxBlocks
    /\ Estimate(ToSet(blocks)) + Tokens[c.part] <= MaxTokens

Admit(context, c) ==
    IF Redundant(c, ToSet(context.blocks)) THEN context
    ELSE IF Fits(c, context.blocks)
         THEN [context EXCEPT !.blocks = Append(@, c)]
         ELSE [context EXCEPT !.truncated = TRUE]

GroundingContext(candidates) ==
    FoldLeft(Admit, [blocks |-> <<>>, truncated |-> FALSE], candidates)

-----------------------------------------------------------------------------
(* What the two promise, without the order in which they compute it.       *)

\* Ranked no worse by any search, and better by one.
Dominates(rankings, c, e) ==
    LET ahead(k) == /\ k \in Listing(rankings, c)
                    /\ k \in Listing(rankings, e) =>
                           Position(rankings[k], c) < Position(rankings[k], e)
    IN  /\ c # e
        /\ \A k \in Listing(rankings, e) : ahead(k)
        /\ \E k \in DOMAIN rankings : ahead(k)

Respects(rankings, s) ==
    \A c, e \in Listed(rankings) :
        Dominates(rankings, c, e) /\ e \in ToSet(s) =>
            c \in ToSet(s) /\ Position(s, c) < Position(s, e)

WithinBudget(S) ==
    /\ Cardinality(S) <= MaxBlocks
    /\ Estimate(S) <= MaxTokens
    /\ \A d \in Documents : Cardinality(OfDocument(d, S)) <= MaxBlocksPerDocument

Before(s, c) == FirstOf(s, Position(s, c) - 1)

\* What is left out repeats a block that ranks higher, or has no room even
\* in the finished context; the flag tells whether the latter happened.
Explains(context, candidates) ==
    LET chosen == ToSet(context.blocks)
        repeated(c) == Redundant(c, ToSet(Before(candidates, c)) \cap chosen)
        omitted == {c \in ToSet(candidates) \ chosen : ~repeated(c)}
    IN  /\ chosen \subseteq ToSet(candidates) /\ WithinBudget(chosen)
        /\ \A c \in chosen : ~repeated(c)
        /\ \A c \in omitted : ~WithinBudget(chosen \cup {c})
        /\ context.truncated = (omitted # {})
=============================================================================
