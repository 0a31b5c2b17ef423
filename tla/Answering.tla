----------------------------- MODULE Answering -----------------------------
(***************************************************************************)
(* One AI run: a customer message goes through classification, decision,   *)
(* hybrid retrieval, generation and guardrails, and its outcome is         *)
(* persisted, while staff publish and archive the documents it searches.   *)
(*                                                                         *)
(* No transaction spans the run.  The two searches read the knowledge base *)
(* in transactions of their own, and everything after them works on what   *)
(* they returned.  Language model, embedding provider and database may     *)
(* fail at each call.  A document is seen as PublishedVersion promises it. *)
(***************************************************************************)
EXTENDS HybridRetrieval, SupportDecision

CONSTANTS None,
          Received,     \* the messages customers may send
          Classified,   \* the classifications the model may give
          Foreign,      \* a citation of something that is no chunk
          MaxChanges    \* bound on the documents' changes during the run

ASSUME AnsweringAssumption ==
    /\ Received \subseteq Messages /\ Classified \subseteq Classifications
    /\ Foreign \notin Chunks
    /\ MaxChanges \in Nat

VARIABLES published,  \* versions each document has published so far
          open,       \* the documents that are not archived
          initial,    \* published and open when the run began (history)
          run,        \* the orchestrator's AIState
          rankings,   \* what the searches returned: vector, then lexical
          row         \* the committed AI run, its message and escalation

vars == <<published, open, initial, run, rankings, row>>

\* A response: fixed application text, or the model's, with its citations
\* and whether it claims an action or a fact it cannot know.
Texts == [by : {"application", "model"}, cites : SUBSET (Chunks \cup {Foreign}), claims : BOOLEAN]

AppText == [by |-> "application", cites |-> {}, claims |-> FALSE]

Active == {"received", "decided", "searched", "ranked", "grounded", "generated"}
Terminal == {"passed", "refused", "escalated", "failed"}

Codes == {"INTENT_FAILURE", "DIRECT_RESPONSE_UNAVAILABLE", "RETRIEVAL_DECISION_INVALID", "GENERATION_FAILURE",
          "GENERATION_INVALID_RESPONSE", "GROUNDING_STATUS_INVALID", "DECISION_RESPONSE_MISMATCH"}

ASSUME NoneAssumption ==
    None \notin Messages \cup Classifications \cup Decisions \cup Chunks \cup Texts \cup Codes

Init ==
    /\ published \in [Documents -> 0..MaxPublished]
    /\ open \in SUBSET Documents
    /\ initial = [published |-> published, open |-> open]
    /\ \E m \in Received :
           run = [stage |-> "received", message |-> m, intent |-> None, decision |-> None,
                  evidence |-> <<>>, response |-> None, code |-> None]
    /\ rankings = <<>>
    /\ row = [status |-> "running", text |-> None, escalated |-> FALSE]

-----------------------------------------------------------------------------

\* Forms a plausible mistake would give the definitions below.
BugSearchable == {c \in Chunks : c.version <= published[c.doc]}
BugShown == IF run.response # None THEN run.response ELSE AppText

-----------------------------------------------------------------------------
(* The knowledge base.                                                     *)

\* The chunks of published versions of active documents.
Searchable == {c \in Chunks : c.doc \in open /\ c.version = published[c.doc]}

Changes ==
    Cardinality(initial.open \ open)
      + MapThenSumSet(LAMBDA d : published[d] - initial.published[d], Documents)

Publish(d) ==
    /\ d \in open /\ Changes < MaxChanges
    /\ published[d] < MaxPublished
    /\ published' = [published EXCEPT ![d] = @ + 1]
    /\ UNCHANGED <<open, initial, run, rankings, row>>

Archive(d) ==
    /\ d \in open /\ Changes < MaxChanges
    /\ open' = open \ {d}
    /\ UNCHANGED <<published, initial, run, rankings, row>>

KnowledgeUnchanged == UNCHANGED <<published, open, initial>>

-----------------------------------------------------------------------------
(* The orchestrator.                                                       *)

Fail(code) == run' = [run EXCEPT !.stage = "failed", !.code = code]

\* An exception no stage converts: it leaves the orchestrator.
Escape == run' = [run EXCEPT !.stage = "aborted"]

Generated(text) == run' = [run EXCEPT !.stage = "generated", !.response = text]

Understand(r) ==
    /\ run.stage = "received"
    /\ r \in IF Routed(run.message) THEN {Route(run.message)} ELSE Classified
    /\ run' = [run EXCEPT !.stage = "decided", !.intent = r, !.decision = Decide(r)]
    /\ KnowledgeUnchanged /\ UNCHANGED <<rankings, row>>

ClassifierFails ==
    /\ run.stage = "received"
    /\ ~Routed(run.message)
    /\ Fail("INTENT_FAILURE")
    /\ KnowledgeUnchanged /\ UNCHANGED <<rankings, row>>

AnswerDirectly ==
    /\ run.stage = "decided" /\ run.decision.act = "answer"
    /\ IF Answerable(run.message, run.intent, run.decision)
         THEN Generated(AppText)
         ELSE Fail("DIRECT_RESPONSE_UNAVAILABLE")
    /\ KnowledgeUnchanged /\ UNCHANGED <<rankings, row>>

RequestClarification ==
    /\ run.stage = "decided" /\ run.decision.act = "clarify"
    /\ Generated(AppText)
    /\ KnowledgeUnchanged /\ UNCHANGED <<rankings, row>>

EscalateFromDecision ==
    /\ run.stage = "decided" /\ run.decision.act = "escalate"
    /\ run' = [run EXCEPT !.stage = "escalated"]
    /\ KnowledgeUnchanged /\ UNCHANGED <<rankings, row>>

-----------------------------------------------------------------------------
(* Retrieval and grounded generation.                                      *)

\* The answer service takes a decision only if it names the knowledge base.
Routable(decision) == decision.reason = "policy_retrieval_required"

Retrieving == run.stage = "decided" /\ run.decision.act = "retrieve"

\* A semantic query is the message itself and may have 4,000 characters.
SearchVector ==
    /\ Retrieving
    /\ IF Routable(run.decision)
         THEN /\ run.message.size # "long"
              /\ run' = [run EXCEPT !.stage = "searched"]
              /\ \E r \in Rankings(Searchable) : rankings' = <<r>>
         ELSE Fail("RETRIEVAL_DECISION_INVALID") /\ UNCHANGED rankings
    /\ KnowledgeUnchanged /\ UNCHANGED row

SearchLexical ==
    /\ run.stage = "searched"
    /\ run' = [run EXCEPT !.stage = "ranked"]
    /\ \E r \in Rankings(Searchable) : rankings' = Append(rankings, r)
    /\ KnowledgeUnchanged /\ UNCHANGED row

\* A query that is too long, an embedding or a search that fails.
RetrievalFails ==
    /\ (Retrieving /\ Routable(run.decision)) \/ run.stage = "searched"
    /\ Escape
    /\ KnowledgeUnchanged /\ UNCHANGED <<rankings, row>>

Ground ==
    /\ run.stage = "ranked"
    /\ run' = [run EXCEPT !.stage = "grounded",
                          !.evidence = GroundingContext(Candidates(rankings)).blocks]
    /\ rankings' = <<>>
    /\ KnowledgeUnchanged /\ UNCHANGED row

\* A structured answer: "quoted" tells that no source is cited twice or
\* under another title than its own.
Answers(evidence) ==
    [status : {"grounded", "insufficient", "not_required"},
     cites : SUBSET (ToSet(evidence) \cup {Foreign}), quoted : BOOLEAN, claims : BOOLEAN]

Valid(answer, evidence) ==
    /\ answer.status = "grounded" <=> answer.cites # {}
    /\ answer.cites \subseteq ToSet(evidence)
    /\ answer.quoted

Generate(answer) ==
    /\ run.stage = "grounded"
    /\ IF ~Valid(answer, run.evidence) THEN Fail("GENERATION_INVALID_RESPONSE")
       ELSE LET text == [by |-> "model", cites |-> answer.cites, claims |-> answer.claims] IN
            CASE answer.status = "grounded" -> Generated(text)
              [] answer.status = "insufficient" ->
                     run' = [run EXCEPT !.stage = "escalated", !.response = text]
              [] answer.status = "not_required" ->
                     run' = [run EXCEPT !.stage = "failed", !.response = text,
                                        !.code = "GROUNDING_STATUS_INVALID"]
    /\ KnowledgeUnchanged /\ UNCHANGED <<rankings, row>>

GeneratorFails ==
    /\ run.stage = "grounded"
    /\ Fail("GENERATION_FAILURE")
    /\ KnowledgeUnchanged /\ UNCHANGED <<rankings, row>>

-----------------------------------------------------------------------------
(* Guardrails and the end of the run.                                      *)

\* A refusal replaces the response; an escalation keeps it inside.
Review ==
    /\ run.stage = "generated"
    /\ LET verdict == Verdict(run.message, run.decision, run.response) IN
       run' = CASE verdict = "pass" -> [run EXCEPT !.stage = "passed"]
                [] verdict = "refuse" -> [run EXCEPT !.stage = "refused", !.response = AppText]
                [] verdict = "escalate" -> [run EXCEPT !.stage = "escalated"]
                [] verdict = "mismatch" -> [run EXCEPT !.stage = "escalated",
                                                       !.code = "DECISION_RESPONSE_MISMATCH"]
    /\ KnowledgeUnchanged /\ UNCHANGED <<rankings, row>>

\* An escalation shows its notice, never the response it rejected.
Shown == IF run.stage = "escalated" THEN AppText ELSE run.response

Finalize ==
    /\ run.stage \in Terminal /\ row.status = "running"
    /\ row' = IF run.stage = "failed"
              THEN [row EXCEPT !.status = "failed"]
              ELSE [status |-> "completed", text |-> Shown, escalated |-> run.stage = "escalated"]
    /\ KnowledgeUnchanged /\ UNCHANGED <<run, rankings>>

\* Its transaction is rolled back.
FinalizeFails ==
    /\ run.stage \in Terminal /\ row.status = "running"
    /\ Escape
    /\ KnowledgeUnchanged /\ UNCHANGED <<rankings, row>>

MarkAborted ==
    /\ run.stage = "aborted" /\ row.status = "running"
    /\ row' = [row EXCEPT !.status = "failed"]
    /\ KnowledgeUnchanged /\ UNCHANGED <<run, rankings>>

-----------------------------------------------------------------------------

Next ==
    \/ \E r \in Classified \cup {Route(run.message)} : Understand(r)
    \/ ClassifierFails
    \/ AnswerDirectly \/ RequestClarification \/ EscalateFromDecision
    \/ SearchVector \/ SearchLexical \/ RetrievalFails \/ Ground
    \/ \E answer \in Answers(run.evidence) : Generate(answer)
    \/ GeneratorFails
    \/ Review \/ Finalize \/ FinalizeFails \/ MarkAborted
    \/ \E d \in Documents : Publish(d) \/ Archive(d)

Spec == Init /\ [][Next]_vars

-----------------------------------------------------------------------------
(* Safety.                                                                 *)

TypeOK ==
    /\ published \in [Documents -> 0..MaxPublished]
    /\ open \subseteq Documents
    /\ run.stage \in Active \cup Terminal \cup {"aborted"}
    /\ run.intent \in Classifications \cup {None}
    /\ run.decision \in Decisions \cup {None}
    /\ ToSet(run.evidence) \subseteq Chunks
    /\ run.response \in Texts \cup {None}
    /\ run.code \in Codes \cup {None}
    /\ Len(rankings) <= 2 /\ Listed(rankings) \subseteq Chunks
    /\ row.text \in Texts \cup {None}

\* The customer sees fixed texts, or a model's answer that rests on supplied
\* evidence, claims nothing it cannot know, and was not asked for by a
\* message that tries to change the rules; a failed run shows nothing.
ShownIsApproved ==
    row.text # None =>
        /\ row.status = "completed"
        /\ row.text.by = "model" =>
               /\ row.text.cites # {} /\ row.text.cites \subseteq ToSet(run.evidence)
               /\ ~row.text.claims /\ ~run.message.manipulative

\* However documents change between the searches, every piece of evidence
\* was served at some moment of the run: nothing replaced or archived before
\* it began.  Two versions of a document may meet in one context.
EvidenceIsRecent ==
    \A c \in ToSet(run.evidence) :
        /\ c.doc \in initial.open
        /\ c.version \in initial.published[c.doc] .. published[c.doc]

\* A customer who asks for a human, is badly dissatisfied or raises a matter
\* of security gets an escalation, whatever else the model found.
NeedsHuman == run.intent.signals # {} \/ run.intent.intent = "privacy_security"
EscalationWins ==
    run.intent # None /\ NeedsHuman =>
        /\ run.stage \in {"decided", "escalated", "aborted"}
        /\ row.text # None => row.escalated

\* The stages agree on what the decisions mean: no run fails because one
\* refuses what an earlier one decided, except for a message without words.
StagesAgree ==
    /\ run.code \notin {"RETRIEVAL_DECISION_INVALID", "DECISION_RESPONSE_MISMATCH"}
    /\ run.code = "DIRECT_RESPONSE_UNAVAILABLE" => run.message.kind = "wordless"

\* A chunk that no search ranks lower and one ranks higher comes first, and
\* is not cut off before the other.
FusionRespectsAgreement ==
    run.stage = "ranked" => Respects(rankings, Candidates(rankings))

\* The context is as full as the budget allows, repeats nothing, and tells
\* truthfully whether something was left out.
ContextIsExplained ==
    run.stage = "ranked" =>
        Explains(GroundingContext(Candidates(rankings)), Candidates(rankings))
=============================================================================
