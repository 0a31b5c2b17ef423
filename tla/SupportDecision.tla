-------------------------- MODULE SupportDecision --------------------------
(***************************************************************************)
(* The rules that turn a customer message and its classification into the  *)
(* next step of the pipeline, and that judge a proposed response.  They    *)
(* are fixed; the classification and the texts come from a language model  *)
(* and are arbitrary.                                                      *)
(***************************************************************************)

KnowledgeIntents ==
    {"refund_request", "payment_issue", "shipping_issue", "cancellation", "subscription_issue",
     "account_issue", "return_exchange", "general_question"}

Intents ==
    KnowledgeIntents \cup {"order_status", "privacy_security", "conversational", "out_of_scope", "unknown"}

\* A message: up to 200, up to 4,000 or up to 20,000 characters; it asks for
\* a human in so many words, is a bare pleasantry or capability question,
\* has no word in it, or is anything else; it may try to change the rules.
Messages ==
    {m \in [size : {"short", "medium", "long"},
            kind : {"human", "pleasantry", "wordless", "request"},
            manipulative : BOOLEAN] :
        m.manipulative => m.kind \in {"human", "request"}}

\* A classification: "confident" is a confidence of at least 0.60, "unclear"
\* is needs_clarification, "order" tells that an order id was found.
Classifications ==
    {r \in [intent : Intents, confident : BOOLEAN, unclear : BOOLEAN, order : BOOLEAN,
            signals : SUBSET {"human", "dissatisfied"}] :
        r.intent = "unknown" => r.unclear}

Decision(act, reason) == [act |-> act, reason |-> reason]

Decisions ==
    [act : {"answer", "retrieve", "clarify", "escalate"},
     reason : {"customer_requested_human", "severe_customer_dissatisfaction", "unknown_intent",
               "low_intent_confidence", "missing_required_information", "security_sensitive_request",
               "operational_lookup_unavailable", "policy_retrieval_required",
               "direct_informational_response", "unsupported_request"}]

\* Forms a plausible mistake would give the definitions below.
BugPolicy(intent) ==
    CASE intent \in KnowledgeIntents -> Decision("retrieve", "policy_retrieval_required")
      [] intent = "order_status" -> Decision("perform_action", "operational_lookup_unavailable")
      [] OTHER -> Decision("answer", "direct_informational_response")
BugDecide(r) ==
    IF ~r.confident THEN Decision("clarify", "low_intent_confidence")
    ELSE IF r.signals # {} THEN Decision("escalate", "customer_requested_human")
    ELSE Decision("clarify", "unknown_intent")
BugAnswerable(m, r, decision) ==
    /\ decision.act = "answer"
    /\ r.intent = "conversational" /\ ~r.unclear
    /\ m.kind # "wordless"

-----------------------------------------------------------------------------

\* The router answers for short messages of known form, without the model.
Routed(m) == m.size = "short" /\ m.kind \in {"human", "pleasantry"}

Route(m) ==
    [intent |-> "conversational", confident |-> TRUE, unclear |-> FALSE, order |-> FALSE,
     signals |-> IF m.kind = "human" THEN {"human"} ELSE {}]

Policy(intent) ==
    CASE intent \in KnowledgeIntents -> Decision("retrieve", "policy_retrieval_required")
      [] intent = "order_status" -> Decision("escalate", "operational_lookup_unavailable")
      [] intent = "privacy_security" -> Decision("escalate", "security_sensitive_request")
      [] intent = "conversational" -> Decision("answer", "direct_informational_response")
      [] intent = "out_of_scope" -> Decision("answer", "unsupported_request")
      [] intent = "unknown" -> Decision("clarify", "unknown_intent")

\* The first rule that applies decides.
Decide(r) ==
    IF "human" \in r.signals
      THEN Decision("escalate", "customer_requested_human")
    ELSE IF "dissatisfied" \in r.signals
      THEN Decision("escalate", "severe_customer_dissatisfaction")
    ELSE IF r.intent = "privacy_security"
      THEN Policy(r.intent)
    ELSE IF r.intent = "unknown"
      THEN Decision("clarify", "unknown_intent")
    ELSE IF ~r.confident
      THEN Decision("clarify", "low_intent_confidence")
    ELSE IF r.intent = "order_status" /\ ~r.order
      THEN Decision("clarify", "missing_required_information")
    ELSE IF Policy(r.intent).act = "retrieve"
      THEN Policy(r.intent)
    ELSE IF r.unclear
      THEN Decision("clarify", "missing_required_information")
    ELSE Policy(r.intent)

\* A fixed text can answer; an empty one cannot be told from another.
Answerable(m, r, decision) ==
    /\ decision.act = "answer"
    /\ r.intent \in {"conversational", "out_of_scope"}
    /\ ~r.unclear
    /\ r.intent = "conversational" => m.kind # "wordless"

\* The guardrails, in order.
Verdict(m, decision, text) ==
    IF decision.act \notin {"answer", "retrieve", "clarify"} THEN "mismatch"
    ELSE IF m.manipulative THEN "refuse"
    ELSE IF text.claims THEN "escalate"
    ELSE "pass"
=============================================================================
