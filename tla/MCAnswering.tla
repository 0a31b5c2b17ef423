---------------------------- MODULE MCAnswering ----------------------------
(* Values for model checking Answering.                                    *)
EXTENDS Answering

\* The first chunk of a version contains the text of the second.
MCTokens == <<2, 1>>
MCWithin == {<<2, 1>>}

\* Each kind of message in the sizes that make a difference.
MCReceived ==
    {[size |-> "short", kind |-> k, manipulative |-> FALSE] : k \in {"pleasantry", "wordless"}} \cup
    [size : {"short", "medium"}, kind : {"human"}, manipulative : {TRUE}] \cup
    [size : {"medium"}, kind : {"request"}, manipulative : BOOLEAN] \cup
    [size : {"long"}, kind : {"request"}, manipulative : {FALSE}]

\* One intent stands for the eight that search the knowledge base; order
\* ids matter for order questions only.
MCClassified ==
    {r \in Classifications :
        /\ r.intent \in Intents \ (KnowledgeIntents \ {"refund_request"})
        /\ r.order => r.intent = "order_status"}
=============================================================================
