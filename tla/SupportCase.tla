---------------------------- MODULE SupportCase ----------------------------
(***************************************************************************)
(* One support conversation worked on at once by customer messages         *)
(* (ProcessCustomerMessage), its owner closing it (CloseConversation) and  *)
(* support staff (UpdateEscalation, CreateTicketFromEscalation).           *)
(*                                                                         *)
(* PostgreSQL runs read committed: a plain SELECT is a step of its own,    *)
(* and what it read may be old by the time the transaction writes.  The    *)
(* writes of one transaction become visible together, at the step that     *)
(* commits.  A row locked FOR UPDATE stays locked until then.              *)
(***************************************************************************)
EXTENDS Integers, FiniteSets

CONSTANTS Runs,       \* customer messages, each with its AI run
          Agents,     \* support agents and administrators
          None,
          MaxFaults   \* bound on raised exceptions and crashes

ASSUME NoneAssumption == None \notin Runs /\ None \notin Agents
ASSUME BoundAssumption == MaxFaults \in Nat

VARIABLES conv,         \* the conversations row
          messages,     \* the messages of the conversation
          runs,         \* ai.runs status, by run
          escalations,  \* status of the escalation of each run
          tickets,      \* ticket rows made from escalations
          pc,           \* where each message is
          view,         \* the conversations row as the message's transaction read it
          outcome,      \* terminal stage of the message's pipeline
          job,          \* what each agent is in the middle of
          locked        \* escalation rows locked FOR UPDATE

vars == <<conv, messages, runs, escalations, tickets, pc, view, outcome, job, locked>>

ConversationStatuses ==
    {"open", "waiting_for_customer", "waiting_for_agent", "escalated", "resolved", "closed"}
EscalationStatuses == {"open", "in_review", "resolved", "dismissed"}
Active == {"open", "in_review"}
Outcomes == {"answered", "escalated", "failed"}

Conversations ==
    [status : ConversationStatuses, resolvedAt : BOOLEAN, closedAt : BOOLEAN, next : Nat]

\* kind is the role and message_kind; notices say what they announce.
Kinds == {"customer", "assistant_response", "escalation_notice", "ticket_created"}
             \cup EscalationStatuses
Messages == [seq : Nat, run : Runs, kind : Kinds]

Idle == [op |-> "idle"]
Jobs == {Idle} \cup [op : {"update"}, run : Runs, target : EscalationStatuses]
               \cup [op : {"ticket"}, run : Runs]

TypeOK ==
    /\ conv \in Conversations
    /\ messages \subseteq Messages
    /\ runs \in [Runs -> {"none", "running", "completed", "failed"}]
    /\ escalations \in [Runs -> EscalationStatuses \cup {"none"}]
    /\ tickets \subseteq [run : Runs, by : Agents]
    /\ pc \in [Runs -> {"idle", "accepting", "pipeline", "finalizing", "writing",
                        "recovering", "done", "refused", "aborted", "stranded", "killed"}]
    /\ view \in [Runs -> Conversations \cup {None}]
    /\ outcome \in [Runs -> Outcomes \cup {None}]
    /\ job \in [Agents -> Jobs]
    /\ locked \subseteq Runs

\* A conversation created empty by CreateConversation.
NewConversation ==
    [status |-> "open", resolvedAt |-> FALSE, closedAt |-> FALSE, next |-> 1]

Init ==
    /\ conv = NewConversation
    /\ messages = {}
    /\ runs = [r \in Runs |-> "none"]
    /\ escalations = [r \in Runs |-> "none"]
    /\ tickets = {}
    /\ pc = [r \in Runs |-> "idle"]
    /\ view = [r \in Runs |-> None]
    /\ outcome = [r \in Runs |-> None]
    /\ job = [g \in Agents |-> Idle]
    /\ locked = {}

-----------------------------------------------------------------------------
(* Rules the operations share.                                             *)

\* Forms a plausible mistake would give the definitions below.
BugSequence(seen) == seen.next
BugUnlocked(r) == TRUE
BugRecover(r) ==
    /\ pc[r] = "recovering"
    /\ pc' = [pc EXCEPT ![r] = "aborted"]
    /\ UNCHANGED <<conv, messages, runs, escalations, tickets, view, outcome, job, locked>>

Processable == {"open", "waiting_for_customer", "waiting_for_agent", "escalated"}

\* ALLOWED_ESCALATION_TRANSITIONS
Transitions ==
    [s \in EscalationStatuses |->
        CASE s = "open"      -> {"in_review", "resolved", "dismissed"}
          [] s = "in_review" -> {"resolved", "dismissed"}
          [] OTHER           -> {}]

\* allocate_message_sequence: one UPDATE ... RETURNING, so it works on the
\* row as it is now; seen is what the transaction had read before.
Sequence(seen) == conv.next

\* A message committed in the transaction that allocates its number.
Append(r, kind, seen) == messages' = messages \cup {[seq |-> Sequence(seen), run |-> r, kind |-> kind]}

\* get_by_id_for_update on an escalation waits for the holder.
Unlocked(r) == r \notin locked

\* uq_tickets_escalation
TicketTaken(r) == \E t \in tickets : t.run = r

\* mark_escalated on the row object read as `seen`: the ORM writes only the
\* columns whose value differs from the value it read.
MarkEscalated(row, seen) ==
    [row EXCEPT !.status     = IF seen.status # "escalated" THEN "escalated" ELSE @,
                !.resolvedAt = IF seen.resolvedAt THEN FALSE ELSE @,
                !.closedAt   = IF seen.closedAt THEN FALSE ELSE @]

MayFail == Cardinality({r \in Runs : pc[r] \in {"recovering", "aborted", "stranded", "killed"}}) < MaxFaults

Goto(r, l) == pc' = [pc EXCEPT ![r] = l]

\* A transaction that ends takes what it read with it, a request that ends
\* the pipeline's state.
CloseView(r) == view' = [view EXCEPT ![r] = None]
Forget(r) == CloseView(r) /\ outcome' = [outcome EXCEPT ![r] = None]

-----------------------------------------------------------------------------
(* ProcessCustomerMessage.execute                                          *)

\* _accept_message_and_start_run reads the conversation without a lock.
AcceptRead(r) ==
    /\ pc[r] = "idle"
    /\ IF conv.status \in Processable
       THEN Goto(r, "accepting") /\ view' = [view EXCEPT ![r] = conv]
       ELSE Goto(r, "refused") /\ UNCHANGED view
    /\ UNCHANGED <<conv, messages, runs, escalations, tickets, outcome, job, locked>>

\* It then numbers and adds the message and commits a running AI run.
AcceptWrite(r) ==
    /\ pc[r] = "accepting"
    /\ Append(r, "customer", view[r])
    /\ conv' = [conv EXCEPT !.next = @ + 1]
    /\ runs' = [runs EXCEPT ![r] = "running"]
    /\ Goto(r, "pipeline")
    /\ CloseView(r)
    /\ UNCHANGED <<escalations, tickets, outcome, job, locked>>

\* The orchestrator returns a terminal state; no transaction is open.
RunPipeline(r, o) ==
    /\ pc[r] = "pipeline"
    /\ outcome' = [outcome EXCEPT ![r] = o]
    /\ Goto(r, "finalizing")
    /\ UNCHANGED <<conv, messages, runs, escalations, tickets, view, job, locked>>

\* _finalize_committed_work reads the conversation, again without a lock.
FinalizeRead(r) ==
    /\ pc[r] = "finalizing"
    /\ runs[r] = "running"
    /\ view' = [view EXCEPT ![r] = conv]
    /\ Goto(r, "writing")
    /\ UNCHANGED <<conv, messages, runs, escalations, tickets, outcome, job, locked>>

\* It writes run, escalation, conversation and customer-visible message.
FinalizeWrite(r) ==
    /\ pc[r] = "writing"
    /\ runs' = [runs EXCEPT ![r] = IF outcome[r] = "failed" THEN "failed" ELSE "completed"]
    /\ \/ /\ outcome[r] = "failed"
          /\ UNCHANGED <<conv, messages, escalations>>
       \/ /\ outcome[r] = "answered"
          /\ Append(r, "assistant_response", view[r])
          /\ conv' = [conv EXCEPT !.next = @ + 1]
          /\ UNCHANGED escalations
       \/ /\ outcome[r] = "escalated"
          /\ escalations' = [escalations EXCEPT ![r] = "open"]
          /\ Append(r, "escalation_notice", view[r])
          /\ conv' = MarkEscalated([conv EXCEPT !.next = @ + 1], view[r])
    /\ Goto(r, "done")
    /\ Forget(r)
    /\ UNCHANGED <<tickets, job, locked>>

\* An exception leaves the pipeline or rolls the finalizing transaction back.
Raise(r) ==
    /\ pc[r] \in {"pipeline", "finalizing", "writing"}
    /\ MayFail
    /\ Goto(r, "recovering")
    /\ Forget(r)
    /\ UNCHANGED <<conv, messages, runs, escalations, tickets, job, locked>>

\* _mark_aborted_run_failed: the recovery commits ...
Recover(r) ==
    /\ pc[r] = "recovering"
    /\ runs' = [runs EXCEPT ![r] = IF @ = "running" THEN "failed" ELSE @]
    /\ Goto(r, "aborted")
    /\ UNCHANGED <<conv, messages, escalations, tickets, view, outcome, job, locked>>

\* ... or raises as well, which is swallowed: the worker lives on and the run
\* stays as it was.
RecoverFails(r) ==
    /\ pc[r] = "recovering"
    /\ Goto(r, "stranded")
    /\ UNCHANGED <<conv, messages, runs, escalations, tickets, view, outcome, job, locked>>

\* The process dies; what was not committed is gone.
Crash(r) ==
    /\ pc[r] \in {"accepting", "pipeline", "finalizing", "writing", "recovering"}
    /\ MayFail \/ pc[r] = "recovering"
    /\ Goto(r, "killed")
    /\ Forget(r)
    /\ UNCHANGED <<conv, messages, runs, escalations, tickets, job, locked>>

-----------------------------------------------------------------------------
(* CloseConversation.execute: locks the row, so it reads and writes it at  *)
(* one point of the row's history.                                         *)
Close ==
    /\ conv.status # "closed"
    /\ conv' = [conv EXCEPT !.status = "closed", !.closedAt = TRUE, !.resolvedAt = TRUE]
    /\ UNCHANGED <<messages, runs, escalations, tickets, pc, view, outcome, job, locked>>

-----------------------------------------------------------------------------
(* Support staff.                                                          *)

\* UpdateEscalation.execute locks the escalation and validates the
\* transition; the same status again, or a refused one, changes nothing.
BeginUpdate(g, r, s) ==
    /\ job[g] = Idle
    /\ escalations[r] # "none"
    /\ Unlocked(r)
    /\ s \in Transitions[escalations[r]]
    /\ job' = [job EXCEPT ![g] = [op |-> "update", run |-> r, target |-> s]]
    /\ locked' = locked \cup {r}
    /\ UNCHANGED <<conv, messages, runs, escalations, tickets, pc, view, outcome>>

\* The new status and the notice to the customer commit together.
ApplyUpdate(g) ==
    /\ job[g].op = "update"
    /\ escalations' = [escalations EXCEPT ![job[g].run] = job[g].target]
    /\ Append(job[g].run, job[g].target, conv)
    /\ conv' = [conv EXCEPT !.next = @ + 1]
    /\ locked' = locked \ {job[g].run}
    /\ job' = [job EXCEPT ![g] = Idle]
    /\ UNCHANGED <<runs, tickets, pc, view, outcome>>

\* CreateTicketFromEscalation reads escalation and tickets without a lock.
BeginTicket(g, r) ==
    /\ job[g] = Idle
    /\ escalations[r] \in Active
    /\ ~ \E t \in tickets : t.run = r
    /\ job' = [job EXCEPT ![g] = [op |-> "ticket", run |-> r]]
    /\ UNCHANGED <<conv, messages, runs, escalations, tickets, pc, view, outcome, locked>>

\* The ticket and its notice, in one transaction.
InsertTicket(g) ==
    /\ job[g].op = "ticket"
    /\ ~TicketTaken(job[g].run)
    /\ tickets' = tickets \cup {[run |-> job[g].run, by |-> g]}
    /\ Append(job[g].run, "ticket_created", conv)
    /\ conv' = [conv EXCEPT !.next = @ + 1]
    /\ job' = [job EXCEPT ![g] = Idle]
    /\ UNCHANGED <<runs, escalations, pc, view, outcome, locked>>

\* Rolled back: the unique index refused the ticket, or a later statement
\* of either transaction raised.
RollBack(g) ==
    /\ job[g] # Idle
    /\ job' = [job EXCEPT ![g] = Idle]
    /\ locked' = IF job[g].op = "update" THEN locked \ {job[g].run} ELSE locked
    /\ UNCHANGED <<conv, messages, runs, escalations, tickets, pc, view, outcome>>

-----------------------------------------------------------------------------

MessageStep(r) ==
    \/ AcceptRead(r) \/ AcceptWrite(r)
    \/ \E o \in Outcomes : RunPipeline(r, o)
    \/ FinalizeRead(r) \/ FinalizeWrite(r) \/ Recover(r)

AgentStep(g) ==
    \/ \E r \in Runs :
        \/ \E s \in EscalationStatuses : BeginUpdate(g, r, s)
        \/ BeginTicket(g, r)
    \/ ApplyUpdate(g) \/ InsertTicket(g) \/ RollBack(g)

Next ==
    \/ \E r \in Runs : MessageStep(r) \/ Raise(r) \/ RecoverFails(r) \/ Crash(r)
    \/ \E g \in Agents : AgentStep(g)
    \/ Close

Spec == Init /\ [][Next]_vars

\* A worker thread that is not killed runs to its end.
FairSpec == Spec /\ \A r \in Runs : WF_vars(MessageStep(r))

-----------------------------------------------------------------------------

Notices(r, kind) == {m \in messages : m.run = r /\ m.kind = kind}

\* Message numbers have no gap and no duplicate, whoever wrote and in
\* whatever order, rolled-back transactions included.
SequenceContiguous ==
    /\ {m.seq : m \in messages} = 1..(conv.next - 1)
    /\ \A m, n \in messages : m.seq = n.seq => m = n

\* The history tells the customer each escalation's life once and in order:
\* the notice that it was opened, then one notice per status it went through.
HistoryTellsEscalation ==
    \A r \in Runs :
        /\ Cardinality(Notices(r, "escalation_notice")) = IF escalations[r] = "none" THEN 0 ELSE 1
        /\ \A s \in EscalationStatuses : Cardinality(Notices(r, s)) <= 1
        /\ \A s \in EscalationStatuses \ {"open"} : escalations[r] = s => Notices(r, s) # {}
        /\ Cardinality(Notices(r, "resolved") \cup Notices(r, "dismissed")) <= 1
        /\ \A first \in Notices(r, "in_review"), last \in Notices(r, "resolved") \cup Notices(r, "dismissed") :
               first.seq < last.seq

\* A resolved or dismissed escalation stays so, and none disappears.
EscalationNeverReopens ==
    [][\A r \in Runs :
        /\ escalations[r] \in {"resolved", "dismissed"} => escalations'[r] = escalations[r]
        /\ escalations[r] # "none" => escalations'[r] # "none"]_vars

\* One escalation gives at most one ticket, announced once.
OneTicketPerEscalation ==
    \A r \in Runs :
        /\ Cardinality({t \in tickets : t.run = r}) <= 1
        /\ Cardinality(Notices(r, "ticket_created")) = Cardinality({t \in tickets : t.run = r})

\* An accepted message's run settles, unless its process dies or, after an
\* exception, the recovery (_mark_aborted_run_failed) fails too: nothing else
\* leaves a run running for good.
RunsSettle ==
    \A r \in Runs : runs[r] = "running" ~>
        runs[r] \in {"completed", "failed"} \/ pc[r] \in {"killed", "stranded"}

\* README: "transitions a conversation into the terminal: closed" state.  A
\* pipeline that was running when the owner closed it may escalate it.
ClosedIsTerminal == [][conv.status = "closed" => conv'.status = "closed"]_vars
=============================================================================
