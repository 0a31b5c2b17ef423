------------------------- MODULE ConversationStart -------------------------
(***************************************************************************)
(* POST /conversations/start for one customer and one idempotency key:     *)
(* StartConversation.execute, AcceptConversationStart.execute and the      *)
(* start-request repository, with ProcessCustomerMessage.execute_accepted  *)
(* as the work done under the processing lease.                            *)
(*                                                                         *)
(* An attempt is one HTTP request handled by one worker thread.  Every     *)
(* action is one database transaction (PostgreSQL read committed; each     *)
(* statement sees the row as it is then) or one step between transactions. *)
(* Clock reads are steps of their own: the code reads the clock, then      *)
(* sends the statement that uses the value.  ids are abstract: the token,  *)
(* the AI run and the conversation an attempt creates carry its name.      *)
(***************************************************************************)
EXTENDS Integers, FiniteSets

CONSTANTS Attempts,      \* HTTP attempts carrying the key
          Fingerprints,  \* hashes of (message, channel, title)
          None,          \* SQL NULL
          TTL,           \* idempotency_ttl
          Lease,         \* processing_lease_duration
          MaxClock,      \* bound on the clock
          MaxFaults      \* bound on crashes and raised exceptions

ASSUME DurationAssumption ==
    TTL \in Nat \ {0} /\ Lease \in Nat \ {0} /\ MaxClock \in Nat /\ MaxFaults \in Nat

VARIABLES now,            \* wall clock
          request,        \* the conversation_start_requests row
          conversations,  \* committed conversation rows, by creator
          closed,         \* the conversation is closed
          runs,           \* ai.runs status of the run each attempt created
          answers,        \* attempts whose run put a message in the conversation
          pc,             \* where each attempt is
          fingerprint,    \* what each attempt sent
          clock,          \* the attempt's last clock read
          leaseAt,        \* acquired_at of the attempt's own lease
          outcome,        \* terminal pipeline stage of the attempt's run
          reply           \* result returned to the client

attemptVars == <<pc, fingerprint, clock, leaseAt, outcome, reply>>
vars == <<now, request, conversations, closed, runs, answers, attemptVars>>

Outcomes == {"answered", "escalated", "failed"}
Results  == [run : Attempts, outcome : Outcomes]

\* NULL is told apart from every value of a nullable column.
ASSUME NoneAssumption ==
    /\ None \notin Attempts
    /\ None \notin Nat
    /\ None \notin Results

Statuses == {"absent", "accepted", "processing", "completed", "failed"}
RunStatuses == {"none", "running", "completed", "failed"}

\* An attempt between arrival and its response.
Working == {"lookup", "insert", "reload", "load", "acquire", "resolve",
            "start", "pipeline", "finalize", "persist", "recorded"}
\* Responses that carry no result: the errors of start_conversation_errors.
Refusals == {"conflict", "expired", "inProgress", "leaseLost", "notProcessable"}
Locations == Working \cup Refusals \cup {"idle", "replied", "aborted", "crashed"}

Requests ==
    [status : Statuses, fingerprint : Fingerprints \cup {None},
     expires : Nat, token : Attempts \cup {None}, leaseEnd : Nat,
     attempts : Nat, snapshot : Results \cup {None}]

TypeOK ==
    /\ now \in Nat
    /\ request \in Requests
    /\ conversations \subseteq Attempts
    /\ closed \in BOOLEAN
    /\ runs \in [Attempts -> RunStatuses]
    /\ answers \subseteq Attempts
    /\ pc \in [Attempts -> Locations]
    /\ fingerprint \in [Attempts -> Fingerprints \cup {None}]
    /\ clock \in [Attempts -> Nat]
    /\ leaseAt \in [Attempts -> Nat \cup {None}]
    /\ outcome \in [Attempts -> Outcomes \cup {None}]
    /\ reply \in [Attempts -> Results \cup {None}]

NoRequest ==
    [status |-> "absent", fingerprint |-> None, expires |-> 0, token |-> None,
     leaseEnd |-> 0, attempts |-> 0, snapshot |-> None]

Init ==
    /\ now = 0
    /\ request = NoRequest
    /\ conversations = {}
    /\ closed = FALSE
    /\ runs = [a \in Attempts |-> "none"]
    /\ answers = {}
    /\ pc = [a \in Attempts |-> "idle"]
    /\ fingerprint = [a \in Attempts |-> None]
    /\ clock = [a \in Attempts |-> 0]
    /\ leaseAt = [a \in Attempts |-> None]
    /\ outcome = [a \in Attempts |-> None]
    /\ reply = [a \in Attempts |-> None]

-----------------------------------------------------------------------------
(* The statements of ConversationStartRequestRepository.                   *)

Terminal == request.status \in {"completed", "failed"}

\* Forms a plausible mistake would give the definitions below; the project
\* file names them, and each must break the property it is listed with.
BugClaimableBeforeExpiry(at) ==
    /\ request.expires > at
    /\ \/ request.status = "accepted"
       \/ request.status = "processing" /\ request.leaseEnd <= at + 1
BugClaimableOnce(at) == request.expires > at /\ request.status = "accepted"
BugAnyTokenFinishes(a) == request.status = "processing"
BugFinishTwice(a) == Terminal \/ request.token = a

\* uq_conversation_start_requests_customer_key
KeyTaken == request.status # "absent"

\* WHERE clause of acquire_processing_lease.
Claimable(at) ==
    /\ request.expires > at
    /\ \/ request.status = "accepted"
       \/ request.status = "processing" /\ request.leaseEnd <= at

\* WHERE clause of _finish.
MayFinish(a) == request.status = "processing" /\ request.token = a

\* A row of the requests table written by the three statements.
AcceptedRow(a) ==
    [status |-> "accepted", fingerprint |-> fingerprint[a],
     expires |-> clock[a] + TTL, token |-> None, leaseEnd |-> 0,
     attempts |-> 0, snapshot |-> None]

LeasedRow(a) ==
    [request EXCEPT !.status = "processing", !.token = a,
                    !.leaseEnd = clock[a] + Lease, !.attempts = @ + 1]

FinishedRow(a) ==
    [request EXCEPT !.status = IF outcome[a] = "failed" THEN "failed" ELSE "completed",
                    !.token = None, !.leaseEnd = 0,
                    !.snapshot = [run |-> a, outcome |-> outcome[a]]]

-----------------------------------------------------------------------------
(* AcceptConversationStart.execute                                         *)

Goto(a, l) == pc' = [pc EXCEPT ![a] = l]
ReadClock(a) == clock' = [clock EXCEPT ![a] = now]

\* A request with the key arrives; _execute_once reads the clock first.
Arrive(a, f) ==
    /\ pc[a] = "idle"
    /\ Goto(a, "lookup")
    /\ fingerprint' = [fingerprint EXCEPT ![a] = f]
    /\ ReadClock(a)
    /\ UNCHANGED <<now, request, conversations, closed, runs, answers,
                   leaseAt, outcome, reply>>

\* _existing_result: another payload, then retention, then go on.
ExistingResult(a) ==
    Goto(a, IF request.fingerprint # fingerprint[a] THEN "conflict"
            ELSE IF request.expires <= clock[a] THEN "expired" ELSE "load")

\* get_by_customer_and_key_hash in _execute_once.
Lookup(a) ==
    /\ pc[a] = "lookup"
    /\ IF request.status = "absent" THEN Goto(a, "insert") ELSE ExistingResult(a)
    /\ UNCHANGED <<now, request, conversations, closed, runs, answers,
                   fingerprint, clock, leaseAt, outcome, reply>>

\* Conversation, first message and request committed together ...
InsertAccepted(a) ==
    /\ pc[a] = "insert"
    /\ ~KeyTaken
    /\ request' = AcceptedRow(a)
    /\ conversations' = conversations \cup {a}
    /\ Goto(a, "load")
    /\ UNCHANGED <<now, closed, runs, answers, fingerprint, clock, leaseAt, outcome, reply>>

\* ... or rolled back together, the competing row to be read again.
InsertConflict(a) ==
    /\ pc[a] = "insert"
    /\ KeyTaken
    /\ Goto(a, "reload")
    /\ ReadClock(a)
    /\ UNCHANGED <<now, request, conversations, closed, runs, answers,
                   fingerprint, leaseAt, outcome, reply>>

\* _load_existing_after_conflict
Reload(a) ==
    /\ pc[a] = "reload"
    /\ ExistingResult(a)
    /\ UNCHANGED <<now, request, conversations, closed, runs, answers,
                   fingerprint, clock, leaseAt, outcome, reply>>

-----------------------------------------------------------------------------
(* StartConversation.execute                                               *)

\* Replay of the stored snapshot.
ReplySnapshot(a) ==
    /\ Goto(a, "replied")
    /\ reply' = [reply EXCEPT ![a] = request.snapshot]

\* _load_terminal_result; without one, the clock is read for the lease.
LoadTerminal(a) ==
    /\ pc[a] = "load"
    /\ IF Terminal
       THEN ReplySnapshot(a) /\ UNCHANGED clock
       ELSE Goto(a, "acquire") /\ ReadClock(a) /\ UNCHANGED reply
    /\ UNCHANGED <<now, request, conversations, closed, runs, answers,
                   fingerprint, leaseAt, outcome>>

\* _acquire_processing_lease succeeds.
AcquireLease(a) ==
    /\ pc[a] = "acquire"
    /\ Claimable(clock[a])
    /\ request' = LeasedRow(a)
    /\ leaseAt' = [leaseAt EXCEPT ![a] = clock[a]]
    /\ Goto(a, "start")
    /\ UNCHANGED <<now, conversations, closed, runs, answers,
                   fingerprint, clock, outcome, reply>>

\* No row was updated: the clock is read again and the reason looked up later.
LeaseUnavailable(a) ==
    /\ pc[a] = "acquire"
    /\ ~Claimable(clock[a])
    /\ Goto(a, "resolve")
    /\ ReadClock(a)
    /\ UNCHANGED <<now, request, conversations, closed, runs, answers,
                   fingerprint, leaseAt, outcome, reply>>

\* _resolve_unavailable_lease
ResolveUnavailable(a) ==
    /\ pc[a] = "resolve"
    /\ IF Terminal
       THEN ReplySnapshot(a)
       ELSE /\ Goto(a, IF request.status = "processing" /\ request.leaseEnd > clock[a]
                       THEN "inProgress" ELSE "leaseLost")
            /\ UNCHANGED reply
    /\ UNCHANGED <<now, request, conversations, closed, runs, answers,
                   fingerprint, clock, leaseAt, outcome>>

\* _accept_message_and_start_run: commits a running AI run before any
\* provider call, or refuses a conversation that is no longer processable.
StartRun(a) ==
    /\ pc[a] = "start"
    /\ IF closed
       THEN Goto(a, "notProcessable") /\ UNCHANGED runs
       ELSE Goto(a, "pipeline") /\ runs' = [runs EXCEPT ![a] = "running"]
    /\ UNCHANGED <<now, request, conversations, closed, answers,
                   fingerprint, clock, leaseAt, outcome, reply>>

\* The orchestrator returns a terminal state; no transaction is open.
RunPipeline(a, o) ==
    /\ pc[a] = "pipeline"
    /\ outcome' = [outcome EXCEPT ![a] = o]
    /\ Goto(a, "finalize")
    /\ UNCHANGED <<now, request, conversations, closed, runs, answers,
                   fingerprint, clock, leaseAt, reply>>

\* _finalize_committed_work: the run's terminal status and the message the
\* customer sees, in one transaction.  An escalation reopens a conversation
\* closed since, unless the row was read as escalated before the close.
FinalizeRun(a) ==
    /\ pc[a] = "finalize"
    /\ runs[a] = "running"
    /\ runs' = [runs EXCEPT ![a] = IF outcome[a] = "failed" THEN "failed" ELSE "completed"]
    /\ answers' = IF outcome[a] = "failed" THEN answers ELSE answers \cup {a}
    /\ closed' \in IF outcome[a] = "escalated" THEN {closed, FALSE} ELSE {closed}
    /\ Goto(a, "persist")
    /\ UNCHANGED <<now, request, conversations,
                   fingerprint, clock, leaseAt, outcome, reply>>

\* _persist_terminal_result under the attempt's own token.
PersistTerminal(a) ==
    /\ pc[a] = "persist"
    /\ MayFinish(a)
    /\ request' = FinishedRow(a)
    /\ Goto(a, "recorded")
    /\ UNCHANGED <<now, conversations, closed, runs, answers,
                   fingerprint, clock, leaseAt, outcome, reply>>

\* The token is gone: ConversationStartLeaseLostError, nothing written.
PersistLost(a) ==
    /\ pc[a] = "persist"
    /\ ~MayFinish(a)
    /\ Goto(a, "leaseLost")
    /\ UNCHANGED <<now, request, conversations, closed, runs, answers,
                   fingerprint, clock, leaseAt, outcome, reply>>

\* The response, from the worker's own result, after the attempt to name the
\* conversation (ConversationTitle), which cannot fail the request.
Respond(a) ==
    /\ pc[a] = "recorded"
    /\ reply' = [reply EXCEPT ![a] = [run |-> a, outcome |-> outcome[a]]]
    /\ Goto(a, "replied")
    /\ UNCHANGED <<now, request, conversations, closed, runs, answers,
                   fingerprint, clock, leaseAt, outcome>>

-----------------------------------------------------------------------------
(* Failures, the client and the clock.                                     *)

MayFail == Cardinality({a \in Attempts : pc[a] \in {"aborted", "crashed"}}) < MaxFaults

\* An exception escapes the pipeline or the finalizing transaction;
\* _mark_aborted_run_failed closes the run if the database lets it.
Abort(a) ==
    /\ pc[a] \in {"pipeline", "finalize"}
    /\ MayFail
    /\ \/ runs' = [runs EXCEPT ![a] = "failed"]
       \/ UNCHANGED runs
    /\ Goto(a, "aborted")
    /\ UNCHANGED <<now, request, conversations, closed, answers,
                   fingerprint, clock, leaseAt, outcome, reply>>

\* The worker process dies, or the database refuses a transaction outside
\* the pipeline: whatever was committed stays, the attempt never answers.
Crash(a) ==
    /\ pc[a] \in Working
    /\ MayFail
    /\ Goto(a, "crashed")
    /\ UNCHANGED <<now, request, conversations, closed, runs, answers,
                   fingerprint, clock, leaseAt, outcome, reply>>

\* recover() in the browser: the same key is sent again after a "processing"
\* or an uncertain answer.  An attempt that held a lease is not reused.
Retry(a) ==
    /\ pc[a] \in {"inProgress", "leaseLost"}
    /\ leaseAt[a] = None
    /\ Goto(a, "idle")
    /\ UNCHANGED <<now, request, conversations, closed, runs, answers,
                   fingerprint, clock, leaseAt, outcome, reply>>

\* CloseConversation by the owner, who sees the conversation once accepted.
Close ==
    /\ conversations # {}
    /\ ~closed
    /\ closed' = TRUE
    /\ UNCHANGED <<now, request, conversations, runs, answers, attemptVars>>

Tick ==
    /\ now' = now + 1
    /\ UNCHANGED <<request, conversations, closed, runs, answers, attemptVars>>

-----------------------------------------------------------------------------

Accepting(a) ==
    \/ \E f \in Fingerprints : Arrive(a, f)
    \/ Lookup(a) \/ InsertAccepted(a) \/ InsertConflict(a) \/ Reload(a)

Leasing(a) ==
    LoadTerminal(a) \/ AcquireLease(a) \/ LeaseUnavailable(a) \/ ResolveUnavailable(a)

Processing(a) ==
    \/ StartRun(a)
    \/ \E o \in Outcomes : RunPipeline(a, o)
    \/ FinalizeRun(a) \/ PersistTerminal(a) \/ PersistLost(a) \/ Respond(a)

Step(a) == Accepting(a) \/ Leasing(a) \/ Processing(a)

Next ==
    \/ \E a \in Attempts : Step(a) \/ Abort(a) \/ Crash(a) \/ Retry(a)
    \/ Close
    \/ now < MaxClock /\ Tick

Spec == Init /\ [][Next]_vars

-----------------------------------------------------------------------------
(* Liveness is checked where time passes only while a lease is running and *)
(* nobody closes the conversation.  A worker that neither crashes nor      *)
(* raises keeps going, the client keeps retrying, and the clock advances.  *)

LiveNext ==
    \/ \E a \in Attempts : Step(a) \/ Abort(a) \/ Crash(a) \/ Retry(a)
    \/ now < request.leaseEnd /\ Tick

LiveSpec ==
    /\ Init
    /\ [][LiveNext]_vars
    /\ \A a \in Attempts : WF_vars(Step(a)) /\ WF_vars(Retry(a))
    /\ WF_vars(now < request.leaseEnd /\ Tick)

\* An attempt the client cannot use again: it failed or it held a lease.
Spent(a) == pc[a] \in {"aborted", "crashed"} \/ (pc[a] = "leaseLost" /\ leaseAt[a] # None)

\* An accepted start is never wedged: it reaches a terminal result as long
\* as one attempt is left that did not fail, whoever died holding the lease.
NeverWedged ==
    request.status = "accepted" ~> Terminal \/ \A a \in Attempts : Spent(a)

-----------------------------------------------------------------------------
(* Safety.                                                                 *)

HeldLease(a) == leaseAt[a] # None

\* However many first messages with one key race, one conversation exists.
OneConversation == Cardinality(conversations) <= 1

\* Leases are exclusive in time: the window a worker was granted never
\* overlaps the window of another, however old its clock read was.
LeaseWindowsDisjoint ==
    \A a, b \in Attempts :
        a # b /\ HeldLease(a) /\ HeldLease(b) =>
            leaseAt[a] + Lease <= leaseAt[b] \/ leaseAt[b] + Lease <= leaseAt[a]

\* The stored result is that of the worker that was leased last: a worker
\* whose lease was reclaimed never completes the other worker's request.
LatestHolderRecorded ==
    Terminal =>
        /\ HeldLease(request.snapshot.run)
        /\ \A a \in Attempts : HeldLease(a) => leaseAt[a] <= leaseAt[request.snapshot.run]

\* A client is only told what is durable: the run it names has finished with
\* that outcome and the customer-visible message, if any, is committed.
ReplyIsDurable ==
    \A a \in Attempts : reply[a] # None =>
        LET r == reply[a] IN
        /\ request.snapshot = r
        /\ runs[r.run] = (IF r.outcome = "failed" THEN "failed" ELSE "completed")
        /\ r.outcome # "failed" => r.run \in answers

\* Clients of one key agree, and the result they saw is never replaced.
Replies == INSTANCE IdempotentReply WITH
    decided <- request.snapshot, replied <- reply
RefinesReply == Replies!Spec
=============================================================================
