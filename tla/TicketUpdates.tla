---------------------------- MODULE TicketUpdates ----------------------------
(***************************************************************************)
(* One ticket edited and commented by support staff at the same time:      *)
(* UpdateTicket.execute and AddTicketComment.execute.                      *)
(*                                                                         *)
(* A client retrieves the ticket and later sends a command that names the  *)
(* row version it saw.  The service locks the row FOR UPDATE, validates,   *)
(* and commits row, customer notice and audit event together.  A command   *)
(* that validation refuses changes nothing and is not a step; Agents are   *)
(* the users that may be assigned.                                         *)
(***************************************************************************)
EXTENDS Integers, SequencesExt

CONSTANTS Agents,
          Details,    \* pairs of a priority and a category
          None,
          MaxVersion  \* bound on row_version

ASSUME VersionAssumption == MaxVersion \in Nat \ {0}
ASSUME NoneAssumption == None \notin Agents /\ None \notin Details

VARIABLES ticket,   \* the tickets row
          notices,  \* lifecycle notices about it in the conversation
          comments, \* agents that have commented (once is enough)
          seen,     \* row each client last retrieved
          job,      \* what each agent's request is doing
          holder    \* agent whose transaction holds the row lock

vars == <<ticket, notices, comments, seen, job, holder>>

Statuses == {"open", "in_progress", "waiting_for_customer", "resolved", "closed", "reopened"}

\* COMMENTABLE_TICKET_STATUSES
Commentable == {"open", "in_progress", "waiting_for_customer", "reopened"}

\* ALLOWED_TICKET_TRANSITIONS
Transitions ==
    [s \in Statuses |->
        CASE s = "open"                 -> {"in_progress", "waiting_for_customer", "resolved"}
          [] s = "in_progress"          -> {"waiting_for_customer", "resolved"}
          [] s = "waiting_for_customer" -> {"in_progress", "resolved"}
          [] s = "resolved"             -> {"closed", "reopened"}
          [] s = "closed"               -> {"reopened"}
          [] s = "reopened"             -> {"in_progress", "waiting_for_customer", "resolved"}]

\* summary is known by the agent who wrote it.
Tickets ==
    [status : Statuses, version : Nat, assignee : Agents \cup {None}, details : Details,
     summary : Agents \cup {None}, resolvedAt : BOOLEAN, closedAt : BOOLEAN]

\* UpdateTicketCommand: any mutations at once, but for the assignee only one.
Commands ==
    {c \in [target : Statuses \cup {None}, assign : Agents \cup {None}, unassign : BOOLEAN,
            details : Details \cup {None}] :
        /\ c.assign = None \/ ~c.unassign
        /\ c.target # None \/ c.assign # None \/ c.unassign \/ c.details # None}

Idle == [op |-> "idle"]
Comment == [op |-> "comment"]
Update(c) == [op |-> "update", command |-> c]

TypeOK ==
    /\ ticket \in Tickets
    /\ notices \in Seq([status : Statuses, by : Agents])
    /\ comments \subseteq Agents
    /\ seen \in [Agents -> Tickets \cup {None}]
    /\ job \in [Agents -> {Idle, Comment} \cup {Update(c) : c \in Commands}]
    /\ holder \in Agents \cup {None}

\* A ticket as CreateTicket leaves it.
NewTicket(details) ==
    [status |-> "open", version |-> 1, assignee |-> None, details |-> details,
     summary |-> None, resolvedAt |-> FALSE, closedAt |-> FALSE]

Init ==
    /\ \E d \in Details : ticket = NewTicket(d)
    /\ notices = <<>>
    /\ comments = {}
    /\ seen = [g \in Agents |-> None]
    /\ job = [g \in Agents |-> Idle]
    /\ holder = None

-----------------------------------------------------------------------------

\* Forms a plausible mistake would give the definitions below.
BugVersionMatches(g) == TRUE
BugMoved(row, target, g) ==
    [row EXCEPT !.status = target,
                !.summary = IF target = "resolved" /\ @ = None THEN g ELSE @,
                !.resolvedAt = TRUE,
                !.closedAt = target = "closed"]

\* get_by_id_for_update waits for the holder to finish.
RowFree(g) == holder = None

\* expected_row_version against the locked row.
VersionMatches(g) == seen[g].version = ticket.version

\* version_id_generator
NextVersion(row) == row.version + 1

\* _apply_status_transition
Moved(row, target, g) ==
    [row EXCEPT !.status = target,
                !.summary = CASE target = "resolved" -> g
                              [] target = "closed"   -> @
                              [] OTHER               -> None,
                !.resolvedAt = target \in {"resolved", "closed"},
                !.closedAt = target = "closed"]

\* _apply_mutations; the value a column has already is no change.
Mutated(row, c, g) ==
    LET assigned == [row EXCEPT !.details = IF c.details # None THEN c.details ELSE @,
                                !.assignee = IF c.assign # None THEN c.assign
                                             ELSE IF c.unassign THEN None ELSE @]
    IN  IF c.target \in {None, row.status} THEN assigned ELSE Moved(assigned, c.target, g)

\* _validate_closed_ticket_mutation and _validate_transition
Valid(row, c) ==
    /\ row.status = "closed" => c.target = "reopened"
    /\ c.target \notin {None, row.status} => c.target \in Transitions[row.status]

\* A customer notice is written.
Noticed(old, new) == old.status # new.status

-----------------------------------------------------------------------------

\* The client reads the ticket.
Retrieve(g) ==
    /\ job[g] = Idle
    /\ seen' = [seen EXCEPT ![g] = ticket]
    /\ UNCHANGED <<ticket, notices, comments, job, holder>>

\* UpdateTicket.execute up to the flush.
LockForUpdate(g, c) ==
    /\ job[g] = Idle /\ seen[g] # None
    /\ RowFree(g)
    /\ VersionMatches(g)
    /\ Valid(ticket, c)
    /\ holder' = g
    /\ job' = [job EXCEPT ![g] = Update(c)]
    /\ UNCHANGED <<ticket, notices, comments, seen>>

\* Row and notice commit together; a command without effect writes nothing.
CommitUpdate(g) ==
    /\ job[g].op = "update"
    /\ LET new == Mutated(ticket, job[g].command, g) IN
        IF new = ticket
        THEN UNCHANGED <<ticket, notices>>
        ELSE /\ ticket' = [new EXCEPT !.version = NextVersion(ticket)]
             /\ notices' = IF Noticed(ticket, new)
                           THEN Append(notices, [status |-> new.status, by |-> g])
                           ELSE notices
    /\ job' = [job EXCEPT ![g] = Idle]
    /\ holder' = None
    /\ UNCHANGED <<comments, seen>>

\* AddTicketComment.execute, which needs no version.
LockForComment(g) ==
    /\ job[g] = Idle /\ g \notin comments
    /\ RowFree(g)
    /\ ticket.status \in Commentable
    /\ holder' = g
    /\ job' = [job EXCEPT ![g] = Comment]
    /\ UNCHANGED <<ticket, notices, comments, seen>>

CommitComment(g) ==
    /\ job[g] = Comment
    /\ comments' = comments \cup {g}
    /\ job' = [job EXCEPT ![g] = Idle]
    /\ holder' = None
    /\ UNCHANGED <<ticket, notices, seen>>

\* A later check or statement of the transaction raised, or the process died.
RollBack(g) ==
    /\ job[g] # Idle
    /\ job' = [job EXCEPT ![g] = Idle]
    /\ holder' = None
    /\ UNCHANGED <<ticket, notices, comments, seen>>

Next ==
    \E g \in Agents :
        \/ Retrieve(g)
        \/ ticket.version < MaxVersion /\ \E c \in Commands : LockForUpdate(g, c)
        \/ CommitUpdate(g)
        \/ LockForComment(g) \/ CommitComment(g)
        \/ RollBack(g)

Spec == Init /\ [][Next]_vars

-----------------------------------------------------------------------------

\* Nobody overwrites a ticket they did not see: the row is only replaced for
\* a client whose retrieved copy equals it in every column.
NoLostUpdate == [][ticket' # ticket => \E g \in Agents : holder = g /\ seen[g] = ticket]_vars

\* The status the conversation knows of after the first i notices of log.
Told(log, i) == IF i = 0 THEN "open" ELSE log[i].status

\* The notices in the conversation tell the ticket's statuses one by one, a
\* legal path from "open" to the status it has; the resolution the ticket
\* shows is the one the last of them told, and a ticket reopened since shows
\* none.
NoticesTellTicket ==
    /\ ticket.status = Told(notices, Len(notices))
    /\ \A i \in 1..Len(notices) : Told(notices, i) \in Transitions[Told(notices, i - 1)]
    /\ ticket.closedAt <=> ticket.status = "closed"
    /\ ticket.resolvedAt <=> ticket.status \in {"resolved", "closed"}
    /\ IF ticket.status \in {"resolved", "closed"}
       THEN \E i \in 1..Len(notices) :
                /\ notices[i] = [status |-> "resolved", by |-> ticket.summary]
                /\ \A j \in i + 1..Len(notices) : Told(notices, j) # "resolved"
       ELSE ticket.summary = None

\* Docstring: the row lock prevents "a concurrent ticket closure from racing
\* with comment creation."
CommentsBeforeResolution ==
    [][comments' # comments => ticket.status \in Commentable /\ ticket' = ticket]_vars
=============================================================================
