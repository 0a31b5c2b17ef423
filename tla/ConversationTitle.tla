-------------------------- MODULE ConversationTitle --------------------------
(***************************************************************************)
(* Naming one conversation: AssignConversationTitle.execute as called by   *)
(* StartConversation._assign_title_safely.  Several workers name the same  *)
(* conversation when a start request is replayed or its lease reclaimed.   *)
(*                                                                         *)
(* The title is read in one transaction, generated with none open, and     *)
(* written in another by a compare-and-set.  That transaction first loads  *)
(* the row into its ORM session, where it stays for the later reads.  A    *)
(* second writer waits for the row's lock and then tests the row again.    *)
(***************************************************************************)
EXTENDS FiniteSets

CONSTANTS Workers,   \* executions of the service for the conversation
          Explicit,  \* the title a customer gives when starting it
          Null       \* SQL NULL

VARIABLES title,    \* conversations.title, the committed value
          writer,   \* worker holding the row's lock with an uncommitted title
          audited,  \* workers with a conversation.title_assigned audit event
          stage,    \* where each worker is
          loaded,   \* title as the writing transaction's session loaded it
          result    \* AssignConversationTitleResult

titleVars == <<title, writer, audited, stage, loaded, result>>

\* The title a worker generates is named after it.
Titles == Workers \cup {Explicit}
Assignments ==
    [status : {"ALREADY_TITLED", "ASSIGNED", "LOST_RACE"}, title : Titles \cup {Null}]

\* NULL is no title and no result; a customer's title is not a generated one.
ASSUME TitleAssumption ==
    /\ Null \notin Titles \cup Assignments
    /\ Explicit \notin Workers

TitleTypeOK ==
    /\ title \in Titles \cup {Null}
    /\ writer \in Workers \cup {Null}
    /\ audited \subseteq Workers
    /\ stage \in [Workers -> {"idle", "generating", "writing", "updating", "updated",
                              "lost", "done", "failed"}]
    /\ loaded \in [Workers -> Titles \cup {Null}]
    /\ result \in [Workers -> Assignments \cup {Null}]

\* The start request may carry the title.
TitleInit ==
    /\ title \in {Null, Explicit}
    /\ writer = Null
    /\ audited = {}
    /\ stage = [w \in Workers |-> "idle"]
    /\ loaded = [w \in Workers |-> Null]
    /\ result = [w \in Workers |-> Null]

MoveTo(w, l) == stage' = [stage EXCEPT ![w] = l]
Return(w, s, t) ==
    /\ MoveTo(w, "done")
    /\ result' = [result EXCEPT ![w] = [status |-> s, title |-> t]]

-----------------------------------------------------------------------------

\* Forms a plausible mistake would give the definitions below.
BugUntitled(w) == loaded[w] = Null

\* WHERE clause of set_title_if_absent: the row, not what the session loaded.
Untitled(w) == title = Null

\* What set_title_if_absent stores.
StoredTitle(w) == w

\* The audit events that survive a rollback of w's transaction.
KeptAudit(w) == audited

\* _load_existing_title
LoadExisting(w) ==
    /\ stage[w] = "idle"
    /\ IF title # Null
       THEN Return(w, "ALREADY_TITLED", title)
       ELSE MoveTo(w, "generating") /\ UNCHANGED result
    /\ UNCHANGED <<title, writer, audited, loaded>>

\* ConversationTitleGenerator.generate, no transaction open.
Generate(w) ==
    /\ stage[w] = "generating"
    /\ MoveTo(w, "writing")
    /\ UNCHANGED <<title, writer, audited, loaded, result>>

\* The writing transaction loads the row without a lock ...
LoadRow(w) ==
    /\ stage[w] = "writing"
    /\ MoveTo(w, "updating")
    /\ loaded' = [loaded EXCEPT ![w] = title]
    /\ UNCHANGED <<title, writer, audited, result>>

\* ... and updates it if, once nobody else holds it, it has no title ...
SetTitle(w) ==
    /\ stage[w] = "updating"
    /\ writer = Null
    /\ Untitled(w)
    /\ writer' = w
    /\ MoveTo(w, "updated")
    /\ UNCHANGED <<title, audited, loaded, result>>

\* ... committing title and audit event together.
CommitTitle(w) ==
    /\ stage[w] = "updated"
    /\ title' = StoredTitle(w)
    /\ audited' = audited \cup {w}
    /\ writer' = Null
    /\ Return(w, "ASSIGNED", w)
    /\ UNCHANGED loaded

\* The update matched no row: another title is there.
LoseRace(w) ==
    /\ stage[w] = "updating"
    /\ writer = Null
    /\ ~Untitled(w)
    /\ MoveTo(w, "lost")
    /\ UNCHANGED <<title, writer, audited, loaded, result>>

\* get_by_id returns the object the session already holds, with the title it
\* was loaded with or the one the update set on matching objects.
ReportLoss(w) ==
    /\ stage[w] = "lost"
    /\ IF loaded[w] # Null
       THEN Return(w, "LOST_RACE", loaded[w])
       ELSE \E t \in {Null, w} : Return(w, "LOST_RACE", t)
    /\ UNCHANGED <<title, writer, audited, loaded>>

\* The provider or the database raises; _assign_title_safely swallows it and
\* the open transaction, if any, is rolled back.
Fail(w) ==
    /\ stage[w] \in {"generating", "writing", "updating", "updated", "lost"}
    /\ MoveTo(w, "failed")
    /\ writer' = IF writer = w THEN Null ELSE writer
    /\ audited' = KeptAudit(w)
    /\ UNCHANGED <<title, loaded, result>>

\* A replay of the start request names the conversation again.
Again(w) ==
    /\ stage[w] = "failed"
    /\ MoveTo(w, "idle")
    /\ loaded' = [loaded EXCEPT ![w] = Null]
    /\ UNCHANGED <<title, writer, audited, result>>

TitleNext ==
    \E w \in Workers :
        \/ LoadExisting(w) \/ Generate(w) \/ LoadRow(w) \/ SetTitle(w)
        \/ CommitTitle(w) \/ LoseRace(w) \/ ReportLoss(w) \/ Fail(w) \/ Again(w)

TitleSpec == TitleInit /\ [][TitleNext]_titleVars

-----------------------------------------------------------------------------

\* A late answer of the provider never replaces a title, the customer's own
\* least of all.
TitleNeverReplaced == [][title # Null => title' = title]_titleVars

\* At most one worker claims to have named the conversation, it is the one
\* whose title it has, and exactly that naming was audited.
NamingIsAudited ==
    LET assigned == {w \in Workers : result[w] # Null /\ result[w].status = "ASSIGNED"} IN
    /\ assigned = IF title \in Workers THEN {title} ELSE {}
    /\ audited = assigned
=============================================================================
