-------------------------- MODULE IdempotentReply --------------------------
(***************************************************************************)
(* What an idempotent request promises its callers, whatever goes on       *)
(* inside: one result is decided at most once, and every caller that gets  *)
(* an answer gets that result.  ConversationStart implements it.           *)
(***************************************************************************)

CONSTANTS Attempts,   \* the HTTP attempts that carry one idempotency key
          Results,    \* what the work can produce
          None        \* no result

VARIABLES decided,    \* the one durable result, or None
          replied     \* what each attempt was answered, or None

vars == <<decided, replied>>

TypeOK ==
    /\ decided \in Results \cup {None}
    /\ replied \in [Attempts -> Results \cup {None}]

Init ==
    /\ decided = None
    /\ replied = [a \in Attempts |-> None]

\* The result is stored before anybody is told.
Decide(r) ==
    /\ decided = None
    /\ decided' = r
    /\ UNCHANGED replied

\* An attempt, that did the work or not, is answered with the stored result.
Reply(a) ==
    /\ decided # None
    /\ replied' = [replied EXCEPT ![a] = decided]
    /\ UNCHANGED decided

Next ==
    \/ \E r \in Results : Decide(r)
    \/ \E a \in Attempts : Reply(a)

Spec == Init /\ [][Next]_vars

=============================================================================
