----------------------------- MODULE WebSession -----------------------------
(***************************************************************************)
(* The tabs of one browser and the session they share.  Each tab runs a    *)
(* session controller of its own; the refresh cookie is one for all of     *)
(* them.  A controller sends a login, a refresh or a logout only under the *)
(* browser's exclusive lock, after it told the other tabs to forget what   *)
(* they know, and it drops the answer if it was itself told so meanwhile.  *)
(*                                                                         *)
(* What a tab does between two awaits is one action.  Notices, answers and *)
(* the server's work arrive whenever they like; an answer may never come,  *)
(* and then the server may still do the work.                              *)
(***************************************************************************)
EXTENDS Naturals, SequencesExt

CONSTANTS Tabs, Users, None,
          MaxSessions,    \* bound on the sessions the server opens
          MaxNotices,     \* bound on the notices waiting for a tab
          MaxLost         \* bound on the requests whose answer is lost

ASSUME WebAssumption ==
    /\ None \notin Tabs \cup Users \cup Nat
    /\ MaxSessions \in Nat /\ MaxNotices \in Nat /\ MaxLost \in Nat

VARIABLES tab,      \* the snapshot, the access token and the query cache of each
          job,      \* the operation each controller has active
          read,     \* the user of each tab's feature request in flight, if its answer
                    \* may still be kept
          queue,    \* the tabs that hold (first) and await the browser's lock
          notices,  \* the notices on their way to each tab
          cookie,   \* the browser's refresh token: the session it belongs to
          session,  \* the server's sessions, in the order they were opened
          late,     \* requests the server may do although nobody waits
          lost,     \* how many answers were lost
          reused    \* the server saw a used refresh token

vars == <<tab, job, read, queue, notices, cookie, session, late, lost, reused>>

\* A session is named by its number; a family by its first.
Sessions == 1 .. MaxSessions

Phases == {"uninitialized", "pending", "authenticated", "anonymous", "unavailable"}

TabStates == [phase : Phases, user : Users \cup {None}, token : Sessions \cup {None},
              data : Users \cup {None}, disposed : BOOLEAN]

Opened == [phase |-> "uninitialized", user |-> None, token |-> None, data |-> None,
           disposed |-> FALSE]

Operations == {"login", "refresh", "logout"}

\* "user" is who logs in; "session" names the credential sent, and then the
\* session the answer carries.  "current" is the controller's isCurrent.
Jobs == [op : Operations \cup {None}, at : {"idle", "queued", "sent", "answered"},
         user : Users \cup {None}, session : Sessions \cup {None}, current : BOOLEAN,
         reply : {None, "ok", "denied", "error"}]

Idle == [op |-> None, at |-> "idle", user |-> None, session |-> None, current |-> TRUE,
         reply |-> None]

Rows == [user : Users, family : Sessions, active : BOOLEAN]

-----------------------------------------------------------------------------

\* Forms a plausible mistake would give the definitions below.
BugHolds(t) == \E i \in DOMAIN queue : queue[i] = t
BugNotified(t) == notices
BugSignedIn(t, s) ==
    [tab[t] EXCEPT !.phase = "authenticated", !.user = session[s].user, !.token = s]
BugLeave(t) == IF job[t].reply = "ok" THEN Remove(queue, t) ELSE queue
BugOpening(rows, u, f) == Append(rows, [user |-> u, family |-> None, active |-> TRUE])

-----------------------------------------------------------------------------

Holds(t) == queue # <<>> /\ Head(queue) = t

Leave(t) ==
    IF t \in ToSet(queue)
    THEN RemoveAt(queue, CHOOSE i \in DOMAIN queue : queue[i] = t)
    ELSE queue

\* BroadcastChannel.postMessage: every other tab that still listens.
Notified(t) ==
    [u \in Tabs |-> IF u = t \/ tab[u].disposed THEN notices[u] ELSE notices[u] + 1]

CanSend(t) ==
    CASE job[t].op = "refresh" -> tab[t].phase \in {"uninitialized", "authenticated"}
      [] job[t].op = "logout" -> tab[t].token # None
      [] job[t].op = "login" -> TRUE

\* clearPrivateState: the query cache is emptied, and a feature request that
\* is in flight belongs to an earlier session generation from now on.
Cleared(t) == [read EXCEPT ![t] = None]

\* invalidateLocalSession
Invalidated(t) ==
    [tab[t] EXCEPT !.token = None, !.data = None, !.user = None, !.phase = "unavailable"]

\* No other user was shown when session s is accepted.
SameUser(t, s) == tab[t].user \in {None, session[s].user}

\* acceptAuthentication, which clears what another user left.
SignedIn(t, s) ==
    [tab[t] EXCEPT !.phase = "authenticated", !.user = session[s].user, !.token = s,
                   !.data = IF SameUser(t, s) THEN @ ELSE None]

\* requestFailure; a failed logout keeps the token, so that it can be retried.
Failed(t, denied) ==
    [tab[t] EXCEPT !.token = IF job[t].op = "logout" THEN @ ELSE None,
                   !.data = None, !.user = None,
                   !.phase = IF denied /\ job[t].op # "logout" THEN "anonymous"
                             ELSE "unavailable"]

Init ==
    /\ tab = [t \in Tabs |-> Opened]
    /\ job = [t \in Tabs |-> Idle]
    /\ read = [t \in Tabs |-> None]
    /\ queue = <<>>
    /\ notices = [t \in Tabs |-> 0]
    /\ cookie = None
    /\ session = <<>>
    /\ late = {}
    /\ lost = 0
    /\ reused = FALSE

-----------------------------------------------------------------------------
(* The controller.                                                         *)

\* run: one operation at a time, which asks for the lock.
Request(t, op, u) ==
    /\ job[t].at = "idle" /\ ~tab[t].disposed
    /\ (u = None) = (op # "login")
    /\ job' = [job EXCEPT ![t] = [Idle EXCEPT !.op = op, !.at = "queued", !.user = u]]
    /\ queue' = Append(queue, t)
    /\ UNCHANGED <<tab, read, notices, cookie, session, late, lost, reused>>

\* The operation gives the lock back and is no longer active.
Finish(t) ==
    /\ job' = [job EXCEPT ![t] = Idle]
    /\ queue' = Leave(t)

\* The lock is granted to an operation that an invalidation or a disposal
\* overtook, or whose precondition no longer holds.
Refuse(t) ==
    /\ Holds(t) /\ job[t].at = "queued"
    /\ ~job[t].current \/ ~CanSend(t)
    /\ Finish(t)
    /\ IF job[t].current /\ job[t].op = "logout"
       THEN /\ tab' = [tab EXCEPT ![t].data = None, ![t].user = None,
                                  ![t].phase = "unavailable"]
            /\ read' = Cleared(t)
       ELSE UNCHANGED <<tab, read>>
    /\ UNCHANGED <<notices, cookie, session, late, lost, reused>>

\* The lock is granted: the other tabs are told, and the request is sent
\* with the cookie the browser has or with the tab's access token.
Send(t) ==
    /\ Holds(t) /\ job[t].at = "queued" /\ job[t].current /\ CanSend(t)
    /\ \A u \in Tabs \ {t} : notices[u] < MaxNotices
    /\ notices' = Notified(t)
    /\ CASE job[t].op = "login" ->
              /\ tab' = [tab EXCEPT ![t] = [@ EXCEPT !.token = None, !.data = None,
                                                     !.user = None, !.phase = "pending"]]
              /\ read' = Cleared(t)
         [] job[t].op = "refresh" ->
              /\ tab' = [tab EXCEPT ![t].phase = "pending"]
              /\ UNCHANGED read
         [] job[t].op = "logout" ->
              /\ tab' = [tab EXCEPT ![t] = [@ EXCEPT !.data = None, !.user = None,
                                                     !.phase = "pending"]]
              /\ read' = Cleared(t)
    /\ job' = [job EXCEPT ![t].at = "sent",
                          ![t].session = CASE job[t].op = "login" -> None
                                           [] job[t].op = "refresh" -> cookie
                                           [] job[t].op = "logout" -> tab[t].token]
    /\ UNCHANGED <<queue, cookie, session, late, lost, reused>>

\* Set-Cookie of an answer: a session's token, or its removal.
Stored(j) ==
    CASE j.reply = "ok" -> (IF j.op = "logout" THEN None ELSE j.session)
      [] j.reply = "denied" /\ j.op = "refresh" -> None
      [] OTHER -> cookie

\* What the controller makes of an answer, or of none.
Conclude(t, outcome) ==
    IF ~job[t].current THEN UNCHANGED <<tab, read>>
    ELSE /\ tab' = [tab EXCEPT ![t] =
                      IF outcome # "ok" THEN Failed(t, outcome = "denied")
                      ELSE IF job[t].op = "logout"
                      THEN [@ EXCEPT !.token = None, !.phase = "anonymous"]
                      ELSE SignedIn(t, job[t].session)]
         /\ read' = IF outcome = "ok" /\ (job[t].op = "logout" \/ SameUser(t, job[t].session))
                    THEN read ELSE Cleared(t)

\* The answer arrives in time.
Settle(t) ==
    /\ job[t].at = "answered"
    /\ cookie' = Stored(job[t])
    /\ Conclude(t, job[t].reply)
    /\ Finish(t)
    /\ UNCHANGED <<notices, session, late, lost, reused>>

\* A request whose sender no longer waits for it; the browser stores nothing
\* of its answer, unless the answer's headers had arrived.
Orphaned(t) ==
    /\ lost < MaxLost
    /\ lost' = lost + 1
    /\ late' = IF job[t].at = "sent" THEN late \cup {[job[t] EXCEPT !.current = FALSE]} ELSE late
    /\ cookie' \in {cookie} \cup (IF job[t].at = "answered" THEN {Stored(job[t])} ELSE {})

\* The request times out or the connection breaks.
TimeOut(t) ==
    /\ job[t].at \in {"sent", "answered"}
    /\ Orphaned(t)
    /\ Conclude(t, "error")
    /\ Finish(t)
    /\ UNCHANGED <<notices, session, reused>>

\* A notice of another tab.
Deliver(t) ==
    /\ notices[t] > 0
    /\ notices' = [notices EXCEPT ![t] = @ - 1]
    /\ tab' = [tab EXCEPT ![t] = Invalidated(t)]
    /\ read' = Cleared(t)
    /\ job' = [job EXCEPT ![t].current = job[t].at = "idle"]
    /\ UNCHANGED <<queue, cookie, session, late, lost, reused>>

\* dispose: the channel is closed, an active operation runs on unheard.
Dispose(t) ==
    /\ ~tab[t].disposed
    /\ tab' = [tab EXCEPT ![t] = [Invalidated(t) EXCEPT !.disposed = TRUE]]
    /\ read' = Cleared(t)
    /\ job' = [job EXCEPT ![t].current = job[t].at = "idle"]
    /\ notices' = [notices EXCEPT ![t] = 0]
    /\ UNCHANGED <<queue, cookie, session, late, lost, reused>>

\* The page is reloaded, or closed and opened again: a new controller; the
\* browser frees the lock and abandons the request.
Reload(t) ==
    /\ IF job[t].at \in {"sent", "answered"} THEN Orphaned(t)
       ELSE UNCHANGED <<late, lost, cookie>>
    /\ tab' = [tab EXCEPT ![t] = Opened]
    /\ read' = [read EXCEPT ![t] = None]
    /\ notices' = [notices EXCEPT ![t] = 0]
    /\ Finish(t)
    /\ UNCHANGED <<session, reused>>

-----------------------------------------------------------------------------
(* Feature requests of the application.                                    *)

\* request: sent with the tab's access token, only while signed in.
BeginRead(t) ==
    /\ tab[t].phase = "authenticated" /\ read[t] = None
    /\ read' = [read EXCEPT ![t] = session[tab[t].token].user]
    /\ UNCHANGED <<tab, job, queue, notices, cookie, session, late, lost, reused>>

\* The answer is kept only by the session generation and user that asked.
EndRead(t) ==
    /\ read[t] # None
    /\ read' = [read EXCEPT ![t] = None]
    /\ \/ /\ tab[t].phase = "authenticated" /\ tab[t].user = read[t]
          /\ tab' = [tab EXCEPT ![t].data = read[t]]
       \/ UNCHANGED tab
    /\ UNCHANGED <<job, queue, notices, cookie, session, late, lost, reused>>

-----------------------------------------------------------------------------
(* The server, as AuthSessions describes it.                               *)

Opening(rows, u, f) == Append(rows, [user |-> u, family |-> f, active |-> TRUE])

Usable(s) == s # None /\ session[s].active

\* A refresh that presents a used token ends the login of that token.
Ended(f) ==
    [s \in DOMAIN session |-> IF session[s].family = f THEN [session[s] EXCEPT !.active = FALSE]
                              ELSE session[s]]

\* The answers to a request, with the session each names and the sessions
\* and the reuse flag it leaves.
Effects(j) ==
    LET New == Len(session) + 1
        Answer(reply, s, rows, seen) ==
            [reply |-> reply, session |-> s, rows |-> rows, reused |-> seen]
        Denied == Answer("denied", None, session, reused)
    IN  {Answer("error", None, session, reused)} \cup
        CASE j.op = "login" ->
               {Denied} \cup {Answer("ok", s, Opening(session, j.user, s), reused) :
                              s \in {New} \cap Sessions}
          [] j.op = "refresh" /\ Usable(j.session) ->
               {Answer("ok", s, Opening([session EXCEPT ![j.session].active = FALSE],
                                        session[j.session].user, session[j.session].family), reused) :
                s \in {New} \cap Sessions}
          [] j.op = "refresh" /\ j.session # None /\ ~Usable(j.session) ->
               {Answer("denied", None, Ended(session[j.session].family), TRUE)}
          [] j.op = "logout" /\ Usable(j.session) ->
               {Answer("ok", None, [session EXCEPT ![j.session].active = FALSE], reused)}
          [] OTHER -> {Denied}

\* The server does a request and answers it.
Handle(t) ==
    /\ job[t].at = "sent"
    /\ \E a \in Effects(job[t]) :
         /\ session' = a.rows /\ reused' = a.reused
         /\ job' = [job EXCEPT ![t].at = "answered", ![t].reply = a.reply,
                                ![t].session = a.session, ![t].user = None]
    /\ UNCHANGED <<tab, read, queue, notices, cookie, late, lost>>

\* The server does a request nobody waits for.
HandleLate ==
    \E j \in late :
       /\ \E a \in Effects(j) : session' = a.rows /\ reused' = a.reused
       /\ late' = late \ {j}
       /\ UNCHANGED <<tab, job, read, queue, notices, cookie, lost>>

-----------------------------------------------------------------------------

Next ==
    \/ \E t \in Tabs :
          \/ \E op \in Operations, u \in Users \cup {None} : Request(t, op, u)
          \/ Refuse(t) \/ Send(t) \/ Handle(t) \/ Settle(t) \/ TimeOut(t)
          \/ Deliver(t) \/ Dispose(t) \/ Reload(t)
          \/ BeginRead(t) \/ EndRead(t)
    \/ HandleLate

Spec == Init /\ [][Next]_vars

-----------------------------------------------------------------------------
(* Properties.                                                             *)

TypeOK ==
    /\ tab \in [Tabs -> TabStates]
    /\ job \in [Tabs -> Jobs]
    /\ read \in [Tabs -> Users \cup {None}]
    /\ queue \in Seq(Tabs)
    /\ notices \in [Tabs -> 0 .. MaxNotices]
    /\ cookie \in Sessions \cup {None}
    /\ session \in Seq(Rows) /\ Len(session) <= MaxSessions
    /\ late \subseteq Jobs
    /\ lost \in 0 .. MaxLost
    /\ reused \in BOOLEAN

\* However many tabs refresh at once, the server sees a used refresh token,
\* and ends the login for it, only after an answer was lost: the lock lasts
\* from the reading of the cookie to the storing of the next one.
ReuseOnlyAfterLoss == reused => lost > 0

\* A tab that shows a user and has heard every notice holds the token of the
\* session the browser's cookie belongs to, whichever tab changed it last,
\* and if no answer was lost the server still honours it.
SignedInIsCurrent ==
    \A t \in Tabs : tab[t].phase = "authenticated" /\ notices[t] = 0 =>
        /\ tab[t].token = cookie /\ session[cookie].user = tab[t].user
        /\ lost = 0 => session[cookie].active

\* A tab's query cache holds no data of a user other than the one it shows,
\* whatever request was in flight when the session changed.
DataIsShownUsers == \A t \in Tabs : tab[t].data \in {None, tab[t].user}

\* A tab is in line for the browser's lock, once, exactly while its operation
\* is active: no answer, failure, disposal or reload leaves the lock with a
\* tab that will never return it, which would stop every tab's next operation.
LockIsReturned ==
    /\ IsInjective(queue)
    /\ \A t \in Tabs : t \in ToSet(queue) <=> job[t].at # "idle"
=============================================================================
