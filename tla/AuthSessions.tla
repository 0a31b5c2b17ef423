---------------------------- MODULE AuthSessions ----------------------------
(***************************************************************************)
(* Login sessions with rotating refresh tokens, and the administrators'    *)
(* operation that changes a user's role or status and ends the user's      *)
(* sessions.                                                               *)
(*                                                                         *)
(* A worker runs one transaction at READ COMMITTED.  It is split where it  *)
(* waits for a lock or where another transaction may commit between two of *)
(* its statements: a locking SELECT and an UPDATE pick their rows from     *)
(* what was committed when they started, wait for the locks of these rows, *)
(* and then see the rows as they are.  A refresh holds its session's row   *)
(* until it commits; an access change holds the user's row, which every    *)
(* insert of a session of that user has to share.                          *)
(***************************************************************************)
EXTENDS Naturals, FiniteSets

CONSTANTS Users, Sessions, Workers, None,
          Roles,          \* the roles an administrator may assign
          RefreshTTL,     \* REFRESH_TOKEN_TTL
          AccessTTL,      \* ACCESS_TOKEN_TTL
          MaxFailed,      \* maximum_failed_attempts
          Lockout,        \* lockout_duration
          MaxChanges,     \* bound on the access changes of two users
          MaxClock        \* bound on the clock

ASSUME AuthAssumption ==
    /\ "admin" \in Roles /\ "customer" \in Roles
    /\ RefreshTTL \in Nat /\ AccessTTL \in Nat \ {0} /\ AccessTTL < RefreshTTL
    /\ MaxFailed \in Nat \ {0} /\ Lockout \in Nat \ {0}
    /\ MaxChanges \in Nat /\ MaxClock \in Nat

VARIABLES now,         \* the workers' clock
          user,        \* committed users: role, status, changes so far
          credential,  \* failed attempts in a row, and the end of a lock
          session,     \* committed sessions; a family is named by its first
          job          \* the transaction each worker runs

vars == <<now, user, credential, session, job>>

Accounts == [role : Roles, status : {"active", "disabled"}, changes : Nat]
Credentials == [failed : Nat, until : Nat]

\* "seen" is how many access changes the user had when the session was
\* opened; "access" is when the access token issued with it expires.
Rows == [user : Users, family : Sessions, expires : Nat, access : Nat,
         active : BOOLEAN, seen : Nat]

\* Absence is no user, session or row.
ASSUME NoneAssumption ==
    None \notin Users \cup Sessions \cup Accounts \cup Rows \cup Credentials

Jobs == [at : {"idle", "login", "verifying", "refreshing", "rotating", "sweeping", "revoking"},
         user : Users \cup {None}, session : Sessions \cup {None}, clock : Nat,
         account : Accounts \cup {None}, credential : Credentials \cup {None},
         victims : SUBSET Sessions]

Idle == [at |-> "idle", user |-> None, session |-> None, clock |-> 0,
         account |-> None, credential |-> None, victims |-> {}]

Fresh == [failed |-> 0, until |-> 0]

-----------------------------------------------------------------------------

\* Forms a plausible mistake would give the definitions below.
BugHoldsSession(w, s) == job[w].at = "sweeping" /\ job[w].session = s
BugSessionFree(s) == TRUE
BugUserFree(u) == TRUE
BugAdminLockFree == TRUE
BugFamilySessions(f) == {s \in Sessions : session[s] # None /\ session[s].family = f}

-----------------------------------------------------------------------------
(* Locks, each held by a transaction until it ends.                        *)

HoldsSession(w, s) == job[w].at \in {"rotating", "sweeping"} /\ job[w].session = s

HoldsUser(w, u) == job[w].at = "revoking" /\ job[w].user = u

HoldsCredential(w, u) == job[w].at = "verifying" /\ job[w].user = u

SessionFree(s) == \A w \in Workers : ~HoldsSession(w, s)

\* An insert of a session shares the lock of the row its foreign key names.
UserFree(u) == \A w \in Workers : ~HoldsUser(w, u)

CredentialFree(u) == \A w \in Workers : ~HoldsCredential(w, u)

\* The advisory lock of acquire_admin_management_lock.
AdminLockFree == \A w \in Workers : job[w].at # "revoking"

-----------------------------------------------------------------------------

Known(u) == user[u] # None
Exists(s) == session[s] # None
Active(s) == Exists(s) /\ session[s].active
ActiveAdmin(u) == Known(u) /\ user[u].role = "admin" /\ user[u].status = "active"
ActiveAdmins == {u \in Users : ActiveAdmin(u)}

NewRow(u, family, expires, t, account) ==
    [user |-> u, family |-> family, expires |-> expires, access |-> t + AccessTTL,
     active |-> TRUE, seen |-> account.changes]

\* UPDATE ... WHERE revoked_at IS NULL on rows that are now locked.
Revoked(S) ==
    [s \in Sessions |-> IF s \in S /\ Active(s) THEN [session[s] EXCEPT !.active = FALSE]
                        ELSE session[s]]

FamilySessions(f) == {s \in Sessions : Active(s) /\ session[s].family = f}

UserSessions(u) == {s \in Sessions : Active(s) /\ session[s].user = u}

Init ==
    /\ now = 0
    /\ user = [u \in Users |-> None]
    /\ credential = [u \in Users |-> Fresh]
    /\ session = [s \in Sessions |-> None]
    /\ job = [w \in Workers |-> Idle]

End(w) == job' = [job EXCEPT ![w] = Idle]

-----------------------------------------------------------------------------
(* Accounts.                                                               *)

\* A customer registers: user, credential and first session in one
\* transaction, which the unique email lets only one registration commit.
Register(u, s) ==
    /\ ~Known(u) /\ ~Exists(s)
    /\ LET account == [role |-> "customer", status |-> "active", changes |-> 0] IN
       /\ user' = [user EXCEPT ![u] = account]
       /\ session' = [session EXCEPT ![s] = NewRow(u, s, now + RefreshTTL, now, account)]
    /\ UNCHANGED <<now, credential, job>>

\* The operator provisions the first administrator, without a session.
Provision(u) ==
    /\ AdminLockFree
    /\ ~Known(u) /\ ActiveAdmins = {}
    /\ user' = [user EXCEPT ![u] = [role |-> "admin", status |-> "active", changes |-> 0]]
    /\ UNCHANGED <<now, credential, session, job>>

-----------------------------------------------------------------------------
(* Login.                                                                  *)

OpenLogin(w, u) ==
    /\ job[w] = Idle
    /\ Known(u)
    /\ job' = [job EXCEPT ![w] = [Idle EXCEPT !.at = "login", !.user = u, !.clock = now]]
    /\ UNCHANGED <<now, user, credential, session>>

Refused(w, u) == credential[u].until > job[w].clock \/ user[u].status # "active"

\* The credential is read under its row's lock, the user without one; the
\* password is verified while the lock is held.
LoginRead(w) ==
    /\ job[w].at = "login"
    /\ LET u == job[w].user IN
       /\ CredentialFree(u)
       /\ IF Refused(w, u)
            THEN End(w)
            ELSE job' = [job EXCEPT ![w].at = "verifying", ![w].account = user[u],
                                    ![w].credential = credential[u]]
    /\ UNCHANGED <<now, user, credential, session>>

\* One wrong password more; an expired lock starts a new count.
Counted(c, t) ==
    LET n == IF c.until # 0 /\ c.until <= t THEN 1 ELSE c.failed + 1 IN
    [failed |-> n, until |-> IF n >= MaxFailed THEN t + Lockout ELSE 0]

LoginMissed(w) ==
    /\ job[w].at = "verifying"
    /\ credential' = [credential EXCEPT
           ![job[w].user] = Counted(job[w].credential, job[w].clock)]
    /\ End(w)
    /\ UNCHANGED <<now, user, session>>

LoginOpened(w, s) ==
    /\ job[w].at = "verifying"
    /\ UserFree(job[w].user)
    /\ ~Exists(s)
    /\ credential' = [credential EXCEPT ![job[w].user] = Fresh]
    /\ session' = [session EXCEPT ![s] =
           NewRow(job[w].user, s, job[w].clock + RefreshTTL, job[w].clock, job[w].account)]
    /\ End(w)
    /\ UNCHANGED <<now, user>>

-----------------------------------------------------------------------------
(* Refresh.                                                                *)

\* A refresh token that was issued at some time, whatever became of it.
OpenRefresh(w, s) ==
    /\ job[w] = Idle
    /\ Exists(s)
    /\ job' = [job EXCEPT ![w] = [Idle EXCEPT !.at = "refreshing", !.session = s, !.clock = now]]
    /\ UNCHANGED <<now, user, credential, session>>

Unavailable(u) == user[u].status # "active"

\* The session ends instead of being rotated: it expired, its user may not
\* use it, or it is too short for another access token.
Rejected(row, t) ==
    row.expires <= t \/ Unavailable(row.user) \/ row.expires <= t + AccessTTL

\* What ends with it: the family, if its user may not use it.
Ending(s, t) ==
    IF session[s].expires > t /\ Unavailable(session[s].user)
    THEN FamilySessions(session[s].family) ELSE {s}

\* The row is read under its lock.  A token used before sets out to revoke
\* the sessions its family has at that moment.
RefreshRead(w) ==
    /\ job[w].at = "refreshing"
    /\ LET s == job[w].session
           row == session[s]
       IN  /\ SessionFree(s)
           /\ \/ /\ ~row.active
                 /\ job' = [job EXCEPT ![w].at = "sweeping",
                                       ![w].victims = FamilySessions(row.family)]
                 /\ UNCHANGED session
              \/ /\ row.active /\ Rejected(row, job[w].clock)
                 /\ session' = Revoked(Ending(s, job[w].clock))
                 /\ End(w)
              \/ /\ row.active /\ ~Rejected(row, job[w].clock)
                 /\ job' = [job EXCEPT ![w].at = "rotating", ![w].account = user[row.user]]
                 /\ UNCHANGED session
    /\ UNCHANGED <<now, user, credential>>

\* The replacement joins the family and keeps its expiry.
Rotate(w, r) ==
    /\ job[w].at = "rotating"
    /\ ~Exists(r)
    /\ LET s == job[w].session
           row == session[s]
       IN  /\ UserFree(row.user)
           /\ session' = [session EXCEPT
                  ![r] = NewRow(row.user, row.family, row.expires, job[w].clock, job[w].account),
                  ![s].active = FALSE]
    /\ End(w)
    /\ UNCHANGED <<now, user, credential>>

\* The rows of a statement are updated once nobody else has them locked.
VictimsFree(w) == \A s \in job[w].victims, v \in Workers \ {w} : ~HoldsSession(v, s)

SweepFamily(w) ==
    /\ job[w].at = "sweeping"
    /\ VictimsFree(w)
    /\ session' = Revoked(job[w].victims)
    /\ End(w)
    /\ UNCHANGED <<now, user, credential>>

-----------------------------------------------------------------------------
(* Logout and access changes.                                              *)

Logout(s) ==
    /\ Active(s)
    /\ SessionFree(s)
    /\ session' = Revoked({s})
    /\ UNCHANGED <<now, user, credential, job>>

\* What an administrator may make of a user: not less of himself, and not
\* less of the only administrator.
Permitted(m, u, role, status) ==
    LET keeps == role = "admin" /\ status = "active" IN
    /\ m = u => keeps
    /\ ActiveAdmin(u) /\ ~keeps => Cardinality(ActiveAdmins) > 1

\* Manager and target are read under the administrators' lock; the target's
\* row is locked, so that the sessions to end can only get fewer.
ChangeAccess(w, m, u, role, status) ==
    /\ job[w] = Idle
    /\ AdminLockFree
    /\ ActiveAdmin(m) /\ Known(u) /\ UserFree(u)
    /\ <<role, status>> # <<user[u].role, user[u].status>>
    /\ Permitted(m, u, role, status)
    /\ user[m].changes + user[u].changes < MaxChanges
    /\ job' = [job EXCEPT ![w] = [Idle EXCEPT
           !.at = "revoking", !.user = u, !.victims = UserSessions(u),
           !.account = [role |-> role, status |-> status, changes |-> user[u].changes + 1]]]
    /\ UNCHANGED <<now, user, credential, session>>

CommitAccess(w) ==
    /\ job[w].at = "revoking"
    /\ VictimsFree(w)
    /\ user' = [user EXCEPT ![job[w].user] = job[w].account]
    /\ session' = Revoked(job[w].victims)
    /\ End(w)
    /\ UNCHANGED <<now, credential>>

-----------------------------------------------------------------------------

\* The transaction is lost: the process died, the database refused, or the
\* database ended it to break a deadlock.
RollBack(w) ==
    /\ job[w] # Idle
    /\ End(w)
    /\ UNCHANGED <<now, user, credential, session>>

Tick ==
    /\ now' = now + 1
    /\ UNCHANGED <<user, credential, session, job>>

Locking(w) == LoginRead(w) \/ RefreshRead(w)

Finishing(w) ==
    \/ LoginMissed(w) \/ SweepFamily(w) \/ CommitAccess(w)
    \/ \E s \in Sessions : LoginOpened(w, s) \/ Rotate(w, s)

Opening(w) ==
    \/ \E u \in Users : OpenLogin(w, u)
    \/ \E s \in Sessions : OpenRefresh(w, s)
    \/ \E m, u \in Users, role \in Roles, status \in {"active", "disabled"} :
           ChangeAccess(w, m, u, role, status)

Next ==
    \/ \E w \in Workers : Opening(w) \/ Locking(w) \/ Finishing(w) \/ RollBack(w)
    \/ \E u \in Users : Provision(u)
    \/ \E u \in Users, s \in Sessions : Register(u, s)
    \/ \E s \in Sessions : Logout(s)
    \/ now < MaxClock /\ Tick

Spec == Init /\ [][Next]_vars

-----------------------------------------------------------------------------
(* Safety.                                                                 *)

TypeOK ==
    /\ now \in Nat
    /\ user \in [Users -> Accounts \cup {None}]
    /\ credential \in [Users -> Credentials]
    /\ session \in [Sessions -> Rows \cup {None}]
    /\ job \in [Workers -> Jobs]

\* Rotation never leaves a login with two usable refresh tokens, however many
\* refreshes, replays and logouts of one token race (refresh_session.py,
\* FOR UPDATE on the session's row).
OneActivePerFamily ==
    \A s, r \in Sessions :
        Active(s) /\ Active(r) /\ session[s].family = session[r].family => s = r

\* A login that ended stays ended: once no session of a family is usable, by
\* logout, expiry, a used token or an access change, no refresh that was
\* under way brings the family back.
Ended(f) == Exists(f) /\ FamilySessions(f) = {}
EndedStaysEnded == [][\A f \in Sessions : Ended(f) => Ended(f)']_vars

\* Repeated refreshes do not extend a login, and an access token never
\* outlives the session it was issued with.
FamilyExpiryKept ==
    \A s \in Sessions : Exists(s) =>
        /\ Exists(session[s].family)
        /\ session[s].expires = session[session[s].family].expires
        /\ session[s].access < session[s].expires

\* Revoking a user's sessions misses none that a concurrent refresh makes:
\* a rotated session in use was made under the user's current access.
RotatedUnderCurrentAccess ==
    \A s \in Sessions :
        Active(s) /\ session[s].family # s =>
            session[s].seen = user[session[s].user].changes

\* Wrong passwords of concurrent logins are all counted: what a login counts
\* from is what is stored.
AttemptsCounted ==
    \A w \in Workers :
        job[w].at = "verifying" => job[w].credential = credential[job[w].user]

\* However administrators change each other, one active administrator
\* remains (update_user_access.py, the final active administrator).
AdministratorRemains == [][ActiveAdmins # {} => ActiveAdmins' # {}]_vars

-----------------------------------------------------------------------------
(* Transactions that wait for each other.                                  *)

Blocks(v, w) ==
    /\ v # w
    /\ \/ job[w].at = "login" /\ HoldsCredential(v, job[w].user)
       \/ job[w].at = "verifying" /\ HoldsUser(v, job[w].user)
       \/ job[w].at = "refreshing" /\ HoldsSession(v, job[w].session)
       \/ job[w].at = "rotating" /\ HoldsUser(v, session[job[w].session].user)
       \/ \E s \in job[w].victims : HoldsSession(v, s)

\* Logins, refreshes and replays of old tokens never wait for each other in
\* a circle; only an access change, which locks the user before the sessions
\* a refresh locks first, can close one, and the database then breaks it.
OnlyAccessChangesDeadlock ==
    \A S \in SUBSET Workers :
        S # {} /\ (\A w \in S : \E v \in S : Blocks(v, w)) =>
            \E w \in S : job[w].at = "revoking"
=============================================================================
