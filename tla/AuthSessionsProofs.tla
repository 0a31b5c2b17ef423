------------------------- MODULE AuthSessionsProofs -------------------------
(***************************************************************************)
(* For any users, sessions and concurrent transactions: a login has one    *)
(* usable session, it stays ended once it ended, its sessions keep its     *)
(* expiry, a rotation does not escape an access change, wrong passwords    *)
(* are counted and an administrator remains.  The argument is about locks: *)
(* what a transaction read under a lock is still so when it commits.       *)
(***************************************************************************)
EXTENDS AuthSessions, TLAPS

\* What a transaction in this place relies on.
Fit(j) ==
    /\ j.at \in {"login", "verifying", "revoking"} => j.user \in Users /\ Known(j.user)
    /\ j.at \in {"refreshing", "rotating", "sweeping"} =>
           j.session \in Sessions /\ Exists(j.session)
    /\ j.at = "verifying" => j.account \in Accounts /\ j.credential = credential[j.user]
    /\ j.at = "rotating" =>
           /\ Active(j.session) /\ j.account \in Accounts
           /\ j.account.changes = user[session[j.session].user].changes
           /\ j.clock + AccessTTL < session[j.session].expires
    /\ j.at = "revoking" =>
           /\ j.account \in Accounts /\ UserSessions(j.user) \subseteq j.victims
           /\ \/ j.account.role = "admin" /\ j.account.status = "active"
              \/ \E m \in Users \ {j.user} : ActiveAdmin(m)

\* Two transactions never hold one lock.
Compatible(i, j) ==
    /\ ~(i.at = "revoking" /\ j.at = "revoking")
    /\ i.at \in {"rotating", "sweeping"} /\ j.at \in {"rotating", "sweeping"} =>
           i.session # j.session
    /\ i.at = "verifying" /\ j.at = "verifying" => i.user # j.user

JobsOK ==
    /\ \A w \in Workers : Fit(job[w])
    /\ \A v, w \in Workers : v # w => Compatible(job[v], job[w])

SessionsOK ==
    /\ \A s \in Sessions : Exists(s) => Known(session[s].user)
    /\ OneActivePerFamily /\ FamilyExpiryKept /\ RotatedUnderCurrentAccess

IInv == TypeOK /\ JobsOK /\ SessionsOK

-----------------------------------------------------------------------------

LEMMA IdleJob ==
  Idle \in Jobs /\ Idle.at = "idle" /\ Fit(Idle)
<1>1. Idle \in Jobs /\ Idle.at = "idle"
  BY DEF Idle, Jobs
<1> QED
  BY <1>1 DEF Fit

\* A transaction moves on, is lost, or writes the credential it has locked.
LEMMA JobStep ==
  ASSUME IInv, NEW w \in Workers, NEW j \in Jobs, job' = [job EXCEPT ![w] = j],
         UNCHANGED <<now, user, session>>, Fit(j),
         credential' \in [Users -> Credentials],
         \A v \in Workers : job'[v].at = "verifying" =>
             credential'[job'[v].user] = credential[job'[v].user],
         \A v \in Workers \ {w} : Compatible(job[v], j) /\ Compatible(j, job[v])
  PROVE  IInv'
<1>1. job'[w] = j /\ (\A v \in Workers \ {w} : job'[v] = job[v]) /\ job' \in [Workers -> Jobs]
  BY DEF IInv, TypeOK
<1>2. TypeOK'
  BY <1>1 DEF IInv, TypeOK
<1>3. ASSUME NEW v \in Workers PROVE Fit(job[v])'
  <2>1. Fit(job'[v])
    BY <1>1 DEF IInv, JobsOK
  <2> QED
    BY <2>1 DEF Fit, Known, Exists, Active, UserSessions, ActiveAdmin
<1>4. ASSUME NEW u \in Workers, NEW v \in Workers, u # v PROVE Compatible(job[u], job[v])'
  <2>1. Compatible(job'[u], job'[v])
    BY <1>1, <1>4 DEF IInv, JobsOK
  <2> QED
    BY <2>1 DEF Compatible
<1>5. SessionsOK'
  BY DEF IInv, SessionsOK, OneActivePerFamily, FamilyExpiryKept, RotatedUnderCurrentAccess,
         Known, Exists, Active
<1> QED
  BY <1>2, <1>3, <1>4, <1>5 DEF IInv, JobsOK

\* What an UPDATE that sets revoked_at leaves of each row.
LEMMA RevokedRows ==
  ASSUME TypeOK, NEW S \in SUBSET Sessions, session' = Revoked(S)
  PROVE  /\ session' \in [Sessions -> Rows \cup {None}]
         /\ \A s \in Sessions :
              /\ Exists(s)' <=> Exists(s)
              /\ Active(s)' <=> Active(s) /\ s \notin S
              /\ Exists(s) => /\ session'[s].user = session[s].user
                              /\ session'[s].family = session[s].family
                              /\ session'[s].expires = session[s].expires
                              /\ session'[s].access = session[s].access
                              /\ session'[s].seen = session[s].seen
<1>1. ASSUME NEW s \in Sessions, s \in S, Active(s)
      PROVE  /\ session'[s] \in Rows
             /\ session'[s] = [session[s] EXCEPT !.active = FALSE]
             /\ session[s] \in Rows
  <2>1. session[s] \in Rows
    BY <1>1 DEF TypeOK, Active, Exists
  <2>2. session'[s] = [session[s] EXCEPT !.active = FALSE]
    BY <1>1 DEF Revoked
  <2> QED
    BY <2>1, <2>2 DEF Rows
<1>2. ASSUME NEW s \in Sessions, ~(s \in S /\ Active(s)) PROVE session'[s] = session[s]
  BY <1>2 DEF Revoked
<1>3. None \notin Rows
  BY NoneAssumption
<1>4. session' \in [Sessions -> Rows \cup {None}]
  <2>1. \A s \in Sessions : session'[s] \in Rows \cup {None}
    BY <1>1, <1>2 DEF TypeOK
  <2> QED
    BY <2>1 DEF Revoked
<1>5. ASSUME NEW s \in Sessions
      PROVE  /\ Exists(s)' <=> Exists(s)
             /\ Active(s)' <=> Active(s) /\ s \notin S
             /\ Exists(s) => /\ session'[s].user = session[s].user
                             /\ session'[s].family = session[s].family
                             /\ session'[s].expires = session[s].expires
                             /\ session'[s].access = session[s].access
                             /\ session'[s].seen = session[s].seen
  <2>1. CASE s \in S /\ Active(s)
    <3>1. /\ session'[s] \in Rows /\ session[s] \in Rows
          /\ session'[s] = [session[s] EXCEPT !.active = FALSE]
      BY <1>1, <2>1
    <3>2. /\ session'[s].user = session[s].user /\ session'[s].family = session[s].family
          /\ session'[s].expires = session[s].expires /\ session'[s].access = session[s].access
          /\ session'[s].seen = session[s].seen /\ session'[s].active = FALSE
      BY <3>1 DEF Rows
    <3>3. Exists(s)' /\ Exists(s)
      BY <1>3, <3>1 DEF Exists
    <3> QED
      BY <2>1, <3>2, <3>3 DEF Active
  <2>2. CASE ~(s \in S /\ Active(s))
    BY <1>2, <2>2 DEF Active, Exists
  <2> QED
    BY <2>1, <2>2
<1> QED
  BY <1>4, <1>5

\* Sessions are revoked that no transaction is rotating, by a transaction
\* that then ends, or by a logout; the access of a user may change with them
\* if all of the user's sessions are among them.
LEMMA RevokeStep ==
  ASSUME IInv, NEW S \in SUBSET Sessions, session' = Revoked(S),
         UNCHANGED <<now, credential>>, user' \in [Users -> Accounts \cup {None}],
         \A v \in Users : Known(v) => Known(v)',
         \A q \in Sessions : Active(q) /\ q \notin S =>
             user'[session[q].user] = user[session[q].user],
         user' = user \/ \A v \in Workers : job'[v].at # "revoking",
         job' = job \/ \E w \in Workers : job' = [job EXCEPT ![w] = Idle],
         \A v \in Workers : job'[v].at = "rotating" => job'[v].session \notin S
  PROVE  IInv'
<1> USE DEF IInv
<1>1. /\ job' \in [Workers -> Jobs]
      /\ \A v \in Workers : job'[v] = job[v] \/ job'[v] = Idle
  BY IdleJob DEF TypeOK
<1>2. TypeOK'
  BY <1>1, RevokedRows DEF TypeOK
<1>3. ASSUME NEW v \in Workers PROVE Fit(job[v])'
  <2> DEFINE s == job'[v].session
             u == job'[v].user
  <2>1. Fit(job'[v])
    BY <1>1, IdleJob DEF JobsOK
  <2>2. \A r \in Sessions :
           /\ session'[r] # None <=> session[r] # None
           /\ session'[r] # None /\ session'[r].active
                <=> session[r] # None /\ session[r].active /\ r \notin S
           /\ session[r] # None => /\ session'[r].user = session[r].user
                                  /\ session'[r].expires = session[r].expires
    BY RevokedRows DEF Exists, Active
  <2>3. {r \in Sessions : session'[r] # None /\ session'[r].active /\ session'[r].user = u}
           \subseteq UserSessions(u)
    BY <2>2 DEF UserSessions, Active, Exists
  <2>4. job'[v].at \in {"refreshing", "rotating", "sweeping"} =>
          s \in Sessions /\ session'[s] # None
    BY <2>1, <2>2 DEF Fit, Exists
  <2>5. job'[v].at = "rotating" =>
          /\ session'[s] # None /\ session'[s].active
          /\ job'[v].account \in Accounts
          /\ job'[v].account.changes = user'[session'[s].user].changes
          /\ job'[v].clock + AccessTTL < session'[s].expires
    BY <2>1, <2>2, <2>4 DEF Fit, Active, Exists
  <2>6. job'[v].at = "revoking" =>
          /\ job'[v].account \in Accounts
          /\ {r \in Sessions : session'[r] # None /\ session'[r].active /\ session'[r].user = u}
               \subseteq job'[v].victims
          /\ \/ job'[v].account.role = "admin" /\ job'[v].account.status = "active"
             \/ \E m \in Users \ {u} :
                  user'[m] # None /\ user'[m].role = "admin" /\ user'[m].status = "active"
    BY <2>1, <2>3 DEF Fit, ActiveAdmin, Known
  <2>7. /\ job'[v].at \in {"login", "verifying", "revoking"} => u \in Users /\ user'[u] # None
        /\ job'[v].at = "verifying" =>
             job'[v].account \in Accounts /\ job'[v].credential = credential'[u]
    BY <2>1 DEF Fit, Known
  <2> QED
    BY <2>4, <2>5, <2>6, <2>7 DEF Fit, Exists, Active, UserSessions, ActiveAdmin, Known
<1>4. ASSUME NEW u \in Workers, NEW v \in Workers, u # v PROVE Compatible(job[u], job[v])'
  <2>1. Compatible(job'[u], job'[v])
    BY <1>1, <1>4, IdleJob DEF JobsOK, Compatible
  <2> QED
    BY <2>1 DEF Compatible
<1>5. SessionsOK'
  <2>1. \A s \in Sessions : Exists(s)' => Known(session[s].user)'
    <3> SUFFICES ASSUME NEW s \in Sessions, Exists(s)' PROVE user'[session'[s].user] # None
      BY DEF Known
    <3>1. Exists(s) /\ session'[s].user = session[s].user
      BY RevokedRows
    <3>2. session[s].user \in Users
      BY <3>1, NoneAssumption DEF TypeOK, Exists, Rows
    <3> QED
      BY <3>1, <3>2 DEF SessionsOK, Known
  <2>2. OneActivePerFamily'
    BY RevokedRows DEF SessionsOK, OneActivePerFamily, Active
  <2>3. FamilyExpiryKept'
    <3> SUFFICES ASSUME NEW s \in Sessions, Exists(s)'
                 PROVE  /\ Exists(session[s].family)'
                        /\ session'[s].expires = session'[session'[s].family].expires
                        /\ session'[s].access < session'[s].expires
      BY DEF FamilyExpiryKept
    <3>1. Exists(s) /\ session[s].family \in Sessions
      BY RevokedRows, NoneAssumption DEF TypeOK, Exists, Rows
    <3> QED
      BY <3>1, RevokedRows DEF SessionsOK, FamilyExpiryKept, Exists
  <2>4. RotatedUnderCurrentAccess'
    BY RevokedRows DEF SessionsOK, RotatedUnderCurrentAccess, Active
  <2> QED
    BY <2>1, <2>2, <2>3, <2>4 DEF SessionsOK
<1> QED
  BY <1>2, <1>3, <1>4, <1>5 DEF JobsOK

\* A login opens a family of its own.
LEMMA AddStep ==
  ASSUME IInv, NEW u \in Users, NEW r \in Sessions, ~Exists(r),
         NEW x \in Rows, x.user = u, x.family = r, x.access < x.expires,
         session' = [session EXCEPT ![r] = x], now' = now,
         user' \in [Users -> Accounts \cup {None}], Known(u)',
         \A v \in Users : Known(v) => user'[v] = user[v],
         credential' \in [Users -> Credentials],
         job' = job \/ \E w \in Workers : job' = [job EXCEPT ![w] = Idle],
         \A v \in Workers : job'[v].at = "revoking" => job'[v].user # u,
         \A v \in Workers : job'[v].at = "verifying" =>
             credential'[job'[v].user] = credential[job'[v].user]
  PROVE  IInv'
<1> USE DEF IInv
<1>1. /\ job' \in [Workers -> Jobs]
      /\ \A v \in Workers : job'[v] = job[v] \/ job'[v] = Idle
  BY IdleJob DEF TypeOK
<1>2. /\ session' \in [Sessions -> Rows \cup {None}]
      /\ session'[r] = x /\ \A s \in Sessions \ {r} : session'[s] = session[s]
  BY DEF TypeOK
<1>3. TypeOK'
  BY <1>1, <1>2 DEF TypeOK
<1>4. x # None
  BY NoneAssumption
<1>5. ASSUME NEW s \in Sessions, Exists(s)
      PROVE  /\ s # r /\ session'[s] = session[s] /\ session[s] \in Rows
             /\ session[s].family \in Sessions /\ Exists(session[s].family) /\ session[s].family # r
             /\ session[s].user \in Users /\ Known(session[s].user)
             /\ user'[session[s].user] = user[session[s].user]
  <2>1. session[s] \in Rows
    BY <1>5 DEF TypeOK, Exists
  <2>2. Exists(session[s].family) /\ Known(session[s].user)
    BY <1>5 DEF SessionsOK, FamilyExpiryKept
  <2> QED
    BY <1>2, <1>5, <2>1, <2>2 DEF Rows
<1>6. ASSUME NEW v \in Workers PROVE Fit(job[v])'
  <2> DEFINE s == job'[v].session
             w == job'[v].user
  <2>1. Fit(job'[v])
    BY <1>1, IdleJob DEF JobsOK
  <2>2. job'[v].at \in {"refreshing", "rotating", "sweeping"} =>
          s \in Sessions /\ session'[s] # None
    BY <1>5, <2>1 DEF Fit, Exists
  <2>3. job'[v].at = "rotating" =>
          /\ session'[s] # None /\ session'[s].active
          /\ job'[v].account \in Accounts
          /\ job'[v].account.changes = user'[session'[s].user].changes
          /\ job'[v].clock + AccessTTL < session'[s].expires
    <3> SUFFICES ASSUME job'[v].at = "rotating"
                 PROVE  /\ session'[s] # None /\ session'[s].active
                        /\ job'[v].account \in Accounts
                        /\ job'[v].account.changes = user'[session'[s].user].changes
                        /\ job'[v].clock + AccessTTL < session'[s].expires
      OBVIOUS
    <3>1. s \in Sessions /\ Exists(s) /\ Active(s)
      BY <2>1 DEF Fit
    <3>2. /\ session'[s] = session[s]
          /\ user'[session[s].user] = user[session[s].user]
      BY <1>5, <3>1
    <3> QED
      BY <2>1, <2>2, <3>1, <3>2 DEF Fit, Active
  <2>4. job'[v].at \in {"login", "verifying", "revoking"} => w \in Users /\ user'[w] # None
    BY <2>1 DEF Fit, Known
  <2>5. job'[v].at = "verifying" =>
          job'[v].account \in Accounts /\ job'[v].credential = credential'[w]
    BY <2>1 DEF Fit
  <2>6. job'[v].at = "revoking" =>
          {q \in Sessions : session'[q] # None /\ session'[q].active /\ session'[q].user = w}
               \subseteq job'[v].victims
    <3> SUFFICES ASSUME job'[v].at = "revoking", NEW q \in Sessions, session'[q] # None,
                        session'[q].active, session'[q].user = w
                 PROVE  q \in job'[v].victims
      OBVIOUS
    <3>1. q # r
      BY <1>2
    <3>2. session'[q] = session[q]
      BY <1>2, <3>1
    <3> QED
      BY <2>1, <3>2 DEF Fit, UserSessions, Active, Exists
  <2>7. job'[v].at = "revoking" =>
          /\ job'[v].account \in Accounts
          /\ \/ job'[v].account.role = "admin" /\ job'[v].account.status = "active"
             \/ \E m \in Users \ {w} :
                  user'[m] # None /\ user'[m].role = "admin" /\ user'[m].status = "active"
    BY <2>1 DEF Fit, ActiveAdmin, Known
  <2> QED
    BY <2>2, <2>3, <2>4, <2>5, <2>6, <2>7
       DEF Fit, Exists, Active, UserSessions, ActiveAdmin, Known
<1>7. ASSUME NEW v \in Workers, NEW w \in Workers, v # w PROVE Compatible(job[v], job[w])'
  <2>1. Compatible(job'[v], job'[w])
    BY <1>1, <1>7, IdleJob DEF JobsOK, Compatible
  <2> QED
    BY <2>1 DEF Compatible
<1>8. \A s \in Sessions \ {r} : (Exists(s)' <=> Exists(s)) /\ (Active(s)' <=> Active(s))
  BY <1>2 DEF Exists, Active
<1>9. Exists(r)' /\ session'[r].family = r /\ session'[r].user = u
  BY <1>2, <1>4 DEF Exists
<1>10. SessionsOK'
  <2>1. \A s \in Sessions : Exists(s)' => Known(session[s].user)'
    BY <1>5, <1>8, <1>9 DEF Known
  <2>2. OneActivePerFamily'
    <3> SUFFICES ASSUME NEW s \in Sessions, NEW q \in Sessions, Active(s)', Active(q)',
                        session'[s].family = session'[q].family
                 PROVE  s = q
      BY DEF OneActivePerFamily
    <3>1. s # r => Active(s) /\ session'[s] = session[s] /\ session[s].family # r
      BY <1>5, <1>8 DEF Active
    <3>2. q # r => Active(q) /\ session'[q] = session[q] /\ session[q].family # r
      BY <1>5, <1>8 DEF Active
    <3> QED
      BY <1>9, <3>1, <3>2 DEF SessionsOK, OneActivePerFamily
  <2>3. FamilyExpiryKept'
    <3> SUFFICES ASSUME NEW s \in Sessions, Exists(s)'
                 PROVE  /\ Exists(session[s].family)'
                        /\ session'[s].expires = session'[session'[s].family].expires
                        /\ session'[s].access < session'[s].expires
      BY DEF FamilyExpiryKept
    <3>1. CASE s = r
      BY <1>2, <1>9, <3>1
    <3>2. CASE s # r
      <4>1. Exists(s)
        BY <1>8, <3>2
      <4>2. Exists(session[s].family)' /\ session'[session[s].family] = session[session[s].family]
        BY <1>5, <1>8, <4>1
      <4> QED
        BY <1>5, <4>1, <4>2 DEF SessionsOK, FamilyExpiryKept, Exists
    <3> QED
      BY <3>1, <3>2
  <2>4. RotatedUnderCurrentAccess'
    <3> SUFFICES ASSUME NEW s \in Sessions, Active(s)', session'[s].family # s
                 PROVE  session'[s].seen = user'[session'[s].user].changes
      BY DEF RotatedUnderCurrentAccess
    <3>1. s # r
      BY <1>9
    <3>2. Active(s) /\ Exists(s)
      BY <1>8, <3>1 DEF Active
    <3> QED
      BY <1>5, <3>2 DEF SessionsOK, RotatedUnderCurrentAccess
  <2> QED
    BY <2>1, <2>2, <2>3, <2>4 DEF SessionsOK
<1> QED
  BY <1>3, <1>6, <1>7, <1>10 DEF JobsOK

\* A rotation replaces the session it has locked by one of the same family.
LEMMA RotateStep ==
  ASSUME IInv, NEW w \in Workers, NEW r \in Sessions, Rotate(w, r)
  PROVE  IInv'
<1> USE DEF IInv
<1>0. PICK s \in Sessions : s = job[w].session
  BY DEF JobsOK, Fit, Rotate
<1> DEFINE row == session[s]
           x == NewRow(row.user, row.family, row.expires, job[w].clock, job[w].account)
<1>1. /\ s \in Sessions /\ session[s] \in Rows /\ Active(s) /\ Exists(s) /\ Exists(row.family)
      /\ job[w] \in Jobs /\ job[w].account \in Accounts
      /\ job[w].account.changes = user[row.user].changes
      /\ job[w].clock + AccessTTL < row.expires
      /\ row.family \in Sessions /\ row.user \in Users /\ Known(row.user)
      /\ row.expires = session[row.family].expires /\ row.expires \in Nat
  <2>1. Fit(job[w]) /\ job[w].at = "rotating" /\ job[w] \in Jobs
    BY DEF JobsOK, Rotate, TypeOK
  <2>2. s \in Sessions /\ Active(s) /\ Exists(s) /\ session[s] \in Rows
    BY <1>0, <2>1 DEF Fit, TypeOK, Active, Exists
  <2>3. row.family \in Sessions /\ row.user \in Users /\ row.expires \in Nat
    BY <2>2 DEF Rows
  <2>4. Known(row.user) /\ Exists(row.family) /\ row.expires = session[row.family].expires
    BY <2>2 DEF SessionsOK, FamilyExpiryKept
  <2> QED
    BY <1>0, <2>1, <2>2, <2>3, <2>4 DEF Fit
<1>2. r # s /\ ~Exists(r) /\ r # row.family
  BY <1>1 DEF Rotate
<1>3. /\ x \in Rows /\ x # None /\ x.user = row.user /\ x.family = row.family
      /\ x.expires = row.expires /\ x.access < x.expires /\ x.active
      /\ x.seen = user[row.user].changes
  <2>1. job[w].clock \in Nat /\ job[w].account.changes \in Nat
    BY <1>1 DEF Jobs, Accounts
  <2>2. x \in Rows
    BY <1>1, <2>1, AuthAssumption DEF NewRow, Rows
  <2> QED
    BY <1>1, <2>2, NoneAssumption DEF NewRow
<1>4. /\ session' \in [Sessions -> Rows \cup {None}]
      /\ session'[r] = x /\ session'[s] = [row EXCEPT !.active = FALSE]
      /\ \A q \in Sessions \ {r, s} : session'[q] = session[q]
  <2>1. session' = [session EXCEPT ![r] = x, ![s].active = FALSE]
    BY <1>0 DEF Rotate
  <2>2. [row EXCEPT !.active = FALSE] \in Rows
    BY <1>1 DEF Rows
  <2> HIDE DEF x
  <2>3. session \in [Sessions -> Rows \cup {None}]
    BY DEF TypeOK
  <2> QED
    BY <1>1, <1>2, <1>3, <2>1, <2>2, <2>3
<1>5. /\ session'[s].user = row.user /\ session'[s].family = row.family
      /\ session'[s].expires = row.expires /\ session'[s].access = row.access
      /\ ~session'[s].active /\ session'[s] # None
  <2>1. session'[s] \in Rows /\ session'[s] # None
    BY <1>1, <1>4, NoneAssumption DEF Rows
  <2> QED
    BY <1>1, <1>4, <2>1 DEF Rows
<1> HIDE DEF x
<1>6. /\ \A q \in Sessions \ {r} : Exists(q)' <=> Exists(q)
      /\ \A q \in Sessions \ {r, s} : Active(q)' <=> Active(q)
      /\ \A q \in Sessions \ {r} : Exists(q) =>
           /\ session'[q].user = session[q].user /\ session'[q].family = session[q].family
           /\ session'[q].expires = session[q].expires /\ session'[q].access = session[q].access
      /\ ~Active(s)' /\ Active(r)' /\ Exists(r)'
  <2>1. ASSUME NEW q \in Sessions \ {r, s}
        PROVE  session'[q] = session[q] /\ (Exists(q)' <=> Exists(q)) /\ (Active(q)' <=> Active(q))
    BY <1>4 DEF Exists, Active
  <2>2. Exists(s)' /\ ~Active(s)'
    BY <1>5 DEF Exists, Active
  <2>3. Exists(r)' /\ Active(r)'
    BY <1>3, <1>4 DEF Exists, Active
  <2>4. ASSUME NEW q \in Sessions \ {r}
        PROVE  /\ Exists(q)' <=> Exists(q)
               /\ Exists(q) =>
                   /\ session'[q].user = session[q].user /\ session'[q].family = session[q].family
                   /\ session'[q].expires = session[q].expires
                   /\ session'[q].access = session[q].access
    <3>1. CASE q = s
      BY <1>1, <1>5, <3>1 DEF Exists
    <3>2. CASE q # s
      BY <2>1, <3>2
    <3> QED
      BY <3>1, <3>2
  <2> QED
    BY <2>1, <2>2, <2>3, <2>4
<1>7. /\ job' \in [Workers -> Jobs] /\ job'[w] = Idle
      /\ \A v \in Workers \ {w} : job'[v] = job[v]
      /\ UNCHANGED <<now, user, credential>>
  BY IdleJob DEF TypeOK, Rotate, End
<1>8. TypeOK'
  BY <1>4, <1>7 DEF TypeOK
<1>9. ASSUME NEW v \in Workers \ {w} PROVE Fit(job[v])'
  <2> DEFINE q == job[v].session
             u == job[v].user
  <2>1. Fit(job[v]) /\ job'[v] = job[v]
    BY <1>7 DEF JobsOK
  <2>2. job[v].at \in {"refreshing", "rotating", "sweeping"} =>
          q \in Sessions /\ session'[q] # None
    BY <1>6, <2>1 DEF Fit, Exists
  <2>3. job[v].at = "rotating" => q # s /\ q # r
    BY <1>0, <1>2, <2>1 DEF JobsOK, Compatible, Rotate, Fit
  <2>4. job[v].at = "rotating" =>
          /\ session'[q] # None /\ session'[q].active /\ job[v].account \in Accounts
          /\ job[v].account.changes = user'[session'[q].user].changes
          /\ job[v].clock + AccessTTL < session'[q].expires
    BY <1>4, <1>7, <2>1, <2>2, <2>3 DEF Fit, Active
  <2>5. job[v].at = "revoking" => row.user # u
    BY <1>0 DEF Rotate, UserFree, HoldsUser
  <2>6. job[v].at = "revoking" =>
          {p \in Sessions : session'[p] # None /\ session'[p].active /\ session'[p].user = u}
               \subseteq job[v].victims
    <3> SUFFICES ASSUME job[v].at = "revoking", NEW p \in Sessions, session'[p] # None,
                        session'[p].active, session'[p].user = u
                 PROVE  p \in job[v].victims
      OBVIOUS
    <3>1. p # r /\ p # s
      BY <1>3, <1>4, <1>5, <2>5
    <3>2. session'[p] = session[p]
      BY <1>4, <3>1
    <3> QED
      BY <2>1, <3>2 DEF Fit, UserSessions, Active, Exists
  <2>7. job[v].at = "revoking" =>
          /\ job[v].account \in Accounts
          /\ \/ job[v].account.role = "admin" /\ job[v].account.status = "active"
             \/ \E m \in Users \ {u} :
                  user'[m] # None /\ user'[m].role = "admin" /\ user'[m].status = "active"
    BY <1>7, <2>1 DEF Fit, ActiveAdmin, Known
  <2>8. /\ job[v].at \in {"login", "verifying", "revoking"} => u \in Users /\ user'[u] # None
        /\ job[v].at = "verifying" =>
             job[v].account \in Accounts /\ job[v].credential = credential'[u]
    BY <1>7, <2>1 DEF Fit, Known
  <2> QED
    BY <2>1, <2>2, <2>4, <2>6, <2>7, <2>8
       DEF Fit, Exists, Active, UserSessions, ActiveAdmin, Known
<1>10. Fit(job[w])'
  BY <1>7, IdleJob DEF Fit
<1>11. ASSUME NEW v \in Workers, NEW u \in Workers, v # u PROVE Compatible(job[v], job[u])'
  <2>1. Compatible(job'[v], job'[u])
    BY <1>7, <1>11, IdleJob DEF JobsOK, Compatible
  <2> QED
    BY <2>1 DEF Compatible
<1>12. SessionsOK'
  <2>1. \A q \in Sessions : Exists(q)' => Known(session[q].user)'
    BY <1>1, <1>3, <1>4, <1>6, <1>7 DEF SessionsOK, Known
  <2>2. OneActivePerFamily'
    <3> SUFFICES ASSUME NEW p \in Sessions, NEW q \in Sessions, Active(p)', Active(q)',
                        session'[p].family = session'[q].family, p # q
                 PROVE  FALSE
      BY DEF OneActivePerFamily
    <3>1. p # s /\ q # s
      BY <1>5 DEF Active
    <3>2. CASE p # r /\ q # r
      BY <1>4, <1>6, <3>1, <3>2 DEF SessionsOK, OneActivePerFamily
    <3>3. ASSUME NEW o \in Sessions \ {r, s}, Active(o)' PROVE session'[o].family # row.family
      BY <1>1, <1>4, <1>6, <3>3 DEF SessionsOK, OneActivePerFamily
    <3>4. CASE p = r \/ q = r
      BY <1>3, <1>4, <3>1, <3>3, <3>4
    <3> QED
      BY <3>2, <3>4
  <2>3. FamilyExpiryKept'
    <3> SUFFICES ASSUME NEW q \in Sessions, Exists(q)'
                 PROVE  /\ Exists(session[q].family)'
                        /\ session'[q].expires = session'[session'[q].family].expires
                        /\ session'[q].access < session'[q].expires
      BY DEF FamilyExpiryKept
    <3>1. CASE q = r
      BY <1>1, <1>2, <1>3, <1>4, <1>6, <3>1
    <3>2. CASE q # r
      <4>1. Exists(q) /\ session[q].family \in Sessions
        BY <1>6, <3>2, NoneAssumption DEF TypeOK, Exists, Rows
      <4>2. /\ Exists(session[q].family) /\ session[q].family # r
            /\ session[q].expires = session[session[q].family].expires
            /\ session[q].access < session[q].expires
        BY <1>2, <4>1 DEF SessionsOK, FamilyExpiryKept
      <4> QED
        BY <1>6, <3>2, <4>1, <4>2
    <3> QED
      BY <3>1, <3>2
  <2>4. RotatedUnderCurrentAccess'
    <3> SUFFICES ASSUME NEW q \in Sessions, Active(q)', session'[q].family # q
                 PROVE  session'[q].seen = user'[session'[q].user].changes
      BY DEF RotatedUnderCurrentAccess
    <3>1. CASE q = r
      BY <1>3, <1>4, <1>7, <3>1
    <3>2. CASE q # r
      <4>1. q # s
        BY <1>5 DEF Active
      <4>2. Active(q) /\ session'[q] = session[q]
        BY <1>4, <1>6, <3>2, <4>1
      <4> QED
        BY <1>7, <4>2 DEF SessionsOK, RotatedUnderCurrentAccess
    <3> QED
      BY <3>1, <3>2
  <2> QED
    BY <2>1, <2>2, <2>3, <2>4 DEF SessionsOK
<1> QED
  BY <1>7, <1>8, <1>9, <1>10, <1>11, <1>12 DEF JobsOK

\* Time passes, or a user is added.
LEMMA UserStep ==
  ASSUME IInv, UNCHANGED <<credential, session, job>>, now' \in Nat,
         user' \in [Users -> Accounts \cup {None}],
         \A u \in Users : Known(u) => user'[u] = user[u]
  PROVE  IInv'
<1> USE DEF IInv
<1>1. TypeOK'
  BY DEF TypeOK
<1>2. \A s \in Sessions : Exists(s) =>
         /\ session[s].user \in Users /\ Known(session[s].user)
         /\ user'[session[s].user] = user[session[s].user]
  BY NoneAssumption DEF SessionsOK, TypeOK, Exists, Rows
<1>3. \A u \in Users : Known(u) => Known(u)' /\ (ActiveAdmin(u) => ActiveAdmin(u)')
  BY DEF Known, ActiveAdmin
<1>4. ASSUME NEW v \in Workers PROVE Fit(job[v])'
  <2> DEFINE j == job[v]
  <2>1. Fit(j)
    BY DEF JobsOK
  <2>2. j.at \in {"login", "verifying", "revoking"} => j.user \in Users /\ user'[j.user] # None
    BY <2>1 DEF Fit, Known
  <2>3. j.at = "rotating" => j.account.changes = user'[session[j.session].user].changes
    BY <1>2, <2>1 DEF Fit
  <2>4. j.at = "revoking" =>
          \/ j.account.role = "admin" /\ j.account.status = "active"
          \/ \E m \in Users \ {j.user} :
                  user'[m] # None /\ user'[m].role = "admin" /\ user'[m].status = "active"
    BY <2>1 DEF Fit, ActiveAdmin, Known
  <2> QED
    BY <2>1, <2>2, <2>3, <2>4 DEF Fit, Known, Exists, Active, UserSessions, ActiveAdmin
<1>5. ASSUME NEW v \in Workers, NEW w \in Workers, v # w PROVE Compatible(job[v], job[w])'
  BY <1>5 DEF JobsOK, Compatible
<1>6. SessionsOK'
  <2>1. \A s \in Sessions : Exists(s)' => Known(session[s].user)'
    BY <1>2 DEF Exists, Known
  <2>2. OneActivePerFamily' /\ FamilyExpiryKept'
    BY DEF SessionsOK, OneActivePerFamily, FamilyExpiryKept, Exists, Active
  <2>3. RotatedUnderCurrentAccess'
    BY <1>2 DEF SessionsOK, RotatedUnderCurrentAccess, Active, Exists
  <2> QED
    BY <2>1, <2>2, <2>3 DEF SessionsOK
<1> QED
  BY <1>1, <1>4, <1>5, <1>6 DEF JobsOK

-----------------------------------------------------------------------------

LEMMA Initially == Init => IInv
<1> SUFFICES ASSUME Init PROVE IInv
  OBVIOUS
<1>1. TypeOK
  BY IdleJob DEF Init, TypeOK, Fresh, Credentials
<1>2. JobsOK
  BY IdleJob DEF Init, JobsOK, Compatible
<1>3. SessionsOK
  BY DEF Init, SessionsOK, OneActivePerFamily, FamilyExpiryKept, RotatedUnderCurrentAccess,
         Exists, Active
<1> QED
  BY <1>1, <1>2, <1>3 DEF IInv

\* The steps of a login.
LEMMA LoginSteps ==
  ASSUME IInv, NEW w \in Workers,
         \/ \E u \in Users : OpenLogin(w, u)
         \/ LoginRead(w) \/ LoginMissed(w)
         \/ \E s \in Sessions : LoginOpened(w, s)
  PROVE  IInv'
<1> USE DEF IInv
<1>0. /\ job[w] \in Jobs /\ Fit(job[w]) /\ (\A v \in Workers : job[v] \in Jobs)
      /\ credential \in [Users -> Credentials] /\ now \in Nat
      /\ \A v \in Workers \ {w} : Compatible(job[v], Idle) /\ Compatible(Idle, job[v])
  BY IdleJob DEF TypeOK, JobsOK, Compatible
<1>1. ASSUME NEW u \in Users, OpenLogin(w, u) PROVE IInv'
  <2> DEFINE j == [Idle EXCEPT !.at = "login", !.user = u, !.clock = now]
  <2>1. j \in Jobs /\ j.at = "login" /\ j.user = u
    BY <1>0 DEF Idle, Jobs
  <2>2. job' = [job EXCEPT ![w] = j] /\ UNCHANGED <<now, user, session, credential>> /\ Known(u)
    BY <1>1 DEF OpenLogin
  <2> HIDE DEF j
  <2>3. Fit(j) /\ \A v \in Workers : Compatible(job[v], j) /\ Compatible(j, job[v])
    BY <2>1, <2>2 DEF Fit, Compatible
  <2> QED
    BY <1>0, <2>1, <2>2, <2>3, JobStep
<1>2. CASE LoginRead(w)
  <2> DEFINE u == job[w].user
             j == [job[w] EXCEPT !.at = "verifying", !.account = user[u],
                                 !.credential = credential[u]]
  <2>1. CASE Refused(w, u)
    <3>1. job' = [job EXCEPT ![w] = Idle] /\ UNCHANGED <<now, user, session, credential>>
      BY <1>2, <2>1 DEF LoginRead, End
    <3> QED
      BY <1>0, <3>1, IdleJob, JobStep
  <2>2. CASE ~Refused(w, u)
    <3>1. u \in Users /\ Known(u) /\ CredentialFree(u) /\ user[u] \in Accounts
          /\ credential[u] \in Credentials
      BY <1>0, <1>2 DEF LoginRead, Fit, TypeOK, Known
    <3>2. j \in Jobs /\ j.at = "verifying" /\ j.user = u /\ j.account = user[u]
          /\ j.credential = credential[u]
      BY <1>0, <3>1 DEF Jobs
    <3>3. job' = [job EXCEPT ![w] = j] /\ UNCHANGED <<now, user, session, credential>>
      BY <1>2, <2>2 DEF LoginRead
    <3>4. Fit(j)
      BY <3>1, <3>2 DEF Fit
    <3>5. \A v \in Workers \ {w} : Compatible(job[v], j) /\ Compatible(j, job[v])
      BY <3>1, <3>2 DEF Compatible, CredentialFree, HoldsCredential
    <3> HIDE DEF j
    <3> QED
      BY <1>0, <3>2, <3>3, <3>4, <3>5, JobStep
  <2> QED
    BY <2>1, <2>2
<1>3. CASE LoginMissed(w)
  <2> DEFINE u == job[w].user
             c == Counted(job[w].credential, job[w].clock)
  <2>1. u \in Users /\ job[w].credential = credential[u] /\ credential[u] \in Credentials
        /\ job[w].clock \in Nat /\ job[w].at = "verifying"
    BY <1>0, <1>3 DEF LoginMissed, Fit, Jobs
  <2>2. c \in Credentials
    BY <2>1, AuthAssumption DEF Counted, Credentials
  <2>3. /\ job' = [job EXCEPT ![w] = Idle] /\ UNCHANGED <<now, user, session>>
        /\ credential' = [credential EXCEPT ![u] = c]
    BY <1>3 DEF LoginMissed, End
  <2> HIDE DEF c
  <2>4. credential' \in [Users -> Credentials]
    BY <1>0, <2>2, <2>3
  <2>5. \A v \in Workers : job'[v].at = "verifying" =>
             credential'[job'[v].user] = credential[job'[v].user]
    <3> SUFFICES ASSUME NEW v \in Workers, job'[v].at = "verifying"
                 PROVE  credential'[job'[v].user] = credential[job'[v].user]
      OBVIOUS
    <3>1. v # w /\ job'[v] = job[v]
      BY <2>3, IdleJob DEF TypeOK
    <3>2. job[v].user \in Users /\ job[v].user # u
      BY <2>1, <3>1 DEF JobsOK, Fit, Compatible
    <3> QED
      BY <1>0, <2>3, <3>1, <3>2
  <2> QED
    BY <1>0, <2>3, <2>4, <2>5, IdleJob, JobStep
<1>4. ASSUME NEW s \in Sessions, LoginOpened(w, s) PROVE IInv'
  <2>0. PICK u \in Users : u = job[w].user
    BY <1>0, <1>4 DEF LoginOpened, Fit
  <2> DEFINE x == NewRow(u, s, job[w].clock + RefreshTTL, job[w].clock, job[w].account)
  <2>1. /\ u \in Users /\ Known(u) /\ job[w].account \in Accounts /\ job[w].clock \in Nat
        /\ job[w].at = "verifying"
    BY <1>0, <1>4, <2>0 DEF LoginOpened, Fit, Jobs
  <2>2. x \in Rows /\ x.user = u /\ x.family = s /\ x.access < x.expires
    BY <2>1, AuthAssumption DEF NewRow, Rows, Accounts
  <2>3. /\ job' = [job EXCEPT ![w] = Idle] /\ UNCHANGED <<now, user>> /\ ~Exists(s) /\ UserFree(u)
        /\ credential' = [credential EXCEPT ![u] = Fresh]
        /\ session' = [session EXCEPT ![s] = x]
    BY <1>4, <2>0 DEF LoginOpened, End
  <2> HIDE DEF x
  <2>4. credential' \in [Users -> Credentials]
    BY <1>0, <2>3 DEF Fresh, Credentials
  <2>5. ASSUME NEW v \in Workers
        PROVE  /\ job'[v].at = "verifying" => credential'[job'[v].user] = credential[job'[v].user]
               /\ job'[v].at = "revoking" => job'[v].user # u
    <3>1. CASE v = w
      BY <2>3, <3>1, IdleJob DEF TypeOK
    <3>2. CASE v # w
      <4>1. job'[v] = job[v]
        BY <2>3, <3>2 DEF TypeOK
      <4>2. job[v].at = "verifying" => job[v].user \in Users /\ job[v].user # u
        BY <2>0, <2>1, <3>2 DEF JobsOK, Fit, Compatible
      <4> QED
        BY <1>0, <2>3, <4>1, <4>2 DEF UserFree, HoldsUser
    <3> QED
      BY <3>1, <3>2
  <2>6. user' \in [Users -> Accounts \cup {None}] /\ Known(u)'
        /\ \A v \in Users : Known(v) => user'[v] = user[v]
    <3>1. user'[u] # None
      BY <2>1, <2>3 DEF Known
    <3> QED
      BY <2>3, <3>1 DEF TypeOK, Known
  <2> QED
    BY <2>1, <2>2, <2>3, <2>4, <2>5, <2>6, AddStep
<1> QED
  BY <1>1, <1>2, <1>3, <1>4

\* The steps of a refresh.
LEMMA RefreshSteps ==
  ASSUME IInv, NEW w \in Workers,
         \/ \E s \in Sessions : OpenRefresh(w, s)
         \/ RefreshRead(w) \/ SweepFamily(w)
         \/ \E s \in Sessions : Rotate(w, s)
  PROVE  IInv'
<1> USE DEF IInv
<1>0. /\ job[w] \in Jobs /\ Fit(job[w]) /\ (\A v \in Workers : job[v] \in Jobs /\ Fit(job[v]))
      /\ credential \in [Users -> Credentials] /\ now \in Nat
  BY DEF TypeOK, JobsOK
<1>1. ASSUME NEW s \in Sessions, OpenRefresh(w, s) PROVE IInv'
  <2> DEFINE j == [Idle EXCEPT !.at = "refreshing", !.session = s, !.clock = now]
  <2>1. j \in Jobs /\ j.at = "refreshing" /\ j.session = s
    BY <1>0 DEF Idle, Jobs
  <2>2. job' = [job EXCEPT ![w] = j] /\ UNCHANGED <<now, user, session, credential>> /\ Exists(s)
    BY <1>1 DEF OpenRefresh
  <2> HIDE DEF j
  <2>3. Fit(j) /\ \A v \in Workers : Compatible(job[v], j) /\ Compatible(j, job[v])
    BY <2>1, <2>2 DEF Fit, Compatible
  <2>4. \A v \in Workers : job'[v].at = "verifying" =>
             credential'[job'[v].user] = credential[job'[v].user]
    BY <2>2
  <2> QED
    BY <1>0, <2>1, <2>2, <2>3, <2>4, JobStep
<1>2. CASE RefreshRead(w)
  <2>1. PICK s \in Sessions : s = job[w].session
    BY <1>0, <1>2 DEF RefreshRead, Fit
  <2>2. /\ Exists(s) /\ session[s] \in Rows /\ SessionFree(s) /\ job[w].at = "refreshing"
        /\ UNCHANGED <<now, user, credential>>
    BY <1>0, <1>2, <2>1 DEF RefreshRead, Fit, Exists, TypeOK
  <2>3. \A v \in Workers : job'[v].at = "verifying" =>
             credential'[job'[v].user] = credential[job'[v].user]
    BY <2>2
  <2>4. CASE ~session[s].active
    <3> DEFINE j == [job[w] EXCEPT !.at = "sweeping", !.victims = FamilySessions(session[s].family)]
    <3>1. FamilySessions(session[s].family) \subseteq Sessions
      BY DEF FamilySessions
    <3>2. j \in Jobs /\ j.at = "sweeping" /\ j.session = s
      BY <1>0, <2>1, <3>1 DEF Jobs
    <3>3. job' = [job EXCEPT ![w] = j] /\ UNCHANGED session
      BY <1>2, <2>1, <2>4 DEF RefreshRead
    <3> HIDE DEF j
    <3>4. Fit(j)
      BY <2>2, <3>2 DEF Fit
    <3>5. \A v \in Workers \ {w} : Compatible(job[v], j) /\ Compatible(j, job[v])
      BY <2>2, <3>2 DEF Compatible, SessionFree, HoldsSession
    <3> QED
      BY <1>0, <2>2, <2>3, <3>2, <3>3, <3>4, <3>5, JobStep
  <2>5. CASE session[s].active /\ Rejected(session[s], job[w].clock)
    <3>0. FamilySessions(session[s].family) = {s}
      BY <2>2, <2>5 DEF SessionsOK, OneActivePerFamily, FamilySessions, Active
    <3>1. session' = Revoked({s}) /\ job' = [job EXCEPT ![w] = Idle]
      BY <1>2, <2>1, <2>5, <3>0 DEF RefreshRead, End, Ending
    <3>2. \A v \in Workers : job'[v] = job[v] \/ job'[v] = Idle
      BY <3>1 DEF TypeOK
    <3>3. \A v \in Workers : job'[v].at = "rotating" => job'[v].session \notin {s}
      BY <2>2, <3>2, IdleJob DEF SessionFree, HoldsSession
    <3> QED
      BY <2>2, <3>1, <3>3, RevokeStep DEF TypeOK, Known
  <2>6. CASE session[s].active /\ ~Rejected(session[s], job[w].clock)
    <3> DEFINE a == user[session[s].user]
               j == [job[w] EXCEPT !.at = "rotating", !.account = a]
    <3>1. a \in Accounts
      BY <2>2 DEF SessionsOK, TypeOK, Known, Rows
    <3>2. j \in Jobs /\ j.at = "rotating" /\ j.session = s /\ j.clock = job[w].clock
          /\ j.account = a
      BY <1>0, <2>1, <3>1 DEF Jobs
    <3>3. job' = [job EXCEPT ![w] = j] /\ UNCHANGED session
      BY <1>2, <2>1, <2>6 DEF RefreshRead
    <3>4. job[w].clock + AccessTTL < session[s].expires
      BY <1>0, <2>2, <2>6, AuthAssumption DEF Rejected, Jobs, Rows
    <3> HIDE DEF j
    <3>5. Fit(j)
      BY <2>2, <2>6, <3>1, <3>2, <3>4 DEF Fit, Active
    <3>6. \A v \in Workers \ {w} : Compatible(job[v], j) /\ Compatible(j, job[v])
      BY <2>2, <3>2 DEF Compatible, SessionFree, HoldsSession
    <3> QED
      BY <1>0, <2>2, <2>3, <3>2, <3>3, <3>5, <3>6, JobStep
  <2> QED
    BY <2>4, <2>5, <2>6
<1>3. CASE SweepFamily(w)
  <2>1. /\ session' = Revoked(job[w].victims) /\ job' = [job EXCEPT ![w] = Idle]
        /\ UNCHANGED <<now, user, credential>> /\ VictimsFree(w)
    BY <1>3 DEF SweepFamily, End
  <2>2. PICK S \in SUBSET Sessions : S = job[w].victims
    BY <1>0 DEF Jobs
  <2>3. ASSUME NEW v \in Workers, job'[v].at = "rotating" PROVE job'[v].session \notin S
    <3>1. v # w /\ job'[v] = job[v]
      BY <2>1, <2>3, IdleJob DEF TypeOK
    <3> QED
      BY <2>1, <2>2, <2>3, <3>1 DEF VictimsFree, HoldsSession
  <2> QED
    BY <2>1, <2>2, <2>3, RevokeStep DEF TypeOK, Known
<1>4. ASSUME NEW r \in Sessions, Rotate(w, r) PROVE IInv'
  BY <1>4, RotateStep
<1> QED
  BY <1>1, <1>2, <1>3, <1>4

\* The steps of an access change.
LEMMA AccessSteps ==
  ASSUME IInv, NEW w \in Workers,
         \/ \E m, u \in Users, role \in Roles, status \in {"active", "disabled"} :
                ChangeAccess(w, m, u, role, status)
         \/ CommitAccess(w)
  PROVE  IInv'
<1> USE DEF IInv
<1>0. /\ job[w] \in Jobs /\ Fit(job[w]) /\ (\A v \in Workers : job[v] \in Jobs /\ Fit(job[v]))
      /\ credential \in [Users -> Credentials] /\ now \in Nat
  BY DEF TypeOK, JobsOK
<1>1. ASSUME NEW m \in Users, NEW u \in Users, NEW role \in Roles,
             NEW status \in {"active", "disabled"}, ChangeAccess(w, m, u, role, status)
      PROVE  IInv'
  <2> DEFINE a == [role |-> role, status |-> status, changes |-> user[u].changes + 1]
             j == [Idle EXCEPT !.at = "revoking", !.user = u, !.victims = UserSessions(u),
                               !.account = a]
  <2>1. user[u] \in Accounts /\ Known(u) /\ ActiveAdmin(m) /\ AdminLockFree
        /\ Permitted(m, u, role, status)
    BY <1>1 DEF ChangeAccess, Known, TypeOK
  <2>2. a \in Accounts /\ UserSessions(u) \subseteq Sessions
    BY <2>1 DEF Accounts, UserSessions
  <2>3. j \in Jobs /\ j.at = "revoking" /\ j.user = u /\ j.victims = UserSessions(u)
        /\ j.account = a
    BY <2>2 DEF Idle, Jobs
  <2>4. job' = [job EXCEPT ![w] = j] /\ UNCHANGED <<now, user, session, credential>>
    BY <1>1 DEF ChangeAccess
  <2> HIDE DEF j
  <2>5. (a.role = "admin" /\ a.status = "active") \/ \E k \in Users \ {u} : ActiveAdmin(k)
    BY <2>1 DEF Permitted
  <2>6. Fit(j)
    BY <2>1, <2>2, <2>3, <2>5 DEF Fit
  <2>7. \A v \in Workers \ {w} : Compatible(job[v], j) /\ Compatible(j, job[v])
    BY <2>1, <2>3 DEF Compatible, AdminLockFree
  <2>8. \A v \in Workers : job'[v].at = "verifying" =>
             credential'[job'[v].user] = credential[job'[v].user]
    BY <2>4
  <2> QED
    BY <1>0, <2>3, <2>4, <2>6, <2>7, <2>8, JobStep
<1>2. CASE CommitAccess(w)
  <2>1. PICK u \in Users, S \in SUBSET Sessions : u = job[w].user /\ S = job[w].victims
    BY <1>0, <1>2 DEF CommitAccess, Fit, Jobs
  <2>2. PICK a \in Accounts : a = job[w].account
    BY <1>0, <1>2 DEF CommitAccess, Fit
  <2>3. /\ job[w].at = "revoking" /\ VictimsFree(w) /\ Known(u) /\ UserSessions(u) \subseteq S
        /\ user' = [user EXCEPT ![u] = a] /\ session' = Revoked(S)
        /\ job' = [job EXCEPT ![w] = Idle] /\ UNCHANGED <<now, credential>>
    BY <1>0, <1>2, <2>1, <2>2 DEF CommitAccess, End, Fit
  <2>4. /\ user' \in [Users -> Accounts \cup {None}]
        /\ \A v \in Users : Known(v) => Known(v)'
    BY <2>3, NoneAssumption DEF TypeOK, Known
  <2>5. ASSUME NEW q \in Sessions, Active(q), q \notin S
        PROVE  user'[session[q].user] = user[session[q].user]
    <3>1. session[q].user \in Users /\ session[q].user # u
      BY <2>3, <2>5, NoneAssumption DEF Active, Exists, TypeOK, Rows, UserSessions
    <3> QED
      BY <2>3, <3>1 DEF TypeOK
  <2>6. ASSUME NEW v \in Workers
        PROVE  /\ job'[v].at = "rotating" => job'[v].session \notin S
               /\ job'[v].at # "revoking"
    <3>1. CASE v = w
      BY <2>3, <3>1, IdleJob DEF TypeOK
    <3>2. CASE v # w
      <4>1. job'[v] = job[v] /\ job[v].at # "revoking"
        BY <2>3, <3>2 DEF TypeOK, JobsOK, Compatible
      <4> QED
        BY <2>1, <2>3, <3>2, <4>1 DEF VictimsFree, HoldsSession
    <3> QED
      BY <3>1, <3>2
  <2> QED
    BY <2>3, <2>4, <2>5, <2>6, RevokeStep
<1> QED
  BY <1>1, <1>2

\* The steps of no transaction in particular, and a transaction lost.
LEMMA OtherSteps ==
  ASSUME IInv,
         \/ \E w \in Workers : RollBack(w)
         \/ \E u \in Users : Provision(u)
         \/ \E u \in Users, s \in Sessions : Register(u, s)
         \/ \E s \in Sessions : Logout(s)
         \/ Tick
  PROVE  IInv'
<1> USE DEF IInv
<1>1. ASSUME NEW w \in Workers, RollBack(w) PROVE IInv'
  <2>1. job' = [job EXCEPT ![w] = Idle] /\ UNCHANGED <<now, user, session, credential>>
    BY <1>1 DEF RollBack, End
  <2>2. \A v \in Workers : Compatible(job[v], Idle) /\ Compatible(Idle, job[v])
    BY IdleJob DEF Compatible
  <2>3. \A v \in Workers : job'[v].at = "verifying" =>
             credential'[job'[v].user] = credential[job'[v].user]
    BY <2>1
  <2> QED
    BY <2>1, <2>2, <2>3, IdleJob, JobStep DEF TypeOK
<1>2. ASSUME NEW u \in Users, Provision(u) PROVE IInv'
  <2>1. [role |-> "admin", status |-> "active", changes |-> 0] \in Accounts
    BY AuthAssumption DEF Accounts
  <2>2. user' \in [Users -> Accounts \cup {None}] /\ \A v \in Users : Known(v) => user'[v] = user[v]
    BY <1>2, <2>1 DEF Provision, TypeOK, Known
  <2> QED
    BY <1>2, <2>2, UserStep DEF Provision, TypeOK
<1>3. ASSUME NEW u \in Users, NEW s \in Sessions, Register(u, s) PROVE IInv'
  <2> DEFINE a == [role |-> "customer", status |-> "active", changes |-> 0]
             x == NewRow(u, s, now + RefreshTTL, now, a)
  <2>1. a \in Accounts
    BY AuthAssumption DEF Accounts
  <2>2. x \in Rows /\ x.user = u /\ x.family = s /\ x.access < x.expires
    BY <2>1, AuthAssumption DEF NewRow, Rows, TypeOK
  <2>3. /\ user' = [user EXCEPT ![u] = a] /\ session' = [session EXCEPT ![s] = x]
        /\ ~Known(u) /\ ~Exists(s) /\ UNCHANGED <<now, credential, job>>
    BY <1>3 DEF Register
  <2> HIDE DEF x
  <2>4. /\ user' \in [Users -> Accounts \cup {None}] /\ Known(u)'
        /\ \A v \in Users : Known(v) => user'[v] = user[v]
    BY <2>1, <2>3, NoneAssumption DEF TypeOK, Known
  <2>5. \A v \in Workers : job'[v].at = "revoking" => job'[v].user # u
    BY <2>3 DEF JobsOK, Fit
  <2>6. \A v \in Workers : job'[v].at = "verifying" =>
             credential'[job'[v].user] = credential[job'[v].user]
    BY <2>3
  <2> QED
    BY <2>2, <2>3, <2>4, <2>5, <2>6, AddStep DEF TypeOK
<1>4. ASSUME NEW s \in Sessions, Logout(s) PROVE IInv'
  <2>1. /\ session' = Revoked({s}) /\ SessionFree(s) /\ UNCHANGED <<now, user, credential, job>>
    BY <1>4 DEF Logout
  <2>2. \A v \in Workers : job'[v].at = "rotating" => job'[v].session \notin {s}
    BY <2>1 DEF SessionFree, HoldsSession
  <2> QED
    BY <2>1, <2>2, RevokeStep DEF TypeOK, Known
<1>5. CASE Tick
  BY <1>5, UserStep DEF Tick, TypeOK
<1> QED
  BY <1>1, <1>2, <1>3, <1>4, <1>5

LEMMA Inductive == IInv /\ [Next]_vars => IInv'
<1> SUFFICES ASSUME IInv, [Next]_vars PROVE IInv'
  OBVIOUS
<1>1. CASE UNCHANGED vars
  BY <1>1, UserStep DEF vars, IInv, TypeOK
<1>2. CASE Next
  BY <1>2, LoginSteps, RefreshSteps, AccessSteps, OtherSteps
     DEF Next, Opening, Locking, Finishing
<1> QED
  BY <1>1, <1>2

LEMMA Invariance == Spec => []IInv
BY Initially, Inductive, PTL DEF Spec

-----------------------------------------------------------------------------
(* What holds of every behaviour.                                          *)

\* Rows, credentials and transactions are what their types say.
THEOREM TypeCorrect == Spec => []TypeOK
<1>1. IInv => TypeOK
  BY DEF IInv
<1> QED
  BY <1>1, Invariance, PTL

\* A login has at most one usable refresh token, however many refreshes,
\* replays and logouts of its tokens race.
THEOREM OneTokenPerLogin == Spec => []OneActivePerFamily
<1>1. IInv => OneActivePerFamily
  BY DEF IInv, SessionsOK
<1> QED
  BY <1>1, Invariance, PTL

\* Refreshing does not extend a login, and no access token outlives it.
THEOREM ExpiryKept == Spec => []FamilyExpiryKept
<1>1. IInv => FamilyExpiryKept
  BY DEF IInv, SessionsOK
<1> QED
  BY <1>1, Invariance, PTL

\* A session made by a refresh does not escape an access change of its user.
THEOREM RotationsUnderCurrentAccess == Spec => []RotatedUnderCurrentAccess
<1>1. IInv => RotatedUnderCurrentAccess
  BY DEF IInv, SessionsOK
<1> QED
  BY <1>1, Invariance, PTL

\* No wrong password is lost between concurrent logins of a user.
THEOREM AttemptsAllCounted == Spec => []AttemptsCounted
<1>1. IInv => AttemptsCounted
  BY DEF IInv, JobsOK, Fit, AttemptsCounted
<1> QED
  BY <1>1, Invariance, PTL

\* What a step does to the sessions.
LEMMA SessionSteps ==
  ASSUME IInv, Next
  PROVE  \/ session' = session
         \/ \E S \in SUBSET Sessions : session' = Revoked(S)
         \/ \E r \in Sessions, x \in Rows :
              ~Exists(r) /\ x.family = r /\ session' = [session EXCEPT ![r] = x]
         \/ \E r, s \in Sessions, x \in Rows :
              /\ ~Exists(r) /\ Active(s) /\ x.family = session[s].family
              /\ session' = [session EXCEPT ![r] = x, ![s].active = FALSE]
<1> USE DEF IInv
<1>1. ASSUME NEW w \in Workers, Opening(w) \/ RollBack(w) PROVE session' = session
  BY <1>1 DEF Opening, OpenLogin, OpenRefresh, ChangeAccess, RollBack
<1>2. ASSUME NEW w \in Workers, Locking(w)
      PROVE  session' = session \/ \E S \in SUBSET Sessions : session' = Revoked(S)
  <2>1. CASE LoginRead(w)
    BY <2>1 DEF LoginRead
  <2>2. CASE RefreshRead(w)
    <3>1. PICK s \in Sessions : s = job[w].session
      BY <2>2 DEF RefreshRead, JobsOK, Fit
    <3>2. Ending(s, job[w].clock) \subseteq Sessions
      BY DEF Ending, FamilySessions
    <3> QED
      BY <2>2, <3>1, <3>2 DEF RefreshRead
  <2> QED
    BY <1>2, <2>1, <2>2 DEF Locking
<1>3. ASSUME NEW w \in Workers, LoginMissed(w) \/ SweepFamily(w) \/ CommitAccess(w)
      PROVE  session' = session \/ \E S \in SUBSET Sessions : session' = Revoked(S)
  <2>1. job[w].victims \in SUBSET Sessions
    BY DEF TypeOK, Jobs
  <2> QED
    BY <1>3, <2>1 DEF LoginMissed, SweepFamily, CommitAccess
<1>4. ASSUME NEW w \in Workers, NEW r \in Sessions, LoginOpened(w, r)
      PROVE  \E x \in Rows : ~Exists(r) /\ x.family = r /\ session' = [session EXCEPT ![r] = x]
  <2> DEFINE x == NewRow(job[w].user, r, job[w].clock + RefreshTTL, job[w].clock, job[w].account)
  <2>1. /\ job[w].user \in Users /\ job[w].account \in Accounts /\ job[w].clock \in Nat
    BY <1>4 DEF LoginOpened, JobsOK, Fit, TypeOK, Jobs
  <2>2. x \in Rows /\ x.family = r
    BY <2>1, AuthAssumption DEF NewRow, Rows, Accounts
  <2>3. ~Exists(r) /\ session' = [session EXCEPT ![r] = x]
    BY <1>4 DEF LoginOpened
  <2> QED
    BY <2>2, <2>3
<1>5. ASSUME NEW w \in Workers, NEW r \in Sessions, Rotate(w, r)
      PROVE  \E s \in Sessions, x \in Rows :
               /\ ~Exists(r) /\ Active(s) /\ x.family = session[s].family
               /\ session' = [session EXCEPT ![r] = x, ![s].active = FALSE]
  <2>1. PICK s \in Sessions : s = job[w].session
    BY <1>5 DEF Rotate, JobsOK, Fit
  <2> DEFINE x == NewRow(session[s].user, session[s].family, session[s].expires,
                         job[w].clock, job[w].account)
  <2>2. Active(s) /\ session[s] \in Rows /\ job[w].account \in Accounts /\ job[w].clock \in Nat
    BY <1>5, <2>1 DEF Rotate, JobsOK, Fit, TypeOK, Jobs, Active, Exists
  <2>3. x \in Rows /\ x.family = session[s].family
    BY <2>2, AuthAssumption DEF NewRow, Rows, Accounts
  <2>4. ~Exists(r) /\ session' = [session EXCEPT ![r] = x, ![s].active = FALSE]
    BY <1>5, <2>1 DEF Rotate
  <2> QED
    BY <2>2, <2>3, <2>4
<1>6. ASSUME NEW u \in Users, NEW r \in Sessions, Register(u, r)
      PROVE  \E x \in Rows : ~Exists(r) /\ x.family = r /\ session' = [session EXCEPT ![r] = x]
  <2> DEFINE a == [role |-> "customer", status |-> "active", changes |-> 0]
             x == NewRow(u, r, now + RefreshTTL, now, a)
  <2>1. x \in Rows /\ x.family = r
    BY AuthAssumption DEF NewRow, Rows, TypeOK
  <2> QED
    BY <1>6, <2>1 DEF Register
<1>7. ASSUME NEW s \in Sessions, Logout(s)
      PROVE  \E S \in SUBSET Sessions : session' = Revoked(S)
  BY <1>7 DEF Logout
<1>8. \A u \in Users : Provision(u) => session' = session
  BY DEF Provision
<1>9. Tick => session' = session
  BY DEF Tick
<1>10. ASSUME NEW w \in Workers, Finishing(w)
       PROVE  \/ LoginMissed(w) \/ SweepFamily(w) \/ CommitAccess(w)
              \/ \E r \in Sessions : LoginOpened(w, r)
              \/ \E r \in Sessions : Rotate(w, r)
  BY <1>10 DEF Finishing
<1>11. CASE \E w \in Workers : Finishing(w)
  <2>1. PICK w \in Workers : Finishing(w)
    BY <1>11
  <2>2. CASE LoginMissed(w) \/ SweepFamily(w) \/ CommitAccess(w)
    BY <1>3, <2>2
  <2>3. CASE \E r \in Sessions : LoginOpened(w, r)
    BY <1>4, <2>3
  <2>4. CASE \E r \in Sessions : Rotate(w, r)
    BY <1>5, <2>4
  <2> QED
    BY <1>10, <2>1, <2>2, <2>3, <2>4
<1>12. CASE \E w \in Workers : Opening(w) \/ Locking(w) \/ RollBack(w)
  BY <1>1, <1>2, <1>12
<1>13. CASE \E u \in Users, s \in Sessions : Register(u, s)
  BY <1>6, <1>13
<1>14. CASE \E s \in Sessions : Logout(s)
  BY <1>7, <1>14
<1> QED
  BY <1>8, <1>9, <1>11, <1>12, <1>13, <1>14 DEF Next

\* No refresh under way revives a login that was ended meanwhile.
THEOREM EndedStays == Spec => EndedStaysEnded
<1>1. ASSUME IInv, [Next]_vars, NEW f \in Sessions, Ended(f) PROVE Ended(f)'
  <2> SUFFICES /\ Exists(f)'
               /\ \A q \in Sessions : ~(Active(q)' /\ session'[q].family = f)
    BY DEF Ended, FamilySessions, Active, Exists
  <2>0. Exists(f) /\ (\A q \in Sessions : ~(Active(q) /\ session[q].family = f)) /\ TypeOK
    BY <1>1 DEF Ended, FamilySessions, IInv
  <2>1. CASE session' = session
    BY <2>0, <2>1 DEF Active, Exists
  <2>2. ASSUME NEW S \in SUBSET Sessions, session' = Revoked(S)
        PROVE  Exists(f)' /\ \A q \in Sessions : ~(Active(q)' /\ session'[q].family = f)
    BY <2>0, <2>2, RevokedRows DEF Active
  <2>3. ASSUME NEW r \in Sessions, NEW x \in Rows, ~Exists(r), x.family = r,
               session' = [session EXCEPT ![r] = x]
        PROVE  Exists(f)' /\ \A q \in Sessions : ~(Active(q)' /\ session'[q].family = f)
    <3>1. f # r /\ session'[r] = x /\ \A q \in Sessions \ {r} : session'[q] = session[q]
      BY <2>0, <2>3 DEF TypeOK
    <3> QED
      BY <2>0, <2>3, <3>1 DEF Active, Exists
  <2>4. ASSUME NEW r \in Sessions, NEW s \in Sessions, NEW x \in Rows, ~Exists(r), Active(s),
               x.family = session[s].family,
               session' = [session EXCEPT ![r] = x, ![s].active = FALSE]
        PROVE  Exists(f)' /\ \A q \in Sessions : ~(Active(q)' /\ session'[q].family = f)
    <3>1. f # r /\ r # s /\ x.family # f
      BY <2>0, <2>4 DEF Active
    <3>2. session[s] \in Rows /\ [session[s] EXCEPT !.active = FALSE] \in Rows
      BY <2>0, <2>4 DEF TypeOK, Active, Exists, Rows
    <3>3. /\ session'[r] = x /\ session'[s] = [session[s] EXCEPT !.active = FALSE]
          /\ \A q \in Sessions \ {r, s} : session'[q] = session[q]
      BY <2>0, <2>4, <3>1, <3>2 DEF TypeOK
    <3>4. ~session'[s].active /\ session'[s] # None
      BY <3>2, <3>3, NoneAssumption DEF Rows
    <3>5. Exists(f)'
      BY <2>0, <3>1, <3>3, <3>4 DEF Exists
    <3>6. ASSUME NEW q \in Sessions PROVE ~(Active(q)' /\ session'[q].family = f)
      <4>1. CASE q = r
        BY <3>1, <3>3, <4>1
      <4>2. CASE q = s
        BY <3>4, <4>2 DEF Active
      <4>3. CASE q \notin {r, s}
        BY <2>0, <3>3, <4>3 DEF Active, Exists
      <4> QED
        BY <4>1, <4>2, <4>3
    <3> QED
      BY <3>5, <3>6
  <2>5. CASE Next
    BY <1>1, <2>1, <2>2, <2>3, <2>4, <2>5, SessionSteps
  <2> QED
    BY <1>1, <2>1, <2>5 DEF vars
<1>2. IInv /\ [Next]_vars => \A f \in Sessions : Ended(f) => Ended(f)'
  BY <1>1
<1> QED
  BY <1>2, Invariance, PTL DEF Spec, EndedStaysEnded

\* Accounts change by registration, by provisioning and by the commit of an
\* access change only.
LEMMA OnlyThreeChangeUsers ==
    ASSUME [Next]_vars
    PROVE  \/ user' = user
           \/ \E u \in Users, s \in Sessions : Register(u, s)
           \/ \E u \in Users : Provision(u)
           \/ \E w \in Workers : CommitAccess(w)
<1>1. ASSUME NEW w \in Workers, Opening(w) PROVE user' = user
  <2>1. ASSUME NEW u \in Users, OpenLogin(w, u) PROVE user' = user
    BY <2>1 DEF OpenLogin
  <2>2. ASSUME NEW s \in Sessions, OpenRefresh(w, s) PROVE user' = user
    BY <2>2 DEF OpenRefresh
  <2>3. ASSUME NEW m \in Users, NEW u \in Users, NEW role \in Roles,
               NEW status \in {"active", "disabled"}, ChangeAccess(w, m, u, role, status)
        PROVE  user' = user
    BY <2>3 DEF ChangeAccess
  <2> QED
    BY <1>1, <2>1, <2>2, <2>3 DEF Opening
<1>2. ASSUME NEW w \in Workers, Locking(w) PROVE user' = user
  <2>1. CASE LoginRead(w)
    BY <2>1 DEF LoginRead
  <2>2. CASE RefreshRead(w)
    BY <2>2 DEF RefreshRead
  <2> QED
    BY <1>2, <2>1, <2>2 DEF Locking
<1>3. ASSUME NEW w \in Workers, Finishing(w) PROVE user' = user \/ CommitAccess(w)
  <2>1. CASE LoginMissed(w)
    BY <2>1 DEF LoginMissed
  <2>2. CASE SweepFamily(w)
    BY <2>2 DEF SweepFamily
  <2>3. ASSUME NEW s \in Sessions, LoginOpened(w, s) PROVE user' = user
    BY <2>3 DEF LoginOpened
  <2>4. ASSUME NEW s \in Sessions, Rotate(w, s) PROVE user' = user
    BY <2>4 DEF Rotate
  <2> QED
    BY <1>3, <2>1, <2>2, <2>3, <2>4 DEF Finishing
<1>4. ASSUME NEW w \in Workers, RollBack(w) PROVE user' = user
  BY <1>4 DEF RollBack
<1>5. ASSUME NEW s \in Sessions, Logout(s) PROVE user' = user
  BY <1>5 DEF Logout
<1>6. ASSUME Tick PROVE user' = user
  BY <1>6 DEF Tick
<1>7. ASSUME UNCHANGED vars PROVE user' = user
  BY <1>7 DEF vars
<1> QED
  BY <1>1, <1>2, <1>3, <1>4, <1>5, <1>6, <1>7 DEF Next

\* Whatever administrators do to each other at once, one remains.
THEOREM AdministratorStays == Spec => AdministratorRemains
<1>1. ASSUME IInv, [Next]_vars, ActiveAdmins # {} PROVE ActiveAdmins' # {}
  <2>0. PICK m \in Users : ActiveAdmin(m)
    BY <1>1 DEF ActiveAdmins
  <2>1. SUFFICES \E k \in Users : user'[k] # None /\ user'[k].role = "admin"
                                  /\ user'[k].status = "active"
    BY DEF ActiveAdmins, ActiveAdmin, Known
  <2>2. CASE user' = user
    BY <2>0, <2>2 DEF ActiveAdmin, Known
  <2>3. ASSUME NEW u \in Users, NEW s \in Sessions, Register(u, s)
        PROVE  user'[m] = user[m]
    BY <1>1, <2>0, <2>3 DEF Register, ActiveAdmin, Known, IInv, TypeOK
  <2>4. ASSUME NEW u \in Users, Provision(u) PROVE user'[m] = user[m]
    BY <1>1, <2>0, <2>4 DEF Provision, ActiveAdmin, Known, IInv, TypeOK
  <2>5. ASSUME NEW w \in Workers, CommitAccess(w)
        PROVE  \E k \in Users : user'[k] # None /\ user'[k].role = "admin"
                                /\ user'[k].status = "active"
    <3>1. PICK u \in Users, a \in Accounts : u = job[w].user /\ a = job[w].account
      BY <1>1, <2>5 DEF CommitAccess, IInv, JobsOK, Fit
    <3>2. /\ user' = [user EXCEPT ![u] = a]
          /\ (a.role = "admin" /\ a.status = "active") \/ \E k \in Users \ {u} : ActiveAdmin(k)
      BY <1>1, <2>5, <3>1 DEF CommitAccess, IInv, JobsOK, Fit
    <3>3. a # None /\ user'[u] = a /\ \A k \in Users \ {u} : user'[k] = user[k]
      BY <1>1, <3>2, NoneAssumption DEF IInv, TypeOK
    <3>4. CASE a.role = "admin" /\ a.status = "active"
      BY <3>3, <3>4
    <3>5. CASE \E k \in Users \ {u} : ActiveAdmin(k)
      BY <3>3, <3>5 DEF ActiveAdmin, Known
    <3> QED
      BY <3>2, <3>4, <3>5
  <2>6. \/ user' = user
        \/ \E u \in Users, s \in Sessions : Register(u, s)
        \/ \E u \in Users : Provision(u)
        \/ \E w \in Workers : CommitAccess(w)
    BY <1>1, OnlyThreeChangeUsers
  <2> QED
    BY <2>0, <2>2, <2>3, <2>4, <2>5, <2>6 DEF ActiveAdmin, Known
<1>2. IInv /\ [Next]_vars => (ActiveAdmins # {} => ActiveAdmins' # {})
  BY <1>1
<1> QED
  BY <1>2, Invariance, PTL DEF Spec, AdministratorRemains

-----------------------------------------------------------------------------
(* Waiting in a circle.                                                    *)

\* A replay holds a used token and waits for usable ones: whoever holds one
\* of these began to sweep later, so replays cannot wait in a circle.
SweepsEnd ==
    \A S \in SUBSET Workers :
        S # {} /\ (\A w \in S : job[w].at = "sweeping") =>
            \E w \in S : \A v \in S \ {w} : job[v].session \notin job[w].victims

WaitInv ==
    /\ \A w \in Workers : job[w].victims # {} => job[w].at \in {"sweeping", "revoking"}
    /\ \A w \in Workers : job[w].at = "sweeping" => ~Active(job[w].session)
    /\ SweepsEnd

\* A used or revoked token is never usable again.
LEMMA UsedStaysUsed ==
  ASSUME IInv, [Next]_vars, NEW q \in Sessions, Exists(q), ~Active(q)
  PROVE  Exists(q)' /\ ~Active(q)'
<1>0. TypeOK
  BY DEF IInv
<1>1. CASE session' = session
  BY <1>1 DEF Active, Exists
<1>2. ASSUME NEW S \in SUBSET Sessions, session' = Revoked(S) PROVE Exists(q)' /\ ~Active(q)'
  BY <1>0, <1>2, RevokedRows
<1>3. ASSUME NEW r \in Sessions, NEW x \in Rows, ~Exists(r), session' = [session EXCEPT ![r] = x]
      PROVE  Exists(q)' /\ ~Active(q)'
  <2>1. session'[q] = session[q]
    BY <1>0, <1>3 DEF TypeOK
  <2> QED
    BY <2>1 DEF Active, Exists
<1>4. ASSUME NEW r \in Sessions, NEW s \in Sessions, NEW x \in Rows, ~Exists(r), Active(s),
             session' = [session EXCEPT ![r] = x, ![s].active = FALSE]
      PROVE  Exists(q)' /\ ~Active(q)'
  <2>1. q # r /\ q # s
    BY <1>4
  <2>2. session'[q] = session[q]
    BY <1>0, <1>4, <2>1 DEF TypeOK
  <2> QED
    BY <2>2 DEF Active, Exists
<1>5. CASE Next
  BY <1>1, <1>2, <1>3, <1>4, <1>5, SessionSteps
<1> QED
  BY <1>1, <1>5 DEF vars

\* A step in which no transaction begins to sweep.
LEMMA NoSweepBegins ==
  ASSUME IInv, WaitInv, [Next]_vars,
         \A v \in Workers : \/ job'[v] = job[v]
                            \/ /\ job'[v].at # "sweeping"
                               /\ job'[v].victims # {} => job'[v].at = "revoking"
  PROVE  WaitInv'
<1>1. ASSUME NEW w \in Workers, job'[w].at = "sweeping" PROVE ~Active(job[w].session)'
  <2>1. job'[w] = job[w] /\ job[w].session \in Sessions /\ Exists(job[w].session)
    BY <1>1 DEF IInv, JobsOK, Fit
  <2>2. ~Active(job[w].session)
    BY <1>1, <2>1 DEF WaitInv
  <2> DEFINE q == job[w].session
  <2>3. \A r \in Sessions : r = q => ~(session'[r] # None /\ session'[r].active)
    BY <2>1, <2>2, UsedStaysUsed DEF Active, Exists
  <2> QED
    BY <2>1, <2>3 DEF Active, Exists
<1>2. ASSUME NEW S \in SUBSET Workers, S # {}, \A w \in S : job'[w].at = "sweeping"
      PROVE  \E w \in S : \A v \in S \ {w} : job'[v].session \notin job'[w].victims
  <2>1. \A w \in S : job'[w] = job[w]
    BY <1>2
  <2> QED
    BY <1>2, <2>1 DEF WaitInv, SweepsEnd
<1>3. ASSUME NEW w \in Workers, job'[w].victims # {}
      PROVE  job'[w].at \in {"sweeping", "revoking"}
  BY <1>3 DEF WaitInv
<1>4. SweepsEnd'
  BY <1>2 DEF SweepsEnd
<1> QED
  BY <1>1, <1>3, <1>4 DEF WaitInv

\* A replay that begins waits for usable tokens, which no replay holds.
LEMMA SweepBegins ==
  ASSUME IInv, WaitInv, NEW w \in Workers, job[w].at = "refreshing", ~Active(job[w].session),
         job' = [job EXCEPT ![w].at = "sweeping",
                            ![w].victims = FamilySessions(session[job[w].session].family)],
         session' = session
  PROVE  WaitInv'
<1> DEFINE F == FamilySessions(session[job[w].session].family)
<1>1. /\ job'[w].at = "sweeping" /\ job'[w].victims = F /\ job'[w].session = job[w].session
      /\ \A v \in Workers \ {w} : job'[v] = job[v]
  BY DEF IInv, TypeOK, Jobs
<1>2. \A q \in F : Active(q)
  BY DEF FamilySessions
<1> HIDE DEF F
<1>3. \A v \in Workers : job'[v].at = "sweeping" => ~Active(job'[v].session)
  BY <1>1 DEF WaitInv
<1>4. ASSUME NEW S \in SUBSET Workers, S # {}, \A v \in S : job'[v].at = "sweeping"
      PROVE  \E u \in S : \A v \in S \ {u} : job'[v].session \notin job'[u].victims
  <2>1. CASE w \in S
    BY <1>1, <1>2, <1>3, <1>4, <2>1
  <2>2. CASE w \notin S
    <3>1. \A v \in S : job'[v] = job[v]
      BY <1>1, <2>2
    <3>2. \A v \in S : job[v].at = "sweeping"
      BY <1>4, <3>1
    <3>3. PICK u \in S : \A v \in S \ {u} : job[v].session \notin job[u].victims
      BY <1>4, <3>2 DEF WaitInv, SweepsEnd
    <3> QED
      BY <3>1, <3>3
  <2> QED
    BY <2>1, <2>2
<1>5. \A v \in Workers : job'[v].victims # {} => job'[v].at \in {"sweeping", "revoking"}
  BY <1>1 DEF WaitInv
<1>6. SweepsEnd'
  BY <1>4 DEF SweepsEnd
<1>7. \A v \in Workers : job'[v].at = "sweeping" => ~Active(job[v].session)'
  BY <1>3 DEF Active, Exists
<1> QED
  BY <1>5, <1>6, <1>7 DEF WaitInv

\* What a step makes of the transactions.
LEMMA StepWaitInv ==
  ASSUME IInv, WaitInv, [Next]_vars
  PROVE  WaitInv'
<1> DEFINE Quiet(v) == \/ job'[v] = job[v]
                       \/ /\ job'[v].at # "sweeping"
                          /\ job'[v].victims # {} => job'[v].at = "revoking"
<1>0. job \in [Workers -> Jobs]
  BY DEF IInv, TypeOK
<1>1. CASE job' = job
  BY <1>1, NoSweepBegins
<1>2. ASSUME NEW w \in Workers, job' = [job EXCEPT ![w] = Idle] PROVE WaitInv'
  <2>1. Idle.at = "idle" /\ Idle.victims = {}
    BY DEF Idle
  <2>2. \A v \in Workers : Quiet(v)
    BY <1>0, <1>2, <2>1
  <2> QED
    BY <2>2, NoSweepBegins
<1>3. ASSUME NEW w \in Workers, Opening(w) PROVE WaitInv'
  <2>1. \/ job' = [job EXCEPT ![w] = job'[w]] /\ job'[w].at \in {"login", "refreshing"}
           /\ job'[w].victims = {}
        \/ job' = [job EXCEPT ![w] = job'[w]] /\ job'[w].at = "revoking"
    <3>1. ASSUME NEW u \in Users, OpenLogin(w, u)
          PROVE  /\ job' = [job EXCEPT ![w] = job'[w]] /\ job'[w].at = "login"
                 /\ job'[w].victims = {}
      BY <1>0, <3>1 DEF OpenLogin, Idle
    <3>2. ASSUME NEW s \in Sessions, OpenRefresh(w, s)
          PROVE  /\ job' = [job EXCEPT ![w] = job'[w]] /\ job'[w].at = "refreshing"
                 /\ job'[w].victims = {}
      BY <1>0, <3>2 DEF OpenRefresh, Idle
    <3>3. ASSUME NEW m \in Users, NEW u \in Users, NEW role \in Roles,
                 NEW status \in {"active", "disabled"}, ChangeAccess(w, m, u, role, status)
          PROVE  job' = [job EXCEPT ![w] = job'[w]] /\ job'[w].at = "revoking"
      BY <1>0, <3>3 DEF ChangeAccess, Idle
    <3> QED
      BY <1>3, <3>1, <3>2, <3>3 DEF Opening
  <2>2. \A v \in Workers : Quiet(v)
    BY <1>0, <2>1
  <2> QED
    BY <2>2, NoSweepBegins
<1>4. ASSUME NEW w \in Workers, LoginRead(w) PROVE WaitInv'
  <2>1. CASE job' = [job EXCEPT ![w] = Idle]
    BY <1>2, <2>1
  <2>2. CASE job' = [job EXCEPT ![w].at = "verifying", ![w].account = user[job[w].user],
                                ![w].credential = credential[job[w].user]]
    <3>1. job[w].victims = {}
      BY <1>4 DEF LoginRead, WaitInv
    <3>2. /\ job'[w].at = "verifying" /\ job'[w].victims = {}
          /\ \A v \in Workers \ {w} : job'[v] = job[v]
      BY <1>0, <2>2, <3>1 DEF Jobs
    <3>3. \A v \in Workers : Quiet(v)
      BY <3>2
    <3> QED
      BY <3>3, NoSweepBegins
  <2> QED
    BY <1>4, <2>1, <2>2 DEF LoginRead, End
<1>5. ASSUME NEW w \in Workers, RefreshRead(w) PROVE WaitInv'
  <2> DEFINE s == job[w].session
  <2>1. job[w].at = "refreshing" /\ s \in Sessions /\ Exists(s)
    BY <1>5 DEF RefreshRead, IInv, JobsOK, Fit
  <2>2. CASE /\ ~session[s].active /\ session' = session
             /\ job' = [job EXCEPT ![w].at = "sweeping",
                                   ![w].victims = FamilySessions(session[s].family)]
    <3>1. ~Active(s)
      BY <2>2 DEF Active
    <3> QED
      BY <2>1, <2>2, <3>1, SweepBegins
  <2>3. CASE job' = [job EXCEPT ![w] = Idle]
    BY <1>2, <2>3
  <2>4. CASE job' = [job EXCEPT ![w].at = "rotating", ![w].account = user[session[s].user]]
    <3>1. job[w].victims = {}
      BY <2>1 DEF WaitInv
    <3>2. /\ job'[w].at = "rotating" /\ job'[w].victims = {}
          /\ \A v \in Workers \ {w} : job'[v] = job[v]
      BY <1>0, <2>4, <3>1 DEF Jobs
    <3>3. \A v \in Workers : Quiet(v)
      BY <3>2
    <3> QED
      BY <3>3, NoSweepBegins
  <2> QED
    BY <1>5, <2>2, <2>3, <2>4 DEF RefreshRead, End
<1>6. ASSUME NEW w \in Workers, Finishing(w) \/ RollBack(w) PROVE WaitInv'
  BY <1>2, <1>6 DEF Finishing, RollBack, LoginMissed, SweepFamily, CommitAccess, LoginOpened,
                    Rotate, End
<1>7. CASE Next
  <2>1. \/ \E w \in Workers : Opening(w) \/ Locking(w) \/ Finishing(w) \/ RollBack(w)
        \/ job' = job
    BY <1>7 DEF Next, Provision, Register, Logout, Tick
  <2> QED
    BY <1>1, <1>3, <1>4, <1>5, <1>6, <2>1 DEF Locking
<1> QED
  BY <1>1, <1>7 DEF vars

\* Transactions that wait in a circle without an access change: none of them
\* verifies or rotates, so all wait for sessions that replays hold, and the
\* one of these that SweepsEnd names waits for none of them.
LEMMA NoCircle == IInv /\ WaitInv => OnlyAccessChangesDeadlock
<1> SUFFICES ASSUME IInv, WaitInv, NEW S \in SUBSET Workers, S # {},
                    \A w \in S : \E v \in S : Blocks(v, w),
                    \A w \in S : job[w].at # "revoking"
             PROVE  FALSE
  BY DEF OnlyAccessChangesDeadlock
<1>1. \A w \in S : job[w].at # "sweeping" => job[w].victims = {}
  BY DEF WaitInv
<1>2. \A w \in S : job[w].at \notin {"idle", "verifying", "rotating"}
  <2> SUFFICES ASSUME NEW w \in S, job[w].at \in {"idle", "verifying", "rotating"} PROVE FALSE
    OBVIOUS
  <2>1. PICK v \in S : Blocks(v, w)
    OBVIOUS
  <2> QED
    BY <1>1, <2>1 DEF Blocks, HoldsUser
<1>3. \A w \in S : job[w].at # "login"
  <2> SUFFICES ASSUME NEW w \in S, job[w].at = "login" PROVE FALSE
    OBVIOUS
  <2>1. PICK v \in S : Blocks(v, w)
    OBVIOUS
  <2> QED
    BY <1>1, <1>2, <2>1 DEF Blocks, HoldsCredential
<1>4. \A w \in S : job[w].at \in {"refreshing", "sweeping"}
  BY <1>2, <1>3 DEF IInv, TypeOK, Jobs
<1>5. ASSUME NEW w \in S, NEW v \in S, Blocks(v, w)
      PROVE  /\ v # w /\ job[v].at = "sweeping"
             /\ job[w].at = "sweeping" => job[v].session \in job[w].victims
  BY <1>1, <1>4, <1>5 DEF Blocks, HoldsSession
<1> DEFINE Sweepers == {w \in S : job[w].at = "sweeping"}
<1>6. Sweepers # {} /\ Sweepers \in SUBSET Workers
  <2>1. PICK w \in S : TRUE
    OBVIOUS
  <2>2. PICK v \in S : Blocks(v, w)
    OBVIOUS
  <2> QED
    BY <1>5, <2>2
<1>7. PICK w \in Sweepers : \A v \in Sweepers \ {w} : job[v].session \notin job[w].victims
  BY <1>6 DEF WaitInv, SweepsEnd
<1>8. PICK v \in S : Blocks(v, w)
  BY <1>7
<1> QED
  BY <1>5, <1>7, <1>8

\* Only an access change can close a circle of waiting transactions.
THEOREM OnlyAccessChangesWait == Spec => []OnlyAccessChangesDeadlock
<1>1. Init => WaitInv
  <2> SUFFICES ASSUME Init PROVE WaitInv
    OBVIOUS
  <2>1. \A w \in Workers : job[w].at = "idle" /\ job[w].victims = {}
    BY DEF Init, Idle
  <2> QED
    BY <2>1 DEF WaitInv, SweepsEnd
<1>2. IInv /\ WaitInv /\ [Next]_vars => WaitInv'
  BY StepWaitInv
<1> QED
  BY <1>1, <1>2, NoCircle, Invariance, PTL DEF Spec
=============================================================================
