-------------------------- MODULE WebSessionProofs --------------------------
(***************************************************************************)
(* For any number of tabs, users, sessions, notices and lost answers: the  *)
(* browser's lock is returned, a used refresh token reaches the server     *)
(* only after an answer was lost, and a signed-in tab that heard every     *)
(* notice shows the user of the browser's current session.                 *)
(*                                                                         *)
(* The argument: a request in flight belongs to the holder of the lock,    *)
(* and from its sending on every other tab that shows a user has a notice  *)
(* to hear (QuietInv).  So the cookie changes only while nobody relies on  *)
(* it, and it is the cookie that a refresh presents (JobInv).              *)
(***************************************************************************)
EXTENDS WebSession, TLAPS

InFlight(t) == job[t].at \in {"sent", "answered"}

Known(s) == s = None \/ s \in DOMAIN session
Good(s) == s = None \/ session[s].active

\* What an active operation carries, and that it holds the lock when its
\* request is in flight; a disposed tab's operation is not current.
JobInv ==
    \A t \in Tabs :
        /\ job[t].at # "idle" => job[t].op \in Operations
        /\ job[t].at \in {"queued", "sent"} /\ job[t].op = "login" => job[t].user \in Users
        /\ job[t].at = "answered" => job[t].reply \in {"ok", "denied", "error"}
        /\ job[t].at = "answered" /\ job[t].reply = "ok" /\ job[t].op # "logout" =>
               job[t].session # None
        /\ job[t].at = "sent" /\ job[t].op = "refresh" => job[t].session = cookie
        /\ InFlight(t) => Holds(t)
        /\ tab[t].disposed => tab[t].phase # "authenticated" /\ (job[t].at = "idle" \/ ~job[t].current)

\* A request nobody waits for carries what it was sent with.
LateInv == \A j \in late : j.op = "login" => j.user \in Users

\* Every session that is named was opened, and a signed-in tab names one of
\* the user it shows.
KnownInv ==
    /\ Known(cookie)
    /\ \A j \in late : Known(j.session)
    /\ \A t \in Tabs :
          /\ Known(tab[t].token) /\ Known(job[t].session)
          /\ tab[t].phase = "authenticated" =>
                 tab[t].token # None /\ session[tab[t].token].user = tab[t].user

\* While a request is in flight, no tab shows a user without a notice to hear.
QuietInv ==
    \A t, u \in Tabs : InFlight(t) /\ tab[u].phase = "authenticated" =>
        u # t /\ notices[u] > 0

CookieInv ==
    \A t \in Tabs : tab[t].phase = "authenticated" /\ notices[t] = 0 => tab[t].token = cookie

\* Until an answer is lost, the cookie the browser has, or gets with the
\* answer that is under way, is one the server honours.
ActiveInv ==
    lost = 0 =>
        /\ late = {} /\ ~reused
        /\ \A t \in Tabs : job[t].at = "answered" => Good(Stored(job[t]))
        /\ (\A t \in Tabs : job[t].at # "answered") => Good(cookie)

IInv ==
    /\ TypeOK /\ LockIsReturned /\ DataIsShownUsers
    /\ JobInv /\ LateInv /\ KnownInv /\ QuietInv /\ CookieInv /\ ActiveInv
-----------------------------------------------------------------------------
(* The queue for the lock.                                                 *)

\* A tab that leaves takes its one place; the others keep their order, and
\* the holder, if another, keeps the lock.
LEMMA LeaveFacts ==
  ASSUME queue \in Seq(Tabs), IsInjective(queue), NEW t \in Tabs
  PROVE  /\ Leave(t) \in Seq(Tabs)
         /\ IsInjective(Leave(t))
         /\ ToSet(Leave(t)) = ToSet(queue) \ {t}
         /\ \A u \in Tabs \ {t} : Holds(u) => Leave(t) # <<>> /\ Head(Leave(t)) = u
<1>1. CASE t \notin ToSet(queue)
  BY <1>1 DEF Leave, Holds
<1>2. CASE t \in ToSet(queue)
  <2> DEFINE i == CHOOSE i \in DOMAIN queue : queue[i] = t
             n == Len(queue)
             rest == Leave(t)
             from(j) == IF j < i THEN j ELSE j + 1
  <2>1. i \in DOMAIN queue /\ queue[i] = t
    BY <1>2 DEF ToSet
  <2>2. n \in Nat /\ DOMAIN queue = 1 .. n /\ i \in 1 .. n /\ \A j \in 1 .. n : queue[j] \in Tabs
    BY <2>1
  <2>3. rest = SubSeq(queue, 1, i - 1) \o SubSeq(queue, i + 1, n)
    BY <1>2 DEF Leave, RemoveAt
  <2> HIDE DEF i, n, rest
  <2>4. /\ rest \in Seq(Tabs)
        /\ Len(rest) = n - 1
        /\ \A j \in 1 .. n - 1 : rest[j] = IF j < i THEN queue[j] ELSE queue[j + 1]
    <3>1. /\ SubSeq(queue, 1, i - 1) \in Seq(Tabs)
          /\ Len(SubSeq(queue, 1, i - 1)) = i - 1
          /\ \A j \in 1 .. i - 1 : SubSeq(queue, 1, i - 1)[j] = queue[j]
      BY <2>2
    <3>2. /\ SubSeq(queue, i + 1, n) \in Seq(Tabs)
          /\ Len(SubSeq(queue, i + 1, n)) = n - i
          /\ \A j \in 1 .. n - i : SubSeq(queue, i + 1, n)[j] = queue[j + i]
      BY <2>2
    <3> QED
      BY <2>2, <2>3, <3>1, <3>2
  <2>5. DOMAIN rest = 1 .. n - 1
    BY <2>2, <2>4
  <2>6. \A a, b \in 1 .. n : queue[a] = queue[b] => a = b
    BY <2>2 DEF IsInjective
  <2>7. \A j \in 1 .. n - 1 : from(j) \in 1 .. n /\ from(j) # i /\ rest[j] = queue[from(j)]
    BY <2>2, <2>4
  <2>8. \A a, b \in 1 .. n - 1 : from(a) = from(b) => a = b
    BY <2>2
  <2> HIDE DEF from
  <2>9. IsInjective(rest)
    <3> SUFFICES ASSUME NEW a \in 1 .. n - 1, NEW b \in 1 .. n - 1, rest[a] = rest[b]
                 PROVE  a = b
      BY <2>5 DEF IsInjective
    <3>1. queue[from(a)] = queue[from(b)] /\ from(a) \in 1 .. n /\ from(b) \in 1 .. n
      BY <2>7
    <3>2. from(a) = from(b)
      BY <2>6, <3>1
    <3> QED
      BY <2>8, <3>2
  <2>10. ToSet(rest) = ToSet(queue) \ {t}
    <3>1. ASSUME NEW j \in 1 .. n - 1
          PROVE  rest[j] \in ToSet(queue) \ {t}
      <4>1. from(j) \in 1 .. n /\ from(j) # i /\ rest[j] = queue[from(j)]
        BY <2>7
      <4>2. queue[from(j)] # t
        BY <2>1, <2>2, <2>6, <4>1
      <4> QED
        BY <2>2, <4>1, <4>2 DEF ToSet
    <3>2. ASSUME NEW j \in 1 .. n, queue[j] # t
          PROVE  queue[j] \in ToSet(rest)
      <4>1. CASE j < i
        <5>1. j \in DOMAIN rest /\ rest[j] = queue[j]
          BY <2>2, <2>4, <2>5, <4>1
        <5> QED
          BY <5>1 DEF ToSet
      <4>2. CASE j > i
        <5>1. j - 1 \in DOMAIN rest /\ rest[j - 1] = queue[j]
          BY <2>2, <2>4, <2>5, <4>2
        <5> QED
          BY <5>1 DEF ToSet
      <4> QED
        BY <2>1, <2>2, <3>2, <4>1, <4>2
    <3>3. ToSet(rest) = {rest[j] : j \in 1 .. n - 1}
      BY <2>5 DEF ToSet
    <3>4. ToSet(queue) = {queue[j] : j \in 1 .. n}
      BY <2>2 DEF ToSet
    <3> QED
      BY <3>1, <3>2, <3>3, <3>4
  <2>11. ASSUME NEW u \in Tabs \ {t}, Holds(u)
        PROVE  rest # <<>> /\ Head(rest) = u
    <3>1. queue[1] = u /\ n > 0
      BY <2>2, <2>11 DEF Holds, n
    <3>2. i > 1
      BY <2>1, <2>2, <2>11, <3>1
    <3> QED
      BY <2>2, <2>4, <3>1, <3>2
  <2> QED
    BY <2>4, <2>9, <2>10, <2>11 DEF rest
<1> QED
  BY <1>1, <1>2
-----------------------------------------------------------------------------
(* What the server does.                                                   *)

\* A refresh that presents a token already used.
Reuse(j) == j.op = "refresh" /\ j.session # None /\ ~session[j.session].active

\* The users of the sessions there are do not change.
UsersKept(rows) ==
    Len(session) <= Len(rows) /\ \A s \in DOMAIN session : rows[s].user = session[s].user

\* A new session follows those there are.
LEMMA OpeningFacts ==
  ASSUME NEW rows \in Seq(Rows), NEW u \in Users, NEW f \in Sessions
  PROVE  /\ Opening(rows, u, f) \in Seq(Rows)
         /\ Len(Opening(rows, u, f)) = Len(rows) + 1
         /\ Opening(rows, u, f)[Len(rows) + 1] = [user |-> u, family |-> f, active |-> TRUE]
         /\ \A s \in 1 .. Len(rows) : Opening(rows, u, f)[s] = rows[s]
<1>1. [user |-> u, family |-> f, active |-> TRUE] \in Rows
  BY DEF Rows
<1> QED
  BY <1>1 DEF Opening

\* Ending sessions changes nothing else.
LEMMA EndingFacts ==
  ASSUME session \in Seq(Rows)
  PROVE  /\ \A s \in DOMAIN session :
               LET rows == [session EXCEPT ![s].active = FALSE]
               IN  rows \in Seq(Rows) /\ Len(rows) = Len(session) /\ UsersKept(rows)
         /\ \A f \in Sessions :
               Ended(f) \in Seq(Rows) /\ Len(Ended(f)) = Len(session) /\ UsersKept(Ended(f))
<1>1. DOMAIN session = 1 .. Len(session) /\ Len(session) \in Nat
  OBVIOUS
<1>2. \A s \in DOMAIN session : session[s] \in Rows /\ [session[s] EXCEPT !.active = FALSE] \in Rows
  <2> TAKE s \in DOMAIN session
  <2>1. session[s] \in Rows
    OBVIOUS
  <2> QED
    BY <2>1 DEF Rows
<1>3. ASSUME NEW s \in DOMAIN session
      PROVE  LET rows == [session EXCEPT ![s].active = FALSE]
             IN  rows \in Seq(Rows) /\ Len(rows) = Len(session) /\ UsersKept(rows)
  <2> DEFINE rows == [session EXCEPT ![s].active = FALSE]
  <2>1. /\ DOMAIN rows = 1 .. Len(session)
        /\ \A i \in 1 .. Len(session) :
              rows[i] = IF i = s THEN [session[i] EXCEPT !.active = FALSE] ELSE session[i]
    BY <1>1
  <2>2. rows \in Seq(Rows) /\ Len(rows) = Len(session)
    <3>1. rows \in [1 .. Len(session) -> Rows]
      BY <1>1, <1>2
    <3> QED
      BY <1>1, <3>1
  <2>3. \A i \in 1 .. Len(session) : rows[i].user = session[i].user
    BY <1>1, <1>2, <2>1 DEF Rows
  <2> QED
    BY <1>1, <2>2, <2>3 DEF UsersKept
<1>4. ASSUME NEW f \in Sessions
      PROVE  Ended(f) \in Seq(Rows) /\ Len(Ended(f)) = Len(session) /\ UsersKept(Ended(f))
  <2>1. /\ DOMAIN Ended(f) = 1 .. Len(session)
        /\ \A i \in 1 .. Len(session) :
              Ended(f)[i] = IF session[i].family = f THEN [session[i] EXCEPT !.active = FALSE]
                            ELSE session[i]
    BY <1>1 DEF Ended
  <2>2. Ended(f) \in Seq(Rows) /\ Len(Ended(f)) = Len(session)
    <3>1. Ended(f) \in [1 .. Len(session) -> Rows]
      BY <1>1, <1>2 DEF Ended
    <3> QED
      BY <1>1, <3>1
  <2>3. \A i \in 1 .. Len(session) : Ended(f)[i].user = session[i].user
    BY <1>1, <1>2, <2>1 DEF Rows
  <2> QED
    BY <1>1, <2>2, <2>3 DEF UsersKept
<1> QED
  BY <1>3, <1>4

\* Every answer is typed and leaves typed sessions with the users they had; a
\* successful login or refresh names a session that is honoured; sessions end
\* only by a success or by a token presented twice, which alone is noted.
LEMMA EffectFacts ==
  ASSUME TypeOK, NEW j \in Jobs, Known(j.session), j.op = "login" => j.user \in Users,
         NEW a \in Effects(j)
  PROVE  /\ a.rows \in Seq(Rows) /\ Len(a.rows) <= MaxSessions /\ UsersKept(a.rows)
         /\ a.session = None \/ a.session \in DOMAIN a.rows
         /\ a.session \in Sessions \cup {None}
         /\ a.reply \in {"ok", "denied", "error"}
         /\ a.reply = "ok" /\ j.op # "logout" =>
                a.session # None /\ a.rows[a.session].active
         /\ a.reused \in BOOLEAN
         /\ ~Reuse(j) => a.reused = reused /\ (a.reply = "ok" \/ a.rows = session)
<1> DEFINE n == Len(session)
           New == n + 1
           Answer(reply, s, rows, seen) ==
               [reply |-> reply, session |-> s, rows |-> rows, reused |-> seen]
<1>0. /\ session \in Seq(Rows) /\ n \in Nat /\ n <= MaxSessions /\ DOMAIN session = 1 .. n
      /\ reused \in BOOLEAN /\ MaxSessions \in Nat
      /\ \A s \in 1 .. n : session[s] \in Rows /\ session[s].user \in Users
                           /\ session[s].family \in Sessions /\ s \in Sessions
      /\ None \notin Nat
  <2>1. /\ session \in Seq(Rows) /\ n \in Nat /\ n <= MaxSessions /\ DOMAIN session = 1 .. n
        /\ reused \in BOOLEAN /\ MaxSessions \in Nat /\ None \notin Nat
    BY WebAssumption DEF TypeOK
  <2>2. \A s \in 1 .. n : session[s] \in Rows /\ s \in Sessions
    BY <2>1 DEF Sessions
  <2>3. \A s \in 1 .. n : session[s].user \in Users /\ session[s].family \in Sessions
    BY <2>2 DEF Rows
  <2> QED
    BY <2>1, <2>2, <2>3
<1>1. UsersKept(session)
  BY <1>0 DEF UsersKept
<1>2. CASE a = Answer("error", None, session, reused)
  BY <1>0, <1>1, <1>2
<1>3. CASE a = Answer("denied", None, session, reused)
  BY <1>0, <1>1, <1>3
<1>4. CASE /\ j.op = "login" /\ New \in Sessions
           /\ a = Answer("ok", New, Opening(session, j.user, New), reused)
  <2>1. j.user \in Users
    BY <1>4
  <2>2. /\ a.rows \in Seq(Rows) /\ Len(a.rows) = n + 1
        /\ a.rows[New] = [user |-> j.user, family |-> New, active |-> TRUE]
        /\ \A s \in 1 .. n : a.rows[s] = session[s]
    BY <1>0, <1>4, <2>1, OpeningFacts
  <2>3. Len(a.rows) <= MaxSessions /\ New \in DOMAIN a.rows /\ UsersKept(a.rows)
    BY <1>0, <1>4, <2>2 DEF Sessions, UsersKept
  <2>4. a.session = New /\ a.reply = "ok" /\ a.reused = reused /\ New # None
    BY <1>0, <1>4
  <2> QED
    BY <1>0, <1>4, <2>2, <2>3, <2>4
<1>5. CASE /\ j.op = "refresh" /\ Usable(j.session) /\ New \in Sessions
           /\ a = Answer("ok", New, Opening([session EXCEPT ![j.session].active = FALSE],
                                            session[j.session].user, session[j.session].family), reused)
  <2> DEFINE rows == [session EXCEPT ![j.session].active = FALSE]
             u == session[j.session].user
             f == session[j.session].family
  <2>1. j.session \in 1 .. n /\ session[j.session].active
    BY <1>0, <1>5 DEF Known, Usable
  <2>2. rows \in Seq(Rows) /\ Len(rows) = n /\ UsersKept(rows)
    BY <1>0, <2>1, EndingFacts
  <2>3. u \in Users /\ f \in Sessions
    BY <1>0, <2>1
  <2>4. a.rows = Opening(rows, u, f) /\ a.session = New /\ a.reply = "ok" /\ a.reused = reused
    BY <1>5
  <2> HIDE DEF rows, u, f
  <2>5. /\ a.rows \in Seq(Rows) /\ Len(a.rows) = n + 1
        /\ a.rows[New] = [user |-> u, family |-> f, active |-> TRUE]
        /\ \A s \in 1 .. n : a.rows[s] = rows[s]
    BY <2>2, <2>3, <2>4, OpeningFacts
  <2>6. Len(a.rows) <= MaxSessions /\ New \in DOMAIN a.rows
    BY SMTT(30), <1>0, <1>5, <2>5 DEF Sessions
  <2>6a. UsersKept(a.rows)
    BY <1>0, <2>2, <2>5 DEF UsersKept
  <2>7. New # None /\ a.rows[New].active
    BY <1>0, <2>5
  <2> QED
    BY <1>0, <1>5, <2>4, <2>5, <2>6, <2>6a, <2>7
<1>6. CASE /\ Reuse(j)
           /\ a = Answer("denied", None, Ended(session[j.session].family), TRUE)
  <2>1. session[j.session].family \in Sessions
    BY <1>0, <1>6 DEF Known, Reuse
  <2> QED
    BY <1>0, <1>6, <2>1, EndingFacts
<1>7. CASE /\ j.op = "logout" /\ Usable(j.session)
           /\ a = Answer("ok", None, [session EXCEPT ![j.session].active = FALSE], reused)
  <2>1. j.session \in 1 .. n
    BY <1>0, <1>7 DEF Known, Usable
  <2> QED
    BY <1>0, <1>7, <2>1, EndingFacts
<1> QED
  <2>1. CASE j.op = "login"
    BY <1>2, <1>3, <1>4, <2>1 DEF Effects
  <2>2. CASE j.op = "refresh"
    <3>1. CASE Usable(j.session)
      BY <1>2, <1>3, <1>5, <2>2, <3>1 DEF Effects
    <3>2. CASE ~Usable(j.session) /\ j.session # None
      <4>1. Reuse(j)
        BY <2>2, <3>2 DEF Reuse, Usable
      <4> QED
        BY <1>2, <1>3, <1>6, <2>2, <3>2, <4>1 DEF Effects
    <3>3. CASE j.session = None
      <4>1. ~Usable(j.session)
        BY <3>3 DEF Usable
      <4> QED
        BY <1>2, <1>3, <2>2, <3>3, <4>1 DEF Effects
    <3> QED
      BY <3>1, <3>2, <3>3
  <2>3. CASE j.op = "logout"
    BY <1>2, <1>3, <1>7, <2>3 DEF Effects
  <2>4. CASE j.op \notin {"login", "refresh", "logout"}
    BY <1>2, <1>3, <2>4 DEF Effects
  <2> QED
    BY <2>1, <2>2, <2>3, <2>4
-----------------------------------------------------------------------------
(* Steps of the tabs.                                                      *)

\* A browser that opens with no session, no request and a free lock.
LEMMA InitIInv == Init => IInv
<1> SUFFICES ASSUME Init PROVE IInv
  OBVIOUS
<1>1. Opened \in TabStates /\ Idle \in Jobs
  BY DEF Opened, Idle, TabStates, Phases, Jobs, Operations
<1>2. TypeOK
  <2>1. /\ tab \in [Tabs -> TabStates] /\ job \in [Tabs -> Jobs]
        /\ read \in [Tabs -> Users \cup {None}] /\ notices \in [Tabs -> 0 .. MaxNotices]
    BY <1>1, WebAssumption DEF Init
  <2>2. queue \in Seq(Tabs) /\ session \in Seq(Rows) /\ Len(session) <= MaxSessions
    <3>1. queue = <<>> /\ session = <<>>
      BY DEF Init
    <3>2. Len(session) = 0
      BY <3>1
    <3> QED
      BY <3>1, <3>2, WebAssumption
  <2>3. /\ cookie \in Sessions \cup {None} /\ late \subseteq Jobs
        /\ reused \in BOOLEAN
    BY DEF Init
  <2>4. lost \in 0 .. MaxLost
    BY WebAssumption DEF Init
  <2> QED
    BY <2>1, <2>2, <2>3, <2>4 DEF TypeOK
<1>3. LockIsReturned /\ DataIsShownUsers
  BY DEF Init, LockIsReturned, DataIsShownUsers, IsInjective, ToSet, Opened, Idle
<1>4. JobInv /\ LateInv /\ KnownInv /\ QuietInv /\ CookieInv /\ ActiveInv
  BY DEF Init, JobInv, LateInv, KnownInv, QuietInv, CookieInv, ActiveInv, InFlight, Known, Good,
         Opened, Idle
<1> QED
  BY <1>2, <1>3, <1>4 DEF IInv

\* At most one request is in flight: the lock's holder's.
LEMMA OneInFlight ==
  ASSUME JobInv, NEW t \in Tabs, NEW u \in Tabs, InFlight(t), InFlight(u)
  PROVE  t = u
  BY DEF JobInv, Holds

\* An operation that ends gives the lock back and leaves the others as they are.
LEMMA Finishing ==
  ASSUME TypeOK, LockIsReturned, NEW t \in Tabs, Finish(t)
  PROVE  /\ job' \in [Tabs -> Jobs]
         /\ job'[t] = Idle
         /\ \A u \in Tabs \ {t} : job'[u] = job[u]
         /\ queue' \in Seq(Tabs)
         /\ LockIsReturned'
         /\ \A u \in Tabs \ {t} : Holds(u) => Holds(u)'
<1>1. Idle \in Jobs /\ Idle.at = "idle"
  BY DEF Idle, Jobs, Operations
<1>2. /\ job' = [job EXCEPT ![t] = Idle]
      /\ queue' = Leave(t)
  BY DEF Finish
<1>3. job' \in [Tabs -> Jobs] /\ job'[t] = Idle /\ \A u \in Tabs \ {t} : job'[u] = job[u]
  BY <1>1, <1>2 DEF TypeOK
<1>4. /\ queue' \in Seq(Tabs)
      /\ IsInjective(queue')
      /\ ToSet(queue') = ToSet(queue) \ {t}
      /\ \A u \in Tabs \ {t} : Holds(u) => queue' # <<>> /\ Head(queue') = u
  BY <1>2, LeaveFacts DEF TypeOK, LockIsReturned
<1>5. LockIsReturned'
  BY <1>1, <1>3, <1>4 DEF LockIsReturned
<1> QED
  BY <1>3, <1>4, <1>5 DEF Holds

\* An operation joins the end of the line with nothing sent.
LEMMA RequestIInv ==
  ASSUME IInv, NEW t \in Tabs, NEW op \in Operations, NEW u \in Users \cup {None},
         Request(t, op, u)
  PROVE  IInv'
<1> DEFINE j == [Idle EXCEPT !.op = op, !.at = "queued", !.user = u]
<1>1. /\ job[t].at = "idle" /\ ~tab[t].disposed
      /\ op = "login" => u \in Users
      /\ job' = [job EXCEPT ![t] = j]
      /\ queue' = Append(queue, t)
      /\ UNCHANGED <<tab, read, notices, cookie, session, late, lost, reused>>
  BY DEF Request
<1>2. /\ j \in Jobs /\ j.op = op /\ j.at = "queued" /\ j.user = u /\ j.session = None
  BY DEF Idle, Jobs
<1>3. TypeOK
  BY DEF IInv
<1> HIDE DEF j
<1>4. /\ job' \in [Tabs -> Jobs] /\ job'[t] = j
      /\ \A v \in Tabs \ {t} : job'[v] = job[v]
  BY <1>1, <1>2, <1>3 DEF TypeOK
<1>5. t \notin ToSet(queue)
  BY <1>1 DEF IInv, LockIsReturned
<1>6. /\ queue' \in Seq(Tabs) /\ Len(queue') = Len(queue) + 1
      /\ \A i \in 1 .. Len(queue) : queue'[i] = queue[i]
      /\ queue'[Len(queue) + 1] = t
  BY <1>1, <1>3 DEF TypeOK
<1>7. LockIsReturned'
  <2>1. /\ DOMAIN queue = 1 .. Len(queue) /\ Len(queue) \in Nat
        /\ DOMAIN queue' = 1 .. Len(queue) + 1
    BY <1>3, <1>6 DEF TypeOK
  <2>2. IsInjective(queue')
    BY <1>5, <1>6, <2>1 DEF IInv, LockIsReturned, IsInjective, ToSet
  <2>3. ToSet(queue') = ToSet(queue) \cup {t}
    BY <1>6, <2>1 DEF ToSet
  <2> QED
    BY <1>2, <1>4, <2>2, <2>3 DEF IInv, LockIsReturned
<1>8. \A v \in Tabs : Holds(v) => Holds(v)'
  BY SMTT(30), <1>3, <1>6 DEF Holds, TypeOK
<1>9. TypeOK'
  BY <1>1, <1>3, <1>4, <1>6 DEF TypeOK
<1>10. DataIsShownUsers' /\ LateInv' /\ CookieInv'
  BY <1>1 DEF IInv, DataIsShownUsers, LateInv, CookieInv
<1>11. JobInv'
  BY <1>1, <1>2, <1>4, <1>8 DEF IInv, JobInv, InFlight
<1>12. KnownInv'
  BY <1>1, <1>2, <1>4 DEF IInv, KnownInv, Known
<1>13. QuietInv'
  BY <1>1, <1>2, <1>4 DEF IInv, QuietInv, InFlight
<1>14. ActiveInv'
  <2>1. \A v \in Tabs : job'[v].at = "answered" <=> job[v].at = "answered"
    BY <1>1, <1>2, <1>4
  <2>2. \A v \in Tabs : job[v].at = "answered" => job'[v] = job[v]
    BY <1>1, <1>4
  <2> QED
    BY <1>1, <2>1, <2>2 DEF IInv, ActiveInv, Good, Stored
<1> QED
  BY <1>7, <1>9, <1>10, <1>11, <1>12, <1>13, <1>14 DEF IInv

\* The steps that end an operation: they differ in what the tab shows next,
\* in the cookie that is kept and in the request that is left behind.
LEMMA OperationEnds ==
  ASSUME IInv, NEW t \in Tabs, Finish(t), session' = session, reused' = reused,
         tab' \in [Tabs -> TabStates], read' \in [Tabs -> Users \cup {None}],
         notices' \in [Tabs -> 0 .. MaxNotices],
         \A u \in Tabs \ {t} : tab'[u] = tab[u] /\ notices'[u] = notices[u],
         cookie' \in Sessions \cup {None}, Known(cookie'), cookie' = cookie \/ InFlight(t),
         late' \subseteq Jobs, lost' \in 0 .. MaxLost,
         \A j \in late' : Known(j.session) /\ (j.op = "login" => j.user \in Users),
         lost' = 0 => lost = 0 /\ late' = late /\ (InFlight(t) => Good(cookie')),
         tab'[t].data \in {None, tab'[t].user}, Known(tab'[t].token),
         tab'[t].phase = "authenticated" =>
             /\ ~tab'[t].disposed
             /\ tab'[t].token # None /\ session[tab'[t].token].user = tab'[t].user
             /\ \/ InFlight(t) /\ tab'[t].token = cookie'
                \/ tab'[t] = tab[t] /\ notices'[t] = notices[t] /\ cookie' = cookie
  PROVE  IInv'
<1>0. /\ TypeOK /\ LockIsReturned /\ DataIsShownUsers
      /\ JobInv /\ LateInv /\ KnownInv /\ QuietInv /\ CookieInv /\ ActiveInv
  BY DEF IInv
<1>1. /\ job' \in [Tabs -> Jobs] /\ queue' \in Seq(Tabs) /\ LockIsReturned'
      /\ job'[t] = Idle
      /\ \A u \in Tabs \ {t} : job'[u] = job[u] /\ (Holds(u) => Holds(u)')
  BY <1>0, Finishing
<1>2. Idle.at = "idle" /\ Idle.session = None
  BY DEF Idle
<1>3. \A u \in Tabs : job'[u].at # "idle" => u # t
  BY <1>1, <1>2
<1>4. InFlight(t) => \A u \in Tabs \ {t} : ~InFlight(u)
  BY <1>0, OneInFlight
<1>5. TypeOK'
  BY <1>0, <1>1 DEF TypeOK
<1>6. DataIsShownUsers' /\ LateInv'
  BY <1>0 DEF DataIsShownUsers, LateInv
<1>7. JobInv'
  <2> SUFFICES ASSUME NEW u \in Tabs
               PROVE  /\ job'[u].at # "idle" => job'[u].op \in Operations
                      /\ job'[u].at \in {"queued", "sent"} /\ job'[u].op = "login" =>
                             job'[u].user \in Users
                      /\ job'[u].at = "answered" => job'[u].reply \in {"ok", "denied", "error"}
                      /\ job'[u].at = "answered" /\ job'[u].reply = "ok" /\ job'[u].op # "logout" =>
                             job'[u].session # None
                      /\ job'[u].at = "sent" /\ job'[u].op = "refresh" => job'[u].session = cookie'
                      /\ InFlight(u)' => Holds(u)'
                      /\ tab'[u].disposed => tab'[u].phase # "authenticated"
                                             /\ (job'[u].at = "idle" \/ ~job'[u].current)
    BY DEF JobInv
  <2>1. CASE u = t
    BY <1>1, <1>2, <2>1 DEF InFlight
  <2>2. CASE u # t
    <3>1. job'[u] = job[u] /\ tab'[u] = tab[u] /\ (Holds(u) => Holds(u)')
      BY <1>1, <2>2
    <3>2. cookie' = cookie \/ job[u].at # "sent"
      BY <1>4, <2>2 DEF InFlight
    <3> QED
      BY <1>0, <3>1, <3>2 DEF JobInv, InFlight
  <2> QED
    BY <2>1, <2>2
<1>8. KnownInv'
  <2>1. \A u \in Tabs \ {t} : tab'[u] = tab[u] /\ job'[u] = job[u]
    BY <1>1
  <2> QED
    BY <1>0, <1>1, <1>2, <2>1 DEF KnownInv, Known
<1>9. QuietInv'
  <2> SUFFICES ASSUME NEW u \in Tabs, NEW v \in Tabs, InFlight(u)', tab'[v].phase = "authenticated"
               PROVE  v # u /\ notices'[v] > 0
    BY DEF QuietInv
  <2>1. u # t /\ InFlight(u)
    BY <1>1, <1>2 DEF InFlight
  <2>2. ~InFlight(t)
    BY <1>4, <2>1
  <2>3. tab'[v] = tab[v] /\ notices'[v] = notices[v]
    BY <2>2
  <2> QED
    BY <1>0, <2>1, <2>3 DEF QuietInv
<1>10. CookieInv'
  <2> SUFFICES ASSUME NEW u \in Tabs, tab'[u].phase = "authenticated", notices'[u] = 0
               PROVE  tab'[u].token = cookie'
    BY DEF CookieInv
  <2>1. CASE u = t
    BY <1>0, <2>1 DEF CookieInv
  <2>2. CASE u # t
    <3>1. ~InFlight(t)
      BY <1>0, <2>2 DEF QuietInv
    <3> QED
      BY <1>0, <2>2, <3>1 DEF CookieInv
  <2> QED
    BY <2>1, <2>2
<1>11. ActiveInv'
  <2> SUFFICES ASSUME lost' = 0
               PROVE  /\ late' = {} /\ ~reused'
                      /\ \A u \in Tabs : job'[u].at = "answered" => Good(Stored(job[u]))'
                      /\ (\A u \in Tabs : job'[u].at # "answered") => Good(cookie)'
    BY DEF ActiveInv
  <2>1. late = {} /\ ~reused /\ late' = late
    BY <1>0 DEF ActiveInv
  <2>2. ASSUME NEW u \in Tabs, job'[u].at = "answered"
        PROVE  Good(Stored(job[u]))'
    <3>1. u # t /\ job'[u] = job[u] /\ InFlight(u)
      BY <1>1, <1>2, <2>2 DEF InFlight
    <3>2. cookie' = cookie
      BY <1>4, <3>1
    <3> QED
      BY <1>0, <2>2, <3>1, <3>2 DEF ActiveInv, Good, Stored
  <2>3. ASSUME \A u \in Tabs : job'[u].at # "answered"
        PROVE  Good(cookie)'
    <3>1. CASE InFlight(t)
      BY <3>1 DEF Good
    <3>2. CASE ~InFlight(t)
      <4>1. \A u \in Tabs : job[u].at # "answered"
        BY <1>1, <2>3, <3>2 DEF InFlight
      <4> QED
        BY <1>0, <3>2, <4>1 DEF ActiveInv, Good
    <3> QED
      BY <3>1, <3>2
  <2> QED
    BY <2>1, <2>2, <2>3
<1> QED
  BY <1>1, <1>5, <1>6, <1>7, <1>8, <1>9, <1>10, <1>11 DEF IInv

\* The steps that leave every operation where it is: what the tab shows is
\* kept, cleared or joined by data of its user.
LEMMA TabChanges ==
  ASSUME IInv, NEW t \in Tabs,
         UNCHANGED <<queue, cookie, session, late, lost, reused>>,
         tab' \in [Tabs -> TabStates], read' \in [Tabs -> Users \cup {None}],
         notices' \in [Tabs -> 0 .. MaxNotices],
         NEW now \in BOOLEAN, job' = [job EXCEPT ![t].current = now],
         \A u \in Tabs \ {t} : tab'[u] = tab[u] /\ notices'[u] = notices[u],
         tab'[t].data \in {None, tab'[t].user}, Known(tab'[t].token),
         tab'[t].disposed => tab'[t].phase # "authenticated" /\ (job[t].at = "idle" \/ ~now),
         tab'[t].phase = "authenticated" =>
             /\ tab[t].phase = "authenticated" /\ notices'[t] = notices[t]
             /\ tab'[t].token = tab[t].token /\ tab'[t].user = tab[t].user
  PROVE  IInv'
<1>0. /\ TypeOK /\ LockIsReturned /\ DataIsShownUsers
      /\ JobInv /\ LateInv /\ KnownInv /\ QuietInv /\ CookieInv /\ ActiveInv
  BY DEF IInv
<1>1. /\ job' \in [Tabs -> Jobs]
      /\ job'[t].current = now
      /\ \A u \in Tabs \ {t} : job'[u] = job[u]
      /\ \A u \in Tabs :
            /\ job'[u].at = job[u].at /\ job'[u].op = job[u].op /\ job'[u].user = job[u].user
            /\ job'[u].session = job[u].session /\ job'[u].reply = job[u].reply
  <2> DEFINE j == [job[t] EXCEPT !.current = now]
  <2>1. /\ j \in Jobs /\ j.current = now
        /\ j.at = job[t].at /\ j.op = job[t].op /\ j.user = job[t].user
        /\ j.session = job[t].session /\ j.reply = job[t].reply
    <3>1. job[t] \in Jobs
      BY <1>0 DEF TypeOK
    <3> QED
      BY <3>1 DEF Jobs
  <2>2. job' = [job EXCEPT ![t] = j]
    OBVIOUS
  <2> HIDE DEF j
  <2> QED
    BY <1>0, <2>1, <2>2 DEF TypeOK
<1>2. TypeOK'
  BY <1>0, <1>1 DEF TypeOK
<1>3. LockIsReturned' /\ DataIsShownUsers' /\ LateInv'
  BY <1>0, <1>1 DEF LockIsReturned, DataIsShownUsers, LateInv
<1>4. JobInv'
  BY <1>0, <1>1 DEF JobInv, InFlight, Holds
<1>5. KnownInv'
  BY <1>0, <1>1 DEF KnownInv, Known
<1>6. QuietInv' /\ CookieInv'
  BY <1>0, <1>1 DEF QuietInv, CookieInv, InFlight
<1>7. ActiveInv'
  BY SMTT(30), <1>0, <1>1 DEF ActiveInv, Good, Stored
<1> QED
  BY <1>2, <1>3, <1>4, <1>5, <1>6, <1>7 DEF IInv

\* An operation that was overtaken ends without a request.
LEMMA RefuseIInv ==
  ASSUME IInv, NEW t \in Tabs, Refuse(t)
  PROVE  IInv'
<1>1. /\ job[t].at = "queued" /\ Finish(t)
      /\ UNCHANGED <<notices, cookie, session, late, lost, reused>>
  BY DEF Refuse
<1>2. ~InFlight(t)
  BY <1>1 DEF InFlight
<1>3. TypeOK /\ KnownInv /\ LateInv /\ JobInv /\ DataIsShownUsers
  BY DEF IInv
<1>4. /\ tab[t] \in TabStates /\ tab[t].data \in {None, tab[t].user} /\ Known(tab[t].token)
      /\ notices \in [Tabs -> 0 .. MaxNotices] /\ cookie \in Sessions \cup {None}
      /\ late \subseteq Jobs /\ lost \in 0 .. MaxLost
      /\ \A j \in late : Known(j.session) /\ (j.op = "login" => j.user \in Users)
      /\ Known(cookie)
  BY <1>3 DEF TypeOK, KnownInv, LateInv, DataIsShownUsers
<1>5. CASE job[t].current /\ job[t].op = "logout"
  <2> DEFINE s == [tab[t] EXCEPT !.data = None, !.user = None, !.phase = "unavailable"]
  <2>1. tab' = [tab EXCEPT ![t] = s] /\ read' = Cleared(t)
    BY <1>5 DEF Refuse
  <2>2. /\ s \in TabStates /\ s.data = None /\ s.token = tab[t].token
        /\ s.phase = "unavailable"
    BY <1>4 DEF TabStates, Phases
  <2> HIDE DEF s
  <2>3. /\ tab' \in [Tabs -> TabStates] /\ tab'[t] = s /\ \A u \in Tabs \ {t} : tab'[u] = tab[u]
        /\ read' \in [Tabs -> Users \cup {None}]
    BY <1>3, <2>1, <2>2 DEF TypeOK, Cleared
  <2> QED
    BY <1>1, <1>2, <1>4, <2>2, <2>3, OperationEnds
<1>6. CASE ~(job[t].current /\ job[t].op = "logout")
  <2>1. UNCHANGED <<tab, read>>
    BY <1>6 DEF Refuse
  <2>2. tab[t].phase = "authenticated" =>
            ~tab[t].disposed /\ tab[t].token # None /\ session[tab[t].token].user = tab[t].user
    BY <1>3 DEF JobInv, KnownInv
  <2>3. tab \in [Tabs -> TabStates] /\ read \in [Tabs -> Users \cup {None}]
    BY <1>3 DEF TypeOK
  <2> QED
    BY <1>1, <1>2, <1>4, <2>1, <2>2, <2>3, OperationEnds
<1> QED
  BY <1>5, <1>6

\* What the controller makes of an outcome: it shows a user only for the
\* session of a successful login or refresh that nothing overtook.
LEMMA Concluding ==
  ASSUME IInv, NEW t \in Tabs, NEW outcome \in {"ok", "denied", "error"}, InFlight(t),
         outcome = "ok" => job[t].at = "answered" /\ job[t].reply = "ok",
         Conclude(t, outcome)
  PROVE  /\ tab' \in [Tabs -> TabStates] /\ read' \in [Tabs -> Users \cup {None}]
         /\ \A u \in Tabs \ {t} : tab'[u] = tab[u]
         /\ tab'[t].data \in {None, tab'[t].user} /\ Known(tab'[t].token)
         /\ tab'[t].phase = "authenticated" =>
                /\ outcome = "ok" /\ job[t].op # "logout" /\ ~tab'[t].disposed
                /\ tab'[t].token = job[t].session /\ tab'[t].token # None
                /\ session[tab'[t].token].user = tab'[t].user
<1>0. /\ TypeOK /\ JobInv /\ KnownInv /\ QuietInv
      /\ tab \in [Tabs -> TabStates] /\ read \in [Tabs -> Users \cup {None}]
      /\ tab[t] \in TabStates /\ job[t].op \in Operations
      /\ tab[t].data \in {None, tab[t].user} /\ Known(tab[t].token) /\ Known(job[t].session)
  BY DEF IInv, TypeOK, JobInv, KnownInv, InFlight, DataIsShownUsers
<1>1. tab[t].phase # "authenticated"
  BY <1>0 DEF QuietInv
<1>2. CASE ~job[t].current
  BY <1>0, <1>1, <1>2 DEF Conclude
<1>3. CASE job[t].current
  <2> DEFINE s == IF outcome # "ok" THEN Failed(t, outcome = "denied")
                  ELSE IF job[t].op = "logout"
                  THEN [tab[t] EXCEPT !.token = None, !.phase = "anonymous"]
                  ELSE SignedIn(t, job[t].session)
  <2>1. /\ tab' = [tab EXCEPT ![t] = s]
        /\ read' = read \/ read' = Cleared(t)
    BY <1>3 DEF Conclude
  <2>2. ~tab[t].disposed
    BY <1>0, <1>3 DEF JobInv, InFlight
  <2>3. /\ s \in TabStates /\ s.data \in {None, s.user} /\ Known(s.token)
        /\ s.phase = "authenticated" =>
               /\ outcome = "ok" /\ job[t].op # "logout" /\ ~s.disposed
               /\ s.token = job[t].session /\ s.token # None
               /\ session[s.token].user = s.user
    <3>1. CASE outcome # "ok"
      BY <1>0, <3>1 DEF Failed, TabStates, Phases, Known
    <3>2. CASE outcome = "ok" /\ job[t].op = "logout"
      BY <1>0, <3>2 DEF TabStates, Phases, Known
    <3>3. CASE outcome = "ok" /\ job[t].op # "logout"
      <4>1. job[t].session # None /\ job[t].session \in Sessions
        BY <1>0, <3>3 DEF JobInv, TypeOK, Jobs
      <4>2. session[job[t].session] \in Rows
        BY <1>0, <4>1 DEF Known, TypeOK
      <4>3. session[job[t].session].user \in Users
        BY <4>2 DEF Rows
      <4>4. s = SignedIn(t, job[t].session)
        BY <3>3
      <4> QED
        BY <1>0, <2>2, <3>3, <4>1, <4>3, <4>4 DEF SignedIn, SameUser, TabStates, Phases
    <3> QED
      BY <3>1, <3>2, <3>3
  <2> HIDE DEF s
  <2> QED
    BY <1>0, <2>1, <2>3 DEF Cleared
<1> QED
  BY <1>2, <1>3

\* A cookie an answer sets is that of a session there is.
LEMMA StoredFacts ==
  ASSUME IInv, NEW t \in Tabs, job[t].at = "answered"
  PROVE  /\ Stored(job[t]) \in Sessions \cup {None} /\ Known(Stored(job[t]))
         /\ job[t].reply = "ok" /\ job[t].op # "logout" => Stored(job[t]) = job[t].session
<1>1. /\ job[t].session \in Sessions \cup {None} /\ Known(job[t].session)
      /\ cookie \in Sessions \cup {None} /\ Known(cookie)
  BY DEF IInv, TypeOK, KnownInv, Jobs
<1> QED
  BY <1>1 DEF Stored, Known

\* The cookie of an answer is stored while no other tab relies on the old one.
LEMMA SettleIInv ==
  ASSUME IInv, NEW t \in Tabs, Settle(t)
  PROVE  IInv'
<1>1. /\ job[t].at = "answered" /\ InFlight(t) /\ cookie' = Stored(job[t])
      /\ Conclude(t, job[t].reply) /\ Finish(t)
      /\ UNCHANGED <<notices, session, late, lost, reused>>
  BY DEF Settle, InFlight
<1>2. /\ job[t].reply \in {"ok", "denied", "error"}
      /\ notices \in [Tabs -> 0 .. MaxNotices] /\ late \subseteq Jobs /\ lost \in 0 .. MaxLost
      /\ \A j \in late : Known(j.session) /\ (j.op = "login" => j.user \in Users)
      /\ lost = 0 => Good(Stored(job[t]))
  BY <1>1 DEF IInv, TypeOK, JobInv, KnownInv, LateInv, ActiveInv
<1>3. /\ tab' \in [Tabs -> TabStates] /\ read' \in [Tabs -> Users \cup {None}]
      /\ \A u \in Tabs \ {t} : tab'[u] = tab[u]
      /\ tab'[t].data \in {None, tab'[t].user} /\ Known(tab'[t].token)
      /\ tab'[t].phase = "authenticated" =>
             /\ job[t].reply = "ok" /\ job[t].op # "logout" /\ ~tab'[t].disposed
             /\ tab'[t].token = job[t].session /\ tab'[t].token # None
             /\ session[tab'[t].token].user = tab'[t].user
  BY <1>1, <1>2, Concluding
<1>4. /\ cookie' \in Sessions \cup {None} /\ Known(cookie')
      /\ job[t].reply = "ok" /\ job[t].op # "logout" => cookie' = job[t].session
  BY <1>1, StoredFacts
<1>5. lost' = 0 => lost = 0 /\ late' = late /\ (InFlight(t) => Good(cookie'))
  BY <1>1, <1>2
<1> QED
  BY <1>1, <1>2, <1>3, <1>4, <1>5, OperationEnds

\* A request that is abandoned may still be done, with what it carries.
LEMMA Orphaning ==
  ASSUME IInv, NEW t \in Tabs, InFlight(t), Orphaned(t)
  PROVE  /\ lost' \in 0 .. MaxLost /\ lost' # 0 /\ late' \subseteq Jobs
         /\ \A j \in late' : Known(j.session) /\ (j.op = "login" => j.user \in Users)
         /\ cookie' \in Sessions \cup {None} /\ Known(cookie')
<1>1. /\ lost \in 0 .. MaxLost /\ late \subseteq Jobs /\ job[t] \in Jobs /\ MaxLost \in Nat
      /\ \A j \in late : Known(j.session) /\ (j.op = "login" => j.user \in Users)
      /\ Known(job[t].session) /\ (job[t].at = "sent" /\ job[t].op = "login" => job[t].user \in Users)
      /\ cookie \in Sessions \cup {None} /\ Known(cookie)
  BY WebAssumption DEF IInv, TypeOK, KnownInv, LateInv, JobInv
<1>2. lost' \in 0 .. MaxLost /\ lost' # 0
  BY <1>1 DEF Orphaned
<1>3. /\ late' \subseteq Jobs
      /\ \A j \in late' : Known(j.session) /\ (j.op = "login" => j.user \in Users)
  <2> DEFINE j == [job[t] EXCEPT !.current = FALSE]
  <2>1. j \in Jobs /\ j.session = job[t].session /\ j.op = job[t].op /\ j.user = job[t].user
    BY <1>1 DEF Jobs
  <2>2. late' = IF job[t].at = "sent" THEN late \cup {j} ELSE late
    BY DEF Orphaned
  <2> HIDE DEF j
  <2> QED
    BY <1>1, <2>1, <2>2
<1>4. cookie' \in Sessions \cup {None} /\ Known(cookie')
  BY <1>1, StoredFacts DEF Orphaned
<1> QED
  BY <1>2, <1>3, <1>4

\* An operation that gives up shows nobody and leaves its request behind.
LEMMA TimeOutIInv ==
  ASSUME IInv, NEW t \in Tabs, TimeOut(t)
  PROVE  IInv'
<1>1. /\ InFlight(t) /\ Orphaned(t) /\ Conclude(t, "error") /\ Finish(t)
      /\ UNCHANGED <<notices, session, reused>>
  BY DEF TimeOut, InFlight
<1>2. /\ tab' \in [Tabs -> TabStates] /\ read' \in [Tabs -> Users \cup {None}]
      /\ \A u \in Tabs \ {t} : tab'[u] = tab[u]
      /\ tab'[t].data \in {None, tab'[t].user} /\ Known(tab'[t].token)
      /\ tab'[t].phase # "authenticated"
  BY <1>1, Concluding
<1>3. /\ lost' \in 0 .. MaxLost /\ lost' # 0 /\ late' \subseteq Jobs
      /\ \A j \in late' : Known(j.session) /\ (j.op = "login" => j.user \in Users)
      /\ cookie' \in Sessions \cup {None} /\ Known(cookie')
  BY <1>1, Orphaning
<1>4. notices' \in [Tabs -> 0 .. MaxNotices]
  BY <1>1 DEF IInv, TypeOK
<1> QED
  BY <1>1, <1>2, <1>3, <1>4, OperationEnds

\* A reloaded page has forgotten everything, and gives back its place in line.
LEMMA ReloadIInv ==
  ASSUME IInv, NEW t \in Tabs, Reload(t)
  PROVE  IInv'
<1>0. TypeOK /\ KnownInv /\ LateInv
  BY DEF IInv
<1>1. /\ tab' = [tab EXCEPT ![t] = Opened] /\ read' = [read EXCEPT ![t] = None]
      /\ notices' = [notices EXCEPT ![t] = 0] /\ Finish(t) /\ UNCHANGED <<session, reused>>
  BY DEF Reload
<1>2. /\ Opened \in TabStates /\ Opened.data = None /\ Opened.token = None
      /\ Opened.phase # "authenticated"
  BY DEF Opened, TabStates, Phases
<1>3. /\ tab' \in [Tabs -> TabStates] /\ tab'[t] = Opened
      /\ \A u \in Tabs \ {t} : tab'[u] = tab[u] /\ notices'[u] = notices[u]
      /\ read' \in [Tabs -> Users \cup {None}] /\ notices' \in [Tabs -> 0 .. MaxNotices]
  BY <1>0, <1>1, <1>2, WebAssumption DEF TypeOK
<1>4. CASE InFlight(t)
  <2>1. Orphaned(t)
    BY <1>4 DEF Reload, InFlight
  <2>2. /\ lost' \in 0 .. MaxLost /\ lost' # 0 /\ late' \subseteq Jobs
        /\ \A j \in late' : Known(j.session) /\ (j.op = "login" => j.user \in Users)
        /\ cookie' \in Sessions \cup {None} /\ Known(cookie')
    BY <1>4, <2>1, Orphaning
  <2> QED
    BY <1>1, <1>2, <1>3, <1>4, <2>2, OperationEnds DEF Known
<1>5. CASE ~InFlight(t)
  <2>1. UNCHANGED <<late, lost, cookie>>
    BY <1>5 DEF Reload, InFlight
  <2>2. /\ lost \in 0 .. MaxLost /\ late \subseteq Jobs
        /\ \A j \in late : Known(j.session) /\ (j.op = "login" => j.user \in Users)
        /\ cookie \in Sessions \cup {None} /\ Known(cookie)
    BY <1>0 DEF TypeOK, KnownInv, LateInv
  <2> QED
    BY <1>1, <1>2, <1>3, <1>5, <2>1, <2>2, OperationEnds DEF Known
<1> QED
  BY <1>4, <1>5

\* What a tab forgets, told by another or disposed of.
LEMMA InvalidatedFacts ==
  ASSUME TypeOK, NEW t \in Tabs
  PROVE  /\ Invalidated(t) \in TabStates /\ Invalidated(t).data = None
         /\ Invalidated(t).token = None /\ Invalidated(t).phase = "unavailable"
         /\ Invalidated(t).disposed = tab[t].disposed
         /\ Cleared(t) \in [Tabs -> Users \cup {None}]
<1>1. tab[t] \in TabStates /\ read \in [Tabs -> Users \cup {None}]
  BY DEF TypeOK
<1> QED
  BY <1>1 DEF Invalidated, Cleared, TabStates, Phases

\* A tab that is told forgets what it knows, and its operation is overtaken.
LEMMA DeliverIInv ==
  ASSUME IInv, NEW t \in Tabs, Deliver(t)
  PROVE  IInv'
<1> DEFINE now == job[t].at = "idle"
<1>0. TypeOK /\ JobInv
  BY DEF IInv
<1>1. /\ notices[t] > 0 /\ notices' = [notices EXCEPT ![t] = @ - 1]
      /\ tab' = [tab EXCEPT ![t] = Invalidated(t)] /\ read' = Cleared(t)
      /\ job' = [job EXCEPT ![t].current = now] /\ now \in BOOLEAN
      /\ UNCHANGED <<queue, cookie, session, late, lost, reused>>
  BY DEF Deliver
<1>2. notices' \in [Tabs -> 0 .. MaxNotices] /\ \A u \in Tabs \ {t} : notices'[u] = notices[u]
  <2>1. notices \in [Tabs -> 0 .. MaxNotices] /\ notices[t] - 1 \in 0 .. MaxNotices
    BY <1>0, <1>1, WebAssumption DEF TypeOK
  <2> QED
    BY <1>1, <2>1
<1>3. /\ tab' \in [Tabs -> TabStates] /\ tab'[t] = Invalidated(t)
      /\ \A u \in Tabs \ {t} : tab'[u] = tab[u]
  BY <1>0, <1>1, InvalidatedFacts DEF TypeOK
<1>4. now => job[t].at = "idle"
  OBVIOUS
<1>5. job[t].at = "idle" \/ ~now
  OBVIOUS
<1> HIDE DEF now
<1> QED
  BY <1>0, <1>1, <1>2, <1>3, <1>5, InvalidatedFacts, TabChanges DEF Known

\* A controller that is disposed of forgets what it knows and hears no more.
LEMMA DisposeIInv ==
  ASSUME IInv, NEW t \in Tabs, Dispose(t)
  PROVE  IInv'
<1> DEFINE now == job[t].at = "idle"
           s == [Invalidated(t) EXCEPT !.disposed = TRUE]
<1>0. TypeOK
  BY DEF IInv
<1>1. /\ notices' = [notices EXCEPT ![t] = 0]
      /\ tab' = [tab EXCEPT ![t] = s] /\ read' = Cleared(t)
      /\ job' = [job EXCEPT ![t].current = now] /\ now \in BOOLEAN
      /\ UNCHANGED <<queue, cookie, session, late, lost, reused>>
  BY DEF Dispose
<1>2. notices' \in [Tabs -> 0 .. MaxNotices] /\ \A u \in Tabs \ {t} : notices'[u] = notices[u]
  BY <1>0, <1>1, WebAssumption DEF TypeOK
<1>3. s \in TabStates /\ s.data = None /\ s.token = None /\ s.phase = "unavailable"
  BY <1>0, InvalidatedFacts DEF TabStates
<1>4. job[t].at = "idle" \/ ~now
  OBVIOUS
<1> HIDE DEF now, s
<1>5. /\ tab' \in [Tabs -> TabStates] /\ tab'[t] = s /\ \A u \in Tabs \ {t} : tab'[u] = tab[u]
  BY <1>0, <1>1, <1>3 DEF TypeOK
<1> QED
  BY <1>0, <1>1, <1>2, <1>3, <1>4, <1>5, InvalidatedFacts, TabChanges DEF Known

\* A feature request or its answer changes no more than the tab's own data.
LEMMA ReadIInv ==
  ASSUME IInv, NEW t \in Tabs, BeginRead(t) \/ EndRead(t)
  PROVE  IInv'
<1>0. /\ TypeOK /\ JobInv /\ KnownInv /\ DataIsShownUsers
      /\ tab[t] \in TabStates /\ job[t] \in Jobs
  BY DEF IInv, TypeOK
<1>1. UNCHANGED <<job, queue, notices, cookie, session, late, lost, reused>>
  BY DEF BeginRead, EndRead
<1>2. /\ job[t].current \in BOOLEAN /\ job' = [job EXCEPT ![t].current = job[t].current]
      /\ notices' \in [Tabs -> 0 .. MaxNotices]
  BY <1>0, <1>1 DEF TypeOK, Jobs
<1>3. /\ Known(tab[t].token) /\ tab[t].data \in {None, tab[t].user}
      /\ tab[t].disposed => tab[t].phase # "authenticated" /\ (job[t].at = "idle" \/ ~job[t].current)
  BY <1>0 DEF KnownInv, JobInv, DataIsShownUsers
<1>4. CASE UNCHANGED tab
  <2>1. read' \in [Tabs -> Users \cup {None}]
    <3>1. CASE BeginRead(t)
      <4>1. tab[t].token # None /\ tab[t].token \in DOMAIN session
        BY <1>0, <3>1 DEF KnownInv, Known, BeginRead
      <4>2. session[tab[t].token] \in Rows
        BY <1>0, <4>1 DEF TypeOK
      <4>3. session[tab[t].token].user \in Users
        BY <4>2 DEF Rows
      <4> QED
        BY <1>0, <3>1, <4>3 DEF BeginRead, TypeOK
    <3>2. CASE EndRead(t)
      BY <1>0, <3>2 DEF EndRead, TypeOK
    <3> QED
      BY <3>1, <3>2
  <2>2. tab' \in [Tabs -> TabStates] /\ tab'[t] = tab[t]
    BY <1>0, <1>4 DEF TypeOK
  <2> QED
    BY <1>1, <1>2, <1>3, <1>4, <2>1, <2>2, TabChanges
<1>5. CASE ~UNCHANGED tab
  <2> DEFINE s == [tab[t] EXCEPT !.data = read[t]]
  <2>1. /\ EndRead(t) /\ tab[t].phase = "authenticated" /\ tab[t].user = read[t]
        /\ tab' = [tab EXCEPT ![t] = s] /\ read' = [read EXCEPT ![t] = None]
    BY <1>5 DEF BeginRead, EndRead
  <2>2. read[t] \in Users \cup {None} /\ read' \in [Tabs -> Users \cup {None}]
    BY <1>0, <2>1 DEF TypeOK
  <2>3. /\ s \in TabStates /\ s.data = s.user /\ s.token = tab[t].token /\ s.user = tab[t].user
        /\ s.phase = tab[t].phase /\ s.disposed = tab[t].disposed
    BY <1>0, <2>1, <2>2 DEF TabStates
  <2> HIDE DEF s
  <2>4. /\ tab' \in [Tabs -> TabStates] /\ tab'[t] = s /\ \A u \in Tabs \ {t} : tab'[u] = tab[u]
    BY <1>0, <2>1, <2>3 DEF TypeOK
  <2> QED
    BY <1>1, <1>2, <1>3, <2>1, <2>2, <2>3, <2>4, TabChanges
<1> QED
  BY <1>4, <1>5

\* The request is sent by the holder of the lock, with the cookie there is,
\* after every other listening tab got a notice.
LEMMA SendIInv ==
  ASSUME IInv, NEW t \in Tabs, Send(t)
  PROVE  IInv'
<1>0. /\ TypeOK /\ LockIsReturned /\ DataIsShownUsers
      /\ JobInv /\ LateInv /\ KnownInv /\ QuietInv /\ CookieInv /\ ActiveInv
      /\ tab[t] \in TabStates /\ job[t] \in Jobs
  BY DEF IInv, TypeOK
<1>1. /\ Holds(t) /\ job[t].at = "queued" /\ job[t].current
      /\ \A u \in Tabs \ {t} : notices[u] < MaxNotices
      /\ notices' = Notified(t)
      /\ UNCHANGED <<queue, cookie, session, late, lost, reused>>
  BY DEF Send
<1>2. job[t].op \in Operations
  BY <1>0, <1>1 DEF JobInv
<1> DEFINE sent == CASE job[t].op = "login" -> None
                     [] job[t].op = "refresh" -> cookie
                     [] job[t].op = "logout" -> tab[t].token
           j == [job[t] EXCEPT !.at = "sent", !.session = sent]
<1>3. sent \in Sessions \cup {None} /\ Known(sent) /\ (job[t].op = "refresh" => sent = cookie)
  <2>1. /\ cookie \in Sessions \cup {None} /\ tab[t].token \in Sessions \cup {None}
        /\ Known(cookie) /\ Known(tab[t].token)
    BY <1>0 DEF TypeOK, TabStates, KnownInv
  <2> QED
    BY <1>2, <2>1 DEF Operations, Known
<1>3a. job' = [job EXCEPT ![t].at = "sent", ![t].session = sent]
  BY DEF Send
<1> HIDE DEF sent
<1>4. job' = [job EXCEPT ![t] = j]
  BY <1>0, <1>3a DEF TypeOK
<1>5. /\ j \in Jobs /\ j.at = "sent" /\ j.op = job[t].op /\ j.user = job[t].user
      /\ j.session = sent /\ j.current
  BY <1>0, <1>1, <1>3 DEF Jobs
<1> HIDE DEF j
<1>6. /\ job' \in [Tabs -> Jobs] /\ job'[t] = j /\ \A u \in Tabs \ {t} : job'[u] = job[u]
  BY <1>0, <1>4, <1>5 DEF TypeOK
<1>7. /\ tab' \in [Tabs -> TabStates] /\ \A u \in Tabs \ {t} : tab'[u] = tab[u]
      /\ tab'[t].phase = "pending" /\ tab'[t].data \in {None, tab'[t].user}
      /\ Known(tab'[t].token) /\ tab'[t].disposed = tab[t].disposed
      /\ read' \in [Tabs -> Users \cup {None}]
  <2> DEFINE s == CASE job[t].op = "login" ->
                         [tab[t] EXCEPT !.token = None, !.data = None, !.user = None,
                                        !.phase = "pending"]
                    [] job[t].op = "refresh" -> [tab[t] EXCEPT !.phase = "pending"]
                    [] job[t].op = "logout" ->
                         [tab[t] EXCEPT !.data = None, !.user = None, !.phase = "pending"]
  <2>1. tab' = [tab EXCEPT ![t] = s] /\ (read' = read \/ read' = Cleared(t))
    <3>1. CASE job[t].op = "login"
      BY <3>1 DEF Send
    <3>2. CASE job[t].op = "refresh"
      BY <1>0, <3>2 DEF Send, TypeOK
    <3>3. CASE job[t].op = "logout"
      BY <3>3 DEF Send
    <3> QED
      BY <1>2, <3>1, <3>2, <3>3 DEF Operations
  <2>2. /\ s \in TabStates /\ s.phase = "pending" /\ s.data \in {None, s.user}
        /\ Known(s.token) /\ s.disposed = tab[t].disposed
    <3>1. tab[t].data \in {None, tab[t].user} /\ Known(tab[t].token)
      BY <1>0 DEF DataIsShownUsers, KnownInv
    <3>2. CASE job[t].op = "login"
      BY <1>0, <3>1, <3>2 DEF TabStates, Phases, Known
    <3>3. CASE job[t].op = "refresh"
      BY <1>0, <3>1, <3>3 DEF TabStates, Phases
    <3>4. CASE job[t].op = "logout"
      BY <1>0, <3>1, <3>4 DEF TabStates, Phases
    <3> QED
      BY <1>2, <3>2, <3>3, <3>4 DEF Operations
  <2> HIDE DEF s
  <2> QED
    BY <1>0, <2>1, <2>2 DEF TypeOK, Cleared
<1>8. /\ notices' \in [Tabs -> 0 .. MaxNotices]
      /\ \A u \in Tabs \ {t} : notices'[u] = IF tab[u].disposed THEN notices[u] ELSE notices[u] + 1
      /\ notices'[t] = notices[t]
  BY <1>0, <1>1, WebAssumption DEF TypeOK, Notified
<1>9. \A u \in Tabs : ~InFlight(u)
  <2>1. \A u \in Tabs : InFlight(u) => Holds(u)
    BY <1>0 DEF JobInv
  <2> QED
    BY <1>1, <2>1 DEF Holds, InFlight
<1>10. TypeOK'
  BY <1>0, <1>1, <1>6, <1>7, <1>8 DEF TypeOK
<1>11. LockIsReturned'
  BY <1>0, <1>1, <1>5, <1>6 DEF LockIsReturned
<1>12. DataIsShownUsers' /\ LateInv'
  BY <1>0, <1>1, <1>7 DEF DataIsShownUsers, LateInv
<1>13. JobInv'
  <2>1. tab[t].disposed = FALSE
    BY <1>0, <1>1 DEF JobInv, TabStates
  <2>2. \A u \in Tabs : Holds(u)' <=> Holds(u)
    BY <1>1 DEF Holds
  <2>3. \A u \in Tabs \ {t} : ~InFlight(u)'
    BY <1>6, <1>9 DEF InFlight
  <2> QED
    BY <1>0, <1>1, <1>3, <1>5, <1>6, <1>7, <2>1, <2>2, <2>3 DEF JobInv, InFlight
<1>14. KnownInv'
  BY <1>0, <1>1, <1>3, <1>5, <1>6, <1>7 DEF KnownInv, Known
<1>15. QuietInv'
  <2> SUFFICES ASSUME NEW u \in Tabs, NEW v \in Tabs, InFlight(u)', tab'[v].phase = "authenticated"
               PROVE  v # u /\ notices'[v] > 0
    BY DEF QuietInv
  <2>1. u = t
    BY <1>6, <1>9 DEF InFlight
  <2>2. v # t /\ tab[v].phase = "authenticated"
    BY <1>7
  <2>3. ~tab[v].disposed /\ notices[v] \in 0 .. MaxNotices
    BY <1>0, <2>2 DEF JobInv, TypeOK
  <2> QED
    BY <1>8, <2>1, <2>2, <2>3
<1>16. CookieInv'
  <2> SUFFICES ASSUME NEW u \in Tabs, tab'[u].phase = "authenticated", notices'[u] = 0
               PROVE  tab'[u].token = cookie'
    BY DEF CookieInv
  <2>1. u # t
    BY <1>7
  <2>2. InFlight(t)'
    BY <1>5, <1>6 DEF InFlight
  <2> QED
    BY <1>15, <2>2 DEF QuietInv
<1>17. ActiveInv'
  <2>1. \A u \in Tabs : job[u].at # "answered" /\ job'[u].at # "answered"
    BY <1>5, <1>6, <1>9 DEF InFlight
  <2> QED
    BY <1>0, <1>1, <2>1 DEF ActiveInv, Good
<1> QED
  BY <1>10, <1>11, <1>12, <1>13, <1>14, <1>15, <1>16, <1>17 DEF IInv

-----------------------------------------------------------------------------
(* Steps of the server.                                                    *)

\* Whatever a request does, the sessions that are named keep their users.
LEMMA SessionsGrow ==
  ASSUME IInv, NEW rows \in Seq(Rows), UsersKept(rows), session' = rows,
         UNCHANGED <<tab, notices, cookie>>
  PROVE  /\ \A s \in DOMAIN session : s \in DOMAIN session' /\ session'[s].user = session[s].user
         /\ \A t \in Tabs :
               /\ Known(tab[t].token)'
               /\ tab'[t].phase = "authenticated" =>
                      tab'[t].token # None /\ session'[tab'[t].token].user = tab'[t].user
         /\ Known(cookie)'
<1>1. session \in Seq(Rows) /\ KnownInv
  BY DEF IInv, TypeOK
<1>2. \A s \in DOMAIN session : s \in DOMAIN session' /\ session'[s].user = session[s].user
  <2>1. /\ DOMAIN session = 1 .. Len(session) /\ DOMAIN rows = 1 .. Len(rows)
        /\ Len(session) \in Nat /\ Len(rows) \in Nat
    BY <1>1
  <2> QED
    BY <2>1 DEF UsersKept
<1> QED
  BY <1>1, <1>2 DEF KnownInv, Known

\* The server does the one request in flight, which presents the cookie.
LEMMA HandleIInv ==
  ASSUME IInv, NEW t \in Tabs, Handle(t)
  PROVE  IInv'
<1>0. /\ TypeOK /\ LockIsReturned /\ DataIsShownUsers
      /\ JobInv /\ LateInv /\ KnownInv /\ QuietInv /\ CookieInv /\ ActiveInv
      /\ job[t] \in Jobs
  BY DEF IInv, TypeOK
<1>1. PICK a \in Effects(job[t]) :
        /\ session' = a.rows /\ reused' = a.reused
        /\ job' = [job EXCEPT ![t].at = "answered", ![t].reply = a.reply,
                              ![t].session = a.session, ![t].user = None]
  BY DEF Handle
<1>2. job[t].at = "sent" /\ UNCHANGED <<tab, read, queue, notices, cookie, late, lost>>
  BY DEF Handle
<1>3. /\ Known(job[t].session) /\ (job[t].op = "login" => job[t].user \in Users)
      /\ job[t].op \in Operations
  BY <1>0, <1>2 DEF KnownInv, JobInv
<1>4. /\ a.rows \in Seq(Rows) /\ Len(a.rows) <= MaxSessions /\ UsersKept(a.rows)
      /\ a.session = None \/ a.session \in DOMAIN a.rows
      /\ a.session \in Sessions \cup {None}
      /\ a.reply \in {"ok", "denied", "error"}
      /\ a.reply = "ok" /\ job[t].op # "logout" => a.session # None /\ a.rows[a.session].active
      /\ a.reused \in BOOLEAN
      /\ ~Reuse(job[t]) => a.reused = reused /\ (a.reply = "ok" \/ a.rows = session)
  BY <1>0, <1>3, EffectFacts
<1> DEFINE j == [job[t] EXCEPT !.at = "answered", !.reply = a.reply, !.session = a.session,
                               !.user = None]
<1>5. job' = [job EXCEPT ![t] = j]
  BY <1>0, <1>1 DEF TypeOK
<1>6. /\ j \in Jobs /\ j.at = "answered" /\ j.op = job[t].op /\ j.reply = a.reply
      /\ j.session = a.session /\ j.current = job[t].current
  BY <1>0, <1>4 DEF Jobs
<1> HIDE DEF j
<1>7. /\ job' \in [Tabs -> Jobs] /\ job'[t] = j /\ \A u \in Tabs \ {t} : job'[u] = job[u]
  BY <1>0, <1>5, <1>6 DEF TypeOK
<1>8. InFlight(t) /\ \A u \in Tabs \ {t} : ~InFlight(u)
  BY <1>0, <1>2, OneInFlight DEF InFlight
<1>9. TypeOK'
  BY <1>0, <1>1, <1>2, <1>4, <1>7 DEF TypeOK
<1>10. LockIsReturned' /\ DataIsShownUsers' /\ LateInv' /\ CookieInv'
  BY <1>0, <1>2, <1>6, <1>7 DEF LockIsReturned, DataIsShownUsers, LateInv, CookieInv
<1>11. JobInv'
  <2>1. \A u \in Tabs : Holds(u)' <=> Holds(u)
    BY <1>2 DEF Holds
  <2> QED
    BY <1>0, <1>2, <1>3, <1>4, <1>6, <1>7, <1>8, <2>1 DEF JobInv, InFlight
<1>12. KnownInv'
  <2>1. /\ \A s \in DOMAIN session : s \in DOMAIN session'
        /\ \A u \in Tabs :
              /\ Known(tab[u].token)'
              /\ tab'[u].phase = "authenticated" =>
                     tab'[u].token # None /\ session'[tab'[u].token].user = tab'[u].user
        /\ Known(cookie)'
    BY <1>1, <1>2, <1>4, SessionsGrow
  <2>2. \A i \in late' : Known(i.session)'
    BY <1>0, <1>2, <2>1 DEF KnownInv, Known
  <2>3. \A u \in Tabs : Known(job[u].session)'
    BY <1>0, <1>1, <1>4, <1>6, <1>7, <2>1 DEF KnownInv, Known
  <2> QED
    BY <2>1, <2>2, <2>3 DEF KnownInv
<1>13. QuietInv'
  BY <1>0, <1>2, <1>6, <1>7, <1>8 DEF QuietInv, InFlight
<1>14. ActiveInv'
  <2> SUFFICES ASSUME lost' = 0
               PROVE  /\ late' = {} /\ ~reused'
                      /\ \A u \in Tabs : job'[u].at = "answered" => Good(Stored(job[u]))'
                      /\ (\A u \in Tabs : job'[u].at # "answered") => Good(cookie)'
    BY DEF ActiveInv
  <2>1. \A u \in Tabs : job[u].at # "answered"
    BY <1>2, <1>8 DEF InFlight
  <2>2. late = {} /\ ~reused /\ Good(cookie)
    BY <1>0, <1>2, <2>1 DEF ActiveInv
  <2>3. ~Reuse(job[t])
    BY <1>0, <1>2, <2>2 DEF JobInv, Good, Reuse
  <2>4. a.reused = reused /\ (a.reply = "ok" \/ a.rows = session)
    BY <1>4, <2>3
  <2>5. Good(Stored(job[t]))'
    <3>1. CASE a.reply = "ok" /\ job[t].op = "logout"
      BY <1>6, <1>7, <3>1 DEF Stored, Good
    <3>2. CASE a.reply = "ok" /\ job[t].op # "logout"
      BY <1>1, <1>4, <1>6, <1>7, <3>2 DEF Stored, Good
    <3>3. CASE a.reply # "ok"
      <4>1. Stored(job[t])' \in {None, cookie} /\ session' = session
        BY <1>1, <1>2, <1>6, <1>7, <2>4, <3>3 DEF Stored
      <4> QED
        BY <2>2, <4>1 DEF Good
    <3> QED
      BY <3>1, <3>2, <3>3
  <2>6. \A u \in Tabs \ {t} : job'[u].at # "answered"
    BY <1>7, <2>1
  <2>7. job'[t].at = "answered"
    BY <1>6, <1>7
  <2> QED
    BY <1>1, <1>2, <2>2, <2>4, <2>5, <2>6, <2>7
<1> QED
  BY <1>9, <1>10, <1>11, <1>12, <1>13, <1>14 DEF IInv

\* A late request changes sessions only after an answer was lost.
LEMMA HandleLateIInv ==
  ASSUME IInv, HandleLate
  PROVE  IInv'
<1>0. /\ TypeOK /\ LockIsReturned /\ DataIsShownUsers
      /\ JobInv /\ LateInv /\ KnownInv /\ QuietInv /\ CookieInv /\ ActiveInv
  BY DEF IInv
<1>1. PICK j \in late : /\ \E a \in Effects(j) : session' = a.rows /\ reused' = a.reused
                        /\ late' = late \ {j}
  BY DEF HandleLate
<1>2. UNCHANGED <<tab, job, read, queue, notices, cookie, lost>>
  BY DEF HandleLate
<1>3. PICK a \in Effects(j) : session' = a.rows /\ reused' = a.reused
  BY <1>1
<1>4. j \in Jobs /\ Known(j.session) /\ (j.op = "login" => j.user \in Users)
  BY <1>0 DEF TypeOK, KnownInv, LateInv
<1>5. a.rows \in Seq(Rows) /\ Len(a.rows) <= MaxSessions /\ UsersKept(a.rows) /\ a.reused \in BOOLEAN
  BY <1>0, <1>4, EffectFacts
<1>6. lost # 0
  BY <1>0 DEF ActiveInv
<1>7. TypeOK'
  BY <1>0, <1>1, <1>2, <1>3, <1>5 DEF TypeOK
<1>8. LockIsReturned' /\ DataIsShownUsers' /\ LateInv' /\ CookieInv' /\ QuietInv' /\ ActiveInv'
  BY <1>0, <1>1, <1>2, <1>6
  DEF LockIsReturned, DataIsShownUsers, LateInv, CookieInv, QuietInv, InFlight, ActiveInv
<1>9. JobInv'
  BY <1>0, <1>2 DEF JobInv, InFlight, Holds
<1>10. KnownInv'
  <2>1. /\ \A s \in DOMAIN session : s \in DOMAIN session'
        /\ \A u \in Tabs :
              /\ Known(tab[u].token)'
              /\ tab'[u].phase = "authenticated" =>
                     tab'[u].token # None /\ session'[tab'[u].token].user = tab'[u].user
        /\ Known(cookie)'
    BY <1>2, <1>3, <1>5, SessionsGrow
  <2>2. \A i \in late' : Known(i.session)'
    BY <1>0, <1>1, <2>1 DEF KnownInv, Known
  <2>3. \A u \in Tabs : Known(job[u].session)'
    BY <1>0, <1>2, <2>1 DEF KnownInv, Known
  <2> QED
    BY <2>1, <2>2, <2>3 DEF KnownInv
<1> QED
  BY <1>7, <1>8, <1>9, <1>10 DEF IInv

-----------------------------------------------------------------------------

\* No step of a tab or of the server leaves the invariant.
LEMMA StepIInv == IInv /\ [Next]_vars => IInv'
<1> SUFFICES ASSUME IInv, [Next]_vars PROVE IInv'
  OBVIOUS
<1>1. CASE UNCHANGED vars
  BY <1>1 DEF vars, IInv, TypeOK, LockIsReturned, DataIsShownUsers, JobInv, LateInv, KnownInv,
              QuietInv, CookieInv, ActiveInv, InFlight, Known, Good, Holds, Stored
<1>2. ASSUME NEW t \in Tabs, NEW op \in Operations, NEW u \in Users \cup {None}, Request(t, op, u)
      PROVE  IInv'
  BY <1>2, RequestIInv
<1>3. ASSUME NEW t \in Tabs,
             \/ Refuse(t) \/ Send(t) \/ Handle(t) \/ Settle(t) \/ TimeOut(t)
             \/ Deliver(t) \/ Dispose(t) \/ Reload(t) \/ BeginRead(t) \/ EndRead(t)
      PROVE  IInv'
  BY <1>3, RefuseIInv, SendIInv, HandleIInv, SettleIInv, TimeOutIInv, DeliverIInv, DisposeIInv,
     ReloadIInv, ReadIInv
<1>4. CASE HandleLate
  BY <1>4, HandleLateIInv
<1> QED
  BY <1>1, <1>2, <1>3, <1>4 DEF Next

\* The invariant holds in every reachable state.
THEOREM Invariance == Spec => []IInv
  BY InitIInv, StepIInv, PTL DEF Spec

\* The variables keep their types.
THEOREM TypeCorrect == Spec => []TypeOK
  BY Invariance, PTL DEF IInv

\* The browser's lock always belongs to a tab that has an operation to end.
THEOREM LockReturned == Spec => []LockIsReturned
  BY Invariance, PTL DEF IInv

\* No tab keeps another user's data.
THEOREM DataPrivate == Spec => []DataIsShownUsers
  BY Invariance, PTL DEF IInv

\* Refreshes of tabs that hear each other's answers never look like a theft.
THEOREM NoFalseReuse == Spec => []ReuseOnlyAfterLoss
<1>1. IInv => ReuseOnlyAfterLoss
  BY DEF IInv, TypeOK, ActiveInv, ReuseOnlyAfterLoss
<1> QED
  BY <1>1, Invariance, PTL

\* Every signed-in tab that heard its notices is in the browser's session.
THEOREM TabsAgree == Spec => []SignedInIsCurrent
<1>1. IInv => SignedInIsCurrent
  <2> SUFFICES ASSUME IInv, NEW t \in Tabs, tab[t].phase = "authenticated", notices[t] = 0
               PROVE  /\ tab[t].token = cookie /\ session[cookie].user = tab[t].user
                      /\ lost = 0 => session[cookie].active
    BY DEF SignedInIsCurrent
  <2>1. /\ tab[t].token = cookie /\ tab[t].token # None
        /\ session[tab[t].token].user = tab[t].user
    BY DEF IInv, CookieInv, KnownInv
  <2>2. \A u \in Tabs : job[u].at # "answered"
    BY DEF IInv, QuietInv, InFlight
  <2>3. lost = 0 => session[cookie].active
    BY <2>1, <2>2 DEF IInv, ActiveInv, Good
  <2> QED
    BY <2>1, <2>3
<1> QED
  BY <1>1, Invariance, PTL
=============================================================================
