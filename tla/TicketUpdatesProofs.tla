------------------------- MODULE TicketUpdatesProofs -------------------------
(***************************************************************************)
(* For any number of agents and any number of updates: no lost update, and *)
(* no comment on a ticket being resolved.  Versions only grow, so equal    *)
(* versions mean equal rows; the lock keeps that so until the commit.      *)
(***************************************************************************)
EXTENDS TicketUpdates, TLAPS

Typing ==
    /\ ticket \in Tickets
    /\ seen \in [Agents -> Tickets \cup {None}]
    /\ job \in [Agents -> {Idle, Comment} \cup {Update(c) : c \in Commands}]
    /\ holder \in Agents \cup {None}

\* The agent in the middle of a request is the one that holds the lock.
LockInv == \A g \in Agents : job[g] # Idle <=> holder = g

\* A retrieved copy is older than the row or is the row.
CopiesAge ==
    \A g \in Agents : seen[g] # None =>
        /\ seen[g].version <= ticket.version
        /\ seen[g].version = ticket.version => seen[g] = ticket

\* What a request validated still holds.
StillValid ==
    \A g \in Agents :
        /\ job[g].op = "update" => seen[g] = ticket
        /\ job[g] = Comment => ticket.status \in Commentable

IInv == Typing /\ LockInv /\ CopiesAge /\ StillValid

\* The three kinds of request are told apart by op.
LEMMA JobKinds ==
  ASSUME NEW c
  PROVE  /\ Update(c) # Idle /\ Comment # Idle /\ Update(c) # Comment
         /\ Update(c).op = "update" /\ Comment.op # "update" /\ Idle.op # "update"
         /\ Update(c).command = c
<1>1. Update(c).op = "update" /\ Comment.op = "comment" /\ Idle.op = "idle"
  BY DEF Update, Comment, Idle
<1> QED
  BY <1>1 DEF Update

\* The mutations of a command yield a row with the same version.
LEMMA MutatedType ==
  ASSUME NEW row \in Tickets, NEW c \in Commands, NEW g \in Agents
  PROVE  Mutated(row, c, g) \in Tickets
<1> DEFINE a == IF c.assign # None THEN c.assign ELSE IF c.unassign THEN None ELSE row.assignee
           d == IF c.details # None THEN c.details ELSE row.details
           assigned == [row EXCEPT !.details = d, !.assignee = a]
<1>1. c.target \in Statuses \cup {None} /\ c.assign \in Agents \cup {None} /\ c.unassign \in BOOLEAN
       /\ c.details \in Details \cup {None}
  BY DEF Commands
<1>2. a \in Agents \cup {None} /\ d \in Details
  BY <1>1 DEF Tickets
<1>3. assigned \in Tickets
  BY <1>2 DEF Tickets
<1>4. ASSUME NEW target \in Statuses PROVE Moved(assigned, target, g) \in Tickets
  <2> HIDE DEF assigned
  <2> DEFINE s == CASE target = "resolved" -> g
                    [] target = "closed"   -> assigned.summary
                    [] OTHER               -> None
  <2> DEFINE resolved == target \in {"resolved", "closed"}
             closed == target = "closed"
  <2>1. s \in Agents \cup {None}
    BY <1>3 DEF Tickets
  <2>2. Moved(assigned, target, g) =
          [assigned EXCEPT !.status = target, !.summary = s,
                           !.resolvedAt = resolved, !.closedAt = closed]
    BY DEF Moved
  <2>3. resolved \in BOOLEAN /\ closed \in BOOLEAN
    OBVIOUS
  <2> HIDE DEF s, resolved, closed
  <2> QED
    BY <1>3, <2>1, <2>2, <2>3 DEF Tickets
<1> QED
  BY <1>1, <1>3, <1>4 DEF Mutated

\* A new ticket, nobody at work.
LEMMA InitIInv == Init => IInv
<1> SUFFICES ASSUME Init PROVE IInv
  OBVIOUS
<1>1. ticket \in Tickets
  BY DEF Init, NewTicket, Tickets, Statuses
<1>2. Idle.op # "update" /\ Idle # Comment
  BY DEF Idle, Comment
<1> QED
  BY <1>1, <1>2, NoneAssumption DEF Init, IInv, Typing, LockInv, CopiesAge, StillValid

\* The committed row is newer than every copy, and nobody else is at work.
LEMMA CommitStep ==
  ASSUME IInv, NEW g \in Agents, CommitUpdate(g)
  PROVE  IInv'
<1>0. Typing /\ LockInv /\ CopiesAge /\ StillValid
  BY DEF IInv
<1>1. PICK c \in Commands : job[g] = Update(c)
  BY <1>0, JobKinds DEF CommitUpdate, Typing
<1> DEFINE new == Mutated(ticket, c, g)
<1>2. new \in Tickets
  BY <1>0, MutatedType DEF Typing
<1>3. job[g].command = c /\ job[g] # Idle
  BY <1>1, JobKinds
<1>4. /\ \A h \in Agents \ {g} : job[h] = Idle
      /\ holder = g
  BY <1>0, <1>3 DEF LockInv
<1>5. /\ job' = [job EXCEPT ![g] = Idle]
      /\ holder' = None
      /\ seen' = seen
      /\ ticket' = ticket \/ ticket' = [new EXCEPT !.version = ticket.version + 1]
  BY <1>3 DEF CommitUpdate, NextVersion
<1> HIDE DEF new
<1>6. \A h \in Agents : job'[h] = Idle
  BY <1>0, <1>4, <1>5 DEF Typing
<1>7. ticket' \in Tickets /\ (ticket' = ticket \/ ticket'.version = ticket.version + 1)
  BY <1>0, <1>2, <1>5 DEF Typing, Tickets
<1>8. Typing'
  BY <1>0, <1>5, <1>7 DEF Typing
<1>9. CopiesAge'
  <2>1. ticket.version \in Nat /\ \A h \in Agents : seen[h] # None => seen[h].version \in Nat
    BY <1>0 DEF Typing, Tickets
  <2> QED
    BY <1>0, <1>5, <1>7, <2>1 DEF CopiesAge
<1>10. LockInv' /\ StillValid'
  BY <1>5, <1>6, NoneAssumption, JobKinds DEF LockInv, StillValid
<1> QED
  BY <1>8, <1>9, <1>10 DEF IInv

\* Every step preserves the invariant.
LEMMA StepIInv == IInv /\ [Next]_vars => IInv'
<1> SUFFICES ASSUME IInv, [Next]_vars PROVE IInv'
  OBVIOUS
<1>0. Typing /\ LockInv /\ CopiesAge /\ StillValid
  BY DEF IInv
<1>1. ASSUME NEW g \in Agents, Retrieve(g) PROVE IInv'
  <2>1. job[g] = Idle /\ seen' = [seen EXCEPT ![g] = ticket] /\ UNCHANGED <<ticket, job, holder>>
    BY <1>1 DEF Retrieve
  <2>2. ticket.version \in Nat
    BY <1>0 DEF Typing, Tickets
  <2> QED
    BY <1>0, <2>1, <2>2, JobKinds DEF IInv, Typing, LockInv, CopiesAge, StillValid
<1>2. ASSUME NEW g \in Agents, NEW c \in Commands, LockForUpdate(g, c) PROVE IInv'
  <2>1. /\ job[g] = Idle /\ holder = None /\ holder' = g
        /\ job' = [job EXCEPT ![g] = Update(c)]
        /\ UNCHANGED <<ticket, seen>>
        /\ seen[g] = ticket
    BY <1>0, <1>2 DEF LockForUpdate, RowFree, VersionMatches, CopiesAge
  <2> QED
    BY <1>0, <2>1, JobKinds, NoneAssumption DEF IInv, Typing, LockInv, CopiesAge, StillValid
<1>3. ASSUME NEW g \in Agents, CommitUpdate(g) PROVE IInv'
  BY <1>3, CommitStep
<1>4. ASSUME NEW g \in Agents, LockForComment(g) PROVE IInv'
  BY <1>0, <1>4, JobKinds, NoneAssumption
  DEF LockForComment, RowFree, IInv, Typing, LockInv, CopiesAge, StillValid
<1>5. ASSUME NEW g \in Agents, CommitComment(g) \/ RollBack(g) PROVE IInv'
  <2>1. /\ job[g] # Idle /\ job' = [job EXCEPT ![g] = Idle] /\ holder' = None
        /\ UNCHANGED <<ticket, seen>>
    BY <1>5, JobKinds DEF CommitComment, RollBack
  <2> QED
    BY <1>0, <2>1, JobKinds, NoneAssumption DEF IInv, Typing, LockInv, CopiesAge, StillValid
<1>6. CASE UNCHANGED vars
  BY <1>0, <1>6 DEF vars, IInv, Typing, LockInv, CopiesAge, StillValid
<1> QED
  BY <1>1, <1>2, <1>3, <1>4, <1>5, <1>6 DEF Next

\* The invariant holds in every reachable state.
THEOREM Invariance == Spec => []IInv
  BY InitIInv, StepIInv, PTL DEF Spec

\* An update only replaces the row its author had retrieved.
THEOREM UpdatesKeepWhatOthersWrote == Spec => NoLostUpdate
<1>1. IInv /\ [Next]_vars => [ticket' # ticket => \E g \in Agents : holder = g /\ seen[g] = ticket]_vars
  <2> SUFFICES ASSUME IInv, Next, ticket' # ticket
               PROVE  \E g \in Agents : holder = g /\ seen[g] = ticket
    BY DEF vars
  <2>1. PICK g \in Agents : CommitUpdate(g)
    BY DEF Next, Retrieve, LockForUpdate, LockForComment, CommitComment, RollBack
  <2>2. job[g].op = "update"
    BY <2>1 DEF CommitUpdate
  <2>3. holder = g /\ seen[g] = ticket
    BY <2>2, JobKinds DEF IInv, LockInv, StillValid
  <2> QED
    BY <2>3
<1> QED
  BY <1>1, Invariance, PTL DEF Spec, NoLostUpdate

\* A comment is only added to a ticket that is still open to comments, and
\* never in the step that resolves it.
THEOREM CommentsComeFirst == Spec => CommentsBeforeResolution
<1>1. IInv /\ [Next]_vars =>
        [comments' # comments => ticket.status \in Commentable /\ ticket' = ticket]_vars
  BY DEF IInv, StillValid, Next, vars, Retrieve, LockForUpdate, CommitUpdate,
         LockForComment, CommitComment, RollBack
<1> QED
  BY <1>1, Invariance, PTL DEF Spec, CommentsBeforeResolution

\* Every reachable state is well typed, for any agents: what Typing leaves
\* out, the notices and the comments, only grows by a well-typed element.
THEOREM TypeCorrect == Spec => []TypeOK
<1>1. Init => TypeOK
  <2> SUFFICES ASSUME Init PROVE TypeOK
    OBVIOUS
  <2>1. Typing
    BY InitIInv DEF IInv
  <2> QED
    BY <2>1 DEF Init, TypeOK, Typing
<1>2. IInv /\ TypeOK /\ [Next]_vars => TypeOK'
  <2> SUFFICES ASSUME IInv, TypeOK, [Next]_vars PROVE TypeOK'
    OBVIOUS
  <2>1. Typing'
    BY StepIInv DEF IInv
  <2>2. ASSUME NEW g \in Agents, CommitUpdate(g) PROVE TypeOK'
    <3>1. PICK c \in Commands : job[g] = Update(c)
      BY <2>2, JobKinds DEF IInv, Typing, CommitUpdate
    <3> DEFINE new == Mutated(ticket, c, g)
    <3>2. new \in Tickets
      BY MutatedType DEF TypeOK
    <3>3. job[g].command = c
      BY <3>1, JobKinds
    <3>4. /\ comments' = comments
          /\ notices' = notices \/ notices' = Append(notices, [status |-> new.status, by |-> g])
      BY <2>2, <3>3 DEF CommitUpdate
    <3> HIDE DEF new
    <3>5. [status |-> new.status, by |-> g] \in [status : Statuses, by : Agents]
      BY <3>2 DEF Tickets
    <3> DEFINE Notices == [status : Statuses, by : Agents]
               n == [status |-> new.status, by |-> g]
    <3>6. notices \in Seq(Notices) /\ n \in Notices
      BY <3>5 DEF TypeOK
    <3> HIDE DEF Notices, n
    <3>7. Append(notices, n) \in Seq(Notices)
      BY <3>6
    <3>8. notices' \in Seq(Notices)
      BY <3>4, <3>6, <3>7 DEF n
    <3> USE DEF Notices
    <3> QED
      BY <2>1, <3>4, <3>8 DEF TypeOK, Typing
  <2>3. ASSUME NEW g \in Agents, CommitComment(g) PROVE TypeOK'
    BY <2>1, <2>3 DEF TypeOK, Typing, CommitComment
  <2>4. CASE UNCHANGED <<notices, comments>>
    BY <2>1, <2>4 DEF TypeOK, Typing
  <2>5. (\E g \in Agents : CommitUpdate(g) \/ CommitComment(g)) \/ UNCHANGED <<notices, comments>>
    BY DEF Next, vars, Retrieve, LockForUpdate, LockForComment, RollBack
  <2> QED
    BY <2>2, <2>3, <2>4, <2>5
<1> QED
  BY <1>1, <1>2, Invariance, PTL DEF Spec

-----------------------------------------------------------------------------

\* What validation accepted is acceptable until it is committed: the row does
\* not change under the lock.
CommandsValid == \A g \in Agents : job[g].op = "update" => Valid(ticket, job[g].command)

\* A mutated row differs from the old one in status only by a legal move, and
\* then carries the timestamps and the summary of where it moved to.
LEMMA MutatedFacts ==
  ASSUME NEW row \in Tickets, NEW c \in Commands, NEW g \in Agents, Valid(row, c),
         NEW new, new = Mutated(row, c, g)
  PROVE  \/ /\ new.status = row.status /\ new.summary = row.summary
            /\ new.resolvedAt = row.resolvedAt /\ new.closedAt = row.closedAt
         \/ /\ new.status # row.status
            /\ new.status \in Transitions[row.status]
            /\ new.summary = CASE new.status = "resolved" -> g
                               [] new.status = "closed"   -> row.summary
                               [] OTHER                   -> None
            /\ new.resolvedAt = (new.status \in {"resolved", "closed"})
            /\ new.closedAt = (new.status = "closed")
<1> DEFINE a == IF c.assign # None THEN c.assign ELSE IF c.unassign THEN None ELSE row.assignee
           d == IF c.details # None THEN c.details ELSE row.details
           assigned == [row EXCEPT !.details = d, !.assignee = a]
<1>1. /\ assigned.status = row.status /\ assigned.summary = row.summary
      /\ assigned.resolvedAt = row.resolvedAt /\ assigned.closedAt = row.closedAt
      /\ DOMAIN assigned = DOMAIN row
  BY DEF Tickets
<1>2. new = IF c.target \in {None, row.status} THEN assigned ELSE Moved(assigned, c.target, g)
  BY DEF Mutated
<1>3. DOMAIN assigned = {"status", "version", "assignee", "details", "summary", "resolvedAt", "closedAt"}
  BY <1>1 DEF Tickets
<1> HIDE DEF assigned
<1>4. CASE c.target \in {None, row.status}
  BY <1>1, <1>2, <1>4
<1>5. CASE c.target \notin {None, row.status}
  <2> DEFINE s == CASE c.target = "resolved" -> g
                    [] c.target = "closed"   -> assigned.summary
                    [] OTHER                 -> None
             resolved == c.target \in {"resolved", "closed"}
             closed == c.target = "closed"
  <2>1. new = [assigned EXCEPT !.status = c.target, !.summary = s,
                               !.resolvedAt = resolved, !.closedAt = closed]
    BY <1>2, <1>5 DEF Moved
  <2> HIDE DEF s, resolved, closed
  <2>2. new.status = c.target /\ new.summary = s /\ new.resolvedAt = resolved /\ new.closedAt = closed
    BY <1>3, <2>1
  <2>3. c.target \in Transitions[row.status]
    BY <1>5 DEF Valid
  <2>4. s = CASE new.status = "resolved" -> g
              [] new.status = "closed"   -> row.summary
              [] OTHER                   -> None
    BY <1>1, <2>2 DEF s
  <2> QED
    BY <1>5, <2>2, <2>3, <2>4 DEF resolved, closed
<1> QED
  BY <1>4, <1>5

\* Only a resolved ticket is closed, and no status leads to itself.
LEMMA TransitionFacts ==
  ASSUME NEW s \in Statuses, NEW t \in Transitions[s]
  PROVE  /\ t \in Statuses \ {s}
         /\ t = "closed" => s = "resolved"
  BY DEF Transitions, Statuses

\* One more notice tells one more status and leaves the earlier ones.
LEMMA AppendedNotice ==
  ASSUME TypeOK, NEW n \in [status : Statuses, by : Agents], notices' = Append(notices, n)
  PROVE  /\ Len(notices') = Len(notices) + 1
         /\ \A i \in 1..Len(notices) : notices'[i] = notices[i]
         /\ notices'[Len(notices) + 1] = n
         /\ \A i \in 0..Len(notices) : Told(notices', i) = Told(notices, i)
         /\ Told(notices', Len(notices) + 1) = n.status
<1> DEFINE Notices == [status : Statuses, by : Agents]
<1>1. notices \in Seq(Notices) /\ n \in Notices
  BY DEF TypeOK
<1> HIDE DEF Notices
<1>2. /\ Len(notices') = Len(notices) + 1 /\ Len(notices) \in Nat
      /\ \A i \in 1..Len(notices) : notices'[i] = notices[i]
      /\ notices'[Len(notices) + 1] = n
  BY <1>1
<1>3. \A i \in 0..Len(notices) : Told(notices', i) = Told(notices, i)
  BY <1>2 DEF Told
<1>4. Told(notices', Len(notices) + 1) = n.status
  BY <1>2 DEF Told
<1> QED
  BY <1>2, <1>3, <1>4

\* The commands of the transactions under way stay valid.
LEMMA StepCommandsValid == IInv /\ CommandsValid /\ [Next]_vars => CommandsValid'
<1> SUFFICES ASSUME IInv, CommandsValid, [Next]_vars PROVE CommandsValid'
  OBVIOUS
<1>0. Typing /\ LockInv
  BY DEF IInv
<1>1. ASSUME NEW g \in Agents, NEW c \in Commands, LockForUpdate(g, c) PROVE CommandsValid'
  <2>1. job' = [job EXCEPT ![g] = Update(c)] /\ ticket' = ticket /\ Valid(ticket, c)
    BY <1>1 DEF LockForUpdate
  <2>2. \A h \in Agents : job'[h] = IF h = g THEN Update(c) ELSE job[h]
    BY <1>0, <2>1 DEF Typing
  <2>3. ASSUME NEW h \in Agents, job'[h].op = "update" PROVE Valid(ticket, job'[h].command)
    BY <2>1, <2>2, <2>3, JobKinds DEF CommandsValid
  <2> QED
    BY <2>1, <2>3 DEF CommandsValid, Valid
<1>2. ASSUME NEW g \in Agents, CommitUpdate(g) PROVE CommandsValid'
  <2>1. job[g] # Idle /\ job' = [job EXCEPT ![g] = Idle]
    BY <1>2, JobKinds DEF CommitUpdate
  <2>2. \A h \in Agents : job'[h] = Idle
    BY <1>0, <2>1 DEF Typing, LockInv
  <2> QED
    BY <2>2, JobKinds DEF CommandsValid
<1>3. ASSUME NEW g \in Agents,
             Retrieve(g) \/ LockForComment(g) \/ CommitComment(g) \/ RollBack(g)
      PROVE  CommandsValid'
  <2>1. ticket' = ticket /\ \A h \in Agents : job'[h] = job[h] \/ job'[h] \in {Idle, Comment}
    BY <1>0, <1>3 DEF Typing, Retrieve, LockForComment, CommitComment, RollBack
  <2>2. ASSUME NEW h \in Agents, job'[h].op = "update" PROVE Valid(ticket, job'[h].command)
    BY <2>1, <2>2, JobKinds DEF CommandsValid
  <2> QED
    BY <2>1, <2>2 DEF CommandsValid, Valid
<1>4. CASE UNCHANGED vars
  BY <1>4 DEF vars, CommandsValid, Valid
<1> QED
  BY <1>1, <1>2, <1>3, <1>4 DEF Next

\* A committed move adds the notice that tells it.
LEMMA CommitTells ==
  ASSUME IInv, TypeOK, CommandsValid, NoticesTellTicket, NEW g \in Agents, CommitUpdate(g)
  PROVE  NoticesTellTicket'
<1>1. PICK c \in Commands : job[g] = Update(c)
  BY JobKinds DEF IInv, Typing, CommitUpdate
<1> DEFINE new == Mutated(ticket, c, g)
<1>2. job[g].op = "update" /\ job[g].command = c
  BY <1>1, JobKinds
<1>3. new \in Tickets
  BY MutatedType DEF TypeOK
<1>4. \/ UNCHANGED <<ticket, notices>>
      \/ /\ ticket' = [new EXCEPT !.version = ticket.version + 1]
         /\ notices' = IF ticket.status # new.status
                       THEN Append(notices, [status |-> new.status, by |-> g])
                       ELSE notices
  BY <1>2 DEF CommitUpdate, NextVersion, Noticed
<1>5. /\ ticket \in Tickets /\ ticket.status \in Statuses /\ Len(notices) \in Nat
  BY DEF TypeOK, Tickets
<1>6. Valid(ticket, c)
  BY <1>2 DEF CommandsValid
<1>7. \/ /\ new.status = ticket.status /\ new.summary = ticket.summary
         /\ new.resolvedAt = ticket.resolvedAt /\ new.closedAt = ticket.closedAt
      \/ /\ new.status # ticket.status
         /\ new.status \in Transitions[ticket.status]
         /\ new.summary = CASE new.status = "resolved" -> g
                            [] new.status = "closed"   -> ticket.summary
                            [] OTHER                   -> None
         /\ new.resolvedAt = (new.status \in {"resolved", "closed"})
         /\ new.closedAt = (new.status = "closed")
  BY <1>5, <1>6, MutatedFacts
<1> HIDE DEF new
<1>8. CASE UNCHANGED <<ticket, notices>>
  BY <1>8 DEF NoticesTellTicket, Told
<1>9. CASE ticket' = [new EXCEPT !.version = ticket.version + 1]
  <2>1. /\ ticket'.status = new.status /\ ticket'.summary = new.summary
        /\ ticket'.resolvedAt = new.resolvedAt /\ ticket'.closedAt = new.closedAt
    BY <1>3, <1>9 DEF Tickets
  <2>2. CASE new.status = ticket.status
    <3>1. /\ ticket'.status = ticket.status /\ ticket'.summary = ticket.summary
          /\ ticket'.resolvedAt = ticket.resolvedAt /\ ticket'.closedAt = ticket.closedAt
      BY <1>7, <2>1, <2>2
    <3>2. notices' = notices
      BY <1>4, <2>2
    <3>3. \A i : Told(notices', i) = Told(notices, i)
      BY <3>2 DEF Told
    <3> QED
      BY <3>1, <3>2, <3>3 DEF NoticesTellTicket
  <2>3. CASE new.status # ticket.status
    <3> DEFINE n == [status |-> new.status, by |-> g]
               last == Len(notices) + 1
    <3>1. n \in [status : Statuses, by : Agents]
      BY <1>3 DEF Tickets
    <3>2. notices' = Append(notices, n)
      BY <1>4, <2>1, <2>3
    <3>3. /\ Len(notices') = last
          /\ \A i \in 1..Len(notices) : notices'[i] = notices[i]
          /\ notices'[last] = n
          /\ \A i \in 0..Len(notices) : Told(notices', i) = Told(notices, i)
          /\ Told(notices', last) = new.status
      BY <3>1, <3>2, AppendedNotice
    <3>4. ticket'.status = Told(notices', Len(notices'))
      BY <2>1, <3>3
    <3>5. ASSUME NEW i \in 1..Len(notices') PROVE Told(notices', i) \in Transitions[Told(notices', i - 1)]
      <4>1. CASE i \in 1..Len(notices)
        <5>1. i - 1 \in 0..Len(notices) /\ i \in 0..Len(notices)
          BY <1>5, <4>1
        <5> QED
          BY <3>3, <4>1, <5>1 DEF NoticesTellTicket
      <4>2. CASE i = last
        <5>1. i - 1 = Len(notices) /\ Len(notices) \in 0..Len(notices)
          BY <1>5, <4>2
        <5>2. Told(notices', i - 1) = ticket.status
          BY <3>3, <5>1 DEF NoticesTellTicket
        <5> QED
          BY <1>7, <2>3, <3>3, <4>2, <5>2
      <4> QED
        BY <1>5, <3>3, <4>1, <4>2
    <3>6. /\ ticket'.closedAt <=> ticket'.status = "closed"
          /\ ticket'.resolvedAt <=> ticket'.status \in {"resolved", "closed"}
      BY <1>7, <2>1, <2>3
    <3>7. CASE new.status = "resolved"
      <4>1. notices'[last] = [status |-> "resolved", by |-> ticket'.summary]
        BY <1>7, <2>1, <2>3, <3>3, <3>7
      <4>2. last \in 1..Len(notices') /\ last + 1..Len(notices') = {}
        BY <1>5, <3>3
      <4> QED
        BY <2>1, <3>3, <3>4, <3>5, <3>6, <3>7, <4>1, <4>2 DEF NoticesTellTicket
    <3>8. CASE new.status = "closed"
      <4>1. ticket.status = "resolved" /\ ticket'.summary = ticket.summary
        BY <1>5, <1>7, <2>1, <2>3, <3>8, TransitionFacts
      <4>2. PICK i \in 1..Len(notices) :
               /\ notices[i] = [status |-> "resolved", by |-> ticket.summary]
               /\ \A j \in i + 1..Len(notices) : Told(notices, j) # "resolved"
        BY <4>1 DEF NoticesTellTicket
      <4>3. ASSUME NEW j \in i + 1..Len(notices') PROVE Told(notices', j) # "resolved"
        <5>1. j = last \/ j \in i + 1..Len(notices)
          BY <1>5, <3>3
        <5>2. j \in i + 1..Len(notices) => j \in 0..Len(notices)
          BY <1>5, <4>2
        <5> QED
          BY <3>3, <3>8, <4>2, <5>1, <5>2
      <4>4. i \in 1..Len(notices') /\ notices'[i] = [status |-> "resolved", by |-> ticket'.summary]
        BY <1>5, <3>3, <4>1, <4>2
      <4> QED
        BY <2>1, <3>4, <3>5, <3>6, <3>8, <4>3, <4>4 DEF NoticesTellTicket
    <3>9. CASE new.status \notin {"resolved", "closed"}
      <4>1. ticket'.summary = None
        BY <1>7, <2>1, <2>3, <3>9
      <4> QED
        BY <2>1, <3>4, <3>5, <3>6, <3>9, <4>1 DEF NoticesTellTicket
    <3> QED
      BY <3>7, <3>8, <3>9
  <2> QED
    BY <2>2, <2>3
<1> QED
  BY <1>4, <1>8, <1>9

\* The customer can follow the ticket from the conversation: the notices
\* spell out its statuses without a gap, and name who wrote the resolution it
\* shows.
THEOREM NoticesTell == Spec => []NoticesTellTicket
<1>1. Init => NoticesTellTicket /\ CommandsValid
  <2> SUFFICES ASSUME Init PROVE NoticesTellTicket /\ CommandsValid
    OBVIOUS
  <2>1. PICK d \in Details : ticket = NewTicket(d)
    BY DEF Init
  <2>2. /\ ticket.status = "open" /\ ticket.summary = None
        /\ ticket.resolvedAt = FALSE /\ ticket.closedAt = FALSE
    BY <2>1 DEF NewTicket
  <2>3. Len(notices) = 0 /\ 1..Len(notices) = {}
    BY DEF Init
  <2>4. NoticesTellTicket
    BY <2>2, <2>3 DEF NoticesTellTicket, Told
  <2> QED
    BY <2>4, JobKinds DEF Init, CommandsValid
<1>2. IInv /\ TypeOK /\ CommandsValid /\ NoticesTellTicket /\ [Next]_vars => NoticesTellTicket'
  <2> SUFFICES ASSUME IInv, TypeOK, CommandsValid, NoticesTellTicket, [Next]_vars
               PROVE  NoticesTellTicket'
    OBVIOUS
  <2>1. CASE UNCHANGED <<ticket, notices>>
    BY <2>1 DEF NoticesTellTicket, Told
  <2>2. (\E g \in Agents : CommitUpdate(g)) \/ UNCHANGED <<ticket, notices>>
    BY DEF Next, vars, Retrieve, LockForUpdate, LockForComment, CommitComment, RollBack
  <2> QED
    BY <2>1, <2>2, CommitTells
<1> QED
  BY <1>1, <1>2, StepCommandsValid, Invariance, TypeCorrect, PTL DEF Spec
=============================================================================
