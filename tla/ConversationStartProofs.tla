---------------------- MODULE ConversationStartProofs ----------------------
(***************************************************************************)
(* What is proved of ConversationStart for every number of attempts, every *)
(* lease and retention time, and without the bounds of the TLC instances   *)
(* (MaxClock and MaxFaults only disable steps).                            *)
(*                                                                         *)
(* IInv is the inductive invariant.  Its parts: what a pending attempt     *)
(* carries (PendingInv), how the row's status, token and lease end relate  *)
(* to the leases granted so far (LeaseInv), and what a stored result says  *)
(* of its run (SnapshotInv).                                               *)
(***************************************************************************)
EXTENDS ConversationStart, ConversationTitle, FiniteSetTheorems, TLAPS

BeforeLease == {"idle", "lookup", "insert", "reload", "load", "acquire", "resolve"}

Durable(a, o) ==
    /\ runs[a] = (IF o = "failed" THEN "failed" ELSE "completed")
    /\ o # "failed" => a \in answers

\* What an attempt at a location carries: no lease before it was granted
\* one, an outcome once the pipeline returned, a durable one once finalized,
\* and the stored one once recorded.
PendingInv ==
    \A a \in Attempts :
        /\ pc[a] \in BeforeLease => leaseAt[a] = None
        /\ pc[a] \in {"finalize", "persist"} => outcome[a] \in Outcomes
        /\ pc[a] = "persist" => Durable(a, outcome[a])
        /\ pc[a] = "recorded" => outcome[a] \in Outcomes

\* The row and the conversation it was committed with.
ConversationInv ==
    IF request.status = "absent"
    THEN conversations = {}
    ELSE \E c \in Attempts : conversations = {c}

\* Leases are granted from an accepted row on, each after the one before it.
LeaseInv ==
    /\ request.status \in {"absent", "accepted"} => \A a \in Attempts : ~HeldLease(a)
    /\ request.status = "processing" =>
           /\ request.token \in Attempts
           /\ HeldLease(request.token)
           /\ request.leaseEnd = leaseAt[request.token] + Lease
           /\ \A a \in Attempts : HeldLease(a) /\ a # request.token =>
                  leaseAt[a] + Lease <= leaseAt[request.token]

\* A result is stored exactly in a terminal row, by an attempt that changes
\* nothing more; only that attempt answers with a result of its own.
SnapshotInv ==
    /\ Terminal <=> request.snapshot # None
    /\ request.snapshot # None =>
           /\ pc[request.snapshot.run] \in {"recorded", "replied", "crashed"}
           /\ Durable(request.snapshot.run, request.snapshot.outcome)
    /\ \A a \in Attempts :
           /\ reply[a] \in {None, request.snapshot}
           /\ pc[a] = "recorded" => request.snapshot = [run |-> a, outcome |-> outcome[a]]

IInv ==
    /\ TypeOK
    /\ PendingInv
    /\ ConversationInv
    /\ LeaseInv
    /\ LeaseWindowsDisjoint
    /\ LatestHolderRecorded
    /\ SnapshotInv

-----------------------------------------------------------------------------

LEMMA InitIInv == Init => IInv
  <1> SUFFICES ASSUME Init PROVE IInv
    OBVIOUS
  <1> USE DEF Init, NoRequest
  <1>1. TypeOK
    BY DEF TypeOK, Requests, Statuses, RunStatuses, Locations
  <1>2. PendingInv /\ LeaseInv /\ ConversationInv /\ SnapshotInv
    BY DEF PendingInv, ConversationInv, LeaseInv, SnapshotInv, HeldLease, Terminal
  <1>3. LeaseWindowsDisjoint /\ LatestHolderRecorded
    BY DEF LeaseWindowsDisjoint, LatestHolderRecorded, HeldLease, Terminal
  <1> QED
    BY <1>1, <1>2, <1>3 DEF IInv

\* Each statement writes a well-formed row.
LEMMA RowTypes ==
    ASSUME TypeOK, NEW a \in Attempts
    PROVE  /\ AcceptedRow(a) \in Requests
           /\ LeasedRow(a) \in Requests
           /\ outcome[a] \in Outcomes => FinishedRow(a) \in Requests
  <1>1. /\ clock[a] \in Nat /\ clock[a] + TTL \in Nat /\ clock[a] + Lease \in Nat
        /\ fingerprint[a] \in Fingerprints \cup {None}
        /\ request \in Requests
    BY DurationAssumption DEF TypeOK
  <1>2. AcceptedRow(a) \in Requests
    BY <1>1 DEF AcceptedRow, Requests, Statuses
  <1>3. LeasedRow(a) \in Requests
    <2> DEFINE end == clock[a] + Lease
               n   == request.attempts + 1
    <2>1. end \in Nat /\ n \in Nat
      BY <1>1 DEF Requests
    <2>2. LeasedRow(a) = [request EXCEPT !.status = "processing", !.token = a,
                                         !.leaseEnd = end, !.attempts = n]
      BY DEF LeasedRow
    <2> HIDE DEF end, n
    <2> QED
      BY <1>1, <2>1, <2>2 DEF Requests, Statuses
  <1>4. ASSUME outcome[a] \in Outcomes PROVE FinishedRow(a) \in Requests
    BY <1>1, <1>4 DEF FinishedRow, Requests, Statuses, Results
  <1> QED
    BY <1>2, <1>3, <1>4

\* Type correctness needs only that a finalized attempt has an outcome.
LEMMA TypeStep == TypeOK /\ PendingInv /\ [Next]_vars => TypeOK'
  <1> SUFFICES ASSUME TypeOK, PendingInv, [Next]_vars PROVE TypeOK'
    OBVIOUS
  <1> USE DurationAssumption, NoneAssumption
      DEF TypeOK, Requests, Statuses, RunStatuses, Locations, Working, Refusals,
          Goto, ReadClock
  <1>1. ASSUME NEW a \in Attempts, Accepting(a) PROVE TypeOK'
    <2>1. CASE InsertAccepted(a)
      BY <2>1, RowTypes DEF InsertAccepted
    <2>2. ASSUME NEW f \in Fingerprints, Arrive(a, f) PROVE TypeOK'
      BY <2>2 DEF Arrive
    <2>3. CASE Lookup(a)
      BY <2>3 DEF Lookup, ExistingResult
    <2>4. CASE InsertConflict(a)
      BY <2>4 DEF InsertConflict
    <2>5. CASE Reload(a)
      BY <2>5 DEF Reload, ExistingResult
    <2> QED
      BY <1>1, <2>1, <2>2, <2>3, <2>4, <2>5 DEF Accepting
  <1>2. ASSUME NEW a \in Attempts, Leasing(a) PROVE TypeOK'
    <2>1. CASE LoadTerminal(a)
      BY <2>1 DEF LoadTerminal, ReplySnapshot
    <2>2. CASE AcquireLease(a)
      BY <2>2, RowTypes DEF AcquireLease
    <2>3. CASE LeaseUnavailable(a)
      BY <2>3 DEF LeaseUnavailable
    <2>4. CASE ResolveUnavailable(a)
      BY <2>4 DEF ResolveUnavailable, ReplySnapshot
    <2> QED
      BY <1>2, <2>1, <2>2, <2>3, <2>4 DEF Leasing
  <1>3. ASSUME NEW a \in Attempts, Processing(a) PROVE TypeOK'
    <2>1. CASE PersistTerminal(a)
      <3>1. outcome[a] \in Outcomes
        BY <2>1 DEF PersistTerminal, PendingInv
      <3> QED
        BY <2>1, <3>1, RowTypes DEF PersistTerminal
    <2>2. CASE Respond(a)
      <3>1. [run |-> a, outcome |-> outcome[a]] \in Results
        BY <2>2 DEF Respond, PendingInv, Results
      <3> QED
        BY <2>2, <3>1 DEF Respond
    <2>3. CASE FinalizeRun(a)
      <3>1. closed' \in BOOLEAN
        BY <2>3 DEF FinalizeRun
      <3> QED
        BY <2>3, <3>1 DEF FinalizeRun
    <2>4. CASE StartRun(a) \/ (\E o \in Outcomes : RunPipeline(a, o)) \/ PersistLost(a)
      BY <2>4 DEF StartRun, RunPipeline, PersistLost, Outcomes
    <2> QED
      BY <1>3, <2>1, <2>2, <2>3, <2>4 DEF Processing
  <1>4. ASSUME NEW a \in Attempts, Abort(a) \/ Crash(a) \/ Retry(a) PROVE TypeOK'
    BY <1>4 DEF Abort, Crash, Retry
  <1>5. CASE Close
    BY <1>5 DEF Close, attemptVars
  <1>6. CASE Tick
    BY <1>6 DEF Tick, attemptVars
  <1>7. CASE UNCHANGED vars
    BY <1>7 DEF vars, attemptVars
  <1> QED
    BY <1>1, <1>2, <1>3, <1>4, <1>5, <1>6, <1>7 DEF Next, Step

\* Every step but the grant of a lease leaves leaseAt alone; a lease goes to
\* an attempt that had none.
LEMMA PendingStep == TypeOK /\ PendingInv /\ [Next]_vars => PendingInv'
  <1> SUFFICES ASSUME TypeOK, PendingInv, [Next]_vars PROVE PendingInv'
    OBVIOUS
  <1> USE DEF TypeOK, PendingInv, Durable, BeforeLease, Goto, ReadClock
  <1>1. ASSUME NEW a \in Attempts, Accepting(a) PROVE PendingInv'
    <2>1. ASSUME NEW f \in Fingerprints, Arrive(a, f) PROVE PendingInv'
      BY <2>1 DEF Arrive
    <2>2. CASE Lookup(a)
      BY <2>2 DEF Lookup, ExistingResult
    <2>3. CASE InsertAccepted(a) \/ InsertConflict(a)
      BY <2>3 DEF InsertAccepted, InsertConflict
    <2>4. CASE Reload(a)
      BY <2>4 DEF Reload, ExistingResult
    <2> QED
      BY <1>1, <2>1, <2>2, <2>3, <2>4 DEF Accepting
  <1>2. ASSUME NEW a \in Attempts, Leasing(a) PROVE PendingInv'
    BY <1>2 DEF Leasing, LoadTerminal, AcquireLease, LeaseUnavailable,
                ResolveUnavailable, ReplySnapshot
  <1>3. ASSUME NEW a \in Attempts, Processing(a) PROVE PendingInv'
    <2>1. CASE StartRun(a)
      BY <2>1 DEF StartRun
    <2>2. ASSUME NEW o \in Outcomes, RunPipeline(a, o) PROVE PendingInv'
      BY <2>2 DEF RunPipeline
    <2>3. CASE FinalizeRun(a)
      BY <2>3 DEF FinalizeRun
    <2>4. CASE PersistTerminal(a) \/ PersistLost(a) \/ Respond(a)
      BY <2>4 DEF PersistTerminal, PersistLost, Respond
    <2> QED
      BY <1>3, <2>1, <2>2, <2>3, <2>4 DEF Processing
  <1>4. ASSUME NEW a \in Attempts, Abort(a) \/ Crash(a) \/ Retry(a) PROVE PendingInv'
    BY <1>4 DEF Abort, Crash, Retry
  <1>5. CASE Close \/ Tick \/ UNCHANGED vars
    BY <1>5 DEF Close, Tick, vars, attemptVars
  <1> QED
    BY <1>1, <1>2, <1>3, <1>4, <1>5 DEF Next, Step

\* Every step but the five that write the row or grant a lease leaves both
\* alone, and with them what only reads them.
RowUnchanged == UNCHANGED <<request, leaseAt>>

LEMMA RowWriters ==
    ASSUME [Next]_vars
    PROVE  \/ RowUnchanged
           \/ \E a \in Attempts : InsertAccepted(a) \/ AcquireLease(a) \/ PersistTerminal(a)
  <1>1. ASSUME NEW a \in Attempts, Step(a) \/ Abort(a) \/ Crash(a) \/ Retry(a)
        PROVE  RowUnchanged \/ InsertAccepted(a) \/ AcquireLease(a) \/ PersistTerminal(a)
    BY <1>1 DEF RowUnchanged, Step, Accepting, Arrive, Lookup, InsertConflict, Reload,
                Leasing, LoadTerminal, LeaseUnavailable, ResolveUnavailable,
                Processing, StartRun, RunPipeline, FinalizeRun, PersistLost, Respond,
                Abort, Crash, Retry
  <1>2. CASE Close \/ Tick \/ UNCHANGED vars
    BY <1>2 DEF RowUnchanged, Close, Tick, vars, attemptVars
  <1> QED
    BY <1>1, <1>2 DEF Next

LEMMA LeaseStep ==
    TypeOK /\ PendingInv /\ LeaseInv /\ LeaseWindowsDisjoint /\ LatestHolderRecorded
        /\ [Next]_vars
    => LeaseInv' /\ LeaseWindowsDisjoint' /\ LatestHolderRecorded'
  <1> SUFFICES ASSUME TypeOK, PendingInv, LeaseInv, LeaseWindowsDisjoint,
                      LatestHolderRecorded, [Next]_vars
               PROVE  LeaseInv' /\ LeaseWindowsDisjoint' /\ LatestHolderRecorded'
    OBVIOUS
  <1> USE DurationAssumption, NoneAssumption DEF HeldLease, Terminal
  <1>1. ASSUME NEW a \in Attempts, InsertAccepted(a)
        PROVE  LeaseInv' /\ LeaseWindowsDisjoint' /\ LatestHolderRecorded'
    BY <1>1 DEF InsertAccepted, KeyTaken, AcceptedRow, LeaseInv, LeaseWindowsDisjoint,
                LatestHolderRecorded
  <1>2. ASSUME NEW a \in Attempts, AcquireLease(a)
        PROVE  LeaseInv' /\ LeaseWindowsDisjoint' /\ LatestHolderRecorded'
    <2>1. /\ request' = LeasedRow(a)
          /\ request'.status = "processing" /\ request'.token = a
          /\ request'.leaseEnd = clock[a] + Lease
      BY <1>2 DEF AcquireLease, LeasedRow, TypeOK, Requests
    <2>2. /\ leaseAt[a] = None
          /\ leaseAt'[a] = clock[a] /\ clock[a] \in Nat
          /\ \A b \in Attempts : b # a => leaseAt'[b] = leaseAt[b]
      BY <1>2 DEF AcquireLease, TypeOK, PendingInv, BeforeLease
    <2>3. \A b \in Attempts : HeldLease(b) => leaseAt[b] \in Nat
      BY DEF TypeOK
    <2>4. \A b \in Attempts : HeldLease(b) => leaseAt[b] + Lease <= clock[a]
      <3>1. CASE request.status = "accepted"
        BY <3>1 DEF LeaseInv
      <3>2. CASE request.status = "processing" /\ request.leaseEnd <= clock[a]
        BY <2>2, <2>3, <3>2 DEF LeaseInv
      <3> QED
        BY <1>2, <3>1, <3>2 DEF AcquireLease, Claimable
    <2>5. LeaseInv'
      BY <2>1, <2>2, <2>4 DEF LeaseInv
    <2>6. LeaseWindowsDisjoint'
      BY <2>2, <2>4 DEF LeaseWindowsDisjoint
    <2>7. LatestHolderRecorded'
      BY <2>1 DEF LatestHolderRecorded
    <2> QED
      BY <2>5, <2>6, <2>7
  <1>3. ASSUME NEW a \in Attempts, PersistTerminal(a)
        PROVE  LeaseInv' /\ LeaseWindowsDisjoint' /\ LatestHolderRecorded'
    <2>1. /\ request.status = "processing" /\ request.token = a
          /\ request'.status \in {"completed", "failed"}
          /\ request'.snapshot.run = a
          /\ leaseAt' = leaseAt
      BY <1>3 DEF PersistTerminal, MayFinish, FinishedRow, TypeOK, Requests
    <2>2. \A b \in Attempts : HeldLease(b) => leaseAt[b] \in Nat
      BY DEF TypeOK
    <2>3. \A b \in Attempts : HeldLease(b) => leaseAt[b] <= leaseAt[a]
      BY <2>1, <2>2 DEF LeaseInv
    <2> QED
      BY <2>1, <2>3 DEF LeaseInv, LeaseWindowsDisjoint, LatestHolderRecorded
  <1>4. CASE RowUnchanged
    BY <1>4 DEF RowUnchanged, LeaseInv, LeaseWindowsDisjoint, LatestHolderRecorded
  <1> QED
    BY <1>1, <1>2, <1>3, <1>4, RowWriters

LEMMA ConversationStep ==
    TypeOK /\ ConversationInv /\ [Next]_vars => ConversationInv'
  <1> SUFFICES ASSUME TypeOK, ConversationInv, [Next]_vars PROVE ConversationInv'
    OBVIOUS
  <1>1. ASSUME NEW a \in Attempts, InsertAccepted(a) PROVE ConversationInv'
    BY <1>1 DEF InsertAccepted, KeyTaken, AcceptedRow, ConversationInv
  <1>2. ASSUME NEW a \in Attempts, AcquireLease(a) \/ PersistTerminal(a)
        PROVE  ConversationInv'
    BY <1>2 DEF AcquireLease, PersistTerminal, Claimable, MayFinish, LeasedRow, FinishedRow,
                TypeOK, Requests, ConversationInv
  <1>3. ASSUME RowUnchanged, ~ \E a \in Attempts : InsertAccepted(a)
        PROVE  conversations' = conversations
    BY <1>3 DEF Next, Step, Accepting, Arrive, Lookup, InsertConflict, Reload,
                Leasing, LoadTerminal, AcquireLease, LeaseUnavailable, ResolveUnavailable,
                Processing, StartRun, RunPipeline, FinalizeRun, PersistTerminal, PersistLost,
                Respond, Abort, Crash, Retry, Close, Tick, vars, attemptVars
  <1> QED
    BY <1>1, <1>2, <1>3, RowWriters DEF ConversationInv, RowUnchanged

\* The run a stored result names belongs to an attempt that has nothing left
\* to do but answer, so what the result says of it stays true.
LEMMA SnapshotStep ==
    TypeOK /\ PendingInv /\ SnapshotInv /\ [Next]_vars => SnapshotInv'
  <1> SUFFICES ASSUME TypeOK, PendingInv, SnapshotInv, [Next]_vars PROVE SnapshotInv'
    OBVIOUS
  <1> USE NoneAssumption DEF Durable, Terminal, Goto
  <1>0. request.snapshot # None => request.snapshot.run \in Attempts
    BY DEF TypeOK, Requests, Results
  <1>1. ASSUME NEW a \in Attempts, InsertAccepted(a) PROVE SnapshotInv'
    BY <1>1 DEF InsertAccepted, KeyTaken, AcceptedRow, SnapshotInv, TypeOK
  <1>2. ASSUME NEW a \in Attempts, AcquireLease(a) PROVE SnapshotInv'
    <2>1. /\ request.snapshot = None /\ request'.snapshot = None
          /\ request'.status = "processing"
      BY <1>2 DEF AcquireLease, Claimable, LeasedRow, SnapshotInv, TypeOK, Requests
    <2> QED
      BY <1>2, <2>1 DEF AcquireLease, SnapshotInv
  <1>3. ASSUME NEW a \in Attempts, PersistTerminal(a) PROVE SnapshotInv'
    <2> DEFINE r == [run |-> a, outcome |-> outcome[a]]
    <2>1. outcome[a] \in Outcomes /\ Durable(a, outcome[a])
      BY <1>3 DEF PersistTerminal, PendingInv
    <2>2. r \in Results /\ r # None
      BY <2>1 DEF Results
    <2>3. request.snapshot = None
      BY <1>3 DEF PersistTerminal, MayFinish, SnapshotInv
    <2>4. /\ request'.snapshot = r
          /\ request'.status \in {"completed", "failed"}
      BY <1>3 DEF PersistTerminal, FinishedRow, TypeOK, Requests
    <2>5. /\ pc' = [pc EXCEPT ![a] = "recorded"] /\ pc \in [Attempts -> Locations]
          /\ UNCHANGED <<reply, outcome>>
      BY <1>3 DEF PersistTerminal, TypeOK
    <2>6. \A b \in Attempts : reply'[b] \in {None, r}
      BY <2>3, <2>5 DEF SnapshotInv, TypeOK
    <2>7. /\ runs'[r.run] = (IF r.outcome = "failed" THEN "failed" ELSE "completed")
          /\ r.outcome # "failed" => r.run \in answers'
      BY <1>3, <2>1 DEF PersistTerminal
    <2>8. r.run = a
      OBVIOUS
    <2>9. \A b \in Attempts : pc'[b] = "recorded" => r = [run |-> b, outcome |-> outcome'[b]]
      <3>1. \A b \in Attempts : pc[b] # "recorded"
        BY <2>3 DEF SnapshotInv, PendingInv, Results
      <3> QED
        BY <2>5, <3>1
    <2> HIDE DEF r
    <2>10. pc'[request'.snapshot.run] = "recorded"
      BY <2>4, <2>5, <2>8
    <2>11. Durable(request.snapshot.run, request.snapshot.outcome)'
      BY <2>4, <2>7
    <2>12. Terminal' /\ request'.snapshot # None
      BY <2>2, <2>4
    <2>13. \A b \in Attempts :
             /\ reply'[b] \in {None, request'.snapshot}
             /\ pc'[b] = "recorded" =>
                    request'.snapshot = [run |-> b, outcome |-> outcome'[b]]
      BY <2>4, <2>6, <2>9
    <2> QED
      BY <2>10, <2>11, <2>12, <2>13 DEF SnapshotInv
  <1>4. CASE RowUnchanged
    <2>1. ASSUME NEW a \in Attempts, Accepting(a) PROVE SnapshotInv'
      BY <1>0, <1>4, <2>1 DEF RowUnchanged, Accepting, Arrive, Lookup, InsertAccepted,
         InsertConflict, Reload, ExistingResult, SnapshotInv, TypeOK
    <2>2. ASSUME NEW a \in Attempts, Leasing(a) PROVE SnapshotInv'
      BY <1>0, <1>4, <2>2 DEF RowUnchanged, Leasing, LoadTerminal, AcquireLease,
         LeaseUnavailable, ResolveUnavailable, ReplySnapshot, SnapshotInv, TypeOK
    <2>3. ASSUME NEW a \in Attempts, Processing(a), ~PersistTerminal(a) PROVE SnapshotInv'
      <3>1. CASE StartRun(a)
        BY <1>0, <1>4, <3>1 DEF RowUnchanged, StartRun, SnapshotInv, TypeOK
      <3>2. ASSUME NEW o \in Outcomes, RunPipeline(a, o) PROVE SnapshotInv'
        BY <1>0, <1>4, <3>2 DEF RowUnchanged, RunPipeline, SnapshotInv, TypeOK
      <3>3. CASE FinalizeRun(a)
        BY <1>0, <1>4, <3>3 DEF RowUnchanged, FinalizeRun, SnapshotInv, TypeOK
      <3>4. CASE PersistLost(a)
        BY <1>0, <1>4, <3>4 DEF RowUnchanged, PersistLost, SnapshotInv, TypeOK
      <3>5. CASE Respond(a)
        BY <1>0, <1>4, <3>5 DEF RowUnchanged, Respond, SnapshotInv, TypeOK
      <3> QED
        BY <2>3, <3>1, <3>2, <3>3, <3>4, <3>5 DEF Processing
    <2>4. ASSUME NEW a \in Attempts, Abort(a) \/ Crash(a) \/ Retry(a) PROVE SnapshotInv'
      BY <1>0, <1>4, <2>4 DEF RowUnchanged, Abort, Crash, Retry, Working, SnapshotInv, TypeOK
    <2>5. CASE Close \/ Tick \/ UNCHANGED vars
      BY <2>5 DEF Close, Tick, vars, attemptVars, SnapshotInv
    <2> QED
      BY <1>3, <2>1, <2>2, <2>3, <2>4, <2>5 DEF Next, Step
  <1> QED
    BY <1>1, <1>2, <1>3, <1>4, RowWriters

THEOREM Invariance == Spec => []IInv
  <1>1. IInv /\ [Next]_vars => IInv'
    BY TypeStep, PendingStep, ConversationStep, LeaseStep, SnapshotStep DEF IInv
  <1> QED
    BY InitIInv, <1>1, PTL DEF Spec

-----------------------------------------------------------------------------

\* The row, the runs and every attempt's variables keep their types.
THEOREM TypeCorrect == Spec => []TypeOK
  BY Invariance, PTL DEF IInv

\* Competing first messages with one key leave one conversation.
THEOREM OneConversationHolds == Spec => []OneConversation
  <1>1. IInv => OneConversation
    <2> SUFFICES ASSUME IInv PROVE Cardinality(conversations) <= 1
      BY DEF OneConversation
    <2>1. CASE conversations = {}
      BY <2>1, FS_EmptySet
    <2>2. ASSUME NEW c \in Attempts, conversations = {c}
          PROVE  Cardinality(conversations) <= 1
      <3>1. Cardinality(conversations) = 1
        BY <2>2, FS_Singleton
      <3> QED
        BY <3>1
    <2> QED
      BY <2>1, <2>2 DEF IInv, ConversationInv
  <1> QED
    BY <1>1, Invariance, PTL

\* No two leases ever overlap, whatever the age of the clock reads.
THEOREM LeasesExclusive == Spec => []LeaseWindowsDisjoint
  BY Invariance, PTL DEF IInv

\* Only the worker leased last completes the request.
THEOREM LatestHolderWins == Spec => []LatestHolderRecorded
  BY Invariance, PTL DEF IInv

\* What a client is told is committed.
THEOREM RepliesDurable == Spec => []ReplyIsDurable
  <1>1. IInv => ReplyIsDurable
    BY DEF IInv, SnapshotInv, ReplyIsDurable, Durable
  <1> QED
    BY <1>1, Invariance, PTL

\* The protocol implements its promise: one result, given to every caller.
THEOREM ImplementsReply == Spec => RefinesReply
  <1> USE NoneAssumption DEF Terminal
  <1>1. Init => Replies!Init
    BY DEF Init, NoRequest, Replies!Init
  <1>2. IInv /\ [Next]_vars => [Replies!Next]_Replies!vars
    <2> SUFFICES ASSUME IInv, [Next]_vars PROVE [Replies!Next]_Replies!vars
      OBVIOUS
    <2>1. ASSUME NEW a \in Attempts, PersistTerminal(a) PROVE Replies!Next
      <3> DEFINE r == [run |-> a, outcome |-> outcome[a]]
      <3>1. r \in Results
        BY <2>1 DEF PersistTerminal, IInv, PendingInv, Results
      <3>2. request.snapshot = None /\ request'.snapshot = r
        BY <2>1 DEF PersistTerminal, MayFinish, FinishedRow, IInv, SnapshotInv, TypeOK, Requests
      <3>3. Replies!Decide(r)
        BY <2>1, <3>2 DEF PersistTerminal, Replies!Decide
      <3> QED
        BY <3>1, <3>3 DEF Replies!Next
    <2>2. ASSUME NEW a \in Attempts, InsertAccepted(a) \/ AcquireLease(a)
          PROVE  UNCHANGED Replies!vars
      <3>1. request.snapshot = None
        BY <2>2 DEF InsertAccepted, KeyTaken, AcquireLease, Claimable, IInv, SnapshotInv
      <3>2. CASE InsertAccepted(a)
        BY <3>1, <3>2 DEF InsertAccepted, AcceptedRow, Replies!vars
      <3>3. CASE AcquireLease(a)
        BY <3>1, <3>3 DEF AcquireLease, LeasedRow, IInv, TypeOK, Requests, Replies!vars
      <3> QED
        BY <2>2, <3>2, <3>3
    <2>3. ASSUME RowUnchanged, NEW a \in Attempts, LoadTerminal(a) \/ ResolveUnavailable(a)
          PROVE  [Replies!Next]_Replies!vars
      <3>1. CASE Terminal
        <4>1. Replies!Reply(a)
          BY <2>3, <3>1 DEF RowUnchanged, LoadTerminal, ResolveUnavailable, ReplySnapshot,
                            IInv, SnapshotInv, Replies!Reply
        <4> QED
          BY <4>1 DEF Replies!Next
      <3>2. CASE ~Terminal
        BY <2>3, <3>2 DEF RowUnchanged, LoadTerminal, ResolveUnavailable, Replies!vars
      <3> QED
        BY <3>1, <3>2
    <2>4. ASSUME NEW a \in Attempts, Respond(a) PROVE Replies!Next
      <3>1. /\ request' = request
            /\ request.snapshot = [run |-> a, outcome |-> outcome[a]]
            /\ reply' = [reply EXCEPT ![a] = request.snapshot]
        BY <2>4 DEF Respond, IInv, SnapshotInv
      <3>2. request.snapshot # None
        BY <2>4, <3>1 DEF Respond, IInv, PendingInv, Results
      <3>3. Replies!Reply(a)
        BY <3>1, <3>2 DEF Replies!Reply
      <3> QED
        BY <3>3 DEF Replies!Next
    <2>5. ASSUME RowUnchanged, UNCHANGED reply PROVE UNCHANGED Replies!vars
      BY <2>5 DEF RowUnchanged, Replies!vars
    <2>6. \/ UNCHANGED reply
          \/ \E a \in Attempts : \/ LoadTerminal(a) \/ ResolveUnavailable(a)
                               \/ Respond(a)
      BY DEF Next, Step, Accepting, Arrive, Lookup, InsertAccepted, InsertConflict, Reload,
             Leasing, AcquireLease, LeaseUnavailable, Processing, StartRun, RunPipeline,
             FinalizeRun, PersistTerminal, PersistLost, Abort, Crash, Retry, Close, Tick,
             vars, attemptVars
    <2> QED
      BY <2>1, <2>2, <2>3, <2>4, <2>5, <2>6, RowWriters
  <1> QED
    BY <1>1, <1>2, Invariance, PTL DEF Spec, RefinesReply, Replies!Spec

-----------------------------------------------------------------------------
(***************************************************************************)
(* The conversation's title, which the start assigns (ConversationTitle).  *)
(* The inductive part is the row's lock: its holder found no title, and    *)
(* there is none until it commits.                                         *)
(***************************************************************************)

\* The row's lock is held by the worker between update and commit, and only
\* over an untitled row.
RowLockInv ==
    /\ \A w \in Workers : writer = w <=> stage[w] = "updated"
    /\ writer # Null => title = Null

\* Claims, audit events and the row agree, worker by worker.
ClaimInv ==
    \A w \in Workers :
        /\ (result[w] # Null /\ result[w].status = "ASSIGNED") <=> title = w
        /\ w \in audited <=> title = w
        /\ stage[w] # "done" => title # w

\* An answer is given once, at the end.
AnswerInv == \A w \in Workers : result[w] # Null <=> stage[w] = "done"

TitleInv == TitleTypeOK /\ RowLockInv /\ ClaimInv /\ AnswerInv

\* A conversation starts untitled or with the customer's own title.
LEMMA InitTitleInv == TitleInit => TitleInv
  BY TitleAssumption
  DEF TitleInit, TitleInv, TitleTypeOK, RowLockInv, ClaimInv, AnswerInv, Titles

\* Every step of every worker preserves the invariant.
LEMMA StepTitleInv == TitleInv /\ [TitleNext]_titleVars => TitleInv'
<1> SUFFICES ASSUME TitleInv, [TitleNext]_titleVars PROVE TitleInv'
  OBVIOUS
<1> USE TitleAssumption
<1>1. ASSUME NEW w \in Workers, LoadExisting(w) PROVE TitleInv'
  <2>1. CASE title # Null
    <3>1. /\ stage' = [stage EXCEPT ![w] = "done"]
          /\ result' = [result EXCEPT ![w] = [status |-> "ALREADY_TITLED", title |-> title]]
          /\ UNCHANGED <<title, writer, audited, loaded>>
          /\ stage[w] = "idle"
      BY <1>1, <2>1 DEF LoadExisting, Return, MoveTo
    <3>2. [status |-> "ALREADY_TITLED", title |-> title] \in Assignments
      BY DEF TitleInv, TitleTypeOK, Assignments
    <3>3. [status |-> "ALREADY_TITLED", title |-> title] # Null
      BY <3>2
    <3> QED
      BY <3>1, <3>2, <3>3 DEF TitleInv, TitleTypeOK, RowLockInv, ClaimInv, AnswerInv
  <2>2. CASE title = Null
    BY <1>1, <2>2 DEF LoadExisting, MoveTo, TitleInv, TitleTypeOK, RowLockInv, ClaimInv, AnswerInv
  <2> QED
    BY <2>1, <2>2
<1>2. ASSUME NEW w \in Workers, Generate(w) PROVE TitleInv'
  BY <1>2 DEF Generate, MoveTo, TitleInv, TitleTypeOK, RowLockInv, ClaimInv, AnswerInv
<1>3. ASSUME NEW w \in Workers, LoadRow(w) PROVE TitleInv'
  BY <1>3 DEF LoadRow, MoveTo, TitleInv, TitleTypeOK, RowLockInv, ClaimInv, AnswerInv
<1>4. ASSUME NEW w \in Workers, SetTitle(w) PROVE TitleInv'
  BY <1>4 DEF SetTitle, Untitled, MoveTo, TitleInv, TitleTypeOK, RowLockInv, ClaimInv, AnswerInv
<1>5. ASSUME NEW w \in Workers, CommitTitle(w) PROVE TitleInv'
  <2>1. [status |-> "ASSIGNED", title |-> w] \in Assignments \ {Null}
    BY DEF Assignments, Titles
  <2>2. title = Null /\ writer = w
    BY <1>5 DEF CommitTitle, TitleInv, RowLockInv, TitleTypeOK, Titles
  <2>3. /\ stage[w] = "updated"
        /\ stage' = [stage EXCEPT ![w] = "done"]
        /\ result' = [result EXCEPT ![w] = [status |-> "ASSIGNED", title |-> w]]
        /\ title' = w /\ writer' = Null /\ loaded' = loaded
        /\ audited' = audited \cup {w}
    BY <1>5 DEF CommitTitle, StoredTitle, Return, MoveTo
  <2>4. TitleTypeOK'
    BY <2>1, <2>3 DEF TitleInv, TitleTypeOK, Titles
  <2>5. RowLockInv'
    BY <2>2, <2>3 DEF TitleInv, TitleTypeOK, RowLockInv, Titles
  <2>6. AnswerInv'
    BY <2>1, <2>3 DEF TitleInv, TitleTypeOK, AnswerInv
  <2>7. ClaimInv'
    BY <2>1, <2>2, <2>3 DEF TitleInv, TitleTypeOK, ClaimInv, Titles
  <2> QED
    BY <2>4, <2>5, <2>6, <2>7 DEF TitleInv
<1>6. ASSUME NEW w \in Workers, LoseRace(w) PROVE TitleInv'
  BY <1>6 DEF LoseRace, MoveTo, TitleInv, TitleTypeOK, RowLockInv, ClaimInv, AnswerInv
<1>7. ASSUME NEW w \in Workers, ReportLoss(w) PROVE TitleInv'
  <2>1. PICK t \in Titles \cup {Null} :
          /\ stage' = [stage EXCEPT ![w] = "done"]
          /\ result' = [result EXCEPT ![w] = [status |-> "LOST_RACE", title |-> t]]
    BY <1>7 DEF ReportLoss, Return, MoveTo, TitleInv, TitleTypeOK, Titles
  <2>2. [status |-> "LOST_RACE", title |-> t] \in Assignments \ {Null}
    BY DEF Assignments
  <2>3. stage[w] = "lost" /\ UNCHANGED <<title, writer, audited, loaded>>
    BY <1>7 DEF ReportLoss
  <2> QED
    BY <2>1, <2>2, <2>3 DEF TitleInv, TitleTypeOK, RowLockInv, ClaimInv, AnswerInv
<1>8. ASSUME NEW w \in Workers, Fail(w) PROVE TitleInv'
  BY <1>8 DEF Fail, KeptAudit, MoveTo, TitleInv, TitleTypeOK, RowLockInv, ClaimInv, AnswerInv, Titles
<1>9. ASSUME NEW w \in Workers, Again(w) PROVE TitleInv'
  BY <1>9 DEF Again, MoveTo, TitleInv, TitleTypeOK, RowLockInv, ClaimInv, AnswerInv
<1>10. CASE UNCHANGED titleVars
  BY <1>10 DEF titleVars, TitleInv, TitleTypeOK, RowLockInv, ClaimInv, AnswerInv
<1> QED
  BY <1>1, <1>2, <1>3, <1>4, <1>5, <1>6, <1>7, <1>8, <1>9, <1>10 DEF TitleNext

\* The invariant holds in every reachable state.
THEOREM TitleInvariance == TitleSpec => []TitleInv
  BY InitTitleInv, StepTitleInv, PTL DEF TitleSpec

\* The variables keep their types.
THEOREM TitleTypeCorrect == TitleSpec => []TitleTypeOK
  BY TitleInvariance, PTL DEF TitleInv

\* One worker at most claims the name the conversation has, and it alone
\* left an audit event.
THEOREM NamingAudited == TitleSpec => []NamingIsAudited
<1>1. TitleInv => NamingIsAudited
  BY TitleAssumption DEF TitleInv, TitleTypeOK, ClaimInv, NamingIsAudited, Titles
<1> QED
  BY <1>1, TitleInvariance, PTL

\* No worker, however late, replaces a title.
THEOREM TitleStays == TitleSpec => TitleNeverReplaced
<1>1. TitleInv /\ [TitleNext]_titleVars => [title # Null => title' = title]_titleVars
  BY TitleAssumption
  DEF TitleInv, RowLockInv, TitleNext, titleVars, LoadExisting, Generate, LoadRow, SetTitle, CommitTitle,
      LoseRace, ReportLoss, Fail, Again, Titles
<1> QED
  BY <1>1, TitleInvariance, PTL DEF TitleSpec, TitleNeverReplaced
=============================================================================
