------------------------- MODULE SupportCaseProofs -------------------------
(***************************************************************************)
(* For any number of messages, agents and failures: the numbers of a       *)
(* conversation's messages have no gap and no duplicate, an escalation     *)
(* never reopens and gets at most one ticket, and the history tells its    *)
(* life once and in order.                                                 *)
(***************************************************************************)
EXTENDS SupportCase, FiniteSetTheorems, TLAPS

\* A message, or transaction, works on a row it has read.
ViewInv == \A r \in Runs : pc[r] \in {"accepting", "writing"} => view[r] \in Conversations

\* The escalation of a message is made by the step that ends its run.
Fresh ==
    \A r \in Runs :
        pc[r] \in {"idle", "accepting", "pipeline", "finalizing", "writing"} =>
            escalations[r] = "none"

\* Whoever updates an escalation has it locked, alone, and the transition it
\* validated is still allowed.
UpdateInv ==
    /\ \A g \in Agents : job[g].op = "update" =>
          /\ job[g].run \in locked
          /\ escalations[job[g].run] \in Active
          /\ job[g].target \in Transitions[escalations[job[g].run]]
    /\ \A g, h \in Agents :
          job[g].op = "update" /\ job[h].op = "update" /\ job[g].run = job[h].run => g = h

Numbered == conv.next >= 1 /\ SequenceContiguous

NoticeKinds == {"escalation_notice", "ticket_created"} \cup EscalationStatuses

Final == {"resolved", "dismissed"}

\* No notice is given twice for one escalation.
Once ==
    \A m, n \in messages :
        m.run = n.run /\ m.kind = n.kind /\ m.kind \in NoticeKinds => m = n

\* The notices present are those of the statuses the escalation went through.
Told ==
    \A r \in Runs :
        /\ escalations[r] # "none" <=> Notices(r, "escalation_notice") # {}
        /\ Notices(r, "open") = {}
        /\ Notices(r, "in_review") # {} => escalations[r] \in {"in_review"} \cup Final
        /\ escalations[r] = "in_review" => Notices(r, "in_review") # {}
        /\ \A s \in Final : Notices(r, s) # {} <=> escalations[r] = s

\* Taking it in review was announced before it ended.
Ordered ==
    \A m, n \in messages :
        m.run = n.run /\ m.kind = "in_review" /\ n.kind \in Final => m.seq < n.seq

Ticketed ==
    /\ \A s, t \in tickets : s.run = t.run => s = t
    /\ \A r \in Runs : TicketTaken(r) <=> Notices(r, "ticket_created") # {}

IInv ==
    /\ TypeOK /\ ViewInv /\ Fresh /\ UpdateInv
    /\ Numbered /\ Once /\ Told /\ Ordered /\ Ticketed

-----------------------------------------------------------------------------

\* The shapes of what an agent may be in the middle of.
LEMMA JobKinds ==
  ASSUME NEW j \in Jobs
  PROVE  /\ Idle \in Jobs /\ Idle.op = "idle"
         /\ j = Idle \/ j.op \in {"update", "ticket"}
         /\ j.op = "update" => j.run \in Runs /\ j.target \in EscalationStatuses
         /\ j.op = "ticket" => j.run \in Runs
BY DEF Jobs, Idle

\* A new conversation satisfies the invariant.
LEMMA InitIInv == Init => IInv
<1> SUFFICES ASSUME Init PROVE IInv
  OBVIOUS
<1> USE DEF Init
<1>1. TypeOK
  <2>1. Idle \in Jobs
    BY DEF Jobs
  <2>2. NewConversation \in Conversations
    BY DEF NewConversation, Conversations, ConversationStatuses
  <2> QED
    BY <2>1, <2>2 DEF TypeOK
<1>2. ViewInv /\ Fresh
  BY DEF ViewInv, Fresh
<1>3. UpdateInv
  BY DEF UpdateInv, Idle
<1>4. Numbered /\ Once /\ Ordered
  BY DEF Numbered, SequenceContiguous, NewConversation, Once, Ordered
<1>5. Told /\ Ticketed
  BY DEF Told, Ticketed, Notices, TicketTaken, EscalationStatuses, Final
<1> QED
  BY <1>1, <1>2, <1>3, <1>4, <1>5 DEF IInv

-----------------------------------------------------------------------------
(* Types.                                                                  *)

\* Marking it escalated leaves a conversations row with the same number.
LEMMA MarkEscalatedType ==
  ASSUME NEW row \in Conversations, NEW seen \in Conversations
  PROVE  /\ MarkEscalated(row, seen) \in Conversations
         /\ MarkEscalated(row, seen).next = row.next
<1> DEFINE s == IF seen.status # "escalated" THEN "escalated" ELSE row.status
           a == IF seen.resolvedAt THEN FALSE ELSE row.resolvedAt
           c == IF seen.closedAt THEN FALSE ELSE row.closedAt
<1>1. s \in ConversationStatuses /\ a \in BOOLEAN /\ c \in BOOLEAN
  BY DEF Conversations, ConversationStatuses
<1>2. MarkEscalated(row, seen) = [row EXCEPT !.status = s, !.resolvedAt = a, !.closedAt = c]
  BY DEF MarkEscalated
<1> HIDE DEF s, a, c
<1> QED
  BY <1>1, <1>2 DEF Conversations

\* Appending a message keeps the numbers contiguous and the types right.
LEMMA AppendStep ==
  ASSUME conv \in Conversations, messages \subseteq Messages, Numbered,
         NEW r \in Runs, NEW kind \in Kinds, NEW seen,
         Append(r, kind, seen), conv'.next = conv.next + 1
  PROVE  Numbered' /\ messages' \subseteq Messages
<1> DEFINE new == [seq |-> conv.next, run |-> r, kind |-> kind]
<1>1. messages' = messages \cup {new}
  BY DEF Append, Sequence
<1>2. conv.next \in Nat /\ conv.next >= 1
  BY DEF Conversations, Numbered
<1>3. new \in Messages /\ new.seq = conv.next
  BY <1>2 DEF Messages
<1>4. \A m \in messages : m.seq \in 1..(conv.next - 1)
  BY DEF Numbered, SequenceContiguous
<1> HIDE DEF new
<1>5. {m.seq : m \in messages'} = 1..(conv'.next - 1)
  <2>1. {m.seq : m \in messages'} = {m.seq : m \in messages} \cup {conv.next}
    BY <1>1, <1>3
  <2>2. {m.seq : m \in messages} = 1..(conv.next - 1)
    BY DEF Numbered, SequenceContiguous
  <2>3. \A n \in Nat : n >= 1 => 1..(n - 1) \cup {n} = 1..((n + 1) - 1)
    OBVIOUS
  <2> QED
    BY <2>1, <2>2, <2>3, <1>2
<1>6. \A m, n \in messages' : m.seq = n.seq => m = n
  BY <1>1, <1>2, <1>3, <1>4 DEF Numbered, SequenceContiguous
<1> QED
  BY <1>1, <1>2, <1>3, <1>5, <1>6 DEF Numbered, SequenceContiguous

\* What one request or agent does to the rows of one message's case.
LEMMA TypeStep ==
  ASSUME IInv, [Next]_vars
  PROVE  TypeOK'
<1> USE DEF IInv, TypeOK
<1>1. CASE UNCHANGED vars
  BY <1>1 DEF vars
<1>2. ASSUME NEW r \in Runs, MessageStep(r) PROVE TypeOK'
  <2>1. CASE AcceptRead(r)
    BY <2>1 DEF AcceptRead, Goto
  <2>2. CASE AcceptWrite(r)
    <3>1. conv' \in Conversations /\ conv'.next = conv.next + 1
      BY <2>2 DEF AcceptWrite, Conversations
    <3>2. messages' \subseteq Messages
      BY <2>2, <3>1, AppendStep DEF AcceptWrite, Kinds
    <3> QED
      BY <2>2, <3>1, <3>2 DEF AcceptWrite, Goto, CloseView
  <2>3. ASSUME NEW o \in Outcomes, RunPipeline(r, o) PROVE TypeOK'
    BY <2>3 DEF RunPipeline, Goto
  <2>4. CASE FinalizeRead(r)
    BY <2>4 DEF FinalizeRead, Goto
  <2>5. CASE FinalizeWrite(r)
    <3>1. view[r] \in Conversations
      BY <2>5 DEF FinalizeWrite, ViewInv
    <3> DEFINE next == [conv EXCEPT !.next = @ + 1]
    <3>2. next \in Conversations /\ next.next = conv.next + 1
      BY DEF Conversations
    <3> HIDE DEF next
    <3>3. conv' \in Conversations /\ messages' \subseteq Messages
      <4>1. CASE UNCHANGED <<conv, messages>>
        BY <4>1
      <4>2. CASE Append(r, "assistant_response", view[r]) /\ conv' = next
        BY <4>2, <3>2, AppendStep DEF Kinds
      <4>3. CASE Append(r, "escalation_notice", view[r]) /\ conv' = MarkEscalated(next, view[r])
        BY <4>3, <3>1, <3>2, AppendStep, MarkEscalatedType DEF Kinds
      <4> QED
        BY <2>5, <4>1, <4>2, <4>3 DEF FinalizeWrite, next
    <3>4. escalations' \in [Runs -> EscalationStatuses \cup {"none"}]
      BY <2>5 DEF FinalizeWrite, EscalationStatuses
    <3> QED
      BY <2>5, <3>3, <3>4 DEF FinalizeWrite, Goto, Forget, CloseView
  <2>6. CASE Recover(r)
    BY <2>6 DEF Recover, Goto
  <2> QED
    BY <1>2, <2>1, <2>2, <2>3, <2>4, <2>5, <2>6 DEF MessageStep
<1>3. ASSUME NEW r \in Runs, Raise(r) \/ RecoverFails(r) \/ Crash(r) PROVE TypeOK'
  BY <1>3 DEF Raise, RecoverFails, Crash, Goto, Forget, CloseView
<1>4. ASSUME NEW g \in Agents, AgentStep(g) PROVE TypeOK'
  <2>0. Idle \in Jobs
    BY DEF Jobs
  <2>1. ASSUME NEW r \in Runs, NEW s \in EscalationStatuses, BeginUpdate(g, r, s) PROVE TypeOK'
    <3>1. [op |-> "update", run |-> r, target |-> s] \in Jobs
      BY DEF Jobs
    <3> QED
      BY <2>1, <3>1 DEF BeginUpdate
  <2>2. ASSUME NEW r \in Runs, BeginTicket(g, r) PROVE TypeOK'
    <3>1. [op |-> "ticket", run |-> r] \in Jobs
      BY DEF Jobs
    <3> QED
      BY <2>2, <3>1 DEF BeginTicket
  <2>3. CASE ApplyUpdate(g)
    <3>1. job[g].run \in Runs /\ job[g].target \in EscalationStatuses
      BY <2>3, JobKinds DEF ApplyUpdate
    <3>2. conv' \in Conversations /\ conv'.next = conv.next + 1
      BY <2>3 DEF ApplyUpdate, Conversations
    <3>3. messages' \subseteq Messages
      BY <2>3, <3>1, <3>2, AppendStep DEF ApplyUpdate, Kinds
    <3> QED
      BY <2>0, <2>3, <3>1, <3>2, <3>3 DEF ApplyUpdate
  <2>4. CASE InsertTicket(g)
    <3>1. job[g].run \in Runs
      BY <2>4, JobKinds DEF InsertTicket
    <3>2. conv' \in Conversations /\ conv'.next = conv.next + 1
      BY <2>4 DEF InsertTicket, Conversations
    <3>3. messages' \subseteq Messages
      BY <2>4, <3>1, <3>2, AppendStep DEF InsertTicket, Kinds
    <3> QED
      BY <2>0, <2>4, <3>1, <3>2, <3>3 DEF InsertTicket
  <2>5. CASE RollBack(g)
    BY <2>0, <2>5 DEF RollBack
  <2> QED
    BY <1>4, <2>1, <2>2, <2>3, <2>4, <2>5 DEF AgentStep
<1>5. CASE Close
  BY <1>5 DEF Close, Conversations, ConversationStatuses
<1> QED
  BY <1>1, <1>2, <1>3, <1>4, <1>5 DEF Next

-----------------------------------------------------------------------------
(* What a step does to messages, escalations and tickets.                  *)

Says(r, kind) ==
    /\ messages' = messages \cup {[seq |-> conv.next, run |-> r, kind |-> kind]}
    /\ conv'.next = conv.next + 1

Quiet ==
    /\ UNCHANGED <<messages, escalations, tickets>>
    /\ conv'.next = conv.next

Talks(r) ==
    /\ \E kind \in {"customer", "assistant_response"} : Says(r, kind)
    /\ UNCHANGED <<escalations, tickets>>

Opens(r) ==
    /\ escalations[r] = "none"
    /\ escalations' = [escalations EXCEPT ![r] = "open"]
    /\ Says(r, "escalation_notice")
    /\ UNCHANGED tickets

Moves(r, s) ==
    /\ escalations[r] \in Active
    /\ s \in Transitions[escalations[r]]
    /\ escalations' = [escalations EXCEPT ![r] = s]
    /\ Says(r, s)
    /\ UNCHANGED tickets

Files(r, g) ==
    /\ ~TicketTaken(r)
    /\ tickets' = tickets \cup {[run |-> r, by |-> g]}
    /\ Says(r, "ticket_created")
    /\ UNCHANGED escalations

Effect ==
    \/ Quiet
    \/ \E r \in Runs : Talks(r) \/ Opens(r)
    \/ \E r \in Runs, s \in EscalationStatuses : Moves(r, s)
    \/ \E r \in Runs, g \in Agents : Files(r, g)

\* Every step has one of these effects.
LEMMA StepEffect ==
  ASSUME IInv, [Next]_vars
  PROVE  Effect
<1>0. TypeOK /\ ViewInv /\ Fresh /\ UpdateInv
  BY DEF IInv
<1> DEFINE next == [conv EXCEPT !.next = @ + 1]
<1>n. next \in Conversations /\ next.next = conv.next + 1
  BY <1>0 DEF TypeOK, Conversations
<1> HIDE DEF next
<1>1. CASE UNCHANGED vars
  BY <1>1 DEF vars, Effect, Quiet
<1>2. ASSUME NEW r \in Runs, MessageStep(r) PROVE Effect
  <2>1. CASE AcceptRead(r) \/ FinalizeRead(r) \/ Recover(r) \/ \E o \in Outcomes : RunPipeline(r, o)
    BY <2>1 DEF AcceptRead, FinalizeRead, Recover, RunPipeline, Effect, Quiet
  <2>2. CASE AcceptWrite(r)
    <3>1. Append(r, "customer", view[r]) /\ conv' = next /\ UNCHANGED <<escalations, tickets>>
      BY <2>2 DEF AcceptWrite, next
    <3>2. Says(r, "customer")
      BY <3>1, <1>n DEF Append, Sequence, Says
    <3> QED
      BY <3>1, <3>2 DEF Effect, Talks
  <2>3. CASE FinalizeWrite(r)
    <3>1. view[r] \in Conversations /\ escalations[r] = "none"
      BY <1>0, <2>3 DEF FinalizeWrite, ViewInv, Fresh
    <3>2. UNCHANGED tickets
      BY <2>3 DEF FinalizeWrite
    <3>3. CASE UNCHANGED <<conv, messages, escalations>>
      BY <3>2, <3>3 DEF Effect, Quiet
    <3>4. CASE /\ Append(r, "assistant_response", view[r])
               /\ conv' = next
               /\ UNCHANGED escalations
      <4>1. Says(r, "assistant_response")
        BY <3>4, <1>n DEF Append, Sequence, Says
      <4> QED
        BY <3>2, <3>4, <4>1 DEF Effect, Talks
    <3>5. CASE /\ escalations' = [escalations EXCEPT ![r] = "open"]
               /\ Append(r, "escalation_notice", view[r])
               /\ conv' = MarkEscalated(next, view[r])
      <4>1. Says(r, "escalation_notice")
        BY <3>1, <3>5, <1>n, MarkEscalatedType DEF Append, Sequence, Says
      <4> QED
        BY <3>1, <3>2, <3>5, <4>1 DEF Effect, Opens
    <3> QED
      BY <2>3, <3>3, <3>4, <3>5 DEF FinalizeWrite, next
  <2> QED
    BY <1>2, <2>1, <2>2, <2>3 DEF MessageStep
<1>3. ASSUME NEW r \in Runs, Raise(r) \/ RecoverFails(r) \/ Crash(r) PROVE Effect
  BY <1>3 DEF Raise, RecoverFails, Crash, Effect, Quiet
<1>4. ASSUME NEW g \in Agents, AgentStep(g) PROVE Effect
  <2>1. CASE \E r \in Runs : BeginTicket(g, r) \/ \E s \in EscalationStatuses : BeginUpdate(g, r, s)
    BY <2>1 DEF BeginTicket, BeginUpdate, Effect, Quiet
  <2>2. CASE RollBack(g)
    BY <2>2 DEF RollBack, Effect, Quiet
  <2>3. CASE ApplyUpdate(g)
    <3> DEFINE r == job[g].run
               s == job[g].target
    <3>1. r \in Runs /\ s \in EscalationStatuses
      BY <1>0, <2>3, JobKinds DEF ApplyUpdate, TypeOK
    <3>2. escalations[r] \in Active /\ s \in Transitions[escalations[r]]
      BY <1>0, <2>3 DEF ApplyUpdate, UpdateInv
    <3>3. /\ escalations' = [escalations EXCEPT ![r] = s]
          /\ Append(r, s, conv) /\ conv' = next
          /\ UNCHANGED tickets
      BY <2>3 DEF ApplyUpdate, next
    <3>4. Says(r, s)
      BY <3>3, <1>n DEF Append, Sequence, Says
    <3> QED
      BY <3>1, <3>2, <3>3, <3>4 DEF Effect, Moves
  <2>4. CASE InsertTicket(g)
    <3> DEFINE r == job[g].run
    <3>1. r \in Runs
      BY <1>0, <2>4, JobKinds DEF InsertTicket, TypeOK
    <3>2. /\ ~TicketTaken(r)
          /\ tickets' = tickets \cup {[run |-> r, by |-> g]}
          /\ Append(r, "ticket_created", conv) /\ conv' = next
          /\ UNCHANGED escalations
      BY <2>4 DEF InsertTicket, next
    <3>3. Says(r, "ticket_created")
      BY <3>2, <1>n DEF Append, Sequence, Says
    <3> QED
      BY <3>1, <3>2, <3>3 DEF Effect, Files
  <2> QED
    BY <1>4, <2>1, <2>2, <2>3, <2>4 DEF AgentStep
<1>5. CASE Close
  BY <1>0, <1>5 DEF Close, Effect, Quiet, TypeOK, Conversations
<1> QED
  BY <1>1, <1>2, <1>3, <1>4, <1>5 DEF Next

-----------------------------------------------------------------------------
(* Control: what a message and an agent have established.                  *)

\* ALLOWED_ESCALATION_TRANSITIONS, entry by entry.
LEMMA TransitionsFacts ==
  /\ Transitions["open"] = {"in_review", "resolved", "dismissed"}
  /\ Transitions["in_review"] = {"resolved", "dismissed"}
  /\ Transitions["resolved"] = {} /\ Transitions["dismissed"] = {}
BY DEF Transitions, EscalationStatuses

LEMMA ViewStep ==
  ASSUME IInv, [Next]_vars
  PROVE  ViewInv'
<1> USE DEF IInv, TypeOK, ViewInv
<1>1. CASE UNCHANGED vars
  BY <1>1 DEF vars
<1>2. ASSUME NEW r \in Runs, MessageStep(r) PROVE ViewInv'
  BY <1>2 DEF MessageStep, AcceptRead, AcceptWrite, RunPipeline, FinalizeRead, FinalizeWrite,
              Recover, Goto, CloseView, Forget
<1>3. ASSUME NEW r \in Runs, Raise(r) \/ RecoverFails(r) \/ Crash(r) PROVE ViewInv'
  BY <1>3 DEF Raise, RecoverFails, Crash, Goto, CloseView, Forget
<1>4. ASSUME NEW g \in Agents, AgentStep(g) PROVE ViewInv'
  BY <1>4 DEF AgentStep, BeginUpdate, BeginTicket, ApplyUpdate, InsertTicket, RollBack
<1>5. CASE Close
  BY <1>5 DEF Close
<1> QED
  BY <1>1, <1>2, <1>3, <1>4, <1>5 DEF Next

LEMMA FreshStep ==
  ASSUME IInv, [Next]_vars
  PROVE  Fresh'
<1> USE DEF IInv, TypeOK, Fresh
<1>1. CASE UNCHANGED vars
  BY <1>1 DEF vars
<1>2. ASSUME NEW r \in Runs, MessageStep(r) PROVE Fresh'
  BY <1>2 DEF MessageStep, AcceptRead, AcceptWrite, RunPipeline, FinalizeRead, FinalizeWrite,
              Recover, Goto
<1>3. ASSUME NEW r \in Runs, Raise(r) \/ RecoverFails(r) \/ Crash(r) PROVE Fresh'
  BY <1>3 DEF Raise, RecoverFails, Crash, Goto
<1>4. ASSUME NEW g \in Agents, AgentStep(g) PROVE Fresh'
  <2>1. CASE ApplyUpdate(g)
    BY <2>1 DEF ApplyUpdate, UpdateInv, Active
  <2> QED
    BY <1>4, <2>1 DEF AgentStep, BeginUpdate, BeginTicket, InsertTicket, RollBack
<1>5. CASE Close
  BY <1>5 DEF Close
<1> QED
  BY <1>1, <1>2, <1>3, <1>4, <1>5 DEF Next

LEMMA UpdateStep ==
  ASSUME IInv, [Next]_vars
  PROVE  UpdateInv'
<1>0. TypeOK /\ Fresh /\ UpdateInv
  BY DEF IInv
<1>i. Idle.op = "idle"
  BY DEF Idle
<1>1. CASE UNCHANGED <<job, locked, escalations>>
  BY <1>0, <1>1 DEF UpdateInv
<1>2. ASSUME NEW r \in Runs, FinalizeWrite(r) PROVE UpdateInv'
  <2>1. escalations[r] = "none"
    BY <1>0, <1>2 DEF FinalizeWrite, Fresh
  <2>2. \A q \in Runs : escalations[q] \in Active => escalations'[q] = escalations[q]
    BY <1>0, <1>2, <2>1 DEF FinalizeWrite, Active, TypeOK
  <2>3. \A g \in Agents : job[g].op = "update" => job[g].run \in Runs
    BY <1>0, JobKinds DEF TypeOK
  <2>4. UNCHANGED <<job, locked>>
    BY <1>2 DEF FinalizeWrite
  <2> QED
    BY <1>0, <2>2, <2>3, <2>4 DEF UpdateInv
<1>3. ASSUME NEW g \in Agents, NEW r \in Runs, NEW s \in EscalationStatuses, BeginUpdate(g, r, s)
      PROVE  UpdateInv'
  <2>1. /\ r \notin locked /\ s \in Transitions[escalations[r]]
        /\ escalations[r] \in EscalationStatuses
        /\ locked' = locked \cup {r} /\ escalations' = escalations
    BY <1>0, <1>3 DEF BeginUpdate, Unlocked, TypeOK
  <2>2. escalations[r] \in Active
    BY <2>1, TransitionsFacts DEF EscalationStatuses, Active
  <2>3. job'[g].op = "update" /\ job'[g].run = r /\ job'[g].target = s
    BY <1>0, <1>3 DEF BeginUpdate, TypeOK
  <2>4. \A h \in Agents \ {g} : job'[h] = job[h]
    BY <1>0, <1>3 DEF BeginUpdate, TypeOK
  <2> QED
    BY <1>0, <2>1, <2>2, <2>3, <2>4 DEF UpdateInv
<1>4. ASSUME NEW g \in Agents, NEW r \in Runs, BeginTicket(g, r) PROVE UpdateInv'
  <2>1. job'[g].op = "ticket" /\ \A h \in Agents \ {g} : job'[h] = job[h]
    BY <1>0, <1>4 DEF BeginTicket, TypeOK
  <2>2. UNCHANGED <<locked, escalations>>
    BY <1>4 DEF BeginTicket
  <2> QED
    BY <1>0, <2>1, <2>2 DEF UpdateInv
<1>5. ASSUME NEW g \in Agents, ApplyUpdate(g) PROVE UpdateInv'
  <2>1. job'[g].op = "idle" /\ \A h \in Agents \ {g} : job'[h] = job[h]
    BY <1>0, <1>5, <1>i DEF ApplyUpdate, TypeOK
  <2>2. job[g].op = "update" /\ job[g].run \in Runs
    BY <1>0, <1>5, JobKinds DEF ApplyUpdate, TypeOK
  <2>3. \A q \in Runs \ {job[g].run} : escalations'[q] = escalations[q]
    BY <1>0, <1>5 DEF ApplyUpdate, TypeOK
  <2>4. locked' = locked \ {job[g].run}
    BY <1>5 DEF ApplyUpdate
  <2>5. \A h \in Agents \ {g} : job[h].op = "update" => job[h].run \in Runs \ {job[g].run}
    BY <1>0, <2>2, JobKinds DEF TypeOK, UpdateInv
  <2> QED
    BY <1>0, <2>1, <2>2, <2>3, <2>4, <2>5 DEF UpdateInv
<1>6. ASSUME NEW g \in Agents, InsertTicket(g) PROVE UpdateInv'
  <2>1. job'[g].op = "idle" /\ \A h \in Agents \ {g} : job'[h] = job[h]
    BY <1>0, <1>6, <1>i DEF InsertTicket, TypeOK
  <2>2. UNCHANGED <<locked, escalations>>
    BY <1>6 DEF InsertTicket
  <2> QED
    BY <1>0, <2>1, <2>2 DEF UpdateInv
<1>7. ASSUME NEW g \in Agents, RollBack(g) PROVE UpdateInv'
  <2>1. job'[g].op = "idle" /\ \A h \in Agents \ {g} : job'[h] = job[h]
    BY <1>0, <1>7, <1>i DEF RollBack, TypeOK
  <2>2. escalations' = escalations
    BY <1>7 DEF RollBack
  <2>3. locked' = IF job[g].op = "update" THEN locked \ {job[g].run} ELSE locked
    BY <1>7 DEF RollBack
  <2>4. \A h \in Agents \ {g} : job[h].op = "update" => job[h].run \in locked'
    BY <1>0, <2>3 DEF UpdateInv
  <2> QED
    BY <1>0, <2>1, <2>2, <2>4 DEF UpdateInv
<1>8. ASSUME NEW r \in Runs, MessageStep(r) \/ Raise(r) \/ RecoverFails(r) \/ Crash(r) PROVE UpdateInv'
  <2>1. FinalizeWrite(r) \/ UNCHANGED <<job, locked, escalations>>
    BY <1>8 DEF MessageStep, AcceptRead, AcceptWrite, RunPipeline, FinalizeRead, Recover, Raise, RecoverFails, Crash
  <2> QED
    BY <2>1, <1>1, <1>2
<1>9. ASSUME NEW g \in Agents, AgentStep(g) PROVE UpdateInv'
  BY <1>9, <1>3, <1>4, <1>5, <1>6, <1>7 DEF AgentStep
<1>10. Close \/ UNCHANGED vars => UNCHANGED <<job, locked, escalations>>
  BY DEF Close, vars
<1> QED
  BY <1>1, <1>8, <1>9, <1>10 DEF Next

-----------------------------------------------------------------------------
(* The history.                                                            *)

\* A message said now comes after every other, and adds one notice.
LEMMA Said ==
  ASSUME IInv, NEW r \in Runs, NEW kind \in Kinds, Says(r, kind)
  PROVE  /\ \A m \in messages : m.seq < conv.next
         /\ \E new \in messages' \ messages :
               /\ messages' = messages \cup {new}
               /\ new.seq = conv.next /\ new.run = r /\ new.kind = kind
         /\ \A q \in Runs, k \in Kinds : q # r \/ k # kind => Notices(q, k)' = Notices(q, k)
         /\ Notices(r, kind)' # {}
<1>1. conv.next \in Nat
  BY DEF IInv, TypeOK, Conversations
<1>2. \A m \in messages : m.seq \in 1..(conv.next - 1)
  BY DEF IInv, Numbered, SequenceContiguous
<1>3. \A m \in messages : m.seq < conv.next
  BY <1>1, <1>2
<1> DEFINE new == [seq |-> conv.next, run |-> r, kind |-> kind]
<1>4. new.seq = conv.next /\ new.run = r /\ new.kind = kind
  OBVIOUS
<1>5. messages' = messages \cup {new}
  BY DEF Says
<1> HIDE DEF new
<1>6. new \notin messages
  BY <1>1, <1>3, <1>4
<1>7. \A q \in Runs, k \in Kinds : q # r \/ k # kind => Notices(q, k)' = Notices(q, k)
  BY <1>4, <1>5 DEF Notices
<1>8. new \in Notices(r, kind)'
  BY <1>4, <1>5 DEF Notices
<1> QED
  BY <1>3, <1>4, <1>5, <1>6, <1>7, <1>8

LEMMA NumberedStep ==
  ASSUME IInv, Effect
  PROVE  Numbered'
<1>1. ASSUME NEW r \in Runs, NEW kind \in Kinds, Says(r, kind) PROVE Numbered'
  BY <1>1, AppendStep DEF Says, Append, Sequence, IInv, TypeOK
<1>2. CASE Quiet
  BY <1>2 DEF Quiet, IInv, Numbered, SequenceContiguous
<1> QED
  BY <1>1, <1>2 DEF Effect, Talks, Opens, Moves, Files, Kinds

\* A notice is new because the escalation's status, or the ticket, is.
LEMMA OnceStep ==
  ASSUME IInv, Effect
  PROVE  Once'
<1> USE DEF IInv
<1>1. ASSUME NEW r \in Runs, NEW kind \in Kinds, Says(r, kind),
             kind \in NoticeKinds => Notices(r, kind) = {}
      PROVE  Once'
  <2>1. PICK new \in messages' \ messages :
           messages' = messages \cup {new} /\ new.run = r /\ new.kind = kind
    BY <1>1, Said
  <2>2. kind \in NoticeKinds => \A m \in messages : ~(m.run = r /\ m.kind = kind)
    BY <1>1 DEF Notices
  <2> QED
    BY <2>1, <2>2 DEF Once
<1>2. CASE Quiet
  BY <1>2 DEF Quiet, Once
<1>3. ASSUME NEW r \in Runs, Talks(r) PROVE Once'
  BY <1>1, <1>3 DEF Talks, Kinds, NoticeKinds, EscalationStatuses
<1>4. ASSUME NEW r \in Runs, Opens(r) PROVE Once'
  BY <1>1, <1>4 DEF Opens, Kinds, Told
<1>5. ASSUME NEW r \in Runs, NEW s \in EscalationStatuses, Moves(r, s) PROVE Once'
  <2>1. Notices(r, s) = {}
    BY <1>5, TransitionsFacts DEF Moves, Told, Active, Final, EscalationStatuses
  <2> QED
    BY <1>1, <1>5, <2>1 DEF Moves, Kinds
<1>6. ASSUME NEW r \in Runs, NEW g \in Agents, Files(r, g) PROVE Once'
  BY <1>1, <1>6 DEF Files, Kinds, Ticketed
<1> QED
  BY <1>2, <1>3, <1>4, <1>5, <1>6 DEF Effect

LEMMA ToldStep ==
  ASSUME IInv, Effect
  PROVE  Told'
<1> USE DEF IInv
<1> DEFINE HistoryKinds == {"escalation_notice"} \cup EscalationStatuses
<1>1. ASSUME UNCHANGED escalations,
             \A q \in Runs, k \in HistoryKinds : Notices(q, k)' = Notices(q, k)
      PROVE  Told'
  BY <1>1 DEF Told, Final, EscalationStatuses
<1>2. CASE Quiet
  BY <1>1, <1>2 DEF Quiet, Notices
<1>3. ASSUME NEW r \in Runs, Talks(r) PROVE Told'
  BY <1>1, <1>3, Said DEF Talks, Kinds, EscalationStatuses
<1>4. ASSUME NEW r \in Runs, Opens(r) PROVE Told'
  <2>1. /\ \A q \in Runs \ {r} : escalations'[q] = escalations[q]
        /\ escalations[r] = "none" /\ escalations'[r] = "open"
    BY <1>4 DEF Opens, TypeOK
  <2>2. /\ Notices(r, "escalation_notice")' # {}
        /\ \A q \in Runs \ {r}, k \in HistoryKinds : Notices(q, k)' = Notices(q, k)
        /\ \A k \in EscalationStatuses : Notices(r, k)' = Notices(r, k)
    BY <1>4, Said DEF Opens, Kinds, EscalationStatuses
  <2> QED
    BY <2>1, <2>2 DEF Told, Final, EscalationStatuses
<1>5. ASSUME NEW r \in Runs, NEW s \in EscalationStatuses, Moves(r, s) PROVE Told'
  <2>1. /\ \A q \in Runs \ {r} : escalations'[q] = escalations[q]
        /\ escalations[r] \in Active /\ s \in Transitions[escalations[r]]
        /\ escalations'[r] = s
    BY <1>5 DEF Moves, TypeOK
  <2>2. /\ Notices(r, s)' # {}
        /\ \A q \in Runs \ {r}, k \in HistoryKinds : Notices(q, k)' = Notices(q, k)
        /\ \A k \in HistoryKinds \ {s} : Notices(r, k)' = Notices(r, k)
    BY <1>5, Said DEF Moves, Kinds
  <2>3. \/ escalations[r] = "open" /\ s = "in_review"
        \/ escalations[r] \in Active /\ s \in Final
    BY <2>1, TransitionsFacts DEF Active, Final
  <2> QED
    BY <2>1, <2>2, <2>3 DEF Told, Active, Final, EscalationStatuses
<1>6. ASSUME NEW r \in Runs, NEW g \in Agents, Files(r, g) PROVE Told'
  BY <1>1, <1>6, Said DEF Files, Kinds, EscalationStatuses
<1> QED
  BY <1>2, <1>3, <1>4, <1>5, <1>6 DEF Effect

\* Nothing is announced after the end but a ticket.
LEMMA OrderedStep ==
  ASSUME IInv, Effect
  PROVE  Ordered'
<1> USE DEF IInv
<1>1. ASSUME NEW r \in Runs, NEW kind \in Kinds, Says(r, kind),
             kind = "in_review" => \A s \in Final : Notices(r, s) = {}
      PROVE  Ordered'
  <2>1. PICK new \in messages' \ messages :
           /\ messages' = messages \cup {new}
           /\ new.seq = conv.next /\ new.run = r /\ new.kind = kind
    BY <1>1, Said
  <2>2. \A m \in messages : m.seq < new.seq
    BY <1>1, <2>1, Said
  <2>3. kind = "in_review" => \A m \in messages : ~(m.run = r /\ m.kind \in Final)
    BY <1>1 DEF Notices
  <2> QED
    BY <2>1, <2>2, <2>3 DEF Ordered, Final
<1>2. CASE Quiet
  BY <1>2 DEF Quiet, Ordered
<1>3. ASSUME NEW r \in Runs, NEW s \in EscalationStatuses, Moves(r, s) PROVE Ordered'
  <2>1. s = "in_review" => escalations[r] = "open"
    BY <1>3, TransitionsFacts DEF Moves, Active
  <2>2. s = "in_review" => \A f \in Final : Notices(r, f) = {}
    BY <2>1 DEF Told, Final
  <2> QED
    BY <1>1, <1>3, <2>2 DEF Moves, Kinds
<1> QED
  BY <1>1, <1>2, <1>3 DEF Effect, Talks, Opens, Files, Kinds

LEMMA TicketedStep ==
  ASSUME IInv, Effect
  PROVE  Ticketed'
<1> USE DEF IInv
<1>1. ASSUME UNCHANGED tickets,
             \A q \in Runs : Notices(q, "ticket_created")' = Notices(q, "ticket_created")
      PROVE  Ticketed'
  BY <1>1 DEF Ticketed, TicketTaken
<1>2. CASE Quiet
  BY <1>1, <1>2 DEF Quiet, Notices
<1>3. ASSUME NEW r \in Runs, NEW kind \in Kinds \ {"ticket_created"}, Says(r, kind), UNCHANGED tickets
      PROVE  Ticketed'
  BY <1>1, <1>3, Said DEF Kinds
<1>4. ASSUME NEW r \in Runs, NEW g \in Agents, Files(r, g) PROVE Ticketed'
  <2> DEFINE new == [run |-> r, by |-> g]
  <2>1. new.run = r /\ tickets' = tickets \cup {new} /\ ~TicketTaken(r)
    BY <1>4 DEF Files
  <2> HIDE DEF new
  <2>2. /\ Notices(r, "ticket_created")' # {}
        /\ \A q \in Runs \ {r} : Notices(q, "ticket_created")' = Notices(q, "ticket_created")
    BY <1>4, Said DEF Files, Kinds
  <2>3. \A s, t \in tickets' : s.run = t.run => s = t
    BY <2>1 DEF Ticketed, TicketTaken
  <2>4. \A q \in Runs : TicketTaken(q)' <=> TicketTaken(q) \/ q = r
    BY <2>1 DEF TicketTaken
  <2> QED
    BY <2>2, <2>3, <2>4 DEF Ticketed
<1> QED
  BY <1>2, <1>3, <1>4 DEF Effect, Talks, Opens, Moves, Kinds, EscalationStatuses

LEMMA NextIInv ==
  ASSUME IInv, [Next]_vars
  PROVE  IInv'
<1>1. Effect
  BY StepEffect
<1> QED
  BY <1>1, TypeStep, ViewStep, FreshStep, UpdateStep, NumberedStep, OnceStep, ToldStep,
     OrderedStep, TicketedStep DEF IInv

LEMMA Invariance == Spec => []IInv
<1>1. IInv /\ [Next]_vars => IInv'
  BY NextIInv
<1> QED
  BY <1>1, InitIInv, PTL DEF Spec

-----------------------------------------------------------------------------
(* Theorems.                                                               *)

\* A set none of whose members differ has at most one.
LEMMA AtMostOne ==
  ASSUME NEW S, \A x, y \in S : x = y
  PROVE  /\ Cardinality(S) = 0 \/ Cardinality(S) = 1
         /\ Cardinality(S) = 0 <=> S = {}
<1>1. CASE S = {}
  BY <1>1, FS_EmptySet
<1>2. CASE S # {}
  <2>1. PICK x \in S : TRUE
    BY <1>2
  <2>2. S = {x}
    BY <2>1
  <2>3. Cardinality({x}) = 1
    BY FS_Singleton, Zenon
  <2> QED
    BY <1>2, <2>2, <2>3
<1> QED
  BY <1>1, <1>2

\* Every reachable state has the rows and control states declared.
THEOREM TypeCorrect == Spec => []TypeOK
<1>1. IInv => TypeOK
  BY DEF IInv
<1> QED
  BY <1>1, Invariance, PTL

\* Message numbers have no gap and no duplicate, whoever writes and whatever
\* is rolled back: allocate_message_sequence works on the current row.
THEOREM Contiguous == Spec => []SequenceContiguous
<1>1. IInv => SequenceContiguous
  BY DEF IInv, Numbered
<1> QED
  BY <1>1, Invariance, PTL

\* The customer is told once, and in order, what became of each escalation.
THEOREM HistoryTold == Spec => []HistoryTellsEscalation
<1>1. IInv => HistoryTellsEscalation
  <2> SUFFICES ASSUME IInv, NEW r \in Runs
               PROVE  HistoryTellsEscalation!(r)
    BY DEF HistoryTellsEscalation
  <2>0. Once /\ Told /\ Ordered /\ escalations[r] \in EscalationStatuses \cup {"none"}
    BY DEF IInv, TypeOK
  <2>1. ASSUME NEW k \in NoticeKinds
        PROVE  /\ Cardinality(Notices(r, k)) = 0 \/ Cardinality(Notices(r, k)) = 1
               /\ Cardinality(Notices(r, k)) = 0 <=> Notices(r, k) = {}
    <3>1. \A m, n \in Notices(r, k) : m = n
      BY <2>0 DEF Notices, Once
    <3> QED
      BY <3>1, AtMostOne
  <2>2. Cardinality(Notices(r, "escalation_notice")) = IF escalations[r] = "none" THEN 0 ELSE 1
    BY <2>0, <2>1 DEF Told, NoticeKinds
  <2>3. \A s \in EscalationStatuses : Cardinality(Notices(r, s)) <= 1
    <3> TAKE s \in EscalationStatuses
    <3>1. s \in NoticeKinds
      BY DEF NoticeKinds
    <3>2. Cardinality(Notices(r, s)) = 0 \/ Cardinality(Notices(r, s)) = 1
      BY <2>1, <3>1
    <3> QED
      BY <3>2
  <2>4. \A s \in EscalationStatuses \ {"open"} : escalations[r] = s => Notices(r, s) # {}
    BY <2>0 DEF Told, Final, EscalationStatuses
  <2>5. Cardinality(Notices(r, "resolved") \cup Notices(r, "dismissed")) <= 1
    <3>1. Notices(r, "resolved") = {} \/ Notices(r, "dismissed") = {}
      BY <2>0 DEF Told, Final
    <3>2. \/ Notices(r, "resolved") \cup Notices(r, "dismissed") = Notices(r, "resolved")
          \/ Notices(r, "resolved") \cup Notices(r, "dismissed") = Notices(r, "dismissed")
      BY <3>1
    <3> QED
      BY <2>3, <3>2 DEF EscalationStatuses
  <2>6. \A first \in Notices(r, "in_review"), last \in Notices(r, "resolved") \cup Notices(r, "dismissed") :
           first.seq < last.seq
    BY <2>0 DEF Notices, Ordered, Final
  <2> QED
    BY <2>2, <2>3, <2>4, <2>5, <2>6
<1> QED
  BY <1>1, Invariance, PTL

\* Two agents who convert one escalation get one ticket, announced once: the
\* unique index refuses the second, which rolls its notice back.
THEOREM OneTicket == Spec => []OneTicketPerEscalation
<1>1. IInv => OneTicketPerEscalation
  <2> SUFFICES ASSUME IInv, NEW r \in Runs
               PROVE  OneTicketPerEscalation!(r)
    BY DEF OneTicketPerEscalation
  <2>0. Once /\ Ticketed
    BY DEF IInv
  <2> DEFINE T == {t \in tickets : t.run = r}
             N == Notices(r, "ticket_created")
  <2>1. /\ \A s, t \in T : s = t
        /\ \A m, n \in N : m = n
        /\ T = {} <=> N = {}
    BY <2>0 DEF Ticketed, TicketTaken, Notices, Once, NoticeKinds
  <2> HIDE DEF T, N
  <2>2. /\ Cardinality(T) = 0 \/ Cardinality(T) = 1
        /\ Cardinality(T) = 0 <=> T = {}
        /\ Cardinality(N) = 0 \/ Cardinality(N) = 1
        /\ Cardinality(N) = 0 <=> N = {}
    BY <2>1, AtMostOne
  <2>3. Cardinality(T) <= 1 /\ Cardinality(N) = Cardinality(T)
    BY <2>1, <2>2
  <2> QED
    BY <2>3 DEF T, N
<1> QED
  BY <1>1, Invariance, PTL

\* A resolved or dismissed escalation stays so: the transition an agent
\* validated is still allowed when it is written, because the row is locked.
THEOREM NeverReopens == Spec => EscalationNeverReopens
<1> DEFINE Kept ==
      \A r \in Runs :
        /\ escalations[r] \in {"resolved", "dismissed"} => escalations'[r] = escalations[r]
        /\ escalations[r] # "none" => escalations'[r] # "none"
<1>1. IInv /\ [Next]_vars => [Kept]_vars
  <2> SUFFICES ASSUME IInv, [Next]_vars PROVE Kept
    OBVIOUS
  <2>0. TypeOK
    BY DEF IInv
  <2>1. CASE UNCHANGED escalations
    BY <2>1
  <2>2. ASSUME NEW r \in Runs, Opens(r) PROVE Kept
    BY <2>0, <2>2 DEF Opens, TypeOK
  <2>3. ASSUME NEW r \in Runs, NEW s \in EscalationStatuses, Moves(r, s) PROVE Kept
    BY <2>0, <2>3 DEF Moves, Active, EscalationStatuses, TypeOK
  <2> QED
    BY <2>1, <2>2, <2>3, StepEffect DEF Effect, Quiet, Talks, Files
<1> QED
  BY <1>1, Invariance, PTL DEF Spec, EscalationNeverReopens

=============================================================================
