# Verification of the AI customer support agent

TLA+ modules that model the concurrent core of this repository, TLC
configurations that check them on small instances, and proofs that TLAPS checks
for every instance. `PROJECT.json` is the machine-readable index: components,
runs, mutants, the map from definitions to source lines, findings, hazards and
theorems. Paths below are relative to `src/`.

## 1. Inventory

The system is a modular monolith: a FastAPI application (`apps/api`), synchronous
application services (`packages/application`) that each open short units of work
on PostgreSQL (read committed) through SQLAlchemy repositories
(`packages/database`), an AI pipeline (`packages/ai`, `packages/guardrails`), a
knowledge base (`packages/knowledge`), and a browser client (`apps/web`).
Requests run on worker threads; several processes may share the database.

| Component | State it keeps | Operations | Hard part |
|---|---|---|---|
| Conversation start (`application/conversations/start_conversation.py`, `accept_conversation_start.py`) | `conversation_start_requests` row, conversation, AI run | accept, claim the lease, process, record, replay, refuse | one key, many attempts; lease expiry; crash at any point |
| Message processing (`process_customer_message.py`) | conversation, messages, `ai.runs`, escalation | accept, run the pipeline outside any transaction, finalize, mark aborted | state read before the pipeline and written after it |
| Conversation life cycle (`close_conversation.py`, `conversation_notification.py`) | status, `next_message_sequence` | close, append a notice | close racing finalization; numbering |
| Title assignment (`assign_conversation_title.py`) | `conversations.title`, audit event | read, generate, compare-and-set | late generator, identity map |
| Escalations (`application/escalations`) | status, timestamps | create (in finalization), update | two agents at once |
| Tickets (`application/tickets`) | status, `row_version`, resolution, comments | create, convert an escalation, update, comment | optimistic version plus row lock; unlocked check before insert |
| Query embedding cache (`knowledge/embeddings/provider/query_cache.py`) | LRU entries, in-flight events | `get_or_compute`, `clear`, expiry | single flight, lost wake-ups, eviction |
| Provider admission and retry (`ai/providers/capacity_limited.py`, `resilient.py`) | semaphore, start lock, next start | queue, space, call, retry | lost permits, retry budget, spacing |
| AI orchestration (`ai/orchestration`), intent and decision (`ai/intent`, `ai/decision`), generation (`ai/generation`, `application/ai/answer_service.py`), guardrails (`guardrails`) | one `AIState` per message, in no transaction | route or classify, decide, retrieve, generate, review | stages that must agree; evidence that changes under the run; failures that no stage converts |
| Retrieval (`knowledge/retrieval`) | none | two searches, rank fusion, context budget | each search sees its own moment; ties; a budget in three dimensions |
| Knowledge versions and documents (`knowledge/application`) | documents, versions, chunks, embeddings, audit events | create, upload, process, embed, publish, archive | work outside transactions, overlapping workers |
| Authentication and users (`application/auth`, `application/users`) | users, credentials, session families | register, log in, rotate, log out, provision, change access | rotation racing reuse detection, logout and revocation; locks in two orders |
| Web session (`apps/web/src/shared/auth`, `app/runtime.ts`) | per tab: snapshot, token, query cache; per browser: the lock, the cookie | log in, refresh, log out, read, reload, dispose | tabs that share one cookie; answers that come late or never |
| Start coordinator of the web client (`features/chat/start-conversation-coordinator.ts`) | the submission in storage | submit, recover | the same-key retry, which is an action of conversation start |
| AI telemetry, observability, audit | call and run records, audit rows | insert | none: nothing modelled depends on them |
| Feedback | one row per message and customer | submit, review | unique index |
| Dashboard | an analytics cache | read | the query cache's shape, with differences (section 5) |
| Ingestion (`knowledge/ingestion`) | none | parse, normalize, chunk | cuts, packing and overlap under size limits that interact |

How they interact. The tabs of a browser obtain a session from the
authentication routes and share its refresh cookie; administrators end sessions
when they change a user's access. The browser sends the first message with an
idempotency key to conversation start, which calls message processing under a
lease and title assignment after it. Message processing runs the pipeline between
two transactions; the pipeline's provider calls go through admission and retry,
its query embedding through the query cache, and its searches see what the
knowledge operations publish and archive meanwhile. Finalization may create an
escalation; staff update it or convert it to a ticket, and both write notices
into the conversation, numbered by the same counter as the messages.

What makes each correct is stated in section 3; the hazards, each at its line,
are in `PROJECT.json`.

## 2. Modules

| Module | Models | Theorems in |
|---|---|---|
| `IdempotentReply` | the abstract promise: one result is decided once and every answer is that result | |
| `ConversationStart` | conversation start for one key; implements `IdempotentReply` | `ConversationStartProofs` |
| `SupportCase` | one conversation with messages, its owner and staff: processing, closing, escalations, tickets | `SupportCaseProofs` |
| `ConversationTitle` | naming one conversation | `ConversationStartProofs` |
| `QueryEmbeddingCache` | the process-local cache | `QueryEmbeddingCacheProofs` |
| `TicketUpdates` | updates and comments on one ticket | `TicketUpdatesProofs` |
| `ProviderCapacity` | admission, spacing and retry of provider calls | `AnsweringProofs` |
| `PublishedVersion` | the abstract promise: one version is served at a time, none comes back, none after archival | |
| `KnowledgeVersions` | the versions of one document; implements `PublishedVersion` | `KnowledgeVersionsProofs` |
| `StructuralChunking` | how processing a version cuts its text into chunks: a pure function of the document, extended by `KnowledgeVersions` | `KnowledgeVersionsProofs` |
| `AuthSessions` | users, credentials and session families under concurrent transactions | `AuthSessionsProofs` |
| `HybridRetrieval` | rank fusion, candidate limits and context budget, as operators beside the promises they are checked against | `AnsweringProofs` |
| `SupportDecision` | the rules of router, decision engine and guardrails, as operators | |
| `Answering` | one AI run from message to persisted outcome, while documents change; composes the two above | `AnsweringProofs` |
| `WebSession` | the tabs of one browser and the session they share | `WebSessionProofs` |

Where modules meet, one sees what the other promises: `Answering` sees a document
as a count of published versions and whether it is open, the interface
`PublishedVersion` that `KnowledgeVersions` is shown to implement; the ends of a
run in `Answering` (passed, refused, escalated, failed, aborted) are the outcomes
`SupportCase` and `ConversationStart` take as arbitrary; the server of
`WebSession` rotates, ends and refuses sessions as `AuthSessions` does.

Three proof modules serve two components each: `ConversationStartProofs` extends
the start and the title it assigns, `AnsweringProofs` the run and the provider
calls it makes, `KnowledgeVersionsProofs` the versions and the chunks of one. The definitions of `ConversationTitle` and `ProviderCapacity`
carry the component's name (`TitleSpec`, `CapacitySpec`) where they would
otherwise meet those of the other one.

The `MC` modules add the symmetry sets of the runs that check safety only; a run
that also checks liveness uses no symmetry. `MCAnswering` adds the messages and
classifications that make a difference.

Conventions. An action is one committed transaction, one statement that can see
newer data than the statement before it, or one step between transactions. A
clock read is a step of its own wherever the value is used by a later statement.
A rolled-back transaction leaves nothing but its program counter. Ids, texts and
fingerprints are model values. A definition whose name begins with `Bug` is the
mistaken form of a definition of its module: the index pairs each property with
one that must break it.

* **ConversationStart.** `request` is the row with its lifecycle constraint,
  `pc` the line each attempt is at. `Arrive`, `Lookup`, `InsertAccepted`,
  `InsertConflict`, `Reload` are `AcceptConversationStart.execute`; `LoadTerminal`,
  `AcquireLease`, `LeaseUnavailable`, `ResolveUnavailable`, `PersistTerminal`,
  `PersistLost`, `Respond` are `StartConversation.execute`; `StartRun`, `RunPipeline`,
  `FinalizeRun`, `Abort` are `execute_accepted`. `Claimable` and `MayFinish` are
  the WHERE clauses of the two lease statements. The title step, which follows
  the recorded result and swallows its exceptions, is left to `ConversationTitle`.
  An escalating `FinalizeRun` reopens a closed conversation, as in `SupportCase`.
* **SupportCase.** `view` is the conversation object a message's transaction has
  read; `MarkEscalated` writes the columns that differ from it, as the ORM does.
  Agents hold the escalation's row lock between `BeginUpdate` and `ApplyUpdate`;
  ticket conversion reads without a lock (`BeginTicket`) and inserts under the
  unique index (`InsertTicket`). Commands validation refuses are not steps. The
  recovery after an exception may fail too (`RecoverFails`), which the code
  swallows: the worker lives on and the run stays running.
* **ConversationTitle.** `writer` is the row lock taken by the compare-and-set;
  `loaded` is what the session's identity map holds.
* **QueryEmbeddingCache.** One step per critical section; the clock is read
  before the lock is taken. `event` names the thread that will set the event
  waited on. Counters, key hashing and the two flags of the result are left out.
* **TicketUpdates.** `seen` is the client's copy, of any age; `holder` the row
  lock. `StaleDataError` cannot arise while every writer locks the row first, so
  it has no action. Priority and category are one column, `details`. `assigned_at`
  is left out; the users a ticket can be assigned to are the agents.
* **ProviderCapacity.** Time counts down in `timer`, `nextStart` and
  `sinceStart`; a backoff is any length up to the maximum delay. The code spaces
  the start slots it grants (`Start`); the call follows as soon as its thread runs
  (`Call`), so two calls may begin closer together. Without an interval no slot is
  waited for; the run has one, the proofs cover both.
* **KnowledgeVersions.** `holder` and `claimed` are the row locks of the document
  and of a version; a worker's `job` is the operation it is in and what it has
  read. `BeginClaim` to `Fail` are `ProcessKnowledgeVersion`, `BeginEmbed` to
  `CommitEmbed` are `EmbedKnowledgeVersion`; the other operations are a `Begin`,
  which has the locks and has read, and a `Commit`. Chunks of a version are a
  count of how often they were stored, so an embedding can name the chunks it was
  made from; all chunks of a version are embedded together, under one profile.
  The two reads at the start of an embedding are one step, since what the first
  one sees does not change until the second. The locked reload of a version reads
  the row: the repository hands out domain objects, so the session holds no
  earlier copy. Deleting, restoring and version archival have no service.
* **StructuralChunking.** A character is its class, or one of `Letters`; offsets are
  those of the code. The three loops that split, pack and carry are a recursive
  function and folds. `preserve_section_boundaries` and `merge_small_sections` are
  on, as in the default profile. `ChunkingAssumption` is what the configuration
  validates, and that normalization leaves a segment and no blank one. `Refused` is
  what the chunker raises on: a segment without a piece, a chunk that is
  `Malformed`, or one that is only the heading of its section (`HeadingOnly`).
  The first two never happen, so no text and no size fails a version. The third
  does: the parser lists a heading as a segment of its own, and such a heading is
  alone in its chunk when the document ends, when the section breaks, or when the
  next piece is too large to join it. `ChunkingIsSound` therefore says of it only
  that a chunk ends where it must (`MustEnd`): a heading is refused only where no
  text may follow it in its chunk. `KnowledgeVersions` takes the document of a
  content from `Normalized`; where it is refused, processing raises (`Process`).
  The overlap budget counts no separators, so a chunk of many tiny pieces can lie
  wholly within the next one: `OverlapsModestly` names that exception. It cannot
  lie in one further on if an overlap with its separators is within the target,
  which the code does not validate but is true by far of the default profile (160
  characters, separators of 2, a target of 1200); with a target of 7, an overlap of
  5 and separators of 5 TLC finds five one-letter segments for which it does. The
  separator is of newlines, as in the default. The metadata of chunks is left out.
* **AuthSessions.** A worker's `job` is the transaction it runs, split where it
  waits for a lock or where another may commit between two of its statements: a
  locking SELECT and an UPDATE pick their rows when they start and see them when
  they have the locks. `seen` counts the access changes a user had when a session
  was opened. Three behaviours of the code shape the properties. The sweep that
  follows a reused token picks the sessions committed when it starts. A login
  reads the user without a lock, so one that races an access change commits a
  session made under the old access; only rotations are promised current. Logging
  out of a session that was just rotated reports it inactive while its
  replacement lives. The time of a transaction is read before it waits.
* **HybridRetrieval, SupportDecision, Answering.** A ranking is any sequence of
  distinct served chunks; scores of reciprocal ranks are kept exact by a common
  denominator. The sorted list is given by places: a chunk stands behind exactly
  those that outrank it. A message is its size class, its kind and whether it tries to
  change the rules; a classification is arbitrary within the schema. Each search
  is a transaction of its own, so two versions of a document can meet in one
  context, and evidence may be retired before its answer is shown. A message of
  over 4,000 characters is accepted and classified but cannot be searched with
  (`application/conversations/process_customer_message.py:85` against
  `knowledge/retrieval/query/builder.py:56`): its run always aborts. Retrieval
  errors leave the orchestrator as exceptions, although its docstrings speak of
  converting operational failures, and the run ends as aborted. Two kinds of
  forbidden claim share one flag. Telemetry, `retryable`, priorities, the
  reranker (off by default) and compositions without guardrails or answer service
  are left out.
* **WebSession.** The browser's lock is a FIFO `queue`; what a controller does
  between two awaits is one action. An answer that arrives for an overtaken
  operation still stores its cookie; an abandoned request stores none unless its
  headers had arrived, and the server may do its work later (`late`). Losing the
  answer of a refresh leaves the old cookie, whose next use looks like reuse and
  ends the login: hence the condition in `ReuseOnlyAfterLoss`. Registration is
  like login. Expiry, role changes, unsupported accounts and a logout answered
  `logged_out=false` are left out. In the application only the start of the page
  asks for a refresh and nothing but tests disposes of a controller; the module
  lets both happen at any time, as the controller's interface does.

## 3. Runs

| Run | Bounds | Shows |
|---|---|---|
| `start` | 3 attempts, 2 payloads, lease 1, retention 2, clock 2, one fault | `LeaseWindowsDisjoint`, `LatestHolderRecorded`; the refinement `RefinesReply` |
| `start_live` | 3 attempts, 1 payload, one fault, distant retention | liveness `NeverWedged` |
| `case` | 2 messages, 2 agents, one fault | `SequenceContiguous`, `HistoryTellsEscalation`; liveness `RunsSettle` |
| `case_closed` | 1 message, 1 agent | `ClosedIsTerminal` is violated |
| `title` | 4 executions | `NamingIsAudited` |
| `cache` | 3 threads, 2 keys, one failing, 1 entry, TTL 1, clock 2 | `TypeOK` (with the storage bound), `OneLoaderPerKey`, `AnswerIsCurrent`; liveness `WaitsEnd` |
| `tickets` | 2 agents, 2 pairs of priority and category, row version up to 5 | `NoticesTellTicket`, `NoLostUpdate` |
| `capacity` | 3 requests, 2 permits, interval 2, queue timeout 1, 2 retries | `PermitsConserved`, `StartsSpaced`; liveness `RequestsEnd` |
| `versions` | 2 workers, 3 versions, 2 contents, 2 attempts to process a version; every text of at most 7 characters, 6,250 texts of up to 21 characters and 3,125 documents of three segments, headings among them, in chunks of at most 5 characters; one content is accepted, one refused | `PublishedIsServable`, `OneProcessor`, `UploadsAreNew`, `ArtifactsStay`; the refinement `RefinesPublication`; `StoredChunksAreSound`, which is `ChunkingIsSound` of every such document once a version has chunks, and that no refused one has any |
| `sessions` | 2 users, 3 sessions, 2 workers, session TTL 2, access TTL 1, clock 1, 2 access changes | `OneActivePerFamily`, `RotatedUnderCurrentAccess`, `OnlyAccessChangesDeadlock`, `EndedStaysEnded`, `AdministratorRemains` |
| `answering` | 2 documents of 2 versions and 2 parts, 2 hits a search, 3 blocks, 5 tokens, 2 blocks a document, one change of a document | `ShownIsApproved`, `EvidenceIsRecent`, `EscalationWins`, `StagesAgree`, `FusionRespectsAgreement`, `ContextIsExplained` |
| `web` | 2 tabs, 2 users, 3 sessions, 1 waiting notice a tab, 1 lost answer | `ReuseOnlyAfterLoss`, `SignedInIsCurrent`, `DataIsShownUsers`, `LockIsReturned` |

A type invariant that TLAPS proves, and a property that is proved for every
instance and adds no question of its own, is not checked a second time by a run:
`OneConversation` and `ReplyIsDurable` of the start, `TitleNeverReplaced`,
`OneTicketPerEscalation` and `EscalationNeverReopens`, `CommentsBeforeResolution`,
`WaitersHaveLoader`,
`CallsBounded`, `EmbeddingAuditedOnce`, `FamilyExpiryKept` and `AttemptsCounted`.

Why the bounds are enough. `start`: one attempt inserts, one loses the insert, one
reclaims; the lease can run out before the retention does and the retention can
run out during processing. `case`: two messages allow one escalation to be worked
on while the other message finalizes, two agents race on either. `cache`: more
keys than entries force eviction, three threads give a loader and two waiters, one
tick expires an entry. `tickets`: four updates resolve, reopen and resolve again.
`capacity`: an interval longer than the queue timeout makes admitted requests
outwait queued ones, and more requests than permits make the queue matter.
`versions`: three versions give one superseded, one published and one on its way,
two contents a duplicate, two attempts a retry after a failure; seven characters
are cut once at every kind of boundary and long segments several times, three
segments give every case of packing: same, related, unrelated and unnamed sections, an
overlap that fits, is cut or is dropped, and a heading that its section's text
joins or does not: 7,089 of the documents are refused. `sessions`: three
sessions are a login and two rotations, or two logins and a rotation; two workers
race any two transactions, and logouts and registrations, which are one step, come
between; two users are the fewest of which one can be the last administrator.
`answering`: the context is smaller than what two searches may list, in blocks, in
tokens and per document, one part's text lies within another's, and one change
comes before, between or after the searches; the candidate limits are not reached.
`web`: two tabs are the holder and the waiter of the lock; three sessions are two
logins and a rotation, so that a tab can see another user's session.
`MaxClock`, `MaxFaults`, `MaxVersion`, `MaxClaims`, `MaxChanges`, `MaxPublished`,
`MaxSessions`, `MaxNotices` and `MaxLost` bound what the code does not bound.
Deadlock is checked in `web`, where some tab can always act; the other systems may
stop: all requests answered, the clock at its bound, or nobody wanting anything.

Fairness. `start_live` assumes that a worker which neither crashes nor raises goes
on, that the client retries a "processing" or lease-lost answer (the coordinator
in `apps/web` and the `Retry-After` header), and that time passes while a lease
runs; the conversation is not closed, because a closed one is refused for good.
The bounded number of faults is what makes an attempt remain. `case` assumes a
worker thread runs unless its process is killed; that the recovery after an
exception succeeds is not assumed, `RunsSettle` names the run it leaves behind. `cache` assumes the loader
returns or raises, which the HTTP timeout of the provider gives it.
`capacity` assumes the same of provider calls, that sleeping threads wake, and
that time passes; no fairness among requests competing for a permit is needed,
since a request that cannot get one times out. `LockIsReturned` is the safety form
of what a waiting tab needs; nothing more is assumed or shown of it.

Finding. `case_closed` ends in a counterexample to a sentence of the repository's
own documents, which `PROJECT.json` quotes: a message accepted before a close can
put the closed conversation back to escalated. Four further sentences do not
describe the modelled behaviour: a lease that runs out does not stop its worker,
so two can process one request (`packages/application/conversations/README.md:466`;
what holds is `LatestHolderRecorded`); a ticket can be made from an escalation that
ended after the check (`packages/application/tickets/README.md:136`); the loser of
a title race may report a title its session read before the winner wrote
(`packages/application/conversations/README.md:1032`); and the markdown parser does
emit a heading as a segment of its own, through the token of its text
(`packages/knowledge/ingestion/parser/markdown.py:205-206` says it does not, as
otherwise heading-only chunks can be produced): a heading whose body does not fit
its chunk fails the whole version.

## 4. Proofs

All theorems hold for every value of the constants that meets the assumptions
named in the modules: positive durations, naturals for bounds, and `None`,
`Nobody` or `Foreign` told apart from the values of the columns they stand in for;
`ProviderCapacity` also takes a finite set of requests, to count them.

* **ConversationStartProofs.** The properties are not inductive. `Invariance`
  proves a strengthening: an attempt between lease and response holds a lease
  window; the row's lease is the latest one and its token names that attempt; a
  token is never reused; the snapshot names a finished run with its outcome; each
  reply equals the snapshot. From it follow `TypeCorrect`, `OneConversationHolds`,
  `LeasesExclusive`, `LatestHolderWins`, `RepliesDurable` and, step by step,
  `ImplementsReply`: every action is a `Decide`, a `Reply` or a stutter.
  Of the title: the invariant says that the row lock's holder saw no title and
  that audit, result and title agree; hence `TitleTypeCorrect`, `NamingAudited`,
  `TitleStays`.
* **SupportCaseProofs.** The invariant says that a message whose run has not ended
  has no escalation, that the agent updating one has it locked and the transition
  it validated is still allowed, and that the notices present are those of the
  statuses gone through, none twice. `StepEffect` reduces the steps to five effects
  on messages, escalations and tickets; from these follow `Contiguous`,
  `HistoryTold`, `OneTicket`, `NeverReopens`, and `TypeCorrect` action by action.
* **QueryEmbeddingCacheProofs.** The invariant ties `inflight` to the loading
  thread and each waiter to an event still in flight; hence `SingleFlight` and
  `NoLostWakeUp`. `StorageInv` says that the entries are within the limit and no
  key has two; `TimeInv` that a pass which checks an entry read the clock after
  its call began. Eviction and expiry keep the first (`EvictedFacts`,
  `ExpiryFacts`: what stays, stays in its order); hence `TypeCorrect`, with the
  storage bound, and `AnswersCurrent`.
* **TicketUpdatesProofs.** The invariant says that only the lock holder is in a
  transaction and that its copy, or the status it checked, is still that of the
  row; hence `TypeCorrect`, `UpdatesKeepWhatOthersWrote` and `CommentsComeFirst`. That
  equal versions mean equal rows is part of it. A command that was
  valid stays so until it is committed, since the row cannot change meanwhile
  (`CommandsValid`), so a change of status is a legal move that carries the right
  timestamps and the notice that tells it (`NoticesTell`).
* **KnowledgeVersionsProofs.** The invariant says what each worker has established
  and still holds: who is in a locking operation holds the document, the version
  being published is ready and embedded, who processes owns the version alone; and
  of the rows, that exactly the completed versions have chunks, every embedding
  names the chunks there are, and numbers are 1 to n. `LockedStep` and `OwnStep`
  show why a commit does not disturb other workers. From it follow `TypeCorrect`,
  `PublishedServable`, `SingleProcessor`, `EmbeddedOnce`, `NumberedInOrder`,
  `ArtifactsAreKept`, and `PublishesAsPromised`: `CommitPublish` and
  `CommitArchive` are the steps of `PublishedVersion`, all others stutter.
  `ChunkingSound` is a fact about a function of any document under all sizes the
  configuration accepts; `StoredChunksSound` uses it, with an invariant that only
  versions of accepted documents get as far as storing (`NoRefusal`).
  Its three nested loops are a fold that packs, a fold that carries an overlap,
  and a recursion over offsets that cuts. A fold is replaced by the sequence of
  values it passes through (`FoldTrace`, from which `SourceTrace`, `PackTrace`,
  `OverlapTrace` and `RenderedTrace`), the recursion by a function that is shown
  to exist since every cut lies ahead of its cursor (`NextCutFacts`,
  `DescentExists`); each then has an invariant of its own. Cutting yields pieces
  in order, within the limit, that hold every word behind the cursor
  (`CutFrom`, hence `SourceFacts`). Carrying yields pieces of one section whose
  text is an end of the chunk's, within the budget (`Ending`, `OverlapFacts`,
  `FittedFacts`). Packing keeps of every chunk that it is the end of the one
  before it, then new text behind all earlier text (`Linked`, `WellMade`,
  `ChunkedMade`). Coverage, order and size follow at once (`MadeCovers`). That no
  chunk lies within another rests on the packing rule: a chunk is closed when the
  next piece does not fit, so an overlap that reached past a whole chunk would
  have had room for that piece (`NotWithinSecondNext`). Every segment yields a piece
  because it is not blank (`SplitYields`), no chunk is malformed because its pieces
  are trimmed, in order and within the limit (`Worded`, `MadeFormed`), and the fold
  that packs closes a chunk only before a piece that must not join it.
* **AuthSessionsProofs.** The invariant says what each transaction relies on and
  still holds: a rotating one has its session locked, active and long enough for
  another access token, and has read the user's current access; one changing
  access has every active session of its user among those it will end, and leaves
  an administrator; one verifying a password has the credential as stored. No two
  hold one lock. `JobStep`, `RevokeStep`, `AddStep`, `RotateStep` and `UserStep`
  are the five ways a step changes the rows. From it follow `TypeCorrect`,
  `OneTokenPerLogin`, `ExpiryKept`, `RotationsUnderCurrentAccess`,
  `AttemptsAllCounted`, `EndedStays` and `AdministratorStays`. `WaitInv` says
  of the replays of used tokens that each waits for usable tokens only, so the
  one that began last waits for no other (`SweepsEnd`); logins and rotations wait
  for none that waits. A circle of any length therefore has an access change in
  it: `OnlyAccessChangesWait`.
* **WebSessionProofs.** The invariant says who may have a request in flight and
  what it carries (`JobInv`, `LateInv`); that every session named anywhere was
  opened, and a signed-in tab's is one of the user it shows (`KnownInv`); that
  while a request is in flight no tab shows a user without a notice still to hear
  (`QuietInv`), and a tab without one holds the cookie's session (`CookieInv`);
  and that until an answer is lost the cookie, or the one under way, is honoured
  by the server (`ActiveInv`). Hence `TypeCorrect`, `LockReturned`, `DataPrivate`,
  `NoFalseReuse`, `TabsAgree`.
* **AnsweringProofs.** `RunInv` says what each stage may rely on: the decision is
  the one the rules make of the classification, whoever reviews a text knows that
  its citations are supplied, and the row repeats what the run came to; hence
  `OnlyApprovedIsShown`, `HumansAreCalled`, `StagesNeverDisagree`. `SearchInv` adds
  that whatever was listed or became evidence was served since the run began;
  hence `EvidenceStaysRecent` and, with `ValueInv`, `AnsweringTypeCorrect`.
  `FusionKeepsAgreement` and `ContextStaysExplained` are facts about functions of
  any search results. Fusion: sums are folds that do not depend on the order in
  which elements are taken, shares fall with the rank, so who dominates has the
  greater score; `Outranks` is a total order, so the places are 1 to n, each taken
  once (`Places`). Context: after each candidate the context holds exactly the
  candidates that were neither redundant nor without room (`Reflects`), and what
  has no room once has none later (`NoRoomLater`).
  Of provider calls: the invariant adds that the start lock's holder is
  the only request spacing and that `nextStart` and `sinceStart` add up to the
  interval; hence `CapacityTypeCorrect`, `NoPermitLost`, `RetriesBoundCalls`,
  `StartsStayApart`.

Arguments by induction over data are made here as least counterexamples: among
numbers (`LeastNumber`), or among the subsets of a finite set (`LeastSubset`). The
library's induction theorems take a predicate as a parameter, which the provers
cannot instantiate.

Every safety invariant, action property and refinement that a passing run checks
is proved. Model-checked only: liveness (`NeverWedged`, `RunsSettle`, `WaitsEnd`,
`RequestsEnd`), which is out of the prover's reach.

## 5. Not modelled, and the plan

Left out for good: prompts, text normalization and provider payloads; SQL ranking;
formatting; logging; schema migrations; read-only queries; the parsers and
normalizers of ingestion and title generation, whose properties are about wording
and layout. Lock modes
of PostgreSQL are reduced to "held or free", so the deadlock of two ticket
creations, which share the lock of the conversation's row and then both want it
exclusively, appears only as a rollback.

Not modelled: telemetry, audit and observability rows (inserted, never read by
anything modelled); feedback (one insert under a unique index, one locked update);
the analytics cache, which has the single flight of the query cache but hands the
loader's exception to its waiters and computes an entry's expiry outside its lock,
so an entry's age is counted from before its insertion; the start coordinator of
the web client beyond its same-key retry.

