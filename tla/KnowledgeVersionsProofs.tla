---------------------- MODULE KnowledgeVersionsProofs ----------------------
(***************************************************************************)
(* For any number of versions and workers: what is published is complete,  *)
(* a version has one processor, artifacts stay, and the document publishes *)
(* as PublishedVersion promises.  For every document and configuration:    *)
(* the chunks that are stored hold its text, in order and within the       *)
(* limit, and repeat little.                                               *)
(***************************************************************************)
EXTENDS KnowledgeVersions, FunctionTheorems, FiniteSetTheorems, WellFoundedInduction, TLAPS

Locking == {"creating", "claiming", "publishing", "archiving"}
AtWork == {"processing", "completing", "failing"}
Embedding == {"embedding", "inserting"}

\* What a worker has established about the rows still holds.
JobOK(w) ==
    LET j == job[w] IN
    /\ j.at \in Locking => holder = w
    /\ j.at = "creating" => document = "active" /\ (j.uploaded => ~Duplicate(j.content))
    /\ j.at = "claiming" => Claimable(j.v)
    /\ j.at = "publishing" =>
          /\ document = "active" /\ Status(j.v) = "ready"
          /\ chunks[j.v] # 0 /\ Artifact(j.v) \in embedded
          /\ j.old = Current
    /\ j.at = "archiving" => document = "active" /\ j.old = Current
    /\ j.at \in AtWork => Owned(j.v)
    /\ j.at \in Embedding => j.set = chunks[j.v] /\ chunks[j.v] # 0

\* A version is processed by one worker.
Alone ==
    \A w, x \in Workers :
        job[w].at \in AtWork /\ job[x].at \in AtWork /\ job[w].v = job[x].v => w = x

AtMostOne == \A u, v \in Published : u = v

\* Exactly the versions that were completed have chunks, and an embedding
\* belongs to the chunks there are.
ChunksTell ==
    /\ \A v \in Versions : chunks[v] # 0 <=> Embeddable(v)
    /\ \A a \in embedded : a.set = chunks[a.v] /\ chunks[a.v] # 0

Audited ==
    \A v \in Versions :
        /\ audit[v]["started"] - audit[v]["completed"] - audit[v]["failed"]
              = IF Status(v) = "processing" THEN 1 ELSE 0
        /\ audit[v]["completed"] = IF chunks[v] = 0 THEN 0 ELSE 1
        /\ audit[v]["embedded"] = IF Artifact(v) \in embedded THEN 1 ELSE 0

\* Numbers are 1, 2, ... in the order of creation.
Numbered ==
    /\ \E n \in Nat : {version[v].number : v \in Existing} = 1..n
    /\ \A u, v \in Existing : version[u].number = version[v].number => u = v

UploadsFirst ==
    \A v, w \in Existing :
        version[v].uploaded /\ version[v].content = version[w].content =>
            version[v].number <= version[w].number

RowsOK == AtMostOne /\ PublishedIsServable /\ ChunksTell /\ Audited /\ Numbered /\ UploadsFirst

IInv == TypeOK /\ (\A w \in Workers : JobOK(w)) /\ Alone /\ RowsOK

-----------------------------------------------------------------------------

\* The fields of a job are those of its place.
LEMMA JobFields ==
  ASSUME NEW j \in Jobs
  PROVE  /\ j.at = "creating" => j.content \in Contents /\ j.uploaded \in BOOLEAN
         /\ j.at \in {"claiming"} \cup AtWork \cup Embedding \cup {"publishing"} => j.v \in Versions
         /\ j.at \in Embedding => j.set \in Nat
         /\ j.at \in {"publishing", "archiving"} => j.old \in Versions \cup {None}
BY DEF Jobs, Idle, AtWork, Embedding

\* And each place is written with its fields.
LEMMA JobTypes ==
  /\ Idle \in Jobs /\ Idle.at = "idle"
  /\ \A c \in Contents, u \in BOOLEAN : [at |-> "creating", content |-> c, uploaded |-> u] \in Jobs
  /\ \A v \in Versions, p \in {"claiming"} \cup AtWork : [at |-> p, v |-> v] \in Jobs
  /\ \A v \in Versions, n \in Nat, p \in Embedding : [at |-> p, v |-> v, set |-> n] \in Jobs
  /\ \A v \in Versions, o \in Versions \cup {None} : [at |-> "publishing", v |-> v, old |-> o] \in Jobs
  /\ \A o \in Versions \cup {None} : [at |-> "archiving", old |-> o] \in Jobs
BY DEF Jobs, Idle, AtWork, Embedding

\* The current version is the one published, if any.
LEMMA CurrentFacts ==
  ASSUME AtMostOne
  PROVE  /\ Current \in Versions \cup {None}
         /\ Published = IF Current = None THEN {} ELSE {Current}
<1>1. CASE Published = {}
  BY <1>1 DEF Current
<1>2. CASE Published # {}
  <2>1. Current \in Published
    BY <1>2 DEF Current
  <2>2. Published = {Current} /\ Current \in Versions /\ Current # None
    BY <2>1, NoneAssumption DEF AtMostOne, Published
  <2> QED
    BY <2>2
<1> QED
  BY <1>1, <1>2

\* An empty document.
LEMMA InitIInv == Init => IInv
<1> SUFFICES ASSUME Init PROVE IInv
  OBVIOUS
<1> USE DEF Init
<1>0. \A v \in Versions : Status(v) = "absent"
  BY DEF Status, Absent
<1>1. Existing = {} /\ Published = {}
  BY <1>0 DEF Existing, Published
<1>2. TypeOK
  <2>1. Absent \in Rows
    BY DEF Absent, Rows, Statuses
  <2> QED
    BY <2>1, JobTypes DEF TypeOK
<1>3. (\A w \in Workers : JobOK(w)) /\ Alone
  BY JobTypes DEF JobOK, Alone, Locking, AtWork, Embedding
<1>4. AtMostOne /\ PublishedIsServable /\ UploadsFirst
  BY <1>1 DEF AtMostOne, PublishedIsServable, UploadsFirst
<1>5. ChunksTell /\ Audited
  BY <1>0 DEF ChunksTell, Audited, Embeddable, Events
<1>6. Numbered
  <2>1. {version[v].number : v \in Existing} = 1..0
    BY <1>1
  <2> QED
    BY <1>1, <2>1 DEF Numbered
<1> QED
  BY <1>2, <1>3, <1>4, <1>5, <1>6 DEF IInv, RowsOK

\* Rows that stay as they are keep what is true of them.
LEMMA RowsStay ==
  ASSUME RowsOK, UNCHANGED <<document, version, chunks, embedded, audit>>
  PROVE  RowsOK'
BY DEF RowsOK, AtMostOne, PublishedIsServable, ChunksTell, Audited, Numbered, UploadsFirst,
       Published, Status, Embeddable, Artifact, Existing

\* A step of one worker that leaves the rows alone.
LEMMA JobStep ==
  ASSUME IInv, NEW w \in Workers, NEW j \in Jobs,
         UNCHANGED <<document, version, chunks, embedded, audit>>,
         job' = [job EXCEPT ![w] = j], JobOK(w)',
         \A x \in Workers \ {w} : job[x].at \in Locking => holder' = x,
         j.at \in AtWork => job[w].at \in AtWork /\ j.v = job[w].v,
         holder' \in Workers \cup {None},
         claimed' \in [Versions -> Workers \cup {None}]
  PROVE  IInv'
<1> USE DEF IInv
<1>1. TypeOK'
  BY DEF TypeOK
<1>2. job'[w] = j /\ \A x \in Workers \ {w} : job'[x] = job[x]
  BY DEF TypeOK
<1>3. UNCHANGED <<Current, Published>>
  BY DEF Current, Published, Status
<1>4. ASSUME NEW x \in Workers \ {w} PROVE JobOK(x)'
  BY <1>2, <1>3, <1>4 DEF JobOK, Duplicate, Existing, Status, Claimable, Owned, Artifact
<1>5. Alone'
  BY <1>2 DEF Alone
<1> QED
  BY <1>1, <1>4, <1>5, RowsStay

-----------------------------------------------------------------------------

\* A worker that takes the document's lock found it free.
LEMMA FreeLock ==
  ASSUME IInv, Free, NEW x \in Workers
  PROVE  job[x].at \notin Locking
BY NoneAssumption DEF IInv, JobOK, Free

LEMMA BeginCreateInv ==
  ASSUME IInv, NEW w \in Workers, NEW c \in Contents, NEW u \in BOOLEAN, BeginCreate(w, c, u)
  PROVE  IInv'
<1> DEFINE j == [at |-> "creating", content |-> c, uploaded |-> u]
<1> USE DEF BeginCreate, Become
<1>1. j \in Jobs /\ job' = [job EXCEPT ![w] = j] /\ job'[w] = j
  BY JobTypes DEF IInv, TypeOK
<1>2. JobOK(w)'
  BY <1>1 DEF JobOK, Duplicate, Existing, Status, Locking, AtWork, Embedding
<1>3. holder' \in Workers \cup {None} /\ claimed' \in [Versions -> Workers \cup {None}]
  BY DEF IInv, TypeOK
<1>4. j.at \notin AtWork
  BY DEF AtWork
<1> HIDE DEF j
<1> QED
  BY <1>1, <1>2, <1>3, <1>4, FreeLock, JobStep

LEMMA BeginClaimInv ==
  ASSUME IInv, NEW w \in Workers, NEW v \in Versions, BeginClaim(w, v)
  PROVE  IInv'
<1> DEFINE j == [at |-> "claiming", v |-> v]
<1> USE DEF BeginClaim, Become
<1>1. j \in Jobs /\ job' = [job EXCEPT ![w] = j] /\ job'[w] = j
  BY JobTypes DEF IInv, TypeOK
<1>2. JobOK(w)'
  BY <1>1 DEF JobOK, Claimable, Status, Locking, AtWork, Embedding
<1>3. holder' \in Workers \cup {None} /\ claimed' \in [Versions -> Workers \cup {None}]
  BY DEF IInv, TypeOK
<1>4. j.at \notin AtWork
  BY DEF AtWork
<1> HIDE DEF j
<1> QED
  BY <1>1, <1>2, <1>3, <1>4, FreeLock, JobStep

LEMMA BeginPublishInv ==
  ASSUME IInv, NEW w \in Workers, NEW v \in Versions, BeginPublish(w, v)
  PROVE  IInv'
<1> DEFINE j == [at |-> "publishing", v |-> v, old |-> Current]
<1> USE DEF BeginPublish, Become
<1>1. j \in Jobs /\ job' = [job EXCEPT ![w] = j] /\ job'[w] = j
  BY JobTypes, CurrentFacts DEF IInv, TypeOK, RowsOK
<1>2. JobOK(w)'
  <2>1. Current' = Current
    BY DEF Current, Published, Status
  <2> QED
    BY <1>1, <2>1 DEF JobOK, Publishable, Covered, Artifact, Status, Locking, AtWork, Embedding
<1>3. holder' \in Workers \cup {None} /\ claimed' \in [Versions -> Workers \cup {None}]
  BY DEF IInv, TypeOK
<1>4. j.at \notin AtWork
  BY DEF AtWork
<1> HIDE DEF j
<1> QED
  BY <1>1, <1>2, <1>3, <1>4, FreeLock, JobStep

LEMMA BeginArchiveInv ==
  ASSUME IInv, NEW w \in Workers, BeginArchive(w)
  PROVE  IInv'
<1> DEFINE j == [at |-> "archiving", old |-> Current]
<1> USE DEF BeginArchive, Become
<1>1. j \in Jobs /\ job' = [job EXCEPT ![w] = j] /\ job'[w] = j
  BY JobTypes, CurrentFacts DEF IInv, TypeOK, RowsOK
<1>2. JobOK(w)'
  <2>1. Current' = Current
    BY DEF Current, Published, Status
  <2> QED
    BY <1>1, <2>1 DEF JobOK, Locking, AtWork, Embedding
<1>3. holder' \in Workers \cup {None} /\ claimed' \in [Versions -> Workers \cup {None}]
  BY DEF IInv, TypeOK
<1>4. j.at \notin AtWork
  BY DEF AtWork
<1> HIDE DEF j
<1> QED
  BY <1>1, <1>2, <1>3, <1>4, FreeLock, JobStep

LEMMA ProcessInv ==
  ASSUME IInv, NEW w \in Workers, NEW p \in {"completing", "failing"}, Process(w, p)
  PROVE  IInv'
<1> DEFINE j == [at |-> p, v |-> job[w].v]
<1> USE DEF Process, Become
<1>0. job[w].at \in AtWork /\ job[w].v \in Versions /\ p \in AtWork
  BY JobFields DEF IInv, TypeOK, AtWork
<1>1. j \in Jobs /\ job' = [job EXCEPT ![w] = j] /\ job'[w] = j
  BY <1>0, JobTypes DEF IInv, TypeOK
<1>2. JobOK(w)'
  BY <1>0, <1>1 DEF IInv, JobOK, Owned, Status, Locking, AtWork, Embedding
<1>3. holder' \in Workers \cup {None} /\ claimed' \in [Versions -> Workers \cup {None}]
  BY DEF IInv, TypeOK
<1>4. j.v = job[w].v /\ \A x \in Workers \ {w} : job[x].at \in Locking => holder' = x
  BY DEF IInv, JobOK
<1> HIDE DEF j
<1> QED
  BY <1>0, <1>1, <1>2, <1>3, <1>4, JobStep

LEMMA CompleteRaisesInv ==
  ASSUME IInv, NEW w \in Workers, CompleteRaises(w)
  PROVE  IInv'
<1> DEFINE j == [at |-> "failing", v |-> job[w].v]
<1> USE DEF CompleteRaises, Become
<1>0. job[w].at \in AtWork /\ job[w].v \in Versions
  BY JobFields DEF IInv, TypeOK, AtWork
<1>1. j \in Jobs /\ job' = [job EXCEPT ![w] = j] /\ job'[w] = j
  BY <1>0, JobTypes DEF IInv, TypeOK, AtWork
<1>2. JobOK(w)'
  BY <1>0, <1>1 DEF IInv, JobOK, Owned, Status, Locking, AtWork, Embedding
<1>3. holder' \in Workers \cup {None} /\ claimed' \in [Versions -> Workers \cup {None}]
  BY DEF IInv, TypeOK
<1>4. j.v = job[w].v /\ \A x \in Workers \ {w} : job[x].at \in Locking => holder' = x
  BY DEF IInv, JobOK
<1> HIDE DEF j
<1> QED
  BY <1>0, <1>1, <1>2, <1>3, <1>4, JobStep

LEMMA BeginEmbedInv ==
  ASSUME IInv, NEW w \in Workers, NEW v \in Versions, BeginEmbed(w, v)
  PROVE  IInv'
<1> DEFINE j == [at |-> "embedding", v |-> v, set |-> chunks[v]]
<1> USE DEF BeginEmbed, Become
<1>1. j \in Jobs /\ job' = [job EXCEPT ![w] = j] /\ job'[w] = j
  BY JobTypes DEF IInv, TypeOK, Embedding
<1>2. JobOK(w)'
  BY <1>1 DEF JobOK, Locking, AtWork, Embedding
<1>3. holder' \in Workers \cup {None} /\ claimed' \in [Versions -> Workers \cup {None}]
  BY DEF IInv, TypeOK
<1>4. j.at \notin AtWork /\ \A x \in Workers \ {w} : job[x].at \in Locking => holder' = x
  BY DEF IInv, JobOK, AtWork
<1> HIDE DEF j
<1> QED
  BY <1>1, <1>2, <1>3, <1>4, JobStep

LEMMA CheckEmbedInv ==
  ASSUME IInv, NEW w \in Workers, CheckEmbed(w)
  PROVE  IInv'
<1> USE DEF CheckEmbed, Become
<1>0. /\ job[w].v \in Versions /\ job[w].set \in Nat
      /\ job[w].set = chunks[job[w].v] /\ chunks[job[w].v] # 0
  BY JobFields DEF IInv, TypeOK, JobOK, Embedding
<1>1. holder' \in Workers \cup {None} /\ claimed' \in [Versions -> Workers \cup {None}]
  BY DEF IInv, TypeOK
<1>2. \A x \in Workers \ {w} : job[x].at \in Locking => holder' = x
  BY DEF IInv, JobOK
<1>3. [job[w] EXCEPT !.at = "inserting"] = [at |-> "inserting", v |-> job[w].v, set |-> job[w].set]
  BY DEF IInv, TypeOK, Jobs, Idle
<1>4. CASE job' = [job EXCEPT ![w] = Idle]
  <2>1. job'[w] = Idle
    BY <1>4 DEF IInv, TypeOK
  <2>2. JobOK(w)'
    BY <2>1, JobTypes DEF JobOK, Locking, AtWork, Embedding
  <2> QED
    BY <1>1, <1>2, <1>4, <2>2, JobTypes, JobStep DEF AtWork
<1>5. CASE job' = [job EXCEPT ![w] = [at |-> "inserting", v |-> job[w].v, set |-> job[w].set]]
  <2> DEFINE j == [at |-> "inserting", v |-> job[w].v, set |-> job[w].set]
  <2>1. j \in Jobs /\ job' = [job EXCEPT ![w] = j] /\ job'[w] = j
    BY <1>0, <1>5, JobTypes DEF IInv, TypeOK, Embedding
  <2>2. JobOK(w)'
    BY <1>0, <2>1 DEF JobOK, Locking, AtWork, Embedding
  <2>3. j.at \notin AtWork
    BY DEF AtWork
  <2> HIDE DEF j
  <2> QED
    BY <1>1, <1>2, <2>1, <2>2, <2>3, JobStep
<1> QED
  BY <1>3, <1>4, <1>5

LEMMA AbandonInv ==
  ASSUME IInv, NEW w \in Workers, Abandon(w)
  PROVE  IInv'
<1> USE DEF Abandon, Leave, Unlock, Become
<1>1. job'[w] = Idle
  BY DEF IInv, TypeOK
<1>2. JobOK(w)'
  BY <1>1, JobTypes DEF JobOK, Locking, AtWork, Embedding
<1>3. holder' \in Workers \cup {None} /\ claimed' \in [Versions -> Workers \cup {None}]
  BY DEF IInv, TypeOK
<1>4. \A x \in Workers \ {w} : job[x].at \in Locking => holder' = x
  BY DEF IInv, JobOK
<1> QED
  BY <1>1, <1>2, <1>3, <1>4, JobTypes, JobStep DEF AtWork

-----------------------------------------------------------------------------

\* The commit of a worker that holds the document's lock: nobody else has
\* read, under the lock, what it changes.
LEMMA LockedStep ==
  ASSUME IInv, NEW w \in Workers, job[w].at \in Locking, NEW j \in Jobs,
         job' = [job EXCEPT ![w] = j], j.at \notin Locking \cup Embedding,
         j.at \in AtWork => Status(j.v) # "processing" /\ Owned(j.v)',
         Unlock(w), UNCHANGED chunks,
         \A v \in Versions : Status(v) = "processing" => Status(v)' = "processing"
  PROVE  /\ \A x \in Workers : JobOK(x)'
         /\ Alone'
         /\ job' \in [Workers -> Jobs]
         /\ holder' \in Workers \cup {None}
         /\ claimed' \in [Versions -> Workers \cup {None}]
<1> USE DEF IInv
<1>1. job'[w] = j /\ \A x \in Workers \ {w} : job'[x] = job[x]
  BY DEF TypeOK
<1>2. JobOK(w)'
  BY <1>1 DEF JobOK, Locking, Embedding
<1>3. ASSUME NEW x \in Workers \ {w} PROVE JobOK(x)'
  <2>1. job[x].at \notin Locking /\ JobOK(x)
    BY DEF JobOK
  <2>2. job[x].at \in AtWork => job[x].v \in Versions
    BY JobFields DEF TypeOK
  <2>3. (job[x].at \in AtWork => Owned(job[x].v))'
    BY <1>1, <2>1, <2>2 DEF JobOK, Owned
  <2>4. job'[x].at \in Embedding => job'[x].set = chunks'[job'[x].v] /\ chunks'[job'[x].v] # 0
    BY <1>1, <2>1 DEF JobOK
  <2> QED
    BY <1>1, <2>1, <2>3, <2>4 DEF JobOK, Locking
<1>4. Alone'
  <2>1. \A x \in Workers : job[x].at \in AtWork => Status(job[x].v) = "processing"
    BY DEF JobOK, Owned
  <2> QED
    BY <1>1, <2>1 DEF Alone
<1> QED
  BY <1>1, <1>2, <1>3, <1>4 DEF TypeOK, Unlock

\* The next number, when those given are 1..n.
LEMMA NextNumberIs ==
  ASSUME NEW n \in Nat, {version[v].number : v \in Existing} = 1..n
  PROVE  NextNumber = n + 1
<1>1. CASE Existing = {}
  <2>1. 1..n = {}
    BY <1>1
  <2>2. n = 0
    BY <2>1
  <2> QED
    BY <1>1, <2>2 DEF NextNumber
<1>2. CASE Existing # {}
  <2>1. n \in 1..n /\ \A y \in 1..n : n >= y
    <3>1. 1..n # {}
      BY <1>2
    <3> QED
      BY <3>1
  <2>2. \A m \in 1..n : (\A y \in 1..n : m >= y) => m = n
    BY <2>1
  <2>3. Max(1..n) = n
    BY <2>1, <2>2 DEF Max
  <2> QED
    BY <1>2, <2>3 DEF NextNumber
<1> QED
  BY <1>1, <1>2

LEMMA CommitCreateInv ==
  ASSUME IInv, NEW w \in Workers, NEW v \in Versions, CommitCreate(w, v)
  PROVE  IInv'
<1> USE DEF IInv, RowsOK
<1> DEFINE row == [status |-> "draft", number |-> NextNumber,
                   content |-> job[w].content, uploaded |-> job[w].uploaded]
<1>1. PICK n \in Nat : {version[u].number : u \in Existing} = 1..n
  BY DEF Numbered
<1>2. NextNumber = n + 1
  BY <1>1, NextNumberIs
<1>3. /\ document = "active"
      /\ job[w].content \in Contents /\ job[w].uploaded \in BOOLEAN
      /\ job[w].uploaded => ~Duplicate(job[w].content)
  BY JobFields DEF TypeOK, JobOK, CommitCreate
<1>4. row \in Rows
  BY <1>2, <1>3 DEF Rows, Statuses
<1>5. version' = [version EXCEPT ![v] = row] /\ Status(v) = "absent"
  BY DEF CommitCreate, Existing
<1>6. /\ version' \in [Versions -> Rows] /\ version'[v] = row
      /\ \A u \in Versions \ {v} : version'[u] = version[u]
  BY <1>4, <1>5 DEF TypeOK
<1>7. /\ Existing' = Existing \cup {v} /\ v \notin Existing
      /\ Published' = Published
      /\ \A u \in Versions : Embeddable(u)' <=> Embeddable(u)
      /\ \A u \in Versions : Status(u)' = "processing" <=> Status(u) = "processing"
  BY <1>5, <1>6 DEF Existing, Published, Status, Embeddable
<1>8. (\A x \in Workers : JobOK(x)') /\ Alone' /\ TypeOK'
  <2>1. job[w].at \in Locking
    BY DEF CommitCreate, Locking
  <2>2. job' = [job EXCEPT ![w] = Idle] /\ Unlock(w) /\ UNCHANGED <<document, chunks, embedded, audit>>
    BY DEF CommitCreate, Leave, Become
  <2>3. Idle \in Jobs /\ Idle.at \notin Locking \cup Embedding \cup AtWork
    BY JobTypes DEF Locking, AtWork, Embedding
  <2> QED
    BY <1>6, <1>7, <2>1, <2>2, <2>3, LockedStep DEF TypeOK
<1>9. UNCHANGED <<document, chunks, embedded, audit>>
  BY DEF CommitCreate
<1>10. AtMostOne' /\ PublishedIsServable' /\ ChunksTell' /\ Audited'
  <2>1. AtMostOne' /\ PublishedIsServable'
    BY <1>7, <1>9 DEF AtMostOne, PublishedIsServable
  <2>2. ChunksTell'
    BY <1>7, <1>9 DEF ChunksTell
  <2>3. Audited'
    BY <1>7, <1>9 DEF Audited, Artifact
  <2> QED
    BY <2>1, <2>2, <2>3
<1>11. \A u \in Existing : u \in Versions /\ version'[u] = version[u] /\ version[u].number \in 1..n
  <2>1. \A u \in Existing : version[u].number \in {version[x].number : x \in Existing}
    OBVIOUS
  <2> QED
    BY <1>1, <1>6, <1>7, <2>1 DEF Existing
<1>12. version'[v].number = n + 1
  BY <1>2, <1>6
<1>13. Numbered'
  <2>1. {version'[u].number : u \in Existing'} = {version[u].number : u \in Existing} \cup {n + 1}
    BY <1>7, <1>11, <1>12
  <2>2. {version'[u].number : u \in Existing'} = 1..(n + 1) /\ n + 1 \in Nat
    BY <1>1, <2>1
  <2>3. \A u, x \in Existing' : version'[u].number = version'[x].number => u = x
    BY <1>7, <1>11, <1>12 DEF Numbered
  <2> QED
    BY <2>2, <2>3 DEF Numbered
<1>14. UploadsFirst'
  <2> SUFFICES ASSUME NEW u \in Existing', NEW x \in Existing',
                      version'[u].uploaded, version'[u].content = version'[x].content
               PROVE  version'[u].number <= version'[x].number
    BY DEF UploadsFirst
  <2>1. CASE u = v /\ x # v
    <3>1. job[w].uploaded /\ version[x].content = job[w].content /\ x \in Existing
      BY <1>6, <1>7, <1>11, <2>1
    <3> QED
      BY <1>3, <3>1 DEF Duplicate
  <2>2. CASE u # v /\ x = v
    BY <1>7, <1>11, <1>12, <2>2
  <2>3. CASE u # v /\ x # v
    BY <1>7, <1>11, <2>3 DEF UploadsFirst
  <2>4. CASE u = v /\ x = v
    BY <1>12, <2>4
  <2> QED
    BY <2>1, <2>2, <2>3, <2>4
<1> QED
  BY <1>8, <1>10, <1>13, <1>14

\* Rows whose content and number stay keep their numbering.
LEMMA SameNumbers ==
  ASSUME Numbered, UploadsFirst, Existing' = Existing,
         \A v \in Existing : /\ version'[v].number = version[v].number
                             /\ version'[v].content = version[v].content
                             /\ version'[v].uploaded = version[v].uploaded
  PROVE  Numbered' /\ UploadsFirst'
<1>1. {version'[v].number : v \in Existing'} = {version[v].number : v \in Existing}
  OBVIOUS
<1>2. Numbered'
  BY <1>1 DEF Numbered
<1>3. UploadsFirst'
  BY DEF UploadsFirst
<1> QED
  BY <1>2, <1>3

LEMMA CommitClaimInv ==
  ASSUME IInv, NEW w \in Workers, CommitClaim(w)
  PROVE  IInv'
<1> USE DEF IInv, RowsOK
<1>0. PICK v \in Versions : v = job[w].v
  BY JobFields DEF TypeOK, CommitClaim
<1> DEFINE j == [at |-> "processing", v |-> v]
<1>1. v \in Versions /\ Claimable(v)
  BY <1>0 DEF JobOK, CommitClaim
<1>2. /\ version' = [version EXCEPT ![v].status = "processing"]
      /\ audit' = [audit EXCEPT ![v]["started"] = @ + 1]
      /\ UNCHANGED <<document, chunks, embedded>>
  BY <1>0 DEF CommitClaim, Record
<1>3. /\ version' \in [Versions -> Rows]
      /\ version'[v] = [version[v] EXCEPT !.status = "processing"]
      /\ \A u \in Versions \ {v} : version'[u] = version[u]
  BY <1>1, <1>2 DEF TypeOK, Rows, Statuses
<1>4. /\ audit' \in [Versions -> [Events -> Nat]]
      /\ audit'[v] = [audit[v] EXCEPT !["started"] = @ + 1]
      /\ \A u \in Versions \ {v} : audit'[u] = audit[u]
  BY <1>1, <1>2 DEF TypeOK, Events
<1>5. /\ version[v] \in Rows /\ version'[v].status = "processing"
      /\ version'[v].number = version[v].number
      /\ version'[v].content = version[v].content
      /\ version'[v].uploaded = version[v].uploaded
  BY <1>1, <1>3 DEF TypeOK, Rows
<1>6. /\ Existing' = Existing /\ Published' = Published
      /\ \A u \in Versions : Embeddable(u)' <=> Embeddable(u)
  <2>1. Status(v) \in {"draft", "failed"} /\ Status(v)' = "processing"
    BY <1>1, <1>5 DEF Status, Claimable
  <2>2. \A u \in Versions \ {v} : Status(u)' = Status(u)
    BY <1>3 DEF Status
  <2> QED
    BY <1>1, <2>1, <2>2 DEF Existing, Published, Embeddable
<1>7. (\A x \in Workers : JobOK(x)') /\ Alone' /\ TypeOK'
  <2>1. job[w].at \in Locking
    BY DEF CommitClaim, Locking
  <2>2. job' = [job EXCEPT ![w] = j] /\ Unlock(w)
    BY <1>0 DEF CommitClaim, Become
  <2>3. j \in Jobs /\ j.at \notin Locking \cup Embedding
    BY <1>1, JobTypes DEF Locking, AtWork, Embedding
  <2>4. Status(j.v) # "processing" /\ Owned(j.v)'
    BY <1>1, <1>5 DEF Status, Owned, Claimable
  <2>5. \A u \in Versions : Status(u) = "processing" => Status(u)' = "processing"
    BY <1>3, <1>5 DEF Status
  <2> HIDE DEF j
  <2> QED
    BY <1>2, <1>3, <1>4, <2>1, <2>2, <2>3, <2>4, <2>5, LockedStep DEF TypeOK
<1>8. AtMostOne' /\ PublishedIsServable' /\ ChunksTell'
  BY <1>2, <1>6 DEF AtMostOne, PublishedIsServable, ChunksTell
<1>9. Audited'
  <2> SUFFICES ASSUME NEW u \in Versions
               PROVE  /\ audit'[u]["started"] - audit'[u]["completed"] - audit'[u]["failed"]
                            = IF Status(u)' = "processing" THEN 1 ELSE 0
                      /\ audit'[u]["completed"] = IF chunks[u] = 0 THEN 0 ELSE 1
                      /\ audit'[u]["embedded"] = IF Artifact(u) \in embedded THEN 1 ELSE 0
    BY <1>2 DEF Audited, Artifact
  <2>1. CASE u # v
    BY <1>3, <1>4, <2>1 DEF Audited, Status
  <2>2. CASE u = v
    <3>1. /\ audit'[v]["started"] = audit[v]["started"] + 1
          /\ audit'[v]["completed"] = audit[v]["completed"]
          /\ audit'[v]["failed"] = audit[v]["failed"]
          /\ audit'[v]["embedded"] = audit[v]["embedded"]
          /\ \A e \in Events : audit[v][e] \in Nat
      BY <1>1, <1>4 DEF TypeOK, Events
    <3>2. Status(v) # "processing" /\ Status(v)' = "processing"
      BY <1>1, <1>5 DEF Claimable, Status
    <3> QED
      BY <1>1, <2>2, <3>1, <3>2 DEF Audited, Events
  <2> QED
    BY <2>1, <2>2
<1>10. Numbered' /\ UploadsFirst'
  <2>1. \A u \in Existing : u \in Versions
    BY DEF Existing
  <2> QED
    BY <1>3, <1>5, <1>6, <2>1, SameNumbers
<1> QED
  BY <1>7, <1>8, <1>9, <1>10

\* The rows a supersession leaves.
LEMMA SupersedingRows ==
  ASSUME IInv, NEW u \in Versions
  PROVE  /\ Superseding(Current, u) \in Rows
         /\ Superseding(Current, u).status =
                IF Status(u) = "published" THEN "superseded" ELSE Status(u)
         /\ Superseding(Current, u).number = version[u].number
         /\ Superseding(Current, u).content = version[u].content
         /\ Superseding(Current, u).uploaded = version[u].uploaded
<1>1. Status(u) = "published" <=> u = Current
  <2>1. u \in Published <=> u = Current
    BY CurrentFacts, NoneAssumption DEF IInv, RowsOK
  <2> QED
    BY <2>1 DEF Published
<1>2. version[u] \in Rows
  BY DEF IInv, TypeOK
<1> QED
  BY <1>1, <1>2 DEF Superseding, Rows, Statuses, Status

LEMMA CommitPublishInv ==
  ASSUME IInv, NEW w \in Workers, CommitPublish(w)
  PROVE  IInv' /\ Current' = job[w].v
<1> USE DEF IInv, RowsOK
<1> DEFINE v == job[w].v
<1>1. /\ v \in Versions /\ document = "active" /\ Status(v) = "ready"
      /\ chunks[v] # 0 /\ Artifact(v) \in embedded
      /\ job[w].old = Current
  BY JobFields DEF TypeOK, JobOK, CommitPublish
<1>2. /\ version' = [[u \in Versions |-> Superseding(Current, u)] EXCEPT ![v].status = "published"]
      /\ audit' = [audit EXCEPT ![v]["published"] = @ + 1]
      /\ UNCHANGED <<document, chunks, embedded>>
  BY <1>1 DEF CommitPublish, Record
<1>3. job[w].at = "publishing" /\ job' = [job EXCEPT ![w] = Idle] /\ Unlock(w)
  BY DEF CommitPublish, Leave, Become
<1> HIDE DEF v
<1>4. /\ \A u \in Versions : version'[u] \in Rows
      /\ \A u \in Versions \ {v} : version'[u] = Superseding(Current, u)
      /\ version'[v] = [Superseding(Current, v) EXCEPT !.status = "published"]
      /\ version' \in [Versions -> Rows]
  BY <1>1, <1>2, SupersedingRows DEF Rows, Statuses
<1>5. \A u \in Versions :
        /\ Status(u)' = IF u = v THEN "published" ELSE
                         IF Status(u) = "published" THEN "superseded" ELSE Status(u)
        /\ version'[u].number = version[u].number
        /\ version'[u].content = version[u].content
        /\ version'[u].uploaded = version[u].uploaded
  BY <1>1, <1>4, SupersedingRows DEF Rows, Status
<1>6. /\ Existing' = Existing /\ Published' = {v}
      /\ \A u \in Versions : /\ Embeddable(u)' <=> Embeddable(u)
                             /\ Status(u)' = "processing" <=> Status(u) = "processing"
  BY <1>1, <1>5 DEF Existing, Published, Embeddable
<1>7. /\ audit' \in [Versions -> [Events -> Nat]]
      /\ \A u \in Versions, e \in Events \ {"published"} : audit'[u][e] = audit[u][e]
  BY <1>1, <1>2 DEF TypeOK, Events
<1>8. (\A x \in Workers : JobOK(x)') /\ Alone' /\ TypeOK'
  <2>1. job[w].at \in Locking
    BY <1>3 DEF Locking
  <2>2. Idle \in Jobs /\ Idle.at \notin Locking \cup Embedding \cup AtWork
    BY JobTypes DEF Locking, AtWork, Embedding
  <2> QED
    BY <1>2, <1>3, <1>4, <1>6, <1>7, <2>1, <2>2, LockedStep DEF TypeOK
<1>9. AtMostOne' /\ PublishedIsServable' /\ ChunksTell'
  BY <1>1, <1>2, <1>6 DEF AtMostOne, PublishedIsServable, ChunksTell, Artifact
<1>10. Audited'
  BY <1>2, <1>6, <1>7 DEF Audited, Artifact, Events
<1>11. Numbered' /\ UploadsFirst'
  <2>1. \A u \in Existing : u \in Versions
    BY DEF Existing
  <2> QED
    BY <1>5, <1>6, <2>1, SameNumbers
<1>12. Current' = v
  BY <1>6 DEF Current
<1> QED
  BY <1>8, <1>9, <1>10, <1>11, <1>12 DEF v

LEMMA CommitArchiveInv ==
  ASSUME IInv, NEW w \in Workers, CommitArchive(w)
  PROVE  IInv' /\ Current' = None
<1> USE DEF IInv, RowsOK
<1>1. document = "active" /\ job[w].old = Current
  BY DEF JobOK, CommitArchive
<1>2. /\ version' = [u \in Versions |-> Superseding(Current, u)]
      /\ document' = "archived"
      /\ UNCHANGED <<chunks, embedded, audit>>
  BY <1>1 DEF CommitArchive
<1>3. job[w].at = "archiving" /\ job' = [job EXCEPT ![w] = Idle] /\ Unlock(w)
  BY DEF CommitArchive, Leave, Become
<1>4. version' \in [Versions -> Rows]
  BY <1>2, SupersedingRows
<1>5. \A u \in Versions :
        /\ Status(u)' = IF Status(u) = "published" THEN "superseded" ELSE Status(u)
        /\ version'[u].number = version[u].number
        /\ version'[u].content = version[u].content
        /\ version'[u].uploaded = version[u].uploaded
  BY <1>2, SupersedingRows DEF Status
<1>6. /\ Existing' = Existing /\ Published' = {}
      /\ \A u \in Versions : /\ Embeddable(u)' <=> Embeddable(u)
                             /\ Status(u)' = "processing" <=> Status(u) = "processing"
  BY <1>5 DEF Existing, Published, Embeddable
<1>7. (\A x \in Workers : JobOK(x)') /\ Alone' /\ TypeOK'
  <2>1. job[w].at \in Locking
    BY <1>3 DEF Locking
  <2>2. Idle \in Jobs /\ Idle.at \notin Locking \cup Embedding \cup AtWork
    BY JobTypes DEF Locking, AtWork, Embedding
  <2> QED
    BY <1>2, <1>3, <1>4, <1>6, <2>1, <2>2, LockedStep DEF TypeOK
<1>8. AtMostOne' /\ PublishedIsServable' /\ ChunksTell' /\ Audited'
  BY <1>2, <1>6 DEF AtMostOne, PublishedIsServable, ChunksTell, Audited, Artifact
<1>9. Numbered' /\ UploadsFirst'
  <2>1. \A u \in Existing : u \in Versions
    BY DEF Existing
  <2> QED
    BY <1>5, <1>6, <2>1, SameNumbers
<1>10. Current' = None
  BY <1>6 DEF Current
<1> QED
  BY <1>7, <1>8, <1>9, <1>10

\* A worker ends its processing of a version, under the version's lock
\* alone: other workers have read nothing it changes.
LEMMA OwnStep ==
  ASSUME IInv, NEW w \in Workers, job[w].at \in AtWork, NEW v \in Versions, v = job[w].v,
         job' = [job EXCEPT ![w] = Idle], UNCHANGED <<document, holder, claimed, embedded>>,
         NEW s \in {"ready", "failed"}, version' = [version EXCEPT ![v].status = s],
         \A u \in Versions \ {v} : chunks'[u] = chunks[u]
  PROVE  /\ \A x \in Workers : JobOK(x)'
         /\ Alone' /\ AtMostOne' /\ PublishedIsServable' /\ Numbered' /\ UploadsFirst'
         /\ version' \in [Versions -> Rows]
         /\ job' \in [Workers -> Jobs]
         /\ Status(v) = "processing" /\ Status(v)' = s
         /\ \A u \in Versions \ {v} : Status(u)' = Status(u)
<1>0. version \in [Versions -> Rows]
  BY DEF IInv, TypeOK
<1>2. /\ version' \in [Versions -> Rows]
      /\ version'[v] = [version[v] EXCEPT !.status = s]
      /\ \A u \in Versions \ {v} : version'[u] = version[u]
  <2> DEFINE r == [version[v] EXCEPT !.status = s]
  <2>1. version' = [version EXCEPT ![v] = r]
    OBVIOUS
  <2>2. version[v] \in Rows
    BY <1>0
  <2>3. r \in Rows
    BY <2>2 DEF Rows, Statuses
  <2> HIDE DEF r
  <2>4. version' \in [Versions -> Rows] /\ version'[v] = r
    BY <1>0, <2>1, <2>3
  <2>5. \A u \in Versions \ {v} : version'[u] = version[u]
    BY <1>0, <2>1
  <2> QED
    BY <2>4, <2>5 DEF r
<1> USE DEF IInv, RowsOK
<1>1. Status(v) = "processing" /\ chunks[v] = 0
  BY DEF JobOK, Owned, ChunksTell, Embeddable
<1>3. /\ Status(v)' = s
      /\ \A u \in Versions \ {v} : Status(u)' = Status(u)
      /\ version'[v].number = version[v].number
      /\ version'[v].content = version[v].content
      /\ version'[v].uploaded = version[v].uploaded
  BY <1>2 DEF TypeOK, Rows, Status
<1>4. Existing' = Existing /\ Published' = Published /\ v \notin Published
  BY <1>1, <1>3 DEF Existing, Published
<1>5. Current' = Current
  BY <1>4 DEF Current
<1>6. job'[w] = Idle /\ job' \in [Workers -> Jobs] /\ \A x \in Workers \ {w} : job'[x] = job[x]
  BY JobTypes DEF TypeOK
<1>7. JobOK(w)'
  BY <1>6, JobTypes DEF JobOK, Locking, AtWork, Embedding
<1>8. ASSUME NEW x \in Workers \ {w} PROVE JobOK(x)'
  <2> USE <1>6
  <2>1. /\ JobOK(x)
        /\ job[x].at \in {"claiming"} \cup AtWork \cup Embedding \cup {"publishing"}
             => job[x].v \in Versions
    BY JobFields DEF TypeOK
  <2>2. (job[x].at \in Locking => holder = x)'
    BY <2>1 DEF JobOK
  <2>3. (job[x].at = "creating" =>
           document = "active" /\ (job[x].uploaded => ~Duplicate(job[x].content)))'
    <3>1. \A u \in Existing : u \in Versions /\ version'[u].content = version[u].content
      BY <1>2, <1>3 DEF Existing
    <3> QED
      BY <1>4, <2>1, <3>1 DEF JobOK, Duplicate
  <2>4. (job[x].at = "claiming" => Claimable(job[x].v))'
    BY <1>1, <1>2, <2>1 DEF JobOK, Claimable, Status
  <2>5. (job[x].at = "publishing" =>
           /\ document = "active" /\ Status(job[x].v) = "ready"
           /\ chunks[job[x].v] # 0 /\ Artifact(job[x].v) \in embedded
           /\ job[x].old = Current)'
    BY <1>1, <1>2, <1>5, <2>1 DEF JobOK, Status, Artifact
  <2>6. (job[x].at = "archiving" => document = "active" /\ job[x].old = Current)'
    BY <1>5, <2>1 DEF JobOK
  <2>7. (job[x].at \in AtWork => Owned(job[x].v))'
    BY <1>2, <2>1 DEF JobOK, Owned, Status, Alone
  <2>8. (job[x].at \in Embedding => job[x].set = chunks[job[x].v] /\ chunks[job[x].v] # 0)'
    BY <1>1, <2>1 DEF JobOK
  <2> QED
    BY <2>2, <2>3, <2>4, <2>5, <2>6, <2>7, <2>8 DEF JobOK
<1>9. Alone'
  BY <1>6, JobTypes DEF Alone, AtWork
<1>10. AtMostOne' /\ PublishedIsServable'
  <2>1. \A u \in Published : u \in Versions \ {v}
    BY <1>4 DEF Published
  <2> QED
    BY <1>4, <2>1 DEF AtMostOne, PublishedIsServable
<1>11. Numbered' /\ UploadsFirst'
  <2>1. \A u \in Existing : u \in Versions
    BY DEF Existing
  <2> QED
    BY <1>2, <1>3, <1>4, <2>1, SameNumbers
<1> QED
  BY <1>1, <1>2, <1>3, <1>6, <1>7, <1>8, <1>9, <1>10, <1>11

\* What was completed has no embeddings yet.
LEMMA NothingEmbedded ==
  ASSUME IInv, NEW v \in Versions, Owned(v)
  PROVE  chunks[v] = 0 /\ \A a \in embedded : a.v # v
BY DEF IInv, RowsOK, ChunksTell, Owned, Embeddable, Status

LEMMA CompleteInv ==
  ASSUME IInv, NEW w \in Workers, Complete(w)
  PROVE  IInv' /\ embedded' = embedded
<1> USE DEF IInv, RowsOK
<1>0. PICK v \in Versions : v = job[w].v
  BY JobFields DEF TypeOK, Complete, AtWork
<1>1. /\ Owned(v)
      /\ chunks' = [chunks EXCEPT ![v] = @ + 1]
      /\ embedded' = {a \in embedded : a.v # v}
      /\ version' = [version EXCEPT ![v].status = "ready"]
      /\ audit' = [audit EXCEPT ![v]["completed"] = @ + 1]
      /\ job' = [job EXCEPT ![w] = Idle]
      /\ UNCHANGED <<document, holder, claimed>>
      /\ job[w].at \in AtWork
  BY <1>0 DEF Complete, Become, Record, AtWork
<1>2. chunks[v] = 0 /\ (\A a \in embedded : a.v # v) /\ embedded' = embedded
  BY <1>1, NothingEmbedded
<1>3. /\ chunks' \in [Versions -> Nat] /\ chunks'[v] = 1
      /\ \A u \in Versions \ {v} : chunks'[u] = chunks[u]
  BY <1>1, <1>2 DEF TypeOK
<1>4. /\ \A x \in Workers : JobOK(x)'
      /\ Alone' /\ AtMostOne' /\ PublishedIsServable' /\ Numbered' /\ UploadsFirst'
      /\ version' \in [Versions -> Rows] /\ job' \in [Workers -> Jobs]
      /\ Status(v) = "processing" /\ Status(v)' = "ready"
      /\ \A u \in Versions \ {v} : Status(u)' = Status(u)
  BY <1>0, <1>1, <1>2, <1>3, OwnStep
<1>5. /\ audit' \in [Versions -> [Events -> Nat]]
      /\ \A u \in Versions \ {v} : audit'[u] = audit[u]
      /\ audit'[v]["started"] = audit[v]["started"]
      /\ audit'[v]["completed"] = audit[v]["completed"] + 1
      /\ audit'[v]["failed"] = audit[v]["failed"]
      /\ audit'[v]["embedded"] = audit[v]["embedded"]
      /\ \A e \in Events : audit[v][e] \in Nat
  BY <1>1 DEF TypeOK, Events
<1>6. TypeOK'
  BY <1>1, <1>2, <1>3, <1>4, <1>5 DEF TypeOK
<1>7. ChunksTell'
  <2>1. (\A u \in Versions : chunks[u] # 0 <=> Embeddable(u))'
    BY <1>3, <1>4 DEF ChunksTell, Embeddable
  <2>2. (\A a \in embedded : a.set = chunks[a.v] /\ chunks[a.v] # 0)'
    BY <1>2, <1>3 DEF ChunksTell, TypeOK
  <2> QED
    BY <2>1, <2>2 DEF ChunksTell
<1>8. Audited'
  <2> SUFFICES ASSUME NEW u \in Versions
               PROVE  /\ audit'[u]["started"] - audit'[u]["completed"] - audit'[u]["failed"]
                            = IF Status(u)' = "processing" THEN 1 ELSE 0
                      /\ audit'[u]["completed"] = IF chunks'[u] = 0 THEN 0 ELSE 1
                      /\ audit'[u]["embedded"] = IF Artifact(u)' \in embedded THEN 1 ELSE 0
    BY <1>2 DEF Audited, Artifact
  <2>1. CASE u # v
    BY <1>3, <1>4, <1>5, <2>1 DEF Audited, Artifact
  <2>2. CASE u = v
    <3>1. Artifact(v) \notin embedded /\ Artifact(v)' \notin embedded
      BY <1>2 DEF Artifact
    <3> QED
      BY <1>2, <1>3, <1>4, <1>5, <2>2, <3>1 DEF Audited, Events
  <2> QED
    BY <2>1, <2>2
<1> QED
  BY <1>2, <1>4, <1>6, <1>7, <1>8

LEMMA FailInv ==
  ASSUME IInv, NEW w \in Workers, Fail(w)
  PROVE  IInv'
<1> USE DEF IInv, RowsOK
<1>0. PICK v \in Versions : v = job[w].v
  BY JobFields DEF TypeOK, Fail, AtWork
<1>1. /\ Owned(v)
      /\ version' = [version EXCEPT ![v].status = "failed"]
      /\ audit' = [audit EXCEPT ![v]["failed"] = @ + 1]
      /\ job' = [job EXCEPT ![w] = Idle]
      /\ UNCHANGED <<document, chunks, embedded, holder, claimed>>
      /\ job[w].at \in AtWork
  BY <1>0 DEF Fail, Become, Record, AtWork, JobOK
<1>2. chunks[v] = 0
  BY <1>1, NothingEmbedded
<1>4. /\ \A x \in Workers : JobOK(x)'
      /\ Alone' /\ AtMostOne' /\ PublishedIsServable' /\ Numbered' /\ UploadsFirst'
      /\ version' \in [Versions -> Rows] /\ job' \in [Workers -> Jobs]
      /\ Status(v) = "processing" /\ Status(v)' = "failed"
      /\ \A u \in Versions \ {v} : Status(u)' = Status(u)
  BY <1>0, <1>1, OwnStep
<1>5. /\ audit' \in [Versions -> [Events -> Nat]]
      /\ \A u \in Versions \ {v} : audit'[u] = audit[u]
      /\ audit'[v]["started"] = audit[v]["started"]
      /\ audit'[v]["completed"] = audit[v]["completed"]
      /\ audit'[v]["failed"] = audit[v]["failed"] + 1
      /\ audit'[v]["embedded"] = audit[v]["embedded"]
      /\ \A e \in Events : audit[v][e] \in Nat
  BY <1>1 DEF TypeOK, Events
<1>6. TypeOK'
  BY <1>1, <1>4, <1>5 DEF TypeOK
<1>7. ChunksTell'
  BY <1>1, <1>2, <1>4 DEF ChunksTell, Embeddable
<1>8. Audited'
  <2> SUFFICES ASSUME NEW u \in Versions
               PROVE  /\ audit'[u]["started"] - audit'[u]["completed"] - audit'[u]["failed"]
                            = IF Status(u)' = "processing" THEN 1 ELSE 0
                      /\ audit'[u]["completed"] = IF chunks[u] = 0 THEN 0 ELSE 1
                      /\ audit'[u]["embedded"] = IF Artifact(u) \in embedded THEN 1 ELSE 0
    BY <1>1 DEF Audited, Artifact
  <2>1. CASE u # v
    BY <1>4, <1>5, <2>1 DEF Audited
  <2>2. CASE u = v
    BY <1>4, <1>5, <2>2 DEF Audited, Events
  <2> QED
    BY <2>1, <2>2
<1> QED
  BY <1>4, <1>6, <1>7, <1>8

LEMMA CommitEmbedInv ==
  ASSUME IInv, NEW w \in Workers, CommitEmbed(w)
  PROVE  IInv' /\ embedded \subseteq embedded'
<1> USE DEF IInv, RowsOK
<1>0. PICK v \in Versions : v = job[w].v
  BY JobFields DEF TypeOK, CommitEmbed, Embedding
<1>1. /\ job[w].set = chunks[v] /\ chunks[v] # 0
      /\ embedded' = embedded \cup {Artifact(v)}
      /\ IF Artifact(v) \notin embedded
         THEN audit' = [audit EXCEPT ![v]["embedded"] = @ + 1] ELSE audit' = audit
      /\ job' = [job EXCEPT ![w] = Idle]
      /\ UNCHANGED <<document, version, chunks, holder, claimed>>
  BY <1>0 DEF CommitEmbed, Become, Record, JobOK, Artifact, NewArtifact, Embedding
<1>2. job'[w] = Idle /\ job' \in [Workers -> Jobs] /\ \A x \in Workers \ {w} : job'[x] = job[x]
  BY <1>1, JobTypes DEF TypeOK
<1>3. UNCHANGED <<Current, Published, Existing>>
  BY <1>1 DEF Current, Published, Existing, Status
<1>4. JobOK(w)' /\ Alone'
  BY <1>2, JobTypes DEF JobOK, Alone, Locking, AtWork, Embedding
<1>5. ASSUME NEW x \in Workers \ {w} PROVE JobOK(x)'
  BY <1>1, <1>2, <1>3, <1>5 DEF JobOK, Duplicate, Status, Claimable, Owned, Artifact
<1>6. \A u \in Versions :
        /\ audit'[u] \in [Events -> Nat]
        /\ audit'[u]["started"] = audit[u]["started"]
        /\ audit'[u]["completed"] = audit[u]["completed"]
        /\ audit'[u]["failed"] = audit[u]["failed"]
        /\ audit'[u]["embedded"] =
             IF u = v /\ Artifact(v) \notin embedded THEN audit[u]["embedded"] + 1
             ELSE audit[u]["embedded"]
  BY <1>1 DEF TypeOK, Events
<1>7. TypeOK'
  <2>1. Artifact(v) \in [v : Versions, set : Nat]
    BY DEF Artifact, TypeOK
  <2>2. audit' \in [Versions -> [Events -> Nat]]
    BY <1>1, <1>6 DEF TypeOK
  <2> QED
    BY <1>1, <1>2, <2>1, <2>2 DEF TypeOK
<1>8. AtMostOne' /\ PublishedIsServable' /\ ChunksTell' /\ Numbered' /\ UploadsFirst'
  BY <1>1, <1>3 DEF AtMostOne, PublishedIsServable, ChunksTell, Numbered, UploadsFirst,
                    Embeddable, Status, Artifact
<1>9. Audited'
  <2>1. \A u \in Versions : Artifact(u)' \in embedded' <=> u = v \/ Artifact(u) \in embedded
    BY <1>1 DEF Artifact
  <2> QED
    BY <1>1, <1>6, <2>1 DEF Audited, Status
<1> QED
  BY <1>1, <1>4, <1>5, <1>7, <1>8, <1>9

-----------------------------------------------------------------------------
(* What each step does to what the document serves, and to the artifacts.  *)

Retired == {v \in Versions : Status(v) = "superseded"}
SameServed == UNCHANGED <<document, Current, Retired>>
Served(w) == CommitPublish(w) \/ CommitArchive(w)
ArtifactsKept ==
    /\ \A v \in Versions : chunks[v] # 0 => chunks'[v] = chunks[v]
    /\ embedded \subseteq embedded'

\* The document serves the same as long as its rows stay published or not.
LEMMA SameRows ==
  ASSUME document' = document,
         \A v \in Versions : /\ Status(v)' = "published" <=> Status(v) = "published"
                             /\ Status(v)' = "superseded" <=> Status(v) = "superseded"
  PROVE  SameServed
<1>1. Published' = Published /\ Retired' = Retired
  BY DEF Published, Retired
<1> QED
  BY <1>1 DEF SameServed, Current

LEMMA OneRow ==
  ASSUME IInv, document' = document, NEW v \in Versions, NEW s,
         Status(v) \notin {"published", "superseded"}, s \notin {"published", "superseded"},
         Status(v)' = s, \A u \in Versions \ {v} : version'[u] = version[u]
  PROVE  SameServed
BY SameRows DEF Status

LEMMA QuietStep ==
  ASSUME UNCHANGED <<document, version, chunks, embedded>>
  PROVE  SameServed /\ ArtifactsKept
BY SameRows DEF Status, ArtifactsKept

LEMMA WorkerStep ==
  ASSUME IInv, NEW w \in Workers, Next!(w)
  PROVE  IInv' /\ ArtifactsKept /\ (SameServed \/ Served(w))
<1>1. ASSUME NEW c \in Contents, NEW u \in BOOLEAN, BeginCreate(w, c, u)
      PROVE  IInv' /\ ArtifactsKept /\ SameServed
  BY <1>1, BeginCreateInv, QuietStep DEF BeginCreate
<1>2. ASSUME NEW v \in Versions, CommitCreate(w, v)
      PROVE  IInv' /\ ArtifactsKept /\ SameServed
  <2>1. /\ Status(v) = "absent" /\ Status(v)' = "draft"
        /\ \A u \in Versions \ {v} : version'[u] = version[u]
    BY <1>2 DEF CommitCreate, IInv, TypeOK, Existing, Status
  <2> QED
    BY <1>2, <2>1, CommitCreateInv, OneRow DEF CommitCreate, ArtifactsKept
<1>3. ASSUME NEW v \in Versions, BeginClaim(w, v) \/ BeginEmbed(w, v) \/ BeginPublish(w, v)
      PROVE  IInv' /\ ArtifactsKept /\ SameServed
  BY <1>3, BeginClaimInv, BeginEmbedInv, BeginPublishInv, QuietStep
     DEF BeginClaim, BeginEmbed, BeginPublish
<1>4. ASSUME CommitClaim(w) PROVE IInv' /\ ArtifactsKept /\ SameServed
  <2>0. PICK v \in Versions : v = job[w].v /\ Claimable(v)
    BY <1>4, JobFields DEF IInv, TypeOK, JobOK, CommitClaim
  <2>1. /\ Status(v) \in {"draft", "failed"} /\ Status(v)' = "processing"
        /\ \A u \in Versions \ {v} : version'[u] = version[u]
    BY <1>4, <2>0 DEF CommitClaim, IInv, TypeOK, Rows, Status, Claimable
  <2> QED
    BY <1>4, <2>1, CommitClaimInv, OneRow DEF CommitClaim, ArtifactsKept
<1>5. ASSUME NEW p \in {"completing", "failing"}, Process(w, p)
      PROVE  IInv' /\ ArtifactsKept /\ SameServed
  BY <1>5, ProcessInv, QuietStep DEF Process
<1>6. ASSUME Complete(w) PROVE IInv' /\ ArtifactsKept /\ SameServed
  <2>0. PICK v \in Versions : v = job[w].v /\ Owned(v)
    BY <1>6, JobFields DEF IInv, TypeOK, Complete, AtWork
  <2>1. /\ Status(v) = "processing" /\ Status(v)' = "ready"
        /\ \A u \in Versions \ {v} : version'[u] = version[u] /\ chunks'[u] = chunks[u]
        /\ chunks[v] = 0
    BY <1>6, <2>0, NothingEmbedded DEF Complete, IInv, TypeOK, Rows, Status, Owned
  <2> QED
    BY <1>6, <2>1, CompleteInv, OneRow DEF Complete, ArtifactsKept
<1>7. ASSUME Fail(w) PROVE IInv' /\ ArtifactsKept /\ SameServed
  <2>0. PICK v \in Versions : v = job[w].v /\ Owned(v)
    BY <1>7, JobFields DEF IInv, TypeOK, JobOK, Fail, AtWork
  <2>1. /\ Status(v) = "processing" /\ Status(v)' = "failed"
        /\ \A u \in Versions \ {v} : version'[u] = version[u]
    BY <1>7, <2>0 DEF Fail, IInv, TypeOK, Rows, Status, Owned
  <2> QED
    BY <1>7, <2>1, FailInv, OneRow DEF Fail, ArtifactsKept
<1>8. ASSUME CompleteRaises(w) \/ CheckEmbed(w) \/ BeginArchive(w) \/ Abandon(w)
      PROVE  IInv' /\ ArtifactsKept /\ SameServed
  BY <1>8, CompleteRaisesInv, CheckEmbedInv, BeginArchiveInv, AbandonInv, QuietStep
     DEF CompleteRaises, CheckEmbed, BeginArchive, Abandon
<1>9. ASSUME CommitEmbed(w) PROVE IInv' /\ ArtifactsKept /\ SameServed
  BY <1>9, CommitEmbedInv, SameRows DEF CommitEmbed, Status, ArtifactsKept
<1>10. ASSUME CommitPublish(w) \/ CommitArchive(w) PROVE IInv' /\ ArtifactsKept /\ Served(w)
  BY <1>10, CommitPublishInv, CommitArchiveInv
     DEF CommitPublish, CommitArchive, ArtifactsKept, Served
<1> QED
  BY <1>1, <1>2, <1>3, <1>4, <1>5, <1>6, <1>7, <1>8, <1>9, <1>10

LEMMA NextStep ==
  ASSUME IInv, [Next]_vars
  PROVE  IInv' /\ ArtifactsKept /\ (SameServed \/ \E w \in Workers : Served(w))
<1>1. CASE UNCHANGED vars
  <2>1. (\A w \in Workers : JobOK(w)') /\ Alone' /\ TypeOK'
    BY <1>1 DEF IInv, TypeOK, JobOK, Alone, vars, Duplicate, Existing, Status,
       Claimable, Owned, Artifact, Current, Published
  <2>2. RowsOK'
    BY <1>1, RowsStay DEF IInv, vars
  <2> QED
    BY <1>1, <2>1, <2>2, QuietStep DEF IInv, vars
<1>2. CASE Next
  BY <1>2, WorkerStep DEF Next
<1> QED
  BY <1>1, <1>2

LEMMA Invariance == Spec => []IInv
<1>1. IInv /\ [Next]_vars => IInv'
  BY NextStep
<1> QED
  BY <1>1, InitIInv, PTL DEF Spec

-----------------------------------------------------------------------------

\* Every variable keeps its type, whatever the workers do at once.
THEOREM TypeCorrect == Spec => []TypeOK
<1>1. IInv => TypeOK
  BY DEF IInv
<1> QED
  BY <1>1, Invariance, PTL

\* What retrieval serves has chunks, all embedded, in an active document.
THEOREM PublishedServable == Spec => []PublishedIsServable
<1>1. IInv => PublishedIsServable
  BY DEF IInv, RowsOK
<1> QED
  BY <1>1, Invariance, PTL

\* A set whose members are all equal has at most one.
LEMMA OneMember ==
  ASSUME NEW S, \A x, y \in S : x = y
  PROVE  Cardinality(S) = IF S = {} THEN 0 ELSE 1
<1>1. CASE S = {}
  BY <1>1, FS_EmptySet
<1>2. CASE S # {}
  <2>1. PICK x \in S : S = {x}
    BY <1>2
  <2> QED
    BY <1>2, <2>1, FS_Singleton
<1> QED
  BY <1>1, <1>2

\* Two workers never process the same version, and every attempt is audited.
THEOREM SingleProcessor == Spec => []OneProcessor
<1>1. IInv => OneProcessor
  <2> SUFFICES ASSUME IInv, NEW v \in Versions PROVE OneProcessor!(v)
    BY DEF OneProcessor
  <2>1. Cardinality(Processing(v)) <= 1
    <3>1. \A x, y \in Processing(v) : x = y
      BY DEF Processing, IInv, Alone, AtWork
    <3> QED
      BY <3>1, OneMember
  <2>2. audit[v]["completed"] <= 1
    BY DEF IInv, RowsOK, Audited
  <2> QED
    BY <2>1, <2>2 DEF IInv, RowsOK, Audited
<1> QED
  BY <1>1, Invariance, PTL

\* Workers that embed a version at once store and audit its embeddings once.
THEOREM EmbeddedOnce == Spec => []EmbeddingAuditedOnce
<1>1. IInv => EmbeddingAuditedOnce
  <2> SUFFICES ASSUME IInv, NEW v \in Versions PROVE EmbeddingAuditedOnce!(v)
    BY DEF EmbeddingAuditedOnce
  <2> DEFINE S == {a \in embedded : a.v = v}
  <2>1. \A a \in S : a = Artifact(v)
    BY DEF IInv, TypeOK, RowsOK, ChunksTell, Artifact
  <2>2. S = {} <=> Artifact(v) \notin embedded
    BY <2>1 DEF Artifact
  <2> HIDE DEF S
  <2>3. Cardinality(S) = IF S = {} THEN 0 ELSE 1
    BY <2>1, OneMember
  <2> QED
    BY <2>2, <2>3 DEF IInv, RowsOK, Audited, S
<1> QED
  BY <1>1, Invariance, PTL

\* As many versions exist as numbers were given, so the numbers have no gap.
THEOREM NumberedInOrder == Spec => []UploadsAreNew
<1>1. IInv => UploadsAreNew
  <2> SUFFICES ASSUME IInv PROVE UploadsAreNew
    OBVIOUS
  <2>1. Numbered /\ UploadsFirst
    BY DEF IInv, RowsOK
  <2>2. PICK n \in Nat : {version[v].number : v \in Existing} = 1..n
    BY <2>1 DEF Numbered
  <2> DEFINE f == [v \in Existing |-> version[v].number]
  <2>3. f \in [Existing -> 1..n]
    BY <2>2
  <2>4. \A u, v \in Existing : f[u] = f[v] => u = v
    BY <2>1 DEF Numbered
  <2>5. \A i \in 1..n : \E v \in Existing : f[v] = i
    <3>1. \A i \in {version[v].number : v \in Existing} : \E v \in Existing : version[v].number = i
      OBVIOUS
    <3> QED
      BY <2>2, <3>1
  <2> HIDE DEF f
  <2>6. ExistsBijection(Existing, 1..n)
    BY <2>3, <2>4, <2>5 DEF ExistsBijection, Bijection, Injection, Surjection, IsInjective
  <2>7. ExistsBijection(1..n, Existing)
    BY <2>6, Fun_ExistsBijSymmetric
  <2>8. IsFiniteSet(1..n) /\ Cardinality(1..n) = n
    BY FS_Interval
  <2>9. Cardinality(Existing) = n
    BY <2>7, <2>8, FS_Bijection
  <2> QED
    BY <2>1, <2>2, <2>9 DEF UploadsAreNew, UploadsFirst
<1> QED
  BY <1>1, Invariance, PTL

\* The chunks of a version are stored once, and no embedding is lost.
THEOREM ArtifactsAreKept == Spec => ArtifactsStay
<1>1. IInv /\ [Next]_vars => [ArtifactsKept]_vars
  BY NextStep
<1>2. Spec => [][ArtifactsKept]_vars
  BY <1>1, Invariance, PTL DEF Spec
<1> QED
  BY <1>2 DEF ArtifactsStay, ArtifactsKept

\* A publication or an archival is the step the document promises.
LEMMA ServedStep ==
  ASSUME IInv, NEW w \in Workers, Served(w)
  PROVE  Publication!Next
<1> USE DEF IInv
<1>1. Current \in Versions \cup {None} /\ Published = Publication!Served
  BY CurrentFacts DEF RowsOK, Publication!Served
<1>2. CASE CommitPublish(w)
  <2>0. PICK v \in Versions : v = job[w].v
    BY <1>2, JobFields DEF TypeOK, CommitPublish
  <2>1. /\ document = "active" /\ document' = document
        /\ Status(v) = "ready" /\ Current' = v
    BY <1>2, <2>0, CommitPublishInv DEF JobOK, CommitPublish
  <2>2. \A u \in Versions :
          Status(u)' = IF u = v THEN "published" ELSE
                        IF Status(u) = "published" THEN "superseded" ELSE Status(u)
    <3>1. version' = [[u \in Versions |-> Superseding(Current, u)] EXCEPT ![v].status = "published"]
      BY <1>2, <2>0 DEF CommitPublish, JobOK
    <3>2. \A u \in Versions \ {v} : version'[u] = Superseding(Current, u)
      BY <3>1
    <3>3. version'[v].status = "published"
      BY <3>1, SupersedingRows DEF Rows
    <3> QED
      BY <3>2, <3>3, SupersedingRows DEF Status
  <2>3. Retired' = Retired \cup Published
    BY <2>1, <2>2 DEF Retired, Published
  <2>4. v \notin Retired \cup Published
    BY <2>1 DEF Retired, Published
  <2>5. Publication!Publish(v)
    BY <1>1, <2>1, <2>3, <2>4 DEF Publication!Publish, Retired
  <2> QED
    BY <2>5 DEF Publication!Next
<1>3. CASE CommitArchive(w)
  <2>1. document = "active" /\ document' = "archived" /\ Current' = None
    BY <1>3, CommitArchiveInv DEF JobOK, CommitArchive
  <2>2. \A u \in Versions :
          Status(u)' = IF Status(u) = "published" THEN "superseded" ELSE Status(u)
    BY <1>3, SupersedingRows DEF CommitArchive, JobOK, Status
  <2>3. Retired' = Retired \cup Published
    BY <2>2 DEF Retired, Published
  <2>4. Publication!Archive
    BY <1>1, <2>1, <2>3 DEF Publication!Archive, Retired
  <2> QED
    BY <2>4 DEF Publication!Next
<1> QED
  BY <1>2, <1>3 DEF Served

\* One version at a time is served, none comes back, and none after archival.
THEOREM PublishesAsPromised == Spec => RefinesPublication
<1>1. Init => Publication!Init
  <2> SUFFICES ASSUME Init PROVE Publication!Init
    OBVIOUS
  <2>1. \A v \in Versions : Status(v) = "absent"
    BY DEF Init, Status, Absent
  <2> QED
    BY <2>1 DEF Init, Publication!Init, Current, Published
<1>2. IInv /\ [Next]_vars => [Publication!Next]_Publication!vars
  <2> SUFFICES ASSUME IInv, [Next]_vars PROVE [Publication!Next]_Publication!vars
    OBVIOUS
  <2>1. CASE SameServed
    BY <2>1 DEF SameServed, Retired, Publication!vars
  <2>2. CASE \E w \in Workers : Served(w)
    BY <2>2, ServedStep
  <2> QED
    BY <2>1, <2>2, NextStep
<1> QED
  BY <1>1, <1>2, Invariance, PTL DEF Spec, RefinesPublication, Publication!Spec

-----------------------------------------------------------------------------
(* Least and greatest numbers, and folds over sequences.                   *)

\* A set of naturals has a least one.
LEMMA LeastNumber ==
  ASSUME NEW S \in SUBSET Nat, S # {}
  PROVE  \E n \in S : \A m \in S : n <= m
<1> DEFINE R == {ss \in Nat \X Nat : ss[1] < ss[2]}
<1>1. R = OpToRel(<, Nat)
  BY Zenon DEF OpToRel
<1>2. IsWellFoundedOn(R, Nat)
  BY <1>1, NatLessThanWellFounded, Zenon
<1>3. PICK n \in S : \A m \in S : <<m, n>> \notin R
  BY <1>2, WFMin
<1>4. \A m \in S : ~(m < n)
  <2> TAKE m \in S
  <2>1. <<m, n>> \in Nat \X Nat /\ <<m, n>>[1] = m /\ <<m, n>>[2] = n
    OBVIOUS
  <2> QED
    BY <2>1, <1>3
<1> QED
  BY <1>4

\* Min and Max are what they are called.
LEMMA MinFacts ==
  ASSUME NEW S \in SUBSET Nat, S # {}
  PROVE  Min(S) \in S /\ \A m \in S : Min(S) <= m
  BY LeastNumber DEF Min

\* A bounded set of naturals has a greatest one.
LEMMA MaxFacts ==
  ASSUME NEW n \in Nat, NEW S \in SUBSET (0 .. n), S # {}
  PROVE  Max(S) \in S /\ \A m \in S : m <= Max(S)
<1> DEFINE M == {n - s : s \in S}
<1>1. M \in SUBSET Nat /\ M # {}
  <2>1. \A s \in S : n - s \in Nat
    OBVIOUS
  <2> QED
    BY <2>1
<1>2. PICK least \in M : \A k \in M : least <= k
  <2> HIDE DEF M
  <2> QED
    BY <1>1, LeastNumber
<1>3. PICK x \in S : least = n - x
  OBVIOUS
<1>4. \A y \in S : y <= x
  <2> TAKE y \in S
  <2>1. least <= n - y
    BY <1>2
  <2> QED
    BY <1>3, <2>1
<1> QED
  BY <1>4 DEF Max

\* The greatest of numbers up to i is i, if it is one of them.
LEMMA MaxIs ==
  ASSUME NEW i \in Nat, NEW T \in SUBSET (1 .. i), i \in T
  PROVE  Max(T) = i
<1>1. T \in SUBSET (0 .. i)
  OBVIOUS
<1>2. Max(T) \in T /\ i <= Max(T)
  BY <1>1, MaxFacts
<1>3. Max(T) \in 1 .. i
  BY <1>2
<1> QED
  BY <1>2, <1>3

\* The indices up to i are i and those before it.
LEMMA MaxOfPrefix ==
  ASSUME NEW i \in Nat \ {0}
  PROVE  Max(1 .. i) = i /\ (1 .. i) \ {i} = 1 .. (i - 1)
<1>1. 1 .. i \in SUBSET (1 .. i) /\ i \in 1 .. i /\ i \in Nat
  OBVIOUS
<1>2. Max(1 .. i) = i
  BY <1>1, MaxIs
<1> QED
  BY <1>2

\* A fold over numbers 1..n, from base, by the function op.
Foldable(n, V, base, op) == base \in V /\ op \in [(1 .. n) \X V -> V]

\* What a fold over a sequence of length n computes from its numbers.
FoldsUpTo(n, op, base, g) ==
    \A T \in SUBSET (1 .. n) : g[T] = IF T = {} THEN base ELSE op[<<Max(T), g[T \ {Max(T)}]>>]

\* There is such a fold.
LEMMA FoldExists ==
  ASSUME NEW n \in Nat, NEW V, NEW base, NEW op, Foldable(n, V, base, op)
  PROVE  \E g \in [SUBSET (1 .. n) -> V] : FoldsUpTo(n, op, base, g)
<1>0. base \in V /\ op \in [(1 .. n) \X V -> V]
  BY DEF Foldable
<1> DEFINE Exists(i) == \E g \in [SUBSET (1 .. i) -> V] : FoldsUpTo(i, op, base, g)
           F == {i \in 0 .. n : ~Exists(i)}
<1>1. SUFFICES ASSUME F # {} PROVE FALSE
  <2>1. SUFFICES Exists(n)
    OBVIOUS
  <2>2. n \in 0 .. n
    OBVIOUS
  <2> HIDE DEF Exists
  <2> QED
    BY <2>2
<1>2. PICK i \in F : \A m \in F : i <= m
  <2>1. F \in SUBSET Nat
    OBVIOUS
  <2> HIDE DEF F
  <2> QED
    BY <1>1, <2>1, LeastNumber
<1>3. i \in Nat /\ i <= n
  OBVIOUS
<1>4. i # 0
  <2> SUFFICES ASSUME i = 0 PROVE FALSE
    OBVIOUS
  <2> DEFINE g == [T \in SUBSET (1 .. 0) |-> base]
  <2>1. \A T \in SUBSET (1 .. 0) : T = {}
    <3>1. 1 .. 0 = {}
      OBVIOUS
    <3> QED
      BY <3>1
  <2>2. g \in [SUBSET (1 .. 0) -> V] /\ \A T \in SUBSET (1 .. 0) : g[T] = base
    BY <1>0
  <2> HIDE DEF g
  <2>3. FoldsUpTo(0, op, base, g)
    BY <2>1, <2>2 DEF FoldsUpTo
  <2>4. Exists(0)
    BY <2>2, <2>3
  <2> QED
    BY <1>2, <2>4
<1>5. PICK h \in [SUBSET (1 .. (i - 1)) -> V] : FoldsUpTo(i - 1, op, base, h)
  <2>1. i - 1 \in 0 .. n /\ ~(i <= i - 1)
    BY <1>3, <1>4
  <2>2. i - 1 \notin F
    BY <1>2, <2>1
  <2> QED
    BY <2>1, <2>2
<1> DEFINE g == [T \in SUBSET (1 .. i) |-> IF i \in T THEN op[<<i, h[T \ {i}]>>] ELSE h[T]]
<1>6. ASSUME NEW T \in SUBSET (1 .. i)
      PROVE  /\ T \ {i} \in SUBSET (1 .. (i - 1)) /\ (i \notin T => T \in SUBSET (1 .. (i - 1)))
             /\ i \in T => Max(T) = i
  <2>1. T \ {i} \in SUBSET (1 .. (i - 1)) /\ (i \notin T => T \in SUBSET (1 .. (i - 1)))
    BY <1>3, <1>4
  <2>2. ASSUME i \in T PROVE Max(T) = i
    BY <1>3, <2>2, MaxIs
  <2> QED
    BY <2>1, <2>2
<1>7. ASSUME NEW T \in SUBSET (1 .. i)
      PROVE  g[T] \in V
  <2>1. CASE i \in T
    <3>1. h[T \ {i}] \in V
      BY <1>6
    <3>2. <<i, h[T \ {i}]>> \in (1 .. n) \X V
      BY <1>3, <1>4, <3>1
    <3> QED
      BY <1>0, <2>1, <3>2
  <2>2. CASE i \notin T
    BY <1>6, <2>2
  <2> QED
    BY <2>1, <2>2
<1>8. ASSUME NEW T \in SUBSET (1 .. i)
      PROVE  g[T] = IF T = {} THEN base ELSE op[<<Max(T), g[T \ {Max(T)}]>>]
  <2>1. CASE i \in T
    <3>1. g[T] = op[<<i, h[T \ {i}]>>]
      BY <2>1
    <3>2. T \ {i} \in SUBSET (1 .. i) /\ i \notin T \ {i} /\ T # {}
      BY <2>1
    <3>3. g[T \ {i}] = h[T \ {i}]
      BY <3>2
    <3> HIDE DEF g
    <3> QED
      BY <1>6, <2>1, <3>1, <3>2, <3>3
  <2>2. CASE i \notin T
    <3>1. T \in SUBSET (1 .. (i - 1)) /\ g[T] = h[T]
      BY <1>6, <2>2
    <3>2. h[T] = IF T = {} THEN base ELSE op[<<Max(T), h[T \ {Max(T)}]>>]
      BY <1>5, <3>1 DEF FoldsUpTo
    <3>3. T \ {Max(T)} \in SUBSET (1 .. i) /\ i \notin T \ {Max(T)}
      BY <2>2
    <3>4. g[T \ {Max(T)}] = h[T \ {Max(T)}]
      BY <3>3
    <3> HIDE DEF g
    <3> QED
      BY <3>1, <3>2, <3>4
  <2> QED
    BY <2>1, <2>2
<1>9. g \in [SUBSET (1 .. i) -> V]
  <2> DEFINE value(T) == IF i \in T THEN op[<<i, h[T \ {i}]>>] ELSE h[T]
  <2>1. \A T \in SUBSET (1 .. i) : value(T) \in V
    BY <1>7
  <2>2. g = [T \in SUBSET (1 .. i) |-> value(T)]
    OBVIOUS
  <2> HIDE DEF g, value
  <2> QED
    BY <2>1, <2>2
<1>10. Exists(i)
  <2> HIDE DEF g
  <2>1. FoldsUpTo(i, op, base, g)
    BY <1>8 DEF FoldsUpTo
  <2> QED
    BY <1>9, <2>1
<1> QED
  BY <1>10

\* A function of sets whose values on the first numbers are those of a fold.
Follows(n, V, base, op, c) ==
    /\ c[{}] = base
    /\ \A i \in 1 .. n : \A v \in V : c[1 .. (i - 1)] = v => c[1 .. i] = op[<<i, v>>]

\* The values that a fold passes through.
Passes(n, V, base, op, trace) ==
    /\ trace \in [0 .. n -> V] /\ trace[0] = base
    /\ \A i \in 1 .. n : trace[i - 1] \in V /\ trace[i] = op[<<i, trace[i - 1]>>]

\* A fold over 1..n passes through its results for each prefix.
LEMMA FoldTrace ==
  ASSUME NEW n \in Nat, NEW V, NEW base, NEW op, Foldable(n, V, base, op),
         NEW c, Follows(n, V, base, op, c)
  PROVE  \E trace : Passes(n, V, base, op, trace) /\ c[1 .. n] = trace[n]
<1>0. base \in V /\ op \in [(1 .. n) \X V -> V]
  BY DEF Foldable
<1>0a. /\ c[{}] = base
      /\ \A i \in 1 .. n : \A v \in V : c[1 .. (i - 1)] = v => c[1 .. i] = op[<<i, v>>]
  BY DEF Follows
<1> DEFINE F == {i \in 0 .. n : c[1 .. i] \notin V}
<1>1. F = {}
  <2> SUFFICES ASSUME F # {} PROVE FALSE
    OBVIOUS
  <2>1. PICK i \in F : \A m \in F : i <= m
    <3>1. F \in SUBSET Nat
      OBVIOUS
    <3> HIDE DEF F
    <3> QED
      BY <3>1, LeastNumber
  <2>2. i \in 0 .. n /\ c[1 .. i] \notin V
    OBVIOUS
  <2>3. i # 0
    <3>1. 1 .. 0 = {}
      OBVIOUS
    <3> QED
      BY <1>0, <1>0a, <2>2, <3>1
  <2>4. i - 1 \in 0 .. n /\ i \in 1 .. n /\ ~(i <= i - 1)
    BY <2>2, <2>3
  <2>5. c[1 .. (i - 1)] \in V
    BY <2>1, <2>4
  <2>6. c[1 .. i] = op[<<i, c[1 .. (i - 1)]>>]
    BY <1>0a, <2>4, <2>5
  <2> QED
    BY <1>0, <2>2, <2>4, <2>5, <2>6
<1> DEFINE trace == [i \in 0 .. n |-> c[1 .. i]]
<1>2. \A i \in 0 .. n : c[1 .. i] \in V
  BY <1>1
<1>3. trace \in [0 .. n -> V]
  BY <1>2
<1>4. trace[0] = base
  <2>1. 1 .. 0 = {} /\ 0 \in 0 .. n
    OBVIOUS
  <2> QED
    BY <1>0a, <2>1
<1>5. ASSUME NEW i \in 1 .. n
      PROVE  trace[i - 1] \in V /\ trace[i] = op[<<i, trace[i - 1]>>]
  <2>1. i \in 0 .. n /\ i - 1 \in 0 .. n
    OBVIOUS
  <2>2. c[1 .. (i - 1)] \in V /\ c[1 .. i] = op[<<i, c[1 .. (i - 1)]>>]
    BY <1>0a, <1>2, <2>1
  <2> QED
    BY <2>1, <2>2
<1>6. c[1 .. n] = trace[n]
  OBVIOUS
<1> HIDE DEF trace
<1>7. Passes(n, V, base, op, trace)
  BY <1>3, <1>4, <1>5 DEF Passes
<1> QED
  BY <1>6, <1>7

-----------------------------------------------------------------------------
(* Sizes.                                                                  *)

\* The lengths of the first pieces, summed up.
Sums(s, trace) ==
    /\ trace \in [0 .. Len(s) -> Nat] /\ trace[0] = 0
    /\ \A i \in 1 .. Len(s) : trace[i] = trace[i - 1] + Length(s[i])

\* The size of pieces is the sum of their lengths and the separators.
LEMMA RenderedTrace ==
  ASSUME NEW Q, \A q \in Q : Length(q) \in Nat, NEW s \in Seq(Q)
  PROVE  \E trace :
             /\ Sums(s, trace)
             /\ Rendered(s) = trace[Len(s)] + (IF s = <<>> THEN 0 ELSE Separator * (Len(s) - 1))
<1> DEFINE n == Len(s)
           D == 1 .. n
           op == [p \in D \X Nat |-> p[2] + Length(s[p[1]])]
           Raw(c) == c = [T \in SUBSET D |-> IF T = {} THEN 0
                                            ELSE c[T \ {Max(T)}] + Length(s[Max(T)])]
           c == CHOOSE c : Raw(c)
<1>1. n \in Nat /\ DOMAIN s = D /\ \A i \in D : Length(s[i]) \in Nat
  OBVIOUS
<1>2. Foldable(n, Nat, 0, op) /\ \A i \in D, v \in Nat : op[<<i, v>>] = v + Length(s[i])
  BY <1>1 DEF Foldable
<1>3. \A T \in SUBSET D : T # {} => Max(T) \in T
  <2> SUFFICES ASSUME NEW T \in SUBSET D, T # {} PROVE Max(T) \in T
    OBVIOUS
  <2>1. T \in SUBSET (0 .. n)
    BY <1>1
  <2> HIDE DEF n
  <2> QED
    BY <1>1, <2>1, MaxFacts
<1>4. PICK g \in [SUBSET D -> Nat] : FoldsUpTo(n, op, 0, g)
  <2> HIDE DEF n, op
  <2> QED
    BY <1>1, <1>2, FoldExists
<1>5. Raw(g)
  <2> HIDE DEF n, op
  <2>1. ASSUME NEW T \in SUBSET D
        PROVE  g[T] = IF T = {} THEN 0 ELSE g[T \ {Max(T)}] + Length(s[Max(T)])
    <3>1. T # {} => Max(T) \in D /\ g[T \ {Max(T)}] \in Nat
      BY <1>3
    <3> QED
      BY <1>2, <1>4, <3>1 DEF FoldsUpTo
  <2> QED
    BY <2>1
<1>6. Raw(c)
  <2> HIDE DEF Raw
  <2> QED
    BY <1>5
<1>7. FoldLeft(LAMBDA m, p : m + Length(p), 0, s) = c[D]
  BY <1>1, Zenon DEF FoldLeft, MapThenFoldSet
<1> HIDE DEF c
<1>8. Follows(n, Nat, 0, op, c)
  <2>1. {} \in SUBSET D
    OBVIOUS
  <2>2. ASSUME NEW i \in 1 .. n
        PROVE  c[1 .. i] = c[1 .. (i - 1)] + Length(s[i])
    <3>1. i \in Nat \ {0} /\ 1 .. i \in SUBSET D /\ 1 .. i # {}
      BY <1>1
    <3>2. Max(1 .. i) = i /\ (1 .. i) \ {i} = 1 .. (i - 1)
      BY <3>1, MaxOfPrefix
    <3> HIDE DEF D
    <3> QED
      BY <1>6, <3>1, <3>2
  <2>3. c[{}] = 0
    BY <1>6, <2>1
  <2> HIDE DEF op, n, Raw
  <2>4. ASSUME NEW i \in 1 .. n, NEW v \in Nat, c[1 .. (i - 1)] = v
        PROVE  c[1 .. i] = op[<<i, v>>]
    BY <1>2, <2>2, <2>4
  <2> QED
    BY <2>3, <2>4 DEF Follows
<1>9. PICK trace : Passes(n, Nat, 0, op, trace) /\ c[1 .. n] = trace[n]
  <2> HIDE DEF n, op, Raw
  <2> QED
    BY <1>1, <1>2, <1>8, FoldTrace
<1>10. Sums(s, trace)
  <2> HIDE DEF op, n, D, Raw
  <2>1. trace \in [0 .. n -> Nat] /\ trace[0] = 0
    BY <1>9 DEF Passes
  <2>2. ASSUME NEW i \in 1 .. n
        PROVE  trace[i] = trace[i - 1] + Length(s[i])
    BY <1>2, <1>9 DEF Passes, D
  <2> QED
    BY <2>1, <2>2 DEF Sums, n
<1>11. Rendered(s) = c[D] + (IF s = <<>> THEN 0 ELSE Separator * (Len(s) - 1))
  BY <1>7, Zenon DEF Rendered
<1> QED
  BY <1>9, <1>10, <1>11

-----------------------------------------------------------------------------
(* The text that pieces span.                                              *)

\* The sections of a document.
Paths(doc) == {doc[i].path : i \in DOMAIN doc}

\* Parts of the segments of a document, none of them empty.
Pieces(doc) ==
    {p \in [segment : DOMAIN doc, from : Nat, to : Nat, path : Paths(doc)] :
        p.from < p.to /\ p.to <= Len(doc[p.segment].text)}

\* All of A comes before all of B.
Before(A, B) == \A a \in A, b \in B : Precedes(a, b)

\* Pieces in the order of the document, none overlapping another.
Ordered(s) == \A i, j \in 1 .. Len(s) : i < j => Before(Spanned(s[i]), Spanned(s[j]))

\* Characters are ordered by segment and offset.
LEMMA PrecedesOrders ==
  ASSUME NEW a \in Nat \X Nat, NEW b \in Nat \X Nat, NEW c \in Nat \X Nat
  PROVE  /\ ~Precedes(a, a) /\ (Precedes(a, b) => ~Precedes(b, a))
         /\ Precedes(a, b) /\ Precedes(b, c) => Precedes(a, c)
  BY DEF Precedes

\* A piece is as long as the text it spans.
LEMMA SpanFacts ==
  ASSUME NEW doc \in Seq(Segments), NEW p \in Pieces(doc)
  PROVE  /\ Spanned(p) \subseteq Nat \X Nat /\ Spanned(p) # {}
         /\ Length(p) \in Nat /\ Length(p) >= 1
         /\ IsFiniteSet(Spanned(p)) /\ Cardinality(Spanned(p)) = Length(p)
<1>1. /\ p.segment \in Nat /\ p.from \in Nat /\ p.to \in Nat /\ p.from < p.to
  BY DEF Pieces
<1>2. Length(p) \in Nat /\ Length(p) >= 1
  BY <1>1 DEF Length
<1>3. Spanned(p) \subseteq Nat \X Nat
  BY <1>1 DEF Spanned
<1>4. <<p.segment, p.from>> \in Spanned(p)
  BY <1>1 DEF Spanned
<1> DEFINE D == p.from .. p.to - 1
           f == [k \in D |-> <<p.segment, k>>]
<1>5. f \in Surjection(D, Spanned(p)) /\ f \in Injection(D, Spanned(p))
  <2>1. f \in [D -> Spanned(p)]
    BY DEF Spanned
  <2>2. \A x \in Spanned(p) : \E k \in D : f[k] = x
    BY DEF Spanned
  <2>3. IsInjective(f)
    BY DEF IsInjective
  <2> QED
    BY <2>1, <2>2, <2>3 DEF Surjection, Injection
<1>6. IsFiniteSet(D) /\ Cardinality(D) = p.to - p.from
  <2>1. p.from \in Int /\ p.to - 1 \in Int
    BY <1>1
  <2>2. /\ IsFiniteSet(p.from .. p.to - 1)
        /\ Cardinality(p.from .. p.to - 1) = IF p.from > p.to - 1 THEN 0 ELSE p.to - 1 - p.from + 1
    BY <2>1, FS_Interval
  <2> QED
    BY <1>1, <2>2
<1>7. IsFiniteSet(Spanned(p)) /\ Cardinality(Spanned(p)) = Cardinality(D)
  <2> HIDE DEF D, f
  <2> QED
    BY <1>5, <1>6, FS_Surjection
<1> QED
  BY <1>2, <1>3, <1>4, <1>6, <1>7 DEF Length

\* The text of a chunk is that of its pieces.
LEMMA TextIs ==
  ASSUME NEW Q, NEW s \in Seq(Q)
  PROVE  \A x : x \in Text(s) <=> \E i \in 1 .. Len(s) : x \in Spanned(s[i])
<1>1. ToSet(s) = {s[i] : i \in 1 .. Len(s)}
  BY DEF ToSet
<1> QED
  BY <1>1 DEF Text

\* Pieces and more pieces hold the text of both.
LEMMA TextOfConcat ==
  ASSUME NEW Q, NEW s \in Seq(Q), NEW t \in Seq(Q)
  PROVE  s \o t \in Seq(Q) /\ Text(s \o t) = Text(s) \cup Text(t)
<1>1. /\ s \o t \in Seq(Q) /\ Len(s \o t) = Len(s) + Len(t)
      /\ \A i \in 1 .. Len(s) + Len(t) : (s \o t)[i] = IF i <= Len(s) THEN s[i] ELSE t[i - Len(s)]
  OBVIOUS
<1>2. Len(s) \in Nat /\ Len(t) \in Nat
  OBVIOUS
<1>3. ASSUME NEW x, x \in Text(s \o t)
      PROVE  x \in Text(s) \cup Text(t)
  <2>1. PICK i \in 1 .. Len(s) + Len(t) : x \in Spanned((s \o t)[i])
    BY <1>1, <1>3, TextIs
  <2>2. CASE i <= Len(s)
    <3>1. i \in 1 .. Len(s) /\ x \in Spanned(s[i])
      BY <1>1, <1>2, <2>1, <2>2
    <3> QED
      BY <3>1, TextIs
  <2>3. CASE ~(i <= Len(s))
    <3>1. i - Len(s) \in 1 .. Len(t) /\ x \in Spanned(t[i - Len(s)])
      BY <1>1, <1>2, <2>1, <2>3
    <3> QED
      BY <3>1, TextIs
  <2> QED
    BY <2>2, <2>3
<1>4. ASSUME NEW x, x \in Text(s)
      PROVE  x \in Text(s \o t)
  <2>1. PICK i \in 1 .. Len(s) : x \in Spanned(s[i])
    BY <1>4, TextIs
  <2>2. i \in 1 .. Len(s \o t) /\ (s \o t)[i] = s[i]
    BY <1>1, <1>2
  <2> QED
    BY <1>1, <2>1, <2>2, TextIs
<1>5. ASSUME NEW x, x \in Text(t)
      PROVE  x \in Text(s \o t)
  <2>1. PICK i \in 1 .. Len(t) : x \in Spanned(t[i])
    BY <1>5, TextIs
  <2>2. i + Len(s) \in 1 .. Len(s \o t) /\ (s \o t)[i + Len(s)] = t[i]
    BY <1>1, <1>2
  <2> QED
    BY <1>1, <2>1, <2>2, TextIs
<1> QED
  BY <1>1, <1>3, <1>4, <1>5

\* Pieces in order, and behind them others in order.
LEMMA OrderedConcat ==
  ASSUME NEW Q, NEW s \in Seq(Q), NEW t \in Seq(Q),
         Ordered(s), Ordered(t), Before(Text(s), Text(t))
  PROVE  Ordered(s \o t)
<1>1. /\ Len(s \o t) = Len(s) + Len(t)
      /\ \A i \in 1 .. Len(s) + Len(t) : (s \o t)[i] = IF i <= Len(s) THEN s[i] ELSE t[i - Len(s)]
  OBVIOUS
<1>2. Len(s) \in Nat /\ Len(t) \in Nat
  OBVIOUS
<1>3. \A i \in 1 .. Len(s) : Spanned(s[i]) \subseteq Text(s)
  BY TextIs
<1>4. \A i \in 1 .. Len(t) : Spanned(t[i]) \subseteq Text(t)
  BY TextIs
<1>5. ASSUME NEW i \in 1 .. Len(s) + Len(t), NEW j \in 1 .. Len(s) + Len(t), i < j
      PROVE  Before(Spanned((s \o t)[i]), Spanned((s \o t)[j]))
  <2>1. CASE j <= Len(s)
    BY <1>1, <1>2, <1>5, <2>1 DEF Ordered
  <2>2. CASE i > Len(s)
    <3>1. i - Len(s) \in 1 .. Len(t) /\ j - Len(s) \in 1 .. Len(t) /\ i - Len(s) < j - Len(s)
      BY <1>2, <1>5, <2>2
    <3> QED
      BY <1>1, <1>2, <1>5, <2>2, <3>1 DEF Ordered
  <2>3. CASE i <= Len(s) /\ j > Len(s)
    <3>1. i \in 1 .. Len(s) /\ j - Len(s) \in 1 .. Len(t)
      BY <1>2, <1>5, <2>3
    <3>2. (s \o t)[i] = s[i] /\ (s \o t)[j] = t[j - Len(s)]
      BY <1>1, <1>2, <1>5, <2>3
    <3> QED
      BY <1>3, <1>4, <3>1, <3>2 DEF Before
  <2> QED
    BY <1>2, <1>5, <2>1, <2>2, <2>3
<1> QED
  BY <1>1, <1>5 DEF Ordered

\* A single piece is a chunk.
LEMMA TextOfOne ==
  ASSUME NEW Q, NEW p \in Q
  PROVE  <<p>> \in Seq(Q) /\ Len(<<p>>) = 1 /\ <<p>>[1] = p /\ Text(<<p>>) = Spanned(p) /\ Ordered(<<p>>)
<1>1. <<p>> \in Seq(Q) /\ Len(<<p>>) = 1 /\ <<p>>[1] = p
  OBVIOUS
<1> DEFINE S == Spanned(p)
           one == <<p>>
<1>2. one \in Seq(Q) /\ Len(one) = 1 /\ Spanned(one[1]) = S
  BY <1>1
<1> HIDE DEF one, S
<1>3. \A x : x \in Text(one) <=> \E i \in 1 .. Len(one) : x \in Spanned(one[i])
  BY <1>2, TextIs
<1>4. \A x : x \in Text(one) <=> x \in S
  BY <1>2, <1>3
<1>5. Text(one) = S
  BY <1>4
<1>6. Ordered(one)
  BY <1>2 DEF Ordered
<1> QED
  BY <1>1, <1>5, <1>6 DEF one, S

\* One piece behind them.
LEMMA OrderedAppend ==
  ASSUME NEW Q, NEW s \in Seq(Q), NEW p \in Q, Ordered(s), Before(Text(s), Spanned(p))
  PROVE  /\ Append(s, p) \in Seq(Q) /\ Ordered(Append(s, p))
         /\ Text(Append(s, p)) = Text(s) \cup Spanned(p)
<1> DEFINE one == <<p>>
<1>1. one \in Seq(Q) /\ Text(one) = Spanned(p) /\ Ordered(one)
  BY TextOfOne
<1>2. Append(s, p) = s \o one
  OBVIOUS
<1> HIDE DEF one
<1> QED
  BY <1>1, <1>2, OrderedConcat, TextOfConcat

\* A size is a number, and that of pieces in order is at most that of their
\* text with a separator for every character.
LEMMA SizeFacts ==
  ASSUME NEW doc \in Seq(Segments), NEW s \in Seq(Pieces(doc))
  PROVE  /\ Rendered(s) \in Nat /\ (s = <<>> => Rendered(s) = 0)
         /\ \A p \in Pieces(doc) : s = <<p>> => Rendered(s) = Length(p)
         /\ Ordered(s) => /\ IsFiniteSet(Text(s))
                          /\ Rendered(s) <= (Separator + 1) * Cardinality(Text(s))
<1> DEFINE n == Len(s)
           X(i) == UNION {Spanned(s[j]) : j \in 1 .. i}
<1>0. n \in Nat /\ Separator \in Nat
  BY ChunkingAssumption
<1>1. \A p \in Pieces(doc) : Length(p) \in Nat
  BY SpanFacts
<1>2. PICK trace : /\ Sums(s, trace)
                   /\ Rendered(s) = trace[n] + (IF s = <<>> THEN 0 ELSE Separator * (n - 1))
  BY <1>1, RenderedTrace
<1>3. /\ trace \in [0 .. n -> Nat] /\ trace[0] = 0
      /\ \A i \in 1 .. n : trace[i] = trace[i - 1] + Length(s[i])
  BY <1>2 DEF Sums
<1>4. /\ trace[n] \in Nat /\ (s = <<>> <=> n = 0)
      /\ s # <<>> => n - 1 \in Nat /\ Separator * (n - 1) \in Nat
  <2>1. trace[n] \in Nat /\ (s = <<>> <=> n = 0)
    BY <1>0, <1>3
  <2>2. \A a \in Nat : Separator * a \in Nat
    BY <1>0
  <2> HIDE DEF n
  <2> QED
    BY <1>0, <2>1, <2>2
<1>5. Rendered(s) \in Nat /\ (s = <<>> => Rendered(s) = 0)
  <2> HIDE DEF n
  <2> QED
    BY <1>0, <1>2, <1>3, <1>4
<1>6. ASSUME NEW p \in Pieces(doc), s = <<p>>
      PROVE  Rendered(s) = Length(p)
  <2>1. n = 1 /\ s[1] = p /\ s # <<>>
    BY <1>6
  <2>2. trace[1] = trace[0] + Length(p)
    BY <1>3, <2>1
  <2>3. Separator * (n - 1) = 0
    BY <1>0, <2>1
  <2>4. Length(p) \in Nat
    BY <1>1
  <2> QED
    BY <1>2, <1>3, <2>1, <2>2, <2>3, <2>4
<1>7. ASSUME Ordered(s)
      PROVE  /\ IsFiniteSet(Text(s))
             /\ Rendered(s) <= (Separator + 1) * Cardinality(Text(s))
  <2> DEFINE Fits(i) == IsFiniteSet(X(i)) /\ Cardinality(X(i)) = trace[i] /\ i <= trace[i]
             F == {i \in 0 .. n : ~Fits(i)}
  <2>1. F = {}
    <3> SUFFICES ASSUME F # {} PROVE FALSE
      OBVIOUS
    <3>1. PICK i \in F : \A m \in F : i <= m
      <4>1. F \in SUBSET Nat
        OBVIOUS
      <4> HIDE DEF F
      <4> QED
        BY <4>1, LeastNumber
    <3>2. i \in 0 .. n /\ ~Fits(i)
      OBVIOUS
    <3>3. i # 0
      <4> SUFFICES ASSUME i = 0 PROVE FALSE
        OBVIOUS
      <4>1. X(0) = {}
        OBVIOUS
      <4>2. IsFiniteSet({}) /\ Cardinality({}) = 0
        BY FS_EmptySet
      <4> HIDE DEF X
      <4>3. IsFiniteSet(X(0)) /\ Cardinality(X(0)) = 0
        BY <4>1, <4>2
      <4>4. Fits(0)
        BY <1>3, <4>3
      <4> HIDE DEF Fits
      <4> QED
        BY <3>2, <4>4
    <3>4. i - 1 \in 0 .. n /\ i \in 1 .. n /\ ~(i <= i - 1)
      BY <3>2, <3>3
    <3>5. Fits(i - 1)
      <4> HIDE DEF Fits
      <4> QED
        BY <3>1, <3>4
    <3>6. s[i] \in Pieces(doc)
      BY <3>4
    <3>7. X(i) = X(i - 1) \cup Spanned(s[i])
      <4>1. 1 .. i = (1 .. (i - 1)) \cup {i}
        BY <3>4
      <4> QED
        BY <4>1
    <3>8. X(i - 1) \cap Spanned(s[i]) = {}
      <4> SUFFICES ASSUME NEW x \in X(i - 1), x \in Spanned(s[i]) PROVE FALSE
        OBVIOUS
      <4>1. PICK j \in 1 .. (i - 1) : x \in Spanned(s[j])
        OBVIOUS
      <4>2. j \in 1 .. n /\ j < i
        BY <3>4
      <4>3. Precedes(x, x)
        BY <1>7, <3>4, <4>1, <4>2 DEF Ordered, Before
      <4>4. x \in Nat \X Nat
        BY <3>6, SpanFacts
      <4> QED
        BY <4>3, <4>4, PrecedesOrders
    <3>9. /\ IsFiniteSet(Spanned(s[i])) /\ Cardinality(Spanned(s[i])) = Length(s[i])
          /\ Length(s[i]) \in Nat /\ Length(s[i]) >= 1
      BY <3>6, SpanFacts
    <3> HIDE DEF X
    <3>10. /\ IsFiniteSet(X(i))
           /\ Cardinality(X(i)) = Cardinality(X(i - 1)) + Cardinality(Spanned(s[i])) - 0
      <4>1. Cardinality({}) = 0
        BY FS_EmptySet
      <4>2. IsFiniteSet(X(i - 1)) /\ IsFiniteSet(Spanned(s[i]))
        BY <3>5, <3>9
      <4>3. /\ IsFiniteSet(X(i - 1) \cup Spanned(s[i]))
            /\ Cardinality(X(i - 1) \cup Spanned(s[i]))
                   = Cardinality(X(i - 1)) + Cardinality(Spanned(s[i]))
                         - Cardinality(X(i - 1) \cap Spanned(s[i]))
        BY <4>2, FS_Union
      <4> QED
        BY <3>7, <3>8, <4>1, <4>3
    <3>11. trace[i - 1] \in Nat /\ trace[i] = trace[i - 1] + Length(s[i])
      BY <1>3, <3>4
    <3> QED
      BY <3>2, <3>4, <3>5, <3>9, <3>10, <3>11
  <2>2. Fits(n)
    <3>1. n \in 0 .. n
      BY <1>0
    <3> HIDE DEF Fits
    <3> QED
      BY <2>1, <3>1
  <2>3. Text(s) = X(n)
    BY TextIs
  <2> DEFINE C == Cardinality(Text(s))
  <2>4. C \in Nat /\ C = trace[n] /\ n <= C /\ IsFiniteSet(Text(s))
    <3> HIDE DEF X, n
    <3> QED
      BY <1>4, <2>2, <2>3
  <2> HIDE DEF C, n, X
  <2>5. (Separator + 1) * C = Separator * C + C /\ Separator * C \in Nat
    BY <1>0, <2>4
  <2>6. s # <<>> => Separator * (n - 1) <= Separator * C
    <3>1. \A a, b \in Nat : a <= b => Separator * a <= Separator * b
      BY <1>0
    <3> QED
      BY <1>0, <1>4, <2>4, <3>1
  <2>7. Rendered(s) <= (Separator + 1) * C
    <3>1. CASE s = <<>>
      BY <1>5, <2>4, <2>5, <3>1
    <3>2. CASE s # <<>>
      BY <1>2, <1>4, <2>4, <2>5, <2>6, <3>2
    <3> QED
      BY <3>1, <3>2
  <2> QED
    BY <2>4, <2>7 DEF C
<1> QED
  BY <1>5, <1>6, <1>7

-----------------------------------------------------------------------------
(* Where text may be cut.                                                  *)

\* Spaces are skipped to the next character that is none, or to the end.
LEMMA SkipFacts ==
  ASSUME NEW text \in Seq(Characters), NEW i \in 0 .. Len(text)
  PROVE  /\ SkipSpace(text, i) \in i .. Len(text)
         /\ \A k \in i .. SkipSpace(text, i) - 1 : IsSpace(text[k + 1])
<1> DEFINE S == {k \in i .. Len(text) - 1 : ~IsSpace(text[k + 1])} \cup {Len(text)}
           m == Min(S)
<1>1. Len(text) \in Nat /\ SkipSpace(text, i) = m
  BY DEF SkipSpace
<1>2. S \in SUBSET Nat /\ S # {} /\ \A k \in S : k \in i .. Len(text)
  BY <1>1
<1>3. m \in S /\ \A k \in S : m <= k
  <2> HIDE DEF S
  <2> QED
    BY <1>2, MinFacts
<1>4. m \in i .. Len(text)
  BY <1>2, <1>3
<1> HIDE DEF m
<1>5. ASSUME NEW k \in i .. m - 1 PROVE IsSpace(text[k + 1])
  <2>1. k \in i .. Len(text) - 1 /\ ~(m <= k)
    BY <1>1, <1>4
  <2>2. k \notin S
    BY <1>3, <2>1
  <2> QED
    BY <2>1, <2>2
<1> QED
  BY <1>1, <1>4, <1>5

\* Cuts lie behind a character of the range.
LEMMA CutFacts ==
  ASSUME NEW text, NEW from \in Nat, NEW to \in Nat
  PROVE  /\ NewlineCuts(text, from, to) \subseteq from + 1 .. to
         /\ SentenceCuts(text, from, to) \subseteq from + 1 .. to
         /\ SpaceCuts(text, from, to) \subseteq from + 1 .. to
<1>1. \A i \in from .. to - 1 : i + 1 \in from + 1 .. to
  OBVIOUS
<1> QED
  BY <1>1 DEF NewlineCuts, SentenceCuts, SpaceCuts

\* The repeated end of a text is no longer than wanted.
LEMMA OverlapStartFacts ==
  ASSUME NEW text \in Seq(Characters), NEW wanted \in Nat, wanted < Len(text)
  PROVE  OverlapStart(text, wanted) \in Len(text) - wanted .. Len(text)
<1> DEFINE n == Len(text)
           naive == n - wanted
           begins(C) == {SkipSpace(text, k) : k \in C} \ {n}
           newlines == begins(NewlineCuts(text, naive, n))
           sentences == begins({k \in SentenceCuts(text, naive, n) : k < n})
           spaces == begins(SpaceCuts(text, naive, n)) \cup {n}
<1>1. n \in Nat /\ naive \in Nat /\ naive <= n
  OBVIOUS
<1>2. ASSUME NEW C \in SUBSET (naive + 1 .. n)
      PROVE  begins(C) \in SUBSET (naive .. n)
  <2> SUFFICES ASSUME NEW k \in C PROVE SkipSpace(text, k) \in naive .. n
    OBVIOUS
  <2>1. k \in 0 .. n /\ naive <= k
    BY <1>1
  <2>2. SkipSpace(text, k) \in k .. n
    BY <2>1, SkipFacts
  <2> QED
    BY <1>1, <2>1, <2>2
<1>3. newlines \in SUBSET (naive .. n)
  <2>1. NewlineCuts(text, naive, n) \in SUBSET (naive + 1 .. n)
    BY <1>1, CutFacts
  <2> HIDE DEF begins, naive, n
  <2> QED
    BY <1>2, <2>1
<1>4. sentences \in SUBSET (naive .. n)
  <2>1. {k \in SentenceCuts(text, naive, n) : k < n} \in SUBSET (naive + 1 .. n)
    <3>1. SentenceCuts(text, naive, n) \subseteq naive + 1 .. n
      BY <1>1, CutFacts
    <3> QED
      BY <3>1
  <2> HIDE DEF begins, naive, n
  <2> QED
    BY <1>2, <2>1
<1>5. spaces \in SUBSET (naive .. n) /\ spaces # {}
  <2>1. SpaceCuts(text, naive, n) \in SUBSET (naive + 1 .. n)
    BY <1>1, CutFacts
  <2>2. n \in naive .. n
    BY <1>1
  <2> HIDE DEF begins, naive, n
  <2> QED
    BY <1>2, <2>1, <2>2
<1>6. \A S \in SUBSET (naive .. n) : S # {} => Min(S) \in naive .. n
  <2> SUFFICES ASSUME NEW S \in SUBSET (naive .. n), S # {} PROVE Min(S) \in naive .. n
    OBVIOUS
  <2>1. S \in SUBSET Nat
    BY <1>1
  <2> QED
    BY <2>1, MinFacts
<1>7. OverlapStart(text, wanted) =
          IF newlines # {} THEN Min(newlines) ELSE IF sentences # {} THEN Min(sentences) ELSE Min(spaces)
  BY Zenon DEF OverlapStart
<1> HIDE DEF newlines, sentences, spaces
<1> QED
  BY <1>3, <1>4, <1>5, <1>6, <1>7

-----------------------------------------------------------------------------
(* The overlap.                                                            *)

\* What is carried over, and how much more may be.
Carried(doc) == [kept : Seq(Pieces(doc)), left : Nat]

\* A piece is not carried, is carried whole, or only its end is.
CarriesTo(doc, path, acc, piece, r) ==
    \/ r = [kept |-> acc.kept, left |-> 0]
    \/ \E part \in Pieces(doc) :
           /\ acc.left # 0 /\ part.path = path
           /\ part.segment = piece.segment /\ part.to = piece.to /\ piece.from <= part.from
           /\ Length(part) <= acc.left
           /\ \/ part = piece /\ r = [kept |-> <<piece>> \o acc.kept, left |-> acc.left - Length(piece)]
              \/ r = [kept |-> <<part>> \o acc.kept, left |-> 0]

\* Nothing else happens to a piece when the end of a chunk is gathered.
LEMMA CarryCases ==
  ASSUME NEW doc \in Seq(Segments), NEW path, NEW acc \in Carried(doc),
         NEW piece \in Pieces(doc), NEW r, r = Carry(doc, path, acc, piece)
  PROVE  CarriesTo(doc, path, acc, piece, r)
<1> SUFFICES \/ r = [kept |-> acc.kept, left |-> 0]
             \/ \E part \in Pieces(doc) :
                    /\ acc.left # 0 /\ part.path = path
                    /\ part.segment = piece.segment /\ part.to = piece.to /\ piece.from <= part.from
                    /\ Length(part) <= acc.left
                    /\ \/ part = piece /\ r = [kept |-> <<piece>> \o acc.kept, left |-> acc.left - Length(piece)]
                       \/ r = [kept |-> <<part>> \o acc.kept, left |-> 0]
  BY DEF CarriesTo
<1> DEFINE text == SubSeq(doc[piece.segment].text, piece.from + 1, piece.to)
           start == OverlapStart(text, acc.left)
           part == [piece EXCEPT !.from = piece.from + start]
<1>1. /\ acc.kept \in Seq(Pieces(doc)) /\ acc.left \in Nat
      /\ acc = [kept |-> acc.kept, left |-> acc.left]
  BY DEF Carried
<1>2. /\ piece.segment \in DOMAIN doc /\ piece.from \in Nat /\ piece.to \in Nat
      /\ piece.from < piece.to /\ piece.to <= Len(doc[piece.segment].text)
      /\ piece \in [segment : DOMAIN doc, from : Nat, to : Nat, path : Paths(doc)]
  BY DEF Pieces
<1>3. Length(piece) \in Nat /\ Length(piece) = piece.to - piece.from
  BY <1>2 DEF Length
<1>4. CASE acc.left = 0 \/ piece.path # path
  <2>1. r = [acc EXCEPT !.left = 0]
    BY <1>4 DEF Carry
  <2> QED
    BY <1>1, <2>1
<1>5. CASE ~(acc.left = 0 \/ piece.path # path) /\ Length(piece) <= acc.left
  <2>1. r = [kept |-> <<piece>> \o acc.kept, left |-> acc.left - Length(piece)]
    BY <1>5 DEF Carry
  <2>2. /\ piece \in Pieces(doc) /\ acc.left # 0 /\ piece.path = path
        /\ piece.segment = piece.segment /\ piece.to = piece.to /\ piece.from <= piece.from
        /\ Length(piece) <= acc.left
    BY <1>2, <1>5
  <2> QED
    BY <2>1, <2>2
<1>6. CASE ~(acc.left = 0 \/ piece.path # path) /\ ~(Length(piece) <= acc.left)
  <2>1. r = [kept |-> (IF start < Len(text) THEN <<part>> ELSE <<>>) \o acc.kept, left |-> 0]
    BY <1>6 DEF Carry
  <2>2. text \in Seq(Characters) /\ Len(text) = Length(piece)
    <3>0. doc[piece.segment] \in Segments
      BY <1>2
    <3>1. doc[piece.segment].text \in Seq(Characters)
      BY <3>0 DEF Segments
    <3>2. piece.from + 1 \in 1 .. Len(doc[piece.segment].text) + 1
          /\ piece.to \in piece.from + 1 - 1 .. Len(doc[piece.segment].text)
      BY <1>2, <3>1
    <3> DEFINE whole == doc[piece.segment].text
               a == piece.from + 1
               b == piece.to
    <3>3. a \in 1 .. Len(whole) + 1 /\ b \in a - 1 .. Len(whole) /\ b - a + 1 = Length(piece)
      BY <1>2, <1>3, <3>2
    <3>4. whole \in Seq(Characters)
      BY <3>1
    <3>5. text = SubSeq(whole, a, b)
      OBVIOUS
    <3> HIDE DEF whole, a, b, text
    <3>6. SubSeq(whole, a, b) \in Seq(Characters) /\ Len(SubSeq(whole, a, b)) = b - a + 1
      BY <3>3, <3>4
    <3> QED
      BY <3>3, <3>5, <3>6
  <2> HIDE DEF text
  <2>3. start \in Length(piece) - acc.left .. Length(piece)
    BY <1>1, <1>3, <1>6, <2>2, OverlapStartFacts
  <2> HIDE DEF start
  <2>4. CASE start < Len(text)
    <3>1. piece.from + start \in Nat /\ piece.from + start < piece.to
      BY <1>1, <1>2, <1>3, <1>6, <2>2, <2>3, <2>4
    <3>2. /\ part \in Pieces(doc) /\ part.path = path /\ part.segment = piece.segment
          /\ part.to = piece.to /\ part.from = piece.from + start
      BY <1>2, <1>6, <3>1 DEF Pieces
    <3>3. piece.from <= part.from /\ Length(part) <= acc.left
      BY <1>1, <1>2, <1>3, <1>6, <2>3, <3>2 DEF Length
    <3>4. r = [kept |-> <<part>> \o acc.kept, left |-> 0]
      BY <2>1, <2>4
    <3> QED
      BY <1>6, <3>2, <3>3, <3>4
  <2>5. CASE ~(start < Len(text))
    <3>1. <<>> \o acc.kept = acc.kept
      BY <1>1
    <3> QED
      BY <2>1, <2>5, <3>1
  <2> QED
    BY <2>4, <2>5
<1> QED
  BY <1>4, <1>5, <1>6

\* The pieces carried while a chunk is gone through from its end.
Carrying(doc, s, path, trace) ==
    /\ trace \in [0 .. Len(s) -> Carried(doc)]
    /\ trace[0] = [kept |-> <<>>, left |-> OverlapChars]
    /\ \A i \in 1 .. Len(s) : trace[i] = Carry(doc, path, trace[i - 1], s[Len(s) - i + 1])

\* The overlap is what was carried when the chunk has been gone through.
LEMMA OverlapTrace ==
  ASSUME NEW doc \in Seq(Segments), NEW s \in Seq(Pieces(doc)), NEW path
  PROVE  \E trace : Carrying(doc, s, path, trace) /\ Overlap(doc, s, path) = trace[Len(s)].kept
<1> DEFINE n == Len(s)
           D == 1 .. n
           V == Carried(doc)
           t == Reverse(s)
           base == [kept |-> <<>>, left |-> OverlapChars]
           op == [p \in D \X V |-> Carry(doc, path, p[2], t[p[1]])]
           Raw(c) == c = [T \in SUBSET D |-> IF T = {} THEN base
                                            ELSE Carry(doc, path, c[T \ {Max(T)}], t[Max(T)])]
           c == CHOOSE c : Raw(c)
<1>0. n \in Nat
  OBVIOUS
<1>1. /\ n \in Nat /\ DOMAIN t = D
      /\ \A i \in D : t[i] = s[n - i + 1] /\ t[i] \in Pieces(doc)
  <2>0. n \in Nat
    OBVIOUS
  <2>1. t = [i \in 1 .. n |-> s[(n - i) + 1]]
    BY Zenon DEF Reverse
  <2>2. \A i \in D : n - i + 1 \in D /\ s[n - i + 1] \in Pieces(doc)
    BY <2>0
  <2> HIDE DEF t
  <2> QED
    BY <2>0, <2>1, <2>2
<1> HIDE DEF t
<1>2. ASSUME NEW v \in V, NEW i \in D
      PROVE  Carry(doc, path, v, t[i]) \in V
  <2> DEFINE piece == t[i]
             r == Carry(doc, path, v, piece)
  <2>1. piece \in Pieces(doc) /\ v \in Carried(doc) /\ r = Carry(doc, path, v, piece)
    BY <1>1
  <2>2. v.kept \in Seq(Pieces(doc)) /\ v.left \in Nat
    BY DEF Carried
  <2> HIDE DEF piece, r, V
  <2>3a. CarriesTo(doc, path, v, piece, r)
    BY <2>1, CarryCases
  <2>3. \/ r = [kept |-> v.kept, left |-> 0]
        \/ \E part \in Pieces(doc) :
               /\ v.left # 0 /\ part.path = path
               /\ part.segment = piece.segment /\ part.to = piece.to /\ piece.from <= part.from
               /\ Length(part) <= v.left
               /\ \/ part = piece /\ r = [kept |-> <<piece>> \o v.kept, left |-> v.left - Length(piece)]
                  \/ r = [kept |-> <<part>> \o v.kept, left |-> 0]
    BY <2>3a DEF CarriesTo
  <2>4. CASE r = [kept |-> v.kept, left |-> 0]
    <3>1. [kept |-> v.kept, left |-> 0] \in [kept : Seq(Pieces(doc)), left : Nat]
      BY <2>2
    <3>2. r \in V
      BY <2>4, <3>1 DEF V, Carried
    <3> QED
      BY <3>2 DEF r, piece
  <2>5. CASE \E part \in Pieces(doc) :
               /\ Length(part) <= v.left
               /\ \/ part = piece /\ r = [kept |-> <<piece>> \o v.kept, left |-> v.left - Length(piece)]
                  \/ r = [kept |-> <<part>> \o v.kept, left |-> 0]
    <3>1. PICK part \in Pieces(doc) :
               /\ Length(part) <= v.left
               /\ \/ part = piece /\ r = [kept |-> <<piece>> \o v.kept, left |-> v.left - Length(piece)]
                  \/ r = [kept |-> <<part>> \o v.kept, left |-> 0]
      BY <2>5
    <3>2. Length(part) \in Nat /\ v.left - Length(part) \in Nat
      <4>1. Length(part) \in Nat
        BY SpanFacts
      <4> QED
        BY <2>2, <3>1, <4>1
    <3>3. <<part>> \o v.kept \in Seq(Pieces(doc))
      BY <2>2
    <3>4. r \in [kept : Seq(Pieces(doc)), left : Nat]
      <4>1. [kept |-> <<part>> \o v.kept, left |-> 0] \in [kept : Seq(Pieces(doc)), left : Nat]
        BY <3>3
      <4>2. [kept |-> <<part>> \o v.kept, left |-> v.left - Length(part)]
                \in [kept : Seq(Pieces(doc)), left : Nat]
        BY <3>2, <3>3
      <4> QED
        BY <3>1, <4>1, <4>2
    <3>5. r \in V
      BY <3>4 DEF V, Carried
    <3> QED
      BY <3>5 DEF r, piece
  <2> QED
    BY <2>3, <2>4, <2>5
<1>3. base \in V
  BY ChunkingAssumption DEF Carried
<1> HIDE DEF V, base
<1>4. Foldable(n, V, base, op) /\ \A i \in D, v \in V : op[<<i, v>>] = Carry(doc, path, v, t[i])
  <2>1. op \in [D \X V -> V]
    BY <1>2
  <2> QED
    BY <1>3, <2>1 DEF Foldable
<1>5. \A T \in SUBSET D : T # {} => Max(T) \in T
  <2> SUFFICES ASSUME NEW T \in SUBSET D, T # {} PROVE Max(T) \in T
    OBVIOUS
  <2>1. T \in SUBSET (0 .. n)
    BY <1>1
  <2> HIDE DEF n
  <2> QED
    BY <1>1, <2>1, MaxFacts
<1>6. PICK g \in [SUBSET D -> V] : FoldsUpTo(n, op, base, g)
  <2> HIDE DEF n, op
  <2> QED
    BY <1>1, <1>4, FoldExists
<1>7. Raw(g)
  <2> HIDE DEF n, op
  <2>1. ASSUME NEW T \in SUBSET D
        PROVE  g[T] = IF T = {} THEN base ELSE Carry(doc, path, g[T \ {Max(T)}], t[Max(T)])
    <3>1. T # {} => Max(T) \in D /\ g[T \ {Max(T)}] \in V
      BY <1>5
    <3> QED
      BY <1>4, <1>6, <3>1 DEF FoldsUpTo
  <2> QED
    BY <2>1
<1>8. Raw(c)
  <2> HIDE DEF Raw
  <2> QED
    BY <1>7
<1>9. FoldLeft(LAMBDA acc, p : Carry(doc, path, acc, p), base, t) = c[D]
  BY <1>1, Zenon DEF FoldLeft, MapThenFoldSet
<1> HIDE DEF c
<1>10. Follows(n, V, base, op, c)
  <2>1. {} \in SUBSET D
    OBVIOUS
  <2>2. ASSUME NEW i \in 1 .. n
        PROVE  c[1 .. i] = Carry(doc, path, c[1 .. (i - 1)], t[i])
    <3>1. i \in Nat \ {0} /\ 1 .. i \in SUBSET D /\ 1 .. i # {}
      <4>1. i \in Nat /\ 1 <= i /\ i <= n
        BY <1>0
      <4> HIDE DEF n
      <4>2. 1 .. i \subseteq 1 .. n /\ i \in 1 .. i
        BY <1>0, <4>1
      <4> QED
        BY <4>1, <4>2
    <3>2. Max(1 .. i) = i /\ (1 .. i) \ {i} = 1 .. (i - 1)
      BY <3>1, MaxOfPrefix
    <3> HIDE DEF D
    <3> QED
      BY <1>8, <3>1, <3>2
  <2>3. c[{}] = base
    BY <1>8, <2>1
  <2> HIDE DEF op, n, Raw
  <2>4. ASSUME NEW i \in 1 .. n, NEW v \in V, c[1 .. (i - 1)] = v
        PROVE  c[1 .. i] = op[<<i, v>>]
    BY <1>4, <2>2, <2>4
  <2> QED
    BY <2>3, <2>4 DEF Follows
<1>11. PICK trace : Passes(n, V, base, op, trace) /\ c[1 .. n] = trace[n]
  <2> HIDE DEF n, op, Raw
  <2> QED
    BY <1>1, <1>4, <1>10, FoldTrace
<1>12. Carrying(doc, s, path, trace)
  <2> HIDE DEF op, n, Raw
  <2>1. trace \in [0 .. n -> V] /\ trace[0] = base
    BY <1>11 DEF Passes
  <2>2. ASSUME NEW i \in 1 .. n
        PROVE  trace[i] = Carry(doc, path, trace[i - 1], s[n - i + 1])
    <3>1. trace[i - 1] \in V /\ trace[i] = op[<<i, trace[i - 1]>>]
      BY <1>11 DEF Passes
    <3> QED
      BY <1>1, <1>4, <3>1
  <2> QED
    BY <2>1, <2>2 DEF Carrying, n, V, base
<1>13. Overlap(doc, s, path) = c[D].kept
  BY <1>9, Zenon DEF Overlap, t, base
<1> QED
  BY <1>11, <1>12, <1>13

\* The text behind piece j.
After(s, j) == UNION {Spanned(s[k]) : k \in j + 1 .. Len(s)}

\* A is what follows some place in S.
EndOf(A, S) == A \subseteq S /\ \A x \in A, y \in S : Precedes(x, y) => y \in A

\* Pieces of the section that carry no more than the end of the text of s.
Ending(doc, s, path, kept) ==
    /\ kept \in Seq(Pieces(doc)) /\ Ordered(kept)
    /\ \A j \in 1 .. Len(kept) : kept[j].path = path
    /\ EndOf(Text(kept), Text(s)) /\ IsFiniteSet(Text(kept))
    /\ Cardinality(Text(kept)) <= OverlapChars

\* No pieces hold no text.
LEMMA TextOfNone ==
  Text(<<>>) = {} /\ Ordered(<<>>)
<1>1. <<>> \in Seq({}) /\ Len(<<>>) = 0
  OBVIOUS
<1> DEFINE none == <<>>
<1> HIDE DEF none
<1>2. none \in Seq({}) /\ Len(none) = 0
  BY <1>1 DEF none
<1>3. \A x : x \in Text(none) <=> \E i \in 1 .. Len(none) : x \in Spanned(none[i])
  BY <1>2, TextIs
<1>4. Text(none) = {}
  BY <1>2, <1>3
<1>5. Ordered(none)
  BY <1>2 DEF Ordered
<1> QED
  BY <1>4, <1>5 DEF none

\* The text of pieces in a document.
LEMMA TextFacts ==
  ASSUME NEW doc \in Seq(Segments), NEW s \in Seq(Pieces(doc))
  PROVE  /\ Text(s) \subseteq Nat \X Nat
         /\ \A i \in 1 .. Len(s) : Spanned(s[i]) \subseteq Text(s) /\ s[i] \in Pieces(doc)
<1>1. \A i \in 1 .. Len(s) : s[i] \in Pieces(doc)
  OBVIOUS
<1>2. \A x : x \in Text(s) <=> \E i \in 1 .. Len(s) : x \in Spanned(s[i])
  BY TextIs
<1>3. \A p \in Pieces(doc) : Spanned(p) \subseteq Nat \X Nat
  BY SpanFacts
<1> QED
  BY <1>1, <1>2, <1>3

\* A piece with what follows it, or its end with what follows it.
LEMMA KeepMore ==
  ASSUME NEW doc \in Seq(Segments), NEW s \in Seq(Pieces(doc)), Ordered(s), NEW j \in 1 .. Len(s),
         NEW kept \in Seq(Pieces(doc)), Ordered(kept), Text(kept) = After(s, j), IsFiniteSet(Text(kept)),
         NEW part \in Pieces(doc), part.segment = s[j].segment, part.to = s[j].to, s[j].from <= part.from
  PROVE  /\ <<part>> \o kept \in Seq(Pieces(doc)) /\ Ordered(<<part>> \o kept)
         /\ EndOf(Text(<<part>> \o kept), Text(s)) /\ IsFiniteSet(Text(<<part>> \o kept))
         /\ Cardinality(Text(<<part>> \o kept)) = Length(part) + Cardinality(Text(kept))
         /\ part = s[j] => Text(<<part>> \o kept) = After(s, j - 1)
<1> DEFINE one == <<part>>
           n == Len(s)
<1>1. one \in Seq(Pieces(doc)) /\ Text(one) = Spanned(part) /\ Ordered(one)
  BY TextOfOne
<1>2. n \in Nat /\ j \in Nat /\ 1 <= j /\ j <= n /\ s[j] \in Pieces(doc)
  OBVIOUS
<1>3. \A k \in 1 .. n : Spanned(s[k]) \subseteq Nat \X Nat
  BY TextFacts
<1>4. Spanned(part) \subseteq Spanned(s[j])
  <2>1. /\ part.from \in Nat /\ part.to \in Nat /\ s[j].from \in Nat /\ s[j].to \in Nat
    BY <1>2 DEF Pieces
  <2> QED
    BY <2>1 DEF Spanned
<1>5. \A k \in j + 1 .. n : k \in 1 .. n /\ j < k
  BY <1>2
<1>6. Before(Spanned(s[j]), After(s, j))
  BY <1>2, <1>5 DEF Ordered, Before, After
<1>7. Before(Text(one), Text(kept))
  BY <1>1, <1>4, <1>6 DEF Before
<1>8. /\ one \o kept \in Seq(Pieces(doc)) /\ Ordered(one \o kept)
      /\ Text(one \o kept) = Spanned(part) \cup After(s, j)
  <2> HIDE DEF one
  <2> QED
    BY <1>1, <1>7, OrderedConcat, TextOfConcat
<1>9. After(s, j) \subseteq Text(s) /\ Spanned(s[j]) \subseteq Text(s)
  <2>1. \A k \in 1 .. n : Spanned(s[k]) \subseteq Text(s)
    BY TextFacts
  <2> QED
    BY <1>2, <1>5, <2>1 DEF After
<1>10. EndOf(Text(one \o kept), Text(s))
  <2>1. Text(one \o kept) \subseteq Text(s)
    BY <1>4, <1>8, <1>9
  <2>2. ASSUME NEW x \in Spanned(part) \cup After(s, j), NEW y \in Text(s), Precedes(x, y)
        PROVE  y \in Spanned(part) \cup After(s, j)
    <3>1. PICK k \in 1 .. n : y \in Spanned(s[k])
      BY TextIs
    <3>2. CASE k > j
      <4>1. k \in j + 1 .. n
        BY <1>2, <3>2
      <4> QED
        BY <3>1, <4>1 DEF After
    <3>3. CASE k = j
      <4>1. CASE x \in Spanned(part)
        <5>1. /\ part.from \in Nat /\ part.to \in Nat /\ s[j].from \in Nat /\ s[j].to \in Nat
          BY <1>2 DEF Pieces
        <5>2. PICK a \in part.from .. part.to - 1 : x = <<part.segment, a>>
          BY <4>1 DEF Spanned
        <5>3. PICK b \in s[j].from .. s[j].to - 1 : y = <<s[j].segment, b>>
          BY <3>1, <3>3 DEF Spanned
        <5>4. s[j].segment \in DOMAIN doc /\ part.segment = s[j].segment
          BY <1>2 DEF Pieces
        <5>5. a < b
          <6>1. s[j].segment \in Nat
            BY <5>4
          <6>2. x[1] = s[j].segment /\ y[1] = s[j].segment /\ x[2] = a /\ y[2] = b
            BY <5>2, <5>3, <5>4
          <6> QED
            BY <2>2, <6>1, <6>2 DEF Precedes
        <5>6. b \in part.from .. part.to - 1 /\ y = <<part.segment, b>>
          BY <5>1, <5>2, <5>3, <5>5
        <5> QED
          BY <5>6 DEF Spanned
      <4>2. CASE x \in After(s, j)
        <5>1. Precedes(y, x)
          BY <1>6, <3>1, <3>3, <4>2 DEF Before
        <5>2. x \in Nat \X Nat /\ y \in Nat \X Nat
          BY <1>9, <4>2, TextFacts
        <5> QED
          BY <2>2, <5>1, <5>2, PrecedesOrders
      <4> QED
        BY <4>1, <4>2
    <3>4. CASE k < j
      <4>1. PICK l \in 1 .. n : l >= j /\ x \in Spanned(s[l])
        <5>1. CASE x \in Spanned(part)
          BY <1>2, <1>4, <5>1
        <5>2. CASE x \in After(s, j)
          <6>1. PICK l \in j + 1 .. n : x \in Spanned(s[l])
            BY <5>2 DEF After
          <6> QED
            BY <1>2, <6>1
        <5> QED
          BY <5>1, <5>2
      <4>2. k < l
        BY <1>2, <3>4, <4>1
      <4>3. Precedes(y, x)
        BY <3>1, <4>1, <4>2 DEF Ordered, Before
      <4>4. x \in Nat \X Nat /\ y \in Nat \X Nat
        BY <1>3, <3>1, <4>1
      <4> QED
        BY <2>2, <4>3, <4>4, PrecedesOrders
    <3> QED
      BY <1>2, <3>2, <3>3, <3>4
  <2> QED
    BY <1>8, <2>1, <2>2 DEF EndOf
<1>11. /\ IsFiniteSet(Text(one \o kept))
       /\ Cardinality(Text(one \o kept)) = Length(part) + Cardinality(Text(kept))
  <2>1. IsFiniteSet(Spanned(part)) /\ Cardinality(Spanned(part)) = Length(part) /\ Length(part) \in Nat
    BY SpanFacts
  <2>2. Spanned(part) \cap After(s, j) = {}
    <3> SUFFICES ASSUME NEW x \in Spanned(part), x \in After(s, j) PROVE FALSE
      OBVIOUS
    <3>1. Precedes(x, x) /\ x \in Nat \X Nat
      BY <1>2, <1>3, <1>4, <1>6 DEF Before
    <3> QED
      BY <3>1, PrecedesOrders
  <2>3. Cardinality({}) = 0
    BY FS_EmptySet
  <2>4. /\ IsFiniteSet(Spanned(part) \cup After(s, j))
        /\ Cardinality(Spanned(part) \cup After(s, j))
               = Cardinality(Spanned(part)) + Cardinality(After(s, j))
                     - Cardinality(Spanned(part) \cap After(s, j))
    BY <2>1, FS_Union
  <2>5. Cardinality(After(s, j)) \in Nat
    BY FS_CardinalityType
  <2>6. Cardinality(Spanned(part) \cup After(s, j)) = Length(part) + Cardinality(After(s, j))
    <3>1. Cardinality(Spanned(part) \cap After(s, j)) = 0
      BY <2>2, <2>3
    <3> QED
      BY <2>1, <2>4, <2>5, <3>1
  <2> HIDE DEF one
  <2> QED
    BY <1>8, <2>4, <2>6
<1>12. ASSUME part = s[j]
       PROVE  Text(one \o kept) = After(s, j - 1)
  <2>1. (j - 1) + 1 .. n = {j} \cup (j + 1 .. n)
    BY <1>2
  <2>2. After(s, j - 1) = Spanned(s[j]) \cup After(s, j)
    BY <2>1 DEF After
  <2> QED
    BY <1>8, <1>12, <2>2
<1> QED
  BY <1>8, <1>10, <1>11, <1>12

\* The overlap is an end of the chunk, in its section and no longer than allowed.
LEMMA OverlapFacts ==
  ASSUME NEW doc \in Seq(Segments), NEW s \in Seq(Pieces(doc)), Ordered(s), NEW path
  PROVE  Ending(doc, s, path, Overlap(doc, s, path))
<1> DEFINE n == Len(s)
<1>0. n \in Nat /\ OverlapChars \in Nat
  BY ChunkingAssumption
<1>1. PICK trace : Carrying(doc, s, path, trace) /\ Overlap(doc, s, path) = trace[n].kept
  BY OverlapTrace
<1>2. /\ trace \in [0 .. n -> Carried(doc)]
      /\ trace[0] = [kept |-> <<>>, left |-> OverlapChars]
      /\ \A i \in 1 .. n : trace[i] = Carry(doc, path, trace[i - 1], s[n - i + 1])
  BY <1>1 DEF Carrying
<1> DEFINE Good(acc, j) ==
             /\ Ending(doc, s, path, acc.kept)
             /\ acc.left \in Nat /\ Cardinality(Text(acc.kept)) + acc.left <= OverlapChars
             /\ acc.left # 0 => Text(acc.kept) = After(s, j)
           F == {i \in 0 .. n : ~Good(trace[i], n - i)}
<1>3. SUFFICES F = {}
  <2>1. n \in 0 .. n
    BY <1>0
  <2> HIDE DEF n
  <2> QED
    BY <1>1, <2>1
<1>4. SUFFICES ASSUME F # {} PROVE FALSE
  OBVIOUS
<1>5. PICK i \in F : \A m \in F : i <= m
  <2>1. F \in SUBSET Nat
    OBVIOUS
  <2> HIDE DEF F
  <2> QED
    BY <1>4, <2>1, LeastNumber
<1>6. i \in 0 .. n /\ ~Good(trace[i], n - i)
  OBVIOUS
<1>7. i # 0
  <2> SUFFICES ASSUME i = 0 PROVE FALSE
    OBVIOUS
  <2> DEFINE acc == trace[0]
  <2>1. acc.kept = <<>> /\ acc.left = OverlapChars
    BY <1>2
  <2>2. /\ acc.kept \in Seq(Pieces(doc)) /\ Ordered(acc.kept) /\ Text(acc.kept) = {}
        /\ Len(acc.kept) = 0
    BY <2>1, TextOfNone
  <2>3. IsFiniteSet({}) /\ Cardinality({}) = 0
    BY FS_EmptySet
  <2>4. After(s, n) = {}
    BY <1>0 DEF After
  <2>5. EndOf({}, Text(s))
    BY DEF EndOf
  <2> HIDE DEF acc
  <2>6. Ending(doc, s, path, acc.kept)
    BY <1>0, <2>2, <2>3, <2>5 DEF Ending
  <2>7. Good(acc, n)
    <3>1. Cardinality(Text(acc.kept)) = 0
      BY <2>2, <2>3
    <3>2. Text(acc.kept) = After(s, n)
      BY <2>2, <2>4
    <3> HIDE DEF n
    <3> QED
      BY <1>0, <2>1, <2>6, <3>1, <3>2
  <2> HIDE DEF Good
  <2> QED
    BY <1>0, <1>6, <2>7 DEF acc
<1> DEFINE j == n - i + 1
           old == trace[i - 1]
           new == trace[i]
<1>8. i - 1 \in 0 .. n /\ i \in 1 .. n /\ ~(i <= i - 1) /\ j \in 1 .. n /\ n - (i - 1) = j /\ n - i = j - 1
  BY <1>0, <1>6, <1>7
<1>9. Good(old, j)
  <2>1. Good(trace[i - 1], n - (i - 1))
    <3> HIDE DEF Good, n
    <3> QED
      BY <1>5, <1>8
  <2> HIDE DEF Good
  <2> QED
    BY <1>8, <2>1
<1>10. old \in Carried(doc) /\ old.kept \in Seq(Pieces(doc)) /\ s[j] \in Pieces(doc)
  <2>1. old \in Carried(doc)
    BY <1>2, <1>8
  <2>2. old.kept \in Seq(Pieces(doc))
    BY <2>1 DEF Carried
  <2> HIDE DEF j, old
  <2> QED
    BY <1>8, <2>1, <2>2
<1>11. new = Carry(doc, path, old, s[j])
  BY <1>2, <1>8
<1>12. ~Good(new, j - 1)
  <2> HIDE DEF Good
  <2> QED
    BY <1>6, <1>8
<1> HIDE DEF old, new, j, n
<1>13. CarriesTo(doc, path, old, s[j], new)
  BY <1>10, <1>11, CarryCases
<1>14. Cardinality(Text(old.kept)) \in Nat
  BY <1>9, FS_CardinalityType DEF Ending
<1>15. CASE new = [kept |-> old.kept, left |-> 0]
  BY <1>0, <1>9, <1>12, <1>14, <1>15
<1>16. CASE \E part \in Pieces(doc) :
               /\ old.left # 0 /\ part.path = path
               /\ part.segment = s[j].segment /\ part.to = s[j].to /\ s[j].from <= part.from
               /\ Length(part) <= old.left
               /\ \/ part = s[j] /\ new = [kept |-> <<s[j]>> \o old.kept, left |-> old.left - Length(s[j])]
                  \/ new = [kept |-> <<part>> \o old.kept, left |-> 0]
  <2>1. PICK part \in Pieces(doc) :
               /\ old.left # 0 /\ part.path = path
               /\ part.segment = s[j].segment /\ part.to = s[j].to /\ s[j].from <= part.from
               /\ Length(part) <= old.left
               /\ \/ part = s[j] /\ new = [kept |-> <<s[j]>> \o old.kept, left |-> old.left - Length(s[j])]
                  \/ new = [kept |-> <<part>> \o old.kept, left |-> 0]
    BY <1>16
  <2> DEFINE more == <<part>> \o old.kept
  <2>2. /\ Ordered(old.kept) /\ Text(old.kept) = After(s, j) /\ IsFiniteSet(Text(old.kept))
        /\ \A k \in 1 .. Len(old.kept) : old.kept[k].path = path
    BY <1>9, <2>1 DEF Ending
  <2>3. /\ more \in Seq(Pieces(doc)) /\ Ordered(more)
        /\ EndOf(Text(more), Text(s)) /\ IsFiniteSet(Text(more))
        /\ Cardinality(Text(more)) = Length(part) + Cardinality(Text(old.kept))
        /\ part = s[j] => Text(more) = After(s, j - 1)
    <3>1. j \in 1 .. Len(s)
      BY <1>8 DEF n
    <3> QED
      BY <1>10, <2>1, <2>2, <3>1, KeepMore
  <2>4. \A k \in 1 .. Len(more) : more[k].path = path
    <3>1. Len(more) = Len(old.kept) + 1 /\ Len(old.kept) \in Nat /\ more[1] = part
      BY <1>10
    <3>2. \A k \in 1 .. Len(old.kept) : more[k + 1] = old.kept[k]
      BY <1>10
    <3> HIDE DEF more
    <3>3. ASSUME NEW k \in 1 .. Len(more) PROVE more[k].path = path
      <4>1. CASE k = 1
        BY <2>1, <3>1, <4>1
      <4>2. CASE k # 1
        <5>1. k - 1 \in 1 .. Len(old.kept) /\ (k - 1) + 1 = k
          BY <3>1, <4>2
        <5> QED
          BY <2>2, <3>2, <5>1
      <4> QED
        BY <4>1, <4>2
    <3> QED
      BY <3>3
  <2>5. Length(part) \in Nat /\ old.left \in Nat
    BY <1>9, SpanFacts
  <2> HIDE DEF more
  <2>6. Cardinality(Text(more)) <= OverlapChars
        /\ Cardinality(Text(more)) + (old.left - Length(part)) <= OverlapChars
    BY <1>0, <1>9, <1>14, <2>1, <2>3, <2>5
  <2>7. Ending(doc, s, path, more)
    BY <2>3, <2>4, <2>6 DEF Ending
  <2>8. CASE part = s[j] /\ new = [kept |-> <<s[j]>> \o old.kept, left |-> old.left - Length(s[j])]
    <3>1. new.kept = more /\ new.left = old.left - Length(part)
      BY <2>8 DEF more
    <3>2. new.left \in Nat /\ Cardinality(Text(new.kept)) + new.left <= OverlapChars
      BY <2>1, <2>5, <2>6, <3>1
    <3>3. Text(new.kept) = After(s, j - 1) /\ Ending(doc, s, path, new.kept)
      BY <2>3, <2>7, <2>8, <3>1
    <3>4. Good(new, j - 1)
      BY <3>2, <3>3
    <3> QED
      BY <1>12, <3>4
  <2>9. CASE new = [kept |-> <<part>> \o old.kept, left |-> 0]
    <3>1. new.kept = more /\ new.left = 0
      BY <2>9 DEF more
    <3>2. Cardinality(Text(more)) \in Nat
      BY <1>14, <2>3, <2>5
    <3>3. Good(new, j - 1)
      BY <1>0, <2>6, <2>7, <3>1, <3>2
    <3> QED
      BY <1>12, <3>3
  <2> QED
    BY <2>1, <2>8, <2>9
<1> QED
  BY <1>13, <1>15, <1>16 DEF CarriesTo

\* The end of an end is an end.
LEMMA EndingFrom ==
  ASSUME NEW doc \in Seq(Segments), NEW s \in Seq(Pieces(doc)), NEW path, NEW o,
         Ending(doc, s, path, o), NEW k \in 1 .. Len(o)
  PROVE  Ending(doc, s, path, SubSeq(o, k, Len(o)))
<1> DEFINE n == Len(o)
           e == SubSeq(o, k, n)
<1>1. /\ o \in Seq(Pieces(doc)) /\ Ordered(o) /\ \A j \in 1 .. n : o[j].path = path
      /\ EndOf(Text(o), Text(s)) /\ IsFiniteSet(Text(o)) /\ Cardinality(Text(o)) <= OverlapChars
  BY DEF Ending
<1>2. n \in Nat /\ k \in Nat /\ 1 <= k /\ k <= n
  BY <1>1
<1>3. /\ e \in Seq(Pieces(doc)) /\ Len(e) = n - k + 1
      /\ \A j \in 1 .. n - k + 1 : e[j] = o[k + j - 1]
  BY <1>1, <1>2
<1> HIDE DEF e, n
<1>4. \A j \in 1 .. Len(e) : k + j - 1 \in 1 .. n /\ e[j] = o[k + j - 1]
  BY <1>2, <1>3
<1>5. Ordered(e)
  <2> SUFFICES ASSUME NEW i \in 1 .. Len(e), NEW j \in 1 .. Len(e), i < j
               PROVE  Before(Spanned(e[i]), Spanned(e[j]))
    BY DEF Ordered
  <2>1. k + i - 1 < k + j - 1
    BY <1>2, <1>3
  <2> QED
    BY <1>1, <1>4, <2>1 DEF Ordered, n
<1>6. \A j \in 1 .. Len(e) : e[j].path = path
  BY <1>1, <1>4
<1>7. Text(e) \subseteq Text(o)
  <2> SUFFICES ASSUME NEW x \in Text(e) PROVE x \in Text(o)
    OBVIOUS
  <2>1. PICK j \in 1 .. Len(e) : x \in Spanned(e[j])
    BY <1>3, TextIs
  <2>2. k + j - 1 \in 1 .. Len(o) /\ x \in Spanned(o[k + j - 1])
    BY <1>4, <2>1 DEF n
  <2> QED
    BY <1>1, <2>2, TextIs
<1>8. EndOf(Text(e), Text(s))
  <2> SUFFICES ASSUME NEW x \in Text(e), NEW y \in Text(s), Precedes(x, y) PROVE y \in Text(e)
    BY <1>1, <1>7 DEF EndOf
  <2>1. PICK i \in 1 .. Len(e) : x \in Spanned(e[i])
    BY <1>3, TextIs
  <2>2. y \in Text(o)
    BY <1>1, <1>7 DEF EndOf
  <2>3. PICK l \in 1 .. n : y \in Spanned(o[l])
    BY <1>1, <2>2, TextIs DEF n
  <2>4. CASE l < k
    <3>1. l < k + i - 1 /\ k + i - 1 \in 1 .. n /\ x \in Spanned(o[k + i - 1])
      BY <1>2, <1>3, <1>4, <2>1, <2>4
    <3>2. Precedes(y, x)
      BY <1>1, <2>3, <3>1 DEF Ordered, Before, n
    <3>3. Text(o) \subseteq Nat \X Nat
      BY <1>1, TextFacts
    <3>4. x \in Nat \X Nat /\ y \in Nat \X Nat
      BY <1>7, <2>2, <3>3
    <3> QED
      BY <3>2, <3>4, PrecedesOrders
  <2>5. CASE ~(l < k)
    <3>1. l - k + 1 \in 1 .. Len(e) /\ k + (l - k + 1) - 1 = l
      BY <1>2, <1>3, <2>5
    <3>2. y \in Spanned(e[l - k + 1])
      BY <1>4, <2>3, <3>1
    <3> QED
      BY <1>3, <3>1, <3>2, TextIs
  <2> QED
    BY <2>4, <2>5
<1>9. IsFiniteSet(Text(e)) /\ Cardinality(Text(e)) <= OverlapChars
  <2>1. IsFiniteSet(Text(e)) /\ Cardinality(Text(e)) <= Cardinality(Text(o))
    BY <1>1, <1>7, FS_Subset
  <2>2. Cardinality(Text(e)) \in Nat /\ Cardinality(Text(o)) \in Nat /\ OverlapChars \in Nat
    BY <1>1, <2>1, FS_CardinalityType, ChunkingAssumption
  <2> QED
    BY <1>1, <2>1, <2>2
<1>10. Ending(doc, s, path, e)
  BY <1>3, <1>5, <1>6, <1>8, <1>9 DEF Ending
<1> QED
  BY <1>10 DEF e, n

\* Nothing is an end of every chunk.
LEMMA EndingNone ==
  ASSUME NEW doc, NEW s, NEW path
  PROVE  Ending(doc, s, path, <<>>)
<1> DEFINE none == <<>>
<1>1. none \in Seq(Pieces(doc)) /\ Len(none) = 0 /\ Ordered(none) /\ Text(none) = {}
  BY TextOfNone
<1>2. IsFiniteSet({}) /\ Cardinality({}) = 0 /\ 0 <= OverlapChars
  BY FS_EmptySet, ChunkingAssumption
<1>3. EndOf({}, Text(s))
  BY DEF EndOf
<1> HIDE DEF none
<1>4. Ending(doc, s, path, none)
  BY <1>1, <1>2, <1>3 DEF Ending
<1> QED
  BY <1>4 DEF none

\* What is left of the overlap leaves room for the piece.
LEMMA FittedFacts ==
  ASSUME NEW doc \in Seq(Segments), NEW s \in Seq(Pieces(doc)), NEW path, NEW o,
         Ending(doc, s, path, o), NEW piece \in Pieces(doc), Length(piece) <= MaxChars
  PROVE  /\ Ending(doc, s, path, Fitted(o, piece))
         /\ Rendered(Append(Fitted(o, piece), piece)) <= MaxChars
<1> DEFINE rest(k) == SubSeq(o, k, Len(o))
           fits == {k \in DOMAIN o : Rendered(Append(rest(k), piece)) <= MaxChars}
           f == Fitted(o, piece)
<1>1. f = IF fits = {} THEN <<>> ELSE rest(Min(fits))
  BY Zenon DEF Fitted
<1>2. DOMAIN o = 1 .. Len(o)
  BY DEF Ending
<1>3. CASE fits = {}
  <2>1. f = <<>>
    BY <1>1, <1>3
  <2>2. Append(<<>>, piece) = <<piece>> /\ <<piece>> \in Seq(Pieces(doc))
    OBVIOUS
  <2>3. Rendered(Append(f, piece)) = Length(piece)
    <3> DEFINE one == <<piece>>
    <3>1. one \in Seq(Pieces(doc)) /\ Append(f, piece) = one
      BY <2>1, <2>2
    <3> HIDE DEF f
    <3>2. \A p \in Pieces(doc) : one = <<p>> => Rendered(one) = Length(p)
      <4> HIDE DEF one
      <4> QED
        BY <3>1, SizeFacts
    <3> QED
      BY <3>1, <3>2
  <2> HIDE DEF f
  <2>4. Ending(doc, s, path, f) /\ Rendered(Append(f, piece)) <= MaxChars
    BY <2>1, <2>3, EndingNone
  <2> QED
    BY <2>4 DEF f
<1>4. CASE fits # {}
  <2>1. fits \in SUBSET Nat
    BY <1>2
  <2>2. Min(fits) \in fits
    <3> HIDE DEF fits
    <3> QED
      BY <1>4, <2>1, MinFacts
  <2> DEFINE m == Min(fits)
  <2>3. m \in 1 .. Len(o) /\ Rendered(Append(rest(m), piece)) <= MaxChars
    BY <1>2, <2>2
  <2>4. f = rest(m)
    BY <1>1, <1>4
  <2> HIDE DEF m, f
  <2>5. Ending(doc, s, path, rest(m))
    BY <2>3, EndingFrom
  <2> DEFINE end == rest(m)
  <2>6. f = end /\ Ending(doc, s, path, end) /\ Rendered(Append(end, piece)) <= MaxChars
    BY <2>3, <2>4, <2>5
  <2> HIDE DEF end
  <2>7. Ending(doc, s, path, f) /\ Rendered(Append(f, piece)) <= MaxChars
    BY <2>6
  <2> QED
    BY <2>7 DEF f
<1> QED
  BY <1>3, <1>4

-----------------------------------------------------------------------------
(* Recursion from the end of a text.                                       *)

\* From i a function goes on at a later place, and stays in the sets W.
Descends(n, W, base, op, next) ==
    /\ base \in W[n]
    /\ \A i \in 0 .. n - 1 : next[i] \in i + 1 .. n /\ \A v \in W[next[i]] : op[<<i, v>>] \in W[i]

\* The recursion on offsets, each step to a later one, defines a function.
LEMMA DescentExists ==
  ASSUME NEW n \in Nat, NEW W, NEW base, NEW op, NEW next, Descends(n, W, base, op, next)
  PROVE  \E f : /\ f = [i \in 0 .. n |-> f[i]] /\ f[n] = base
                /\ \A i \in 0 .. n : f[i] \in W[i]
                /\ \A i \in 0 .. n - 1 : f[i] = op[<<i, f[next[i]]>>]
<1> DEFINE Exists(m) ==
             \E f : /\ f = [i \in m .. n |-> f[i]] /\ f[n] = base
                    /\ \A i \in m .. n : f[i] \in W[i]
                    /\ \A i \in m .. n - 1 : f[i] = op[<<i, f[next[i]]>>]
           F == {k \in 0 .. n : ~Exists(n - k)}
<1>1. SUFFICES ASSUME F # {} PROVE FALSE
  <2>1. SUFFICES Exists(0)
    OBVIOUS
  <2>2. n \in 0 .. n /\ n - n = 0
    OBVIOUS
  <2> HIDE DEF Exists
  <2> QED
    BY <2>2
<1>2. PICK k \in F : \A m \in F : k <= m
  <2>1. F \in SUBSET Nat
    OBVIOUS
  <2> HIDE DEF F
  <2> QED
    BY <1>1, <2>1, LeastNumber
<1>3. k \in 0 .. n /\ ~Exists(n - k)
  OBVIOUS
<1>4. k # 0
  <2> SUFFICES ASSUME k = 0 PROVE FALSE
    OBVIOUS
  <2> DEFINE f == [i \in n .. n |-> base]
  <2>1. n .. n = {n} /\ n .. n - 1 = {} /\ n - 0 = n
    OBVIOUS
  <2>2. f = [i \in n .. n |-> f[i]] /\ f[n] = base
    BY <2>1
  <2>3. base \in W[n]
    BY DEF Descends
  <2> HIDE DEF f
  <2>4. Exists(n)
    BY <2>1, <2>2, <2>3
  <2> HIDE DEF Exists
  <2> QED
    BY <1>3, <2>1, <2>4
<1> DEFINE m == n - k
<1>5. m \in 0 .. n - 1 /\ k - 1 \in 0 .. n /\ ~(k <= k - 1) /\ n - (k - 1) = m + 1
  BY <1>3, <1>4
<1>6. Exists(m + 1)
  <2> HIDE DEF Exists, m
  <2> QED
    BY <1>2, <1>5
<1>7. PICK f : /\ f = [i \in m + 1 .. n |-> f[i]] /\ f[n] = base
               /\ \A i \in m + 1 .. n : f[i] \in W[i]
               /\ \A i \in m + 1 .. n - 1 : f[i] = op[<<i, f[next[i]]>>]
  BY <1>6
<1> HIDE DEF m
<1> DEFINE g == [i \in m .. n |-> IF i = m THEN op[<<m, f[next[m]]>>] ELSE f[i]]
<1>8. next[m] \in m + 1 .. n /\ \A i \in m + 1 .. n - 1 : next[i] \in m + 1 .. n
  BY <1>5 DEF Descends
<1>9. g[m] = op[<<m, f[next[m]]>>] /\ \A i \in m + 1 .. n : g[i] = f[i]
  BY <1>5
<1>10. g = [i \in m .. n |-> g[i]]
  OBVIOUS
<1> HIDE DEF g
<1>11. g[m] \in W[m]
  BY <1>5, <1>7, <1>8, <1>9 DEF Descends
<1>12. \A i \in m .. n : i = m \/ i \in m + 1 .. n
  BY <1>5
<1>13. \A i \in m .. n : g[i] \in W[i]
  BY <1>7, <1>9, <1>11, <1>12
<1>14. ASSUME NEW i \in m .. n - 1
       PROVE  g[i] = op[<<i, g[next[i]]>>]
  <2>1. CASE i = m
    BY <1>8, <1>9, <2>1
  <2>2. CASE i # m
    <3>1. i \in m + 1 .. n /\ i \in m + 1 .. n - 1
      BY <1>5, <2>2
    <3> QED
      BY <1>7, <1>8, <1>9, <3>1
  <2> QED
    BY <2>1, <2>2
<1>15. g[n] = base
  <2>1. n \in m + 1 .. n
    BY <1>5
  <2> QED
    BY <1>7, <1>9, <2>1
<1>16. Exists(m)
  BY <1>10, <1>13, <1>14, <1>15
<1> HIDE DEF Exists
<1> QED
  BY <1>3, <1>16 DEF m

\* What one step keeps holds of each value of that function.
LEMMA DescentStays ==
  ASSUME NEW n \in Nat, NEW W, NEW base, NEW op, NEW next, Descends(n, W, base, op, next),
         NEW c, c[n] = base,
         \A i \in 0 .. n - 1 : \A v \in W[next[i]] : c[next[i]] = v => c[i] = op[<<i, v>>]
  PROVE  \A i \in 0 .. n : c[i] \in W[i]
<1> DEFINE F == {k \in 0 .. n : c[n - k] \notin W[n - k]}
<1>1. F = {}
  <2> SUFFICES ASSUME F # {} PROVE FALSE
    OBVIOUS
  <2>1. PICK k \in F : \A m \in F : k <= m
    <3>1. F \in SUBSET Nat
      OBVIOUS
    <3> HIDE DEF F
    <3> QED
      BY <3>1, LeastNumber
  <2>2. k \in 0 .. n /\ c[n - k] \notin W[n - k]
    OBVIOUS
  <2>3. k # 0
    <3>1. n - 0 = n /\ base \in W[n]
      BY DEF Descends
    <3> QED
      BY <2>2, <3>1
  <2> DEFINE i == n - k
             j == next[i]
  <2>4. i \in 0 .. n - 1
    BY <2>2, <2>3
  <2>5. j \in i + 1 .. n
    BY <2>4 DEF Descends
  <2>6. n - j \in 0 .. n /\ n - (n - j) = j /\ ~(k <= n - j)
    BY <2>2, <2>4, <2>5
  <2>7. c[j] \in W[j]
    <3>1. n - j \notin F
      <4> HIDE DEF F, j
      <4> QED
        BY <2>1, <2>6
    <3> HIDE DEF j
    <3> QED
      BY <2>6, <3>1
  <2>8. c[i] = op[<<i, c[j]>>] /\ op[<<i, c[j]>>] \in W[i]
    BY <2>4, <2>7 DEF Descends
  <2> QED
    BY <2>2, <2>8
<1>2. ASSUME NEW i \in 0 .. n PROVE c[i] \in W[i]
  <2>1. n - i \in 0 .. n /\ n - (n - i) = i
    OBVIOUS
  <2> QED
    BY <1>1, <2>1
<1> QED
  BY <1>2

-----------------------------------------------------------------------------
(* Splitting a segment.                                                    *)

\* The next cut lies ahead, and no further than a chunk may be long.
LEMMA NextCutFacts ==
  ASSUME NEW text \in Seq(Characters), NEW cursor \in 0 .. Len(text) - 1, NEW code
  PROVE  /\ NextCut(text, cursor, code) \in cursor + 1 .. Len(text)
         /\ NextCut(text, cursor, code) <= cursor + MaxChars
<1> DEFINE n == Len(text)
           hard == cursor + MaxChars
<1>1. /\ n \in Nat /\ cursor \in Nat /\ cursor < n /\ hard \in Nat /\ cursor < hard
      /\ MaxChars \in Nat \ {0} /\ TargetChars \in Nat
  BY ChunkingAssumption
<1>2. CASE hard >= n
  <2>1. NextCut(text, cursor, code) = n
    BY <1>2 DEF NextCut
  <2> QED
    BY <1>1, <1>2, <2>1
<1>3. CASE ~(hard >= n)
  <2>1. BestSplit(text, cursor, hard) \in cursor + 1 .. hard
    <3> DEFINE floor == IF cursor + TargetChars \div 2 \in cursor + 1 .. hard - 1
                        THEN cursor + TargetChars \div 2 ELSE cursor + 1
               newlines == NewlineCuts(text, floor, hard)
               sentences == SentenceCuts(text, floor, hard)
               spaces == SpaceCuts(text, floor, hard)
    <3>1. floor \in cursor + 1 .. hard
      BY <1>1
    <3>2. BestSplit(text, cursor, hard) =
              IF newlines # {} THEN Max(newlines)
              ELSE IF sentences # {} THEN Max(sentences)
              ELSE IF spaces # {} THEN Max(spaces)
              ELSE hard
      BY Zenon DEF BestSplit
    <3> HIDE DEF floor, hard
    <3>3. floor \in Nat /\ \A k \in floor + 1 .. hard : k \in cursor + 1 .. hard
      BY <1>1, <3>1
    <3>4. newlines \subseteq cursor + 1 .. hard
      BY <1>1, <3>3, CutFacts
    <3>5. sentences \subseteq cursor + 1 .. hard
      BY <1>1, <3>3, CutFacts
    <3>6. spaces \subseteq cursor + 1 .. hard
      BY <1>1, <3>3, CutFacts
    <3>7. \A S : S \subseteq cursor + 1 .. hard /\ S # {} => Max(S) \in cursor + 1 .. hard
      <4> SUFFICES ASSUME NEW S, S \subseteq cursor + 1 .. hard, S # {} PROVE Max(S) \in cursor + 1 .. hard
        OBVIOUS
      <4>1. S \in SUBSET (0 .. hard)
        BY <1>1
      <4>2. Max(S) \in S
        BY <1>1, <4>1, MaxFacts
      <4> QED
        BY <4>2
    <3>8. hard \in cursor + 1 .. hard
      BY <1>1
    <3> HIDE DEF newlines, sentences, spaces
    <3> QED
      BY <3>2, <3>4, <3>5, <3>6, <3>7, <3>8
  <2>2. CodeSplit(text, cursor, hard) \in cursor .. hard
    <3> DEFINE S == NewlineCuts(text, cursor + 1, hard) \cup {cursor}
    <3> HIDE DEF hard
    <3>1. NewlineCuts(text, cursor + 1, hard) \subseteq (cursor + 1) + 1 .. hard
      <4>1. cursor + 1 \in Nat
        BY <1>1
      <4> QED
        BY <1>1, <4>1, CutFacts
    <3>2. S \subseteq cursor .. hard /\ S \in SUBSET (0 .. hard) /\ S # {}
      BY <1>1, <3>1
    <3>3. Max(S) \in S
      <4> HIDE DEF S
      <4> QED
        BY <1>1, <3>2, MaxFacts
    <3>4. Max(S) \in cursor .. hard
      <4> HIDE DEF S
      <4> QED
        BY <3>2, <3>3
    <3> QED
      BY <3>4 DEF CodeSplit
  <2>3. NextCut(text, cursor, code) =
            IF ~code THEN BestSplit(text, cursor, hard)
            ELSE IF CodeSplit(text, cursor, hard) > cursor THEN CodeSplit(text, cursor, hard)
            ELSE hard
    BY <1>3 DEF NextCut
  <2> DEFINE b == BestSplit(text, cursor, hard)
             c == CodeSplit(text, cursor, hard)
             r == NextCut(text, cursor, code)
  <2>4. b \in cursor + 1 .. hard /\ c \in cursor .. hard
        /\ r = IF ~code THEN b ELSE IF c > cursor THEN c ELSE hard
    BY <2>1, <2>2, <2>3
  <2>5. r \in cursor + 1 .. hard
    <3> HIDE DEF b, c, r, hard
    <3> QED
      BY <1>1, <2>4
  <2> HIDE DEF r
  <2>6. r \in cursor + 1 .. n /\ r <= cursor + MaxChars
    BY <1>1, <1>3, <2>5
  <2> QED
    BY <2>6 DEF r
<1> QED
  BY <1>2, <1>3

\* Trimming drops spaces only, and what it keeps begins with none.
LEMMA TrimmedFacts ==
  ASSUME NEW text \in Seq(Characters), NEW from \in Nat, NEW to \in Nat, from <= to, to <= Len(text),
         NEW r, r = Trimmed(text, from, to)
  PROVE  /\ r.from \in from .. to /\ r.to \in from .. to
         /\ \A k \in from .. to - 1 : ~IsSpace(text[k + 1]) => k \in r.from .. r.to - 1
         /\ r.from < r.to => ~IsSpace(text[r.from + 1])
<1> DEFINE solid == {k \in from .. to - 1 : ~IsSpace(text[k + 1])}
<1>1. r = IF solid = {} THEN [from |-> to, to |-> to] ELSE [from |-> Min(solid), to |-> Max(solid) + 1]
  BY Zenon DEF Trimmed
<1>2. CASE solid = {}
  <2>1. r.from = to /\ r.to = to
    BY <1>1, <1>2
  <2>2. \A k \in from .. to - 1 : IsSpace(text[k + 1])
    BY <1>2
  <2> QED
    BY <2>1, <2>2
<1>3. CASE solid # {}
  <2>1. solid \in SUBSET Nat /\ solid \in SUBSET (0 .. to) /\ \A k \in solid : k \in from .. to - 1
    OBVIOUS
  <2>2. /\ Min(solid) \in solid /\ \A k \in solid : Min(solid) <= k
        /\ Max(solid) \in solid /\ \A k \in solid : k <= Max(solid)
    <3> HIDE DEF solid
    <3> QED
      BY <1>3, <2>1, MinFacts, MaxFacts
  <2>3. r.from = Min(solid) /\ r.to = Max(solid) + 1
    BY <1>1, <1>3
  <2>4. r.from \in from .. to /\ r.to \in from .. to /\ \A k \in solid : k \in r.from .. r.to - 1
    <3> DEFINE a == Min(solid)
               b == Max(solid)
    <3>1. /\ a \in from .. to - 1 /\ b \in from .. to - 1 /\ a <= b
          /\ \A k \in solid : k \in from .. to - 1 /\ a <= k /\ k <= b
      <4> HIDE DEF solid
      <4> QED
        BY <2>1, <2>2
    <3>2. r.from = a /\ r.to = b + 1
      BY <2>3
    <3> HIDE DEF solid, a, b
    <3>3. a \in from .. to /\ b + 1 \in from .. to /\ \A k \in solid : k \in a .. (b + 1) - 1
      BY <3>1
    <3> QED
      BY <3>2, <3>3
  <2>5. ~IsSpace(text[r.from + 1])
    <3>1. r.from \in solid
      BY <2>2, <2>3
    <3> QED
      BY <3>1
  <2> QED
    BY <2>4, <2>5
<1> QED
  BY <1>2, <1>3

\* A piece with more than spaces.
Worded(doc, piece) ==
    \E k \in piece.from .. piece.to - 1 : ~IsSpace(doc[piece.segment].text[k + 1])

\* Pieces of a segment from a cursor on.
CutFrom(doc, index, cursor, r) ==
    /\ r \in Seq(Pieces(doc)) /\ Ordered(r)
    /\ \A j \in 1 .. Len(r) : /\ r[j].segment = index /\ cursor <= r[j].from
                               /\ Length(r[j]) <= MaxChars /\ Worded(doc, r[j])
    /\ \A k \in cursor .. Len(doc[index].text) - 1 :
           ~IsSpace(doc[index].text[k + 1]) => <<index, k>> \in Text(r)

\* What stands where in a concatenation.
LEMMA ConcatIs ==
  ASSUME NEW Q, NEW s \in Seq(Q), NEW t \in Seq(Q)
  PROVE  /\ Len(s \o t) = Len(s) + Len(t) /\ Len(s) \in Nat /\ Len(t) \in Nat
         /\ \A i \in 1 .. Len(s) : (s \o t)[i] = s[i]
         /\ \A i \in 1 .. Len(t) : (s \o t)[Len(s) + i] = t[i]
  OBVIOUS

\* A piece, or none where there are only spaces, and those behind it.
LEMMA CutFromStep ==
  ASSUME NEW doc \in Seq(Segments), NEW index \in DOMAIN doc,
         NEW text, text = doc[index].text,
         NEW cursor \in 0 .. Len(text) - 1, NEW cut \in cursor + 1 .. Len(text),
         cut <= cursor + MaxChars,
         NEW range, range = Trimmed(text, cursor, cut),
         NEW r, CutFrom(doc, index, SkipSpace(text, cut), r)
  PROVE  CutFrom(doc, index, cursor,
                 (IF range.from < range.to
                  THEN <<[segment |-> index, from |-> range.from, to |-> range.to,
                          path |-> doc[index].path]>>
                  ELSE <<>>) \o r)
<1> DEFINE p == [segment |-> index, from |-> range.from, to |-> range.to, path |-> doc[index].path]
           head == IF range.from < range.to THEN <<p>> ELSE <<>>
           skip == SkipSpace(text, cut)
           n == Len(text)
<1>1. text \in Seq(Characters)
  <2>1. doc[index] \in Segments
    OBVIOUS
  <2> QED
    BY <2>1 DEF Segments
<1>2. /\ n \in Nat /\ cursor \in Nat /\ cut \in Nat /\ cursor < cut /\ cut <= n
      /\ index \in Nat /\ MaxChars \in Nat
  BY <1>1, ChunkingAssumption
<1>3. skip \in cut .. n /\ \A k \in cut .. skip - 1 : IsSpace(text[k + 1])
  <2>1. cut \in 0 .. Len(text)
    BY <1>2
  <2> QED
    BY <1>1, <2>1, SkipFacts
<1>4. /\ range.from \in cursor .. cut /\ range.to \in cursor .. cut
      /\ \A k \in cursor .. cut - 1 : ~IsSpace(text[k + 1]) => k \in range.from .. range.to - 1
      /\ range.from < range.to => ~IsSpace(text[range.from + 1])
  <2>1. cursor \in Nat /\ cut \in Nat /\ cursor <= cut /\ cut <= Len(text)
    BY <1>2
  <2> HIDE DEF p, head, skip, n
  <2> QED
    BY <1>1, <2>1, TrimmedFacts
<1>5. /\ r \in Seq(Pieces(doc)) /\ Ordered(r)
      /\ \A j \in 1 .. Len(r) : /\ r[j].segment = index /\ skip <= r[j].from
                                 /\ Length(r[j]) <= MaxChars /\ Worded(doc, r[j])
      /\ \A k \in skip .. n - 1 : ~IsSpace(text[k + 1]) => <<index, k>> \in Text(r)
  BY DEF CutFrom
<1> HIDE DEF skip, n
<1>6. CASE ~(range.from < range.to)
  <2>1. head \o r = r
    BY <1>5, <1>6
  <2>2. ASSUME NEW k \in cursor .. n - 1, ~IsSpace(text[k + 1])
        PROVE  <<index, k>> \in Text(r)
    <3>0. k \notin cursor .. cut - 1
      <4>1. k \notin range.from .. range.to - 1
        <5>1. range.from \in Nat /\ range.to \in Nat
          BY <1>2, <1>4
        <5> QED
          BY <1>6, <5>1
      <4> QED
        BY <1>4, <2>2, <4>1
    <3>1. k \notin cursor .. cut - 1 /\ k \notin cut .. skip - 1
      BY <1>3, <2>2, <3>0
    <3>2. k \in skip .. n - 1
      BY <1>2, <1>3, <3>1
    <3> QED
      BY <1>5, <2>2, <3>2
  <2>3. \A j \in 1 .. Len(r) : cursor <= r[j].from
    <3>1. \A j \in 1 .. Len(r) : r[j] \in Pieces(doc)
      BY <1>5
    <3>2. \A j \in 1 .. Len(r) : r[j].from \in Nat
      BY <3>1 DEF Pieces
    <3> QED
      BY <1>2, <1>3, <1>5, <3>2
  <2>4. CutFrom(doc, index, cursor, r)
    BY <1>5, <2>2, <2>3 DEF CutFrom, n
  <2> QED
    BY <2>1, <2>4
<1>7. CASE range.from < range.to
  <2>1. p \in Pieces(doc) /\ Length(p) <= MaxChars
    <3>1. doc[index].path \in Paths(doc)
      BY DEF Paths
    <3>2. p.from \in Nat /\ p.to \in Nat /\ p.from < p.to /\ p.to <= n /\ p.to - p.from <= MaxChars
      BY <1>2, <1>4, <1>7
    <3>3. p \in [segment : DOMAIN doc, from : Nat, to : Nat, path : Paths(doc)]
      BY <3>1, <3>2
    <3>4. p.to <= Len(doc[p.segment].text)
      BY <3>2 DEF n
    <3> HIDE DEF p
    <3> QED
      BY <3>2, <3>3, <3>4 DEF Pieces, Length
  <2> DEFINE one == <<p>>
  <2>2. one \in Seq(Pieces(doc)) /\ Text(one) = Spanned(p) /\ Ordered(one) /\ Len(one) = 1 /\ one[1] = p
    BY <2>1, TextOfOne
  <2>3. head = one
    BY <1>7
  <2>4. p.segment = index /\ p.from = range.from /\ p.to = range.to
    OBVIOUS
  <2> HIDE DEF one, head, p
  <2>4a. Worded(doc, p)
    <3>1. range.from \in range.from .. range.to - 1
      BY <1>2, <1>4, <1>7
    <3> QED
      BY <1>4, <1>7, <2>4, <3>1 DEF Worded
  <2>5. Before(Text(one), Text(r))
    <3> SUFFICES ASSUME NEW x \in Spanned(p), NEW y \in Text(r) PROVE Precedes(x, y)
      BY <2>2 DEF Before
    <3>1. PICK j \in 1 .. Len(r) : y \in Spanned(r[j])
      BY <1>5, TextIs
    <3>2. r[j] \in Pieces(doc) /\ r[j].segment = index /\ skip <= r[j].from
      BY <1>5
    <3>3. r[j].from \in Nat /\ r[j].to \in Nat
      BY <3>2 DEF Pieces
    <3>4. PICK a \in p.from .. p.to - 1 : x = <<index, a>>
      BY <2>4 DEF Spanned
    <3>5. PICK b \in r[j].from .. r[j].to - 1 : y = <<index, b>>
      BY <3>1, <3>2 DEF Spanned
    <3>6. a < b
      BY <1>2, <1>3, <1>4, <2>4, <3>2, <3>3
    <3> QED
      BY <3>4, <3>5, <3>6 DEF Precedes
  <2>6. /\ one \o r \in Seq(Pieces(doc)) /\ Ordered(one \o r)
        /\ Text(one \o r) = Spanned(p) \cup Text(r)
    BY <1>5, <2>2, <2>5, OrderedConcat, TextOfConcat
  <2>7. ASSUME NEW k \in cursor .. n - 1, ~IsSpace(text[k + 1])
        PROVE  <<index, k>> \in Text(one \o r)
    <3>1. CASE k \in cursor .. cut - 1
      <4>1. k \in p.from .. p.to - 1
        BY <1>4, <2>4, <2>7, <3>1
      <4>2. <<index, k>> \in Spanned(p)
        BY <2>4, <4>1 DEF Spanned
      <4> QED
        BY <2>6, <4>2
    <3>2. CASE k \notin cursor .. cut - 1
      <4>1. k \notin cut .. skip - 1
        BY <1>3, <2>7
      <4>2. k \in skip .. n - 1
        BY <1>2, <1>3, <3>2, <4>1
      <4> QED
        BY <1>5, <2>6, <2>7, <4>2
    <3> QED
      BY <3>1, <3>2
  <2>8. ASSUME NEW j \in 1 .. Len(one \o r)
        PROVE  LET q == (one \o r)[j] IN
               q.segment = index /\ cursor <= q.from /\ Length(q) <= MaxChars /\ Worded(doc, q)
    <3>1. Len(one \o r) = Len(r) + 1 /\ Len(r) \in Nat /\ (one \o r)[1] = p
      <4>1. /\ Len(one \o r) = Len(one) + Len(r) /\ Len(r) \in Nat
            /\ \A m \in 1 .. Len(one) : (one \o r)[m] = one[m]
        BY <1>5, <2>2, ConcatIs
      <4> QED
        BY <2>2, <4>1
    <3>2. CASE j = 1
      BY <1>2, <1>4, <2>1, <2>4, <2>4a, <3>1, <3>2
    <3>3. CASE j # 1
      <4>1. j - 1 \in 1 .. Len(r) /\ (one \o r)[j] = r[j - 1]
        BY <1>5, <2>2, <3>1, <3>3
      <4>2. r[j - 1].from \in Nat
        <5>1. r[j - 1] \in Pieces(doc)
          BY <1>5, <4>1
        <5> QED
          BY <5>1 DEF Pieces
      <4>3. /\ r[j - 1].segment = index /\ skip <= r[j - 1].from
            /\ Length(r[j - 1]) <= MaxChars /\ Worded(doc, r[j - 1])
        BY <1>5, <4>1
      <4>4. cursor <= r[j - 1].from
        BY <1>2, <1>3, <4>2, <4>3
      <4> QED
        BY <4>1, <4>3, <4>4
    <3> QED
      BY <3>2, <3>3
  <2>9. CutFrom(doc, index, cursor, one \o r)
    <3> DEFINE all == one \o r
    <3>1. all \in Seq(Pieces(doc)) /\ Ordered(all)
      BY <2>6
    <3>2. \A j \in 1 .. Len(all) : /\ all[j].segment = index /\ cursor <= all[j].from
                                    /\ Length(all[j]) <= MaxChars /\ Worded(doc, all[j])
      BY <2>8
    <3>3. \A k \in cursor .. Len(doc[index].text) - 1 :
              ~IsSpace(doc[index].text[k + 1]) => <<index, k>> \in Text(all)
      BY <2>7 DEF n
    <3> HIDE DEF all
    <3>4. CutFrom(doc, index, cursor, all)
      BY <3>1, <3>2, <3>3 DEF CutFrom
    <3> QED
      BY <3>4 DEF all
  <2> QED
    BY <2>3, <2>9 DEF head, p
<1> QED
  BY <1>6, <1>7

\* Cutting gets all of a segment into pieces that fit.
LEMMA CutsFacts ==
  ASSUME NEW doc \in Seq(Segments), NEW index \in DOMAIN doc
  PROVE  CutFrom(doc, index, 0, Cuts(doc[index], index))
<1> DEFINE segment == doc[index]
           text == segment.text
           n == Len(text)
           V == Seq(Pieces(doc))
           cut(c) == NextCut(text, c, segment.code)
           range(c) == Trimmed(text, c, cut(c))
           head(c) == IF range(c).from < range(c).to
                      THEN <<[segment |-> index, from |-> range(c).from, to |-> range(c).to,
                              path |-> segment.path]>>
                      ELSE <<>>
           next == [c \in 0 .. n - 1 |-> SkipSpace(text, cut(c))]
           op == [p \in (0 .. n - 1) \X V |-> head(p[1]) \o p[2]]
           W == [c \in 0 .. n |-> {r \in V : CutFrom(doc, index, c, r)}]
           Raw(f) == f = [c \in 0 .. n |-> IF c = n THEN <<>>
                                          ELSE head(c) \o f[SkipSpace(text, cut(c))]]
           pieces == CHOOSE f : Raw(f)
<1>1. text \in Seq(Characters) /\ n \in Nat
  <2>1. doc[index] \in Segments
    OBVIOUS
  <2>2. doc[index].text \in Seq(Characters)
    BY <2>1 DEF Segments
  <2> QED
    BY <2>2
<1>2. Cuts(segment, index) = pieces[0]
  BY Zenon DEF Cuts
<1>3. ASSUME NEW c \in 0 .. n - 1
      PROVE  /\ next[c] = SkipSpace(text, cut(c)) /\ next[c] \in c + 1 .. n
             /\ \A r \in V : CutFrom(doc, index, next[c], r) => CutFrom(doc, index, c, head(c) \o r)
  <2>1. cut(c) \in c + 1 .. n /\ cut(c) <= c + MaxChars
    <3> HIDE DEF text
    <3> QED
      BY <1>1, NextCutFacts
  <2>2. next[c] = SkipSpace(text, cut(c))
    OBVIOUS
  <2>3. next[c] \in c + 1 .. n
    <3> DEFINE k == cut(c)
    <3>1. k \in c + 1 .. n
      BY <2>1
    <3> HIDE DEF k, text
    <3>2. k \in 0 .. Len(text) /\ c \in Nat
      BY <1>1, <3>1
    <3>3. SkipSpace(text, k) \in k .. Len(text)
      BY <1>1, <3>2, SkipFacts
    <3>4. SkipSpace(text, k) \in c + 1 .. n
      BY <1>1, <3>1, <3>2, <3>3
    <3> QED
      BY <2>2, <3>4 DEF k
  <2>4. ASSUME NEW r, CutFrom(doc, index, SkipSpace(text, cut(c)), r)
        PROVE  CutFrom(doc, index, c, head(c) \o r)
    <3> DEFINE k == cut(c)
               g == range(c)
    <3>1. k \in c + 1 .. Len(text) /\ k <= c + MaxChars /\ text = doc[index].text /\ c \in 0 .. Len(text) - 1
      BY <2>1
    <3>2. g = Trimmed(text, c, k) /\ CutFrom(doc, index, SkipSpace(text, k), r)
      BY <2>4
    <3>3. head(c) = IF g.from < g.to
                    THEN <<[segment |-> index, from |-> g.from, to |-> g.to, path |-> doc[index].path]>>
                    ELSE <<>>
      OBVIOUS
    <3> HIDE DEF g, k, text, head
    <3>4. CutFrom(doc, index, c,
                  (IF g.from < g.to
                   THEN <<[segment |-> index, from |-> g.from, to |-> g.to, path |-> doc[index].path]>>
                   ELSE <<>>) \o r)
      BY <3>1, <3>2, CutFromStep
    <3> QED
      BY <3>3, <3>4
  <2> HIDE DEF head, next, cut
  <2> QED
    BY <2>2, <2>3, <2>4
<1> HIDE DEF head, next, cut, range, text
<1>4. ASSUME NEW c \in 0 .. n - 1, NEW r \in V
      PROVE  op[<<c, r>>] = head(c) \o r
  OBVIOUS
<1>5. Descends(n, W, <<>>, op, next)
  <2>1. <<>> \in W[n]
    <3> DEFINE none == <<>>
    <3>1. none \in V /\ Len(none) = 0 /\ Ordered(none)
      BY TextOfNone
    <3> HIDE DEF none
    <3>2. CutFrom(doc, index, n, none)
      BY <1>1, <3>1 DEF CutFrom, text
    <3>3. n \in 0 .. n
      BY <1>1
    <3> HIDE DEF n, V
    <3> QED
      BY <3>1, <3>2, <3>3 DEF none
  <2>2. ASSUME NEW c \in 0 .. n - 1, NEW r \in W[next[c]]
        PROVE  op[<<c, r>>] \in W[c]
    <3>1. next[c] \in 0 .. n /\ c \in 0 .. n
      BY <1>1, <1>3
    <3>2. r \in V /\ CutFrom(doc, index, next[c], r)
      BY <3>1
    <3>3. CutFrom(doc, index, c, head(c) \o r)
      BY <1>3, <3>2
    <3>4. head(c) \o r \in V
      BY <3>3 DEF CutFrom
    <3> HIDE DEF op
    <3> QED
      BY <1>4, <3>1, <3>2, <3>3, <3>4
  <2> HIDE DEF op, W, n
  <2> QED
    BY <1>3, <2>1, <2>2 DEF Descends
<1>6. \A c \in 0 .. n : W[c] \subseteq V
  OBVIOUS
<1>7. \E f : Raw(f)
  <2>1. PICK f : /\ f = [i \in 0 .. n |-> f[i]] /\ f[n] = <<>>
                 /\ \A i \in 0 .. n : f[i] \in W[i]
                 /\ \A i \in 0 .. n - 1 : f[i] = op[<<i, f[next[i]]>>]
    <3> HIDE DEF op, W, n
    <3> QED
      BY <1>1, <1>5, DescentExists
  <2>2. ASSUME NEW c \in 0 .. n
        PROVE  f[c] = IF c = n THEN <<>> ELSE head(c) \o f[SkipSpace(text, cut(c))]
    <3>1. CASE c = n
      BY <2>1, <3>1
    <3>2. CASE c # n
      <4>1. c \in 0 .. n - 1
        BY <1>1, <3>2
      <4>2. next[c] = SkipSpace(text, cut(c)) /\ next[c] \in 0 .. n
        BY <1>1, <1>3, <4>1
      <4>3. f[next[c]] \in V
        <5> HIDE DEF W, n, V
        <5> QED
          BY <1>6, <2>1, <4>2
      <4> HIDE DEF op, n
      <4> QED
        BY <1>4, <2>1, <3>2, <4>1, <4>2, <4>3
    <3> QED
      BY <3>1, <3>2
  <2> HIDE DEF n
  <2> QED
    BY <2>1, <2>2
<1>8. Raw(pieces)
  <2> HIDE DEF Raw
  <2> QED
    BY <1>7
<1> HIDE DEF pieces
<1>9. pieces[n] = <<>>
  BY <1>1, <1>8
<1>10. ASSUME NEW c \in 0 .. n - 1, NEW v \in W[next[c]], pieces[next[c]] = v
       PROVE  pieces[c] = op[<<c, v>>]
  <2>1. c \in 0 .. n /\ c # n /\ next[c] = SkipSpace(text, cut(c)) /\ next[c] \in 0 .. n
    BY <1>1, <1>3
  <2>2. pieces[c] = head(c) \o pieces[SkipSpace(text, cut(c))]
    <3> HIDE DEF n
    <3> QED
      BY <1>8, <2>1
  <2>3. v \in V
    <3> HIDE DEF W, n, V
    <3> QED
      BY <1>6, <2>1
  <2> HIDE DEF op, n
  <2> QED
    BY <1>4, <1>10, <2>1, <2>2, <2>3
<1>11. pieces[0] \in W[0]
  <2>1. \A c \in 0 .. n : pieces[c] \in W[c]
    <3> HIDE DEF op, W, n, Raw
    <3> QED
      BY <1>1, <1>5, <1>9, <1>10, DescentStays
  <2> HIDE DEF W, n
  <2> QED
    BY <1>1, <2>1
<1>12. CutFrom(doc, index, 0, pieces[0])
  <2>1. 0 \in 0 .. n
    BY <1>1
  <2> HIDE DEF n
  <2> QED
    BY <1>11, <2>1
<1> QED
  BY <1>2, <1>12

\* A segment in pieces that fit, however it is split.
LEMMA SplitFacts ==
  ASSUME NEW doc \in Seq(Segments), NEW index \in DOMAIN doc,
         \E k \in DOMAIN doc[index].text : ~IsSpace(doc[index].text[k])
  PROVE  CutFrom(doc, index, 0, SplitSegment(doc[index], index))
<1> DEFINE segment == doc[index]
           text == segment.text
           p == [segment |-> index, from |-> 0, to |-> Len(text), path |-> segment.path]
           one == <<p>>
<1>1. text \in Seq(Characters) /\ Len(text) \in Nat
  <2>1. doc[index] \in Segments
    OBVIOUS
  <2>2. doc[index].text \in Seq(Characters)
    BY <2>1 DEF Segments
  <2> QED
    BY <2>2
<1>2. CASE ~segment.code /\ Len(segment.text) <= MaxChars
  <2>1. SplitSegment(segment, index) = one
    BY <1>2 DEF SplitSegment
  <2>2. 0 < Len(text)
    BY <1>1
  <2>3. p \in Pieces(doc) /\ Length(p) <= MaxChars
    <3>1. doc[index].path \in Paths(doc)
      BY DEF Paths
    <3>2. p \in [segment : DOMAIN doc, from : Nat, to : Nat, path : Paths(doc)]
      BY <1>1, <3>1
    <3>3. p.from < p.to /\ p.to <= Len(doc[p.segment].text) /\ p.to - p.from = Len(text)
      BY <1>1, <2>2
    <3> HIDE DEF p, text
    <3> QED
      BY <1>2, <3>2, <3>3 DEF Pieces, Length, text
  <2>4. one \in Seq(Pieces(doc)) /\ Text(one) = Spanned(p) /\ Ordered(one) /\ Len(one) = 1 /\ one[1] = p
    BY <2>3, TextOfOne
  <2>5. p.segment = index /\ p.from = 0 /\ p.to = Len(text)
    OBVIOUS
  <2> HIDE DEF one, p
  <2>6. \A k \in 0 .. Len(text) - 1 : <<index, k>> \in Text(one)
    BY <2>4, <2>5 DEF Spanned
  <2>7. CutFrom(doc, index, 0, one)
    <3>0. Worded(doc, p)
      <4>1. PICK k \in DOMAIN text : ~IsSpace(text[k])
        OBVIOUS
      <4>2. k - 1 \in 0 .. Len(text) - 1 /\ (k - 1) + 1 = k
        BY <1>1
      <4> QED
        BY <2>5, <4>1, <4>2 DEF Worded
    <3>1. \A j \in 1 .. Len(one) : /\ one[j].segment = index /\ 0 <= one[j].from
                                    /\ Length(one[j]) <= MaxChars /\ Worded(doc, one[j])
      BY <2>3, <2>4, <2>5, <3>0
    <3> QED
      BY <2>4, <2>6, <3>1 DEF CutFrom
  <2> QED
    BY <2>1, <2>7
<1>3. CASE ~(~segment.code /\ Len(segment.text) <= MaxChars)
  <2>1. SplitSegment(segment, index) = Cuts(segment, index)
    BY <1>3 DEF SplitSegment
  <2> QED
    BY <2>1, CutsFacts
<1> QED
  BY <1>2, <1>3

\* A segment that is not blank yields a piece.
LEMMA SplitYields ==
  ASSUME NEW doc \in Seq(Segments), NEW index \in DOMAIN doc,
         \E k \in DOMAIN doc[index].text : ~IsSpace(doc[index].text[k])
  PROVE  SplitSegment(doc[index], index) # <<>>
<1> DEFINE r == SplitSegment(doc[index], index)
           none == <<>>
<1>1. CutFrom(doc, index, 0, r)
  BY SplitFacts
<1>2. PICK k \in DOMAIN doc[index].text : ~IsSpace(doc[index].text[k])
  OBVIOUS
<1>3. k - 1 \in 0 .. Len(doc[index].text) - 1 /\ (k - 1) + 1 = k
  <2>1. doc[index] \in Segments
    OBVIOUS
  <2>2. doc[index].text \in Seq(Characters)
    BY <2>1 DEF Segments
  <2> QED
    BY <2>2
<1> HIDE DEF r
<1>4. <<index, k - 1>> \in Text(r)
  BY <1>1, <1>2, <1>3 DEF CutFrom
<1>5. Text(none) = {}
  BY TextOfNone
<1> QED
  BY <1>4, <1>5 DEF r

\* No segment is blank.
Solid(doc) == \A i \in DOMAIN doc : \E k \in DOMAIN doc[i].text : ~IsSpace(doc[i].text[k])

\* The pieces of the first segments.
Splitting(doc, trace) ==
    /\ trace \in [0 .. Len(doc) -> Seq(Pieces(doc))] /\ trace[0] = <<>>
    /\ \A i \in 1 .. Len(doc) : trace[i] = trace[i - 1] \o SplitSegment(doc[i], i)

\* The source pieces are gathered segment by segment.
LEMMA SourceTrace ==
  ASSUME NEW doc \in Seq(Segments), Solid(doc)
  PROVE  \E trace : Splitting(doc, trace) /\ SourcePieces(doc) = trace[Len(doc)]
<1> DEFINE n == Len(doc)
           D == 1 .. n
           V == Seq(Pieces(doc))
           t == [i \in DOMAIN doc |-> i]
           op == [p \in D \X V |-> p[2] \o SplitSegment(doc[p[1]], p[1])]
           Raw(c) == c = [T \in SUBSET D |->
                              IF T = {} THEN <<>>
                              ELSE c[T \ {Max(T)}] \o SplitSegment(doc[t[Max(T)]], t[Max(T)])]
           c == CHOOSE c : Raw(c)
<1>0. n \in Nat
  OBVIOUS
<1>1. DOMAIN t = D /\ \A i \in D : t[i] = i
  OBVIOUS
<1>2. ASSUME NEW i \in D PROVE SplitSegment(doc[i], i) \in V
  <2>1. i \in DOMAIN doc
    OBVIOUS
  <2>2. CutFrom(doc, i, 0, SplitSegment(doc[i], i))
    BY <2>1, SplitFacts DEF Solid
  <2> QED
    BY <2>2 DEF CutFrom
<1>3. <<>> \in V
  OBVIOUS
<1>4. Foldable(n, V, <<>>, op) /\ \A i \in D, v \in V : op[<<i, v>>] = v \o SplitSegment(doc[i], i)
  <2>1. \A i \in D, v \in V : v \o SplitSegment(doc[i], i) \in V
    <3> SUFFICES ASSUME NEW i \in D, NEW v \in V PROVE v \o SplitSegment(doc[i], i) \in V
      OBVIOUS
    <3> DEFINE w == SplitSegment(doc[i], i)
    <3>1. w \in V
      BY <1>2
    <3> HIDE DEF w
    <3>2. v \o w \in V
      BY <3>1
    <3> QED
      BY <3>2 DEF w
  <2> HIDE DEF V
  <2>2. op \in [D \X V -> V]
    BY <2>1
  <2>3. \A i \in D, v \in V : op[<<i, v>>] = v \o SplitSegment(doc[i], i)
    OBVIOUS
  <2> QED
    BY <1>3, <2>2, <2>3 DEF Foldable
<1> HIDE DEF V
<1>5. \A T \in SUBSET D : T # {} => Max(T) \in T
  <2> SUFFICES ASSUME NEW T \in SUBSET D, T # {} PROVE Max(T) \in T
    OBVIOUS
  <2>1. T \in SUBSET (0 .. n)
    BY <1>0
  <2> HIDE DEF n
  <2> QED
    BY <1>0, <2>1, MaxFacts
<1>6. PICK g \in [SUBSET D -> V] : FoldsUpTo(n, op, <<>>, g)
  <2> HIDE DEF n, op
  <2> QED
    BY <1>0, <1>4, FoldExists
<1>7. Raw(g)
  <2> HIDE DEF n, op
  <2>1. ASSUME NEW T \in SUBSET D
        PROVE  g[T] = IF T = {} THEN <<>>
                      ELSE g[T \ {Max(T)}] \o SplitSegment(doc[t[Max(T)]], t[Max(T)])
    <3>1. T # {} => Max(T) \in D /\ g[T \ {Max(T)}] \in V /\ t[Max(T)] = Max(T)
      BY <1>1, <1>5
    <3> HIDE DEF t, D
    <3> QED
      BY <1>4, <1>6, <3>1 DEF FoldsUpTo, D
  <2> HIDE DEF t
  <2> QED
    BY <2>1
<1>8. Raw(c)
  <2> HIDE DEF Raw
  <2> QED
    BY <1>7
<1>9. FoldLeft(LAMBDA pieces, i : pieces \o SplitSegment(doc[i], i), <<>>, t) = c[D]
  BY <1>1, Zenon DEF FoldLeft, MapThenFoldSet
<1> HIDE DEF c
<1>10. Follows(n, V, <<>>, op, c)
  <2>1. {} \in SUBSET D
    OBVIOUS
  <2>2. ASSUME NEW i \in 1 .. n
        PROVE  c[1 .. i] = c[1 .. (i - 1)] \o SplitSegment(doc[i], i)
    <3>1. i \in Nat \ {0} /\ 1 .. i \in SUBSET D /\ 1 .. i # {}
      <4>1. i \in Nat /\ 1 <= i /\ i <= n
        BY <1>0
      <4> HIDE DEF n
      <4>2. 1 .. i \subseteq 1 .. n /\ i \in 1 .. i
        BY <1>0, <4>1
      <4> QED
        BY <4>1, <4>2
    <3>2. Max(1 .. i) = i /\ (1 .. i) \ {i} = 1 .. (i - 1) /\ t[i] = i
      BY <1>1, <3>1, MaxOfPrefix
    <3> HIDE DEF D, t
    <3> QED
      BY <1>8, <3>1, <3>2
  <2>3. c[{}] = <<>>
    BY <1>8, <2>1
  <2> HIDE DEF op, n, t, Raw
  <2>4. ASSUME NEW i \in 1 .. n, NEW v \in V, c[1 .. (i - 1)] = v
        PROVE  c[1 .. i] = op[<<i, v>>]
    BY <1>4, <2>2, <2>4
  <2> QED
    BY <2>3, <2>4 DEF Follows
<1>11. PICK trace : Passes(n, V, <<>>, op, trace) /\ c[1 .. n] = trace[n]
  <2> HIDE DEF n, op, Raw
  <2> QED
    BY <1>0, <1>4, <1>10, FoldTrace
<1>12. Splitting(doc, trace)
  <2> HIDE DEF op, n, Raw
  <2>1. trace \in [0 .. n -> V] /\ trace[0] = <<>>
    BY <1>11 DEF Passes
  <2>2. ASSUME NEW i \in 1 .. n
        PROVE  trace[i] = trace[i - 1] \o SplitSegment(doc[i], i)
    <3>1. trace[i - 1] \in V /\ trace[i] = op[<<i, trace[i - 1]>>]
      BY <1>11 DEF Passes
    <3> QED
      BY <1>4, <3>1
  <2> QED
    BY <2>1, <2>2 DEF Splitting, n, V
<1>13. SourcePieces(doc) = c[D]
  BY <1>9, Zenon DEF SourcePieces, t
<1> QED
  BY <1>11, <1>12, <1>13

\* All of the first i segments, in order, in pieces that fit.
SourceUpTo(doc, i, r) ==
    /\ r \in Seq(Pieces(doc)) /\ Ordered(r)
    /\ \A j \in 1 .. Len(r) : r[j].segment <= i /\ Length(r[j]) <= MaxChars /\ Worded(doc, r[j])
    /\ \A m \in 1 .. i : \A k \in 0 .. Len(doc[m].text) - 1 :
           ~IsSpace(doc[m].text[k + 1]) => <<m, k>> \in Text(r)

\* The pieces of one more segment come after those gathered.
LEMMA SourceStep ==
  ASSUME NEW doc \in Seq(Segments), NEW i \in 1 .. Len(doc), NEW r, SourceUpTo(doc, i - 1, r),
         NEW q, CutFrom(doc, i, 0, q)
  PROVE  SourceUpTo(doc, i, r \o q)
<1> DEFINE all == r \o q
<1>1. i \in Nat /\ r \in Seq(Pieces(doc)) /\ q \in Seq(Pieces(doc)) /\ Ordered(r) /\ Ordered(q)
  BY DEF SourceUpTo, CutFrom
<1>2. \A j \in 1 .. Len(r) : /\ r[j] \in Pieces(doc) /\ r[j].segment <= i - 1
                             /\ Length(r[j]) <= MaxChars /\ Worded(doc, r[j])
  BY <1>1 DEF SourceUpTo
<1>3. \A j \in 1 .. Len(q) : q[j].segment = i /\ Length(q[j]) <= MaxChars /\ Worded(doc, q[j])
  BY DEF CutFrom
<1>4. Before(Text(r), Text(q))
  <2> SUFFICES ASSUME NEW x \in Text(r), NEW y \in Text(q) PROVE Precedes(x, y)
    BY DEF Before
  <2>1. PICK j \in 1 .. Len(r) : x \in Spanned(r[j])
    BY <1>1, TextIs
  <2>2. PICK m \in 1 .. Len(q) : y \in Spanned(q[m])
    BY <1>1, TextIs
  <2>3. x[1] = r[j].segment /\ y[1] = i
    BY <1>3, <2>1, <2>2 DEF Spanned
  <2>4. r[j].segment \in Nat /\ r[j].segment <= i - 1
    <3>1. r[j] \in Pieces(doc) /\ r[j].segment <= i - 1
      BY <1>2
    <3> QED
      BY <3>1 DEF Pieces
  <2> QED
    BY <1>1, <2>3, <2>4 DEF Precedes
<1>5. all \in Seq(Pieces(doc)) /\ Ordered(all) /\ Text(all) = Text(r) \cup Text(q)
  BY <1>1, <1>4, OrderedConcat, TextOfConcat
<1>6. /\ Len(all) = Len(r) + Len(q) /\ Len(r) \in Nat /\ Len(q) \in Nat
      /\ \A j \in 1 .. Len(r) : all[j] = r[j]
      /\ \A j \in 1 .. Len(q) : all[Len(r) + j] = q[j]
  BY <1>1, ConcatIs
<1> HIDE DEF all
<1>7. ASSUME NEW j \in 1 .. Len(all)
      PROVE  all[j].segment <= i /\ Length(all[j]) <= MaxChars /\ Worded(doc, all[j])
  <2>1. CASE j <= Len(r)
    <3>1. j \in 1 .. Len(r) /\ all[j] = r[j]
      BY <1>6, <2>1
    <3>2. /\ r[j].segment \in Nat /\ r[j].segment <= i - 1
          /\ Length(r[j]) <= MaxChars /\ Worded(doc, r[j])
      <4>1. /\ r[j] \in Pieces(doc) /\ r[j].segment <= i - 1
            /\ Length(r[j]) <= MaxChars /\ Worded(doc, r[j])
        BY <1>2, <3>1
      <4> QED
        BY <4>1 DEF Pieces
    <3> QED
      BY <1>1, <3>1, <3>2
  <2>2. CASE ~(j <= Len(r))
    <3>1. j - Len(r) \in 1 .. Len(q) /\ Len(r) + (j - Len(r)) = j
      BY <1>6, <2>2
    <3>2. all[j] = q[j - Len(r)]
      BY <1>6, <3>1
    <3> QED
      BY <1>1, <1>3, <3>1, <3>2
  <2> QED
    BY <2>1, <2>2
<1>8. ASSUME NEW m \in 1 .. i, NEW k \in 0 .. Len(doc[m].text) - 1, ~IsSpace(doc[m].text[k + 1])
      PROVE  <<m, k>> \in Text(all)
  <2>1. CASE m = i
    BY <1>5, <1>8, <2>1 DEF CutFrom
  <2>2. CASE m # i
    <3>1. m \in 1 .. i - 1
      BY <1>1, <2>2
    <3> QED
      BY <1>5, <1>8, <3>1 DEF SourceUpTo
  <2> QED
    BY <2>1, <2>2
<1>9. SourceUpTo(doc, i, all)
  BY <1>5, <1>7, <1>8 DEF SourceUpTo
<1> QED
  BY <1>9 DEF all

\* The source pieces are in order, fit a chunk and hold every word.
LEMMA SourceFacts ==
  ASSUME NEW doc \in Seq(Segments), Solid(doc)
  PROVE  SourceUpTo(doc, Len(doc), SourcePieces(doc))
<1> DEFINE n == Len(doc)
<1>0. n \in Nat
  OBVIOUS
<1>1. PICK trace : Splitting(doc, trace) /\ SourcePieces(doc) = trace[n]
  BY SourceTrace
<1> DEFINE F == {i \in 0 .. n : ~SourceUpTo(doc, i, trace[i])}
<1>2. F = {}
  <2> SUFFICES ASSUME F # {} PROVE FALSE
    OBVIOUS
  <2>1. PICK i \in F : \A m \in F : i <= m
    <3>1. F \in SUBSET Nat
      OBVIOUS
    <3> HIDE DEF F
    <3> QED
      BY <3>1, LeastNumber
  <2>2. i \in 0 .. n /\ ~SourceUpTo(doc, i, trace[i])
    OBVIOUS
  <2>3. i # 0
    <3> SUFFICES ASSUME i = 0 PROVE FALSE
      OBVIOUS
    <3> DEFINE none == <<>>
    <3>1. none \in Seq(Pieces(doc)) /\ Len(none) = 0 /\ Ordered(none)
      BY TextOfNone
    <3>2. trace[0] = none
      BY <1>1 DEF Splitting
    <3> HIDE DEF none
    <3>3. 1 .. 0 = {}
      OBVIOUS
    <3>4. SourceUpTo(doc, 0, none)
      BY <3>1, <3>3 DEF SourceUpTo
    <3> QED
      BY <2>2, <3>2, <3>4
  <2>4. i - 1 \in 0 .. n /\ i \in 1 .. n /\ ~(i <= i - 1)
    BY <1>0, <2>2, <2>3
  <2>5. SourceUpTo(doc, i - 1, trace[i - 1])
    <3>1. i - 1 \notin F
      <4> HIDE DEF F
      <4> QED
        BY <2>1, <2>4
    <3> QED
      BY <2>4, <3>1
  <2>6. CutFrom(doc, i, 0, SplitSegment(doc[i], i))
    <3>1. i \in DOMAIN doc
      BY <2>4
    <3> QED
      BY <3>1, SplitFacts DEF Solid
  <2>7. trace[i] = trace[i - 1] \o SplitSegment(doc[i], i)
    BY <1>1, <2>4 DEF Splitting
  <2>8. SourceUpTo(doc, i, trace[i - 1] \o SplitSegment(doc[i], i))
    BY <2>4, <2>5, <2>6, SourceStep
  <2> QED
    BY <2>2, <2>7, <2>8
<1>3. SourceUpTo(doc, n, trace[n])
  <2>1. n \in 0 .. n
    BY <1>0
  <2> HIDE DEF n
  <2> QED
    BY <1>2, <2>1
<1> QED
  BY <1>1, <1>3

-----------------------------------------------------------------------------
(* Packing pieces into chunks.                                             *)

\* Chunks that are finished and the one being packed.
Packings(doc) == [done : Seq(Seq(Pieces(doc))), current : Seq(Pieces(doc))]

\* A fitted overlap is one of pieces again.
LEMMA FittedTyped ==
  ASSUME NEW Q, NEW o \in Seq(Q), NEW piece
  PROVE  Fitted(o, piece) \in Seq(Q)
<1> DEFINE rest(k) == SubSeq(o, k, Len(o))
           fits == {k \in DOMAIN o : Rendered(Append(rest(k), piece)) <= MaxChars}
           f == Fitted(o, piece)
<1>1. f = IF fits = {} THEN <<>> ELSE rest(Min(fits))
  BY Zenon DEF Fitted
<1>2. fits \in SUBSET (1 .. Len(o)) /\ fits \in SUBSET Nat
  OBVIOUS
<1>3. \A k \in 1 .. Len(o) : rest(k) \in Seq(Q)
  OBVIOUS
<1> HIDE DEF fits, rest, f
<1>4. CASE fits = {}
  <2>1. <<>> \in Seq(Q)
    OBVIOUS
  <2>2. f \in Seq(Q)
    BY <1>1, <1>4, <2>1
  <2> QED
    BY <2>2 DEF f
<1>5. CASE fits # {}
  <2>1. Min(fits) \in fits
    BY <1>2, <1>5, MinFacts
  <2>2. f \in Seq(Q)
    BY <1>1, <1>2, <1>3, <1>5, <2>1
  <2> QED
    BY <2>2 DEF f
<1> QED
  BY <1>4, <1>5

\* What becomes of a piece.
Packs(doc, acc, piece, r) ==
    \/ acc.current = <<>> /\ r = [done |-> acc.done, current |-> <<piece>>]
    \/ /\ acc.current # <<>> /\ MustEnd(acc.current, piece)
       /\ r = [done |-> Append(acc.done, acc.current), current |-> <<piece>>]
    \/ /\ acc.current # <<>> /\ r = [done |-> acc.done, current |-> Append(acc.current, piece)]
       /\ Rendered(Append(acc.current, piece)) <= MaxChars
    \/ /\ acc.current # <<>> /\ MustEnd(acc.current, piece)
       /\ ~(Rendered(Append(acc.current, piece)) <= TargetChars)
       /\ r = [done |-> Append(acc.done, acc.current),
               current |-> Append(Fitted(Overlap(doc, acc.current, piece.path), piece), piece)]

\* A piece begins a chunk, is added to the current one, or follows an overlap.
LEMMA PackCases ==
  ASSUME NEW doc \in Seq(Segments), NEW acc \in Packings(doc), NEW piece \in Pieces(doc),
         NEW r, r = Pack(doc, acc, piece)
  PROVE  Packs(doc, acc, piece, r)
<1> DEFINE current == acc.current
           more == Append(current, piece)
           size == Rendered(more)
<1>1. /\ current \in Seq(Pieces(doc))
      /\ acc = [done |-> acc.done, current |-> current]
  BY DEF Packings
<1>2. size \in Nat /\ Rendered(current) \in Nat
  <2>1. more \in Seq(Pieces(doc))
    BY <1>1
  <2> HIDE DEF more, current
  <2> QED
    BY <1>1, <2>1, SizeFacts
<1>3. r = IF current = <<>> THEN [acc EXCEPT !.current = <<piece>>]
          ELSE IF RequiresBreak(current, piece)
          THEN [done |-> Append(acc.done, current), current |-> <<piece>>]
          ELSE IF size <= TargetChars \/ (size <= MaxChars /\ Rendered(current) < MinChunkChars)
          THEN [acc EXCEPT !.current = Append(@, piece)]
          ELSE [done |-> Append(acc.done, current),
                current |-> Append(Fitted(Overlap(doc, current, piece.path), piece), piece)]
  BY DEF Pack
<1>4. /\ [acc EXCEPT !.current = <<piece>>] = [done |-> acc.done, current |-> <<piece>>]
      /\ [acc EXCEPT !.current = Append(@, piece)] = [done |-> acc.done, current |-> more]
  <2>1. \A c : [acc EXCEPT !.current = c] = [done |-> acc.done, current |-> c]
    <3> SUFFICES ASSUME NEW c PROVE [acc EXCEPT !.current = c] = [done |-> acc.done, current |-> c]
      OBVIOUS
    <3>1. DOMAIN acc = {"done", "current"} /\ acc = [x \in {"done", "current"} |-> acc[x]]
      BY DEF Packings
    <3> QED
      BY <3>1
  <2> QED
    BY <2>1, Zenon
<1>5. TargetChars \in Nat /\ MaxChars \in Nat /\ MinChunkChars \in Nat /\ TargetChars <= MaxChars
  BY ChunkingAssumption
<1>5a. MustEnd(current, piece) <=> (\/ RequiresBreak(current, piece)
                                   \/ size > MaxChars
                                   \/ (size > TargetChars /\ Rendered(current) >= MinChunkChars))
  BY DEF MustEnd
<1>6. CASE current = <<>>
  BY <1>3, <1>4, <1>6 DEF Packs
<1>7. CASE current # <<>> /\ RequiresBreak(current, piece)
  BY <1>3, <1>5a, <1>7 DEF Packs
<1>8. CASE current # <<>> /\ ~RequiresBreak(current, piece)
           /\ (size <= TargetChars \/ (size <= MaxChars /\ Rendered(current) < MinChunkChars))
  <2>1. size <= MaxChars
    BY <1>2, <1>5, <1>8
  <2>2. r = [done |-> acc.done, current |-> more]
    BY <1>3, <1>4, <1>8
  <2> QED
    BY <1>8, <2>1, <2>2 DEF Packs
<1>9. CASE current # <<>> /\ ~RequiresBreak(current, piece)
           /\ ~(size <= TargetChars \/ (size <= MaxChars /\ Rendered(current) < MinChunkChars))
  <2>1. ~(size <= TargetChars) /\ MustEnd(current, piece)
    <3> HIDE DEF current, size
    <3> QED
      BY <1>2, <1>5, <1>5a, <1>9
  <2> QED
    BY <1>3, <1>9, <2>1 DEF Packs
<1> QED
  BY <1>6, <1>7, <1>8, <1>9

\* Packing a piece yields chunks of pieces.
LEMMA PackTyped ==
  ASSUME NEW doc \in Seq(Segments), NEW acc \in Packings(doc), NEW piece \in Pieces(doc)
  PROVE  Pack(doc, acc, piece) \in Packings(doc)
<1> DEFINE r == Pack(doc, acc, piece)
           Q == Pieces(doc)
           current == acc.current
           done == acc.done
           one == <<piece>>
           kept == Fitted(Overlap(doc, current, piece.path), piece)
<1>1. done \in Seq(Seq(Q)) /\ current \in Seq(Q)
  BY DEF Packings
<1>2. Packs(doc, acc, piece, r)
  BY PackCases
<1>3. one \in Seq(Q)
  OBVIOUS
<1>4. kept \in Seq(Q)
  <2> DEFINE o == Overlap(doc, current, piece.path)
  <2>1. PICK trace : Carrying(doc, current, piece.path, trace) /\ o = trace[Len(current)].kept
    BY <1>1, OverlapTrace
  <2>2. Len(current) \in 0 .. Len(current)
    BY <1>1
  <2>3. trace[Len(current)] \in Carried(doc)
    BY <2>1, <2>2 DEF Carrying
  <2>4. o \in Seq(Q)
    BY <2>1, <2>3 DEF Carried
  <2> HIDE DEF o, Q
  <2>5. Fitted(o, piece) \in Seq(Q)
    BY <2>4, FittedTyped
  <2> QED
    BY <2>5 DEF o
<1> DEFINE all == Seq(Q)
<1>5. \A d \in Seq(all), c \in all : [done |-> d, current |-> c] \in Packings(doc) /\ Append(d, c) \in Seq(all)
  BY DEF Packings
<1>6. \A c \in all : Append(c, piece) \in all
  OBVIOUS
<1> HIDE DEF one, kept, all
<1>7. done \in Seq(all) /\ current \in all /\ one \in all /\ kept \in all
  BY <1>1, <1>3, <1>4 DEF all
<1>8. \/ r = [done |-> done, current |-> one]
      \/ r = [done |-> Append(done, current), current |-> one]
      \/ r = [done |-> done, current |-> Append(current, piece)]
      \/ r = [done |-> Append(done, current), current |-> Append(kept, piece)]
  BY <1>2 DEF Packs, one, kept
<1> HIDE DEF r, done, current, Q
<1>9. r \in Packings(doc)
  BY <1>5, <1>6, <1>7, <1>8
<1> QED
  BY <1>9 DEF r

\* The chunks made of the first pieces.
Packing(doc, sp, trace) ==
    /\ trace \in [0 .. Len(sp) -> Packings(doc)] /\ trace[0] = [done |-> <<>>, current |-> <<>>]
    /\ \A i \in 1 .. Len(sp) : trace[i] = Pack(doc, trace[i - 1], sp[i])

\* The chunks are packed piece by piece.
LEMMA PackTrace ==
  ASSUME NEW doc \in Seq(Segments), NEW s, s = SourcePieces(doc), s \in Seq(Pieces(doc))
  PROVE  \E trace : Packing(doc, s, trace)
                    /\ Chunked(doc) = Append(trace[Len(s)].done, trace[Len(s)].current)
<1> DEFINE n == Len(s)
           D == 1 .. n
           V == Packings(doc)
           base == [done |-> <<>>, current |-> <<>>]
           op == [p \in D \X V |-> Pack(doc, p[2], s[p[1]])]
           Raw(c) == c = [T \in SUBSET D |-> IF T = {} THEN base
                                            ELSE Pack(doc, c[T \ {Max(T)}], s[Max(T)])]
           c == CHOOSE c : Raw(c)
<1>0. n \in Nat
  OBVIOUS
<1>1. DOMAIN s = D /\ \A i \in D : s[i] \in Pieces(doc)
  OBVIOUS
<1>2. base \in V
  <2>1. <<>> \in Seq(Seq(Pieces(doc))) /\ <<>> \in Seq(Pieces(doc))
    OBVIOUS
  <2> QED
    BY <2>1 DEF Packings
<1>3. \A i \in D, v \in V : Pack(doc, v, s[i]) \in V
  BY <1>1, PackTyped
<1> HIDE DEF V, base
<1>4. Foldable(n, V, base, op) /\ \A i \in D, v \in V : op[<<i, v>>] = Pack(doc, v, s[i])
  <2>1. op \in [D \X V -> V]
    BY <1>3
  <2> QED
    BY <1>2, <2>1 DEF Foldable
<1>5. \A T \in SUBSET D : T # {} => Max(T) \in T
  <2> SUFFICES ASSUME NEW T \in SUBSET D, T # {} PROVE Max(T) \in T
    OBVIOUS
  <2>1. T \in SUBSET (0 .. n)
    BY <1>0
  <2> HIDE DEF n
  <2> QED
    BY <1>0, <2>1, MaxFacts
<1>6. PICK g \in [SUBSET D -> V] : FoldsUpTo(n, op, base, g)
  <2> HIDE DEF n, op
  <2> QED
    BY <1>0, <1>4, FoldExists
<1>7. Raw(g)
  <2> HIDE DEF n, op
  <2>1. ASSUME NEW T \in SUBSET D
        PROVE  g[T] = IF T = {} THEN base ELSE Pack(doc, g[T \ {Max(T)}], s[Max(T)])
    <3>1. T # {} => Max(T) \in D /\ g[T \ {Max(T)}] \in V
      BY <1>5
    <3> QED
      BY <1>4, <1>6, <3>1 DEF FoldsUpTo
  <2> QED
    BY <2>1
<1>8. Raw(c)
  <2> HIDE DEF Raw
  <2> QED
    BY <1>7
<1>9. FoldLeft(LAMBDA a, p : Pack(doc, a, p), base, s) = c[D]
  BY <1>1, Zenon DEF FoldLeft, MapThenFoldSet
<1> HIDE DEF c
<1>10. Follows(n, V, base, op, c)
  <2>1. {} \in SUBSET D
    OBVIOUS
  <2>2. ASSUME NEW i \in 1 .. n
        PROVE  c[1 .. i] = Pack(doc, c[1 .. (i - 1)], s[i])
    <3>1. i \in Nat \ {0} /\ 1 .. i \in SUBSET D /\ 1 .. i # {}
      <4>1. i \in Nat /\ 1 <= i /\ i <= n
        BY <1>0
      <4> HIDE DEF n
      <4>2. 1 .. i \subseteq 1 .. n /\ i \in 1 .. i
        BY <1>0, <4>1
      <4> QED
        BY <4>1, <4>2
    <3>2. Max(1 .. i) = i /\ (1 .. i) \ {i} = 1 .. (i - 1)
      BY <3>1, MaxOfPrefix
    <3> HIDE DEF D
    <3> QED
      BY <1>8, <3>1, <3>2
  <2>3. c[{}] = base
    BY <1>8, <2>1
  <2> HIDE DEF op, n, Raw
  <2>4. ASSUME NEW i \in 1 .. n, NEW v \in V, c[1 .. (i - 1)] = v
        PROVE  c[1 .. i] = op[<<i, v>>]
    BY <1>4, <2>2, <2>4
  <2> QED
    BY <2>3, <2>4 DEF Follows
<1>11. PICK trace : Passes(n, V, base, op, trace) /\ c[1 .. n] = trace[n]
  <2> HIDE DEF n, op, Raw
  <2> QED
    BY <1>0, <1>4, <1>10, FoldTrace
<1>12. Packing(doc, s, trace)
  <2> HIDE DEF op, n, Raw
  <2>1. trace \in [0 .. n -> V] /\ trace[0] = base
    BY <1>11 DEF Passes
  <2>2. ASSUME NEW i \in 1 .. n
        PROVE  trace[i] = Pack(doc, trace[i - 1], s[i])
    <3>1. trace[i - 1] \in V /\ trace[i] = op[<<i, trace[i - 1]>>]
      BY <1>11 DEF Passes
    <3> QED
      BY <1>4, <3>1
  <2> QED
    BY <2>1, <2>2 DEF Packing, n, V, base
<1>13. Chunked(doc) = Append(c[D].done, c[D].current)
  <2> DEFINE fold == FoldLeft(LAMBDA a, p : Pack(doc, a, p), [done |-> <<>>, current |-> <<>>], SourcePieces(doc))
  <2>1. Chunked(doc) = Append(fold.done, fold.current)
    BY Zenon DEF Chunked
  <2>2. fold = c[D]
    BY <1>9 DEF base
  <2> QED
    BY <2>1, <2>2
<1> QED
  BY <1>11, <1>12, <1>13

\* The text up to piece j.
UpTo(s, j) == UNION {Spanned(s[k]) : k \in 1 .. j}

\* How chunk n goes on from those before it: with the first h pieces it
\* repeats the end of the last one, which had to end; the others are new.
Linked(chunking, n, h) ==
    /\ h \in 0 .. Len(chunking[n]) - 1
    /\ Before(Earlier(chunking, n), After(chunking[n], h))
    /\ n # 1 => MustEnd(chunking[n - 1], chunking[n][h + 1])
    /\ h # 0 => /\ n # 1
                /\ EndOf(UpTo(chunking[n], h), Text(chunking[n - 1]))
                /\ IsFiniteSet(UpTo(chunking[n], h)) /\ Cardinality(UpTo(chunking[n], h)) <= OverlapChars
                /\ \A j \in 1 .. h : chunking[n][j].path = chunking[n][h + 1].path
                /\ ~(Rendered(Append(chunking[n - 1], chunking[n][h + 1])) <= TargetChars)

\* A chunk that is in form, linked to those before it.
WellMade(doc, chunking, n) ==
    /\ chunking[n] \in Seq(Pieces(doc)) /\ chunking[n] # <<>> /\ Ordered(chunking[n])
    /\ Rendered(chunking[n]) <= MaxChars
    /\ \E h : Linked(chunking, n, h) /\ Worded(doc, chunking[n][h + 1])

\* The chunks hold the text of the first k pieces.
MadeOf(doc, sp, k, chunking) ==
    /\ chunking \in Seq(Seq(Pieces(doc))) /\ chunking # <<>>
    /\ \A n \in 1 .. Len(chunking) : WellMade(doc, chunking, n)
    /\ Earlier(chunking, Len(chunking) + 1) = UpTo(sp, k)

\* Text before and behind a place in a sequence of pieces.
LEMMA PartsOfText ==
  ASSUME NEW Q, NEW s \in Seq(Q), NEW h \in 0 .. Len(s)
  PROVE  /\ Text(s) = UpTo(s, h) \cup After(s, h)
         /\ UpTo(s, Len(s)) = Text(s) /\ After(s, Len(s)) = {} /\ UpTo(s, 0) = {}
         /\ \A p \in Q : /\ UpTo(Append(s, p), h) = UpTo(s, h)
                         /\ After(Append(s, p), h) = After(s, h) \cup Spanned(p)
<1>1. Len(s) \in Nat /\ h \in Nat /\ h <= Len(s)
  OBVIOUS
<1>2. Text(s) = UpTo(s, Len(s))
  <2>1. \A x : x \in Text(s) <=> \E i \in 1 .. Len(s) : x \in Spanned(s[i])
    BY TextIs
  <2> QED
    BY <2>1 DEF UpTo
<1>3. 1 .. Len(s) = (1 .. h) \cup (h + 1 .. Len(s)) /\ Len(s) + 1 .. Len(s) = {} /\ 1 .. 0 = {}
  BY <1>1
<1>4. UpTo(s, Len(s)) = UpTo(s, h) \cup After(s, h)
  BY <1>3 DEF UpTo, After
<1>5. After(s, Len(s)) = {} /\ UpTo(s, 0) = {}
  BY <1>3 DEF UpTo, After
<1>6. ASSUME NEW p \in Q
      PROVE  /\ UpTo(Append(s, p), h) = UpTo(s, h)
             /\ After(Append(s, p), h) = After(s, h) \cup Spanned(p)
  <2> DEFINE t == Append(s, p)
  <2>1. Len(t) = Len(s) + 1 /\ t[Len(s) + 1] = p /\ \A i \in 1 .. Len(s) : t[i] = s[i]
    OBVIOUS
  <2> HIDE DEF t
  <2>2. h + 1 .. Len(t) = (h + 1 .. Len(s)) \cup {Len(s) + 1}
    BY <1>1, <2>1
  <2>3. \A i \in 1 .. h : t[i] = s[i]
    BY <1>1, <2>1
  <2>4. \A i \in h + 1 .. Len(s) : t[i] = s[i]
    BY <1>1, <2>1
  <2>5. UpTo(t, h) = UpTo(s, h)
    BY <2>3 DEF UpTo
  <2>6. After(t, h) = After(s, h) \cup Spanned(p)
    BY <2>1, <2>2, <2>4 DEF After
  <2> QED
    BY <2>5, <2>6 DEF t
<1> QED
  BY <1>2, <1>4, <1>5, <1>6

\* A chunk depends on those before it alone.
LEMMA WellMadeLocally ==
  ASSUME NEW doc, NEW ch, NEW other, NEW n \in Nat \ {0}, \A m \in 1 .. n : ch[m] = other[m]
  PROVE  /\ Earlier(ch, n) = Earlier(other, n) /\ Earlier(ch, n + 1) = Earlier(other, n + 1)
         /\ \A m \in 1 .. n : WellMade(doc, ch, m) => WellMade(doc, other, m)
<1>1. ASSUME NEW m \in 1 .. n + 1 PROVE Earlier(ch, m) = Earlier(other, m)
  <2>1. \A l \in 1 .. m - 1 : l \in 1 .. n
    OBVIOUS
  <2>2. \A l \in 1 .. m - 1 : ch[l] = other[l]
    BY <2>1
  <2> QED
    BY <2>2 DEF Earlier
<1>2. ASSUME NEW m \in 1 .. n, WellMade(doc, ch, m) PROVE WellMade(doc, other, m)
  <2>1. ch[m] = other[m] /\ Earlier(ch, m) = Earlier(other, m)
    BY <1>1
  <2>2. m # 1 => ch[m - 1] = other[m - 1]
    <3>1. m # 1 => m - 1 \in 1 .. n
      OBVIOUS
    <3> QED
      BY <3>1
  <2>3. \A h : Linked(ch, m, h) => Linked(other, m, h)
    BY <2>1, <2>2 DEF Linked
  <2> QED
    BY <1>2, <2>1, <2>3 DEF WellMade
<1>3. n \in 1 .. n + 1 /\ n + 1 \in 1 .. n + 1
  OBVIOUS
<1> QED
  BY <1>1, <1>2, <1>3

\* What stands where in a sequence with one more member.
LEMMA AppendIs ==
  ASSUME NEW Q, NEW s \in Seq(Q), NEW p \in Q
  PROVE  /\ Append(s, p) \in Seq(Q) /\ Append(s, p) # <<>>
         /\ Len(Append(s, p)) = Len(s) + 1 /\ Len(s) \in Nat
         /\ Append(s, p)[Len(s) + 1] = p /\ \A i \in 1 .. Len(s) : Append(s, p)[i] = s[i]
  OBVIOUS

\* The text of the first n chunks.
LEMMA EarlierWith ==
  ASSUME NEW ch, NEW n \in Nat \ {0}
  PROVE  Earlier(ch, n + 1) = Earlier(ch, n) \cup Text(ch[n])
<1>1. 1 .. (n + 1) - 1 = (1 .. n - 1) \cup {n}
  OBVIOUS
<1> QED
  BY <1>1 DEF Earlier

\* The source pieces so far come before the next one.
LEMMA NextPiece ==
  ASSUME NEW doc \in Seq(Segments), NEW sp \in Seq(Pieces(doc)), Ordered(sp), NEW k \in 1 .. Len(sp)
  PROVE  /\ sp[k] \in Pieces(doc) /\ Before(UpTo(sp, k - 1), Spanned(sp[k]))
         /\ UpTo(sp, k) = UpTo(sp, k - 1) \cup Spanned(sp[k])
<1>1. \A i \in 1 .. k - 1 : i \in 1 .. Len(sp) /\ i < k
  OBVIOUS
<1>2. 1 .. k = (1 .. k - 1) \cup {k}
  OBVIOUS
<1>3. sp[k] \in Pieces(doc)
  OBVIOUS
<1>4. Before(UpTo(sp, k - 1), Spanned(sp[k]))
  BY <1>1 DEF Ordered, Before, UpTo
<1>5. UpTo(sp, k) = UpTo(sp, k - 1) \cup Spanned(sp[k])
  BY <1>2 DEF UpTo
<1> QED
  BY <1>3, <1>4, <1>5

\* A piece is put into the last chunk.
LEMMA GrowLast ==
  ASSUME NEW doc \in Seq(Segments), NEW sp \in Seq(Pieces(doc)), Ordered(sp), NEW k \in 1 .. Len(sp),
         NEW done \in Seq(Seq(Pieces(doc))), NEW current \in Seq(Pieces(doc)),
         MadeOf(doc, sp, k - 1, Append(done, current)),
         Rendered(Append(current, sp[k])) <= MaxChars
  PROVE  MadeOf(doc, sp, k, Append(done, Append(current, sp[k])))
<1> DEFINE Q == Pieces(doc)
           p == sp[k]
           more == Append(current, p)
           ch == Append(done, current)
           new == Append(done, more)
           n == Len(done)
           m == n + 1
<1>1. p \in Q /\ Before(UpTo(sp, k - 1), Spanned(p)) /\ UpTo(sp, k) = UpTo(sp, k - 1) \cup Spanned(p)
  BY NextPiece
<1> HIDE DEF p, Q
<1>2. /\ more \in Seq(Q) /\ more # <<>> /\ Len(more) = Len(current) + 1 /\ Len(current) \in Nat
      /\ more[Len(current) + 1] = p /\ \A i \in 1 .. Len(current) : more[i] = current[i]
  <2>0. p \in Q
    BY <1>1
  <2>1. current \in Seq(Q)
    BY DEF Q
  <2>2. /\ Append(current, p) \in Seq(Q) /\ Append(current, p) # <<>>
        /\ Len(Append(current, p)) = Len(current) + 1 /\ Len(current) \in Nat
        /\ Append(current, p)[Len(current) + 1] = p
        /\ \A i \in 1 .. Len(current) : Append(current, p)[i] = current[i]
    BY <2>0, <2>1, AppendIs
  <2> QED
    BY <2>2
<1>3. /\ ch \in Seq(Seq(Q)) /\ Len(ch) = m /\ n \in Nat
      /\ ch[m] = current /\ \A i \in 1 .. n : ch[i] = done[i]
  <2> DEFINE QQ == Seq(Pieces(doc))
  <2>1. current \in QQ /\ done \in Seq(QQ)
    OBVIOUS
  <2> HIDE DEF QQ
  <2>2. /\ Append(done, current) \in Seq(QQ)
        /\ Len(Append(done, current)) = Len(done) + 1 /\ Len(done) \in Nat
        /\ Append(done, current)[Len(done) + 1] = current
        /\ \A i \in 1 .. Len(done) : Append(done, current)[i] = done[i]
    BY <2>1, AppendIs
  <2> QED
    BY <2>2 DEF QQ, Q
<1>4. /\ new \in Seq(Seq(Q)) /\ new # <<>> /\ Len(new) = m
      /\ new[m] = more /\ \A i \in 1 .. n : new[i] = done[i]
  <2> DEFINE QQ == Seq(Pieces(doc))
  <2>1. more \in QQ /\ done \in Seq(QQ)
    BY <1>2 DEF Q
  <2> HIDE DEF more, QQ
  <2>2. /\ Append(done, more) \in Seq(QQ) /\ Append(done, more) # <<>>
        /\ Len(Append(done, more)) = Len(done) + 1
        /\ Append(done, more)[Len(done) + 1] = more
        /\ \A i \in 1 .. Len(done) : Append(done, more)[i] = done[i]
    BY <2>1, AppendIs
  <2> QED
    BY <2>2 DEF QQ, Q
<1> HIDE DEF more, new, ch, n
<1>5. /\ \A i \in 1 .. m : WellMade(doc, ch, i)
      /\ Earlier(ch, m + 1) = UpTo(sp, k - 1)
  BY <1>3 DEF MadeOf, ch, p
<1>6. Earlier(ch, m) = Earlier(new, m) /\ \A i \in 1 .. n : WellMade(doc, new, i) /\ ch[i] = new[i]
  <2>1. \A i \in 1 .. n : ch[i] = new[i]
    BY <1>3, <1>4
  <2>2. CASE n = 0
    <3>1. 1 .. n = {} /\ 1 .. m - 1 = {}
      BY <2>2
    <3> QED
      BY <3>1 DEF Earlier
  <2>3. CASE n # 0
    <3>1. n \in Nat \ {0} /\ \A i \in 1 .. n : i \in 1 .. m
      BY <1>3, <2>3
    <3> QED
      BY <1>5, <2>1, <3>1, WellMadeLocally
  <2> QED
    BY <2>2, <2>3
<1>7. m \in Nat \ {0} /\ m \in 1 .. m
  BY <1>3
<1>8. /\ current # <<>> /\ Ordered(current)
      /\ \E h : Linked(ch, m, h) /\ Worded(doc, current[h + 1])
  BY <1>3, <1>5, <1>7 DEF WellMade
<1>9. Earlier(ch, m) \subseteq UpTo(sp, k - 1) /\ Text(current) \subseteq UpTo(sp, k - 1)
  <2>1. Earlier(ch, m + 1) = Earlier(ch, m) \cup Text(ch[m])
    BY <1>7, EarlierWith
  <2> QED
    BY <1>3, <1>5, <2>1
<1>10. /\ Ordered(more) /\ Text(more) = Text(current) \cup Spanned(p)
  <2>1. Before(Text(current), Spanned(p))
    BY <1>1, <1>9 DEF Before
  <2> QED
    BY <1>1, <1>8, <2>1, OrderedAppend DEF more, Q
<1>11. \E h : Linked(new, m, h) /\ Worded(doc, more[h + 1])
  <2>1. PICK h : Linked(ch, m, h) /\ Worded(doc, current[h + 1])
    BY <1>8
  <2>2. h \in 0 .. Len(current) - 1 /\ Before(Earlier(ch, m), After(current, h))
    BY <1>3, <2>1 DEF Linked
  <2>3. h \in 0 .. Len(current) /\ h + 1 \in 1 .. Len(current) /\ h \in 0 .. Len(more) - 1
    BY <1>2, <2>2
  <2>4. UpTo(more, h) = UpTo(current, h) /\ After(more, h) = After(current, h) \cup Spanned(p)
    BY <1>1, <2>3, PartsOfText DEF more, Q
  <2>5. Before(Earlier(new, m), After(more, h))
    BY <1>1, <1>6, <1>9, <2>2, <2>4 DEF Before
  <2>6. ASSUME h # 0
        PROVE  /\ m # 1
               /\ EndOf(UpTo(more, h), Text(new[m - 1]))
               /\ IsFiniteSet(UpTo(more, h)) /\ Cardinality(UpTo(more, h)) <= OverlapChars
               /\ \A j \in 1 .. h : more[j].path = more[h + 1].path
               /\ ~(Rendered(Append(new[m - 1], more[h + 1])) <= TargetChars)
    <3>1. /\ m # 1
          /\ EndOf(UpTo(current, h), Text(ch[m - 1]))
          /\ IsFiniteSet(UpTo(current, h)) /\ Cardinality(UpTo(current, h)) <= OverlapChars
          /\ \A j \in 1 .. h : current[j].path = current[h + 1].path
          /\ ~(Rendered(Append(ch[m - 1], current[h + 1])) <= TargetChars)
      BY <1>3, <2>1, <2>6 DEF Linked
    <3>2. m - 1 \in 1 .. n
      BY <1>3, <3>1
    <3>3. ch[m - 1] = new[m - 1]
      BY <1>6, <3>2
    <3>4. more[h + 1] = current[h + 1] /\ \A j \in 1 .. h : more[j] = current[j]
      BY <1>2, <2>3
    <3> QED
      BY <2>4, <3>1, <3>3, <3>4
  <2>7. more[h + 1] = current[h + 1]
    BY <1>2, <2>3
  <2>8. m # 1 => MustEnd(new[m - 1], more[h + 1])
    <3>1. m # 1 => MustEnd(ch[m - 1], current[h + 1])
      BY <1>3, <2>1 DEF Linked
    <3>2. m # 1 => m - 1 \in 1 .. n
      BY <1>3
    <3> QED
      BY <1>6, <2>7, <3>1, <3>2
  <2>9. Linked(new, m, h)
    BY <1>4, <2>3, <2>5, <2>6, <2>8 DEF Linked
  <2> QED
    BY <2>1, <2>7, <2>9
<1>12. Rendered(more) <= MaxChars
  BY DEF more, p
<1>13. WellMade(doc, new, m)
  BY <1>2, <1>4, <1>10, <1>11, <1>12 DEF WellMade, Q
<1>14. \A i \in 1 .. Len(new) : WellMade(doc, new, i)
  <2>1. \A i \in 1 .. m : i = m \/ i \in 1 .. n
    BY <1>3
  <2> QED
    BY <1>4, <1>6, <1>13, <2>1
<1>15. Earlier(new, Len(new) + 1) = UpTo(sp, k)
  <2>1. Earlier(new, m + 1) = Earlier(new, m) \cup Text(new[m])
    BY <1>7, EarlierWith
  <2>2. Earlier(ch, m + 1) = Earlier(ch, m) \cup Text(ch[m])
    BY <1>7, EarlierWith
  <2> QED
    BY <1>1, <1>3, <1>4, <1>5, <1>6, <1>10, <2>1, <2>2
<1>16. MadeOf(doc, sp, k, new)
  BY <1>4, <1>14, <1>15 DEF MadeOf, Q
<1> QED
  BY <1>16 DEF new, more, p

\* A chunk is added, with an end of the last one and a piece.
LEMMA AddChunk ==
  ASSUME NEW doc \in Seq(Segments), NEW sp \in Seq(Pieces(doc)), Ordered(sp), NEW k \in 1 .. Len(sp),
         NEW ch, MadeOf(doc, sp, k - 1, ch),
         NEW f, Ending(doc, ch[Len(ch)], sp[k].path, f),
         MustEnd(ch[Len(ch)], sp[k]), Worded(doc, sp[k]),
         f # <<>> => ~(Rendered(Append(ch[Len(ch)], sp[k])) <= TargetChars),
         Rendered(Append(f, sp[k])) <= MaxChars
  PROVE  MadeOf(doc, sp, k, Append(ch, Append(f, sp[k])))
<1> DEFINE Q == Pieces(doc)
           p == sp[k]
           c == Append(f, p)
           new == Append(ch, c)
           m == Len(ch)
           h == Len(f)
<1>1. p \in Q /\ Before(UpTo(sp, k - 1), Spanned(p)) /\ UpTo(sp, k) = UpTo(sp, k - 1) \cup Spanned(p)
  BY NextPiece
<1>2. /\ ch \in Seq(Seq(Q)) /\ ch # <<>> /\ \A i \in 1 .. m : WellMade(doc, ch, i)
      /\ Earlier(ch, m + 1) = UpTo(sp, k - 1)
  BY DEF MadeOf
<1>3. /\ f \in Seq(Q) /\ Ordered(f) /\ \A j \in 1 .. Len(f) : f[j].path = p.path
      /\ EndOf(Text(f), Text(ch[m])) /\ IsFiniteSet(Text(f)) /\ Cardinality(Text(f)) <= OverlapChars
  BY DEF Ending
<1> HIDE DEF p, Q
<1>4. /\ c \in Seq(Q) /\ c # <<>> /\ Len(c) = h + 1 /\ h \in Nat
      /\ c[h + 1] = p /\ \A i \in 1 .. h : c[i] = f[i]
  BY <1>1, <1>3, AppendIs
<1>5. /\ new \in Seq(Seq(Q)) /\ new # <<>> /\ Len(new) = m + 1 /\ m \in Nat
      /\ new[m + 1] = c /\ \A i \in 1 .. m : new[i] = ch[i]
  <2> DEFINE QQ == Seq(Q)
  <2>1. c \in QQ /\ ch \in Seq(QQ)
    BY <1>2, <1>4
  <2> HIDE DEF c, QQ
  <2>2. /\ Append(ch, c) \in Seq(QQ) /\ Append(ch, c) # <<>>
        /\ Len(Append(ch, c)) = Len(ch) + 1 /\ Len(ch) \in Nat
        /\ Append(ch, c)[Len(ch) + 1] = c
        /\ \A i \in 1 .. Len(ch) : Append(ch, c)[i] = ch[i]
    BY <2>1, AppendIs
  <2> QED
    BY <2>2 DEF QQ
<1>6. m \in Nat \ {0} /\ m \in 1 .. m /\ m + 1 \in Nat \ {0} /\ m + 1 # 1 /\ (m + 1) - 1 = m
  <2>1. m # 0
    BY <1>2
  <2> HIDE DEF m
  <2> QED
    BY <1>5, <2>1
<1>7. Text(f) \subseteq UpTo(sp, k - 1)
  <2>1. Earlier(ch, m + 1) = Earlier(ch, m) \cup Text(ch[m])
    BY <1>6, EarlierWith
  <2> QED
    BY <1>2, <1>3, <2>1 DEF EndOf
<1>8. Ordered(c) /\ Text(c) = Text(f) \cup Spanned(p)
  <2>1. Before(Text(f), Spanned(p))
    BY <1>1, <1>7 DEF Before
  <2> QED
    BY <1>1, <1>3, <2>1, OrderedAppend
<1>9. UpTo(c, h) = Text(f) /\ After(c, h) = Spanned(p)
  <2>1. h \in 0 .. Len(f)
    BY <1>4
  <2>2. UpTo(c, h) = UpTo(f, h) /\ After(c, h) = After(f, h) \cup Spanned(p)
    BY <1>1, <1>3, <2>1, PartsOfText
  <2>3. UpTo(f, h) = Text(f) /\ After(f, h) = {}
    BY <1>3, <2>1, PartsOfText
  <2> HIDE DEF c, h
  <2> QED
    BY <2>2, <2>3
<1>10. /\ Rendered(c) <= MaxChars /\ (f # <<>> => ~(Rendered(Append(ch[m], p)) <= TargetChars))
       /\ MustEnd(ch[m], p) /\ Worded(doc, p)
  BY DEF p
<1>11. h # 0 => f # <<>>
  BY <1>3
<1> HIDE DEF c, new, m, h
<1>12. /\ Earlier(new, m + 1) = UpTo(sp, k - 1)
       /\ \A i \in 1 .. m : WellMade(doc, new, i)
  <2>1. \A i \in 1 .. m : ch[i] = new[i]
    BY <1>5
  <2> QED
    BY <1>2, <1>6, <2>1, WellMadeLocally
<1>13. Linked(new, m + 1, h)
  <2>1. h \in 0 .. Len(new[m + 1]) - 1
    BY <1>4, <1>5
  <2>2. Before(Earlier(new, m + 1), After(new[m + 1], h))
    BY <1>1, <1>5, <1>9, <1>12
  <2>3. ASSUME h # 0
        PROVE  /\ EndOf(UpTo(new[m + 1], h), Text(new[(m + 1) - 1]))
               /\ IsFiniteSet(UpTo(new[m + 1], h)) /\ Cardinality(UpTo(new[m + 1], h)) <= OverlapChars
               /\ \A j \in 1 .. h : new[m + 1][j].path = new[m + 1][h + 1].path
               /\ ~(Rendered(Append(new[(m + 1) - 1], new[m + 1][h + 1])) <= TargetChars)
    <3>1. new[(m + 1) - 1] = ch[m] /\ new[m + 1] = c
      BY <1>5, <1>6
    <3>2. \A j \in 1 .. h : c[j].path = c[h + 1].path
      BY <1>3, <1>4 DEF h
    <3> QED
      BY <1>3, <1>4, <1>9, <1>10, <1>11, <2>3, <3>1, <3>2
  <2>4. MustEnd(new[(m + 1) - 1], new[m + 1][h + 1])
    BY <1>4, <1>5, <1>6, <1>10
  <2> QED
    BY <1>6, <2>1, <2>2, <2>3, <2>4 DEF Linked
<1>14. WellMade(doc, new, m + 1)
  BY <1>4, <1>5, <1>8, <1>10, <1>13 DEF WellMade, Q
<1>15. \A i \in 1 .. Len(new) : WellMade(doc, new, i)
  <2>1. \A i \in 1 .. m + 1 : i = m + 1 \/ i \in 1 .. m
    BY <1>5
  <2> QED
    BY <1>5, <1>12, <1>14, <2>1
<1>16. Earlier(new, Len(new) + 1) = UpTo(sp, k)
  <2>1. Earlier(new, (m + 1) + 1) = Earlier(new, m + 1) \cup Text(new[m + 1])
    BY <1>6, EarlierWith
  <2> QED
    BY <1>1, <1>5, <1>7, <1>8, <1>12, <2>1
<1>17. MadeOf(doc, sp, k, new)
  BY <1>5, <1>15, <1>16 DEF MadeOf, Q
<1> QED
  BY <1>17 DEF new, c, p

\* The first piece makes the first chunk.
LEMMA FirstChunk ==
  ASSUME NEW doc \in Seq(Segments), NEW sp \in Seq(Pieces(doc)), NEW p \in Pieces(doc),
         1 \in 1 .. Len(sp), sp[1] = p, Length(p) <= MaxChars, Worded(doc, p)
  PROVE  MadeOf(doc, sp, 1, <<<<p>>>>)
<1> DEFINE Q == Pieces(doc)
           one == <<p>>
           ch == <<one>>
<1>1. one \in Seq(Q) /\ one # <<>> /\ Text(one) = Spanned(p) /\ Ordered(one) /\ Len(one) = 1 /\ one[1] = p
  <2>1. one # <<>>
    OBVIOUS
  <2> QED
    BY <2>1, TextOfOne
<1>2. Rendered(one) = Length(p)
  <2>1. \A q \in Q : one = <<q>> => Rendered(one) = Length(q)
    <3> HIDE DEF one
    <3> QED
      BY <1>1, SizeFacts
  <2> QED
    BY <2>1
<1> HIDE DEF one
<1>3. ch \in Seq(Seq(Q)) /\ ch # <<>> /\ Len(ch) = 1 /\ ch[1] = one
  BY <1>1
<1> HIDE DEF ch
<1>4. 1 .. 1 - 1 = {} /\ 1 .. 1 = {1} /\ 0 + 1 .. 1 = {1} /\ 1 + 1 \in Nat /\ 1 \in Nat \ {0}
  OBVIOUS
<1>5. Earlier(ch, 1) = {}
  BY <1>4 DEF Earlier
<1>6. Linked(ch, 1, 0)
  <2>1. 0 \in 0 .. Len(ch[1]) - 1
    BY <1>1, <1>3
  <2> QED
    BY <1>5, <2>1 DEF Linked, Before
<1>7. WellMade(doc, ch, 1)
  <2>1. ch[1][0 + 1] = p
    BY <1>1, <1>3
  <2> QED
    BY <1>1, <1>2, <1>3, <1>6, <2>1 DEF WellMade
<1>8. Earlier(ch, 1 + 1) = Earlier(ch, 1) \cup Text(ch[1])
  BY <1>4, EarlierWith
<1>9. UpTo(sp, 1) = Spanned(p)
  BY <1>4 DEF UpTo
<1>10. Earlier(ch, Len(ch) + 1) = UpTo(sp, 1)
  BY <1>1, <1>3, <1>5, <1>8, <1>9
<1>11. MadeOf(doc, sp, 1, ch)
  BY <1>3, <1>4, <1>7, <1>10 DEF MadeOf
<1> QED
  BY <1>11 DEF ch, one

\* What packing makes of all source pieces.
LEMMA ChunkedMade ==
  ASSUME NEW doc \in Seq(Segments), Solid(doc), NEW sp, sp = SourcePieces(doc), sp # <<>>
  PROVE  MadeOf(doc, sp, Len(sp), Chunked(doc))
<1> DEFINE n == Len(sp)
<1>1. /\ sp \in Seq(Pieces(doc)) /\ Ordered(sp)
      /\ \A j \in 1 .. n : sp[j] \in Pieces(doc) /\ Length(sp[j]) <= MaxChars /\ Worded(doc, sp[j])
  <2>1. SourceUpTo(doc, Len(doc), sp)
    BY SourceFacts
  <2>2. /\ sp \in Seq(Pieces(doc)) /\ Ordered(sp)
        /\ \A j \in 1 .. n : Length(sp[j]) <= MaxChars /\ Worded(doc, sp[j])
    BY <2>1 DEF SourceUpTo
  <2>3. \A j \in 1 .. n : sp[j] \in Pieces(doc)
    BY <2>2
  <2> QED
    BY <2>2, <2>3
<1>2. n \in Nat \ {0} /\ 1 \in 1 .. n
  BY <1>1
<1>3. PICK trace : Packing(doc, sp, trace) /\ Chunked(doc) = Append(trace[n].done, trace[n].current)
  BY <1>1, PackTrace
<1>4. /\ trace \in [0 .. n -> Packings(doc)] /\ trace[0] = [done |-> <<>>, current |-> <<>>]
      /\ \A i \in 1 .. n : trace[i] = Pack(doc, trace[i - 1], sp[i])
  BY <1>3 DEF Packing
<1> DEFINE F == {i \in 1 .. n : ~MadeOf(doc, sp, i, Append(trace[i].done, trace[i].current))}
<1>5. SUFFICES F = {}
  <2>1. n \in 1 .. n
    BY <1>2
  <2> HIDE DEF n
  <2>2. MadeOf(doc, sp, n, Append(trace[n].done, trace[n].current))
    BY <2>1
  <2> QED
    BY <1>3, <2>2 DEF n
<1>6. SUFFICES ASSUME F # {} PROVE FALSE
  OBVIOUS
<1> HIDE DEF n
<1>7. PICK i \in F : \A m \in F : i <= m
  <2>1. F \in SUBSET Nat
    OBVIOUS
  <2> HIDE DEF F
  <2> QED
    BY <1>6, <2>1, LeastNumber
<1> DEFINE old == trace[i - 1]
           new == trace[i]
           p == sp[i]
           done == old.done
           current == old.current
           ch == Append(done, current)
<1>8. i \in 1 .. n /\ ~MadeOf(doc, sp, i, Append(new.done, new.current))
  OBVIOUS
<1>9. i - 1 \in 0 .. n /\ i \in 0 .. n /\ i \in 1 .. Len(sp)
  BY <1>2, <1>8 DEF n
<1>10. /\ old \in Packings(doc) /\ new = Pack(doc, old, p)
       /\ p \in Pieces(doc) /\ Length(p) <= MaxChars /\ Worded(doc, p)
  BY <1>1, <1>4, <1>8, <1>9
<1>11. done \in Seq(Seq(Pieces(doc))) /\ current \in Seq(Pieces(doc))
  BY <1>10 DEF Packings
<1>12. Packs(doc, old, p, new)
  BY <1>10, PackCases
<1>13. i # 1
  <2> SUFFICES ASSUME i = 1 PROVE FALSE
    OBVIOUS
  <2>1. done = <<>> /\ current = <<>>
    BY <1>4
  <2>2. new = [done |-> <<>>, current |-> <<p>>]
    BY <1>12, <2>1 DEF Packs
  <2>3. Append(new.done, new.current) = <<<<p>>>>
    BY <2>2
  <2>4. MadeOf(doc, sp, 1, <<<<p>>>>)
    <3> HIDE DEF p
    <3>1. sp[1] = p /\ 1 \in 1 .. Len(sp)
      BY <1>2 DEF n, p
    <3> QED
      BY <1>1, <1>10, <3>1, FirstChunk
  <2> QED
    BY <1>8, <2>3, <2>4
<1>14. MadeOf(doc, sp, i - 1, ch)
  <2>1. i - 1 \in 1 .. n /\ ~(i <= i - 1)
    BY <1>2, <1>8, <1>13
  <2>2. i - 1 \notin F
    <3> HIDE DEF F
    <3> QED
      BY <1>7, <2>1
  <2> QED
    BY <2>1, <2>2
<1> HIDE DEF old, new, F
<1>15. ch[Len(ch)] = current /\ ch \in Seq(Seq(Pieces(doc)))
  <2> DEFINE QQ == Seq(Pieces(doc))
  <2>1. done \in Seq(QQ) /\ current \in QQ
    BY <1>11
  <2> HIDE DEF QQ, done, current
  <2>2. ch \in Seq(QQ) /\ Len(ch) = Len(done) + 1 /\ ch[Len(done) + 1] = current
    BY <2>1, AppendIs
  <2> QED
    BY <2>2 DEF QQ
<1>16. current # <<>> /\ Ordered(current)
  <2>1. Len(ch) \in 1 .. Len(ch)
    <3>1. ch # <<>>
      BY <1>14 DEF MadeOf
    <3> HIDE DEF ch
    <3> QED
      BY <1>15, <3>1
  <2>2. WellMade(doc, ch, Len(ch))
    BY <1>14, <2>1 DEF MadeOf
  <2> QED
    BY <1>15, <2>2 DEF WellMade
<1> DEFINE added(f) == Append(ch, Append(f, p))
<1>17. ASSUME NEW f, Ending(doc, current, p.path, f), MustEnd(current, p),
              f # <<>> => ~(Rendered(Append(current, p)) <= TargetChars),
              Rendered(Append(f, p)) <= MaxChars
       PROVE  MadeOf(doc, sp, i, added(f))
  BY <1>1, <1>9, <1>10, <1>14, <1>15, <1>17, AddChunk
<1>18. CASE current # <<>> /\ MustEnd(current, p) /\ new = [done |-> ch, current |-> <<p>>]
  <2> DEFINE none == <<>>
  <2>1. Append(none, p) = <<p>> /\ <<p>> \in Seq(Pieces(doc))
    BY <1>10
  <2>2. Rendered(Append(none, p)) <= MaxChars
    <3> DEFINE one == <<p>>
    <3>1. one \in Seq(Pieces(doc))
      BY <2>1
    <3>2. \A q \in Pieces(doc) : one = <<q>> => Rendered(one) = Length(q)
      <4> HIDE DEF one
      <4> QED
        BY <3>1, SizeFacts
    <3>3. Rendered(one) = Length(p)
      BY <1>10, <3>2
    <3> QED
      BY <1>10, <2>1, <3>3
  <2>3. Ending(doc, current, p.path, none)
    BY EndingNone
  <2>4. MadeOf(doc, sp, i, added(none))
    BY <1>17, <1>18, <2>2, <2>3
  <2>5. added(none) = Append(new.done, new.current)
    BY <1>18, <2>1
  <2> QED
    BY <1>8, <2>4, <2>5 DEF new
<1>19. CASE /\ current # <<>> /\ new = [done |-> done, current |-> Append(current, p)]
            /\ Rendered(Append(current, p)) <= MaxChars
  <2>1. MadeOf(doc, sp, i, Append(done, Append(current, p)))
    BY <1>1, <1>9, <1>11, <1>14, <1>19, GrowLast
  <2> QED
    BY <1>8, <1>19, <2>1 DEF new
<1>20. CASE /\ current # <<>> /\ MustEnd(current, p) /\ ~(Rendered(Append(current, p)) <= TargetChars)
            /\ new = [done |-> ch, current |-> Append(Fitted(Overlap(doc, current, p.path), p), p)]
  <2> DEFINE o == Overlap(doc, current, p.path)
             f == Fitted(o, p)
  <2>1. Ending(doc, current, p.path, o)
    BY <1>11, <1>16, OverlapFacts
  <2> HIDE DEF o
  <2>2. Ending(doc, current, p.path, f) /\ Rendered(Append(f, p)) <= MaxChars
    BY <1>10, <1>11, <2>1, FittedFacts
  <2> HIDE DEF f
  <2>3. MadeOf(doc, sp, i, added(f))
    BY <1>17, <1>20, <2>2
  <2>4. added(f) = Append(new.done, new.current)
    BY <1>20 DEF f, o
  <2> QED
    BY <1>8, <2>3, <2>4 DEF new
<1> QED
  BY <1>12, <1>16, <1>18, <1>19, <1>20 DEF Packs

\* What holds of chunks made of all source pieces.
Made(doc, ch) ==
    /\ ch \in Seq(Seq(Pieces(doc)))
    /\ \A n \in 1 .. Len(ch) : WellMade(doc, ch, n)

\* The two kinds of text in a chunk, the repeated and the new.
Parts(doc, ch, n, h) ==
    /\ h \in 0 .. Len(ch[n]) - 1 /\ Len(ch[n]) \in Nat /\ ch[n] \in Seq(Pieces(doc)) /\ Ordered(ch[n])
    /\ Text(ch[n]) = UpTo(ch[n], h) \cup After(ch[n], h)
    /\ Before(Earlier(ch, n), After(ch[n], h)) /\ Earlier(ch, n) \cap After(ch[n], h) = {}
    /\ UpTo(ch[n], h) \subseteq Earlier(ch, n)
    /\ h = 0 => UpTo(ch[n], h) = {}
    /\ \A j \in 1 .. Len(ch[n]) : /\ ch[n][j] \in Pieces(doc) /\ Spanned(ch[n][j]) # {}
                                  /\ j <= h => Spanned(ch[n][j]) \subseteq UpTo(ch[n], h)
                                  /\ j > h => Spanned(ch[n][j]) \subseteq After(ch[n], h)

\* The repeated pieces of a chunk and the new ones make up its text.
LEMMA ChunkFacts ==
  ASSUME NEW doc \in Seq(Segments), NEW ch, Made(doc, ch), NEW n \in 1 .. Len(ch),
         NEW h, Linked(ch, n, h)
  PROVE  Parts(doc, ch, n, h)
<1> DEFINE c == ch[n]
<1>1. c \in Seq(Pieces(doc)) /\ Ordered(c) /\ Len(c) \in Nat
  <2>1. c \in Seq(Pieces(doc)) /\ Ordered(c)
    BY DEF Made, WellMade
  <2> HIDE DEF c
  <2> QED
    BY <2>1
<1>2. h \in 0 .. Len(c) - 1 /\ Before(Earlier(ch, n), After(c, h))
  BY DEF Linked
<1>3. h \in 0 .. Len(c)
  BY <1>1, <1>2
<1>4. Text(c) = UpTo(c, h) \cup After(c, h) /\ UpTo(c, 0) = {}
  <2> HIDE DEF c
  <2> QED
    BY <1>1, <1>3, PartsOfText
<1>5. Earlier(ch, n) \cap After(c, h) = {}
  <2> SUFFICES ASSUME NEW x \in Earlier(ch, n), x \in After(c, h) PROVE FALSE
    OBVIOUS
  <2>1. Precedes(x, x)
    BY <1>2 DEF Before
  <2>2. Text(c) \subseteq Nat \X Nat
    BY <1>1, TextFacts
  <2>3. x \in Nat \X Nat
    BY <1>4, <2>2
  <2> QED
    BY <2>1, <2>3, PrecedesOrders
<1>6. UpTo(c, h) \subseteq Earlier(ch, n)
  <2>1. CASE h = 0
    BY <1>4, <2>1
  <2>2. CASE h # 0
    <3>1. n # 1 /\ UpTo(c, h) \subseteq Text(ch[n - 1])
      BY <2>2 DEF Linked, EndOf
    <3>2. n - 1 \in 1 .. n - 1
      BY <3>1
    <3>3. Text(ch[n - 1]) \subseteq Earlier(ch, n)
      BY <3>2 DEF Earlier
    <3> QED
      BY <3>1, <3>3
  <2> QED
    BY <2>1, <2>2
<1>7. ASSUME NEW j \in 1 .. Len(c)
      PROVE  /\ c[j] \in Pieces(doc) /\ Spanned(c[j]) # {}
             /\ j <= h => Spanned(c[j]) \subseteq UpTo(c, h)
             /\ j > h => Spanned(c[j]) \subseteq After(c, h)
  <2>1. c[j] \in Pieces(doc)
    BY <1>1
  <2>2. Spanned(c[j]) # {}
    BY <2>1, SpanFacts
  <2>3. ASSUME j <= h PROVE Spanned(c[j]) \subseteq UpTo(c, h)
    <3>1. j \in 1 .. h
      BY <1>3, <2>3
    <3> QED
      BY <3>1 DEF UpTo
  <2>4. ASSUME j > h PROVE Spanned(c[j]) \subseteq After(c, h)
    <3>1. j \in h + 1 .. Len(c)
      BY <1>1, <1>3, <2>4
    <3> QED
      BY <3>1 DEF After
  <2> QED
    BY <2>1, <2>2, <2>3, <2>4
<1> QED
  BY <1>1, <1>2, <1>4, <1>5, <1>6, <1>7 DEF Parts

\* The chunks cover the document.
LEMMA MadeCovers ==
  ASSUME NEW doc \in Seq(Segments), NEW ch, Made(doc, ch),
         \A i \in DOMAIN doc : \A k \in 0 .. Len(doc[i].text) - 1 :
             ~IsSpace(doc[i].text[k + 1]) => <<i, k>> \in Earlier(ch, Len(ch) + 1)
  PROVE  Covers(doc, ch)
<1>1. DOMAIN ch = 1 .. Len(ch)
  BY DEF Made
<1>2. ASSUME NEW n \in 1 .. Len(ch)
      PROVE  \A a \in Earlier(ch, n), b \in Text(ch[n]) \ Earlier(ch, n) : Precedes(a, b)
  <2>2. PICK h : Linked(ch, n, h)
    BY DEF Made, WellMade
  <2>3. /\ Text(ch[n]) = UpTo(ch[n], h) \cup After(ch[n], h)
        /\ Before(Earlier(ch, n), After(ch[n], h))
        /\ UpTo(ch[n], h) \subseteq Earlier(ch, n)
    <3>1. Parts(doc, ch, n, h)
      BY <2>2, ChunkFacts
    <3> QED
      BY <3>1 DEF Parts
  <2> QED
    BY <2>3 DEF Before
<1> QED
  BY <1>1, <1>2 DEF Covers

\* The chunks are in form.
LEMMA MadeFormed ==
  ASSUME NEW doc \in Seq(Segments), NEW ch, Made(doc, ch), NEW n \in 1 .. Len(ch)
  PROVE  ~Malformed(doc, ch[n])
<1> DEFINE c == ch[n]
<1>1. /\ c \in Seq(Pieces(doc)) /\ Ordered(c) /\ Rendered(c) <= MaxChars
      /\ \E h : Linked(ch, n, h) /\ Worded(doc, c[h + 1])
  BY DEF Made, WellMade
<1>2. PICK h : Linked(ch, n, h) /\ Worded(doc, c[h + 1])
  BY <1>1
<1>3. h \in 0 .. Len(c) - 1
  BY <1>2 DEF Linked
<1> HIDE DEF c
<1>4. Len(c) \in Nat /\ Rendered(c) \in Nat /\ MaxChars \in Nat
  BY <1>1, SizeFacts, ChunkingAssumption
<1>5. ~(\A a \in Text(c) : IsSpace(doc[a[1]].text[a[2] + 1]))
  <2> DEFINE p == c[h + 1]
  <2>1. PICK k \in p.from .. p.to - 1 : ~IsSpace(doc[p.segment].text[k + 1])
    BY <1>2 DEF Worded
  <2>2. <<p.segment, k>> \in Spanned(p)
    BY DEF Spanned
  <2>3. h + 1 \in 1 .. Len(c)
    BY <1>3, <1>4
  <2> HIDE DEF p
  <2>4. <<p.segment, k>> \in Text(c)
    BY <1>1, <2>2, <2>3, TextIs DEF p
  <2>5. <<p.segment, k>>[1] = p.segment /\ <<p.segment, k>>[2] = k
    OBVIOUS
  <2> QED
    BY <2>1, <2>4, <2>5
<1>6. ~(Rendered(c) > MaxChars)
  BY <1>1, <1>4
<1>7. ASSUME NEW p \in ToSet(c) PROVE ~(p.from >= p.to \/ p.to > Len(doc[p.segment].text))
  <2>1. p \in Pieces(doc)
    BY <1>1 DEF ToSet
  <2>2. /\ p.from \in Nat /\ p.to \in Nat /\ p.segment \in DOMAIN doc
        /\ p.from < p.to /\ p.to <= Len(doc[p.segment].text)
    BY <2>1 DEF Pieces
  <2>3. Len(doc[p.segment].text) \in Nat
    <3>1. doc[p.segment] \in Segments
      BY <2>2
    <3>2. doc[p.segment].text \in Seq(Characters)
      BY <3>1 DEF Segments
    <3> QED
      BY <3>2
  <2> QED
    BY <2>2, <2>3
<1>8. ASSUME NEW j \in 1 .. Len(c) - 1, NEW a \in Spanned(c[j]), NEW b \in Spanned(c[j + 1])
      PROVE  Precedes(a, b)
  <2>1. j \in 1 .. Len(c) /\ j + 1 \in 1 .. Len(c) /\ j < j + 1
    BY <1>4
  <2> QED
    BY <1>1, <2>1 DEF Ordered, Before
<1>9. ~Malformed(doc, c)
  BY <1>5, <1>6, <1>7, <1>8 DEF Malformed
<1> QED
  BY <1>9 DEF c

\* What a chunk repeats, and why the one before it ended.
Modest(ch, n) ==
    /\ Repeated(ch, n) \subseteq Text(ch[n - 1])
    /\ Cardinality(Repeated(ch, n)) <= OverlapChars
    /\ \A p \in ToSet(ch[n]) :
           Spanned(p) \subseteq Repeated(ch, n) => p.path = FirstNew(ch, n).path
    /\ MustEnd(ch[n - 1], FirstNew(ch, n))

\* A chunk repeats little of the one before it, and only of its own section;
\* the one before it had to end.
LEMMA MadeRepeats ==
  ASSUME NEW doc \in Seq(Segments), NEW ch, Made(doc, ch), NEW n \in 2 .. Len(ch)
  PROVE  Modest(ch, n)
<1> DEFINE repeated == Repeated(ch, n)
           c == ch[n]
           added == {j \in DOMAIN c : ~(Spanned(c[j]) \subseteq repeated)}
<1>1. n \in 1 .. Len(ch) /\ n - 1 \in 1 .. Len(ch) /\ n # 1 /\ n - 1 \in 1 .. n - 1
  OBVIOUS
<1>2. PICK h : Linked(ch, n, h)
  BY <1>1 DEF Made, WellMade
<1>3. /\ h \in 0 .. Len(c) - 1 /\ Len(c) \in Nat /\ c \in Seq(Pieces(doc))
      /\ Text(c) = UpTo(c, h) \cup After(c, h)
      /\ Earlier(ch, n) \cap After(c, h) = {}
      /\ h = 0 => UpTo(c, h) = {}
      /\ \A j \in 1 .. Len(c) : /\ Spanned(c[j]) # {}
                                /\ j <= h => Spanned(c[j]) \subseteq UpTo(c, h)
                                /\ j > h => Spanned(c[j]) \subseteq After(c, h)
  <2>1. Parts(doc, ch, n, h)
    BY <1>1, <1>2, ChunkFacts
  <2> QED
    BY <2>1 DEF Parts
<1>4. Text(ch[n - 1]) \subseteq Earlier(ch, n)
  BY <1>1 DEF Earlier
<1>5. h # 0 => /\ UpTo(c, h) \subseteq Text(ch[n - 1])
               /\ Cardinality(UpTo(c, h)) <= OverlapChars
               /\ \A j \in 1 .. h : c[j].path = c[h + 1].path
  BY <1>2 DEF Linked, EndOf
<1>5a. DOMAIN c = 1 .. Len(c) /\ added = {j \in DOMAIN c : ~(Spanned(c[j]) \subseteq repeated)}
  BY <1>3
<1>5b. repeated = Text(c) \cap Earlier(ch, n)
  BY DEF Repeated
<1>5c. FirstNew(ch, n) = c[Min(added)]
  BY DEF FirstNew
<1>5d. MustEnd(ch[n - 1], c[h + 1])
  BY <1>1, <1>2 DEF Linked
<1> HIDE DEF c, repeated, added
<1>6. repeated = UpTo(c, h) /\ repeated \subseteq Text(ch[n - 1])
  <2>2. UpTo(c, h) \subseteq Text(ch[n - 1])
    BY <1>3, <1>5
  <2> QED
    BY <1>3, <1>4, <1>5b, <2>2
<1>7. Cardinality(repeated) <= OverlapChars
  <2>1. CASE h = 0
    <3>1. Cardinality({}) = 0 /\ 0 <= OverlapChars
      BY FS_EmptySet, ChunkingAssumption
    <3> QED
      BY <1>3, <1>6, <2>1, <3>1
  <2>2. CASE h # 0
    BY <1>5, <1>6, <2>2
  <2> QED
    BY <2>1, <2>2
<1>8. \A j \in 1 .. Len(c) : Spanned(c[j]) \subseteq repeated <=> j <= h
  <2> SUFFICES ASSUME NEW j \in 1 .. Len(c) PROVE Spanned(c[j]) \subseteq repeated <=> j <= h
    OBVIOUS
  <2>1. CASE j <= h
    BY <1>3, <1>6, <2>1
  <2>2. CASE ~(j <= h)
    <3>1. j > h
      BY <1>3, <2>2
    <3>2. Spanned(c[j]) \subseteq After(c, h) /\ Spanned(c[j]) # {}
      BY <1>3, <3>1
    <3>3. repeated \cap After(c, h) = {}
      <4>1. repeated \subseteq Earlier(ch, n)
        BY <1>5b
      <4> QED
        BY <1>3, <4>1
    <3> QED
      BY <2>2, <3>2, <3>3
  <2> QED
    BY <2>1, <2>2
<1>10. h + 1 \in 1 .. Len(c) /\ ~(h + 1 <= h)
  BY <1>3
<1>11. Min(added) = h + 1
  <2>1. h + 1 \in added
    BY <1>8, <1>5a, <1>10
  <2>2. added \in SUBSET Nat /\ \A j \in added : j \in 1 .. Len(c) /\ ~(j <= h)
    BY <1>8, <1>5a
  <2>3. Min(added) \in added /\ Min(added) <= h + 1
    BY <2>1, <2>2, MinFacts
  <2>4. Min(added) \in 1 .. Len(c) /\ ~(Min(added) <= h)
    BY <2>2, <2>3
  <2>5. h \in Nat
    BY <1>3
  <2> QED
    BY <2>3, <2>4, <2>5
<1>12. ASSUME NEW p \in ToSet(c), Spanned(p) \subseteq repeated
       PROVE  p.path = c[Min(added)].path
  <2>1. PICK j \in 1 .. Len(c) : p = c[j]
    BY <1>3 DEF ToSet
  <2>2. j <= h
    BY <1>8, <1>12, <2>1
  <2>3. j \in 1 .. h /\ h # 0
    BY <1>3, <2>1, <2>2
  <2>4. c[j].path = c[h + 1].path
    BY <1>5, <2>3
  <2> QED
    BY <1>11, <2>1, <2>4
<1> QED
  BY <1>5c, <1>5d, <1>6, <1>7, <1>11, <1>12 DEF Modest, c, repeated

\* A chunk within a later one is part of what that repeats.
LEMMA WithinIsRepeated ==
  ASSUME NEW doc \in Seq(Segments), NEW ch, Made(doc, ch), NEW m \in 1 .. Len(ch), NEW n \in 1 .. Len(ch),
         m < n, Text(ch[m]) \subseteq Text(ch[n]), NEW h, Linked(ch, n, h)
  PROVE  /\ h # 0 /\ Text(ch[m]) # {}
         /\ Text(ch[m]) \subseteq UpTo(ch[n], h) /\ Text(ch[m]) \subseteq Text(ch[n - 1])
         /\ Cardinality(Text(ch[m])) <= OverlapChars
         /\ IsFiniteSet(UpTo(ch[n], h)) /\ Cardinality(UpTo(ch[n], h)) <= OverlapChars
         /\ EndOf(UpTo(ch[n], h), Text(ch[n - 1]))
<1>1. /\ Text(ch[n]) = UpTo(ch[n], h) \cup After(ch[n], h)
      /\ Earlier(ch, n) \cap After(ch[n], h) = {}
      /\ h = 0 => UpTo(ch[n], h) = {}
  <2>1. Parts(doc, ch, n, h)
    BY ChunkFacts
  <2> QED
    BY <2>1 DEF Parts
<1>2. Text(ch[m]) # {}
  <2>1. PICK g : Linked(ch, m, g)
    BY DEF Made, WellMade
  <2>2. /\ g \in 0 .. Len(ch[m]) - 1 /\ Len(ch[m]) \in Nat
        /\ Text(ch[m]) = UpTo(ch[m], g) \cup After(ch[m], g)
        /\ \A j \in 1 .. Len(ch[m]) : /\ Spanned(ch[m][j]) # {}
                                      /\ j > g => Spanned(ch[m][j]) \subseteq After(ch[m], g)
    <3>1. Parts(doc, ch, m, g)
      BY <2>1, ChunkFacts
    <3> QED
      BY <3>1 DEF Parts
  <2>3. g + 1 \in 1 .. Len(ch[m]) /\ g + 1 > g
    BY <2>2
  <2> QED
    BY <2>2, <2>3
<1>3. Text(ch[m]) \subseteq Earlier(ch, n)
  <2>1. m \in 1 .. n - 1
    OBVIOUS
  <2> QED
    BY <2>1 DEF Earlier
<1>4. Text(ch[m]) \subseteq UpTo(ch[n], h)
  BY <1>1, <1>3
<1>5. h # 0
  BY <1>1, <1>2, <1>4
<1>6. /\ EndOf(UpTo(ch[n], h), Text(ch[n - 1]))
      /\ IsFiniteSet(UpTo(ch[n], h)) /\ Cardinality(UpTo(ch[n], h)) <= OverlapChars
  BY <1>5 DEF Linked
<1>7. Cardinality(Text(ch[m])) <= OverlapChars
  <2>1. IsFiniteSet(Text(ch[m])) /\ Cardinality(Text(ch[m])) <= Cardinality(UpTo(ch[n], h))
    BY <1>4, <1>6, FS_Subset
  <2>2. Cardinality(Text(ch[m])) \in Nat /\ Cardinality(UpTo(ch[n], h)) \in Nat /\ OverlapChars \in Nat
    BY <1>6, <2>1, FS_CardinalityType, ChunkingAssumption
  <2> QED
    BY <1>6, <2>1, <2>2
<1> QED
  BY <1>2, <1>4, <1>5, <1>6, <1>7 DEF EndOf

\* None lies within the one after the next: that one would repeat, with the
\* chunk, the piece that did not fit behind it.
LEMMA NotWithinSecondNext ==
  ASSUME NEW doc \in Seq(Segments), NEW ch, Made(doc, ch), NEW m \in 1 .. Len(ch), m + 2 \in 1 .. Len(ch),
         (Separator + 1) * OverlapChars <= TargetChars
  PROVE  ~(Text(ch[m]) \subseteq Text(ch[m + 2]))
<1> SUFFICES ASSUME Text(ch[m]) \subseteq Text(ch[m + 2]) PROVE FALSE
  OBVIOUS
<1> DEFINE a == ch[m]
           b == ch[m + 1]
           c == ch[m + 2]
<1>1. m + 1 \in 1 .. Len(ch) /\ (m + 2) - 1 = m + 1 /\ (m + 1) - 1 = m /\ m < m + 2 /\ m < m + 1
  OBVIOUS
<1>2. PICK g : Linked(ch, m + 2, g)
  BY DEF Made, WellMade
<1>3. PICK h : Linked(ch, m + 1, h)
  BY <1>1 DEF Made, WellMade
<1> DEFINE U == UpTo(c, g)
<1>4. /\ Text(a) # {} /\ Text(a) \subseteq U /\ Text(a) \subseteq Text(b)
      /\ IsFiniteSet(U) /\ Cardinality(U) <= OverlapChars /\ EndOf(U, Text(b))
  <2>1. LET n == m + 2 IN
        /\ Text(ch[m]) # {}
        /\ Text(ch[m]) \subseteq UpTo(ch[n], g) /\ Text(ch[m]) \subseteq Text(ch[n - 1])
        /\ IsFiniteSet(UpTo(ch[n], g)) /\ Cardinality(UpTo(ch[n], g)) <= OverlapChars
        /\ EndOf(UpTo(ch[n], g), Text(ch[n - 1]))
    BY <1>1, <1>2, WithinIsRepeated
  <2> QED
    BY <1>1, <2>1
<1>5. h # 0
  BY <1>1, <1>3, <1>4, WithinIsRepeated
<1> DEFINE p == b[h + 1]
           s == Append(a, p)
<1>6. ~(Rendered(s) <= TargetChars)
  BY <1>1, <1>3, <1>5 DEF Linked
<1>7. a \in Seq(Pieces(doc)) /\ Ordered(a)
  BY DEF Made, WellMade
<1>8. /\ h \in 0 .. Len(b) - 1 /\ Len(b) \in Nat
      /\ Text(b) = UpTo(b, h) \cup After(b, h) /\ Before(Earlier(ch, m + 1), After(b, h))
      /\ \A j \in 1 .. Len(b) : /\ b[j] \in Pieces(doc)
                                /\ j > h => Spanned(b[j]) \subseteq After(b, h)
  <2>1. Parts(doc, ch, m + 1, h)
    BY <1>1, <1>3, ChunkFacts
  <2> QED
    BY <2>1 DEF Parts
<1>9. p \in Pieces(doc) /\ Spanned(p) \subseteq After(b, h) /\ Spanned(p) \subseteq Text(b)
  <2>1. h + 1 \in 1 .. Len(b) /\ h + 1 > h
    BY <1>8
  <2> QED
    BY <1>8, <2>1
<1>10. Before(Text(a), Spanned(p))
  <2>1. m \in 1 .. (m + 1) - 1
    OBVIOUS
  <2>2. Text(a) \subseteq Earlier(ch, m + 1)
    BY <2>1 DEF Earlier
  <2> QED
    BY <1>8, <1>9, <2>2 DEF Before
<1> HIDE DEF a, b, c, U, p
<1>11. s \in Seq(Pieces(doc)) /\ Ordered(s) /\ Text(s) = Text(a) \cup Spanned(p)
  BY <1>7, <1>9, <1>10, OrderedAppend
<1>12. Spanned(p) \subseteq U
  <2>1. PICK x \in Text(a) : TRUE
    BY <1>4
  <2> QED
    BY <1>4, <1>9, <1>10, <2>1 DEF Before, EndOf
<1> HIDE DEF s
<1>13. IsFiniteSet(Text(s)) /\ Cardinality(Text(s)) <= Cardinality(U)
  <2>1. Text(s) \subseteq U
    BY <1>4, <1>11, <1>12
  <2> QED
    BY <1>4, <2>1, FS_Subset
<1>14. Rendered(s) \in Nat /\ Rendered(s) <= (Separator + 1) * Cardinality(Text(s))
  BY <1>11, SizeFacts
<1> DEFINE k == Cardinality(Text(s))
<1>15. k \in Nat /\ k <= OverlapChars
  <2>1. Cardinality(Text(s)) \in Nat /\ Cardinality(U) \in Nat /\ OverlapChars \in Nat
    BY <1>4, <1>13, FS_CardinalityType, ChunkingAssumption
  <2> QED
    BY <1>4, <1>13, <2>1
<1> HIDE DEF k
<1>16. Separator \in Nat /\ OverlapChars \in Nat /\ TargetChars \in Nat /\ (Separator + 1) * OverlapChars <= TargetChars
  BY ChunkingAssumption
<1>17. (Separator + 1) * k <= (Separator + 1) * OverlapChars
       /\ (Separator + 1) * k \in Nat /\ (Separator + 1) * OverlapChars \in Nat
  <2>1. \A x, y, z \in Nat : y <= z => x * y <= x * z /\ x * y \in Nat /\ x * z \in Nat
    OBVIOUS
  <2>2. Separator + 1 \in Nat
    BY <1>16
  <2> QED
    BY <1>15, <1>16, <2>1, <2>2
<1> QED
  BY <1>6, <1>14, <1>16, <1>17 DEF k

\* The chunks overlap modestly.
LEMMA MadeOverlaps ==
  ASSUME NEW doc \in Seq(Segments), NEW ch, Made(doc, ch)
  PROVE  OverlapsModestly(ch)
<1>1. DOMAIN ch = 1 .. Len(ch) /\ Len(ch) \in Nat
  BY DEF Made
<1>2. ASSUME NEW n \in DOMAIN ch \ {1}
      PROVE  /\ Repeated(ch, n) \subseteq Text(ch[n - 1])
             /\ Cardinality(Repeated(ch, n)) <= OverlapChars
             /\ \A p \in ToSet(ch[n]) :
                    Spanned(p) \subseteq Repeated(ch, n) => p.path = FirstNew(ch, n).path
  <2>1. n \in 2 .. Len(ch)
    BY <1>1
  <2>2. Modest(ch, n)
    BY <2>1, MadeRepeats
  <2> QED
    BY <2>2 DEF Modest
<1>3. ASSUME NEW m \in 1 .. Len(ch), NEW n \in 1 .. Len(ch), m # n, Text(ch[m]) \subseteq Text(ch[n])
      PROVE  /\ m < n /\ Cardinality(Text(ch[m])) <= OverlapChars
             /\ (Separator + 1) * OverlapChars <= TargetChars => n = m + 1
  <2>1. m < n
    <3> SUFFICES ASSUME n < m PROVE FALSE
      BY <1>1, <1>3
    <3>1. PICK g : Linked(ch, m, g)
      BY DEF Made, WellMade
    <3>2. /\ g \in 0 .. Len(ch[m]) - 1 /\ Len(ch[m]) \in Nat
          /\ Text(ch[m]) = UpTo(ch[m], g) \cup After(ch[m], g)
          /\ Earlier(ch, m) \cap After(ch[m], g) = {}
          /\ \A j \in 1 .. Len(ch[m]) : /\ Spanned(ch[m][j]) # {}
                                        /\ j > g => Spanned(ch[m][j]) \subseteq After(ch[m], g)
      <4>1. Parts(doc, ch, m, g)
        BY <3>1, ChunkFacts
      <4> QED
        BY <4>1 DEF Parts
    <3>3. g + 1 \in 1 .. Len(ch[m]) /\ g + 1 > g
      BY <3>2
    <3>4. After(ch[m], g) # {}
      BY <3>2, <3>3
    <3>5. n \in 1 .. m - 1
      OBVIOUS
    <3>6. Text(ch[n]) \subseteq Earlier(ch, m)
      BY <3>5 DEF Earlier
    <3> QED
      BY <1>3, <3>2, <3>4, <3>6
  <2>2. PICK h : Linked(ch, n, h)
    BY DEF Made, WellMade
  <2>3. Cardinality(Text(ch[m])) <= OverlapChars
    BY <1>3, <2>1, <2>2, WithinIsRepeated
  <2>4. ASSUME (Separator + 1) * OverlapChars <= TargetChars PROVE n = m + 1
    <3> SUFFICES ASSUME m + 2 <= n PROVE FALSE
      BY <2>1
    <3> DEFINE P == {l \in m + 2 .. Len(ch) : Text(ch[m]) \subseteq Text(ch[l])}
    <3>1. n \in P
      BY <1>3
    <3>2. PICK l \in P : \A k \in P : l <= k
      <4>1. P \in SUBSET Nat
        OBVIOUS
      <4> HIDE DEF P
      <4> QED
        BY <3>1, <4>1, LeastNumber
    <3>3. l \in m + 2 .. Len(ch) /\ Text(ch[m]) \subseteq Text(ch[l])
      OBVIOUS
    <3>4. l \in 1 .. Len(ch) /\ m < l
      BY <3>3
    <3>5. CASE l = m + 2
      BY <2>4, <3>3, <3>4, <3>5, NotWithinSecondNext
    <3>6. CASE l # m + 2
      <4>1. PICK g : Linked(ch, l, g)
        BY <3>4 DEF Made, WellMade
      <4>2. Text(ch[m]) \subseteq Text(ch[l - 1])
        BY <3>3, <3>4, <4>1, WithinIsRepeated
      <4>3. l - 1 \in m + 2 .. Len(ch) /\ ~(l <= l - 1)
        BY <3>3, <3>6
      <4>4. l - 1 \in P
        BY <4>2, <4>3
      <4> HIDE DEF P
      <4> QED
        BY <3>2, <4>3, <4>4
    <3> QED
      BY <3>5, <3>6
  <2> QED
    BY <2>1, <2>3, <2>4
<1> QED
  BY <1>1, <1>2, <1>3 DEF OverlapsModestly

\* The chunker loses no text, repeats little, and ends chunks where it must,
\* whatever the document and the profile (semantic_text.py); what it checks
\* of its output holds, but for the check that refuses a heading alone.
THEOREM ChunkingSound ==
  ChunkingIsSound
<1> SUFFICES ASSUME NEW doc \in Segmented
             PROVE  LET chunking == Chunked(doc) IN
                    /\ Covers(doc, chunking)
                    /\ OverlapsModestly(chunking)
                    /\ \A i \in DOMAIN doc : SplitSegment(doc[i], i) # <<>>
                    /\ \A n \in DOMAIN chunking :
                           /\ ~Malformed(doc, chunking[n])
                           /\ n > 1 => MustEnd(chunking[n - 1], FirstNew(chunking, n))
  BY DEF ChunkingIsSound
<1> DEFINE sp == SourcePieces(doc)
           ch == Chunked(doc)
<1>1. doc \in Seq(Segments) /\ Solid(doc) /\ doc # <<>>
  BY ChunkingAssumption DEF Solid
<1>2. SourceUpTo(doc, Len(doc), sp)
  BY <1>1, SourceFacts
<1>3. \A i \in DOMAIN doc : SplitSegment(doc[i], i) # <<>>
  BY <1>1, SplitYields DEF Solid
<1>4. sp \in Seq(Pieces(doc)) /\ sp # <<>>
  <2>1. sp \in Seq(Pieces(doc))
    BY <1>2 DEF SourceUpTo
  <2> DEFINE none == <<>>
  <2>2. 1 \in 1 .. Len(doc) /\ 1 \in DOMAIN doc
    BY <1>1
  <2>3. PICK k \in DOMAIN doc[1].text : ~IsSpace(doc[1].text[k])
    BY <1>1, <2>2 DEF Solid
  <2>4. k - 1 \in 0 .. Len(doc[1].text) - 1 /\ (k - 1) + 1 = k
    <3>1. doc[1] \in Segments
      BY <1>1, <2>2
    <3>2. doc[1].text \in Seq(Characters)
      BY <3>1 DEF Segments
    <3> QED
      BY <3>2
  <2> HIDE DEF sp
  <2>5. <<1, k - 1>> \in Text(sp)
    BY <1>2, <2>2, <2>3, <2>4 DEF SourceUpTo
  <2>6. Text(none) = {}
    BY TextOfNone
  <2> QED
    BY <2>1, <2>5, <2>6
<1> HIDE DEF sp, ch
<1>5. MadeOf(doc, sp, Len(sp), ch)
  BY <1>1, <1>4, ChunkedMade DEF sp, ch
<1>6. Made(doc, ch) /\ Earlier(ch, Len(ch) + 1) = UpTo(sp, Len(sp))
  BY <1>5 DEF MadeOf, Made
<1>7. UpTo(sp, Len(sp)) = Text(sp)
  <2>1. 0 \in 0 .. Len(sp)
    BY <1>4
  <2> QED
    BY <1>4, <2>1, PartsOfText
<1>8. \A i \in DOMAIN doc : \A k \in 0 .. Len(doc[i].text) - 1 :
          ~IsSpace(doc[i].text[k + 1]) => <<i, k>> \in Earlier(ch, Len(ch) + 1)
  <2>1. DOMAIN doc = 1 .. Len(doc)
    BY <1>1
  <2> QED
    BY <1>2, <1>6, <1>7, <2>1 DEF SourceUpTo
<1>9. Covers(doc, ch)
  BY <1>1, <1>6, <1>8, MadeCovers
<1>10. OverlapsModestly(ch)
  BY <1>1, <1>6, MadeOverlaps
<1>11. ASSUME NEW n \in DOMAIN ch
       PROVE  ~Malformed(doc, ch[n]) /\ (n > 1 => MustEnd(ch[n - 1], FirstNew(ch, n)))
  <2>1. n \in 1 .. Len(ch)
    BY <1>6 DEF Made
  <2>2. ~Malformed(doc, ch[n])
    BY <1>1, <1>6, <2>1, MadeFormed
  <2>3. ASSUME n > 1 PROVE MustEnd(ch[n - 1], FirstNew(ch, n))
    <3>1. n \in 2 .. Len(ch)
      BY <2>1, <2>3
    <3>2. Modest(ch, n)
      BY <1>1, <1>6, <3>1, MadeRepeats
    <3> QED
      BY <3>2 DEF Modest
  <2> QED
    BY <2>2, <2>3
<1> QED
  BY <1>3, <1>9, <1>10, <1>11 DEF ch

-----------------------------------------------------------------------------
(* A document that the chunker refuses gets no chunks.                     *)

Accepted(v) == version[v].content \notin Refusals

\* Chunks that are stored, or about to be, are of documents not refused.
NoRefusal ==
    /\ \A v \in Versions : chunks[v] # 0 => Accepted(v)
    /\ \A w \in Workers : job[w].at = "completing" => Accepted(job[w].v)

\* The content of a version stays, chunks come from completing alone, and
\* completing from processing a document that is not refused.
ContentStep(w) ==
    /\ \A v \in Versions : Status(v) # "absent" => version'[v].content = version[v].content
    /\ \A v \in Versions : chunks'[v] # 0 =>
           chunks[v] # 0 \/ (job[w].at = "completing" /\ v = job[w].v)
    /\ \A x \in Workers : job'[x].at = "completing" =>
           /\ job[x].at \in AtWork /\ job'[x].v = job[x].v
           /\ job[x].at = "completing" \/ Accepted(job[x].v)

\* Jobs change one at a time.
LEMMA OtherJobs ==
  ASSUME TypeOK, NEW w \in Workers, NEW j, Become(w, j), j.at # "completing"
  PROVE  \A x \in Workers : job'[x].at = "completing" => job[x].at = "completing" /\ job'[x].v = job[x].v
BY DEF TypeOK, Become

LEMMA ContentKept ==
  ASSUME IInv, NEW w \in Workers, Next!(w)
  PROVE  ContentStep(w)
<1> USE DEF IInv
<1> DEFINE Same == \A x \in Workers : job'[x].at = "completing" =>
                       job[x].at = "completing" /\ job'[x].v = job[x].v
<1>0. Idle.at # "completing"
  BY DEF Idle
<1>1. ASSUME NEW c \in Contents, NEW u \in BOOLEAN, BeginCreate(w, c, u) PROVE ContentStep(w)
  <2>1. Same
    BY <1>1, OtherJobs DEF BeginCreate
  <2> QED
    BY <1>1, <2>1 DEF BeginCreate, ContentStep, AtWork
<1>2. ASSUME NEW v \in Versions, CommitCreate(w, v) PROVE ContentStep(w)
  <2>1. Same
    BY <1>0, <1>2, OtherJobs DEF CommitCreate, Leave
  <2>2. \A u \in Versions : Status(u) # "absent" => version'[u] = version[u]
    BY <1>2 DEF CommitCreate, TypeOK, Existing
  <2> QED
    BY <1>2, <2>1, <2>2 DEF CommitCreate, ContentStep, AtWork
<1>3. ASSUME NEW v \in Versions, BeginClaim(w, v) \/ BeginEmbed(w, v) \/ BeginPublish(w, v)
      PROVE  ContentStep(w)
  <2>1. Same
    BY <1>3, OtherJobs DEF BeginClaim, BeginEmbed, BeginPublish
  <2> QED
    BY <1>3, <2>1 DEF BeginClaim, BeginEmbed, BeginPublish, ContentStep, AtWork
<1>4. ASSUME CommitClaim(w) PROVE ContentStep(w)
  <2>1. Same
    BY <1>4, OtherJobs DEF CommitClaim
  <2>2. \A u \in Versions : version'[u].content = version[u].content
    BY <1>4 DEF CommitClaim, TypeOK, Rows
  <2> QED
    BY <1>4, <2>1, <2>2 DEF CommitClaim, ContentStep, AtWork
<1>5. ASSUME NEW p \in {"completing", "failing"}, Process(w, p) PROVE ContentStep(w)
  <2>1. \A x \in Workers : job'[x].at = "completing" =>
            /\ job[x].at \in AtWork /\ job'[x].v = job[x].v
            /\ job[x].at = "completing" \/ Accepted(job[x].v)
    BY <1>5 DEF Process, Become, TypeOK, AtWork, Accepted
  <2> QED
    BY <1>5, <2>1 DEF Process, ContentStep
<1>6. ASSUME Complete(w) PROVE ContentStep(w)
  <2>1. Same
    BY <1>0, <1>6, OtherJobs DEF Complete
  <2>2. \A u \in Versions : version'[u].content = version[u].content
    BY <1>6 DEF Complete, TypeOK, Rows
  <2>3. \A u \in Versions : u # job[w].v => chunks'[u] = chunks[u]
    BY <1>6 DEF Complete, TypeOK
  <2>4. job[w].at = "completing"
    BY <1>6 DEF Complete
  <2> QED
    BY <2>1, <2>2, <2>3, <2>4 DEF ContentStep, AtWork
<1>7. ASSUME Fail(w) PROVE ContentStep(w)
  <2>1. Same
    BY <1>0, <1>7, OtherJobs DEF Fail
  <2>2. \A u \in Versions : version'[u].content = version[u].content
    BY <1>7 DEF Fail, TypeOK, Rows
  <2> QED
    BY <1>7, <2>1, <2>2 DEF Fail, ContentStep, AtWork
<1>8. ASSUME CompleteRaises(w) \/ CheckEmbed(w) \/ BeginArchive(w) \/ Abandon(w) PROVE ContentStep(w)
  <2>1. CASE CheckEmbed(w)
    <3>1. [job[w] EXCEPT !.at = "inserting"].at # "completing"
      <4>1. "at" \in DOMAIN job[w]
        BY DEF TypeOK, Jobs, Idle
      <4> QED
        BY <4>1
    <3>2. Same
      BY <1>0, <2>1, <3>1, OtherJobs DEF CheckEmbed
    <3> QED
      BY <2>1, <3>2 DEF CheckEmbed, ContentStep, AtWork
  <2>2. CASE CompleteRaises(w) \/ BeginArchive(w) \/ Abandon(w)
    <3>1. Same
      BY <1>0, <2>2, OtherJobs DEF CompleteRaises, BeginArchive, Abandon, Leave
    <3> QED
      BY <2>2, <3>1 DEF CompleteRaises, BeginArchive, Abandon, ContentStep, AtWork
  <2> QED
    BY <1>8, <2>1, <2>2
<1>9. ASSUME CommitEmbed(w) PROVE ContentStep(w)
  <2>1. Same
    BY <1>0, <1>9, OtherJobs DEF CommitEmbed
  <2> QED
    BY <1>9, <2>1 DEF CommitEmbed, ContentStep, AtWork
<1>10. ASSUME CommitPublish(w) \/ CommitArchive(w) PROVE ContentStep(w)
  <2>1. Same
    BY <1>0, <1>10, OtherJobs DEF CommitPublish, CommitArchive, Leave
  <2>2. \A old, u : u \in Versions =>
            Superseding(old, u) \in Rows /\ Superseding(old, u).content = version[u].content
    BY DEF Superseding, TypeOK, Rows, Statuses
  <2>3. \A u \in Versions : version'[u].content = version[u].content
    <3> DEFINE all == [u \in Versions |-> Superseding(job[w].old, u)]
    <3>1. /\ all \in [Versions -> Rows]
          /\ \A u \in Versions : all[u].content = version[u].content
      BY <2>2
    <3>2. CASE CommitArchive(w)
      BY <3>1, <3>2 DEF CommitArchive
    <3>3. CASE CommitPublish(w)
      <4>1. version' = [all EXCEPT ![job[w].v].status = "published"]
        BY <3>3 DEF CommitPublish
      <4> HIDE DEF all
      <4> QED
        BY <3>1, <4>1 DEF Rows
    <3> QED
      BY <1>10, <3>2, <3>3
  <2> QED
    BY <1>10, <2>1, <2>3 DEF CommitPublish, CommitArchive, ContentStep, AtWork
<1> QED
  BY <1>1, <1>2, <1>3, <1>4, <1>5, <1>6, <1>7, <1>8, <1>9, <1>10

LEMMA NoRefusalStep ==
  ASSUME IInv, NoRefusal, [Next]_vars
  PROVE  NoRefusal'
<1>1. CASE UNCHANGED vars
  BY <1>1 DEF vars, NoRefusal, Accepted
<1>2. ASSUME NEW w \in Workers, Next!(w) PROVE NoRefusal'
  <2>1. ContentStep(w)
    BY <1>2, ContentKept
  <2>2. ASSUME NEW x \in Workers, job[x].at \in AtWork
        PROVE  job[x].v \in Versions /\ Status(job[x].v) # "absent"
    BY <2>2, JobFields DEF IInv, TypeOK, JobOK, Owned
  <2>3. ASSUME NEW v \in Versions, chunks[v] # 0 PROVE Status(v) # "absent"
    BY <2>3 DEF IInv, RowsOK, ChunksTell, Embeddable
  <2>4. ASSUME NEW v \in Versions, Status(v) # "absent", Accepted(v) PROVE Accepted(v)'
    BY <2>1, <2>4 DEF ContentStep, Accepted
  <2>5. ASSUME NEW v \in Versions, chunks'[v] # 0 PROVE Accepted(v)'
    BY <2>1, <2>2, <2>3, <2>4, <2>5 DEF ContentStep, NoRefusal, AtWork
  <2>6. ASSUME NEW x \in Workers, job'[x].at = "completing"
        PROVE  version'[job'[x].v].content \notin Refusals
    <3>1. /\ job[x].at \in AtWork /\ job'[x].v = job[x].v /\ Accepted(job[x].v)
      BY <2>1, <2>6 DEF ContentStep, NoRefusal
    <3> QED
      BY <2>2, <2>4, <3>1 DEF Accepted
  <2> QED
    BY <2>5, <2>6 DEF NoRefusal, Accepted
<1>3. CASE Next
  BY <1>2, <1>3 DEF Next
<1> QED
  BY <1>1, <1>3

\* Whatever the workers do, a version whose document is refused gets no
\* chunks, and the chunks that processing stored for another lose no text and
\* repeat little (process_version.py).
THEOREM StoredChunksSound == Spec => []StoredChunksAreSound
<1>1. Init => NoRefusal
  BY DEF Init, NoRefusal, Idle
<1>2. IInv /\ NoRefusal /\ [Next]_vars => NoRefusal'
  BY NoRefusalStep
<1>3. IInv /\ NoRefusal => StoredChunksAreSound
  BY ChunkingSound DEF IInv, TypeOK, NoRefusal, Accepted, StoredChunksAreSound
<1> QED
  BY <1>1, <1>2, <1>3, Invariance, PTL DEF Spec

=============================================================================
