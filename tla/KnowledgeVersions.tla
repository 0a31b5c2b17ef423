------------------------- MODULE KnowledgeVersions -------------------------
(***************************************************************************)
(* The versions of one knowledge document, from upload to publication, and *)
(* its archival, by workers that act at once.                              *)
(*                                                                         *)
(* Create, claim, publish and archive lock the document row FOR UPDATE for *)
(* the whole transaction; claim and publish then lock the version row too. *)
(* Processing completes or fails under the version's lock alone, embedding *)
(* takes no lock.  A transaction is two steps, the one that has its locks  *)
(* and has read, and the one that commits; one that locks the only row it  *)
(* reads is one step.                                                      *)
(***************************************************************************)
EXTENDS Integers, StructuralChunking

CONSTANTS Versions,  \* ids of version rows
          Workers,   \* request threads
          Contents,  \* source contents, told apart by content_hash
          Normalized, \* what parsing and normalizing make of a content
          None,
          MaxClaims  \* bound on the attempts to process one version

ASSUME NoneAssumption == None \notin Versions /\ None \notin Workers /\ None \notin Contents
ASSUME BoundAssumption == MaxClaims \in Nat
ASSUME NormalizedAssumption == Normalized \in [Contents -> Segmented]

VARIABLES document,   \* status of the document
          version,    \* version rows, by id
          chunks,     \* chunk rows of a version: how often they were stored, 0 if never
          embedded,   \* [version, set of chunks] whose embeddings are stored
          audit,      \* number of audit events of each type, by version
          job,        \* what each worker is in the middle of
          holder,     \* worker holding the document's row lock
          claimed     \* worker holding a version's row lock

vars == <<document, version, chunks, embedded, audit, job, holder, claimed>>

Statuses == {"absent", "draft", "processing", "ready", "failed", "published", "superseded"}
Events == {"started", "completed", "failed", "embedded", "published"}

Rows == [status : Statuses, number : Nat, content : Contents \cup {None}, uploaded : BOOLEAN]
Absent == [status |-> "absent", number |-> 0, content |-> None, uploaded |-> FALSE]

Idle == [at |-> "idle"]
Jobs == {Idle}
    \cup [at : {"creating"}, content : Contents, uploaded : BOOLEAN]
    \cup [at : {"claiming", "processing", "completing", "failing"}, v : Versions]
    \cup [at : {"embedding", "inserting"}, v : Versions, set : Nat]
    \cup [at : {"publishing"}, v : Versions, old : Versions \cup {None}]
    \cup [at : {"archiving"}, old : Versions \cup {None}]

TypeOK ==
    /\ document \in {"active", "archived"}
    /\ version \in [Versions -> Rows]
    /\ chunks \in [Versions -> Nat]
    /\ embedded \subseteq [v : Versions, set : Nat]
    /\ audit \in [Versions -> [Events -> Nat]]
    /\ job \in [Workers -> Jobs]
    /\ holder \in Workers \cup {None}
    /\ claimed \in [Versions -> Workers \cup {None}]

\* A document created empty by CreateKnowledgeDocument.
Init ==
    /\ document = "active"
    /\ version = [v \in Versions |-> Absent]
    /\ chunks = [v \in Versions |-> 0]
    /\ embedded = {}
    /\ audit = [v \in Versions |-> [e \in Events |-> 0]]
    /\ job = [w \in Workers |-> Idle]
    /\ holder = None
    /\ claimed = [v \in Versions |-> None]

\* Contents whose document the chunker refuses.
Refusals == {c \in Contents : Refused(Normalized[c])}

-----------------------------------------------------------------------------
(* Rules the operations share.                                             *)

Status(v) == version[v].status
Existing == {v \in Versions : Status(v) # "absent"}

\* Forms a plausible mistake would give the definitions below.
BugFree == TRUE
BugClaimable(v) == Status(v) \in {"draft", "failed", "processing"}
BugReclaimable(v) == Status(v) \in {"draft", "failed", "ready"}
BugCovered(v) == chunks[v] # 0
BugPublishable(v) == Status(v) \in {"ready", "superseded"}

\* get_by_id_for_update on the document waits for the holder.
Free == holder = None

\* ... and so for a version.
Unclaimed(v) == claimed[v] = None

\* next_version_number, under the document's lock.
NextNumber == IF Existing = {} THEN 1 ELSE Max({version[v].number : v \in Existing}) + 1

\* get_by_document_and_content_hash
Duplicate(c) == \E v \in Existing : version[v].content = c

\* _ensure_claimable
Claimable(v) == Status(v) \in {"draft", "failed"}

\* _ensure_still_owned_for_processing
Owned(v) == Status(v) = "processing"

\* _ensure_version_embeddable
Embeddable(v) == Status(v) \in {"ready", "published", "superseded"}

\* get_coverage_for_version: there are chunks and each has its embedding.
Artifact(v) == [v |-> v, set |-> chunks[v]]
Covered(v) == chunks[v] # 0 /\ Artifact(v) \in embedded

\* on_conflict_do_nothing returns the rows it inserted.
NewArtifact(a) == a \notin embedded

Publishable(v) == Status(v) = "ready"

\* get_published_for_document
Published == {v \in Versions : Status(v) = "published"}
Current == IF Published = {} THEN None ELSE CHOOSE v \in Published : TRUE

\* Supersession of the version that was current, if any.
Superseding(old, v) == IF v = old THEN [version[v] EXCEPT !.status = "superseded"] ELSE version[v]

Record(v, e) == audit' = [audit EXCEPT ![v][e] = @ + 1]
Become(w, j) == job' = [job EXCEPT ![w] = j]

\* The end of a transaction, and of a request.
Unlock(w) ==
    /\ holder' = IF holder = w THEN None ELSE holder
    /\ claimed' = [v \in Versions |-> IF claimed[v] = w THEN None ELSE claimed[v]]
Leave(w) == Become(w, Idle) /\ Unlock(w)

-----------------------------------------------------------------------------
(* UploadKnowledgeVersion and CreateKnowledgeVersion                       *)

\* Locks the document; an upload whose content exists returns that version.
BeginCreate(w, c, uploaded) ==
    /\ job[w] = Idle
    /\ Free
    /\ document = "active"
    /\ uploaded => ~Duplicate(c)
    /\ Become(w, [at |-> "creating", content |-> c, uploaded |-> uploaded])
    /\ holder' = w
    /\ UNCHANGED <<document, version, chunks, embedded, audit, claimed>>

CommitCreate(w, v) ==
    /\ job[w].at = "creating"
    /\ v \notin Existing
    /\ version' = [version EXCEPT ![v] =
            [status |-> "draft", number |-> NextNumber,
             content |-> job[w].content, uploaded |-> job[w].uploaded]]
    /\ Leave(w)
    /\ UNCHANGED <<document, chunks, embedded, audit>>

-----------------------------------------------------------------------------
(* ProcessKnowledgeVersion                                                 *)

\* _claim_version
BeginClaim(w, v) ==
    /\ job[w] = Idle
    /\ Free
    /\ document = "active"
    /\ Unclaimed(v)
    /\ Claimable(v)
    /\ audit[v]["started"] < MaxClaims
    /\ Become(w, [at |-> "claiming", v |-> v])
    /\ holder' = w
    /\ claimed' = [claimed EXCEPT ![v] = w]
    /\ UNCHANGED <<document, version, chunks, embedded, audit>>

CommitClaim(w) ==
    /\ job[w].at = "claiming"
    /\ version' = [version EXCEPT ![job[w].v].status = "processing"]
    /\ Record(job[w].v, "started")
    /\ Become(w, [at |-> "processing", v |-> job[w].v])
    /\ Unlock(w)
    /\ UNCHANGED <<document, chunks, embedded>>

\* Parsing, normalizing and chunking, in no transaction, yield or raise, and
\* always raise where the chunker refuses the document.
Process(w, result) ==
    /\ job[w].at = "processing"
    /\ result = "completing" => version[job[w].v].content \notin Refusals
    /\ Become(w, [at |-> result, v |-> job[w].v])
    /\ UNCHANGED <<document, version, chunks, embedded, audit, holder, claimed>>

\* _complete replaces the chunks, whose embeddings go with them; the
\* document may be archived by now.
Complete(w) ==
    /\ job[w].at = "completing"
    /\ LET v == job[w].v IN
        /\ Unclaimed(v)
        /\ Owned(v)
        /\ chunks' = [chunks EXCEPT ![v] = @ + 1]
        /\ embedded' = {a \in embedded : a.v # v}
        /\ version' = [version EXCEPT ![v].status = "ready"]
        /\ Record(v, "completed")
    /\ Become(w, Idle)
    /\ UNCHANGED <<document, holder, claimed>>

\* It raises: the version is not processing any more, or a statement failed.
CompleteRaises(w) ==
    /\ job[w].at = "completing"
    /\ Become(w, [at |-> "failing", v |-> job[w].v])
    /\ UNCHANGED <<document, version, chunks, embedded, audit, holder, claimed>>

\* _fail leaves alone a version that another actor completed or failed.
Fail(w) ==
    /\ job[w].at = "failing"
    /\ LET v == job[w].v IN
        /\ Unclaimed(v)
        /\ IF Owned(v)
           THEN version' = [version EXCEPT ![v].status = "failed"] /\ Record(v, "failed")
           ELSE UNCHANGED <<version, audit>>
    /\ Become(w, Idle)
    /\ UNCHANGED <<document, chunks, embedded, holder, claimed>>

-----------------------------------------------------------------------------
(* EmbedKnowledgeVersion                                                   *)

\* _load_snapshot and _load_existing_keys; with nothing missing it returns.
BeginEmbed(w, v) ==
    /\ job[w] = Idle
    /\ Embeddable(v)
    /\ chunks[v] # 0
    /\ Artifact(v) \notin embedded
    /\ Become(w, [at |-> "embedding", v |-> v, set |-> chunks[v]])
    /\ UNCHANGED <<document, version, chunks, embedded, audit, holder, claimed>>

\* After the provider's answer _persist_generated reads both again.
CheckEmbed(w) ==
    /\ job[w].at = "embedding"
    /\ IF Embeddable(job[w].v) /\ [v |-> job[w].v, set |-> job[w].set] \notin embedded
       THEN Become(w, [job[w] EXCEPT !.at = "inserting"])
       ELSE Become(w, Idle)
    /\ UNCHANGED <<document, version, chunks, embedded, audit, holder, claimed>>

\* The insert waits for one of the same rows, skips rows that exist, and
\* fails if their chunks do not; only rows it inserted are audited.
CommitEmbed(w) ==
    /\ job[w].at = "inserting"
    /\ LET a == [v |-> job[w].v, set |-> job[w].set] IN
        /\ a.set = chunks[a.v]
        /\ embedded' = embedded \cup {a}
        /\ IF NewArtifact(a) THEN Record(a.v, "embedded") ELSE UNCHANGED audit
    /\ Become(w, Idle)
    /\ UNCHANGED <<document, version, chunks, holder, claimed>>

-----------------------------------------------------------------------------
(* PublishKnowledgeVersion and ArchiveKnowledgeDocument                    *)

\* Publishing what is published already changes nothing, and is no step.
BeginPublish(w, v) ==
    /\ job[w] = Idle
    /\ Free
    /\ document = "active"
    /\ Unclaimed(v)
    /\ v # Current
    /\ Publishable(v)
    /\ Covered(v)
    /\ Become(w, [at |-> "publishing", v |-> v, old |-> Current])
    /\ holder' = w
    /\ claimed' = [claimed EXCEPT ![v] = w]
    /\ UNCHANGED <<document, version, chunks, embedded, audit>>

\* Supersession and publication commit together, and the partial unique
\* index refuses a second published version.
CommitPublish(w) ==
    /\ job[w].at = "publishing"
    /\ Published \subseteq {job[w].old}
    /\ version' = [[v \in Versions |-> Superseding(job[w].old, v)]
                       EXCEPT ![job[w].v].status = "published"]
    /\ Record(job[w].v, "published")
    /\ Leave(w)
    /\ UNCHANGED <<document, chunks, embedded>>

BeginArchive(w) ==
    /\ job[w] = Idle
    /\ Free
    /\ document = "active"
    /\ Become(w, [at |-> "archiving", old |-> Current])
    /\ holder' = w
    /\ UNCHANGED <<document, version, chunks, embedded, audit, claimed>>

CommitArchive(w) ==
    /\ job[w].at = "archiving"
    /\ version' = [v \in Versions |-> Superseding(job[w].old, v)]
    /\ document' = "archived"
    /\ Leave(w)
    /\ UNCHANGED <<chunks, embedded, audit>>

-----------------------------------------------------------------------------

\* A transaction is rolled back, a provider call raises, or the process
\* dies.  A version it was processing is then left in "processing".
Abandon(w) ==
    /\ job[w] # Idle
    /\ Leave(w)
    /\ UNCHANGED <<document, version, chunks, embedded, audit>>

Next ==
    \E w \in Workers :
        \/ \E c \in Contents, uploaded \in BOOLEAN : BeginCreate(w, c, uploaded)
        \/ \E v \in Versions :
            \/ CommitCreate(w, v)
            \/ BeginClaim(w, v) \/ BeginEmbed(w, v) \/ BeginPublish(w, v)
        \/ CommitClaim(w)
        \/ \E result \in {"completing", "failing"} : Process(w, result)
        \/ Complete(w) \/ CompleteRaises(w) \/ Fail(w)
        \/ CheckEmbed(w) \/ CommitEmbed(w)
        \/ CommitPublish(w) \/ BeginArchive(w) \/ CommitArchive(w)
        \/ Abandon(w)

Spec == Init /\ [][Next]_vars

-----------------------------------------------------------------------------

\* What retrieval serves is complete: the published version has chunks, all
\* embedded, and its document is not archived, whatever was archived,
\* reprocessed or embedded while it was being published.
PublishedIsServable ==
    \A v \in Published :
        document = "active" /\ chunks[v] # 0 /\ [v |-> v, set |-> chunks[v]] \in embedded

\* At most one worker is processing a version, failed attempts and retries
\* included; each attempt is audited as started and, unless its worker died,
\* as completed or failed.
Processing(v) == {w \in Workers : job[w].at \in {"processing", "completing", "failing"} /\ job[w].v = v}
OneProcessor ==
    \A v \in Versions :
        /\ Cardinality(Processing(v)) <= 1
        /\ audit[v]["started"] - audit[v]["completed"] - audit[v]["failed"]
              = IF Status(v) = "processing" THEN 1 ELSE 0
        /\ audit[v]["completed"] <= 1

\* Two workers that embed a version at once store and audit it once.
EmbeddingAuditedOnce ==
    \A v \in Versions : audit[v]["embedded"] = Cardinality({a \in embedded : a.v = v})

\* An upload never repeats the content of an earlier version; versions are
\* numbered in the order they were created, without gap.
UploadsAreNew ==
    /\ {version[v].number : v \in Existing} = 1..Cardinality(Existing)
    /\ \A v, w \in Existing :
        version[v].uploaded /\ version[v].content = version[w].content =>
            version[v].number <= version[w].number

\* The chunks of a version are stored once, and no embedding is lost: what
\* was embedded is what is published and what retrieval finds later.
ArtifactsStay ==
    [][/\ \A v \in Versions : chunks[v] # 0 => chunks'[v] = chunks[v]
       /\ embedded \subseteq embedded']_vars

\* A version whose document the chunker refuses never gets chunks, whatever
\* its attempts; the chunks that processing stored for the others
\* (process_version.py) lose none of the text and repeat little, and nothing
\* but a heading that no text could join in its chunk makes one refused.
StoredChunksAreSound ==
    \A v \in Versions : chunks[v] > 0 => ChunkingIsSound /\ version[v].content \notin Refusals

\* One version at a time is served, none comes back, and none after archival.
Publication ==
    INSTANCE PublishedVersion WITH
        active <- document = "active",
        current <- Current,
        retired <- {v \in Versions : Status(v) = "superseded"}
RefinesPublication == Publication!Spec
=============================================================================
