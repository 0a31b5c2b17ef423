------------------------ MODULE QueryEmbeddingCache ------------------------
(***************************************************************************)
(* QueryEmbeddingCache: the bounded, expiring LRU cache of query           *)
(* embeddings shared by the request threads of one process, which          *)
(* collapses simultaneous identical misses into one provider call.         *)
(*                                                                         *)
(* A block under the cache's lock is one action; the clock read before it, *)
(* the wait on an in-flight event and the loader are steps of their own.   *)
(* An in-flight event is named by the thread that created it: setting it   *)
(* sends whoever waits on it back to the top of the loop.                  *)
(***************************************************************************)
EXTENDS Integers, SequencesExt

CONSTANTS Threads,
          Keys,        \* digests of (descriptor, text)
          Failing,     \* keys whose loader may raise
          None,
          MaxEntries,  \* max_entries
          TTL,         \* ttl_seconds
          MaxClock     \* bound on the monotonic clock

ASSUME SizeAssumption ==
    MaxEntries \in Nat \ {0} /\ TTL \in Nat \ {0} /\ MaxClock \in Nat
ASSUME KeyAssumption == Failing \subseteq Keys /\ None \notin Threads

VARIABLES now,
          entries,   \* _entries, least recently used first
          inflight,  \* _inflight: the owner of the key's event, or None
          pc,
          key,       \* the key of each thread's current call
          began,     \* clock at the start of the call
          seen,      \* clock read by the loop's last pass
          event,     \* owner of the event the thread waits on
          result     \* the entry the thread's last call answered from

vars == <<now, entries, inflight, pc, key, began, seen, event, result>>

\* A vector is known by the key it was computed for.
Entries == [key : Keys, expires : Nat]

Init ==
    /\ now = 0
    /\ entries = <<>>
    /\ inflight = [k \in Keys |-> None]
    /\ pc = [t \in Threads |-> "idle"]
    /\ key = [t \in Threads |-> None]
    /\ began = [t \in Threads |-> 0]
    /\ seen = [t \in Threads |-> 0]
    /\ event = [t \in Threads |-> None]
    /\ result = [t \in Threads |-> None]

-----------------------------------------------------------------------------

\* Forms a plausible mistake would give the definitions below.
BugLoader(k) == None
BugWakeOne(k) ==
    LET waiting == {t \in Threads : pc[t] = "waiting" /\ key[t] = k}
    IN  IF waiting = {} THEN pc ELSE [pc EXCEPT ![CHOOSE t \in waiting : TRUE] = "top"]
BugEvicted(es) == IF Len(es) > MaxEntries + 1 THEN Tail(es) ELSE es
BugUsable(e, at) == TRUE

\* What _entries holds for the key, and the rest of it in order.
Cached(k) == {e \in ToSet(entries) : e.key = k}
Without(k) ==
    IF Cached(k) = {} THEN entries
    ELSE RemoveAt(entries, CHOOSE i \in DOMAIN entries : entries[i].key = k)

\* An entry a pass that read the clock at `at` may return.
Usable(e, at) == e.expires > at

\* _evict_if_required, after one insertion.
Evicted(es) == IF Len(es) > MaxEntries THEN Tail(es) ELSE es

\* Who computes the key right now.
Loader(k) == inflight[k]

\* The event popped from _inflight is set.
Wake(k) == [t \in Threads |-> IF pc[t] = "waiting" /\ key[t] = k /\ event[t] = inflight[k]
                              THEN "top" ELSE pc[t]]
Released(k) == [inflight EXCEPT ![k] = None]

-----------------------------------------------------------------------------
(* get_or_compute                                                          *)

Call(t, k) ==
    /\ pc[t] \in {"idle", "returned", "raised"}
    /\ pc' = [pc EXCEPT ![t] = "top"]
    /\ key' = [key EXCEPT ![t] = k]
    /\ began' = [began EXCEPT ![t] = now]
    /\ result' = [result EXCEPT ![t] = None]
    /\ UNCHANGED <<now, entries, inflight, seen, event>>

ReadClock(t) ==
    /\ pc[t] = "top"
    /\ pc' = [pc EXCEPT ![t] = "check"]
    /\ seen' = [seen EXCEPT ![t] = now]
    /\ event' = [event EXCEPT ![t] = None]
    /\ UNCHANGED <<now, entries, inflight, key, began, result>>

\* The clock value of a pass is not used after it.
EndPass(t) == seen' = [seen EXCEPT ![t] = 0]

\* A live entry is returned and becomes the most recently used.
Hit(t) ==
    /\ pc[t] = "check"
    /\ \E e \in Cached(key[t]) :
        /\ Usable(e, seen[t])
        /\ entries' = Append(Without(key[t]), e)
        /\ result' = [result EXCEPT ![t] = e]
    /\ pc' = [pc EXCEPT ![t] = "returned"]
    /\ EndPass(t)
    /\ UNCHANGED <<now, inflight, key, began, event>>

\* Otherwise an expired entry is dropped ...
Miss(t) ==
    /\ pc[t] = "check"
    /\ ~ \E e \in Cached(key[t]) : Usable(e, seen[t])
    /\ entries' = Without(key[t])

\* ... and the thread becomes the key's loader ...
Claim(t) ==
    /\ Miss(t)
    /\ Loader(key[t]) = None
    /\ inflight' = [inflight EXCEPT ![key[t]] = t]
    /\ pc' = [pc EXCEPT ![t] = "loading"]
    /\ EndPass(t)
    /\ UNCHANGED <<now, key, began, event, result>>

\* ... or waits for the thread that is.
Wait(t) ==
    /\ Miss(t)
    /\ Loader(key[t]) # None
    /\ event' = [event EXCEPT ![t] = inflight[key[t]]]
    /\ pc' = [pc EXCEPT ![t] = "waiting"]
    /\ EndPass(t)
    /\ UNCHANGED <<now, inflight, key, began, result>>

\* The loader returned: its vector is stored and waiters are woken.
Store(t) ==
    /\ pc[t] = "loading"
    /\ LET e == [key |-> key[t], expires |-> now + TTL] IN
        /\ entries' = Evicted(Append(Without(key[t]), e))
        /\ result' = [result EXCEPT ![t] = e]
    /\ inflight' = Released(key[t])
    /\ pc' = [Wake(key[t]) EXCEPT ![t] = "returned"]
    /\ UNCHANGED <<now, key, began, seen, event>>

\* The loader raised: nothing is stored, waiters are woken.
Fail(t) ==
    /\ pc[t] = "loading"
    /\ key[t] \in Failing
    /\ inflight' = Released(key[t])
    /\ pc' = [Wake(key[t]) EXCEPT ![t] = "raised"]
    /\ UNCHANGED <<now, entries, key, began, seen, event, result>>

-----------------------------------------------------------------------------

Clear ==
    /\ entries # <<>>
    /\ entries' = <<>>
    /\ UNCHANGED <<now, inflight, pc, key, began, seen, event, result>>

\* _remove_expired_entries, from reading `size`; the others keep their order.
RemoveExpired ==
    /\ LET live == {i \in DOMAIN entries : Usable(entries[i], now)} IN
       \E place \in [1 .. Cardinality(live) -> live] :
          /\ \A i, j \in DOMAIN place : i < j => place[i] < place[j]
          /\ entries' = [i \in DOMAIN place |-> entries[place[i]]]
    /\ UNCHANGED <<now, inflight, pc, key, began, seen, event, result>>

Tick ==
    /\ now' = now + 1
    /\ UNCHANGED <<entries, inflight, pc, key, began, seen, event, result>>

\* A thread inside a call goes on; a loader ends, one way or the other.
Run(t) == ReadClock(t) \/ Hit(t) \/ Claim(t) \/ Wait(t) \/ Store(t) \/ Fail(t)

Next ==
    \/ \E t \in Threads : Run(t) \/ \E k \in Keys : Call(t, k)
    \/ Clear
    \/ RemoveExpired
    \/ now < MaxClock /\ Tick

Spec == Init /\ [][Next]_vars
FairSpec == Spec /\ \A t \in Threads : WF_vars(Run(t))

-----------------------------------------------------------------------------

Locations == {"idle", "top", "check", "waiting", "loading", "returned", "raised"}

TypeOK ==
    /\ now \in Nat
    /\ entries \in Seq(Entries) /\ Len(entries) <= MaxEntries
    /\ \A i, j \in DOMAIN entries : entries[i].key = entries[j].key => i = j
    /\ inflight \in [Keys -> Threads \cup {None}]
    /\ pc \in [Threads -> Locations]
    /\ key \in [Threads -> Keys \cup {None}]
    /\ began \in [Threads -> Nat] /\ seen \in [Threads -> Nat]
    /\ event \in [Threads -> Threads \cup {None}]
    /\ result \in [Threads -> Entries \cup {None}]

\* Simultaneous identical misses are one computation: a key has at most one
\* thread in its loader, and _inflight names exactly that thread.
OneLoaderPerKey ==
    \A k \in Keys : {t \in Threads : pc[t] = "loading" /\ key[t] = k}
                        = IF inflight[k] = None THEN {} ELSE {inflight[k]}

\* No lost wake-up: whoever waits does so on the event of a thread that is
\* computing the same key and will set it.
WaitersHaveLoader ==
    \A t \in Threads : pc[t] = "waiting" =>
        /\ event[t] \in Threads
        /\ pc[event[t]] = "loading"
        /\ key[event[t]] = key[t]

\* Whatever a call waited through, its answer is for its own key and had not
\* expired when the call began.
AnswerIsCurrent ==
    \A t \in Threads : pc[t] = "returned" =>
        /\ result[t].key = key[t]
        /\ result[t].expires > began[t]

\* Every wait ends, failed loads included.
WaitsEnd == \A t \in Threads : pc[t] = "waiting" ~> pc[t] # "waiting"
=============================================================================
