--------------------- MODULE QueryEmbeddingCacheProofs ---------------------
(***************************************************************************)
(* For any number of threads, keys and entries and any clock: one loader   *)
(* per key, no lost wake-up, a bounded cache and no stale answer.  The     *)
(* first two are about _inflight alone (IInv): it names the thread that is *)
(* loading, and every waiter waits on the event _inflight holds at that    *)
(* moment.  The others are about _entries (StorageInv) and the order of    *)
(* clock readings (TimeInv).                                               *)
(***************************************************************************)
EXTENDS QueryEmbeddingCache, FiniteSetTheorems, TLAPS

\* The part of the state the argument needs.
Flight ==
    /\ inflight \in [Keys -> Threads \cup {None}]
    /\ pc \in [Threads -> Locations]
    /\ event \in [Threads -> Threads \cup {None}]
    /\ key \in [Threads -> Keys \cup {None}]
    /\ \A t \in Threads : pc[t] \in Locations \ {"idle"} => key[t] \in Keys

\* A waiter's event is the one registered for its key right now.
WaitersRegistered ==
    \A t \in Threads : pc[t] = "waiting" =>
        event[t] \in Threads /\ event[t] = inflight[key[t]]

\* A pointwise form of OneLoaderPerKey.
LoaderRegistered ==
    \A t \in Threads, k \in Keys : inflight[k] = t <=> pc[t] = "loading" /\ key[t] = k

IInv == Flight /\ WaitersRegistered /\ LoaderRegistered

\* The cache starts with nothing in flight.
LEMMA InitIInv == Init => IInv
  BY KeyAssumption
  DEF Init, IInv, Flight, WaitersRegistered, LoaderRegistered, Locations

\* Setting an event moves only threads that wait on it, and all of them.
LEMMA WakeMoves ==
  ASSUME IInv, NEW k \in Keys
  PROVE  /\ Wake(k) \in [Threads -> Locations]
         /\ \A t \in Threads :
               \/ pc[t] = "waiting" /\ key[t] = k /\ Wake(k)[t] = "top"
               \/ Wake(k)[t] = pc[t] /\ ~(pc[t] = "waiting" /\ key[t] = k)
  BY DEF IInv, Flight, WaitersRegistered, Wake, Locations

\* A computation ends, stored or failed: the key is free and nobody waits on it.
LEMMA EndOfLoad ==
  ASSUME IInv, NEW t \in Threads, pc[t] = "loading", NEW l \in {"returned", "raised"},
         inflight' = Released(key[t]), pc' = [Wake(key[t]) EXCEPT ![t] = l],
         UNCHANGED <<key, event>>
  PROVE  IInv'
<1>0. Flight /\ WaitersRegistered /\ LoaderRegistered
  BY DEF IInv
<1>1. key[t] \in Keys /\ inflight[key[t]] = t
  BY <1>0 DEF Flight, LoaderRegistered, Locations
<1>2. Wake(key[t]) \in [Threads -> Locations]
  BY <1>1, WakeMoves
<1>3. \A u \in Threads :
        \/ pc[u] = "waiting" /\ key[u] = key[t] /\ Wake(key[t])[u] = "top"
        \/ Wake(key[t])[u] = pc[u] /\ ~(pc[u] = "waiting" /\ key[u] = key[t])
  BY <1>1, WakeMoves
<1>4. /\ pc'[t] = l
      /\ \A u \in Threads \ {t} : pc'[u] = Wake(key[t])[u]
      /\ pc' \in [Threads -> Locations]
  BY <1>2 DEF Locations
<1>5. /\ inflight'[key[t]] = None
      /\ \A k \in Keys \ {key[t]} : inflight'[k] = inflight[k]
      /\ inflight' \in [Keys -> Threads \cup {None}]
  BY <1>0, <1>1 DEF Flight, Released
<1>6. Flight'
  BY <1>0, <1>1, <1>3, <1>4, <1>5 DEF Flight, Locations
<1>7. WaitersRegistered'
  <2> SUFFICES ASSUME NEW u \in Threads, pc'[u] = "waiting"
               PROVE  event'[u] \in Threads /\ event'[u] = inflight'[key'[u]]
    BY DEF WaitersRegistered
  <2>1. u # t
    BY <1>4
  <2>2. pc[u] = "waiting" /\ key[u] # key[t]
    BY <1>3, <1>4, <2>1
  <2>3. key[u] \in Keys
    BY <1>0, <2>2 DEF Flight, Locations
  <2> QED
    BY <1>0, <1>5, <2>2, <2>3 DEF WaitersRegistered
<1>8. LoaderRegistered'
  <2> SUFFICES ASSUME NEW u \in Threads, NEW k \in Keys
               PROVE  inflight'[k] = u <=> pc'[u] = "loading" /\ key'[u] = k
    BY DEF LoaderRegistered
  <2>1. inflight[k] = u <=> pc[u] = "loading" /\ key[u] = k
    BY <1>0 DEF LoaderRegistered
  <2>2. u # t => (pc'[u] = "loading" <=> pc[u] = "loading")
    BY <1>3, <1>4
  <2>3. CASE u = t
    BY <1>1, <1>4, <1>5, <2>1, <2>3, KeyAssumption
  <2>4. CASE u # t /\ k = key[t]
    BY <1>1, <1>5, <2>1, <2>2, <2>4, KeyAssumption
  <2>5. CASE u # t /\ k # key[t]
    BY <1>5, <2>1, <2>2, <2>5
  <2> QED
    BY <2>3, <2>4, <2>5
<1> QED
  BY <1>6, <1>7, <1>8 DEF IInv

\* No step of any thread disturbs the registration of loaders and waiters.
LEMMA StepIInv == IInv /\ [Next]_vars => IInv'
<1> SUFFICES ASSUME IInv, [Next]_vars PROVE IInv'
  OBVIOUS
<1>0. Flight /\ WaitersRegistered /\ LoaderRegistered
  BY DEF IInv
<1>1. ASSUME NEW t \in Threads, NEW k \in Keys, Call(t, k) PROVE IInv'
  BY <1>0, <1>1 DEF IInv, Flight, WaitersRegistered, LoaderRegistered, Call, Locations
<1>2. ASSUME NEW t \in Threads, ReadClock(t) PROVE IInv'
  BY <1>0, <1>2 DEF IInv, Flight, WaitersRegistered, LoaderRegistered, ReadClock, Locations
<1>3. ASSUME NEW t \in Threads, Hit(t) PROVE IInv'
  BY <1>0, <1>3 DEF IInv, Flight, WaitersRegistered, LoaderRegistered, Hit, Locations
<1>4. ASSUME NEW t \in Threads, Claim(t) PROVE IInv'
  <2>1. key[t] \in Keys /\ inflight[key[t]] = None /\ pc[t] = "check"
    BY <1>0, <1>4 DEF Flight, Claim, Miss, Loader, Locations
  <2>2. /\ inflight' = [inflight EXCEPT ![key[t]] = t]
        /\ pc' = [pc EXCEPT ![t] = "loading"]
        /\ UNCHANGED <<key, event>>
    BY <1>4 DEF Claim
  <2>3. \A u \in Threads : pc[u] = "waiting" => key[u] # key[t]
    BY <1>0, <2>1, KeyAssumption DEF WaitersRegistered
  <2> QED
    BY <1>0, <2>1, <2>2, <2>3, KeyAssumption
    DEF IInv, Flight, WaitersRegistered, LoaderRegistered, Locations
<1>5. ASSUME NEW t \in Threads, Wait(t) PROVE IInv'
  BY <1>0, <1>5 DEF IInv, Flight, WaitersRegistered, LoaderRegistered, Wait, Miss, Loader, Locations
<1>6. ASSUME NEW t \in Threads, Store(t) PROVE IInv'
  BY <1>6, EndOfLoad DEF Store
<1>7. ASSUME NEW t \in Threads, Fail(t) PROVE IInv'
  BY <1>7, EndOfLoad DEF Fail
<1>8. CASE Clear \/ RemoveExpired \/ Tick \/ UNCHANGED vars
  BY <1>0, <1>8
  DEF IInv, Flight, WaitersRegistered, LoaderRegistered, Clear, RemoveExpired, Tick, vars
<1> QED
  BY <1>1, <1>2, <1>3, <1>4, <1>5, <1>6, <1>7, <1>8 DEF Next, Run

\* Registration holds in every reachable state.
THEOREM Invariance == Spec => []IInv
<1>1. Init => IInv
  BY InitIInv
<1>2. IInv /\ [Next]_vars => IInv'
  BY StepIInv
<1> QED
  BY <1>1, <1>2, PTL DEF Spec

\* Simultaneous identical misses are one computation, for any number of
\* threads and keys.
THEOREM SingleFlight == Spec => []OneLoaderPerKey
<1>1. IInv => OneLoaderPerKey
  <2> SUFFICES ASSUME IInv, NEW k \in Keys
               PROVE  {t \in Threads : pc[t] = "loading" /\ key[t] = k}
                          = IF inflight[k] = None THEN {} ELSE {inflight[k]}
    BY DEF OneLoaderPerKey
  <2>1. inflight[k] \in Threads \cup {None}
    BY DEF IInv, Flight
  <2>2. \A t \in Threads : inflight[k] = t <=> pc[t] = "loading" /\ key[t] = k
    BY DEF IInv, LoaderRegistered
  <2> QED
    BY <2>1, <2>2, KeyAssumption
<1> QED
  BY <1>1, Invariance, PTL

\* No thread waits for an event that nobody is going to set.
THEOREM NoLostWakeUp == Spec => []WaitersHaveLoader
<1>1. IInv => WaitersHaveLoader
  <2> SUFFICES ASSUME IInv, NEW t \in Threads, pc[t] = "waiting"
               PROVE  event[t] \in Threads /\ pc[event[t]] = "loading" /\ key[event[t]] = key[t]
    BY DEF WaitersHaveLoader
  <2>1. event[t] \in Threads /\ inflight[key[t]] = event[t] /\ key[t] \in Keys
    BY DEF IInv, Flight, WaitersRegistered, Locations
  <2> QED
    BY <2>1 DEF IInv, LoaderRegistered
<1> QED
  BY <1>1, Invariance, PTL

-----------------------------------------------------------------------------
(***************************************************************************)
(* The entries: bounded, one per key, and none returned that had expired   *)
(* when the call began.                                                    *)
(***************************************************************************)

Distinct(es) == \A i, j \in DOMAIN es : es[i].key = es[j].key => i = j

StorageInv == entries \in Seq(Entries) /\ Len(entries) <= MaxEntries /\ Distinct(entries)

\* A pass reads the clock after the call began.
TimeInv ==
    /\ now \in Nat
    /\ began \in [Threads -> Nat] /\ seen \in [Threads -> Nat]
    /\ result \in [Threads -> Entries \cup {None}]
    /\ \A t \in Threads : began[t] <= now /\ (pc[t] = "check" => began[t] <= seen[t])

\* Taking a key's entry out leaves the others in their order, and room for it.
LEMMA WithoutFacts ==
  ASSUME StorageInv, NEW k \in Keys
  PROVE  /\ Without(k) \in Seq(Entries) /\ Distinct(Without(k))
         /\ \A i \in DOMAIN Without(k) : Without(k)[i].key # k
         /\ Len(Without(k)) <= Len(entries)
         /\ Cached(k) # {} => Len(Without(k)) < Len(entries)
<1> DEFINE n == Len(entries)
           rest == Without(k)
<1>0. /\ entries \in Seq(Entries) /\ n \in Nat /\ DOMAIN entries = 1 .. n
      /\ \A i, j \in 1 .. n : entries[i].key = entries[j].key => i = j
  BY DEF StorageInv, Distinct
<1>1. CASE Cached(k) = {}
  <2>1. rest = entries
    BY <1>1 DEF Without
  <2>2. \A i \in DOMAIN entries : entries[i].key # k
    BY <1>1 DEF Cached, ToSet
  <2> QED
    BY <1>0, <1>1, <2>1, <2>2 DEF StorageInv
<1>2. CASE Cached(k) # {}
  <2> DEFINE i == CHOOSE i \in DOMAIN entries : entries[i].key = k
             from(j) == IF j < i THEN j ELSE j + 1
  <2>1. i \in 1 .. n /\ entries[i].key = k
    BY <1>0, <1>2 DEF Cached, ToSet
  <2>2. rest = SubSeq(entries, 1, i - 1) \o SubSeq(entries, i + 1, n)
    BY <1>2 DEF Without, RemoveAt
  <2> HIDE DEF i, n, rest
  <2>3. /\ rest \in Seq(Entries)
        /\ Len(rest) = n - 1
        /\ \A j \in 1 .. n - 1 : rest[j] = IF j < i THEN entries[j] ELSE entries[j + 1]
    <3>0. \A j \in 1 .. n : entries[j] \in Entries
      BY <1>0
    <3>1. /\ SubSeq(entries, 1, i - 1) \in Seq(Entries)
          /\ Len(SubSeq(entries, 1, i - 1)) = i - 1
          /\ \A j \in 1 .. i - 1 : SubSeq(entries, 1, i - 1)[j] = entries[j]
      BY <1>0, <2>1, <3>0
    <3>2. /\ SubSeq(entries, i + 1, n) \in Seq(Entries)
          /\ Len(SubSeq(entries, i + 1, n)) = n - i
          /\ \A j \in 1 .. n - i : SubSeq(entries, i + 1, n)[j] = entries[j + i]
      BY <1>0, <2>1, <3>0
    <3> QED
      BY <1>0, <2>1, <2>2, <3>1, <3>2
  <2>4. DOMAIN rest = 1 .. n - 1
    BY <1>0, <2>1, <2>3
  <2>5. \A j \in 1 .. n - 1 : from(j) \in 1 .. n /\ from(j) # i /\ rest[j] = entries[from(j)]
    BY <1>0, <2>1, <2>3
  <2>6. \A a, b \in 1 .. n - 1 : from(a) = from(b) => a = b
    BY <1>0, <2>1
  <2> HIDE DEF from
  <2>7. Distinct(rest)
    <3> SUFFICES ASSUME NEW a \in 1 .. n - 1, NEW b \in 1 .. n - 1, rest[a].key = rest[b].key
                 PROVE  a = b
      BY <2>4 DEF Distinct
    <3>1. from(a) = from(b)
      BY <1>0, <2>5
    <3> QED
      BY <2>6, <3>1
  <2>8. \A j \in DOMAIN rest : rest[j].key # k
    BY <1>0, <2>1, <2>4, <2>5
  <2>9. n - 1 <= n /\ n - 1 < n
    BY <1>0
  <2> QED
    BY <2>3, <2>7, <2>8, <2>9 DEF n, rest
<1> QED
  BY <1>1, <1>2

\* An entry for a key that has none joins at the end.
LEMMA AppendFacts ==
  ASSUME NEW es \in Seq(Entries), Distinct(es), NEW e \in Entries,
         \A i \in DOMAIN es : es[i].key # e.key
  PROVE  /\ Append(es, e) \in Seq(Entries) /\ Distinct(Append(es, e))
         /\ Len(Append(es, e)) = Len(es) + 1
<1> DEFINE n == Len(es)
<1>1. n \in Nat /\ DOMAIN es = 1 .. n /\ DOMAIN Append(es, e) = 1 .. n + 1
  OBVIOUS
<1>2. /\ \A i \in 1 .. n : Append(es, e)[i] = es[i] /\ es[i].key # e.key
      /\ Append(es, e)[n + 1] = e
  BY <1>1
<1>3. Distinct(Append(es, e))
  BY <1>1, <1>2 DEF Distinct
<1> QED
  BY <1>1, <1>3

\* The oldest entry makes room for the one that was inserted.
LEMMA EvictedFacts ==
  ASSUME NEW es \in Seq(Entries), Distinct(es), Len(es) <= MaxEntries + 1
  PROVE  /\ Evicted(es) \in Seq(Entries) /\ Len(Evicted(es)) <= MaxEntries
         /\ Distinct(Evicted(es))
<1>0. Len(es) \in Nat /\ MaxEntries \in Nat \ {0} /\ DOMAIN es = 1 .. Len(es)
  BY SizeAssumption
<1>1. CASE Len(es) > MaxEntries
  <2>1. /\ Evicted(es) = Tail(es) /\ Tail(es) \in Seq(Entries) /\ Len(Tail(es)) = Len(es) - 1
        /\ \A i \in 1 .. Len(es) - 1 : Tail(es)[i] = es[i + 1]
    BY <1>0, <1>1 DEF Evicted
  <2>2. DOMAIN Tail(es) = 1 .. Len(es) - 1
    BY <1>0, <1>1, <2>1
  <2>3. Distinct(Tail(es))
    <3> SUFFICES ASSUME NEW i \in 1 .. Len(es) - 1, NEW j \in 1 .. Len(es) - 1,
                        Tail(es)[i].key = Tail(es)[j].key
                 PROVE  i = j
      BY <2>2 DEF Distinct
    <3>1. es[i + 1].key = es[j + 1].key /\ i + 1 \in DOMAIN es /\ j + 1 \in DOMAIN es
      BY <1>0, <2>1
    <3>2. i + 1 = j + 1
      BY <3>1 DEF Distinct
    <3> QED
      BY <1>0, <3>2
  <2> QED
    BY <1>0, <2>1, <2>3
<1>2. CASE ~(Len(es) > MaxEntries)
  BY <1>0, <1>2 DEF Evicted
<1> QED
  BY <1>1, <1>2

\* What is not expired fits where it was.
LEMMA ExpiryFacts ==
  ASSUME StorageInv, NEW live \in SUBSET (DOMAIN entries),
         NEW place \in [1 .. Cardinality(live) -> live],
         \A i, j \in DOMAIN place : i < j => place[i] < place[j],
         entries' = [i \in DOMAIN place |-> entries[place[i]]]
  PROVE  StorageInv'
<1> DEFINE n == Len(entries)
           m == Cardinality(live)
<1>0. entries \in Seq(Entries) /\ n \in Nat /\ n <= MaxEntries /\ DOMAIN entries = 1 .. n
  BY DEF StorageInv
<1>1. IsFiniteSet(1 .. n) /\ Cardinality(1 .. n) = n
  BY <1>0, FS_Interval
<1>2. m \in Nat /\ m <= n
  BY <1>0, <1>1, FS_Subset, FS_CardinalityType
<1> HIDE DEF m
<1>3. DOMAIN place = 1 .. m /\ \A i \in 1 .. m : place[i] \in 1 .. n
  BY <1>0 DEF m
<1>4. /\ entries' \in Seq(Entries) /\ Len(entries') = m /\ DOMAIN entries' = 1 .. m
      /\ \A i \in 1 .. m : entries'[i] = entries[place[i]]
  <2>1. entries' \in [1 .. m -> Entries]
    BY <1>0, <1>3
  <2> QED
    BY <1>2, <1>3, <2>1
<1>5. Distinct(entries')
  <2> SUFFICES ASSUME NEW i \in 1 .. m, NEW j \in 1 .. m, entries'[i].key = entries'[j].key
               PROVE  i = j
    BY <1>4 DEF Distinct
  <2>1. place[i] = place[j] /\ place[i] \in Nat
    BY <1>0, <1>3, <1>4 DEF StorageInv, Distinct
  <2>2. ~(i < j) /\ ~(j < i)
    BY <1>3, <2>1
  <2> QED
    BY <1>2, <2>2
<1>6. Len(entries') <= MaxEntries
  <2>1. m <= MaxEntries
    <3> HIDE DEF n
    <3> QED
      BY <1>0, <1>2, SizeAssumption
  <2> QED
    BY <1>4, <2>1
<1>7. Distinct(entries)'
  BY <1>5 DEF Distinct
<1> QED
  BY <1>4, <1>6, <1>7 DEF StorageInv

CacheInv == IInv /\ StorageInv /\ TimeInv /\ AnswerIsCurrent

\* An empty cache and no call.
LEMMA InitCacheInv == Init => CacheInv
<1> SUFFICES ASSUME Init PROVE CacheInv
  OBVIOUS
<1>1. StorageInv
  <2>1. entries = <<>>
    BY DEF Init
  <2>2. entries \in Seq(Entries) /\ Len(entries) = 0 /\ DOMAIN entries = {}
    BY <2>1
  <2> QED
    BY <2>2, SizeAssumption DEF StorageInv, Distinct
<1>2. TimeInv /\ AnswerIsCurrent
  BY DEF Init, TimeInv, AnswerIsCurrent
<1> QED
  BY <1>1, <1>2, InitIInv DEF CacheInv

\* A hit moves the entry to the end; a load stores one and evicts one.
LEMMA StorageOfStep ==
  ASSUME IInv, StorageInv, TimeInv, [Next]_vars
  PROVE  StorageInv'
<1>1. \A t \in Threads : pc[t] \in {"check", "loading"} => key[t] \in Keys
  BY DEF IInv, Flight, Locations
<1>2. ASSUME NEW t \in Threads, Hit(t) PROVE StorageInv'
  <2>1. PICK e \in Cached(key[t]) : entries' = Append(Without(key[t]), e)
    BY <1>2 DEF Hit
  <2>2. key[t] \in Keys
    BY <1>1, <1>2 DEF Hit
  <2>3. e \in Entries /\ e.key = key[t]
    BY DEF Cached, ToSet, StorageInv
  <2>4. /\ Without(key[t]) \in Seq(Entries) /\ Distinct(Without(key[t]))
        /\ \A i \in DOMAIN Without(key[t]) : Without(key[t])[i].key # key[t]
        /\ Len(Without(key[t])) < Len(entries)
    BY <2>2, WithoutFacts
  <2>5. /\ entries' \in Seq(Entries) /\ Distinct(entries')
        /\ Len(entries') = Len(Without(key[t])) + 1
    BY <2>1, <2>3, <2>4, AppendFacts
  <2>6. Len(entries') <= MaxEntries
    <3>1. Len(Without(key[t])) \in Nat /\ Len(entries) \in Nat /\ Len(entries) <= MaxEntries
      BY <2>4 DEF StorageInv
    <3> QED
      BY <2>4, <2>5, <3>1, SizeAssumption
  <2>7. Distinct(entries)'
    BY <2>5 DEF Distinct
  <2> QED
    BY <2>5, <2>6, <2>7 DEF StorageInv
<1>3. ASSUME NEW t \in Threads, Miss(t) PROVE StorageInv'
  <2>1. key[t] \in Keys /\ entries' = Without(key[t])
    BY <1>1, <1>3 DEF Miss
  <2>2. entries' \in Seq(Entries) /\ Distinct(entries') /\ Len(entries') <= Len(entries)
    BY <2>1, WithoutFacts
  <2>3. Len(entries') <= MaxEntries
    BY <2>2, SizeAssumption DEF StorageInv
  <2>4. Distinct(entries)'
    BY <2>2 DEF Distinct
  <2> QED
    BY <2>2, <2>3, <2>4 DEF StorageInv
<1>4. ASSUME NEW t \in Threads, Store(t) PROVE StorageInv'
  <2> DEFINE e == [key |-> key[t], expires |-> now + TTL]
             es == Append(Without(key[t]), e)
  <2>1. key[t] \in Keys /\ entries' = Evicted(es)
    BY <1>1, <1>4 DEF Store
  <2>2. e \in Entries /\ e.key = key[t]
    BY <2>1, SizeAssumption DEF Entries, TimeInv
  <2> HIDE DEF e
  <2>3. /\ Without(key[t]) \in Seq(Entries) /\ Distinct(Without(key[t]))
        /\ \A i \in DOMAIN Without(key[t]) : Without(key[t])[i].key # key[t]
        /\ Len(Without(key[t])) <= Len(entries)
    BY <2>1, WithoutFacts
  <2>4. es \in Seq(Entries) /\ Distinct(es) /\ Len(es) = Len(Without(key[t])) + 1
    BY <2>2, <2>3, AppendFacts
  <2>5. Len(es) <= MaxEntries + 1
    <3>1. Len(Without(key[t])) \in Nat /\ Len(entries) \in Nat /\ Len(entries) <= MaxEntries
      BY <2>3 DEF StorageInv
    <3> QED
      BY <2>3, <2>4, <3>1, SizeAssumption
  <2> HIDE DEF es
  <2>6. entries' \in Seq(Entries) /\ Len(entries') <= MaxEntries /\ Distinct(entries')
    BY <2>1, <2>4, <2>5, EvictedFacts
  <2>7. Distinct(entries)'
    BY <2>6 DEF Distinct
  <2> QED
    BY <2>6, <2>7 DEF StorageInv
<1>5. CASE Clear
  <2>1. entries' = <<>>
    BY <1>5 DEF Clear
  <2>2. entries' \in Seq(Entries) /\ Len(entries') = 0 /\ DOMAIN entries' = {}
    BY <2>1
  <2> QED
    BY <2>2, SizeAssumption DEF StorageInv, Distinct
<1>6. CASE RemoveExpired
  <2> DEFINE live == {i \in DOMAIN entries : Usable(entries[i], now)}
  <2>1. PICK place \in [1 .. Cardinality(live) -> live] :
          /\ \A i, j \in DOMAIN place : i < j => place[i] < place[j]
          /\ entries' = [i \in DOMAIN place |-> entries[place[i]]]
    BY <1>6 DEF RemoveExpired
  <2>2. live \in SUBSET (DOMAIN entries)
    OBVIOUS
  <2> HIDE DEF live
  <2> QED
    BY <2>1, <2>2, ExpiryFacts
<1>7. CASE entries' = entries
  BY <1>7 DEF StorageInv, Distinct
<1>8. \/ \E t \in Threads : Hit(t) \/ Miss(t) \/ Store(t)
      \/ Clear \/ RemoveExpired \/ entries' = entries
  BY DEF Next, Run, vars, Call, ReadClock, Claim, Wait, Fail, Tick
<1> QED
  BY <1>2, <1>3, <1>4, <1>5, <1>6, <1>7, <1>8

\* An answer is an entry that had not expired at a clock reading of its call,
\* or the one its own load stored.
LEMMA AnswerOfStep ==
  ASSUME IInv, StorageInv, TimeInv, AnswerIsCurrent, [Next]_vars
  PROVE  TimeInv' /\ AnswerIsCurrent'
<1>0. /\ Flight
      /\ pc \in [Threads -> Locations] /\ key \in [Threads -> Keys \cup {None}]
      /\ \A t \in Threads : pc[t] \in Locations \ {"idle"} => key[t] \in Keys
  BY DEF IInv, Flight
<1> USE DEF Locations
<1>1. ASSUME NEW t \in Threads, NEW k \in Keys, Call(t, k) PROVE TimeInv' /\ AnswerIsCurrent'
  BY <1>0, <1>1 DEF Call, TimeInv, AnswerIsCurrent
<1>2. ASSUME NEW t \in Threads, ReadClock(t) PROVE TimeInv' /\ AnswerIsCurrent'
  BY <1>0, <1>2 DEF ReadClock, TimeInv, AnswerIsCurrent
<1>3. ASSUME NEW t \in Threads, Hit(t) PROVE TimeInv' /\ AnswerIsCurrent'
  <2>1. PICK e \in Cached(key[t]) : Usable(e, seen[t]) /\ result' = [result EXCEPT ![t] = e]
    BY <1>3 DEF Hit
  <2>2. e \in Entries /\ e.key = key[t]
    BY DEF Cached, ToSet, StorageInv
  <2>3. /\ pc[t] = "check" /\ pc' = [pc EXCEPT ![t] = "returned"]
        /\ seen' = [seen EXCEPT ![t] = 0]
        /\ UNCHANGED <<now, key, began>>
    BY <1>3 DEF Hit, EndPass
  <2>4. e.expires > began[t]
    BY <2>1, <2>2, <2>3 DEF TimeInv, Usable, Entries
  <2>5. TimeInv'
    BY <1>0, <2>1, <2>2, <2>3 DEF TimeInv
  <2>6. AnswerIsCurrent'
    BY <1>0, <2>1, <2>2, <2>3, <2>4 DEF AnswerIsCurrent, TimeInv
  <2> QED
    BY <2>5, <2>6
<1>4. ASSUME NEW t \in Threads, Claim(t) \/ Wait(t) PROVE TimeInv' /\ AnswerIsCurrent'
  <2>1. /\ \E l \in {"loading", "waiting"} : pc' = [pc EXCEPT ![t] = l]
        /\ seen' = [seen EXCEPT ![t] = 0] /\ UNCHANGED <<now, key, began, result>>
    BY <1>4 DEF Claim, Wait, EndPass
  <2> QED
    BY <1>0, <2>1 DEF TimeInv, AnswerIsCurrent
<1>5. ASSUME NEW t \in Threads, Store(t) \/ Fail(t) PROVE TimeInv' /\ AnswerIsCurrent'
  <2>0. key[t] \in Keys
    BY <1>0, <1>5 DEF Store, Fail
  <2>1. /\ Wake(key[t]) \in [Threads -> Locations]
        /\ \A u \in Threads : Wake(key[t])[u] = "top" \/ Wake(key[t])[u] = pc[u]
    BY <2>0, WakeMoves
  <2>2. PICK l \in {"returned", "raised"} : pc' = [Wake(key[t]) EXCEPT ![t] = l]
    BY <1>5 DEF Store, Fail
  <2>3. \A u \in Threads \ {t} : pc'[u] = "top" \/ pc'[u] = pc[u]
    BY <2>1, <2>2
  <2>4. pc'[t] = l
    BY <2>1, <2>2
  <2>5. UNCHANGED <<now, key, began, seen>>
    BY <1>5 DEF Store, Fail
  <2>6. CASE Store(t)
    <3> DEFINE e == [key |-> key[t], expires |-> now + TTL]
    <3>1. result' = [result EXCEPT ![t] = e]
      BY <2>6 DEF Store
    <3>2. e \in Entries /\ e.key = key[t] /\ e.expires > began[t]
      BY <2>0, SizeAssumption DEF TimeInv, Entries
    <3> HIDE DEF e
    <3>3. TimeInv'
      BY <2>3, <2>4, <2>5, <3>1, <3>2 DEF TimeInv
    <3>4. AnswerIsCurrent'
      BY <2>3, <2>4, <2>5, <3>1, <3>2 DEF TimeInv, AnswerIsCurrent
    <3> QED
      BY <3>3, <3>4
  <2>7. CASE Fail(t)
    <3>1. result' = result /\ pc'[t] = "raised"
      BY <2>1, <2>7 DEF Fail
    <3> QED
      BY <2>3, <2>5, <3>1 DEF TimeInv, AnswerIsCurrent
  <2> QED
    BY <1>5, <2>6, <2>7
<1>6. CASE Clear \/ RemoveExpired \/ Tick \/ UNCHANGED vars
  BY <1>6 DEF Clear, RemoveExpired, Tick, vars, TimeInv, AnswerIsCurrent
<1> QED
  BY <1>1, <1>2, <1>3, <1>4, <1>5, <1>6 DEF Next, Run

\* The bound, the order and the freshness of the entries hold throughout.
THEOREM CacheInvariance == Spec => []CacheInv
<1>1. CacheInv /\ [Next]_vars => CacheInv'
  BY StepIInv, StorageOfStep, AnswerOfStep DEF CacheInv
<1> QED
  BY <1>1, InitCacheInv, PTL DEF Spec

\* The cache never outgrows its bound and never has two entries for a key.
THEOREM TypeCorrect == Spec => []TypeOK
<1>1. CacheInv => TypeOK
  BY DEF CacheInv, IInv, Flight, StorageInv, Distinct, TimeInv, TypeOK
<1> QED
  BY <1>1, CacheInvariance, PTL

\* No call is answered for another key or from an entry that had expired when
\* it began.
THEOREM AnswersCurrent == Spec => []AnswerIsCurrent
  BY CacheInvariance, PTL DEF CacheInv
=============================================================================
