-------------------------- MODULE ProviderCapacity --------------------------
(***************************************************************************)
(* Calls to the language model from the threads of one process:            *)
(* ResilientLLMProvider._execute around CapacityLimitedLLMProvider around  *)
(* the provider itself, which is external: it answers, or raises an error  *)
(* that is transient or permanent.                                         *)
(*                                                                         *)
(* Times are what is left of them: a timeout or sleep counts down with the *)
(* clock and, once it is zero, the thread may be late but not early.       *)
(***************************************************************************)
EXTENDS Integers, FiniteSets

CONSTANTS Requests,
          Nobody,
          MaxConcurrency,  \* max_concurrency
          QueueTimeout,    \* queue_timeout_seconds
          Interval,        \* minimum_start_interval_seconds, 0 for no spacing
          MaxRetries,      \* max_retries
          MaxDelay         \* longest backoff, jitter included

ASSUME ConfigAssumption ==
    /\ {MaxConcurrency, QueueTimeout} \subseteq Nat \ {0}
    /\ {Interval, MaxRetries, MaxDelay} \subseteq Nat
ASSUME NobodyAssumption == Nobody \notin Requests
ASSUME RequestsAssumption == IsFiniteSet(Requests)

VARIABLES pc,
          timer,      \* what is left of the request's timeout or sleep
          retries,    \* retry_number
          calls,      \* provider calls the request has started
          permits,    \* value of the semaphore _capacity
          startLock,  \* holder of _start_lock
          nextStart,  \* time left until _next_start_at
          sinceStart  \* time since a request was last given its start slot,
                      \* up to Interval: what the requests observe

capacityVars == <<pc, timer, retries, calls, permits, startLock, nextStart, sinceStart>>

\* Between acquiring the semaphore and releasing it.
Admitted == {"admitted", "spacing", "granted", "calling"}
Working == Admitted \cup {"queued", "backoff"}

CapacityTypeOK ==
    /\ pc \in [Requests -> Working \cup {"idle", "answered", "failed"}]
    /\ timer \in [Requests -> Nat]
    /\ retries \in [Requests -> 0..MaxRetries]
    /\ calls \in [Requests -> Nat]
    /\ permits \in 0..MaxConcurrency
    /\ startLock \in Requests \cup {Nobody}
    /\ nextStart \in 0..Interval
    /\ sinceStart \in 0..Interval

CapacityInit ==
    /\ pc = [r \in Requests |-> "idle"]
    /\ timer = [r \in Requests |-> 0]
    /\ retries = [r \in Requests |-> 0]
    /\ calls = [r \in Requests |-> 0]
    /\ permits = MaxConcurrency
    /\ startLock = Nobody
    /\ nextStart = 0
    /\ sinceStart = Interval

-----------------------------------------------------------------------------

\* Forms a plausible mistake would give the definitions below.
BugStartLockFree == TRUE
BugUnlocked(r) == startLock
BugReleased(o) == IF o = "ok" THEN permits + 1 ELSE permits

Exhausted(r) == retries[r] >= MaxRetries
StartLockFree == startLock = Nobody

\* The semaphore after an acquisition, and after the finally clause that
\* follows a call with outcome o.
Taken == permits - 1
Released(o) == permits + 1

\* _start_lock when the with block of r is left.
Unlocked(r) == Nobody

\* _execute after a transient error: another attempt after the backoff, or
\* the error itself.
RetryOrRaise(r) ==
    IF Exhausted(r)
    THEN /\ pc' = [pc EXCEPT ![r] = "failed"]
         /\ UNCHANGED <<timer, retries>>
    ELSE /\ pc' = [pc EXCEPT ![r] = "backoff"]
         /\ \E delay \in 0..MaxDelay : timer' = [timer EXCEPT ![r] = delay]
         /\ retries' = [retries EXCEPT ![r] = @ + 1]

-----------------------------------------------------------------------------

\* A request, or a retry whose backoff is over, asks for capacity.
Ask(r) ==
    /\ pc[r] = "idle" \/ (pc[r] = "backoff" /\ timer[r] = 0)
    /\ pc' = [pc EXCEPT ![r] = "queued"]
    /\ timer' = [timer EXCEPT ![r] = QueueTimeout]
    /\ UNCHANGED <<retries, calls, permits, startLock, nextStart, sinceStart>>

\* _acquire_capacity
Acquire(r) ==
    /\ pc[r] = "queued"
    /\ permits > 0
    /\ permits' = Taken
    /\ pc' = [pc EXCEPT ![r] = "admitted"]
    /\ timer' = [timer EXCEPT ![r] = 0]
    /\ UNCHANGED <<retries, calls, startLock, nextStart, sinceStart>>

\* The queue timeout is a rate-limit error, hence transient.
TimeOut(r) ==
    /\ pc[r] = "queued"
    /\ permits = 0 /\ timer[r] = 0
    /\ RetryOrRaise(r)
    /\ UNCHANGED <<calls, permits, startLock, nextStart, sinceStart>>

\* _wait_for_start_slot: without an interval there is nothing to wait for;
\* with one, the lock is kept while sleeping ...
Space(r) ==
    /\ pc[r] = "admitted"
    /\ IF Interval = 0
       THEN /\ pc' = [pc EXCEPT ![r] = "granted"]
            /\ UNCHANGED <<timer, startLock>>
       ELSE /\ StartLockFree
            /\ startLock' = r
            /\ timer' = [timer EXCEPT ![r] = nextStart]
            /\ pc' = [pc EXCEPT ![r] = "spacing"]
    /\ UNCHANGED <<retries, calls, permits, nextStart, sinceStart>>

\* ... and the next start is set from the time the sleep ended.
Start(r) ==
    /\ pc[r] = "spacing"
    /\ timer[r] = 0
    /\ nextStart' = Interval
    /\ sinceStart' = 0
    /\ startLock' = Unlocked(r)
    /\ pc' = [pc EXCEPT ![r] = "granted"]
    /\ UNCHANGED <<timer, retries, calls, permits>>

\* The request calls the provider, however long its thread was kept waiting.
Call(r) ==
    /\ pc[r] = "granted"
    /\ calls' = [calls EXCEPT ![r] = @ + 1]
    /\ pc' = [pc EXCEPT ![r] = "calling"]
    /\ UNCHANGED <<timer, retries, permits, startLock, nextStart, sinceStart>>

\* The provider's outcome; the permit is given back before any retry.
Finish(r, o) ==
    /\ pc[r] = "calling"
    /\ permits' = Released(o)
    /\ \/ /\ o = "ok"
          /\ pc' = [pc EXCEPT ![r] = "answered"]
          /\ UNCHANGED <<timer, retries>>
       \/ /\ o = "permanent"
          /\ pc' = [pc EXCEPT ![r] = "failed"]
          /\ UNCHANGED <<timer, retries>>
       \/ /\ o = "transient"
          /\ RetryOrRaise(r)
    /\ UNCHANGED <<calls, startLock, nextStart, sinceStart>>

\* One unit of time, while anything is waiting for it.
Tick ==
    /\ nextStart > 0 \/ sinceStart < Interval \/ \E r \in Requests : timer[r] > 0
    /\ timer' = [r \in Requests |-> IF timer[r] > 0 THEN timer[r] - 1 ELSE 0]
    /\ nextStart' = IF nextStart > 0 THEN nextStart - 1 ELSE 0
    /\ sinceStart' = IF sinceStart < Interval THEN sinceStart + 1 ELSE Interval
    /\ UNCHANGED <<pc, retries, calls, permits, startLock>>

Progress(r) ==
    \/ pc[r] # "idle" /\ Ask(r)
    \/ Acquire(r) \/ TimeOut(r) \/ Space(r) \/ Start(r) \/ Call(r)
    \/ \E o \in {"ok", "transient", "permanent"} : Finish(r, o)

CapacityNext == (\E r \in Requests : Ask(r) \/ Progress(r)) \/ Tick

CapacitySpec == CapacityInit /\ [][CapacityNext]_capacityVars

\* Threads run, time passes, and the provider ends every call, if only by
\* the HTTP client's timeout.
FairCapacitySpec ==
    CapacitySpec /\ WF_capacityVars(Tick) /\ \A r \in Requests : WF_capacityVars(Progress(r))

-----------------------------------------------------------------------------

\* Every permit is free or with a request that is admitted: none is lost or
\* doubled by an error, a timeout or a retry, and backing off holds none.
PermitsConserved ==
    permits + Cardinality({r \in Requests : pc[r] \in Admitted}) = MaxConcurrency

\* However requests queue, retry and sleep, no request is given its start
\* slot sooner than the interval after the one before it.
StartsSpaced ==
    [][\A r \in Requests :
          pc[r] # "granted" /\ pc'[r] = "granted" => sinceStart = Interval]_capacityVars

\* A request costs at most one call more than its retries, queue timeouts
\* having used up some.
CallsBounded == \A r \in Requests : calls[r] <= MaxRetries + 1

\* A request that asked for capacity gets its answer or an error.
RequestsEnd == \A r \in Requests : pc[r] = "queued" ~> pc[r] \in {"answered", "failed"}
=============================================================================
