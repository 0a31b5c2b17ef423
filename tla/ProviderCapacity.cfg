\* More requests than permits; the interval is longer than the queue timeout.
SPECIFICATION FairCapacitySpec
CONSTANTS
    Requests = {r1, r2, r3}
    Nobody = Nobody
    MaxConcurrency = 2
    QueueTimeout = 1
    Interval = 2
    MaxRetries = 2
    MaxDelay = 1
INVARIANT PermitsConserved
PROPERTIES StartsSpaced RequestsEnd
CHECK_DEADLOCK FALSE
