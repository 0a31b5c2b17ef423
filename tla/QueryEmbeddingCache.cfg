\* More keys than entries, more threads than keys, entries that expire, a
\* loader that may raise.
SPECIFICATION FairSpec
CONSTANTS
    Threads = {t1, t2, t3}
    Keys = {k1, k2}
    Failing = {k1}
    None = None
    MaxEntries = 1
    TTL = 1
    MaxClock = 2
INVARIANTS TypeOK OneLoaderPerKey AnswerIsCurrent
PROPERTY WaitsEnd
CHECK_DEADLOCK FALSE
