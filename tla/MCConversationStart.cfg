\* Three attempts, two payloads, one lease that can run out before the key does.
SPECIFICATION Spec
CONSTANTS
    Attempts = {a1, a2, a3}
    Fingerprints = {f1, f2}
    None = None
    TTL = 2
    Lease = 1
    MaxClock = 2
    MaxFaults = 1
SYMMETRY Symmetry
INVARIANTS LeaseWindowsDisjoint LatestHolderRecorded
PROPERTY RefinesReply
CHECK_DEADLOCK FALSE
