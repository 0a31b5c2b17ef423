\* Retention far away, so that only leases, failures and retries matter.
SPECIFICATION LiveSpec
CONSTANTS
    Attempts = {a1, a2, a3}
    Fingerprints = {f1}
    None = None
    TTL = 50
    Lease = 1
    MaxClock = 50
    MaxFaults = 1
PROPERTY NeverWedged
CHECK_DEADLOCK FALSE
