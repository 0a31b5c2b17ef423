\* Two users, three sessions and two workers: a refresh races a refresh, a
\* logout or an access change, in logins long enough for one rotation.
SPECIFICATION Spec
CONSTANTS
    Users = {u1, u2}
    Sessions = {s1, s2, s3}
    Workers = {w1, w2}
    None = None
    Roles = {"customer", "admin"}
    RefreshTTL = 2
    AccessTTL = 1
    MaxFailed = 1
    Lockout = 1
    MaxChanges = 2
    MaxClock = 1
SYMMETRY Symmetry
INVARIANTS OneActivePerFamily RotatedUnderCurrentAccess OnlyAccessChangesDeadlock
PROPERTIES EndedStaysEnded AdministratorRemains
CHECK_DEADLOCK FALSE
