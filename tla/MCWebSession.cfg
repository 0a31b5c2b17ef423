\* Two tabs, two users and three sessions: two logins and a rotation, with one
\* answer lost.
SPECIFICATION Spec
CONSTANTS
    Tabs = {t1, t2}
    Users = {u1, u2}
    MaxSessions = 3
    None = None
    MaxNotices = 1
    MaxLost = 1
SYMMETRY Symmetry
INVARIANTS TypeOK ReuseOnlyAfterLoss SignedInIsCurrent DataIsShownUsers LockIsReturned
