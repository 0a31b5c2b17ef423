\* Two messages and two agents around one conversation; workers are fair,
\* nobody is forced to act.
SPECIFICATION FairSpec
CONSTANTS
    Runs = {r1, r2}
    Agents = {g1, g2}
    None = None
    MaxFaults = 1
INVARIANTS SequenceContiguous HistoryTellsEscalation
PROPERTY RunsSettle
CHECK_DEADLOCK FALSE
