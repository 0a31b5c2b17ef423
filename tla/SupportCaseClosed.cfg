\* One message racing its owner's close.
SPECIFICATION Spec
CONSTANTS
    Runs = {r1}
    Agents = {g1}
    None = None
    MaxFaults = 0
PROPERTY ClosedIsTerminal
CHECK_DEADLOCK FALSE
