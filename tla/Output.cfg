CONSTANTS
    Numbers = 4
    MostQueued = 3
    Settled = 4
    MaxFaults = 1
SPECIFICATION Spec
INVARIANTS
    ShownOwn
    MarkOwn
    ReadsDone
CHECK_DEADLOCK FALSE
