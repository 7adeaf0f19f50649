CONSTANTS
    N = 4
    Settings <- MCAll
    Gaps <- MCGaps
    Steps <- MCSteps
    Lag = 20
    Start = 20
    MaxTime = 76
SPECIFICATION Spec
INVARIANTS
    PathInv
    Fresh
    NearTarget
CHECK_DEADLOCK FALSE
