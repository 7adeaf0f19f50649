CONSTANTS
    N = 4
    Settings <- MCGuarded
    Gaps <- MCOffGaps
    Steps <- MCFastSteps
    Lag = 20
    Start = 20
    MaxTime = 100
SPECIFICATION Spec
INVARIANT
    NoManufacturedTooth
CHECK_DEADLOCK FALSE
