CONSTANTS
    Comb = 4800
    SteadySlew = 20
    Passthrough = 1200
    StallSpan = 9600
    SrcPeriod = 4800
    EasePresents = 12
    RingFrames = 11
    Lag = 25200
    Intervals <- MCIntervals
    Hitches <- MCHitches
    MaxHitches = 1
SPECIFICATION Spec
INVARIANTS
    LockInv
    MoveStays
PROPERTIES
    SmoothTarget
    OneWrapAtATime
    SnapLands
    Converges
