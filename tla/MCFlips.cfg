CONSTANTS
    Step = 8
    Strides <- MCStrides
    Latenesses <- MCLatenesses
    Gaps <- MCGaps
    Targets <- MCTargets
    History = 5
    Margin = 2
    Entries = 3
    RingBatches = 3
    Window = 32
    MaxBehind = 1
    Warmup = 3
    MaxRun = 2
    MaxFaults = 2
    Source = 96
    Separation = 4
    Early = 4
    Late = 10
    Regimes <- MCRegimes
    Stalls <- MCStalls
    StallFirst = FALSE
    SampleCap = 6
    MinSamples = 3
SPECIFICATION UsersSpec
INVARIANTS
    FictionEnds
    SteersTrue
    NoFalseSteering
PROPERTIES
    FenceHolds
    ChainHeals
    VoteRecovers
