CONSTANTS
    Source = 96
    Separation = 4
    Early = 4
    Late = 10
    Regimes <- MCx3
    Stalls <- MCLongStalls
    StallFirst = FALSE
    SampleCap = 6
    MinSamples = 3
SPECIFICATION KeepSpec
INVARIANT SteersTrue
