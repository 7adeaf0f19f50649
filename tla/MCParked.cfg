CONSTANTS
    S = 32
    Band = 2
    Regimes <- MCRegimes
SPECIFICATION Spec
INVARIANTS
    ParkedInv
    NearestSettles
    BlendSettles
    HoleCovered
    EvenOutput
PROPERTY
    NoParityBlend
