CONSTANTS
    N = 3
    Modes <- MCModes
    MaxFrames = 4
    MaxMembers = 2
    MaxAt = 3
SPECIFICATION SpecR
INVARIANTS
    BracketIntact
    NearestBracket
