CONSTANTS
    N = 3
    Modes <- MCAllModes
    MaxFrames = 5
    MaxMembers = 3
SPECIFICATION FairSpec
INVARIANTS
    TypeOK
    ShownIsCaptured
    AwaitedIsRecoverable
    KeepReal
    OneKeptPerBatch
PROPERTIES
    ImplementsFrameStore
    AwaitedSettles
