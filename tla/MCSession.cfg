CONSTANTS
    Numerals = {0, 1, 3, 60, 75, 300}
    Displays = 2
    Slots = 3
    FewFrames = 2
    StallTimeouts = 2
    CommandLines <- MCCommandLines
    CalmLines <- MCCalmLines
    PromptAnswers <- MCPromptAnswers
SPECIFICATION Spec
INVARIANTS
    SourceStays
    PoolHasRoom
    OneCapture
    LeavesNothing
    RelaunchSame
    DejitterBacked
PROPERTY FaultEnds
CHECK_DEADLOCK FALSE
