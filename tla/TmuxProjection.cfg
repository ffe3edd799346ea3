CONSTANTS
    Window <- TwoWindows
    PanesOf <- TwoPanes
    Start = "w1"
    MaxAttempts = 2
    MaxEvents = 2
    MaxQueued = 1
    MaxOutput = 2
    MaxTurns = 2
    MaxWork = 3
SPECIFICATION FairSpec
CHECK_DEADLOCK FALSE
INVARIANTS
    TypeOK
    ContinuousView
    StaleIsFlagged
PROPERTIES
    ConvergesToTarget
