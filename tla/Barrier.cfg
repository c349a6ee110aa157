SPECIFICATION FairSpec
CONSTANTS
    Dev <- Dev3
    HaltDev = HaltDev
    Home <- TwoEach
    MaxTime = 2
CHECK_DEADLOCK FALSE
INVARIANTS
    TypeOK
    TicksExpected
    TicksCounted
    HaltMeansDone
    QuietMeansDone
PROPERTIES
    ImplementsLockstep
    Completes
