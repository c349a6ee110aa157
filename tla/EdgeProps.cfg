SPECIFICATION FairSpec
CONSTANTS
    outerCount = 3
    Address <- Eight
CHECK_DEADLOCK FALSE
INVARIANTS
    EdgeFound
    TicksRecorded
PROPERTIES
    Completes
