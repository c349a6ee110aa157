SPECIFICATION SchedSpec
CONSTANTS
    NumDevices = 3
    Null = Null
    Pin <- OnePin
    SweepChunk = 2
    HasIdleHandler <- AllButTheLast
INVARIANTS
    SchedTypeOK
    ListMatchesFlags
    NoComputeMissed
    FlagsFresh
    HardwareIdleIsQuiet
PROPERTY ImplementsReadyQueue
