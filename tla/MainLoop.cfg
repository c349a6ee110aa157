SPECIFICATION Spec
CONSTANTS
    NumDevices = 2
    Null = Null
    Pin <- OnePin
    SweepChunk = 1
    HasIdleHandler <- AllDevices
    HOSTBUFFER_SIZE = 3
    MAX_HOST_PER_HANDLER = 2
    Remote = Remote
    Targets <- MixedTargets
    AppPins <- LastToHost
    RecvSlots = 1
    PerfmonRate = 1
    SendOverRecv = TRUE
    IntraThreadSend = TRUE
INVARIANTS
    TypeOK
    DispatchJustified
    EachTargetOnce
    HostMessagesKept
PROPERTIES
    SendSlotStable
    ImplementsScheduler
