SPECIFICATION FairSpec
CONSTANTS
    NumDevices = 2
    Null = Null
    Pin <- OnePin
    SweepChunk = 3
    HasIdleHandler <- AllDevices
    HOSTBUFFER_SIZE = 3
    MAX_HOST_PER_HANDLER = 2
    Remote = Remote
    Targets <- NextTargets
    AppPins <- NoAppPins
    RecvSlots = 1
    PerfmonRate = 0
    SendOverRecv = FALSE
    IntraThreadSend = TRUE
PROPERTIES
    SendServed
    ComputeServed
