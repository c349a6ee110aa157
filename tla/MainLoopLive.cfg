SPECIFICATION FairSpec
CONSTANTS
    NumDevices = 1
    Null = Null
    Pin <- OnePin
    SweepChunk = 1
    HasIdleHandler <- AllDevices
    HOSTBUFFER_SIZE = 3
    MAX_HOST_PER_HANDLER = 2
    Remote = Remote
    Targets <- LoneTargets
    AppPins <- NoAppPins
    RecvSlots = 1
    PerfmonRate = 2
    SendOverRecv = FALSE
    IntraThreadSend = FALSE
PROPERTIES
    HostMessagesSent
    SendServed
    MailboxDrained
