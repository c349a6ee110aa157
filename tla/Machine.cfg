SPECIFICATION FairSpec
CONSTANTS
    t1 = t1
    t2 = t2
    t3 = t3
    Thread <- Threads
    HasDevices <- Busy
    TargetLists <- Exchange
    RecvSlots = 1
    NetCapacity = 1
    MaxTargets = 3
    MaxSends = 2
    SendOverRecv = FALSE
    None = None
INVARIANTS
    ExactlyOnce
PROPERTIES
    ImplementsRounds
    RoundsGoOn
