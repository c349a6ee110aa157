SPECIFICATION SchedSpec
CONSTANTS
    NumDevices = 2
    Null = Null
    Pin <- OnePin
    SweepChunk = 2
    HasIdleHandler <- AllDevices
INVARIANT ActiveDeviceTracked
