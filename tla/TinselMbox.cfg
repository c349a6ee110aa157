SPECIFICATION FairSpec
CONSTANTS
    Slot <- Slots4
    SendSlot = 0
    Message = {m1, m2}
    None = None
INVARIANTS
    TypeOK
    SlotsCounted
    NoLostWakeup
    NoMutualWait
PROPERTIES
    ImplementsMailbox
    ArrivalAccepted
    SendCompletes
    CpuWakes
