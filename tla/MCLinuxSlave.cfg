SPECIFICATION Spec
CONSTANTS
    Crc <- Crc16
    HoldingCount = 1
    InputCount = 1
    SizeMod = 1048576
    Traffic <- RegisterTraffic
    OwnAddress = 3
    OtherAddress = 4
    RxCap = 14
    TxCap = 16
    CharTimeout = 1
    ClockSteps = {}
    MaxRequests = 2
    MaxFaults = 2
INVARIANTS
    TypeOK
    HostKeepsContract
    RepliesInOrder
    AcceptedWasSent
    OnlyRequestedWrites
    ReplyQueuedWhole
