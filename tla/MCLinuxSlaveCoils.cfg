SPECIFICATION Spec
CONSTANTS
    Crc <- Crc16
    HoldingCount = 1
    InputCount = 1
    SizeMod = 1048576
    Traffic <- CoilTraffic
    OwnAddress = 3
    OtherAddress = 4
    RxCap = 10
    TxCap = 16
    CharTimeout = 1
    ClockSteps = {}
    MaxRequests = 1
    MaxFaults = 0
PROPERTIES
    UnsupportedAnswered
