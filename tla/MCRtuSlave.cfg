SPECIFICATION MCSpec
CONSTANTS
    Crc <- Crc16
    HoldingCount = 3
    InputCount = 2
    SizeMod = 1048576
    OwnAddress = 1
    OtherAddress = 2
    Reads <- EdgeReads
    SingleWrites = {0, 2, 3}
    MultipleWrites <- EdgeWrites
    Unsupported = {1, 22}
    Values = {0, 258}
    AppWrites = TRUE
INVARIANTS
    SlaveTypeOK
    ReplyMatchesRequest
    FlagsTrackWrites
    NewDataReported
PROPERTIES
    AnsweredByVerdict
    RejectedHasNoEffect
    WriteTakesEffect
    ReadDecodes
    ServesRegisters
