SPECIFICATION MCSpec
CONSTANTS
    Crc <- Crc16
    HoldingCount = 127
    InputCount = 1
    SizeMod = 1048576
    OwnAddress = 1
    OtherAddress = 2
    Reads <- LongReads
    SingleWrites = {126, 127}
    MultipleWrites <- LongWrites
    Unsupported = {}
    Values = {258}
    AppWrites = FALSE
INVARIANTS
    ReplyMatchesRequest
PROPERTIES
    OverrunOnlyByLongRequest
    ServesRegisters
