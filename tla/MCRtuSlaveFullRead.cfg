SPECIFICATION MCSpec
CONSTANTS
    Crc <- Crc16
    HoldingCount = 126
    InputCount = 1
    SizeMod = 1048576
    OwnAddress = 1
    OtherAddress = 2
    Reads <- LargestRead
    SingleWrites = {}
    MultipleWrites <- None
    Unsupported = {}
    Values = {258}
    AppWrites = FALSE
INVARIANTS
    ReplyMatchesRequest
