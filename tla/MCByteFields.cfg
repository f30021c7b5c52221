SPECIFICATION FieldsSpec
CONSTANTS
    Fields <- SomeFields
    BufferSizes = {3, 4}
    MaxAddress = 5
    MaxLength = 2
    MaxCalls = 3
    SizeMod = 1024
CHECK_DEADLOCK FALSE
INVARIANTS
    ValidIsInOneBlock
    FirstBlockIsNeverLeft
PROPERTIES
    ReadGivesWritten
