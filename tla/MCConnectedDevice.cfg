SPECIFICATION DeviceSpec
CONSTANTS
    Volatile = {1, 7}
    MaxVersion = 2
    MaxLost = 1
INVARIANTS
    MirrorIsSnapshot
    WrittenAndReadBack
PROPERTIES
    ScriptEnds
