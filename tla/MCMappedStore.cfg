SPECIFICATION StoreSpec
CONSTANTS
    Map <- SmallMap
    Data <- TwoValues
INVARIANTS
    StoreTypeOK
    EntryHoldsLastValue
    FlagTellsOfCommands
    NeverTorn
PROPERTIES
    EntryServed
