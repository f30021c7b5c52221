SPECIFICATION StoreSpec
CONSTANTS
    Map <- SmallMap
    Data <- TwoValues
INVARIANTS
    AcceptedIsOneEntry
