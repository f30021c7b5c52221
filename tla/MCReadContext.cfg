SPECIFICATION MCSpec
CONSTANTS
    FunctionBytes = {1, 3, 4, 6, 16, 43, 44, 131}
    CountBytes = {0, 1, 4, 249, 250, 255}
    Filler = 7
INVARIANTS
    CtxTypeOK
    CountdownInv
    FrameBoundary
    FrameFits
PROPERTIES
    FramesByPrefix
