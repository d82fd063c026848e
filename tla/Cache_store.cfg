CONSTANTS
    NBlocks = 3
    Slots = {b1, b2}
    ReadBufSz = 2
    Values = {0, 1}
    Blank = 0
    MaxRefs = 1
SYMMETRY Symmetry
SPECIFICATION Spec
INVARIANT CacheCorrect
PROPERTY HeldStays
CHECK_DEADLOCK FALSE
