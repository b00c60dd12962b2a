CONSTANTS
    Process = {p1, p2}
    BlockSize = 2
    Direct = 2
    Refs = 2
    MaxSize = 4
    MaxArg = 4
    Word = 64
SPECIFICATION Spec
INVARIANT OffsetInBounds
CHECK_DEADLOCK FALSE
