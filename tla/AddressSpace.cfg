CONSTANTS
    Process = {p0, p1, p2}
    First = p0
    Mortal = {p1, p2}
    Pages = 3
    PerTable = 2
    Special = {0}
    Limit = 7
    Value = {0, 1}
    Zero = 0
    Junk = 7
    None = None
    Device = Device
SPECIFICATION Spec
INVARIANT FramesConserved
PROPERTY ImplementsMemories
CHECK_DEADLOCK FALSE
