CONSTANTS
    Thread = {t1, t2, t3}
    None = None
    MaxEpoch = 4
    MaxRound = 3
    Value = {0, 1}
    Default = 0
    Producer = {p1, p2}
    Consumer = {c1, c2}
    Item = {x, y}
    N = 2
SPECIFICATION SyncSpec
INVARIANTS
    UnitsConserved
    NoMissedSignal
    NobodyLeavesEarly
PROPERTIES
    FutureIsWriteOnce
    BufferIsChannel
    SignalsWake
    CallsReturn
CHECK_DEADLOCK FALSE
