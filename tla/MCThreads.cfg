CONSTANTS
    Core = {c1, c2}
    Thread = {reaper, t1, t2}
    Reaper = reaper
    Sem = {s1}
    Initial <- MCInitial
    MaxCount = 1
    None = None
SYMMETRY MCSymmetry
SPECIFICATION Spec
INVARIANTS
    OnePlace
    CurrentExecutes
    AssertsHold
    LockedAcrossBlock
PROPERTY ImplementsSemaphore
CHECK_DEADLOCK FALSE
