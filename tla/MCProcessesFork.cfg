CONSTANTS
    Process = {p0, p1, p2}
    First = p0
    Sem = {s1}
    OpenFile = {console}
    Console = console
    NSEM = 1
    NCHILD = 1
    NFILE = 1
    Std = 1
    InitialCount = {0}
    MaxCount = 1
    Status = {5}
    None = None
SPECIFICATION Spec
PROPERTY ForkReturnsErrors
CHECK_DEADLOCK FALSE
