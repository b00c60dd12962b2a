CONSTANTS
    Len4 = 20
    SizeT = 1000
    Bytes = {1, 9, 20}
    Tag = {100, 200}
    CountDown = 20
SPECIFICATION Spec
INVARIANTS PayloadIntact HeapConsistent
CHECK_DEADLOCK FALSE
