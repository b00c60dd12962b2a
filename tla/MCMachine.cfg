CONSTANTS
    Core = {c1, c2}
    Cpu = {0, 1, 2}
    Radix = 3
    Nibble = 2
    Words = 2
    DriveSize = 40
    DescSize = 1
    NodeSize = 1
    Hardware <- MCHardware
    None = None
SPECIFICATION MachineSpec
INVARIANTS
    MutualExclusion
    HolderIsMasked
    RestoresCallersFlag
    ReadsTheSector
    MountsTheDisk
    StacksApart
    SetUpBeforeUse
    InitMadeLast
PROPERTIES
    LockCirculates
    DiskIsGivenBack
    BootEnds
CHECK_DEADLOCK FALSE
