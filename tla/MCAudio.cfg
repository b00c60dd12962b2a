CONSTANTS
    Player = {p1, p2}
    First = p1
    MaxCalls = 2
    Position = {0, 3, 99}
    File <- MCFile
    Choice <- MCChoice
    Wav <- MCWav
    Sound <- MCSound
    Layout <- MCLayout
    Memory <- MCMemory
    Noise = 999
    Bus <- MCBus
    AC97 = 2415
    RIFF = 101
    WAVE = 102
    FMT = 103
    DATA = 104
    LIST = 105
    Lengths = {0, 3, 4, 6}
    BufferSize = 2
    NumBuffers = 2
    Hz = 2
    Word = 1024
    Short = 16
SPECIFICATION Spec
INVARIANTS
    PlaysTheSound
    StopsPlaying
PROPERTY PlayEnds
CHECK_DEADLOCK FALSE
