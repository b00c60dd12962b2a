CONSTANTS
    Process = {p1}
    BlockSize = 2
    Direct = 2
    Refs = 2
    MaxSize = 17
    MaxArg = 18
    Word = 64
    Disk <- MCDisk
    ITable <- MCITable
    PerGroup = 4
    ISize = 1
    Path <- MCPath
    Args <- MCArgs
    HdrSize = 3
    Top = 40
    None = None
SPECIFICATION FilesSpec
INVARIANTS
    ReadsTheFile
    ExecReplacesWhole
    ArgumentsOnStack
PROPERTIES
    OpensWhatIsNamed
    PathCallsEnd
CHECK_DEADLOCK FALSE
