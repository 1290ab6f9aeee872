SPECIFICATION ToolSpec
CONSTANTS
    BlkNum = 2
    LunNum = 2
    ChNum = 2
    PlNum = 1
    HwMasks <- MCHwMasks
    Drives <- MCDrives
    MaxBlanks = 1
    DataLines = 10
    AddrLines = 4
    Later <- MCLater
INVARIANTS
    ToolTypeOK
    EndsWell
    CrashesKnown
    NoJunk
    MarkedNotErased
    RestErased
    DdrFaultFound
PROPERTIES
    MarksKept
