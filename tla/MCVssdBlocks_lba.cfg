SPECIFICATION Spec
CONSTANTS
    NBlk = 4
    PPB = 2
    GcThresh = 2
    ReadPrep = 1
    Addrs = {1, 2}
    PpaInd <- Shifted
    Garbage = {3}
INVARIANTS
    LbaHandedOutOnce
CHECK_DEADLOCK FALSE
