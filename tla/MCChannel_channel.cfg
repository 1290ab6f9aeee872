SPECIFICATION FairSpec
CONSTANTS
    Capacity = 4
    Elements = {0, 1, 2}
    Junk = 7
    Blks = 3
    ChlBlks = 3
    ZeroPpa = 1
    Data = {"new"}
    EraseWrap = 2
    Failing = {1}
INVARIANTS
    ChannelTypeOK
    BlocksPlaced
    LbasPlaced
    ListsByWear
    NeverFails
    ReadsBack
    LbaFound
PROPERTIES
    IsFifo
    CallsReturn
CHECK_DEADLOCK FALSE
