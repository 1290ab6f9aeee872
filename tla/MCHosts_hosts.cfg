SPECIFICATION Spec
CONSTANTS
    MaxLcores = 2
    RxPerLcore = 2
    Disks <- TwoDisks
    MaxBurst = 2
    MaxLoss = 1
    Trace <- ShortTrace
    TraceDisks <- TwoDisks
    ReqNums <- Asked
    ReplyNums <- Awaited
    ReplyPort = 1
    CliBurst = 2
    Machines <- Options
    ServerPort <- PortOf
INVARIANTS
    QueuesPolledOnce
    CountersFit
PROPERTIES
    ForwardsAsFaultyLink
    ClientEnds
CHECK_DEADLOCK FALSE
