SPECIFICATION Spec
CONSTANTS
    v1 = v1
    v2 = v2
    Vssds <- Pair
    Replica <- PairReplica
    GcLevels <- IntegerLevels
    Greeted = {v1}
    Budget <- ReadFirst
    MaxAsk = 1
    MaxLoss = 0
    MaxRepeat = 0
    MaxRestart = 1
    CanExpire = TRUE
INVARIANTS
    RoundsConserved
    ReadsConserved
CHECK_DEADLOCK FALSE
