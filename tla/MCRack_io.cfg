SPECIFICATION Spec
CONSTANTS
    v1 = v1
    v2 = v2
    Vssds <- Pair
    Replica <- PairReplica
    GcLevels <- IntegerLevels
    Greeted <- Pair
    Budget <- ReadAndHard
    MaxAsk = 0
    MaxLoss = 0
    MaxRepeat = 1
    MaxRestart = 0
    CanExpire = FALSE
INVARIANTS
    RoundsConserved
PROPERTIES
    ReadsAvoidCollector
