SPECIFICATION Spec
CONSTANTS
    v1 = v1
    v2 = v2
    Vssds <- Pair
    Replica <- PairReplica
    GcLevels <- IntegerLevels
    Greeted <- Pair
    Budget <- RequestEach
    MaxAsk = 1
    MaxLoss = 1
    MaxRepeat = 0
    MaxRestart = 0
    CanExpire = FALSE
SYMMETRY Symmetry
INVARIANTS
    TypeOK
    MarkHasRound
    SoftExclusion
    CollectsMarked
