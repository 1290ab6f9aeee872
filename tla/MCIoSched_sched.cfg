SPECIFICATION Spec
CONSTANTS
    WINDOW_SZ = 2
    MaxLat = 2
    MaxNow = 7
    MaxArrivals = 4
INVARIANTS
    NeverAboveMean
PROPERTIES
    ServesByPriority
    AgeWins
CHECK_DEADLOCK FALSE
