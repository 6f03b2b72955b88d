\* A queue of two, five chunks, three store operations that raise, one shutdown.
SPECIFICATION FairSpec
CONSTANTS
    Limit = 2
    MaxChunks = 5
    CanShutDown = TRUE
    MaxFailures = 3
INVARIANTS NothingDropped ChargedByUsage OutcomeAgrees
PROPERTIES RelayEnds
CHECK_DEADLOCK FALSE
