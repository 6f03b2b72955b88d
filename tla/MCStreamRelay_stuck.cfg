\* A queue of one and a client that leaves while the sentinel waits.
SPECIFICATION FairSpec
CONSTANTS
    Limit = 1
    MaxChunks = 3
    CanShutDown = FALSE
    MaxFailures = 0
PROPERTIES DetachedIsSettled
CHECK_DEADLOCK FALSE
