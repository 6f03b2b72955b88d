\* One gateway, the reviewer loop, the worker and the analysis loop.  The second
\* request is not billed, the third has a dangerous keyword.
SPECIFICATION FairSpec
CONSTANTS
    Gateways = {1}
    Serving = 1
    MaxRow = 3
    Unbilled = {2}
    Spend <- SpendOne
    Flagged = {3}
    MaxActive = 1
    Threshold = 2
    SpendThreshold = 2
    Preview = 1
    Forced = {}
    Advances = TRUE
    SampleSize = 1
    Lookback = TRUE
    BreakerEnabled = TRUE
    BreakerMax = 2
    MaxFaults = 1
    MaxStreak = 2
INVARIANTS TypeOK NothingPassedUnseen RememberedOnce BreakerHonest
PROPERTIES RunAdvances EventuallyReviewed
CHECK_DEADLOCK FALSE
