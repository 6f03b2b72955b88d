\* A gateway process and a reconciliation operator that keeps running: one stream.
SPECIFICATION RecoverySpec
CONSTANTS
    r1 = r1  r2 = r2  r3 = r3
    principal = principal  user = user
    NoWorker = NoWorker  NoRequest = NoRequest
    Workers = {w1}
    Operators = {op}
    Requests = {r2}
    Lanes <- Lanes2
    LastPeriod <- PeriodsOne
    LanesOf <- LanesOf2
    BareLanes <- BareLanes2
    Limit <- LimitThree
    Est <- EstMixed
    Streams = {r2}
    DryWorkers = {}
    Costs = {1, 2}
    ReserveAttempts = 2
    SettleAttempts = 2
    OperatorAttempts = 2
    PhantomInserts = FALSE
    MaxCrashes = 2
PROPERTIES LedgerSpec HoldRecovered
CHECK_DEADLOCK FALSE
