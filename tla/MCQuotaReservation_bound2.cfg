\* Two gateway processes admit against the same lane.
SPECIFICATION Spec
CONSTANTS
    r1 = r1  r2 = r2  r3 = r3
    principal = principal  user = user
    NoWorker = NoWorker  NoRequest = NoRequest
    Workers = {w1, w2}
    Operators = {}
    Requests = {r1, r2}
    Lanes <- Lanes2
    LastPeriod <- PeriodsOne
    LanesOf <- LanesOf2
    BareLanes <- BareLanes2
    Limit <- LimitOne
    Est <- EstOne
    Streams = {}
    DryWorkers = {}
    Costs = {1}
    ReserveAttempts = 2
    SettleAttempts = 2
    OperatorAttempts = 2
    PhantomInserts = FALSE
    MaxCrashes = 0
INVARIANTS AdmissionBound
CHECK_DEADLOCK FALSE
