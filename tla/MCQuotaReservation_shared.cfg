\* Gateway processes on one store, w3 of them in dry-run mode.
SPECIFICATION Spec
CONSTANTS
    r1 = r1  r2 = r2  r3 = r3
    principal = principal  user = user
    NoWorker = NoWorker  NoRequest = NoRequest
    Workers = {w1, w2, w3}
    Operators = {}
    Requests = {r1, r2}
    Lanes <- Lanes2
    LastPeriod <- PeriodsOne
    LanesOf <- LanesOf2
    BareLanes <- BareLanes2
    Limit <- LimitThree
    Est <- EstMixed
    Streams = {r2}
    DryWorkers = {w3}
    Costs = {1, 2}
    ReserveAttempts = 2
    SettleAttempts = 2
    OperatorAttempts = 2
    PhantomInserts = FALSE
    MaxCrashes = 1
INVARIANTS DebitMatchesMarker RefusedNeverCharged
SYMMETRY WorkerSymmetry
CHECK_DEADLOCK FALSE
