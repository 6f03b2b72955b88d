\* One gateway process, no operator: three requests, r2 of them a stream.
SPECIFICATION FairSpec
CONSTANTS
    r1 = r1  r2 = r2  r3 = r3
    principal = principal  user = user
    NoWorker = NoWorker  NoRequest = NoRequest
    Workers = {w1}
    Operators = {}
    Requests = {r1, r2, r3}
    Lanes <- Lanes2
    LastPeriod <- PeriodsNone
    LanesOf <- LanesOf2
    BareLanes <- BareLanes2
    Limit <- LimitThree
    Est <- EstMixed
    Streams = {r2}
    DryWorkers = {}
    Costs = {2}
    ReserveAttempts = 2
    SettleAttempts = 2
    OperatorAttempts = 2
    PhantomInserts = FALSE
    MaxCrashes = 1
INVARIANTS AdmissionBound ChargedHoldsNothing
PROPERTIES UncertainIsKept HoldEnds
CHECK_DEADLOCK FALSE
