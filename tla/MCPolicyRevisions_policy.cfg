SPECIFICATION Spec
CONSTANTS
    Registers = {"quota", "price"}
    Procs = {p1}
    Names = {n1, n2}
    Values = {1, 2}
    Based = {n1}
    Capped = TRUE
    MaxRevisions = 3
    MaxTicks = 2
    MaxFailures = 1
    MaxCrashes = 2
INVARIANTS ServedUnlessMissed
PROPERTIES RevisionsKept
CHECK_DEADLOCK FALSE
