\* One gateway process that crashes and restarts; two records expire.
SPECIFICATION FairSpec
CONSTANTS
    r1 = r1  r2 = r2  r3 = r3
    p1 = p1  p2 = p2
    NoWorker = NoWorker  NoRequest = NoRequest  NoPayload = NoPayload
    Workers = {w1}
    Requests = {r1, r2, r3}
    Keys = {k1}
    KeyOf <- OneKey
    Payloads = {p1, p2}
    PayloadOf <- PayloadOf2
    Streams = {r2}
    WriteAttempts = 2
    Clears = TRUE
    MaxLate = 2
    MaxCrashes = 1
INVARIANTS OneFlightPerProcess RunOnce ReplayIsOwn
PROPERTIES NewerOutcomeKept OutcomeRecorded
CHECK_DEADLOCK FALSE
