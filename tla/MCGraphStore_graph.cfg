SPECIFICATION Spec
CONSTANTS
  Backends = {"jsonl", "postgres", "kogwistar"}
  ProcsOf <- Mixed
  GraphKeys = {"k1", "k2"}
  SeedSize = 2
  MaxUsage = 2
  MaxAccess = 2
  MaxRevises = 1
  MaxCrashes = 1
  MaxFailures = 1
INVARIANTS TypeOK NothingDangles SeededWhole AcknowledgedIsDurable RevisionsLinear
PROPERTIES HistoryKept
CHECK_DEADLOCK FALSE
