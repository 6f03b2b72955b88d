\* Three connections of two processes, two rows that are not there yet, one
\* of them also replaced and deleted, and one usage lane.
CONSTANTS
    Conns <- MCConns
    ProcOf <- MCProcOf
    Keys <- MCKeys
    Cleared = {2}
    Born = {}
    MaxTx = 3
SPECIFICATION Spec
INVARIANTS TypeOK CircleNeedsAbsentRow
PROPERTIES SwapReplacesWhatItRead LaneIsAppendOnly TransactionsEnd
CHECK_DEADLOCK FALSE
