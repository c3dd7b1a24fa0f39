SPECIFICATION FairSpec
CONSTANTS
    Members = {m1, m2}
    Partitions = {p1}
    NumRecords = 3
    FetchMax = 2
    MaxFaults = 2
    MaxMoves = 1
    None = None
INVARIANTS CommitCovers
PROPERTIES CommitForward ImplementsLedger EventuallyHandled
CHECK_DEADLOCK FALSE
