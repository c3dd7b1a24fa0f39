SPECIFICATION Spec
CONSTANTS
    Members = {m1}
    Partitions = {p1}
    NumRecords = 2
    FetchMax = 2
    MaxFaults = 0
    MaxMoves = 0
    None = None
INVARIANTS NoLoss
CHECK_DEADLOCK FALSE
