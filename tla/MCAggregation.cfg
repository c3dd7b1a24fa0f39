SPECIFICATION AggregationSpec
CONSTANTS
    Members = {m1, m2}
    Partitions = {p1}
    NumRecords = 3
    FetchMax = 1
    MaxFaults = 1
    MaxMoves = 1
    None = None
    Count = 2
    IdleTimeout = 0
    Aggregations <- MCAggregations
    Input <- MCInput
SYMMETRY Symmetry
INVARIANTS NoLoss CommittedIsSomewhere CountedOnceWithoutRedelivery ResultsAddUp
CHECK_DEADLOCK FALSE
