SPECIFICATION FairSpec
CONSTANTS
    Events = {e1, e2, e3, e4}
    Concurrency = 2
INVARIANTS PoolAccounted StopDrains
PROPERTIES CallsReturn
CHECK_DEADLOCK FALSE
