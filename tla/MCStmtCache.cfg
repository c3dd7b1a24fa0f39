SPECIFICATION Spec
CONSTANTS
    Goroutines = {g1, g2}
    Queries = {q1, q2, q3}
    MaxPreparedStmts = 2
    MaxPrepares = 3
    None = None
INVARIANTS CachesInStep
PROPERTIES ClosedOnlyForRoom RemovalSettles
