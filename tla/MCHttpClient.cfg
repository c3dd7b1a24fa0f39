SPECIFICATION HttpFairSpec
CONSTANTS
    Requests = {r1, r2}
    FailureThreshold = 2
    SuccessThreshold = 2
    OpenTimeout = 1
    CountCap = 3
    Urls = {u1}
    MaxRetries = 2
INVARIANTS CountersFitState BreakerToldOnce BodiesClosed
PROPERTIES NoEarlyProbe HealthyCloses Recovers CallsEnd
