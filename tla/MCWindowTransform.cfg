SPECIFICATION FairSpec
CONSTANTS
    Keys = {k1, k2}
    Events = {e1, e2, e3}
    MaxEvents = 2
    HasDuration = TRUE
    MaxCalls = 2
    ForTesting = TRUE
    None = None
INVARIANTS CountedInOneWindow FullWindowGetsEmitted TimerBelongsToWindow
PROPERTIES EmittedUnlessOpenerCancels
CHECK_DEADLOCK FALSE
