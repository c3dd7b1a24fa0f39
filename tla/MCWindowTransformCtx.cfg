SPECIFICATION FairSpec
CONSTANTS
    Keys = {k1}
    Events = {e1, e2}
    MaxEvents = 2
    HasDuration = TRUE
    MaxCalls = 1
    ForTesting = FALSE
    None = None
PROPERTIES WindowsAreEmitted
CHECK_DEADLOCK FALSE
