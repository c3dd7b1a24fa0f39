SPECIFICATION MainFairSpec
INVARIANTS HandlerHasClients CleanExit
PROPERTIES SignalEnds
CHECK_DEADLOCK FALSE
