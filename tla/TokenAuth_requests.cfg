SPECIFICATION FairSpec
CONSTANTS
    r1 = r1
    r2 = r2
    r3 = r3
    Requesters <- TwoRequesters
    HasRefreshUrl = TRUE
    Faults <- AllFaults
    MaxRequests = 2
    MaxRevocations = 2
    MaxCrashes = 1
INVARIANTS SingleFlight RetryUsesAnotherToken CachedRowIsDurable
PROPERTIES ImplementsCell EveryRequestAnswered
CHECK_DEADLOCK FALSE
