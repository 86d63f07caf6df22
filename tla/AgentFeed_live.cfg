\* Sockets stall for a while and break, queries and writes fail, callers give
\* up and the process restarts.
SPECIFICATION FairSpec
CONSTANTS
    c1 = c1  c2 = c2  v1 = v1  v2 = v2  s1 = s1  None = None
    Calls <- OneCall
    Viewers <- TwoViewers
    Scenarios <- OneScenario
    Faults <- AllFaults
    MaxQueries = 1
    MaxCrashes = 1
PROPERTIES
    EveryQueryAnswered
    DeadClientsPruned
\* The bound on queries lets a behaviour end.
CHECK_DEADLOCK FALSE
