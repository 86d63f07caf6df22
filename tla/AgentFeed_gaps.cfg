\* Two calls and two sockets, which may break, and a restart; no faults besides: a
\* stall is only a delay here, any step may come late.  Queries and
\* writes succeed.
SPECIFICATION Spec
CONSTANTS
    c1 = c1  c2 = c2  v1 = v1  v2 = v2  s1 = s1  None = None
    Calls <- TwoCalls
    Viewers <- TwoViewers
    Scenarios <- NoScenario
    Faults = {}
    MaxQueries = 2
    MaxCrashes = 1
SYMMETRY FeedSymmetry
INVARIANTS
    FeedOrder
    NoGaps
    OneExecutionPerQuery
    FeedInv
\* The bound on queries lets a behaviour end.
CHECK_DEADLOCK FALSE
