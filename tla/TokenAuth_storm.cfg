SPECIFICATION Spec
CONSTANTS
    r1 = r1
    r2 = r2
    r3 = r3
    Requesters <- ThreeRequesters
    HasRefreshUrl = FALSE
    Faults <- NoFaults
    MaxRequests = 3
    MaxRevocations = 1
    MaxCrashes = 0
SYMMETRY RequesterSymmetry
INVARIANT OneReloginPerRejectedToken
CHECK_DEADLOCK FALSE
