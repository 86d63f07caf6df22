\* Two clients ask for everything; writes fail and the process restarts.
SPECIFICATION Spec
SYMMETRY ClientSymmetry
CONSTANTS
    c1 = c1  c2 = c2
    Clients <- TwoClients
    Operations <- Everything
    MayFail = TRUE
    MaxOps = 4
    MaxSpared = 2
    MaxCrashes = 2
INVARIANTS
    DatasetInv
    ChainGrows
    DeletedStaysDeleted
    FingerprintIsOwn
\* The bound on requests lets a behaviour end.
CHECK_DEADLOCK FALSE
