SPECIFICATION RegistrySpec
SYMMETRY Symmetry
CONSTANTS
    s1 = s1  s2 = s2  accented = accented  emoji = emoji  sql = sql  http = http  t1 = t1  t2 = t2  q1 = q1
    None = None
    Ids <- TwoIds
    Classes <- TwoClasses
    AuthClasses <- AuthHttp
    Refreshers <- TwoRefreshers
    Queriers <- OneQuerier
    InitialFile <- OneSource
    Grace = 2
    QueryTime = 1
    MaxOps = 3
    MayFail = TRUE
    Types <- SomeTypes
    NewSources <- SomeSources
    Decoded <- Dumps
    Captured <- Scans
    HandFiles <- PlainFiles
    MaxFaults = 1
INVARIANTS RegistryInv InFlightUndisturbed ServesFile
PROPERTY OneTokenManager
\* The process may stop, and the bound on refreshes lets a behaviour end.
CHECK_DEADLOCK FALSE
