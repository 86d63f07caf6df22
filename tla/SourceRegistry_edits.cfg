SPECIFICATION FileSpec
CONSTANTS
    s1 = s1  s2 = s2  accented = accented  emoji = emoji  sql = sql  http = http  t1 = t1  t2 = t2  q1 = q1
    None = None
    Ids <- FourIds
    Classes <- TwoClasses
    AuthClasses <- AuthHttp
    Refreshers <- TwoRefreshers
    Queriers <- OneQuerier
    InitialFile <- OneSource
    Grace = 2
    QueryTime = 1
    MaxOps = 3
    MayFail = TRUE
    Types <- SomeTypes
    NewSources <- SomeSources
    Decoded <- Dumps
    Captured <- Scans
    HandFiles <- PlainFiles
    MaxFaults = 1
INVARIANT FileInv
PROPERTIES KeepsOtherSections ImplementsSourceList
\* The requests and edits are bounded.
CHECK_DEADLOCK FALSE
