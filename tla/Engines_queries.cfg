\* Three queries, two at a time, with edits, removals and additions.
SPECIFICATION QuerySpec
SYMMETRY QuerySymmetry
CONSTANTS
    db = db  api = api  web = web  e1 = e1  e2 = e2  q1 = q1  q2 = q2
    SqlIds <- Db
    HttpIds <- Api
    Explorers <- TwoRequests
    Selections <- Selected
    Replies <- SomeReplies
    Queries <- TwoQueries
    Statements <- Joins
    Editable <- Api
    Removable <- Api
    MaxQueries = 3
    MaxEdits = 2
INVARIANTS FederationInv FetchedRowsAreCurrent
\* The engine stops in the end.
CHECK_DEADLOCK FALSE
