SPECIFICATION MCSpec
SYMMETRY RequestSymmetry
CONSTANTS
    db = db  api = api  web = web  e1 = e1  e2 = e2  q1 = q1  q2 = q2
    SqlIds <- Db
    HttpIds <- Api
    Explorers <- TwoRequests
    Selections <- Selected
    Replies <- SomeReplies
    Queries <- TwoQueries
    Statements <- Joins
    Editable <- Api
    Removable <- Api
    MaxQueries = 3
    MaxEdits = 2
INVARIANTS StreamsInOrder EveryEngineReleased EveryAnswerCurrent SuggestionsAsPromised
\* Every request is made once.
CHECK_DEADLOCK FALSE
