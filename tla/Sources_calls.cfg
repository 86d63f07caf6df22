SPECIFICATION MCSpec
CONSTANTS
    c1 = c1
    c2 = c2
    x1 = x1
    None = None
    Drivers <- BothDrivers
    Calls <- TwoCalls
    Conns <- OneConn
    Requests <- SomeRequests
    DefaultRows = 2
    Catalog = 3
    FetchSize = 2
    Errors <- AllErrors
    MaxWrites = 1
    HttpCalls <- OneCall
    Resources <- SomeResources
    Params <- SomeParams
    Statuses <- SomeStatuses
    MaxBytes = 1
    RowsAsked = 1
INVARIANTS SessionsArePrepared AnswersAreRight AnswersWithinLimits EveryResourceDescribed
PROPERTY EverySqlCallAnswered
\* Every call is made once and the source is disconnected once.
CHECK_DEADLOCK FALSE
