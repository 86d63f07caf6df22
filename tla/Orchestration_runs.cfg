\* Linear steps, foreach and the legacy foreach, with failures and cancellation.
SPECIFICATION Spec
CONSTANTS
    Flows <- Mixed
    MaxItems = 3
    MayCancel = TRUE
INVARIANTS
    ResultOfLastStep
    EveryIterationReturned
    BoundFlowsRun
    TraceTellsRun
\* Every run comes to an end.
CHECK_DEADLOCK FALSE
