SPECIFICATION MCSpec
SYMMETRY Symmetry
CONSTANTS
    q1 = q1
    q2 = q2
    q3 = q3
    r1 = r1
    n1 = n1
    n2 = n2
    t1 = t1
    t2 = t2
    Queries <- ThreeQueries
    Readers <- OneReader
    Names <- TwoNames
    Texts <- TwoTexts
    Limit = 2
    MaxFaults = 1
    MaxCrashes = 1
INVARIANTS QueriesOnRecord AnswersAreDurable NoLostUpdate
\* Every request is made once.
CHECK_DEADLOCK FALSE
