SPECIFICATION MCSpec
CONSTANTS
    Values = {1, 2, 3, 4}
    MaxVotes = 3
    ReleaseYears = {0, 1, 2}
    MaxResults = 5
INVARIANTS
    OrderIndependent
    EarliestDated
CHECK_DEADLOCK FALSE
