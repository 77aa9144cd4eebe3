SPECIFICATION Spec
CONSTANTS
    Stories = {s1}
    MaxRetryAttempts = 2
    StoredCounts = {0}
    RecursionLimit = 25
    SharedDict = FALSE
INVARIANT FailureReachesCaller
\* A run of the graph ends.
CHECK_DEADLOCK FALSE
