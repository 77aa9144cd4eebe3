SPECIFICATION FairSpec
CONSTANTS
    Stories = {s1}
    MaxRetryAttempts = 2
    StoredCounts = {0, 1}
    RecursionLimit = 12
    SharedDict = FALSE
INVARIANTS
    ReviewGate
    NeverCutShort
PROPERTIES
    LoopsAreCounted
    KeepsPromise
    LoopEndsByItself
\* A run of the graph ends.
CHECK_DEADLOCK FALSE
