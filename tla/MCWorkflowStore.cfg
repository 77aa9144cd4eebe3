SPECIFICATION MCFairSpec
CONSTANTS
    Clients = {c1, c2}
    OneAtATime = FALSE
    MaxOutages = 1
    MaxCrashes = 1
    None = None
    NoAnswer = NoAnswer
INVARIANTS
    StoreInvariant
    CachedIsCommitted
    AnsweredIsCommitted
PROPERTIES
    KeepsLog
    EveryRequestEnds
\* All requests have ended.
CHECK_DEADLOCK FALSE
