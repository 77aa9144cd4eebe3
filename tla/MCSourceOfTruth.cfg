SPECIFICATION Spec
CONSTANTS
    Clients = {c1, c2}
    OneAtATime = TRUE
    MaxOutages = 1
    MaxCrashes = 0
    None = None
    NoAnswer = NoAnswer
INVARIANT SourceOfTruth
\* All requests have ended.
CHECK_DEADLOCK FALSE
