SPECIFICATION MCSpec
CONSTANTS
    Calls = {c1, c2}
    Prompts = {labels, stories}
    Structured = {stories}
    MaxAttempts = 2
    None = None
INVARIANTS
    RequestsBounded
    AnswersAuditedOnce
    MalformedEntryIsAMiss
PROPERTIES
    EveryCallEnds
\* All calls have ended.
CHECK_DEADLOCK FALSE
