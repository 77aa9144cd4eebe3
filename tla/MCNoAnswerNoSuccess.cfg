SPECIFICATION MCSpec
CONSTANTS
    Calls = {c1}
    Prompts = {stories}
    Structured = {stories}
    MaxAttempts = 2
    None = None
INVARIANTS
    NoAnswerNoSuccess
CHECK_DEADLOCK FALSE
