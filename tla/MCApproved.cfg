SPECIFICATION ServiceSpec
CONSTANTS
    Users = {u1, u2}
    MaxAsked = 3
    NoState = NoState
INVARIANT ApprovedIsNotParked
\* Requests are bounded.
CHECK_DEADLOCK FALSE
