SPECIFICATION ProjectSpec
CONSTANTS
    \* ArtifactVersions
    Clients = {c1, c2}
    Epics = {e1}
    Stories = {s1, s2}
    FeatureOf <- OneFeature
    MaxRequests = 3
    OneAtATime = FALSE
    Nothing = Nothing
    \* StoryService
    Users = {u1, u2}
    MaxAsked = 3
    NoState = NoState
    \* ProjectCache
    Histories = {h1, h2}
    DocumentKeys = {d}
    WorkflowKeys = {w}
    PlanningKeys = {p}
    StoryKeys = {s}
    SessionKeys = {l}
    AnswerKeys = {m}
    IndexKeys = {i}
    MaxWrites = 2
    NoPurge = NoPurge
INVARIANTS
    VersionInvariant
    
    RunningIsOwned
    ChangesAreReviewed
    OnlyRacesHideHistories
SYMMETRY AllPermuted
\* Requests are bounded.
CHECK_DEADLOCK FALSE
