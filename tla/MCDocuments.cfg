SPECIFICATION FairDocumentsSpec
CONSTANTS
    \* Preprocessing
    Runs = {1, 2}
    Kinds = {"file", "onedrive"}
    Lengths = {0, 3}
    BatchSize = 2
    MaxEdits = 1
    NoEntry = NoEntry
    \* RagIndex
    Callers = {1, 2}
    Chunks = {k1}
    Collections = {"absent", "other size", "right size"}
    MaxRequests = 3
    MaxRetries = 2
    NoAnswer = NoAnswer
    \* Delivery
    Systems = {"jira", "ado", "confluence", "sharepoint", "file"}
    MaxStories = 2
    EpicNames = {"e1", "e2"}
    MaxExports = 2
    LinkTypes = 2
    Resends = 1
    \* Connectors
    Fetches = {1, 2}
    Sources = {"jira", "ado", "sharepoint"}
    Folders = {"A", "B"}
    FileNames = {"x"}
    Targets = {"x", "none"}
    MaxUrls = 2
    NoFile = "none"
    remote <- Remote
    uploaded <- Uploaded
INVARIANTS
    ReportedIsStored
    PoolsAreShared
    ResultsAreWhole
    CompletedIsWhole
    NothingTwice
    AnswersComeOneWay
PROPERTIES
    RequestsEnd
    RunsEnd
    FetchesEnd
\* Requests are bounded.
CHECK_DEADLOCK FALSE
