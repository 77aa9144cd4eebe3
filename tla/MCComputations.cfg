SPECIFICATION ComputationsSpec
CONSTANTS
    Stories = {s1, s2}
    MaxPacks = 3
    Costs = {1, 9}
    PromptCost = 1
    Budget = 7
    Limits = {2, 3}
    PerStory = 2
    MinOutput = 1
    OutputCap = 3
    MaxRetries = 1
    None = None
    MaxSentences = 4
    SentenceSizes = {1, 2, 3, 6, 9}
    MaxTokens = 5
    MinTokens = 3
    NoPiece = NoPiece
    Passages = {p1, p2, p3}
    Codes = {"FR-1", "FR-12"}
    KindOf <- Kind
    OccursIn <- Occurs
    K = 2
    TopK = 3
    CandidateCount = 2
    FinalCount = 1
    Awaited = Awaited
INVARIANTS
    BatchInvariant
    SentWithinLimits
    AsksBounded
    LostOnlyToDoubles
    ChunkInvariant
    SmallOnlyWhereNothingFits
    FusionAgrees
    PackageIsGrounded
PROPERTIES
    MoreIssuesNeverRelax
    EveryRunEnds
    EveryTextIsChunked
\* A computation that has ended does nothing more.
CHECK_DEADLOCK FALSE
