SPECIFICATION PartsSpec
CONSTANTS
    SeparateSegmenter = TRUE
    TenantCount = 2
    InsertedKinds = {1}
    RequestThreads = {q1, q2}
    MaxSaved = 4
    MaxParagraphs = 3
    MaxTyped = 2
    MinTokens = 2
    TargetTokens = 3
    MaxTokens = 5
    MaxLength = 7
    RetFinalCount = 2
    RetTokenBudget = 4
    RetMaxRows = 3
    KnowledgeTokens = 4
    PolicyTokens = 3
    TotalTokens = 8
    PlaceholderTokens = 2
    MaxItems = 2
    MaxQueryTokens = 8
    MaxLines = 4
    TraceSessions = {s1, s2}
    TraceRequests = {r1, r2}
    NoTrace = NoTrace
    NoHandle = NoHandle
    MaxOperations = 1
    Capacity = 2
    SampleLimit = 1
    MaxItemsMade = 2
    Posts = {w1, w2}
    Gets = {l1, l2}
    Starts = {TRUE, FALSE}
    None = None
SYMMETRY ThreadSymmetry
INVARIANTS
    ResourcesClosed
    CollectionsSafe
    TextPreserved
    QuarantineExact
    RankingSound
    ContextSound
    ReasonsExplain
    WeakestGivenUp
    AnswerWhole
    TracesTruthful
    MapsTypeOK
    FoundWhenWarm
PROPERTY EvidenceSealed
\* Processes end, texts are aligned and chunked, traces are deleted, requests answered.
CHECK_DEADLOCK FALSE
