SPECIFICATION OperatorSpec
CONSTANTS
    Generations = {1, 2, 3}
    Chunks = {1, 2}
    Digests = {1, 2}
    Policies = {1}
    MaxFaults = 2
    DepMaxFaults = 2
    Queries = 3
    Rotation = 2
    E2EMaxFaults = 2
    Clients = {k1, k2}
    JobMaxFaults = 2
    ScratchMaxFaults = 1
    Scorers = {1, 2}
    ScoreMaxFaults = 1
    GateWarmups = 1
    GatePairs = 2
    JudgeRequests = 1
    GateMaxFaults = 1
INVARIANTS
    VerdictIsTrue
    NothingLeftBehind
    CorpusSafe
    ReportFaithful
    OneEvaluationAtATime
PROPERTIES
    PromotionKeepsTrack
    EveryCommandEnds
\* Nothing follows the last run of a corpus.
CHECK_DEADLOCK FALSE
