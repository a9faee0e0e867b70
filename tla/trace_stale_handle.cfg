\* Evaluated chats and saves without a handle, over one worker of the queue.
SPECIFICATION TraceSpec
CONSTANTS
    TraceSessions = {s1, s2}
    TraceRequests = {r1, r2}
    NoTrace = NoTrace
    NoHandle = NoHandle
    MaxOperations = 1
    Capacity = 2
    SampleLimit = 1
    MaxItemsMade = 2
INVARIANT EvidenceRequestScoped
\* Traces are deleted, requests end.
CHECK_DEADLOCK FALSE
