\* As chat_progress, but a client may leave before its stream starts.
SPECIFICATION FairSpec
CONSTANTS
    Sessions = {s1}
    Convs = {c1}
    Deletes = {d1}
    NumSegments = 1
    User = u
    NoSession = NoSession
    Renamed = Renamed
    MayAbandon = TRUE
PROPERTY LeaseEnds
\* Every request and task of the bounded run has ended.
CHECK_DEADLOCK FALSE
