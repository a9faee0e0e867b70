\* Two sessions of one user, one answer, two attempts to delete, two segments.
\* Clients stay until their stream starts: leases and reservations end.
SPECIFICATION FairSpec
CONSTANTS
    Sessions = {s1, s2}
    Convs = {c1}
    Deletes = {d1, d2}
    NumSegments = 2
    User = u
    NoSession = NoSession
    Renamed = Renamed
    MayAbandon = FALSE
PROPERTIES
    LeaseEnds
    ReservationEnds
    SegmentsLeaveReserved
\* Every request and task of the bounded run has ended.
CHECK_DEADLOCK FALSE
