\* One session, two answers, two attempts to delete it, two segments each.
SPECIFICATION Spec
CONSTANTS
    Sessions = {s1}
    Convs = {c1, c2}
    Deletes = {d1, d2}
    NumSegments = 2
    User = u
    NoSession = NoSession
    Renamed = Renamed
    MayAbandon = TRUE
SYMMETRY Symmetric
INVARIANTS
    ReservationExclusive
    NoOrphanSegments
    SnapshotCoversHistory
    WorkFindsSession
PROPERTY TitleAdvances
\* Every request and task of the bounded run has ended.
CHECK_DEADLOCK FALSE
