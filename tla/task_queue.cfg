SPECIFICATION DiligentSpec
CONSTANTS
    Users = {u1, u2}
    Tasks = {t1, t2, t3}
    Closers = {c1, c2}
    MaxCompletedRecords = 1
    WorkerDeaths = {"cancelled", "fatal"}
    NoUser = NoUser
    Diligent = {u2}
INVARIANTS
    SerialPerUser
    PendingRecordsKept
    HistoryExact
    DrainedWhenClosed
PROPERTIES
    NothingBeginsAfterClose
    FifoSpec
    DiligentTasksEnd
    CloseDrainsWhenWorkEnds
\* A closed queue is the end of the process.
CHECK_DEADLOCK FALSE
