\* All work ends, but it may end in CancelledError.
SPECIFICATION FairSpec
CONSTANTS
    Users = {u1}
    Tasks = {t1, t2}
    Closers = {c1}
    MaxCompletedRecords = 1
    WorkerDeaths = {"cancelled"}
    NoUser = NoUser
    Diligent = {}
PROPERTY CloseDrains
CHECK_DEADLOCK FALSE
