----------------------------- MODULE TaskQueue -----------------------------
(***************************************************************************)
(* backend/task_queue.py: InMemoryTaskQueue.  One asyncio event loop runs  *)
(* every coroutine of the class, so an action is the code between two      *)
(* suspensions.  The put into the unbounded queue never suspends.          *)
(*                                                                         *)
(* A user's asyncio.Queue holds the task identifiers queue[u] followed by  *)
(* stops[u] _STOP sentinels: nothing is enqueued once a sentinel is in,    *)
(* because close() clears _accepting before it puts one.  Worker tasks are *)
(* anonymous: idle[u] of them are suspended in queue.get(), one more for   *)
(* each task in executing[u]; worker[u] is the state of the asyncio.Task   *)
(* that _workers holds.                                                    *)
(***************************************************************************)
EXTENDS Sequences, Naturals

CONSTANTS
    Users,                  \* the tenants
    Tasks,                  \* the uuid4 task identifiers (bounds a run)
    Closers,                \* the calls of close() a run may make
    MaxCompletedRecords,    \* TASK_MAX_COMPLETED_RECORDS
    WorkerDeaths,           \* ways work may kill its worker, of DeathKinds
    NoUser

\* asyncio.CancelledError, and a BaseException that is not an Exception.
DeathKinds == {"cancelled", "fatal"}

ASSUME CapAssumption == MaxCompletedRecords \in Nat \ {0}
ASSUME DeathsAssumption == WorkerDeaths \subseteq DeathKinds
ASSUME NoUserAssumption == NoUser \notin Users

VARIABLES
    accepting,      \* _accepting
    owner,          \* owner[t]: user_id of the record of t, NoUser if t is unissued
    status,         \* status[t]: its status in _records, "absent" if not there
    finished,       \* the tasks whose completed event is set
    completedOrder, \* _completed_order
    queue, stops,   \* the items of each user's asyncio.Queue
    worker,         \* the handle in _workers ("absent": no worker, no queue)
    idle,           \* how many worker tasks of u are suspended in queue.get()
    executing,      \* the tasks of u whose work is being awaited
    closer,         \* where each call of close() is
    targets,        \* the users whose queues, then workers, that call listed
    waiting,        \* the users whose queue.join() that call still awaits
    log, began      \* history: tasks accepted, tasks whose work was called

vars == <<accepting, owner, status, finished, completedOrder, queue, stops,
          worker, idle, executing, closer, targets, waiting, log, began>>
closeVars == <<accepting, closer, targets>>

Statuses == {"absent", "queued", "running", "succeeded", "failed"}
Terminal == {"succeeded", "failed"}
WorkerStates == {"absent", "live", "returned", "raised"}
CloserStates == {"idle", "joining", "gathering", "closed", "raised"}

TypeOK ==
    /\ accepting \in BOOLEAN
    /\ owner \in [Tasks -> Users \cup {NoUser}]
    /\ status \in [Tasks -> Statuses]
    /\ finished \subseteq Tasks
    /\ completedOrder \in Seq(Tasks)
    /\ queue \in [Users -> Seq(Tasks)]
    /\ stops \in [Users -> Nat]
    /\ worker \in [Users -> WorkerStates]
    /\ idle \in [Users -> Nat]
    /\ executing \in [Users -> SUBSET Tasks]
    /\ closer \in [Closers -> CloserStates]
    /\ targets \in [Closers -> SUBSET Users]
    /\ waiting \in [Closers -> SUBSET Users]
    /\ log \in [Users -> Seq(Tasks)]
    /\ began \in [Users -> Seq(Tasks)]

Init ==
    /\ accepting = TRUE
    /\ owner = [t \in Tasks |-> NoUser]
    /\ status = [t \in Tasks |-> "absent"]
    /\ finished = {}
    /\ completedOrder = <<>>
    /\ queue = [u \in Users |-> <<>>]
    /\ stops = [u \in Users |-> 0]
    /\ worker = [u \in Users |-> "absent"]
    /\ idle = [u \in Users |-> 0]
    /\ executing = [u \in Users |-> {}]
    /\ closer = [c \in Closers |-> "idle"]
    /\ targets = [c \in Closers |-> {}]
    /\ waiting = [c \in Closers |-> {}]
    /\ log = [u \in Users |-> <<>>]
    /\ began = [u \in Users |-> <<>>]

-----------------------------------------------------------------------------
\* enqueue(): a fresh record, and a new worker on the same queue when the
\* user has none or the last one is done.
FaultAlwaysNewWorker(u) == TRUE
NeedsWorker(u) == worker[u] # "live"

Enqueue(u, t) ==
    /\ accepting
    /\ owner[t] = NoUser
    /\ owner' = [owner EXCEPT ![t] = u]
    /\ status' = [status EXCEPT ![t] = "queued"]
    /\ worker' = [worker EXCEPT ![u] = "live"]
    /\ idle' = [idle EXCEPT ![u] = IF NeedsWorker(u) THEN @ + 1 ELSE @]
    /\ queue' = [queue EXCEPT ![u] = Append(@, t)]
    /\ log' = [log EXCEPT ![u] = Append(@, t)]
    /\ UNCHANGED <<finished, completedOrder, stops, executing, waiting, began>>
    /\ UNCHANGED closeVars

\* Seeded faults of Start: one worker shared by all users; last in, first out;
\* a worker that is still awaiting work takes the next task.
FaultSharedStart(u) ==
    /\ \A v \in Users : executing[v] = {}
    /\ idle[u] > 0
    /\ queue[u] # <<>>
    /\ idle' = [idle EXCEPT ![u] = @ - 1]
    /\ queue' = [queue EXCEPT ![u] = Tail(@)]
    /\ status' = [status EXCEPT ![Head(queue[u])] = "running"]
    /\ executing' = [executing EXCEPT ![u] = @ \cup {Head(queue[u])}]
    /\ began' = [began EXCEPT ![u] = Append(@, Head(queue[u]))]
    /\ UNCHANGED <<owner, finished, completedOrder, stops, worker, waiting, log>>
    /\ UNCHANGED closeVars

FaultLifoStart(u) ==
    LET size == Len(queue[u])
        last == queue[u][size]
    IN  /\ idle[u] > 0
        /\ queue[u] # <<>>
        /\ idle' = [idle EXCEPT ![u] = @ - 1]
        /\ queue' = [queue EXCEPT ![u] = SubSeq(@, 1, size - 1)]
        /\ status' = [status EXCEPT ![last] = "running"]
        /\ executing' = [executing EXCEPT ![u] = @ \cup {last}]
        /\ began' = [began EXCEPT ![u] = Append(@, last)]
        /\ UNCHANGED <<owner, finished, completedOrder, stops, worker, waiting, log>>
        /\ UNCHANGED closeVars

\* _worker(): take the next identifier, mark its record running, call its work.
Start(u) ==
    /\ idle[u] > 0
    /\ queue[u] # <<>>
    /\ idle' = [idle EXCEPT ![u] = @ - 1]
    /\ queue' = [queue EXCEPT ![u] = Tail(@)]
    /\ status' = [status EXCEPT ![Head(queue[u])] = "running"]
    /\ executing' = [executing EXCEPT ![u] = @ \cup {Head(queue[u])}]
    /\ began' = [began EXCEPT ![u] = Append(@, Head(queue[u]))]
    /\ UNCHANGED <<owner, finished, completedOrder, stops, worker, waiting, log>>
    /\ UNCHANGED closeVars

\* Seeded faults of Retain: the cap is exceeded by one; the oldest record is
\* forgotten whatever its state.
FaultRetainOneMore(t, outcome) ==
    LET order == Append(completedOrder, t)
        recorded == [status EXCEPT ![t] = outcome]
    IN  IF Len(order) > MaxCompletedRecords + 1
        THEN /\ completedOrder' = Tail(order)
             /\ status' = [recorded EXCEPT ![Head(order)] = "absent"]
        ELSE /\ completedOrder' = order
             /\ status' = recorded

FaultRetainEvictsAny(t, outcome) ==
    LET recorded == [status EXCEPT ![t] = outcome] IN
    /\ completedOrder' = Append(completedOrder, t)
    /\ IF Len(completedOrder) >= MaxCompletedRecords
       THEN \E old \in Tasks : status' = [recorded EXCEPT ![old] = "absent"]
       ELSE status' = recorded

\* _retain_completed(): remember t, forget the oldest record beyond the cap.
\* The loop runs at most once, since the deque never exceeds the cap.
Retain(t, outcome) ==
    LET order == Append(completedOrder, t)
        recorded == [status EXCEPT ![t] = outcome]
    IN  IF Len(order) > MaxCompletedRecords
        THEN /\ completedOrder' = Tail(order)
             /\ status' = [recorded EXCEPT ![Head(order)] = "absent"]
        ELSE /\ completedOrder' = order
             /\ status' = recorded

\* Seeded fault of TaskDone: task_done() is not called.
FaultNoTaskDone(u, left) == waiting' = waiting

\* queue.task_done(): wakes the joins of u when no item is left unfinished.
\* It runs before the worker takes another item, so the executing item is
\* the one just done.
TaskDone(u, left) ==
    waiting' = [c \in Closers |->
                  IF left = 0 THEN waiting[c] \ {u} ELSE waiting[c]]

ItemsLeft(u) == Len(queue[u]) + stops[u]

\* The work returned, or raised an Exception: the worker survives.
Finish(u, t, outcome) ==
    /\ t \in executing[u]
    /\ executing' = [executing EXCEPT ![u] = @ \ {t}]
    /\ finished' = finished \cup {t}
    /\ Retain(t, outcome)
    /\ idle' = [idle EXCEPT ![u] = @ + 1]
    /\ TaskDone(u, ItemsLeft(u))
    /\ UNCHANGED <<owner, queue, stops, worker, log, began>>
    /\ UNCHANGED closeVars

\* The work raised CancelledError: the record fails and the worker dies.
Cancelled(u, t) ==
    /\ "cancelled" \in WorkerDeaths
    /\ t \in executing[u]
    /\ executing' = [executing EXCEPT ![u] = @ \ {t}]
    /\ finished' = finished \cup {t}
    /\ Retain(t, "failed")
    /\ worker' = [worker EXCEPT ![u] = "raised"]
    /\ TaskDone(u, ItemsLeft(u))
    /\ UNCHANGED <<owner, queue, stops, idle, log, began>>
    /\ UNCHANGED closeVars

\* Any other BaseException: the worker dies, the record stays "running", is
\* never retained and so never evicted.
Fatal(u, t) ==
    /\ "fatal" \in WorkerDeaths
    /\ t \in executing[u]
    /\ executing' = [executing EXCEPT ![u] = @ \ {t}]
    /\ finished' = finished \cup {t}
    /\ worker' = [worker EXCEPT ![u] = "raised"]
    /\ TaskDone(u, ItemsLeft(u))
    /\ UNCHANGED <<owner, status, completedOrder, queue, stops, idle, log, began>>
    /\ UNCHANGED closeVars

\* A worker reads the sentinel and returns.
StopWorker(u) ==
    /\ idle[u] > 0
    /\ queue[u] = <<>>
    /\ stops[u] > 0
    /\ idle' = [idle EXCEPT ![u] = @ - 1]
    /\ stops' = [stops EXCEPT ![u] = @ - 1]
    /\ worker' = [worker EXCEPT ![u] = "returned"]
    /\ TaskDone(u, stops[u] - 1)
    /\ UNCHANGED <<owner, status, finished, completedOrder, queue, executing,
                   log, began>>
    /\ UNCHANGED closeVars

-----------------------------------------------------------------------------
\* close(), up to the gather of the joins.  asyncio.Queue counts an item as
\* unfinished until task_done(), so an executing task counts.
Unfinished(u) == queue[u] # <<>> \/ stops[u] > 0 \/ executing[u] # {}
HasWorker == {u \in Users : worker[u] # "absent"}

\* Seeded fault of CloseCall: _accepting is not cleared.
FaultCloseStillAccepts(c) ==
    /\ closer[c] = "idle"
    /\ accepting' = accepting
    /\ closer' = [closer EXCEPT ![c] = "joining"]
    /\ targets' = [targets EXCEPT ![c] = HasWorker]
    /\ waiting' = [waiting EXCEPT ![c] = {u \in HasWorker : Unfinished(u)}]
    /\ UNCHANGED <<owner, status, finished, completedOrder, queue, stops,
                   worker, idle, executing, log, began>>

CloseCall(c) ==
    /\ closer[c] = "idle"
    /\ accepting \/ HasWorker # {}
    /\ accepting' = FALSE
    /\ closer' = [closer EXCEPT ![c] = "joining"]
    /\ targets' = [targets EXCEPT ![c] = HasWorker]
    /\ waiting' = [waiting EXCEPT ![c] = {u \in HasWorker : Unfinished(u)}]
    /\ UNCHANGED <<owner, status, finished, completedOrder, queue, stops,
                   worker, idle, executing, log, began>>

\* close() on a queue that is closed already.
CloseAgain(c) ==
    /\ closer[c] = "idle"
    /\ ~accepting
    /\ HasWorker = {}
    /\ closer' = [closer EXCEPT ![c] = "closed"]
    /\ UNCHANGED <<accepting, owner, status, finished, completedOrder, queue,
                   stops, worker, idle, executing, targets, waiting, log, began>>

\* Seeded fault of PutStops: the joins are not awaited.
FaultStopsBeforeDrain(c) ==
    /\ closer[c] = "joining"
    /\ stops' = [u \in Users |-> IF u \in targets[c] THEN stops[u] + 1 ELSE stops[u]]
    /\ closer' = [closer EXCEPT ![c] = "gathering"]
    /\ targets' = [targets EXCEPT ![c] = HasWorker]
    /\ UNCHANGED <<accepting, owner, status, finished, completedOrder, queue,
                   worker, idle, executing, waiting, log, began>>

\* Every join returned: one sentinel to each listed queue, then list the workers.
PutStops(c) ==
    /\ closer[c] = "joining"
    /\ waiting[c] = {}
    /\ stops' = [u \in Users |-> IF u \in targets[c] THEN stops[u] + 1 ELSE stops[u]]
    /\ closer' = [closer EXCEPT ![c] = "gathering"]
    /\ targets' = [targets EXCEPT ![c] = HasWorker]
    /\ UNCHANGED <<accepting, owner, status, finished, completedOrder, queue,
                   worker, idle, executing, waiting, log, began>>

\* gather(*workers) returned: forget the workers and their queues.
CloseReturn(c) ==
    /\ closer[c] = "gathering"
    /\ \A u \in targets[c] : worker[u] \in {"returned", "absent"}
    /\ closer' = [closer EXCEPT ![c] = "closed"]
    /\ worker' = [u \in Users |-> "absent"]
    /\ UNCHANGED <<accepting, owner, status, finished, completedOrder, queue,
                   stops, idle, executing, targets, waiting, log, began>>

\* gather(*workers) re-raises what a dead worker raised; nothing is cleared.
CloseRaise(c) ==
    /\ closer[c] = "gathering"
    /\ \E u \in targets[c] : worker[u] = "raised"
    /\ closer' = [closer EXCEPT ![c] = "raised"]
    /\ UNCHANGED <<accepting, owner, status, finished, completedOrder, queue,
                   stops, worker, idle, executing, targets, waiting, log, began>>

-----------------------------------------------------------------------------
EndWork(u) ==
    \E t \in Tasks :
        \/ \E outcome \in Terminal : Finish(u, t, outcome)
        \/ Cancelled(u, t)
        \/ Fatal(u, t)

CloseStep(c) == PutStops(c) \/ CloseReturn(c) \/ CloseRaise(c)

Next ==
    \/ \E u \in Users :
        \/ \E t \in Tasks : Enqueue(u, t)
        \/ Start(u)
        \/ EndWork(u)
        \/ StopWorker(u)
    \/ \E c \in Closers :
        \/ CloseCall(c)
        \/ CloseAgain(c)
        \/ CloseStep(c)

Spec == Init /\ [][Next]_vars

(***************************************************************************)
(* The event loop resumes every runnable coroutine.  Work ends for the     *)
(* users of the set given (providers and storage have timeouts); nothing   *)
(* forces a client to enqueue or the application to close.                 *)
(***************************************************************************)
Fairness(diligent) ==
    /\ \A u \in Users : WF_vars(Start(u)) /\ WF_vars(StopWorker(u))
    /\ \A u \in diligent : WF_vars(EndWork(u))
    /\ \A c \in Closers : WF_vars(CloseStep(c))

FairSpec == Spec /\ Fairness(Users)

-----------------------------------------------------------------------------
(* Properties *)

InSeq(t, s) == \E i \in DOMAIN s : s[i] = t
Issued == {t \in Tasks : owner[t] # NoUser}

\* One piece of work per user at a time: enqueue must not add a worker to a
\* queue that has a live one, whatever order workers die, stop and are revived in
\* (BACKEND.md:473).
SerialPerUser ==
    \A u \in Users :
        /\ \A s, t \in executing[u] : s = t
        /\ idle[u] <= 1
        /\ executing[u] # {} => idle[u] = 0

\* A worker always finds the record of the identifier it takes: eviction removes
\* no queued or running task, whichever user's completions fill the history
\* (API.md:88), so `self._records[str(item)]` cannot kill the worker.
PendingRecordsKept ==
    \A u \in Users :
        /\ \A t \in Tasks : InSeq(t, queue[u]) => status[t] = "queued" /\ owner[t] = u
        /\ \A t \in executing[u] : status[t] = "running" /\ owner[t] = u

\* The history holds exactly the terminal records, each once, within its cap: no
\* record leaks and none is lost to a double registration.
HistoryExact ==
    /\ Len(completedOrder) <= MaxCompletedRecords
    /\ \A i, j \in DOMAIN completedOrder : completedOrder[i] = completedOrder[j] => i = j
    /\ \A t \in Tasks : InSeq(t, completedOrder) <=> status[t] \in Terminal

\* Once a call of close() has returned, or raised, every accepted task has
\* ended: no concurrent close() or dead worker lets it return before the drain
\* (task_queue.py:200).
DrainedWhenClosed ==
    \A c \in Closers : closer[c] \in {"closed", "raised"} => Issued \subseteq finished

\* No work begins after a close() has returned.
NothingBeginsAfterClose ==
    [][(\E c \in Closers : closer[c] = "closed") => began' = began]_vars

\* Tasks run in acceptance order, one at a time, at most once: the abstract
\* queue of SerialFifo is implemented.
Fifo == INSTANCE SerialFifo WITH active <- executing
FifoSpec == Fifo!Spec

\* Every accepted task of a user whose work ends eventually ends, even while
\* another user's work is stuck (BACKEND.md:473: users run in parallel).
TasksEnd(diligent) ==
    \A t \in Tasks : owner[t] \in diligent ~> t \in finished

\* close() drains all accepted work and comes back (task_queue.py:200).
CloseDrains ==
    \A c \in Closers : closer[c] = "joining" ~> closer[c] \in {"closed", "raised"}
=============================================================================
