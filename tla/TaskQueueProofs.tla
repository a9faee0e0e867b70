-------------------------- MODULE TaskQueueProofs --------------------------
(***************************************************************************)
(* TaskQueue for every number of users, tasks, calls of close() and cap:   *)
(* its invariants, and its refinement of SerialFifo.                       *)
(***************************************************************************)
EXTENDS TaskQueue, SequenceTheorems, TLAPS

\* What the records say of the tasks that wait or run.
RecordsInv ==
    /\ \A u \in Users : \A i \in DOMAIN queue[u] :
          /\ status[queue[u][i]] = "queued"
          /\ owner[queue[u][i]] = u
          /\ queue[u][i] \notin finished
    /\ \A u \in Users : \A i, j \in DOMAIN queue[u] :
          queue[u][i] = queue[u][j] => i = j
    /\ \A u \in Users : \A t \in executing[u] :
          status[t] = "running" /\ owner[t] = u /\ t \notin finished
    /\ \A t \in Tasks : owner[t] = NoUser => status[t] = "absent" /\ t \notin finished

\* No accepted task is lost: it waits, runs or has ended.
AccountedInv ==
    \A t \in Tasks : owner[t] # NoUser =>
        \/ t \in finished
        \/ t \in executing[owner[t]]
        \/ \E i \in DOMAIN queue[owner[t]] : queue[owner[t]][i] = t

\* A live worker is idle or executes one task; a dead one neither.
WorkersInv ==
    /\ \A u \in Users : worker[u] = "live" =>
          \/ idle[u] = 1 /\ executing[u] = {}
          \/ idle[u] = 0 /\ \E t \in Tasks : executing[u] = {t}
    /\ \A u \in Users : worker[u] # "live" => idle[u] = 0 /\ executing[u] = {}
    /\ \A u \in Users : worker[u] = "absent" => queue[u] = <<>>

\* A user whose join returned is drained and stays so.
CloseInv ==
    /\ accepting => \A c \in Closers : closer[c] = "idle"
    /\ \A c \in Closers : closer[c] = "joining" =>
          \A u \in Users : u \notin waiting[c] => queue[u] = <<>> /\ executing[u] = {}
    /\ \A c \in Closers : closer[c] \in {"gathering", "closed", "raised"} =>
          \A u \in Users : queue[u] = <<>> /\ executing[u] = {}
    /\ \A c \in Closers : closer[c] = "gathering" =>
          \A u \in Users : u \notin targets[c] => worker[u] = "absent"

\* What began is the prefix of what was accepted; the rest is in the queue.
LogInv ==
    /\ \A u \in Users : log[u] = began[u] \o queue[u]
    /\ \A u \in Users : \A i \in DOMAIN log[u] : owner[log[u][i]] = u

\* One task was appended to q, at its end.
LEMMA AppendElements ==
    ASSUME NEW S, NEW q \in Seq(S), NEW t \in S
    PROVE  /\ Append(q, t) \in Seq(S)
           /\ DOMAIN Append(q, t) = 1..(Len(q) + 1)
           /\ DOMAIN q = 1..Len(q)
           /\ \A i \in DOMAIN q : Append(q, t)[i] = q[i]
           /\ Append(q, t)[Len(q) + 1] = t
           /\ Len(Append(q, t)) = Len(q) + 1
  OBVIOUS

\* The first task of q was taken.
LEMMA TailElements ==
    ASSUME NEW S, NEW q \in Seq(S), q # <<>>
    PROVE  /\ Tail(q) \in Seq(S)
           /\ Head(q) \in S
           /\ Head(q) = q[1]
           /\ 1 \in DOMAIN q
           /\ Len(q) \in Nat \ {0}
           /\ DOMAIN Tail(q) = 1..(Len(q) - 1)
           /\ DOMAIN q = 1..Len(q)
           /\ \A i \in DOMAIN Tail(q) : Tail(q)[i] = q[i + 1] /\ i + 1 \in DOMAIN q
           /\ Len(Tail(q)) = Len(q) - 1
  OBVIOUS

-----------------------------------------------------------------------------
\* _retain_completed keeps the types.
LEMMA RetainTypes ==
    ASSUME TypeOK, NEW t \in Tasks, NEW outcome \in Terminal, Retain(t, outcome)
    PROVE  status' \in [Tasks -> Statuses] /\ completedOrder' \in Seq(Tasks)
  <1> DEFINE order == Append(completedOrder, t)
             recorded == [status EXCEPT ![t] = outcome]
  <1>1. order \in Seq(Tasks) /\ Len(order) # 0 /\ recorded \in [Tasks -> Statuses]
    BY DEF TypeOK, Terminal, Statuses
  <1>2. Tail(order) \in Seq(Tasks)
    BY <1>1
  <1>3. [recorded EXCEPT ![Head(order)] = "absent"] \in [Tasks -> Statuses]
    BY <1>1 DEF Statuses
  <1> QED BY <1>1, <1>2, <1>3 DEF Retain

\* The seven kinds of step keep the types (task_queue.py:80-89).
THEOREM TypeCorrect == Spec => []TypeOK
  <1>1. Init => TypeOK
    BY DEF Init, TypeOK, Statuses, WorkerStates, CloserStates
  <1>2. TypeOK /\ [Next]_vars => TypeOK'
    <2> SUFFICES ASSUME TypeOK, [Next]_vars
                 PROVE  TypeOK'
      OBVIOUS
    <2>1. ASSUME NEW u \in Users, NEW t \in Tasks, Enqueue(u, t)
          PROVE  TypeOK'
      BY <2>1 DEF Enqueue, TypeOK, closeVars, Statuses, WorkerStates
    <2>2. ASSUME NEW u \in Users, Start(u)
          PROVE  TypeOK'
      <3>1. Head(queue[u]) \in Tasks /\ Tail(queue[u]) \in Seq(Tasks)
        BY <2>2, TailElements DEF TypeOK, Start
      <3>2. idle[u] - 1 \in Nat
        BY <2>2 DEF TypeOK, Start
      <3> QED BY <2>2, <3>1, <3>2, SMTT(30) DEF Start, TypeOK, closeVars, Statuses
    <2>3. ASSUME NEW u \in Users, NEW left, TaskDone(u, left)
          PROVE  waiting' \in [Closers -> SUBSET Users]
      BY <2>3 DEF TaskDone, TypeOK
    <2>4. ASSUME NEW u \in Users, NEW t \in Tasks, NEW outcome \in Terminal,
                 Finish(u, t, outcome)
          PROVE  TypeOK'
      <3>1. status' \in [Tasks -> Statuses] /\ completedOrder' \in Seq(Tasks)
        BY <2>4, RetainTypes DEF Finish
      <3>2. waiting' \in [Closers -> SUBSET Users]
        BY <2>3, <2>4 DEF Finish
      <3> QED BY <2>4, <3>1, <3>2 DEF Finish, TypeOK, closeVars
    <2>5. ASSUME NEW u \in Users, NEW t \in Tasks, Cancelled(u, t)
          PROVE  TypeOK'
      <3>1. status' \in [Tasks -> Statuses] /\ completedOrder' \in Seq(Tasks)
        BY <2>5, RetainTypes DEF Cancelled, Terminal
      <3>2. waiting' \in [Closers -> SUBSET Users]
        BY <2>3, <2>5 DEF Cancelled
      <3> QED BY <2>5, <3>1, <3>2 DEF Cancelled, TypeOK, closeVars, WorkerStates
    <2>6. ASSUME NEW u \in Users, NEW t \in Tasks, Fatal(u, t)
          PROVE  TypeOK'
      <3>1. waiting' \in [Closers -> SUBSET Users]
        BY <2>3, <2>6 DEF Fatal
      <3> QED BY <2>6, <3>1 DEF Fatal, TypeOK, closeVars, WorkerStates
    <2>7. ASSUME NEW u \in Users, StopWorker(u)
          PROVE  TypeOK'
      <3>1. waiting' \in [Closers -> SUBSET Users]
        BY <2>3, <2>7 DEF StopWorker
      <3>2. idle[u] - 1 \in Nat /\ stops[u] - 1 \in Nat
        BY <2>7 DEF StopWorker, TypeOK
      <3> QED BY <2>7, <3>1, <3>2 DEF StopWorker, TypeOK, closeVars, WorkerStates
    <2>8. ASSUME NEW c \in Closers, CloseCall(c)
          PROVE  TypeOK'
      BY <2>8 DEF CloseCall, TypeOK, CloserStates, HasWorker
    <2>9. ASSUME NEW c \in Closers, CloseAgain(c)
          PROVE  TypeOK'
      BY <2>9 DEF CloseAgain, TypeOK, CloserStates
    <2>10. ASSUME NEW c \in Closers, CloseStep(c)
           PROVE  TypeOK'
      <3>1. CASE PutStops(c)
        BY <3>1 DEF PutStops, TypeOK, CloserStates, HasWorker
      <3>2. CASE CloseReturn(c)
        BY <3>2 DEF CloseReturn, TypeOK, CloserStates, WorkerStates
      <3>3. CASE CloseRaise(c)
        BY <3>3 DEF CloseRaise, TypeOK, CloserStates
      <3> QED BY <2>10, <3>1, <3>2, <3>3 DEF CloseStep
    <2>11. CASE UNCHANGED vars
      BY <2>11 DEF vars, TypeOK
    <2> QED BY <2>1, <2>2, <2>4, <2>5, <2>6, <2>7, <2>8, <2>9, <2>10, <2>11
            DEF Next, EndWork
  <1> QED BY <1>1, <1>2, PTL DEF Spec

-----------------------------------------------------------------------------
\* The history after one more task has ended.
LEMMA RetainEffect ==
    ASSUME TypeOK, HistoryExact, NEW t \in Tasks, status[t] = "running",
           NEW outcome \in Terminal, Retain(t, outcome)
    PROVE  /\ HistoryExact'
           /\ status'[t] = outcome
           /\ \A s \in Tasks \ {t} :
                 status'[s] = status[s] \/ (status[s] \in Terminal /\ status'[s] = "absent")
  <1> DEFINE order == Append(completedOrder, t)
             recorded == [status EXCEPT ![t] = outcome]
             size == Len(completedOrder)
  <1>1. /\ completedOrder \in Seq(Tasks) /\ size \in Nat
        /\ size <= MaxCompletedRecords /\ MaxCompletedRecords \in Nat \ {0}
        /\ status \in [Tasks -> Statuses]
    BY CapAssumption DEF TypeOK, HistoryExact
  <1>2. /\ order \in Seq(Tasks) /\ DOMAIN order = 1..(size + 1) /\ Len(order) = size + 1
        /\ DOMAIN completedOrder = 1..size
        /\ \A i \in 1..size : order[i] = completedOrder[i]
        /\ order[size + 1] = t
    BY <1>1, AppendElements
  <1>3. \A i \in 1..size : completedOrder[i] \in Tasks /\ status[completedOrder[i]] \in Terminal
    BY <1>1, <1>2 DEF HistoryExact, InSeq
  <1>4. \A i \in 1..size : completedOrder[i] # t
    BY <1>3 DEF Terminal
  <1>5. \A i, j \in 1..(size + 1) : order[i] = order[j] => i = j
    <2> SUFFICES ASSUME NEW i \in 1..(size + 1), NEW j \in 1..(size + 1), order[i] = order[j]
                 PROVE  i = j
      OBVIOUS
    <2>1. CASE i \in 1..size /\ j \in 1..size
      BY <2>1, <1>2 DEF HistoryExact
    <2>2. CASE i = size + 1 \/ j = size + 1
      BY <2>2, <1>1, <1>2, <1>4
    <2> QED BY <2>1, <2>2, <1>1
  <1>6. \A s \in Tasks : recorded[s] \in Terminal <=> InSeq(s, order)
    <2> SUFFICES ASSUME NEW s \in Tasks
                 PROVE  recorded[s] \in Terminal <=> InSeq(s, order)
      OBVIOUS
    <2>1. CASE s = t
      BY <2>1, <1>1, <1>2 DEF InSeq
    <2>2. CASE s # t
      <3>1. recorded[s] = status[s]
        BY <2>2, <1>1
      <3>2. InSeq(s, order) <=> InSeq(s, completedOrder)
        BY <2>2, <1>1, <1>2 DEF InSeq
      <3> QED BY <3>1, <3>2 DEF HistoryExact
    <2> QED BY <2>1, <2>2
  <1>7. CASE Len(order) > MaxCompletedRecords
    <2>1. completedOrder' = Tail(order) /\ status' = [recorded EXCEPT ![Head(order)] = "absent"]
      BY <1>7 DEF Retain
    <2>2. size = MaxCompletedRecords /\ size >= 1
      <3>1. size + 1 > MaxCompletedRecords
        BY <1>2, <1>7
      <3> HIDE DEF size
      <3> QED BY <1>1, <3>1
    <2>3. /\ DOMAIN completedOrder' = 1..size /\ Len(completedOrder') = size
          /\ Head(order) = order[1]
          /\ \A i \in 1..size : completedOrder'[i] = order[i + 1]
      <3>1. order # <<>>
        BY <1>1, <1>2
      <3>2. /\ DOMAIN Tail(order) = 1..(Len(order) - 1) /\ Len(Tail(order)) = Len(order) - 1
            /\ Head(order) = order[1]
            /\ \A i \in DOMAIN Tail(order) : Tail(order)[i] = order[i + 1]
        BY <3>1, <1>2, TailElements
      <3>3. Len(order) - 1 = size
        BY <1>1, <1>2
      <3> QED BY <3>2, <3>3, <2>1
    <2>4. order[1] = completedOrder[1] /\ order[1] # t /\ order[1] \in Tasks
          /\ status[order[1]] \in Terminal
      BY <1>1, <1>2, <1>3, <1>4, <2>2
    <2>5. \A s \in Tasks : status'[s] = IF s = order[1] THEN "absent" ELSE recorded[s]
      BY <2>1, <2>3, <1>1
    <2>6. \A i, j \in DOMAIN completedOrder' : completedOrder'[i] = completedOrder'[j] => i = j
      BY <1>1, <1>5, <2>2, <2>3
    <2>7. ASSUME NEW s \in Tasks
          PROVE  InSeq(s, completedOrder') <=> status'[s] \in Terminal
      <3>1. CASE s = order[1]
        <4>1. \A i \in 1..size : i + 1 \in 1..(size + 1) /\ 1 \in 1..(size + 1) /\ i + 1 # 1
          BY <1>1
        <4>2. ~ InSeq(s, completedOrder')
          BY <3>1, <4>1, <1>5, <2>3 DEF InSeq
        <4>3. "absent" \notin Terminal
          BY DEF Terminal
        <4> QED BY <3>1, <4>2, <4>3, <2>5
      <3>2. CASE s # order[1]
        <4>1. InSeq(s, completedOrder') <=> InSeq(s, order)
          <5>1. \A i \in 1..(size + 1) : i = 1 \/ (i - 1 \in 1..size /\ order[i] = completedOrder'[i - 1])
            BY <1>1, <2>3
          <5>2. \A i \in 1..size : i + 1 \in 1..(size + 1)
            BY <1>1
          <5>3. ASSUME InSeq(s, completedOrder')
                PROVE  InSeq(s, order)
            BY <5>2, <5>3, <1>2, <2>3 DEF InSeq
          <5>4. ASSUME InSeq(s, order)
                PROVE  InSeq(s, completedOrder')
            <6>1. PICK i \in 1..(size + 1) : order[i] = s
              BY <5>4, <1>2 DEF InSeq
            <6>2. i - 1 \in 1..size /\ order[i] = completedOrder'[i - 1]
              BY <6>1, <3>2, <5>1
            <6> QED BY <6>1, <6>2, <2>3 DEF InSeq
          <5> QED BY <5>3, <5>4
        <4> QED BY <4>1, <3>2, <2>5, <1>6
      <3> QED BY <3>1, <3>2
    <2>8. HistoryExact'
      BY <2>2, <2>3, <2>6, <2>7 DEF HistoryExact, InSeq
    <2>9. \A s \in Tasks \ {t} : recorded[s] = status[s]
      BY <1>1
    <2>10. recorded[t] = outcome
      BY <1>1
    <2> QED BY <2>4, <2>5, <2>8, <2>9, <2>10
  <1>8. CASE ~ (Len(order) > MaxCompletedRecords)
    <2>1. completedOrder' = order /\ status' = recorded
      BY <1>8 DEF Retain
    <2>2. HistoryExact'
      BY <2>1, <1>1, <1>2, <1>5, <1>6, <1>8 DEF HistoryExact, InSeq
    <2> QED BY <2>1, <2>2, <1>1
  <1> QED BY <1>7, <1>8

-----------------------------------------------------------------------------
Inv == TypeOK /\ RecordsInv /\ AccountedInv /\ HistoryExact /\ WorkersInv /\ CloseInv /\ LogInv

Ends(u, t) ==
    \/ \E outcome \in Terminal : Finish(u, t, outcome)
    \/ Cancelled(u, t)
    \/ Fatal(u, t)

\* What the three ways in which work ends have in common.
LEMMA EndEffect ==
    ASSUME Inv, NEW u \in Users, NEW t \in Tasks, Ends(u, t)
    PROVE  /\ t \in executing[u]
           /\ executing' = [executing EXCEPT ![u] = @ \ {t}]
           /\ finished' = finished \cup {t}
           /\ UNCHANGED <<accepting, owner, queue, stops, log, began, closer, targets>>
           /\ TaskDone(u, ItemsLeft(u))
           /\ HistoryExact'
           /\ \A s \in Tasks \ {t} :
                 status'[s] = status[s] \/ (status[s] \in Terminal /\ status'[s] = "absent")
           /\ worker' \in [Users -> WorkerStates]
           /\ \A v \in Users \ {u} : worker'[v] = worker[v] /\ idle'[v] = idle[v]
           /\ \/ worker'[u] = worker[u] /\ idle'[u] = idle[u] + 1
              \/ worker'[u] = "raised" /\ idle'[u] = idle[u]
  <1>1. t \in executing[u]
    BY DEF Ends, Finish, Cancelled, Fatal
  <1>2. status[t] = "running"
    BY <1>1 DEF Inv, RecordsInv
  <1>3. ASSUME NEW outcome \in Terminal, Finish(u, t, outcome)
        PROVE  HistoryExact' /\ \A s \in Tasks \ {t} :
                 status'[s] = status[s] \/ (status[s] \in Terminal /\ status'[s] = "absent")
    BY <1>2, <1>3, RetainEffect DEF Inv, Finish
  <1>4. ASSUME Cancelled(u, t)
        PROVE  HistoryExact' /\ \A s \in Tasks \ {t} :
                 status'[s] = status[s] \/ (status[s] \in Terminal /\ status'[s] = "absent")
    BY <1>2, <1>4, RetainEffect DEF Inv, Cancelled, Terminal
  <1>5. ASSUME Fatal(u, t)
        PROVE  HistoryExact' /\ status' = status
    BY <1>5 DEF Inv, Fatal, HistoryExact, InSeq
  <1>6. HistoryExact' /\ \A s \in Tasks \ {t} :
                 status'[s] = status[s] \/ (status[s] \in Terminal /\ status'[s] = "absent")
    BY <1>3, <1>4, <1>5 DEF Ends
  <1>7. CASE \E outcome \in Terminal : Finish(u, t, outcome)
    BY <1>1, <1>6, <1>7 DEF Inv, TypeOK, Finish, closeVars
  <1>8. CASE Cancelled(u, t)
    BY <1>1, <1>6, <1>8 DEF Inv, TypeOK, Cancelled, closeVars, WorkerStates
  <1>9. CASE Fatal(u, t)
    BY <1>1, <1>6, <1>9 DEF Inv, TypeOK, Fatal, closeVars, WorkerStates
  <1> QED BY <1>7, <1>8, <1>9 DEF Ends

\* Everything but Enqueue, Start and the end of work leaves the records alone.
LEMMA RecordsStep ==
    ASSUME Inv, [Next]_vars
    PROVE  RecordsInv' /\ AccountedInv' /\ HistoryExact'
  <1> USE DEF Inv
  <1>1. ASSUME NEW u \in Users, NEW t \in Tasks, Enqueue(u, t)
        PROVE  RecordsInv' /\ AccountedInv' /\ HistoryExact'
    <2>1. /\ owner[t] = NoUser /\ status[t] = "absent" /\ t \notin finished
          /\ owner' = [owner EXCEPT ![t] = u] /\ status' = [status EXCEPT ![t] = "queued"]
          /\ queue' = [queue EXCEPT ![u] = Append(@, t)]
          /\ UNCHANGED <<finished, completedOrder, executing>>
          /\ u # NoUser
      BY <1>1, NoUserAssumption DEF Enqueue, RecordsInv
    <2>2. \A v \in Users : queue[v] \in Seq(Tasks) /\ DOMAIN queue[v] = 1..Len(queue[v])
                            /\ Len(queue[v]) \in Nat
      BY DEF TypeOK
    <2>3. \A v \in Users : \A i \in DOMAIN queue[v] : queue[v][i] # t /\ queue[v][i] \in Tasks
      BY <2>1, <2>2 DEF RecordsInv
    <2>4. \A v \in Users : \A s \in executing[v] : s # t
      BY <2>1 DEF RecordsInv
    <2>5. /\ queue'[u] = Append(queue[u], t)
          /\ \A v \in Users \ {u} : queue'[v] = queue[v]
      BY <2>1 DEF TypeOK
    <2>6. /\ DOMAIN queue'[u] = 1..(Len(queue[u]) + 1)
          /\ \A i \in 1..Len(queue[u]) : queue'[u][i] = queue[u][i]
          /\ queue'[u][Len(queue[u]) + 1] = t
      BY <2>2, <2>5, AppendElements
    <2>7. RecordsInv'
      <3>1. ASSUME NEW v \in Users, NEW i \in DOMAIN queue'[v]
            PROVE  /\ status'[queue'[v][i]] = "queued" /\ owner'[queue'[v][i]] = v
                   /\ queue'[v][i] \notin finished'
        <4>1. CASE v = u /\ i = Len(queue[u]) + 1
          BY <4>1, <2>1, <2>6 DEF TypeOK
        <4>2. CASE v = u /\ i # Len(queue[u]) + 1
          <5>1. i \in 1..Len(queue[u])
            BY <4>2, <2>2, <2>6, <3>1
          <5> QED BY <4>2, <5>1, <2>1, <2>2, <2>3, <2>6 DEF TypeOK, RecordsInv
        <4>3. CASE v # u
          BY <4>3, <2>1, <2>3, <2>5 DEF TypeOK, RecordsInv
        <4> QED BY <4>1, <4>2, <4>3
      <3>2. ASSUME NEW v \in Users, NEW i \in DOMAIN queue'[v], NEW j \in DOMAIN queue'[v],
                   queue'[v][i] = queue'[v][j]
            PROVE  i = j
        <4>1. CASE v # u
          BY <3>2, <4>1, <2>5 DEF RecordsInv
        <4>2. CASE v = u
          <5>1. CASE i \in 1..Len(queue[u]) /\ j \in 1..Len(queue[u])
            BY <3>2, <4>2, <5>1, <2>2, <2>6 DEF RecordsInv
          <5>2. CASE ~(i \in 1..Len(queue[u]) /\ j \in 1..Len(queue[u]))
            BY <3>2, <4>2, <5>2, <2>2, <2>3, <2>6
          <5> QED BY <5>1, <5>2
        <4> QED BY <4>1, <4>2
      <3>3. \A v \in Users : \A s \in executing'[v] :
               status'[s] = "running" /\ owner'[s] = v /\ s \notin finished'
        BY <2>1, <2>4 DEF TypeOK, RecordsInv
      <3>4. \A s \in Tasks : owner'[s] = NoUser => status'[s] = "absent" /\ s \notin finished'
        BY <2>1 DEF TypeOK, RecordsInv
      <3> QED BY <3>1, <3>2, <3>3, <3>4 DEF RecordsInv
    <2>8. AccountedInv'
      <3> SUFFICES ASSUME NEW s \in Tasks, owner'[s] # NoUser
                   PROVE  \/ s \in finished' \/ s \in executing'[owner'[s]]
                          \/ \E i \in DOMAIN queue'[owner'[s]] : queue'[owner'[s]][i] = s
        BY DEF AccountedInv
      <3>1. CASE s = t
        <4>1. owner'[s] = u /\ Len(queue[u]) + 1 \in DOMAIN queue'[u]
          BY <3>1, <2>1, <2>2, <2>6 DEF TypeOK
        <4> QED BY <3>1, <4>1, <2>6
      <3>2. CASE s # t
        <4>1. owner'[s] = owner[s] /\ owner[s] \in Users
          BY <3>2, <2>1 DEF TypeOK
        <4>2. \A i \in DOMAIN queue[owner[s]] :
                 i \in DOMAIN queue'[owner[s]] /\ queue'[owner[s]][i] = queue[owner[s]][i]
          BY SMTT(30), <4>1, <2>2, <2>5, <2>6
        <4> QED BY <4>1, <4>2, <2>1 DEF AccountedInv
      <3> QED BY <3>1, <3>2
    <2>9. HistoryExact'
      BY <2>1 DEF TypeOK, HistoryExact, InSeq, Terminal
    <2> QED BY <2>7, <2>8, <2>9
  <1>2. ASSUME NEW u \in Users, Start(u)
        PROVE  RecordsInv' /\ AccountedInv' /\ HistoryExact'
    <2> DEFINE t == Head(queue[u])
    <2>1. /\ queue[u] # <<>> /\ queue' = [queue EXCEPT ![u] = Tail(@)]
          /\ status' = [status EXCEPT ![t] = "running"]
          /\ executing' = [executing EXCEPT ![u] = @ \cup {t}]
          /\ UNCHANGED <<owner, finished, completedOrder>>
      BY <1>2 DEF Start
    <2>2. \A v \in Users : queue[v] \in Seq(Tasks)
      BY DEF TypeOK
    <2>3. /\ t = queue[u][1] /\ 1 \in DOMAIN queue[u] /\ t \in Tasks
          /\ Len(queue[u]) \in Nat \ {0}
          /\ DOMAIN Tail(queue[u]) = 1..(Len(queue[u]) - 1)
          /\ DOMAIN queue[u] = 1..Len(queue[u])
          /\ \A i \in DOMAIN Tail(queue[u]) :
                Tail(queue[u])[i] = queue[u][i + 1] /\ i + 1 \in DOMAIN queue[u]
      BY <2>1, <2>2, TailElements
    <2>4. status[t] = "queued" /\ owner[t] = u /\ t \notin finished
      BY <2>3 DEF RecordsInv
    <2>5. /\ queue'[u] = Tail(queue[u]) /\ executing'[u] = executing[u] \cup {t}
          /\ \A v \in Users \ {u} : queue'[v] = queue[v] /\ executing'[v] = executing[v]
          /\ \A s \in Tasks \ {t} : status'[s] = status[s]
          /\ status'[t] = "running"
      BY <2>1, <2>3 DEF TypeOK
    <2>6. RecordsInv'
      <3>1. ASSUME NEW v \in Users, NEW i \in DOMAIN queue'[v]
            PROVE  /\ status'[queue'[v][i]] = "queued" /\ owner'[queue'[v][i]] = v
                   /\ queue'[v][i] \notin finished'
        <4>1. CASE v = u
          <5>1. i \in Nat /\ i + 1 # 1 /\ i + 1 \in DOMAIN queue[u] /\ queue'[u][i] = queue[u][i + 1]
            BY <3>1, <4>1, <2>3, <2>5
          <5>2. queue[u][i + 1] # t /\ queue[u][i + 1] \in Tasks
            BY <5>1, <2>2, <2>3 DEF RecordsInv
          <5> QED BY <4>1, <5>1, <5>2, <2>1, <2>5 DEF RecordsInv
        <4>2. CASE v # u
          <5>1. queue[v][i] # t /\ queue[v][i] \in Tasks
            BY <3>1, <4>2, <2>2, <2>4, <2>5 DEF RecordsInv
          <5> QED BY <3>1, <4>2, <5>1, <2>1, <2>5 DEF RecordsInv
        <4> QED BY <4>1, <4>2
      <3>2. ASSUME NEW v \in Users, NEW i \in DOMAIN queue'[v], NEW j \in DOMAIN queue'[v],
                   queue'[v][i] = queue'[v][j]
            PROVE  i = j
        <4>1. CASE v # u
          BY <3>2, <4>1, <2>5 DEF RecordsInv
        <4>2. CASE v = u
          <5>1. /\ i \in Nat /\ j \in Nat
                /\ i + 1 \in DOMAIN queue[u] /\ j + 1 \in DOMAIN queue[u]
                /\ queue[u][i + 1] = queue[u][j + 1]
            BY <3>2, <4>2, <2>3, <2>5
          <5>2. i + 1 = j + 1
            BY <5>1 DEF RecordsInv
          <5> QED BY <5>1, <5>2
        <4> QED BY <4>1, <4>2
      <3>3. \A v \in Users : \A s \in executing'[v] :
               status'[s] = "running" /\ owner'[s] = v /\ s \notin finished'
        BY <2>1, <2>3, <2>4, <2>5 DEF TypeOK, RecordsInv
      <3>4. \A s \in Tasks : owner'[s] = NoUser => status'[s] = "absent" /\ s \notin finished'
        BY <2>1, <2>4, <2>5, NoUserAssumption DEF TypeOK, RecordsInv
      <3> QED BY <3>1, <3>2, <3>3, <3>4 DEF RecordsInv
    <2>7. AccountedInv'
      <3> SUFFICES ASSUME NEW s \in Tasks, owner'[s] # NoUser
                   PROVE  \/ s \in finished' \/ s \in executing'[owner'[s]]
                          \/ \E i \in DOMAIN queue'[owner'[s]] : queue'[owner'[s]][i] = s
        BY DEF AccountedInv
      <3>1. owner'[s] = owner[s] /\ owner[s] \in Users
        BY <2>1 DEF TypeOK
      <3>2. CASE s \in finished \/ s \in executing[owner[s]]
        BY <3>1, <3>2, <2>1, <2>5
      <3>3. CASE \E i \in DOMAIN queue[owner[s]] : queue[owner[s]][i] = s
        <4>1. CASE owner[s] # u
          BY <4>1, <3>1, <3>3, <2>5
        <4>2. CASE owner[s] = u
          <5>1. PICK i \in DOMAIN queue[u] : queue[u][i] = s
            BY <3>3, <4>2
          <5>2. CASE i = 1
            BY <5>1, <5>2, <4>2, <3>1, <2>3, <2>5
          <5>3. CASE i # 1
            <6>1. i - 1 \in DOMAIN queue'[u] /\ (i - 1) + 1 = i
              BY <5>1, <5>3, <2>3, <2>5
            <6>2. queue'[u][i - 1] = s
              BY <5>1, <6>1, <2>3, <2>5
            <6> QED BY <6>1, <6>2, <4>2, <3>1
          <5> QED BY <5>2, <5>3
        <4> QED BY <4>1, <4>2
      <3> QED BY <3>1, <3>2, <3>3 DEF AccountedInv
    <2>8. HistoryExact'
      BY <2>1, <2>3, <2>4, <2>5 DEF TypeOK, HistoryExact, InSeq, Terminal
    <2> QED BY <2>6, <2>7, <2>8
  <1>3. ASSUME NEW u \in Users, NEW t \in Tasks, Ends(u, t)
        PROVE  RecordsInv' /\ AccountedInv' /\ HistoryExact'
    <2>1. /\ t \in executing[u] /\ finished' = finished \cup {t}
          /\ executing' = [executing EXCEPT ![u] = @ \ {t}]
          /\ owner' = owner /\ queue' = queue /\ HistoryExact'
          /\ \A s \in Tasks \ {t} :
                status'[s] = status[s] \/ (status[s] \in Terminal /\ status'[s] = "absent")
      BY <1>3, EndEffect
    <2>2. status[t] = "running" /\ owner[t] = u /\ u # NoUser
      BY <2>1, NoUserAssumption DEF RecordsInv
    <2>3. \A v \in Users : \A i \in DOMAIN queue[v] : queue[v][i] # t /\ queue[v][i] \in Tasks
      BY <2>2 DEF RecordsInv, TypeOK
    <2>4. \A v \in Users : executing'[v] \subseteq executing[v] /\ t \notin executing'[v]
                            /\ executing[v] \subseteq executing'[v] \cup {t}
      BY <2>1, <2>2 DEF TypeOK, RecordsInv
    <2>5. RecordsInv'
      <3>1. \A v \in Users : \A i \in DOMAIN queue[v] :
               status'[queue[v][i]] = "queued" /\ queue[v][i] \notin finished'
        BY <2>1, <2>3 DEF RecordsInv, Terminal
      <3>2. \A v \in Users : \A s \in executing'[v] :
               status'[s] = "running" /\ owner[s] = v /\ s \notin finished'
        <4> TAKE v \in Users
        <4> TAKE s \in executing'[v]
        <4>1. s \in executing[v] /\ s \in Tasks \ {t}
          BY <2>4 DEF TypeOK
        <4>2. status[s] = "running" /\ owner[s] = v /\ s \notin finished
          BY <4>1 DEF RecordsInv
        <4> QED BY <4>1, <4>2, <2>1 DEF Terminal
      <3>3. \A s \in Tasks : owner[s] = NoUser => status'[s] = "absent" /\ s \notin finished'
        BY <2>1, <2>2 DEF RecordsInv
      <3> QED BY <2>1, <3>1, <3>2, <3>3 DEF RecordsInv
    <2>6. AccountedInv'
      BY <2>1, <2>4 DEF AccountedInv, TypeOK
    <2> QED BY <2>1, <2>5, <2>6
  <1>4. ASSUME UNCHANGED <<owner, status, finished, completedOrder, queue, executing>>
        PROVE  RecordsInv' /\ AccountedInv' /\ HistoryExact'
    BY <1>4 DEF RecordsInv, AccountedInv, HistoryExact, InSeq
  <1>5. ASSUME NEW u \in Users, StopWorker(u)
        PROVE  RecordsInv' /\ AccountedInv' /\ HistoryExact'
    BY <1>4, <1>5 DEF StopWorker
  <1>6. ASSUME NEW c \in Closers, CloseCall(c) \/ CloseAgain(c) \/ CloseStep(c)
        PROVE  RecordsInv' /\ AccountedInv' /\ HistoryExact'
    BY <1>4, <1>6 DEF CloseCall, CloseAgain, CloseStep, PutStops, CloseReturn, CloseRaise
  <1>7. CASE UNCHANGED vars
    BY <1>4, <1>7 DEF vars
  <1> QED BY <1>1, <1>2, <1>3, <1>5, <1>6, <1>7 DEF Next, EndWork, Ends

\* A worker is idle or busy with one task, and gone otherwise.
LEMMA WorkersStep ==
    ASSUME Inv, [Next]_vars
    PROVE  WorkersInv'
  <1> USE DEF Inv
  <1>1. ASSUME NEW u \in Users, NEW t \in Tasks, Enqueue(u, t)
        PROVE  WorkersInv'
    BY <1>1 DEF Enqueue, NeedsWorker, WorkersInv, TypeOK
  <1>2. ASSUME NEW u \in Users, Start(u)
        PROVE  WorkersInv'
    <2>1. Head(queue[u]) \in Tasks
      BY <1>2, TailElements DEF Start, TypeOK
    <2>2. worker[u] = "live" /\ idle[u] = 1 /\ executing[u] = {}
      BY <1>2 DEF Start, WorkersInv, TypeOK
    <2>3. idle'[u] = 0 /\ executing'[u] = {Head(queue[u])} /\ worker' = worker
      BY <1>2, <2>2 DEF Start, TypeOK
    <2>4. \A v \in Users \ {u} : /\ idle'[v] = idle[v] /\ executing'[v] = executing[v]
                                  /\ queue'[v] = queue[v]
      BY <1>2 DEF Start, TypeOK
    <2> QED BY <2>1, <2>2, <2>3, <2>4 DEF WorkersInv
  <1>3. ASSUME NEW u \in Users, NEW t \in Tasks, Ends(u, t)
        PROVE  WorkersInv'
    <2>1. /\ t \in executing[u] /\ executing' = [executing EXCEPT ![u] = @ \ {t}]
          /\ queue' = queue
          /\ \A v \in Users \ {u} : worker'[v] = worker[v] /\ idle'[v] = idle[v]
          /\ \/ worker'[u] = worker[u] /\ idle'[u] = idle[u] + 1
             \/ worker'[u] = "raised" /\ idle'[u] = idle[u]
      BY <1>3, EndEffect
    <2>2. worker[u] = "live" /\ idle[u] = 0 /\ executing[u] = {t}
      BY <2>1 DEF WorkersInv
    <2>3. executing'[u] = {} /\ \A v \in Users \ {u} : executing'[v] = executing[v]
      BY <2>1, <2>2 DEF TypeOK
    <2> QED BY <2>1, <2>2, <2>3 DEF WorkersInv
  <1>4. ASSUME NEW u \in Users, StopWorker(u)
        PROVE  WorkersInv'
    <2>1. worker[u] = "live" /\ idle[u] = 1 /\ executing[u] = {}
      BY <1>4 DEF StopWorker, WorkersInv, TypeOK
    <2> QED BY <1>4, <2>1 DEF StopWorker, WorkersInv, TypeOK
  <1>5. ASSUME NEW c \in Closers, CloseReturn(c)
        PROVE  WorkersInv'
    <2>1. \A u \in Users : worker[u] # "live"
      BY <1>5 DEF CloseReturn, CloseInv
    <2>2. \A u \in Users : queue[u] = <<>>
      BY <1>5 DEF CloseReturn, CloseInv
    <2> QED BY <1>5, <2>1, <2>2 DEF CloseReturn, WorkersInv
  <1>6. ASSUME UNCHANGED <<worker, idle, executing, queue>>
        PROVE  WorkersInv'
    BY <1>6 DEF WorkersInv
  <1>7. ASSUME NEW c \in Closers,
               CloseCall(c) \/ CloseAgain(c) \/ PutStops(c) \/ CloseRaise(c)
        PROVE  WorkersInv'
    BY <1>6, <1>7 DEF CloseCall, CloseAgain, PutStops, CloseRaise
  <1>8. CASE UNCHANGED vars
    BY <1>6, <1>8 DEF vars
  <1> QED BY <1>1, <1>2, <1>3, <1>4, <1>5, <1>7, <1>8 DEF Next, EndWork, Ends, CloseStep

\* A drained queue stays drained while a close() is under way.
LEMMA ClosersStep ==
    ASSUME Inv, [Next]_vars
    PROVE  CloseInv'
  <1> USE DEF Inv
  <1>1. ASSUME NEW u \in Users, NEW t \in Tasks, Enqueue(u, t)
        PROVE  CloseInv'
    BY <1>1 DEF Enqueue, CloseInv, closeVars
  <1>2. ASSUME NEW u \in Users, Start(u)
        PROVE  CloseInv'
    <2>1. queue[u] # <<>> /\ u \in Users
      BY <1>2 DEF Start
    <2>2. \A c \in Closers : closer[c] \in {"idle", "joining"}
      BY <2>1 DEF CloseInv, TypeOK, CloserStates
    <2>3. \A c \in Closers : closer[c] = "joining" => u \in waiting[c]
      BY <2>1 DEF CloseInv
    <2>4. \A v \in Users \ {u} : queue'[v] = queue[v] /\ executing'[v] = executing[v]
      BY <1>2 DEF Start, TypeOK
    <2>5. UNCHANGED <<closer, accepting, waiting, targets>>
      BY <1>2 DEF Start, closeVars
    <2> QED BY <2>2, <2>3, <2>4, <2>5 DEF CloseInv
  <1>3. ASSUME NEW u \in Users, NEW t \in Tasks, Ends(u, t)
        PROVE  CloseInv'
    <2>1. /\ t \in executing[u] /\ executing' = [executing EXCEPT ![u] = @ \ {t}]
          /\ UNCHANGED <<queue, closer, accepting, targets>>
          /\ TaskDone(u, ItemsLeft(u))
      BY <1>3, EndEffect
    <2>2. executing[u] = {t} /\ worker[u] = "live"
      BY <2>1 DEF WorkersInv
    <2>3. executing'[u] = {} /\ \A v \in Users \ {u} : executing'[v] = executing[v]
      BY <2>1, <2>2 DEF TypeOK
    <2>4. \A c \in Closers : closer[c] \in {"idle", "joining"}
      BY <2>1 DEF CloseInv, TypeOK, CloserStates
    <2>5. ItemsLeft(u) = 0 => queue[u] = <<>>
      BY DEF ItemsLeft, TypeOK
    <2>6. ASSUME NEW c \in Closers, NEW v \in Users, closer[c] = "joining", v \notin waiting'[c]
          PROVE  queue[v] = <<>> /\ executing'[v] = {}
      <3>1. CASE v \notin waiting[c]
        BY <2>3, <2>6, <3>1 DEF CloseInv
      <3>2. CASE v \in waiting[c]
        BY <2>1, <2>3, <2>5, <2>6, <3>2 DEF TaskDone
      <3> QED BY <3>1, <3>2
    <2> QED BY <2>1, <2>4, <2>6 DEF CloseInv
  <1>4. ASSUME NEW u \in Users, StopWorker(u)
        PROVE  CloseInv'
    <2>1. /\ queue[u] = <<>> /\ executing[u] = {} /\ worker[u] = "live"
          /\ UNCHANGED <<queue, executing, closer, accepting, targets>>
          /\ worker' = [worker EXCEPT ![u] = "returned"]
          /\ TaskDone(u, stops[u] - 1)
      BY <1>4 DEF StopWorker, closeVars, WorkersInv, TypeOK
    <2>2. \A c \in Closers : \A v \in Users : v \notin waiting'[c] => v \notin waiting[c] \/ v = u
      BY <2>1 DEF TaskDone
    <2>3. \A c \in Closers : closer[c] = "gathering" => u \in targets[c]
      BY <2>1 DEF CloseInv
    <2> QED BY <2>1, <2>2, <2>3 DEF CloseInv, TypeOK
  <1>5. ASSUME NEW c \in Closers, CloseCall(c)
        PROVE  CloseInv'
    <2>1. /\ accepting' = FALSE /\ closer' = [closer EXCEPT ![c] = "joining"]
          /\ targets' = [targets EXCEPT ![c] = HasWorker]
          /\ waiting' = [waiting EXCEPT ![c] = {u \in HasWorker : Unfinished(u)}]
          /\ UNCHANGED <<queue, executing, worker>>
      BY <1>5 DEF CloseCall
    <2>2. \A u \in Users : u \notin waiting'[c] => queue[u] = <<>> /\ executing[u] = {}
      BY <2>1 DEF TypeOK, HasWorker, Unfinished, WorkersInv
    <2> QED BY <2>1, <2>2 DEF CloseInv, TypeOK
  <1>6. ASSUME NEW c \in Closers, CloseAgain(c)
        PROVE  CloseInv'
    <2>1. \A u \in Users : queue[u] = <<>> /\ executing[u] = {}
      BY <1>6 DEF CloseAgain, HasWorker, WorkersInv
    <2> QED BY <1>6, <2>1 DEF CloseAgain, CloseInv, TypeOK
  <1>7. ASSUME NEW c \in Closers, PutStops(c)
        PROVE  CloseInv'
    <2>1. \A u \in Users : queue[u] = <<>> /\ executing[u] = {}
      BY <1>7 DEF PutStops, CloseInv
    <2> QED BY <1>7, <2>1 DEF PutStops, CloseInv, TypeOK, HasWorker
  <1>8. ASSUME NEW c \in Closers, CloseReturn(c)
        PROVE  CloseInv'
    BY <1>8 DEF CloseReturn, CloseInv, TypeOK
  <1>9. ASSUME NEW c \in Closers, CloseRaise(c)
        PROVE  CloseInv'
    BY <1>9 DEF CloseRaise, CloseInv, TypeOK
  <1>10. CASE UNCHANGED vars
    BY <1>10 DEF vars, CloseInv
  <1> QED BY <1>1, <1>2, <1>3, <1>4, <1>5, <1>6, <1>7, <1>8, <1>9, <1>10
          DEF Next, EndWork, Ends, CloseStep

\* Appending to the queue appends to the log; taking from it only moves the border.
LEMMA LogStep ==
    ASSUME Inv, [Next]_vars
    PROVE  LogInv'
  <1> USE DEF Inv
  <1>0. \A u \in Users : /\ log[u] \in Seq(Tasks) /\ began[u] \in Seq(Tasks)
                         /\ queue[u] \in Seq(Tasks) /\ log[u] = began[u] \o queue[u]
    BY DEF TypeOK, LogInv
  <1>1. ASSUME NEW u \in Users, NEW t \in Tasks, Enqueue(u, t)
        PROVE  LogInv'
    <2>1. /\ queue' = [queue EXCEPT ![u] = Append(@, t)] /\ log' = [log EXCEPT ![u] = Append(@, t)]
          /\ owner' = [owner EXCEPT ![t] = u] /\ owner[t] = NoUser /\ began' = began
      BY <1>1 DEF Enqueue
    <2>2. \A q, b \in Seq(Tasks) : Append(b \o q, t) = b \o Append(q, t)
      OBVIOUS
    <2>3. \A v \in Users : log'[v] = began'[v] \o queue'[v]
      BY <1>0, <2>1, <2>2, ZenonT(40) DEF TypeOK
    <2>4. ASSUME NEW v \in Users, NEW i \in DOMAIN log'[v]
          PROVE  owner'[log'[v][i]] = v
      <3>1. CASE v = u /\ i = Len(log[u]) + 1
        <4>1. log'[v][i] = t
          BY <3>1, <1>0, <2>1, AppendElements DEF TypeOK
        <4> QED BY <3>1, <4>1, <2>1 DEF TypeOK
      <3>2. CASE ~(v = u /\ i = Len(log[u]) + 1)
        <4>1. i \in DOMAIN log[v] /\ log'[v][i] = log[v][i]
          <5>1. CASE v = u
            <6>1. log'[u] = Append(log[u], t)
              BY <2>1 DEF TypeOK
            <6>2. DOMAIN log'[u] = 1..(Len(log[u]) + 1) /\ DOMAIN log[u] = 1..Len(log[u])
                  /\ \A k \in DOMAIN log[u] : log'[u][k] = log[u][k]
              BY <6>1, <1>0, AppendElements
            <6>3. Len(log[u]) \in Nat
              BY <1>0
            <6> QED BY <5>1, <3>2, <2>4, <6>2, <6>3
          <5>2. CASE v # u
            BY <5>2, <2>1, <2>4 DEF TypeOK
          <5> QED BY <5>1, <5>2
        <4>2. owner[log[v][i]] = v /\ v # NoUser
          BY <4>1, NoUserAssumption DEF LogInv
        <4> QED BY <4>1, <4>2, <2>1 DEF TypeOK
      <3> QED BY <3>1, <3>2
    <2> QED BY <2>3, <2>4 DEF LogInv
  <1>2. ASSUME NEW u \in Users, Start(u)
        PROVE  LogInv'
    <2>1. /\ queue[u] # <<>> /\ queue' = [queue EXCEPT ![u] = Tail(@)]
          /\ began' = [began EXCEPT ![u] = Append(@, Head(queue[u]))]
          /\ UNCHANGED <<log, owner>>
      BY <1>2 DEF Start
    <2>2. \A q, b \in Seq(Tasks) : q # <<>> => b \o q = Append(b, Head(q)) \o Tail(q)
      OBVIOUS
    <2>3. \A v \in Users : log'[v] = began'[v] \o queue'[v]
      BY <1>0, <2>1, <2>2 DEF TypeOK
    <2> QED BY <2>1, <2>3 DEF LogInv
  <1>3. ASSUME UNCHANGED <<log, began, queue, owner>>
        PROVE  LogInv'
    BY <1>3 DEF LogInv
  <1>4. ASSUME NEW u \in Users, NEW t \in Tasks, Ends(u, t)
        PROVE  LogInv'
    BY <1>3, <1>4, EndEffect
  <1>5. ASSUME NEW u \in Users, StopWorker(u)
        PROVE  LogInv'
    BY <1>3, <1>5 DEF StopWorker
  <1>6. ASSUME NEW c \in Closers, CloseCall(c) \/ CloseAgain(c) \/ CloseStep(c)
        PROVE  LogInv'
    BY <1>3, <1>6 DEF CloseCall, CloseAgain, CloseStep, PutStops, CloseReturn, CloseRaise
  <1>7. CASE UNCHANGED vars
    BY <1>3, <1>7 DEF vars
  <1> QED BY <1>1, <1>2, <1>4, <1>5, <1>6, <1>7 DEF Next, EndWork, Ends

\* Records, workers, the log and shutdown stay consistent (task_queue.py:91-213).
THEOREM InvCorrect == Spec => []Inv
  <1>1. Init => RecordsInv /\ AccountedInv /\ HistoryExact /\ WorkersInv /\ CloseInv /\ LogInv
    <2> SUFFICES ASSUME Init
                 PROVE  RecordsInv /\ AccountedInv /\ HistoryExact /\ WorkersInv /\ CloseInv /\ LogInv
      OBVIOUS
    <2> USE DEF Init
    <2>1. RecordsInv /\ AccountedInv /\ WorkersInv /\ CloseInv
      BY DEF RecordsInv, AccountedInv, WorkersInv, CloseInv
    <2>2. HistoryExact
      BY CapAssumption DEF HistoryExact, InSeq, Terminal
    <2>3. LogInv
      BY DEF LogInv
    <2> QED BY <2>1, <2>2, <2>3
  <1>2. Inv /\ TypeOK' /\ [Next]_vars => Inv'
    BY RecordsStep, WorkersStep, ClosersStep, LogStep DEF Inv
  <1> QED BY TypeCorrect, <1>1, <1>2, PTL DEF Spec, Inv

-----------------------------------------------------------------------------
\* However workers die and are revived, a user's work is never run twice at a
\* time (task_queue.py:118-123, the guard of create_task).
THEOREM Serial == Spec => []SerialPerUser
  <1>1. Inv => SerialPerUser
    <2> SUFFICES ASSUME Inv, NEW u \in Users
                 PROVE  /\ \A s, t \in executing[u] : s = t
                        /\ idle[u] <= 1
                        /\ executing[u] # {} => idle[u] = 0
      BY DEF SerialPerUser
    <2>1. CASE worker[u] = "live" /\ idle[u] = 1 /\ executing[u] = {}
      BY <2>1
    <2>2. CASE worker[u] = "live" /\ idle[u] = 0 /\ \E t \in Tasks : executing[u] = {t}
      BY <2>2
    <2>3. CASE worker[u] # "live"
      BY <2>3 DEF Inv, WorkersInv
    <2> QED BY <2>1, <2>2, <2>3 DEF Inv, WorkersInv
  <1> QED BY InvCorrect, <1>1, PTL

\* Eviction never takes the record of work that waits or runs (task_queue.py:176-180).
THEOREM RecordsKept == Spec => []PendingRecordsKept
  <1>1. Inv => PendingRecordsKept
    <2> SUFFICES ASSUME Inv, NEW u \in Users
                 PROVE  /\ \A t \in Tasks : InSeq(t, queue[u]) => status[t] = "queued" /\ owner[t] = u
                        /\ \A t \in executing[u] : status[t] = "running" /\ owner[t] = u
      BY DEF PendingRecordsKept
    <2>1. RecordsInv
      BY DEF Inv
    <2>2. \A t \in Tasks : InSeq(t, queue[u]) => status[t] = "queued" /\ owner[t] = u
      BY <2>1 DEF RecordsInv, InSeq
    <2>3. \A t \in executing[u] : status[t] = "running" /\ owner[t] = u
      BY <2>1 DEF RecordsInv
    <2> QED BY <2>2, <2>3
  <1> QED BY InvCorrect, <1>1, PTL

\* The completed history is the terminal records, within its cap (task_queue.py:176-180).
THEOREM History == Spec => []HistoryExact
  <1>1. Inv => HistoryExact
    BY DEF Inv
  <1> QED BY InvCorrect, <1>1, PTL

\* A close() that comes back leaves no accepted task unfinished (task_queue.py:199-213).
THEOREM Drained == Spec => []DrainedWhenClosed
  <1>1. Inv => DrainedWhenClosed
    <2> SUFFICES ASSUME Inv, NEW c \in Closers, closer[c] \in {"closed", "raised"},
                        NEW t \in Issued
                 PROVE  t \in finished
      BY DEF DrainedWhenClosed
    <2>1. t \in Tasks /\ owner[t] \in Users
      BY DEF Inv, TypeOK, Issued
    <2>2. queue[owner[t]] = <<>> /\ executing[owner[t]] = {}
      BY <2>1 DEF Inv, CloseInv
    <2> QED BY <2>1, <2>2 DEF Inv, AccountedInv, Issued
  <1> QED BY InvCorrect, <1>1, PTL

\* No work is called once a close() has returned (task_queue.py:199-213).
THEOREM QuietAfterClose == Spec => NothingBeginsAfterClose
  <1>1. Inv /\ [Next]_vars => [(\E c \in Closers : closer[c] = "closed") => began' = began]_vars
    <2> SUFFICES ASSUME Inv, [Next]_vars, NEW c \in Closers, closer[c] = "closed"
                 PROVE  began' = began
      OBVIOUS
    <2>1. \A u \in Users : queue[u] = <<>>
      BY DEF Inv, CloseInv
    <2>2. \A u \in Users : ~ Start(u)
      BY <2>1 DEF Start
    <2>3. ASSUME NEW u \in Users, NEW t \in Tasks, Enqueue(u, t) \/ Ends(u, t) \/ StopWorker(u)
          PROVE  began' = began
      BY <2>3, EndEffect DEF Enqueue, StopWorker
    <2>4. ASSUME NEW d \in Closers, CloseCall(d) \/ CloseAgain(d) \/ CloseStep(d)
          PROVE  began' = began
      BY <2>4 DEF CloseCall, CloseAgain, CloseStep, PutStops, CloseReturn, CloseRaise
    <2>5. ASSUME NEW u \in Users, StopWorker(u)
          PROVE  began' = began
      BY <2>5 DEF StopWorker
    <2> QED BY <2>2, <2>3, <2>4, <2>5 DEF Next, EndWork, Ends, vars
  <1> QED BY InvCorrect, <1>1, PTL DEF Spec, NothingBeginsAfterClose

-----------------------------------------------------------------------------
\* The queue implements SerialFifo: a user's tasks run one at a time, in the
\* order enqueue() accepted them, each at most once (BACKEND.md:471-473).
THEOREM ImplementsSerialFifo == Spec => FifoSpec
  <1>1. Init => Fifo!Init
    BY DEF Init, Fifo!Init
  <1>2. Inv /\ [Next]_vars => [Fifo!Next]_(Fifo!fifoVars)
    <2> SUFFICES ASSUME Inv, [Next]_vars
                 PROVE  [Fifo!Next]_(Fifo!fifoVars)
      OBVIOUS
    <2>1. ASSUME NEW u \in Users, NEW t \in Tasks, Enqueue(u, t)
          PROVE  Fifo!Accept(u, t)
      <3>1. \A v \in Users : \A i \in DOMAIN log[v] : log[v][i] # t
        BY <2>1, NoUserAssumption DEF Enqueue, Inv, LogInv
      <3> QED BY <2>1, <3>1 DEF Enqueue, Fifo!Accept
    <2>2. ASSUME NEW u \in Users, Start(u)
          PROVE  Fifo!Begin(u)
      <3>1. executing[u] = {}
        <4>1. idle[u] > 0
          BY <2>2 DEF Start
        <4>2. WorkersInv
          BY DEF Inv
        <4> QED BY <4>1, <4>2 DEF WorkersInv
      <3>2. /\ began[u] \in Seq(Tasks) /\ queue[u] \in Seq(Tasks) /\ queue[u] # <<>>
            /\ log[u] = began[u] \o queue[u]
        BY <2>2 DEF Start, Inv, TypeOK, LogInv
      <3>3. Len(began[u]) + 1 \in DOMAIN log[u] /\ log[u][Len(began[u]) + 1] = Head(queue[u])
        <4>1. \A b, q \in Seq(Tasks) : q # <<>> =>
                 Len(b) + 1 \in DOMAIN (b \o q) /\ (b \o q)[Len(b) + 1] = q[1]
          OBVIOUS
        <4>2. Head(queue[u]) = queue[u][1]
          BY <3>2
        <4> QED BY <3>2, <4>1, <4>2
      <3>4. executing' = [executing EXCEPT ![u] = {Head(queue[u])}]
        BY <2>2, <3>1 DEF Start, Inv, TypeOK
      <3> QED BY <2>2, <3>1, <3>3, <3>4 DEF Start, Fifo!Begin
    <2>3. ASSUME NEW u \in Users, NEW t \in Tasks, Ends(u, t)
          PROVE  Fifo!End(u)
      <3>1. /\ t \in executing[u] /\ executing' = [executing EXCEPT ![u] = @ \ {t}]
            /\ UNCHANGED <<log, began>>
        BY <2>3, EndEffect
      <3>2. executing[u] = {t}
        BY <3>1 DEF Inv, WorkersInv
      <3>3. executing' = [executing EXCEPT ![u] = {}]
        BY <3>1, <3>2 DEF Inv, TypeOK
      <3> QED BY <3>1, <3>3 DEF Fifo!End
    <2>4. ASSUME UNCHANGED <<log, began, executing>>
          PROVE  UNCHANGED Fifo!fifoVars
      BY <2>4 DEF Fifo!fifoVars
    <2>5. ASSUME NEW u \in Users, StopWorker(u)
          PROVE  UNCHANGED Fifo!fifoVars
      BY <2>4, <2>5 DEF StopWorker
    <2>6. ASSUME NEW c \in Closers, CloseCall(c) \/ CloseAgain(c) \/ CloseStep(c)
          PROVE  UNCHANGED Fifo!fifoVars
      BY <2>4, <2>6 DEF CloseCall, CloseAgain, CloseStep, PutStops, CloseReturn, CloseRaise
    <2>7. CASE UNCHANGED vars
      BY <2>4, <2>7 DEF vars
    <2> QED BY <2>1, <2>2, <2>3, <2>5, <2>6, <2>7 DEF Next, EndWork, Ends, Fifo!Next
  <1> QED BY InvCorrect, <1>1, <1>2, PTL DEF Spec, FifoSpec, Fifo!Spec
=============================================================================
