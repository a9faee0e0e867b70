---------------------------- MODULE SerialFifo ----------------------------
(***************************************************************************)
(* What the background queue promises its callers (BACKEND.md section 7.1, *)
(* task_queue.py:65): the work of one user runs one piece at a time, in    *)
(* the order it was accepted, each piece at most once; users do not order  *)
(* each other.  Nothing here knows of records, worker tasks or shutdown.   *)
(***************************************************************************)
EXTENDS Sequences, Naturals

CONSTANTS
    Users,          \* the tenants
    Tasks           \* the task identifiers that can be issued

VARIABLES
    log,            \* log[u]: the tasks accepted for u, oldest first
    began,          \* began[u]: the tasks whose work was called, oldest first
    active          \* active[u]: the tasks of u whose work is in progress

fifoVars == <<log, began, active>>

Init ==
    /\ log = [u \in Users |-> <<>>]
    /\ began = [u \in Users |-> <<>>]
    /\ active = [u \in Users |-> {}]

\* A task identifier enters at most one log, once.
Accept(u, t) ==
    /\ \A v \in Users : \A i \in DOMAIN log[v] : log[v][i] # t
    /\ log' = [log EXCEPT ![u] = Append(@, t)]
    /\ UNCHANGED <<began, active>>

\* A caller that does not suspend between two enqueues: nothing comes between
\* the two tasks (the persistence and the title of one answer).
AcceptPair(u, s, t) ==
    /\ s # t
    /\ \A v \in Users : \A i \in DOMAIN log[v] : log[v][i] \notin {s, t}
    /\ log' = [log EXCEPT ![u] = @ \o <<s, t>>]
    /\ UNCHANGED <<began, active>>

\* Only the next task in acceptance order may begin, and only alone.
Begin(u) ==
    LET next == Len(began[u]) + 1 IN
    /\ active[u] = {}
    /\ next \in DOMAIN log[u]
    /\ began' = [began EXCEPT ![u] = Append(@, log[u][next])]
    /\ active' = [active EXCEPT ![u] = {log[u][next]}]
    /\ log' = log

End(u) ==
    /\ active[u] # {}
    /\ active' = [active EXCEPT ![u] = {}]
    /\ UNCHANGED <<log, began>>

Next ==
    \E u \in Users :
        \/ \E t \in Tasks : Accept(u, t)
        \/ \E s, t \in Tasks : AcceptPair(u, s, t)
        \/ Begin(u)
        \/ End(u)

Spec == Init /\ [][Next]_fifoVars
=============================================================================
