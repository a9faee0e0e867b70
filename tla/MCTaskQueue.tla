---------------------------- MODULE MCTaskQueue ----------------------------
(***************************************************************************)
(* A small instance of TaskQueue.  The work of the users in Diligent ends; *)
(* that of the others may hang for ever.                                   *)
(***************************************************************************)
EXTENDS TaskQueue

CONSTANT Diligent       \* the users whose work always ends

DiligentSpec == Spec /\ Fairness(Diligent)

\* A task accepted for a user whose work ends, and never kills its worker, does
\* end, whatever the work of the other users does: hang for ever or kill theirs
\* (task_queue.py:113, one worker per user; BACKEND.md:473).
DiligentTasksEnd ==
    \A u \in Diligent : [](worker[u] # "raised") => TasksEnd({u})

\* When all work ends and none kills its worker, every close() comes back,
\* however many run at once (task_queue.py:200).
CloseDrainsWhenWorkEnds ==
    (\A u \in Users : [](worker[u] # "raised") /\ []<>(executing[u] = {})) => CloseDrains
=============================================================================
