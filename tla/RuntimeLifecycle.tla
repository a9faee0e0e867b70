-------------------------- MODULE RuntimeLifecycle --------------------------
(***************************************************************************)
(* One backend process: create_runtime_app makes what it owns, one factory *)
(* after another, and closes what it made when one fails (runtime_app.py); *)
(* the application connects, warms up and validates, serves, and shuts     *)
(* down along a chain of finally clauses (lifespan of main.py, startup and *)
(* shutdown of runtime_app.py).  Every step of it may raise.               *)
(***************************************************************************)
EXTENDS Naturals, Sequences, SequencesExt

CONSTANT SeparateSegmenter      \* a segmenter of its own, not the multi-vector provider

VARIABLES
    phase,      \* construct, undo, connect, start, serve, stop, failed or down
    step,       \* how many steps of the phase are done
    owned,      \* what was made, in its order
    closings,   \* what was closed, in its order
    connected,  \* the local variable of lifespan
    checks,     \* of the start-up: what succeeded
    ready       \* application.state.runtime_ready

lifecycleVars == <<phase, step, owned, closings, connected, checks, ready>>

\* The segmenter is made, and closed, only when it is not the provider.  The
\* tokenizer and the services are made last, and own nothing.
Factories ==
    IF SeparateSegmenter
    THEN <<"multi_vectors", "segmenter", "manager", "task_queue", "embedding", "reranker",
           "granite", "qwen", "tokenizer">>
    ELSE <<"multi_vectors", "manager", "task_queue", "embedding", "reranker",
           "granite", "qwen", "tokenizer">>

\* startup: the two endpoints are validated at the same time.
StartSteps == <<{"processing"}, {"embedding"}, {"reranker"}, {"collections"}, {"granite", "qwen"}>>

\* The queue, then the hook with the asynchronous and the synchronous client of
\* Qwen first, then the connection.
StopSteps ==
    IF SeparateSegmenter
    THEN <<"task_queue", "qwen_async", "qwen", "granite", "embedding", "reranker",
           "multi_vectors", "segmenter", "processing", "manager">>
    ELSE <<"task_queue", "qwen_async", "qwen", "granite", "embedding", "reranker",
           "multi_vectors", "processing", "manager">>

LifecycleInit ==
    /\ phase = "construct"
    /\ step = 0
    /\ owned = <<>>
    /\ closings = <<>>
    /\ connected = FALSE
    /\ checks = {}
    /\ ready = FALSE

Enter(p) == phase' = p /\ step' = 0

------------------------------------------------------------------------------
(* Construction.                                                            *)

Make ==
    /\ phase = "construct"
    /\ owned' = IF Factories[step + 1] = "tokenizer" THEN owned
                ELSE Append(owned, Factories[step + 1])
    /\ IF step + 1 = Len(Factories) THEN Enter("connect")
       ELSE step' = step + 1 /\ UNCHANGED phase
    /\ UNCHANGED <<closings, connected, checks, ready>>

FactoryFails ==
    /\ phase = "construct"
    /\ Enter("undo")
    /\ UNCHANGED <<owned, closings, connected, checks, ready>>

\* Qwen has two clients; both are closed.
Closes(resource) == IF resource = "qwen" THEN <<"qwen_async", "qwen">> ELSE <<resource>>

\* construction_cleanup from its end.  What a cleanup raises is logged.
Undo ==
    /\ phase = "undo"
    /\ IF step = Len(owned)
       THEN Enter("failed") /\ UNCHANGED closings
       ELSE /\ closings' = closings \o Closes(owned[Len(owned) - step])
            /\ step' = step + 1
            /\ UNCHANGED phase
    /\ UNCHANGED <<owned, connected, checks, ready>>

------------------------------------------------------------------------------
(* The application.                                                         *)

Connect(succeeds) ==
    /\ phase = "connect"
    /\ connected' = succeeds
    /\ Enter(IF succeeds THEN "start" ELSE "stop")
    /\ UNCHANGED <<owned, closings, checks, ready>>

\* One step of startup, with what it checks all passed or not.
StartStep(passed) ==
    /\ phase = "start"
    /\ passed \subseteq StartSteps[step + 1]
    /\ checks' = checks \cup passed
    /\ IF passed # StartSteps[step + 1] THEN Enter("stop") /\ UNCHANGED ready
       ELSE IF step + 1 < Len(StartSteps) THEN step' = step + 1 /\ UNCHANGED <<phase, ready>>
       ELSE Enter("serve") /\ ready' = TRUE
    /\ UNCHANGED <<owned, closings, connected>>

Shutdown ==
    /\ phase = "serve"
    /\ Enter("stop")
    /\ UNCHANGED <<owned, closings, connected, checks, ready>>

\* Slip: the exception of a step ends the chain.
FaultAfterStop(raises) == IF raises THEN "down" ELSE "stop"

\* The finally clauses: the chain continues whether a step raises or not.
AfterStop(raises) == "stop"

\* The first step of the hook takes the application out of service.
StopStep(raises) ==
    /\ phase = "stop"
    /\ LET closed == StopSteps[step + 1]
       IN /\ closings' = IF closed = "manager" /\ ~connected THEN closings
                         ELSE Append(closings, closed)
          /\ ready' = (ready /\ closed = "task_queue")
    /\ IF step + 1 = Len(StopSteps) THEN Enter("down")
       ELSE step' = step + 1 /\ phase' = AfterStop(raises)
    /\ UNCHANGED <<owned, connected, checks>>

LifecycleNext ==
    \/ Make \/ FactoryFails \/ Undo
    \/ \E succeeds \in BOOLEAN : Connect(succeeds)
    \/ \E passed \in SUBSET UNION ToSet(StartSteps) : StartStep(passed)
    \/ Shutdown
    \/ \E raises \in BOOLEAN : StopStep(raises)

LifecycleSpec == LifecycleInit /\ [][LifecycleNext]_lifecycleVars

------------------------------------------------------------------------------
(* Properties.                                                              *)

MustClose ==
    (UNION {ToSet(Closes(r)) : r \in ToSet(owned) \ (IF phase = "down" /\ ~connected THEN {"manager"} ELSE {})})
    \cup (IF phase = "down" THEN {"processing"} ELSE {})
ClosedBefore(first, second) ==
    \A n \in DOMAIN closings : closings[n] = second => \E m \in 1..n : closings[m] = first

\* Whichever steps raise, whatever was made is closed once and never while the
\* application says that it is ready; it says so only when every check of the
\* start-up has passed; and a running application closes the queue before the
\* providers its work uses, and the storage after them (runtime_app.py:174-316,
\* main.py:42-60).
ResourcesClosed ==
    /\ phase \in {"failed", "down"} => ~ready /\ ToSet(closings) = MustClose
    /\ IsInjective(closings)
    /\ ready => checks = UNION ToSet(StartSteps) /\ ToSet(closings) \subseteq {"task_queue"}
    /\ phase \in {"stop", "down"} => \A r \in ToSet(closings) :
         ClosedBefore("task_queue", r) /\ ClosedBefore(r, "manager")
=============================================================================
