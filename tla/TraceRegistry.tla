--------------------------- MODULE TraceRegistry ---------------------------
(***************************************************************************)
(* DiagnosticTraceRegistry of backend/wizard/diagnostics.py and the        *)
(* functions through which requests, their threads and their background    *)
(* tasks observe: a deep registry has one session of many operations, an   *)
(* evaluation registry many sessions of one operation.                     *)
(*                                                                         *)
(* Each registry call holds the lock, but an observation is two of them:   *)
(* the look whether its operation is captured, and the record.  Sessions   *)
(* are started and deleted by a client at any moment, also while requests  *)
(* of theirs run.  An observation is a sample of one or two items.         *)
(*                                                                         *)
(* What is observed goes to the operation of the active handle, a context  *)
(* variable.  A request sets it, and so does the work that it gives to the *)
(* background queue; without a handle, activate_operation leaves in place  *)
(* the handle it finds.  The queue's worker finds the handle of the request *)
(* under which it was made, for as long as it lives.  The requests of one  *)
(* configured user are traced, so the worker here is his.                  *)
(*                                                                         *)
(* A request is its operation identifier; identifiers of sessions and      *)
(* operations are the clients' UUIDs, never used again, except that a      *)
(* request may be sent twice.                                              *)
(***************************************************************************)
EXTENDS Integers, Sequences, FiniteSets, FiniteSetsExt

CONSTANTS
    TraceSessions, TraceRequests,
    NoTrace, NoHandle,
    MaxOperations,      \* TRACE_SESSION_MAX_OPERATIONS
    Capacity,           \* EVALUATION_SESSION_CAPACITY
    SampleLimit,        \* TRACE_SAMPLE_LIMIT
    MaxItemsMade        \* bound: items observed by one request

ASSUME TraceLimits == /\ {MaxOperations, Capacity, SampleLimit, MaxItemsMade} \subseteq Nat \ {0}
                      /\ NoTrace \notin TraceSessions /\ NoHandle \notin TraceRequests

VARIABLES
    captureMode,        \* of the registry
    traces,             \* session -> its _Session or NoTrace
    started,            \* sessions a client has started
    requests,           \* request -> [session, handle, outcome, made, strays, lent]: the
                        \* items observed under its handle, by itself and by other work,
                        \* and was a worker made under it?
    works,              \* request -> [queued, under, looking]: has it enqueued work, in whose
                        \* context did that run, and which operation was looked at last?
    worker,             \* of the user's queue: [alive, handle]
    blamed              \* sessions one of whose requests gave cause to fault them

traceVars == <<captureMode, traces, started, requests, works, worker, blamed>>

Evaluation == captureMode = "evaluation"
Active == {s \in TraceSessions : traces[s] # NoTrace}

NewSession == [ops |-> [r \in {} |-> {}], overflowed |-> FALSE, faulted |-> FALSE]
NewOperation == [outcome |-> "running", exact |-> 0, kept |-> 0, mapping |-> NoHandle]
NewRequest == [session |-> NoTrace, handle |-> FALSE, outcome |-> "new", made |-> 0, strays |-> 0,
               lent |-> FALSE]
NoWorker == [alive |-> FALSE, handle |-> NoHandle]
NoWork == [queued |-> FALSE, under |-> NoHandle, looking |-> NoHandle]

TraceInit ==
    /\ captureMode \in {"deep", "evaluation"}
    /\ traces = [s \in TraceSessions |-> NoTrace]
    /\ started = {} /\ blamed = {}
    /\ requests = [r \in TraceRequests |-> NewRequest]
    /\ works = [r \in TraceRequests |-> NoWork]
    /\ worker = NoWorker

------------------------------------------------------------------------------
(* The control plane.                                                       *)

\* 409 while a deep session is active or the evaluation sessions are too many.
StartTrace(s) ==
    /\ s \notin started
    /\ IF Evaluation THEN Cardinality(Active) < Capacity ELSE Active = {}
    /\ traces' = [traces EXCEPT ![s] = NewSession]
    /\ started' = started \cup {s}
    /\ UNCHANGED <<captureMode, requests, works, worker, blamed>>
DeleteTrace(s) ==
    /\ s \in Active
    /\ traces' = [traces EXCEPT ![s] = NoTrace]
    /\ UNCHANGED <<captureMode, started, requests, works, worker, blamed>>

------------------------------------------------------------------------------
(* The requests.                                                            *)

\* mark_fault: of the session of the active handle, or of the deep session
\* whichever it is by now.
MarkFault(session) ==
    traces' = [s \in TraceSessions |->
                  IF s \in Active /\ (Evaluation => s = session)
                  THEN [traces[s] EXCEPT !.faulted = TRUE] ELSE traces[s]]

\* begin_operation with the correlation headers it was given; "malformed" says
\* which of the two is no UUID.  The same request may come again.
BeginOperation(r, session, malformed) ==
    /\ requests[r].outcome = "new"
    /\ \/ /\ malformed = "session"
          /\ IF Evaluation THEN UNCHANGED traces ELSE MarkFault(session)
          /\ requests' = [requests EXCEPT ![r].outcome = "running"]
          /\ blamed' = IF Evaluation THEN blamed ELSE blamed \cup Active
       \/ /\ malformed = "operation"
          /\ MarkFault(session)
          /\ requests' = [requests EXCEPT ![r].outcome = "running"]
          /\ blamed' = blamed \cup {session}
       \/ /\ malformed = "none" /\ session \notin Active
          /\ requests' = [requests EXCEPT ![r].outcome = "running"]
          /\ UNCHANGED <<traces, blamed>>
       \/ /\ malformed = "none" /\ session \in Active
          /\ LET full == Cardinality(DOMAIN traces[session].ops)
                            >= IF Evaluation THEN 1 ELSE MaxOperations
             IN /\ traces' = [traces EXCEPT
                       ![session].overflowed = @ \/ full,
                       ![session].ops = IF full THEN @
                                        ELSE [o \in DOMAIN @ \cup {r} |->
                                                 IF o = r THEN NewOperation ELSE @[o]]]
                /\ requests' = [requests EXCEPT
                       ![r] = [@ EXCEPT !.session = session, !.handle = ~full,
                                        !.outcome = "running"]]
          /\ UNCHANGED blamed
    /\ UNCHANGED <<captureMode, started, works, worker>>

\* The request is sent again with the same headers.
BeginAgain(r) ==
    LET s == requests[r].session
    IN /\ requests[r].handle /\ s \in Active /\ ~traces[s].faulted
       /\ traces' = [traces EXCEPT ![s].faulted = TRUE]
       /\ blamed' = blamed \cup {s}
       /\ UNCHANGED <<captureMode, started, requests, works, worker>>

\* The request enqueues work for the user: without a live worker one is made, with
\* a copy of the context of this request.
Enqueue(r) ==
    /\ requests[r].outcome = "running"
    /\ works' = [works EXCEPT ![r].queued = TRUE]
    /\ IF worker.alive THEN UNCHANGED <<worker, requests>>
       ELSE /\ worker' = [alive |-> TRUE, handle |-> IF requests[r].handle THEN r ELSE NoHandle]
            /\ requests' = [requests EXCEPT ![r].lent = requests[r].handle]
    /\ UNCHANGED <<captureMode, traces, started, blamed>>

\* A cancelled work takes the worker along.
EndWorker ==
    /\ worker.alive
    /\ worker' = NoWorker
    /\ UNCHANGED <<captureMode, traces, started, requests, works, blamed>>

\* The worker takes the work of an untraced request: activate_operation(None), or none
\* at all, leaves the worker's own context.
RunWork(r) ==
    /\ works[r].queued /\ ~requests[r].handle /\ worker.alive
    /\ works' = [works EXCEPT ![r].under = worker.handle]
    /\ UNCHANGED <<captureMode, traces, started, requests, worker, blamed>>

\* The operation of the active handle in what runs for a request.
Context(r) == IF requests[r].handle THEN r ELSE works[r].under

\* Slip: what runs on after a request, and work under the handle of another one, is
\* observed in every mode.
FaultObserving(r) == Context(r) # NoHandle

\* Who still observes for a request: itself, its threads, and after its end the
\* background tasks of a deep trace, or the thread a failed request left behind; in a
\* deep trace also untraced work under the worker's handle.
Observing(r) ==
    IF requests[r].handle
    THEN requests[r].outcome = "running" \/ ~Evaluation \/ requests[r].outcome = "failed"
    ELSE works[r].under # NoHandle /\ ~Evaluation

\* The items observed under the handle of a request, by whomever.
Observed(request) == request.made + request.strays

\* captures_deep_trace or captures_evaluation_evidence: an unknown operation is
\* a fault.
Look(r) ==
    LET o == Context(r)
    IN /\ Observing(r) /\ works[r].looking = NoHandle
       /\ Observed(requests[o]) < MaxItemsMade
       /\ IF requests[o].session \in Active
          THEN works' = [works EXCEPT ![r].looking = o] /\ UNCHANGED traces
          ELSE UNCHANGED works /\ MarkFault(requests[o].session)
       /\ UNCHANGED <<captureMode, started, requests, worker, blamed>>

\* The items observed for r under the handle of o.
Counted(r, o, items) ==
    IF r = o THEN [requests EXCEPT ![o].made = @ + items]
    ELSE [requests EXCEPT ![o].strays = @ + items]

\* Slip: the items beyond the limit are not counted.
FaultRecorded(op, items) ==
    [op EXCEPT !.exact = Min({SampleLimit, @ + items}), !.kept = Min({SampleLimit, @ + items})]

\* set_sample: the items beyond the limit are only counted.
Recorded(op, items) ==
    [op EXCEPT !.exact = @ + items, !.kept = Min({SampleLimit, @ + items})]

Record(r, items) ==
    LET o == works[r].looking
    IN /\ o # NoHandle
       /\ Observed(requests[o]) + items <= MaxItemsMade
       /\ works' = [works EXCEPT ![r].looking = NoHandle]
       /\ requests' = Counted(r, o, items)
       /\ IF requests[o].session \in Active
          THEN traces' = [traces EXCEPT ![requests[o].session].ops[o] = Recorded(@, items)]
          ELSE MarkFault(requests[o].session)
       /\ UNCHANGED <<captureMode, started, worker, blamed>>

\* An observation with a value the registry refuses.
RecordInvalid(r) ==
    LET o == works[r].looking
    IN /\ o # NoHandle
       /\ works' = [works EXCEPT ![r].looking = NoHandle]
       /\ requests' = Counted(r, o, 1)
       /\ MarkFault(requests[o].session)
       /\ blamed' = blamed \cup {requests[o].session}
       /\ UNCHANGED <<captureMode, started, worker>>

\* set_mapping_digest, by the work of a save: it never looks which mode it is.  In an
\* evaluation a save has no handle of its own.
MapDigest(r) ==
    LET o == Context(r)
    IN /\ works[r].queued /\ o # NoHandle /\ (Evaluation => o # r)
       /\ IF requests[o].session \in Active
          THEN traces' = [traces EXCEPT ![requests[o].session].ops[o].mapping = r]
          ELSE MarkFault(requests[o].session)
       /\ UNCHANGED <<captureMode, started, requests, works, worker, blamed>>

\* A request succeeds when its threads have come back; one that fails or is
\* cancelled waits for nothing.
FinishOperation(r, outcome) ==
    /\ requests[r].outcome = "running"
    /\ outcome = "succeeded" /\ Evaluation => works[r].looking = NoHandle
    /\ requests' = [requests EXCEPT ![r].outcome = outcome]
    /\ IF ~requests[r].handle THEN UNCHANGED traces
       ELSE IF requests[r].session \in Active
       THEN traces' = [traces EXCEPT ![requests[r].session].ops[r].outcome = outcome]
       ELSE MarkFault(requests[r].session)
    /\ UNCHANGED <<captureMode, started, works, worker, blamed>>

TraceNext ==
    \/ \E s \in TraceSessions : StartTrace(s) \/ DeleteTrace(s)
    \/ \E r \in TraceRequests, s \in TraceSessions, m \in {"none", "session", "operation"} :
          BeginOperation(r, s, m)
    \/ \E r \in TraceRequests :
          \/ BeginAgain(r) \/ Enqueue(r) \/ RunWork(r)
          \/ Look(r) \/ RecordInvalid(r) \/ MapDigest(r)
          \/ \E items \in 1..2 : Record(r, items)
          \/ \E outcome \in {"succeeded", "failed"} : FinishOperation(r, outcome)
    \/ EndWorker
TraceSpec == TraceInit /\ [][TraceNext]_traceVars

------------------------------------------------------------------------------
(* Properties.                                                              *)

\* What a session does not tell to be incomplete is complete: every request that
\* began in it has its operation, with every observation it made so far, also when
\* threads and late tasks of other sessions observe meanwhile.  What is more than
\* that was recorded by work of the user's worker, made under its handle; among the
\* observations of an evaluation nothing is.
CompleteUnlessTold ==
    \A s \in Active : ~traces[s].faulted /\ ~traces[s].overflowed =>
        \A r \in TraceRequests : requests[r].session = s =>
            /\ r \in DOMAIN traces[s].ops
            /\ traces[s].ops[r].exact = Observed(requests[r])
            /\ requests[r].strays # 0 => requests[r].lent /\ ~Evaluation
            /\ traces[s].ops[r].mapping \in {NoHandle, r} \/ requests[r].lent
            /\ traces[s].ops[r].outcome = requests[r].outcome

\* "Evaluation sessions are independent": one is faulted for the doings of its
\* own requests only.
EvaluationIndependent ==
    Evaluation => \A s \in Active : traces[s].faulted => s \in blamed

\* What an evaluation request observed is final when it has succeeded and its
\* evidence can be read; a mapping digest can still come to it, from a worker made
\* under its handle.
EvidenceSealed ==
    [][\A s \in TraceSessions :
          Evaluation /\ s \in Active /\ traces'[s] # NoTrace =>
              \A r \in DOMAIN traces[s].ops :
                  traces[s].ops[r].outcome = "succeeded" =>
                      /\ traces'[s].ops[r].outcome = "succeeded"
                      /\ traces'[s].ops[r].exact = traces[s].ops[r].exact
                      /\ traces'[s].ops[r].kept = traces[s].ops[r].kept
                      /\ \/ traces'[s].ops[r].mapping = traces[s].ops[r].mapping
                         \/ requests[r].lent]_traceVars

\* "Concurrent asks each own a request-scoped evidence session"
\* (evaluation/README.md): nothing in the evidence of one request is of another.
EvidenceRequestScoped ==
    Evaluation => \A s \in Active : \A r \in DOMAIN traces[s].ops :
        traces[s].ops[r].mapping \in {NoHandle, r}
=============================================================================
