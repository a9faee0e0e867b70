------------------------------ MODULE EndToEnd ------------------------------
(***************************************************************************)
(* deployment/e2e_diagnostic_api.py, run_e2e_phase_2d, under ragctl.py,    *)
(* diagnose_e2e: one batch of chat queries against the retained corpus.    *)
(* The client is sequential.  Each query has its own chat session, or all  *)
(* share one (continuous); a dataset evaluation also deletes the sessions, *)
(* rotates its trace session and accounts for every query of the file.     *)
(*                                                                         *)
(* Queries are 1..Queries.  The chat session of a query has its number,    *)
(* the shared one is 0; trace sessions are numbered in order.  What the    *)
(* backend answers is an outcome; the state kept of it is what it stores.  *)
(***************************************************************************)
EXTENDS Integers, Sequences, FiniteSets, SequencesExt

CONSTANTS Queries, Rotation,    \* DATASET_TRACE_ROTATION_SIZE
          E2EMaxFaults          \* failed steps, interrupts and kills

ASSUME QueriesAssumption == Queries \in Nat

VARIABLES
    e2eMode,        \* options of the run
    e2ePc, e2eQuery,
    e2eTraces, e2eChats,    \* sessions the backend holds
    e2eTrace,       \* the client's trace session
    e2ePending,     \* pending_sessions: chat sessions still to be deleted
    e2eCleanups,    \* chat session -> outcome of its deletion
    e2eAttempt,     \* the attempt under way
    e2eJob,         \* the local evaluation of the attempt
    e2eRecorder,    \* RequestRecorder: rows on disk and counters
    e2ePhase,       \* "running", "failed" or "passed"
    e2eSummary,     \* the status in summary.json
    e2eSeen,        \* history: queries posted, chats nobody learned of, attempts that
                    \* lost their row, and whether a cleanup was interrupted
    e2eFaults

e2eVars == <<e2eMode, e2ePc, e2eQuery, e2eTraces, e2eChats, e2eTrace, e2ePending,
             e2eCleanups, e2eAttempt, e2eJob, e2eRecorder, e2ePhase, e2eSummary,
             e2eSeen, e2eFaults>>

NoAttempt == [status |-> "failed", scope |-> "none", posted |-> FALSE,
              evaluation |-> "skipped", raise |-> FALSE]
Row(index, attempt) == [index |-> index, status |-> attempt.status,
                        scope |-> attempt.scope, posted |-> attempt.posted,
                        evaluation |-> attempt.evaluation]
NotAttempted(index) == Row(index, [NoAttempt EXCEPT !.status = "not_attempted",
                                                    !.scope = "systemic"])

E2EInit ==
    /\ e2eMode \in [dataset : BOOLEAN, continuous : BOOLEAN]
    /\ e2ePc = "pre_down" /\ e2eQuery = 1
    /\ e2eTraces = {} /\ e2eChats = {}
    /\ e2eTrace = [id |-> 0, started |-> FALSE]
    /\ e2ePending = {} /\ e2eCleanups = <<>>
    /\ e2eAttempt = NoAttempt /\ e2eJob = "none"
    /\ e2eRecorder = [rows |-> <<>>, attempted |-> 0, notAttempted |-> 0]
    /\ e2ePhase = "running" /\ e2eSummary = "running"
    /\ e2eSeen = [posted |-> {}, unknown |-> {}, lost |-> {}, cut |-> FALSE]
    /\ e2eFaults = 0

E2EFault(happens) ==
    IF happens THEN e2eFaults < E2EMaxFaults /\ e2eFaults' = e2eFaults + 1
    ELSE UNCHANGED e2eFaults
E2EAt(here) == e2ePc = here
E2EGo(next) == e2ePc' = next

sessionVars == <<e2eTraces, e2eChats, e2eTrace, e2ePending, e2eCleanups>>
recordVars == <<e2eRecorder, e2ePhase, e2eSummary>>
Chat == IF e2eMode.continuous THEN 0 ELSE e2eQuery

------------------------------------------------------------------------------
(* diagnose_e2e around the batch.                                           *)

\* A failure before the batch is the end of the run, with its report.
Lifecycle(here, next, ok) ==
    /\ E2EAt(here)
    /\ E2EFault(~ok)
    /\ IF ok THEN E2EGo(next) /\ UNCHANGED e2ePhase
       ELSE E2EGo("report") /\ e2ePhase' = "failed"
    /\ UNCHANGED <<e2eMode, e2eQuery, sessionVars, e2eAttempt, e2eJob, e2eRecorder,
                   e2eSummary, e2eSeen>>
E2EPreDown(ok) == Lifecycle("pre_down", "up", ok)
E2EUp(ok) == Lifecycle("up", "corpus", ok)

\* verify_physical_corpus and the health request; then down in any case.
VerifyCorpus(ok) ==
    /\ E2EAt("corpus")
    /\ E2EFault(~ok)
    /\ IF ok THEN E2EGo("start_trace") /\ UNCHANGED e2ePhase
       ELSE E2EGo("down") /\ e2ePhase' = "failed"
    /\ UNCHANGED <<e2eMode, e2eQuery, sessionVars, e2eAttempt, e2eJob, e2eRecorder,
                   e2eSummary, e2eSeen>>

E2EDown(ok) ==
    /\ E2EAt("down")
    /\ E2EFault(~ok)
    /\ e2ePhase' = IF ok THEN e2ePhase ELSE "failed"
    /\ E2EGo("report")
    /\ UNCHANGED <<e2eMode, e2eQuery, sessionVars, e2eAttempt, e2eJob, e2eRecorder,
                   e2eSummary, e2eSeen>>

\* The elements of a set of numbers, in their order.
InOrder(S) ==
    CHOOSE s \in [1..Cardinality(S) -> S] :
        S = {s[i] : i \in DOMAIN s} /\ \A i, j \in DOMAIN s : i < j => s[i] < s[j]

\* update_e2e_summary, and for a dataset write_dataset_report, which records
\* the queries that have no row yet.
Report ==
    /\ E2EAt("report")
    /\ LET recorded == {e2eRecorder.rows[i].index : i \in DOMAIN e2eRecorder.rows}
           missing == InOrder(1..Queries \ recorded)
       IN e2eRecorder' = IF e2eMode.dataset
                         THEN [e2eRecorder EXCEPT
                                 !.rows = @ \o [i \in DOMAIN missing |-> NotAttempted(missing[i])],
                                 !.notAttempted = @ + Len(missing)]
                         ELSE e2eRecorder
    /\ e2eSummary' = IF e2ePhase = "passed" THEN "succeeded" ELSE "failed"
    /\ E2EGo("done")
    /\ UNCHANGED <<e2eMode, e2eQuery, sessionVars, e2eAttempt, e2eJob, e2ePhase,
                   e2eSeen, e2eFaults>>

------------------------------------------------------------------------------
(* Trace sessions.                                                          *)

\* The request that starts a trace session may allocate it and still fail; a
\* dataset evaluation takes it for started before the answer.
E2EStartTrace(ok, allocated) ==
    LET id == e2eTrace.id + 1 IN
    /\ E2EAt("start_trace")
    /\ ok => allocated
    /\ E2EFault(~ok)
    /\ e2eTraces' = IF allocated THEN e2eTraces \cup {id} ELSE e2eTraces
    /\ e2eTrace' = [id |-> id, started |-> ok \/ e2eMode.dataset]
    /\ E2EGo(IF ~ok THEN "abort" ELSE IF e2eMode.continuous /\ id = 1 THEN "shared_chat"
             ELSE "loop")
    /\ UNCHANGED <<e2eMode, e2eQuery, e2eChats, e2ePending, e2eCleanups, e2eAttempt,
                   e2eJob, recordVars, e2eSeen>>

\* Every Rotation queries of a dataset evaluation.
RotationDue ==
    /\ e2eMode.dataset /\ e2eQuery \in 2..Queries
    /\ (e2eQuery - 1) % Rotation = 0 /\ e2eTrace.id = (e2eQuery - 1) \div Rotation
RotateTrace ==
    /\ E2EAt("loop")
    /\ RotationDue
    /\ E2EGo("close_trace")
    /\ UNCHANGED <<e2eMode, e2eQuery, sessionVars, e2eAttempt, e2eJob, recordVars,
                   e2eSeen, e2eFaults>>

\* _DeepTraceSession.delete: without a started session there is no request.
\* A dataset evaluation confirms the absence; otherwise 404 is an error.
E2EDeleteTrace(ok, deleted) ==
    /\ ok => deleted
    /\ IF e2eTrace.started
       THEN /\ E2EFault(~ok)
            /\ e2eTraces' = IF deleted THEN e2eTraces \ {e2eTrace.id} ELSE e2eTraces
            /\ e2eTrace' = [e2eTrace EXCEPT !.started = ~ok]
       ELSE ok /\ UNCHANGED <<e2eTraces, e2eTrace, e2eFaults>>
CloseTrace(ok, deleted) ==
    /\ E2EAt("close_trace")
    /\ E2EDeleteTrace(ok, deleted)
    /\ E2EGo(IF ok THEN "start_trace" ELSE "abort")
    /\ UNCHANGED <<e2eMode, e2eQuery, e2eChats, e2ePending, e2eCleanups, e2eAttempt,
                   e2eJob, recordVars, e2eSeen>>

------------------------------------------------------------------------------
(* One query.  An interrupt is recorded as a systemic failure and re-raised. *)

NextQuery ==
    /\ E2EAt("loop")
    /\ ~RotationDue
    /\ e2eAttempt' = NoAttempt
    /\ E2EGo(IF e2eQuery > Queries THEN "finally"
             ELSE IF e2eMode.continuous THEN "query" ELSE "chat")
    /\ UNCHANGED <<e2eMode, e2eQuery, sessionVars, e2eJob, recordVars, e2eSeen, e2eFaults>>

Interrupted(posted) == [NoAttempt EXCEPT !.scope = "systemic", !.posted = posted, !.raise = TRUE]
E2EFailing(attempt, scope) == [attempt EXCEPT !.status = "failed", !.scope = scope]

\* A dataset evaluation keeps the sessions it knows of for deletion; a session
\* whose creation was not answered stays with the backend.
HoldChat(known, held) ==
    /\ known => held
    /\ e2eChats' = IF held THEN e2eChats \cup {Chat} ELSE e2eChats
    /\ e2ePending' = IF known /\ e2eMode.dataset THEN e2ePending \cup {Chat} ELSE e2ePending
    /\ e2eSeen' = IF held /\ ~known THEN [e2eSeen EXCEPT !.unknown = @ \cup {Chat}] ELSE e2eSeen
    /\ UNCHANGED <<e2eTraces, e2eTrace, e2eCleanups>>

SharedChat(ok, held) ==
    /\ E2EAt("shared_chat")
    /\ E2EFault(~ok)
    /\ HoldChat(ok, held)
    /\ E2EGo(IF ok THEN "loop" ELSE "abort")
    /\ UNCHANGED <<e2eMode, e2eQuery, e2eAttempt, e2eJob, recordVars>>

CreateChat(outcome, held) ==
    /\ E2EAt("chat")
    /\ E2EFault(outcome # "created")
    /\ outcome = "refused" => ~held
    /\ HoldChat(outcome = "created", held)
    /\ e2eAttempt' = CASE outcome = "created" -> NoAttempt
                       [] outcome = "interrupt" -> Interrupted(FALSE)
                       [] outcome = "refused" -> E2EFailing(NoAttempt, "systemic")
                       [] outcome = "lost" -> E2EFailing(NoAttempt, "individual")
    /\ E2EGo(IF outcome = "created" THEN "query" ELSE "record")
    /\ UNCHANGED <<e2eMode, e2eQuery, e2eJob, recordVars>>

\* _execute_query: the stream.  A stream that broke off has a trace to wait for.
PostQuery(outcome) ==
    LET posted == [NoAttempt EXCEPT !.posted = TRUE] IN
    /\ E2EAt("query")
    /\ E2EFault(outcome # "answered")
    /\ e2eSeen' = [e2eSeen EXCEPT !.posted = @ \cup {e2eQuery}]
    /\ e2eAttempt' = CASE outcome = "answered" -> [posted EXCEPT !.status = "succeeded"]
                       [] outcome \in {"broken", "failed"} -> E2EFailing(posted, "individual")
                       [] outcome = "refused" -> E2EFailing(posted, "systemic")
                       [] outcome = "interrupt" -> Interrupted(TRUE)
    /\ E2EGo(CASE outcome = "answered" -> "wait_trace"
               [] outcome = "broken" -> "wait_failed_trace"
               [] outcome = "interrupt" -> "record"
               [] OTHER -> "finish")
    /\ UNCHANGED <<e2eMode, e2eQuery, sessionVars, e2eJob, recordVars>>

\* The deep trace of the query, the evaluation on its evidence, the tasks
\* after the answer with the session's postcondition: the first failure ends
\* the checks.
EvidenceStep(here, next, outcome) ==
    /\ E2EAt(here)
    /\ E2EFault(outcome # "ok")
    /\ e2eAttempt' = CASE outcome = "ok" -> e2eAttempt
                       [] outcome = "contract" ->
                              [E2EFailing(e2eAttempt, "systemic") EXCEPT !.evaluation = "failed"]
                       [] outcome = "failed" -> E2EFailing(e2eAttempt, "individual")
                       [] outcome = "interrupt" -> Interrupted(TRUE)
    /\ E2EGo(IF outcome = "ok" THEN next ELSE IF outcome = "interrupt" THEN "record" ELSE "finish")
    /\ e2eJob' = IF outcome = "interrupt" /\ e2eJob = "running" THEN "cancelled" ELSE e2eJob
    /\ UNCHANGED <<e2eMode, e2eQuery, sessionVars, recordVars, e2eSeen>>

WaitTrace(outcome) == EvidenceStep("wait_trace", "submit", outcome)
PostGeneration(outcome) == EvidenceStep("post", "finish", outcome)

SubmitEvaluation(ok) ==
    /\ E2EAt("submit")
    /\ E2EFault(~ok)
    /\ e2eJob' = IF ok THEN "running" ELSE "none"
    /\ e2eAttempt' = IF ok THEN e2eAttempt ELSE [e2eAttempt EXCEPT !.evaluation = "failed"]
    /\ E2EGo("post")
    /\ UNCHANGED <<e2eMode, e2eQuery, sessionVars, recordVars, e2eSeen>>

AfterQuery == IF e2eMode.dataset /\ ~e2eMode.continuous THEN "cleanup" ELSE "record"

\* Only the contract of the trace is an error here that _execute_query handles.
WaitFailedTrace(outcome) ==
    /\ E2EAt("wait_failed_trace")
    /\ E2EFault(outcome # "ok")
    /\ e2eAttempt' = CASE outcome = "ok" -> e2eAttempt
                       [] outcome \in {"contract", "failed"} -> E2EFailing(e2eAttempt, "systemic")
                       [] outcome = "interrupt" -> Interrupted(TRUE)
    /\ E2EGo(CASE outcome \in {"ok", "contract"} -> "finish"
               [] outcome = "failed" -> IF e2eMode.dataset THEN AfterQuery ELSE "abort"
               [] outcome = "interrupt" -> "record")
    /\ e2eSeen' = IF outcome = "failed" /\ ~e2eMode.dataset
                  THEN [e2eSeen EXCEPT !.lost = @ \cup {e2eQuery}] ELSE e2eSeen
    /\ UNCHANGED <<e2eMode, e2eQuery, sessionVars, e2eJob, recordVars>>

\* finish_evaluation_job, and its validation for a dataset.
FinishQuery(outcome) ==
    /\ E2EAt("finish")
    /\ IF e2eJob # "running"
       THEN outcome = "succeeded" /\ UNCHANGED <<e2eJob, e2eAttempt, e2eFaults>>
            /\ E2EGo(AfterQuery)
       ELSE /\ E2EFault(outcome # "succeeded")
            /\ IF outcome = "interrupt"
               THEN e2eJob' = "cancelled" /\ e2eAttempt' = Interrupted(TRUE) /\ E2EGo("record")
               ELSE /\ e2eJob' = "none" /\ E2EGo(AfterQuery)
                    /\ e2eAttempt' = [e2eAttempt EXCEPT !.evaluation = outcome]
    /\ UNCHANGED <<e2eMode, e2eQuery, sessionVars, recordVars, e2eSeen>>

\* cleanup_session: one attempt, whose failure is a result; an interrupt leaves it.
CleanupSession(chat, outcome, deleted) ==
    /\ E2EFault(outcome # "succeeded")
    /\ outcome = "succeeded" => deleted
    /\ e2ePending' = e2ePending \ {chat}
    /\ e2eChats' = IF deleted THEN e2eChats \ {chat} ELSE e2eChats
    /\ e2eCleanups' =
          IF outcome = "interrupt" THEN e2eCleanups
          ELSE [other \in DOMAIN e2eCleanups \cup {chat} |->
                   IF other = chat THEN outcome ELSE e2eCleanups[other]]
    /\ UNCHANGED <<e2eMode, e2eQuery, e2eTraces, e2eTrace, e2eAttempt, e2eJob, e2eRecorder,
                   e2eSummary>>
CleanupChat(outcome, deleted) ==
    /\ E2EAt("cleanup")
    /\ CleanupSession(Chat, outcome, deleted)
    /\ E2EGo(IF outcome = "interrupt" THEN "abort" ELSE "record")
    /\ e2eSeen' = IF outcome = "interrupt"
                  THEN [e2eSeen EXCEPT !.cut = TRUE, !.lost = @ \cup {e2eQuery}] ELSE e2eSeen
    /\ UNCHANGED e2ePhase

\* RequestRecorder.record counts the attempt before it writes the row.
RecordAttempt(ok) ==
    /\ E2EAt("record")
    /\ E2EFault(~ok)
    /\ e2eRecorder' = [e2eRecorder EXCEPT !.attempted = @ + 1,
                          !.rows = IF ok THEN Append(@, Row(e2eQuery, e2eAttempt)) ELSE @]
    /\ e2eSeen' = IF ok THEN e2eSeen ELSE [e2eSeen EXCEPT !.lost = @ \cup {e2eQuery}]
    /\ E2EGo(IF ok /\ e2eAttempt.scope # "systemic" THEN "loop" ELSE "abort")
    /\ e2eQuery' = e2eQuery + 1
    /\ e2eJob' = "none"
    /\ UNCHANGED <<e2eMode, sessionVars, e2eAttempt, e2ePhase, e2eSummary>>

------------------------------------------------------------------------------
(* The end of the batch.                                                    *)

\* Slip: the slice of remaining queries starts at the last attempt.
FaultAbortBatch ==
    /\ E2EAt("abort")
    /\ LET first == e2eRecorder.attempted + e2eRecorder.notAttempted
           remaining == [i \in 1..(Queries + 1 - first) |-> NotAttempted(first + i - 1)]
       IN e2eRecorder' = IF e2eMode.dataset
                         THEN [e2eRecorder EXCEPT !.rows = @ \o remaining,
                                                  !.notAttempted = @ + Len(remaining)]
                         ELSE e2eRecorder
    /\ e2ePhase' = "failed"
    /\ E2EGo("finally")
    /\ UNCHANGED <<e2eMode, e2eQuery, sessionVars, e2eAttempt, e2eJob, e2eSummary, e2eSeen,
                   e2eFaults>>

\* except BaseException: selected[attempted + not_attempted :] get a row.
AbortBatch ==
    /\ E2EAt("abort")
    /\ LET first == e2eRecorder.attempted + e2eRecorder.notAttempted + 1
           remaining == [i \in 1..(Queries + 1 - first) |-> NotAttempted(first + i - 1)]
       IN e2eRecorder' = IF e2eMode.dataset
                         THEN [e2eRecorder EXCEPT !.rows = @ \o remaining,
                                                  !.notAttempted = @ + Len(remaining)]
                         ELSE e2eRecorder
    /\ e2ePhase' = "failed"
    /\ E2EGo("finally")
    /\ UNCHANGED <<e2eMode, e2eQuery, sessionVars, e2eAttempt, e2eJob, e2eSummary, e2eSeen,
                   e2eFaults>>

\* finally: the trace session is closed, then the pending chat sessions are
\* deleted, whatever happened to the trace.
FinalTrace(ok, deleted) ==
    /\ E2EAt("finally")
    /\ E2EDeleteTrace(ok, deleted)
    /\ e2ePhase' = IF ok THEN e2ePhase ELSE "failed"
    /\ E2EGo("cleanup_pending")
    /\ UNCHANGED <<e2eMode, e2eQuery, e2eChats, e2ePending, e2eCleanups, e2eAttempt,
                   e2eJob, e2eRecorder, e2eSummary, e2eSeen>>

CleanupPending(chat, outcome, deleted) ==
    /\ E2EAt("cleanup_pending")
    /\ chat \in e2ePending
    /\ \A other \in e2ePending : chat <= other
    /\ CleanupSession(chat, outcome, deleted)
    /\ IF outcome = "interrupt" THEN E2EGo("down") /\ e2ePhase' = "failed"
       ELSE UNCHANGED <<e2ePc, e2ePhase>>
    /\ e2eSeen' = IF outcome = "interrupt" THEN [e2eSeen EXCEPT !.cut = TRUE] ELSE e2eSeen

E2EBatchFailed ==
    \/ \E i \in DOMAIN e2eRecorder.rows : e2eRecorder.rows[i].status = "failed"
    \/ /\ e2eMode.dataset
       /\ \/ \E i \in DOMAIN e2eRecorder.rows :
                e2eRecorder.rows[i].evaluation \in {"failed", "partial"}
          \/ \E chat \in DOMAIN e2eCleanups : e2eCleanups[chat] # "succeeded"
PhaseEnd ==
    /\ E2EAt("cleanup_pending")
    /\ e2ePending = {}
    /\ e2ePhase' = IF e2ePhase = "failed" \/ E2EBatchFailed THEN "failed" ELSE "passed"
    /\ E2EGo("down")
    /\ UNCHANGED <<e2eMode, e2eQuery, sessionVars, e2eAttempt, e2eJob, e2eRecorder,
                   e2eSummary, e2eSeen, e2eFaults>>

E2EStop == E2EAt("done") /\ UNCHANGED e2eVars

\* What the calls of a step come to.  The stream: validated, broken off after
\* its 200, failed before it, refused for its credentials.
StreamOutcomes == {"answered", "broken", "failed", "refused", "interrupt"}
\* The trace: valid evidence, or the contract broken, or the request failed.
EvidenceOutcomes == {"ok", "contract", "failed", "interrupt"}
\* The tasks after the answer, polled to their end, and the session's state.
PostOutcomes == {"ok", "contract", "failed", "interrupt"}
EvaluationOutcomes == {"succeeded", "partial", "failed", "interrupt"}
CleanupOutcomes == {"succeeded", "failed", "interrupt"}

E2EStep ==
    \/ \E ok \in BOOLEAN :
          \/ E2EPreDown(ok) \/ E2EUp(ok) \/ VerifyCorpus(ok) \/ E2EDown(ok)
          \/ SubmitEvaluation(ok) \/ RecordAttempt(ok)
          \/ \E effect \in BOOLEAN :
                \/ E2EStartTrace(ok, effect) \/ CloseTrace(ok, effect)
                \/ SharedChat(ok, effect) \/ FinalTrace(ok, effect)
    \/ \E outcome \in {"created", "lost", "refused", "interrupt"}, held \in BOOLEAN :
          CreateChat(outcome, held)
    \/ \E outcome \in StreamOutcomes : PostQuery(outcome)
    \/ \E outcome \in EvidenceOutcomes : WaitTrace(outcome) \/ WaitFailedTrace(outcome)
    \/ \E outcome \in PostOutcomes : PostGeneration(outcome)
    \/ \E outcome \in EvaluationOutcomes : FinishQuery(outcome)
    \/ \E outcome \in CleanupOutcomes, deleted \in BOOLEAN :
          \/ CleanupChat(outcome, deleted)
          \/ \E chat \in e2ePending : CleanupPending(chat, outcome, deleted)
    \/ RotateTrace \/ NextQuery \/ AbortBatch \/ PhaseEnd \/ Report

E2ENext == E2EStep \/ E2EStop
E2ESpec == E2EInit /\ [][E2ENext]_e2eVars /\ WF_e2eVars(E2EStep)

------------------------------------------------------------------------------
(* Properties.                                                              *)

\* The report of a dataset evaluation has one row for every query, whatever
\* failed or was interrupted (write_dataset_report: silently_dropped 0).
EveryQueryAccounted ==
    E2EAt("done") /\ e2eMode.dataset =>
        /\ Len(e2eRecorder.rows) = Queries
        /\ \A q \in 1..Queries : \E i \in DOMAIN e2eRecorder.rows : e2eRecorder.rows[i].index = q

\* A row says that its query was posted exactly when it was, unless the row of
\* the attempt was lost.
RowsTellTheTruth ==
    \A i \in DOMAIN e2eRecorder.rows :
        LET row == e2eRecorder.rows[i]
        IN row.index \notin e2eSeen.lost => (row.posted <=> row.index \in e2eSeen.posted)

\* A dataset evaluation deletes every chat session it knows of; one the
\* backend still holds at the end was reported as a failed cleanup.
ChatsCleanedUp ==
    E2EAt("done") /\ e2eMode.dataset /\ ~e2eSeen.cut =>
        \A chat \in e2eChats \ e2eSeen.unknown :
            chat \in DOMAIN e2eCleanups /\ e2eCleanups[chat] = "failed"

\* Rotation closes a trace session before it starts the next, so the backend
\* never holds two of one run.
OneTraceAtATime == Cardinality(e2eTraces) <= 1

\* No local evaluation survives its attempt: it was finished, or cancelled on
\* an interrupt, before the attempt is recorded or given up.
NoJobLeft == e2eJob = "running" => e2ePc \in {"post", "finish"}

\* A run that reports success sent every query once, got every answer with its
\* evidence, and left no trace session and, for a dataset, no chat behind.
SucceededMeansAll ==
    e2eSummary = "succeeded" =>
        /\ e2eSeen.posted = 1..Queries /\ e2eSeen.lost = {}
        /\ [i \in DOMAIN e2eRecorder.rows |-> e2eRecorder.rows[i].index] = [q \in 1..Queries |-> q]
        /\ \A i \in DOMAIN e2eRecorder.rows :
              /\ e2eRecorder.rows[i].status = "succeeded"
              /\ e2eMode.dataset => e2eRecorder.rows[i].evaluation = "succeeded"
        /\ e2eTraces = {}
        /\ e2eMode.dataset => e2eChats = {}

\* After a systemic failure nothing more is sent.
NothingAfterSystemic ==
    \A i \in DOMAIN e2eRecorder.rows :
        LET row == e2eRecorder.rows[i]
        IN row.scope = "systemic" /\ row.status = "failed" =>
              \A q \in e2eSeen.posted : q <= row.index

\* A run is under way; every one ends with its summary, however many steps fail.
E2EBusy == ~(E2EAt("done") /\ e2eSummary \in {"succeeded", "failed"})
=============================================================================
