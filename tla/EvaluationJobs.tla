--------------------------- MODULE EvaluationJobs ---------------------------
(***************************************************************************)
(* Local evaluation jobs: deployment/evaluation_bridge.py and its worker.   *)
(* A client of the machine (a diagnostic or an ask) runs its job in a       *)
(* thread of its own; a second job is refused while one is pending.  The    *)
(* thread takes the machine's evaluation lock, starts a supervisor process, *)
(* and the supervisor forks an admitted child (the leader of a process      *)
(* group) that starts the evaluator in its group.                           *)
(*                                                                          *)
(* The lock is a flock whose descriptor every one of these inherits: it is  *)
(* free when the last of them is gone.                                      *)
(***************************************************************************)
EXTENDS Naturals, FiniteSets

CONSTANTS Clients,
          JobMaxFaults      \* processes killed and processes that do not start

VARIABLES job,      \* client -> its job, see JobNone
          jobFaults

jobVars == <<job, jobFaults>>

\* thread: where _execute_evaluation_job is.   caller: submit or cancel.
\* cancel: cancel_event and state.cancelled.   published: state.worker.
\* sup, term, code: the supervisor, a SIGTERM it got, its exit code.
\* group: the live processes of the admitted group.
\* launched, verdict: the evaluator was started, and what its result says.
\* expired: the deadline has passed.   result: of the job's future.
JobNone == [thread |-> "idle", caller |-> "idle", cancel |-> FALSE, published |-> FALSE,
            sup |-> "none", term |-> FALSE, code |-> 0, group |-> {}, launched |-> FALSE,
            verdict |-> "none", expired |-> FALSE, result |-> "none"]

JobInit == job = [c \in Clients |-> JobNone] /\ jobFaults = 0

\* A job at rest keeps only what a property compares.
Rested(j) ==
    IF j.thread \in {"done", "dead"} /\ j.sup \in {"none", "exited"} /\ j.group = {}
    THEN IF j.result \in {"succeeded", "partial"}
         THEN [JobNone EXCEPT !.thread = "done", !.result = j.result, !.verdict = j.verdict,
                              !.launched = j.launched, !.code = j.code]
         ELSE [JobNone EXCEPT !.thread = "done"]
    ELSE j
Update(c, next) == job' = [job EXCEPT ![c] = Rested(next)]
Calm == UNCHANGED jobFaults
Breaks == jobFaults < JobMaxFaults /\ jobFaults' = jobFaults + 1

ThreadHolds(c) == job[c].thread \in {"admitted", "spawned", "communicate", "stopping"}
SupAlive(c) == job[c].sup \in {"starting", "reading", "supervising", "terminating"}
\* Slip: the thread unlocks explicitly when it ends.
FaultHolds(c) == job[c].thread # "done" /\ (ThreadHolds(c) \/ SupAlive(c) \/ job[c].group # {})

\* _release_evaluation_lock only closes the thread's descriptor.
Holds(c) == ThreadHolds(c) \/ SupAlive(c) \/ job[c].group # {}

Ended(j, result) ==
    [j EXCEPT !.thread = "done", !.published = FALSE, !.result = result]

------------------------------------------------------------------------------
(* The job's thread.                                                        *)

SubmitJob(c) ==
    /\ job[c].thread = "idle"
    /\ Update(c, [job[c] EXCEPT !.caller = "submitted", !.thread = "lock"])
    /\ Calm

\* _acquire_evaluation_lock polls the lock and the cancellation.
TakeLock(c) ==
    /\ job[c].thread = "lock" /\ ~job[c].cancel
    /\ \A other \in Clients : ~Holds(other)
    /\ Update(c, [job[c] EXCEPT !.thread = "admitted"])
    /\ Calm
LockCancelled(c) ==
    /\ job[c].thread = "lock" /\ job[c].cancel
    /\ Update(c, Ended(job[c], "cancelled"))
    /\ Calm

SpawnWorker(c) ==
    /\ job[c].thread = "admitted"
    /\ \/ /\ job[c].cancel
          /\ Update(c, Ended(job[c], "cancelled")) /\ Calm
       \/ /\ ~job[c].cancel /\ job[c].expired
          /\ Update(c, Ended(job[c], "timeout")) /\ Calm
       \/ /\ ~job[c].cancel /\ ~job[c].expired
          /\ Update(c, [job[c] EXCEPT !.thread = "spawned", !.sup = "starting"]) /\ Calm
       \/ /\ ~job[c].cancel /\ Breaks
          /\ Update(c, Ended(job[c], "failed"))

\* with state.lock: the worker is published and the cancellation read at once.
PublishWorker(c) ==
    /\ job[c].thread = "spawned"
    /\ Update(c, IF job[c].cancel
                 THEN [job[c] EXCEPT !.thread = "stopping", !.published = TRUE, !.term = TRUE]
                 ELSE [job[c] EXCEPT !.thread = "communicate", !.published = TRUE])
    /\ Calm

\* communicate returns when the worker is gone and nobody else has its output
\* open, as the forked child does.
WorkerEnds(c) ==
    /\ job[c].thread = "communicate"
    /\ ~SupAlive(c) /\ "leader" \notin job[c].group
    /\ Update(c, Ended(job[c], CASE job[c].code = 124 -> "timeout"
                                 [] job[c].code # 124 /\ job[c].cancel -> "cancelled"
                                 [] ~job[c].cancel /\ job[c].code = 0 -> job[c].verdict
                                 [] OTHER -> "failed"))
    /\ Calm

\* The client's own timeout, a grace after the worker's deadline.
CommunicateTimeout(c) ==
    /\ job[c].thread = "communicate" /\ job[c].expired /\ SupAlive(c)
    /\ Update(c, [job[c] EXCEPT !.thread = "stopping", !.term = TRUE])
    /\ Calm

\* _stop_worker: SIGTERM was sent; wait for the supervisor.
WorkerStopped(c) ==
    /\ job[c].thread = "stopping" /\ ~SupAlive(c)
    /\ Update(c, Ended(job[c], IF job[c].cancel THEN "cancelled" ELSE "timeout"))
    /\ Calm

------------------------------------------------------------------------------
(* cancel_evaluation_job, called on an interrupt.                           *)

CancelJob(c) ==
    /\ job[c].caller = "submitted" /\ job[c].thread # "dead"
    /\ Update(c, [job[c] EXCEPT !.caller = "cancelling", !.cancel = TRUE])
    /\ Calm
CancelWorker(c) ==
    /\ job[c].caller = "cancelling" /\ job[c].thread # "dead"
    /\ Update(c, IF job[c].published /\ SupAlive(c)
                 THEN [job[c] EXCEPT !.caller = "cancelled", !.term = TRUE]
                 ELSE [job[c] EXCEPT !.caller = "cancelled"])
    /\ Calm

------------------------------------------------------------------------------
(* The supervisor.                                                          *)

Exits(j, code) == [j EXCEPT !.sup = "exited", !.code = code]

\* Until main has installed its handler, SIGTERM is the end of it.
SupStart(c) ==
    /\ job[c].sup = "starting"
    /\ Update(c, IF job[c].term THEN Exits(job[c], 2) ELSE [job[c] EXCEPT !.sup = "reading"])
    /\ Calm

SupRead(c) ==
    /\ job[c].sup = "reading"
    /\ Update(c, CASE job[c].term -> Exits(job[c], 130)
                   [] ~job[c].term /\ job[c].expired -> Exits(job[c], 124)
                   [] OTHER -> IF job[c].thread = "communicate"
                               THEN [job[c] EXCEPT !.sup = "supervising", !.group = {"leader"}]
                               ELSE Exits(job[c], 2))
    /\ job[c].term \/ job[c].expired \/ job[c].thread \in {"communicate", "dead"}
    /\ Calm

\* The loop of _supervise, left on a cancellation, the deadline or the end of
\* the child; in every case _stop_child follows.
SupLeaves(c) ==
    LET answered == "leader" \notin job[c].group
        code == IF job[c].term THEN 130 ELSE IF job[c].expired /\ ~answered THEN 124
                ELSE IF job[c].verdict = "none" THEN 2 ELSE 0
    IN /\ job[c].sup = "supervising"
       /\ job[c].term \/ job[c].expired \/ answered
       /\ Update(c, [job[c] EXCEPT !.sup = "terminating", !.code = code])
       /\ Calm

\* _stop_child: SIGTERM to the group, which some survive; after the grace SIGKILL.
TermGroup(c, survivors) ==
    /\ job[c].sup = "terminating" /\ job[c].group # {}
    /\ survivors \subseteq job[c].group /\ survivors # job[c].group
    /\ Update(c, [job[c] EXCEPT !.group = survivors])
    /\ Calm
KillGroup(c) ==
    /\ job[c].sup = "terminating"
    /\ Update(c, Exits([job[c] EXCEPT !.group = {}], job[c].code))
    /\ Calm

------------------------------------------------------------------------------
(* The admitted child and the evaluator.                                    *)

\* run_admitted_evaluation_payload: contexts and record, or a failed result.
LaunchEvaluator(c) ==
    /\ "leader" \in job[c].group /\ ~job[c].launched /\ job[c].verdict = "none"
    /\ Update(c, [job[c] EXCEPT !.group = @ \cup {"evaluator"}, !.launched = TRUE])
    /\ Calm
HydrationFails(c) ==
    /\ "leader" \in job[c].group /\ ~job[c].launched
    /\ Breaks
    /\ Update(c, [job[c] EXCEPT !.group = @ \ {"leader"}, !.verdict = "failed"])
EvaluatorEnds(c) ==
    /\ "evaluator" \in job[c].group
    /\ Update(c, [job[c] EXCEPT !.group = @ \ {"evaluator"}])
    /\ Calm

\* finish_local_evaluation: the evaluator's result, or its timeout.
LeaderAnswers(c, verdict) ==
    /\ "leader" \in job[c].group /\ job[c].launched
    /\ IF "evaluator" \in job[c].group THEN job[c].expired /\ verdict = "timeout"
       ELSE verdict \in {"succeeded", "partial", "failed"}
    /\ Update(c, [job[c] EXCEPT !.group = {}, !.verdict = verdict])
    /\ Calm

\* Slip: the fallback is armed before the fork, and lives in the supervisor.
FaultOrphanDeadline(c) ==
    /\ "leader" \in job[c].group /\ job[c].expired /\ SupAlive(c)
    /\ Update(c, [job[c] EXCEPT !.group = {}])
    /\ Calm

\* _orphan_deadline in the child, later than the supervisor's own stop.
OrphanDeadline(c) ==
    /\ "leader" \in job[c].group /\ job[c].expired /\ ~SupAlive(c)
    /\ Update(c, [job[c] EXCEPT !.group = {}])
    /\ Calm

------------------------------------------------------------------------------
(* Time and kills.                                                          *)

Expire(c) ==
    /\ Holds(c) /\ ~job[c].expired
    /\ Update(c, [job[c] EXCEPT !.expired = TRUE])
    /\ Calm
\* Of the supervisor, also the SIGKILL of a _stop_worker that waited in vain.
KillSupervisor(c) ==
    /\ SupAlive(c)
    /\ Breaks
    /\ Update(c, Exits(job[c], 9))
KillLeader(c) ==
    /\ "leader" \in job[c].group
    /\ Breaks
    /\ Update(c, [job[c] EXCEPT !.group = @ \ {"leader"}])
KillClient(c) ==
    /\ job[c].thread \notin {"idle", "done", "dead"}
    /\ Breaks
    /\ Update(c, [job[c] EXCEPT !.thread = "dead", !.result = "none"])

JobProgress(c) ==
    \/ TakeLock(c) \/ LockCancelled(c) \/ SpawnWorker(c) \/ PublishWorker(c)
    \/ WorkerEnds(c) \/ CommunicateTimeout(c) \/ WorkerStopped(c)
    \/ CancelWorker(c)
    \/ SupStart(c) \/ SupRead(c) \/ SupLeaves(c) \/ KillGroup(c)
    \/ OrphanDeadline(c)
JobStep(c) ==
    \/ SubmitJob(c) \/ JobProgress(c) \/ CancelJob(c)
    \/ \E survivors \in SUBSET {"leader", "evaluator"} : TermGroup(c, survivors)
    \/ LaunchEvaluator(c) \/ HydrationFails(c) \/ EvaluatorEnds(c)
    \/ \E verdict \in {"succeeded", "partial", "failed", "timeout"} : LeaderAnswers(c, verdict)
    \/ Expire(c) \/ KillSupervisor(c) \/ KillLeader(c) \/ KillClient(c)

JobsRest ==
    /\ \A c \in Clients : job[c].thread = "done" /\ ~Holds(c)
    /\ UNCHANGED jobVars
JobNext == (\E c \in Clients : JobStep(c)) \/ JobsRest
\* The processes run and the clocks advance; nothing makes the child or the
\* evaluator end by itself, the caller submit or cancel, or anything fail.
\* Polls of the lock succeed infinitely often only if they are made in turn.
JobSpec ==
    /\ JobInit /\ [][JobNext]_jobVars
    /\ \A c \in Clients : WF_jobVars(JobProgress(c)) /\ WF_jobVars(Expire(c)) /\ SF_jobVars(TakeLock(c))

------------------------------------------------------------------------------
(* Properties.                                                              *)

\* The lock admits one evaluation to the machine: no two clients have an
\* admitted job or a process of one, even after a client or a supervisor was
\* killed and left its child behind (LOCAL_EVALUATION_CONCURRENCY = 1).
OneEvaluationAtATime ==
    \A c, other \in Clients :
        c # other /\ job[c].group # {} => job[other].group = {} /\ ~ThreadHolds(other)

\* The future of a job is resolved after its processes are reaped, unless the
\* supervisor was killed.
NothingRunsOn ==
    \A c \in Clients : job[c].thread = "done" /\ job[c].code # 9 =>
        ~SupAlive(c) /\ job[c].group = {}

\* A cancellation is not lost between the start of the worker and its
\* publication: once cancel_evaluation_job has looked for a worker, one that
\* is published runs with a SIGTERM.
CancelNotLost ==
    \A c \in Clients :
        job[c].caller = "cancelled" /\ job[c].published /\ SupAlive(c) => job[c].term

\* A job succeeds only with the verdict of an evaluator that ran to its end.
SuccessIsTheVerdict ==
    \A c \in Clients : job[c].result \in {"succeeded", "partial"} =>
        job[c].launched /\ job[c].verdict = job[c].result /\ job[c].code = 0

\* An evaluator without leader and supervisor: nothing is left to stop it.
Unsupervised(c) == job[c].group = {"evaluator"} /\ ~SupAlive(c)

\* A job is under way and can come to its end; every one does, and the lock is
\* free again, whatever hangs.
JobsBusy ==
    /\ \E c \in Clients : job[c].thread \notin {"idle", "done", "dead"} \/ Holds(c)
    /\ \A c \in Clients : ~Unsupervised(c)
=============================================================================
