-------------------------- MODULE OperatorCommands --------------------------
(***************************************************************************)
(* The commands of the operator's machine, one per behaviour: diagnose     *)
(* wizard with its corpus (CorpusReplacement) and its scratch script       *)
(* (ScratchDiagnostic), up and down (Deployment), diagnose e2e (EndToEnd), *)
(* the local evaluations that two of them run (EvaluationJobs), the        *)
(* scoring of one record (RecordEvaluation) and the non-regression gate    *)
(* (AcceptanceGate).                                                       *)
(*                                                                         *)
(* The corpus lock keeps the two diagnoses apart.  up and down take no lock *)
(* and the operator is taken to run them at other times, so that each      *)
(* command is checked by itself; what they all promise is stated here.     *)
(***************************************************************************)
EXTENDS CorpusReplacement, Deployment, EndToEnd, EvaluationJobs, ScratchDiagnostic,
        RecordEvaluation, AcceptanceGate

VARIABLE command        \* the command of this behaviour

Commands == {"corpus", "up_down", "e2e", "evaluate", "scratch", "score", "gate"}
operatorVars == <<command, corpusVars, depVars, e2eVars, jobVars, scratchVars, scoreVars,
                  gateVars>>

\* A command that is not run stays in one of its initial states.
OperatorInit ==
    /\ command \in Commands
    /\ CorpusInit /\ DepInit /\ E2EInit /\ JobInit /\ ScratchInit /\ ScoreInit
    /\ GateInit
    /\ command # "corpus" => conf.digest = Min(Digests) /\ conf.policy = Min(Policies)
    /\ command # "up_down" => depCert = "valid"
    /\ command # "e2e" => ~e2eMode.dataset /\ ~e2eMode.continuous
    /\ command # "scratch" => defect.what = "none"
    /\ command # "score" => \A s \in Scorers : scoring[s].needs = {"mandatory"}

Only(mine) ==
    /\ command = mine
    /\ UNCHANGED command
    /\ mine # "corpus" => UNCHANGED corpusVars
    /\ mine # "up_down" => UNCHANGED depVars
    /\ mine # "e2e" => UNCHANGED e2eVars
    /\ mine # "evaluate" => UNCHANGED jobVars
    /\ mine # "scratch" => UNCHANGED scratchVars
    /\ mine # "score" => UNCHANGED scoreVars
    /\ mine # "gate" => UNCHANGED gateVars

OperatorNext ==
    \/ Only("corpus") /\ CorpusNext
    \/ Only("up_down") /\ DepNext
    \/ Only("e2e") /\ E2ENext
    \/ Only("evaluate") /\ JobNext
    \/ Only("scratch") /\ ScratchNext
    \/ Only("score") /\ ScoreNext
    \/ Only("gate") /\ GateNext

\* A command's process runs on, and so do the containers and the backend it
\* waits for: every wait has a deadline.  The fairness of an evaluation is that
\* of JobSpec.
CommandProcess ==
    \/ Only("corpus") /\ ClientStep
    \/ Only("up_down") /\ DepStep
    \/ Only("e2e") /\ E2EStep
    \/ Only("scratch") /\ ScratchClient
    \/ Only("score") /\ ScoreStep
    \/ Only("gate") /\ GateStep
OtherProcess ==
    \/ Only("up_down") /\ Containers
    \/ Only("scratch") /\ RunTask
    \/ Only("gate") /\ GateOthers
OperatorFairness ==
    /\ WF_operatorVars(CommandProcess) /\ WF_operatorVars(OtherProcess)
    /\ \A c \in Clients :
          /\ WF_operatorVars(Only("evaluate") /\ JobProgress(c))
          /\ WF_operatorVars(Only("evaluate") /\ Expire(c))
          /\ SF_operatorVars(Only("evaluate") /\ TakeLock(c))

OperatorSpec == OperatorInit /\ [][OperatorNext]_operatorVars /\ OperatorFairness

------------------------------------------------------------------------------
(* Properties.                                                              *)

\* What a command tells the operator is true, whatever failed on the way: a
\* replacement that succeeded is installed, up's ready and down's off are so, an
\* end-to-end run that succeeded got every answer, an evaluation's verdict is
\* its evaluator's and its file its own, the gate passes on two comparisons of the
\* accepted configuration, and the scratch diagnostic neither passes a backend with a
\* defect that showed nor fails a sound one.
VerdictIsTrue ==
    /\ SucceededMeansInstalled
    /\ ReadyMeansDeployed /\ OffWhenListed
    /\ SucceededMeansAll
    /\ SuccessIsTheVerdict /\ ResultIsTheScores
    /\ PassedMeansCompared
    /\ PassMeansSound /\ NoFalseAlarm

\* Nothing that a command started outlives it unreported: applications of the
\* platform, the secret's file, trace and chat sessions, scratch wizards, evaluators, temporary
\* files, the gate's runtime and its donor.
NothingLeftBehind ==
    /\ NothingLeftRunning /\ SecretRemoved
    /\ OneTraceAtATime /\ ChatsCleanedUp /\ NoJobLeft
    /\ ScratchCleanedUp
    /\ NothingRunsOn /\ CancelNotLost
    /\ TemporaryRemoved /\ GateCleanedUp

\* The corpus survives every failure and kill: its record loads, the active
\* generation is intact, every stored chunk belongs to a recorded document, and
\* the next run refuses the storage in one known case only.
CorpusSafe ==
    /\ CorpusTypeOK /\ LedgerLoads
    /\ ActiveIntact /\ NoStrayDocuments
    /\ RefusedOnlyAfterPartialDeletion

\* The rows of an end-to-end run are the truth about its queries: one for each,
\* posted exactly if it was, and none posted after a systemic failure.  Those of the
\* gate were measured as they say.
ReportFaithful == EveryQueryAccounted /\ RowsTellTheTruth /\ NothingAfterSystemic /\ SamplesMeasured

\* Every command ends, whatever of it fails, hangs or is killed.
Busy ==
    CASE command = "corpus" -> CorpusBusy
      [] command = "up_down" -> DepBusy
      [] command = "e2e" -> E2EBusy
      [] command = "evaluate" -> JobsBusy
      [] command = "scratch" -> ScratchBusy
      [] command = "score" -> ScoreBusy
      [] command = "gate" -> GateBusy
EveryCommandEnds == Busy ~> ~Busy
=============================================================================
