-------------------------- MODULE RecordEvaluation --------------------------
(***************************************************************************)
(* rag-evaluate run: evaluate_record and write_result_atomic of            *)
(* evaluation/src/rag_evaluation/evaluator.py under cli.py.  One record is *)
(* scored by one metric after another, and the result becomes a file that  *)
(* is never replaced.  Several runs may be given the same --output.        *)
(***************************************************************************)
EXTENDS Naturals, Sequences, FiniteSets, SequencesExt

CONSTANTS Scorers,          \* runs with the same output
          ScoreMaxFaults    \* calls that fail, interrupts and kills

VARIABLES
    scoring,        \* each run: where it is, its record, its outcomes
    resultFile,     \* the result at the output path, or NoResult
    resultTemps,    \* runs whose temporary file is on disk
    scoreFaults

scoreVars == <<scoring, resultFile, resultTemps, scoreFaults>>

\* METRIC_PLANS: what each metric needs; the real list has more of the middle kind.
MetricPlans == <<"mandatory", "reference", "noise">>
NoResult == [author |-> 0, status |-> "none"]

\* setup: setup_error_code was set.   exit: of the process, 9 when it was killed.
\* The runs are of one record.
ScoreInit ==
    /\ \E needs \in {{"mandatory"}, {"mandatory", "reference"}, {"mandatory", "reference", "noise"}} :
         scoring = [s \in Scorers |-> [at |-> "load", needs |-> needs, outcomes |-> <<>>,
                                       setup |-> FALSE, status |-> "none", exit |-> -1]]
    /\ resultFile = NoResult
    /\ resultTemps = {}
    /\ scoreFaults = 0

------------------------------------------------------------------------------
(* One run.                                                                 *)

ScoreFails == scoreFaults < ScoreMaxFaults /\ scoreFaults' = scoreFaults + 1
ScoreGoes == UNCHANGED scoreFaults
Scoring(s, at) == scoring[s].at = at
ScoreTo(s, run) == scoring' = [scoring EXCEPT ![s] = run]
\* What a run scored is gone with it, unless its result is the file.
ScoreExit(s, code) ==
    ScoreTo(s, IF resultFile.author = s THEN [scoring[s] EXCEPT !.at = "ended", !.exit = code]
               ELSE [scoring[s] EXCEPT !.at = "ended", !.exit = code, !.outcomes = <<>>,
                                       !.setup = FALSE, !.status = "none"])
OutputKept == UNCHANGED <<resultFile, resultTemps>>

\* metric_skip_code: a reference is missing, or the noise metric was not asked for.
Skipped(run, plan) == plan \notin run.needs

\* The record may be refused, then nothing is written.
LoadRecord(s) ==
    /\ Scoring(s, "load")
    /\ \/ ScoreTo(s, [scoring[s] EXCEPT !.at = "setup"]) /\ ScoreGoes
       \/ ScoreExit(s, 2) /\ ScoreFails
    /\ OutputKept

\* Without a backend every applicable metric has failed.
SetUpBackend(s) ==
    LET run == scoring[s]
    IN /\ Scoring(s, "setup")
       /\ \/ ScoreTo(s, [run EXCEPT !.at = "score"]) /\ ScoreGoes
          \/ /\ ScoreTo(s, [run EXCEPT !.at = "conclude", !.setup = TRUE,
                   !.outcomes = [n \in DOMAIN MetricPlans |->
                       IF Skipped(run, MetricPlans[n]) THEN "skipped" ELSE "failed"]])
             /\ ScoreFails
       /\ OutputKept

\* One metric after another; one that raises, or returns no number in [0, 1], fails
\* alone.
ScoreMetrics(s) ==
    LET run == scoring[s]
        applicable == {n \in DOMAIN MetricPlans : ~Skipped(run, MetricPlans[n])}
    IN /\ Scoring(s, "score")
       /\ \E failed \in SUBSET applicable :
            /\ ScoreTo(s, [run EXCEPT !.at = "conclude",
                 !.outcomes = [n \in DOMAIN MetricPlans |->
                     IF n \notin applicable THEN "skipped"
                     ELSE IF n \in failed THEN "failed" ELSE "succeeded"]])
            /\ IF failed = {} THEN ScoreGoes ELSE ScoreFails
       /\ OutputKept

OutcomeStatus(run) ==
    CASE run.setup \/ "succeeded" \notin ToSet(run.outcomes) -> "failed"
      [] OTHER -> IF "failed" \in ToSet(run.outcomes) THEN "partial" ELSE "succeeded"

\* The backend cannot be closed, or the metrics are of another version than the
\* expected one: that fails whatever was scored.
Conclude(s) ==
    LET run == scoring[s]
        concluded(result) == ScoreTo(s, [result EXCEPT !.at = "check", !.status = OutcomeStatus(result)])
    IN /\ Scoring(s, "conclude")
       /\ \/ concluded(run) /\ ScoreGoes
          \/ concluded([run EXCEPT !.setup = TRUE]) /\ ScoreFails
       /\ OutputKept

CheckOutput(s) ==
    /\ Scoring(s, "check")
    /\ IF resultFile # NoResult THEN ScoreExit(s, 2)
       ELSE ScoreTo(s, [scoring[s] EXCEPT !.at = "write"])
    /\ ScoreGoes /\ OutputKept

\* A write that fails takes its temporary file with it.
WriteTemporary(s) ==
    /\ Scoring(s, "write")
    /\ \/ /\ ScoreTo(s, [scoring[s] EXCEPT !.at = "link"]) /\ ScoreGoes
          /\ resultTemps' = resultTemps \cup {s}
       \/ ScoreExit(s, 2) /\ ScoreFails /\ UNCHANGED resultTemps
    /\ UNCHANGED resultFile

\* os.link refuses an output that another run has made since.
LinkResult(s) ==
    /\ Scoring(s, "link")
    /\ IF resultFile = NoResult
       THEN /\ resultFile' = [author |-> s, status |-> scoring[s].status]
            /\ ScoreTo(s, [scoring[s] EXCEPT !.at = "unlink"])
            /\ UNCHANGED resultTemps
       ELSE /\ ScoreExit(s, 2)
            /\ resultTemps' = resultTemps \ {s}
            /\ UNCHANGED resultFile
    /\ ScoreGoes

\* The directory is synchronised last; if that fails, the result is there and the
\* exit code says that it is not.
UnlinkTemporary(s) ==
    /\ Scoring(s, "unlink")
    /\ resultTemps' = resultTemps \ {s}
    /\ \/ /\ ScoreGoes
          /\ ScoreExit(s, IF scoring[s].setup THEN 2
                          ELSE IF scoring[s].status = "succeeded" THEN 0 ELSE 1)
       \/ ScoreExit(s, 2) /\ ScoreFails
    /\ UNCHANGED resultFile

\* An interrupt closes the backend and writes nothing; a kill leaves all as it is.
ScoreInterrupted(s) ==
    /\ scoring[s].at \in {"setup", "score"}
    /\ ScoreExit(s, 130) /\ ScoreFails /\ OutputKept
ScoreKilled(s) ==
    /\ ~Scoring(s, "ended")
    /\ ScoreExit(s, 9) /\ ScoreFails /\ OutputKept

ScoreStep ==
    \E s \in Scorers :
        \/ LoadRecord(s) \/ SetUpBackend(s) \/ ScoreMetrics(s)
        \/ Conclude(s) \/ CheckOutput(s) \/ WriteTemporary(s) \/ LinkResult(s)
        \/ UnlinkTemporary(s)
ScoreNext == ScoreStep \/ \E s \in Scorers : ScoreInterrupted(s) \/ ScoreKilled(s)

ScoreSpec == ScoreInit /\ [][ScoreNext]_scoreVars /\ WF_scoreVars(ScoreStep)

------------------------------------------------------------------------------
(* Properties.                                                              *)

\* A result says of its record what the metrics did: succeeded when every applicable
\* one was scored, the mandatory ones among them, and partial when some were
\* (evaluator.py:198-211).  A run that says it wrote a result finds its own at the
\* output, whoever wrote there meanwhile, and exit code 0 is a success (cli.py:98-121).
ResultIsTheScores ==
    /\ resultFile # NoResult =>
         LET scores == ToSet(scoring[resultFile.author].outcomes)
         IN /\ resultFile.status = "succeeded" => scores \subseteq {"succeeded", "skipped"}
            /\ resultFile.status = "partial" => {"succeeded", "failed"} \subseteq scores
    /\ \A s \in Scorers :
         /\ scoring[s].exit \in {0, 1} =>
              resultFile = [author |-> s, status |-> scoring[s].status]
         /\ scoring[s].exit = 0 =>
              \A n \in DOMAIN MetricPlans :
                  MetricPlans[n] = "mandatory" => scoring[s].outcomes[n] = "succeeded"

\* No temporary file outlives its run, unless the run was killed.
TemporaryRemoved ==
    \A s \in resultTemps : scoring[s].at \in {"link", "unlink"} \/ scoring[s].exit = 9

\* A run is under way; each ends.
ScoreBusy == \E s \in Scorers : ~Scoring(s, "ended")
=============================================================================
