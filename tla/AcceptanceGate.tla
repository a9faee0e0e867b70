--------------------------- MODULE AcceptanceGate ---------------------------
(***************************************************************************)
(* evaluation/non_regression_gate.py, collect-functional followed by       *)
(* collect-performance: does gathering evidence, and evaluating on the     *)
(* same machine, slow the application down?  Four blocks of requests run   *)
(* on fresh runtimes, without, with, with and without evidence; then each  *)
(* query is asked while the evaluator is kept idle, and again while it     *)
(* judges the answer of a donor.  The samples are validated before a       *)
(* verdict is calculated.                                                  *)
(*                                                                         *)
(* The evaluator's lock, taken by the collector too, is EvaluationJobs'    *)
(* seen from outside.  What happened is measured, in its order: the places *)
(* of events in the sequence gateEvents stand for the monotonic clock.     *)
(***************************************************************************)
EXTENDS Integers, Sequences, FiniteSets, SequencesExt, FiniteSetsExt

CONSTANTS
    GateWarmups,        \* 3 in the code
    GatePairs,          \* --pairs, even
    JudgeRequests,      \* of one evaluation
    GateMaxFaults       \* failed steps, failed judgements, interrupts, restarts, kills

ASSUME GateBounds == {GateWarmups, GatePairs} \subseteq Nat

VARIABLES
    gateRuntime,    \* the runtime container: on, evidence, and which one it is
    gateEvidence,   \* identity for which functional.json says passed, or 0
    gateConfig,     \* identity of the configuration, corpus and models
    gatePc,         \* [run, at, block, ordinal, instance] of the collector; a block is
                    \* a runtime's, then a pair
    gateRows,       \* the samples of the phase
    gateEvents,     \* of the pair: requests and judge requests
    gateLock,       \* who holds the evaluator's lock
    gateWaiting, gateEvaluated, gateUnsound,    \* evaluations
    gateDonor,      \* the donor's process
    gateSeen,       \* active_key, or 0
    gateVerdict,    \* of each comparison and of the run
    gateExcuse,     \* the runtime could not be stopped
    gateFaults

gateVars == <<gateRuntime, gateEvidence, gateConfig, gatePc, gateRows, gateEvents, gateLock,
              gateWaiting, gateEvaluated, gateUnsound, gateDonor, gateSeen, gateVerdict,
              gateExcuse, gateFaults>>
pairVars == <<gateEvents, gateLock, gateWaiting, gateEvaluated, gateUnsound, gateDonor, gateSeen>>

BlockModes == <<"off", "on", "on", "off">>
EventOf(what, who) == [what |-> what, who |-> who, n |-> 0]

GateInit ==
    /\ gateRuntime = [on |-> FALSE, evidence |-> FALSE, instance |-> 0]
    /\ gateEvidence = 0 /\ gateConfig = 1
    /\ gatePc = [run |-> "functional", at |-> "down", block |-> 1, ordinal |-> 0,
                 instance |-> 0]
    /\ gateRows = <<>> /\ gateEvents = <<>>
    /\ gateLock = "none" /\ gateWaiting = {} /\ gateEvaluated = {} /\ gateUnsound = {}
    /\ gateDonor = "none" /\ gateSeen = 0
    /\ gateVerdict = [crossover |-> "none", contention |-> "none", result |-> "none"]
    /\ gateExcuse = FALSE /\ gateFaults = 0

------------------------------------------------------------------------------
(* The collector.                                                           *)

GateFails == gateFaults < GateMaxFaults /\ gateFaults' = gateFaults + 1
GateGoes == UNCHANGED gateFaults
GateAt(run, at) == gatePc.run = run /\ gatePc.at = at
GateTo(at) == gatePc' = [gatePc EXCEPT !.at = at]

\* A step raises, a check of it refuses, or it is interrupted.  The donor is waited
\* for (the executor), then the runtime is stopped.
GateRaises == GateFails /\ GateTo("drain")

StopFirst ==
    /\ gatePc.at = "down"
    /\ \/ GateGoes /\ GateTo("up") /\ gateRuntime' = [gateRuntime EXCEPT !.on = FALSE]
       \/ GateRaises /\ UNCHANGED gateRuntime
    /\ UNCHANGED <<gateEvidence, gateConfig, gateRows, pairVars, gateVerdict, gateExcuse>>

\* The deployed runtime gathers evidence as it was asked to, unless an old setting
\* is in force.  An up that fails has undone itself.
WantsEvidence == gatePc.run = "crossover" => BlockModes[gatePc.block] = "on"
StartedRuntime(evidence) ==
    [on |-> TRUE, evidence |-> evidence, instance |-> gateRuntime.instance + 1]
StartRuntime ==
    /\ gatePc.at = "up"
    /\ \/ /\ GateGoes /\ gateRuntime' = StartedRuntime(WantsEvidence)
          /\ GateTo(IF gatePc.run = "functional" THEN "ask" ELSE "instance")
       \/ /\ GateFails /\ gateRuntime' = StartedRuntime(~WantsEvidence)
          /\ GateTo(IF gatePc.run = "functional" THEN "ask" ELSE "instance")
       \/ GateRaises /\ UNCHANGED gateRuntime
    /\ UNCHANGED <<gateEvidence, gateConfig, gateRows, pairVars, gateVerdict, gateExcuse>>

\* Exactly one container of the runtime is listed.  The samples of a block take its
\* identity; their worker is told by the runtime itself.
ReadInstance ==
    /\ gatePc.at = "instance"
    /\ \/ /\ GateGoes
          /\ gatePc' = [gatePc EXCEPT !.instance = gateRuntime.instance,
                !.at = CASE gatePc.run = "functional" -> "valid"
                         [] gatePc.run = "crossover" -> "ask"
                         [] OTHER -> "reserve"]
       \/ GateRaises
    /\ UNCHANGED <<gateRuntime, gateEvidence, gateConfig, gateRows, pairVars, gateVerdict,
                   gateExcuse>>

\* A request, its evaluation and its post-generation tasks.  An evaluation that is
\* not a success is told by the sample.
IsWarmup == gatePc.ordinal < GateWarmups
ScheduleIndex == Max({0, gatePc.ordinal - GateWarmups})
CrossoverSample(sound) ==
    [block |-> gatePc.block, ordinal |-> gatePc.ordinal, warmup |-> IsWarmup,
     mode |-> BlockModes[gatePc.block], evidence |-> gateRuntime.evidence,
     pair |-> <<(gatePc.block + 1) \div 2, ScheduleIndex>>, query |-> ScheduleIndex,
     instance |-> gatePc.instance, worker |-> gateRuntime.instance, sound |-> sound]
AskSample ==
    /\ gatePc.at = "ask"
    /\ \/ /\ gatePc.run = "functional"
          /\ GateGoes /\ GateTo("instance") /\ UNCHANGED gateRows
       \/ /\ gatePc.run = "crossover"
          /\ \E slow \in IF IsWarmup \/ BlockModes[gatePc.block] = "off" THEN {FALSE} ELSE BOOLEAN,
                sound \in BOOLEAN :
               /\ gateRows' = Append(gateRows, CrossoverSample(sound))
               /\ IF sound THEN GateGoes ELSE GateFails
          /\ gatePc' = IF gatePc.ordinal + 1 < GateWarmups + GatePairs \div 2
                       THEN [gatePc EXCEPT !.ordinal = @ + 1]
                       ELSE [gatePc EXCEPT !.at = "finally"]
       \/ GateRaises /\ UNCHANGED gateRows
    /\ UNCHANGED <<gateRuntime, gateEvidence, gateConfig, pairVars, gateVerdict, gateExcuse>>

\* _validate_live_sample: without evidence there is no evaluation to validate.
ValidateAsk ==
    /\ gatePc.at = "valid"
    /\ \/ GateGoes /\ GateTo(IF gateRuntime.evidence THEN "finally" ELSE "drain")
       \/ GateRaises
    /\ UNCHANGED <<gateRuntime, gateEvidence, gateConfig, gateRows, pairVars, gateVerdict,
                   gateExcuse>>

DonorIsGone == gateDonor \in {"none", "returned", "raised"}
Drain ==
    /\ gatePc.at = "drain" /\ DonorIsGone
    /\ GateGoes /\ GateTo("failing")
    /\ UNCHANGED <<gateRuntime, gateEvidence, gateConfig, gateRows, pairVars, gateVerdict,
                   gateExcuse>>

\* The finally clause of a block.
GateEnded(result) ==
    /\ gatePc' = [gatePc EXCEPT !.at = "ended"]
    /\ gateVerdict' = [gateVerdict EXCEPT !.result = result]
StopRuntime ==
    /\ gatePc.at \in {"finally", "failing"}
    /\ \/ /\ GateGoes
          /\ gateRuntime' = [gateRuntime EXCEPT !.on = FALSE]
          /\ CASE gatePc.at = "failing" -> GateEnded("refused")
               [] gatePc.at # "failing" /\ gatePc.run = "crossover" /\ gatePc.block < 4 ->
                    /\ gatePc' = [gatePc EXCEPT !.at = "down", !.block = @ + 1, !.ordinal = 0]
                    /\ UNCHANGED gateVerdict
               [] OTHER -> GateTo("judge") /\ UNCHANGED gateVerdict
          /\ UNCHANGED gateExcuse
       \/ /\ GateFails
          /\ gateRuntime' \in {gateRuntime, [gateRuntime EXCEPT !.on = FALSE]}
          /\ gateExcuse' = TRUE
          /\ GateEnded("refused")
    /\ UNCHANGED <<gateEvidence, gateConfig, gateRows, pairVars>>

------------------------------------------------------------------------------
(* Requests beside the evaluator.                                           *)

Happens(event) == gateEvents' = Append(gateEvents, event)
PlaceOf(what, who) == CHOOSE n \in DOMAIN gateEvents : gateEvents[n] = EventOf(what, who)

\* Whether a judge request of this evaluation is under way at a place.
JudgingAt(who, place) ==
    \E i \in 1..place :
        /\ gateEvents[i].what = "start" /\ gateEvents[i].who = who
        /\ \A j \in (i + 1)..place :
              ~(gateEvents[j].who = who /\ gateEvents[j].n = gateEvents[i].n)
JudgeBusy(who) == JudgingAt(who, Len(gateEvents))

Evaluations == {"base", "donor", "compared", "stranger"}
collectorOnly == <<gateRuntime, gateEvidence, gateConfig, gateVerdict, gateExcuse>>

\* flock waits until no evaluation holds the lock.
ReserveIdle ==
    /\ gatePc.at = "reserve" /\ gateLock = "none"
    /\ gateLock' = "collector"
    /\ Happens(EventOf("reserve", "base"))
    /\ GateGoes /\ GateTo("base")
    /\ UNCHANGED <<collectorOnly, gateRows, gateWaiting, gateEvaluated, gateUnsound, gateDonor,
                   gateSeen>>

AskBase ==
    /\ gatePc.at = "base"
    /\ Happens(EventOf("request", "base"))
    /\ GateGoes /\ GateTo("base_stream")
    /\ UNCHANGED <<collectorOnly, gateRows, gateLock, gateWaiting, gateEvaluated, gateUnsound,
                   gateDonor, gateSeen>>

\* The hook of ask releases the lock as soon as the answer is validated: the
\* evaluation of this very answer will wait for it.
BaseAnswered ==
    /\ gatePc.at = "base_stream"
    /\ gateLock' = "none"
    /\ \/ /\ Happens(EventOf("done", "base"))
          /\ gateWaiting' = gateWaiting \cup {"base"}
          /\ GateGoes /\ GateTo("base_evaluation")
       \/ GateRaises /\ UNCHANGED <<gateEvents, gateWaiting>>
    /\ UNCHANGED <<collectorOnly, gateRows, gateEvaluated, gateUnsound, gateDonor, gateSeen>>

\* A pair has its own events, and those of an evaluation that goes on.
OthersEvents ==
    LET theirs[n \in 0..Len(gateEvents)] ==
            IF n = 0 THEN <<>>
            ELSE IF gateEvents[n].who = "stranger" THEN Append(theirs[n - 1], gateEvents[n])
            ELSE theirs[n - 1]
    IN IF gateLock = "stranger" THEN theirs[Len(gateEvents)] ELSE <<>>
Undisturbed ==
    \A n \in PlaceOf("request", "base")..PlaceOf("done", "base") :
        \A who \in Evaluations : ~JudgingAt(who, n)
BaseSample ==
    [mode |-> "uncontended", query |-> gatePc.block, evidence |-> gateRuntime.evidence,
     sound |-> "base" \notin gateUnsound,
     idle |-> PlaceOf("reserve", "base") < PlaceOf("request", "base"), undisturbed |-> Undisturbed]
BaseEvaluated ==
    /\ gatePc.at = "base_evaluation" /\ "base" \in gateEvaluated
    /\ \/ /\ gateRows' = Append(gateRows, BaseSample)
          /\ gateDonor' = "asking"
          /\ gateEvents' = OthersEvents
          /\ GateGoes /\ GateTo("watch")
       \/ GateRaises /\ UNCHANGED <<gateRows, gateDonor, gateEvents>>
    /\ UNCHANGED <<collectorOnly, gateLock, gateWaiting, gateEvaluated, gateUnsound, gateSeen>>

\* judge-activity.jsonl has the donor's judge requests, and an end of those that
\* were answered.
DonorStart(n) == [what |-> "start", who |-> "donor", n |-> n]
JudgesActive == {n \in 1..JudgeRequests :
              /\ DonorStart(n) \in ToSet(gateEvents)
              /\ \A good \in {"end", "refused"} :
                    [DonorStart(n) EXCEPT !.what = good] \notin ToSet(gateEvents)}
WatchDonor ==
    /\ gatePc.at = "watch"
    /\ \/ \E n \in JudgesActive : gateSeen' = n /\ GateGoes /\ GateTo("compared")
       \/ JudgesActive = {} /\ DonorIsGone /\ GateGoes /\ GateTo("drain") /\ UNCHANGED gateSeen
       \/ GateRaises /\ UNCHANGED gateSeen
    /\ UNCHANGED <<collectorOnly, gateRows, gateEvents, gateLock, gateWaiting, gateEvaluated,
                   gateUnsound, gateDonor>>

AskCompared ==
    /\ gatePc.at = "compared"
    /\ Happens(EventOf("request", "compared"))
    /\ GateGoes /\ GateTo("compared_stream")
    /\ UNCHANGED <<collectorOnly, gateRows, gateLock, gateWaiting, gateEvaluated, gateUnsound,
                   gateDonor, gateSeen>>
ComparedAnswered ==
    /\ gatePc.at = "compared_stream"
    /\ \/ /\ Happens(EventOf("done", "compared"))
          /\ gateWaiting' = gateWaiting \cup {"compared"}
          /\ GateGoes /\ GateTo("compared_evaluation")
       \/ GateRaises /\ UNCHANGED <<gateEvents, gateWaiting>>
    /\ UNCHANGED <<collectorOnly, gateRows, gateLock, gateEvaluated, gateUnsound, gateDonor,
                   gateSeen>>

\* _activity_intervals: what was seen active has an end, or there is no sample.
JudgeInterval ==
    {judge \in (DOMAIN gateEvents) \X (DOMAIN gateEvents) :
        LET end == gateEvents[judge[2]]
        IN  /\ gateEvents[judge[1]] = DonorStart(gateSeen)
            /\ end.what \in {"end", "refused"} /\ end.who = "donor" /\ end.n = gateSeen}
ContendedSample(judge) ==
    [mode |-> "contended", query |-> gatePc.block, evidence |-> gateRuntime.evidence,
     sound |-> {"compared", "donor"} \cap gateUnsound = {},
     success |-> gateEvents[judge[2]].what = "end",
     after |-> judge[1] < PlaceOf("request", "compared"),
     during |-> PlaceOf("request", "compared") < Min({PlaceOf("done", "compared"), judge[2]}),
     beside |-> JudgingAt("donor", PlaceOf("request", "compared"))]
JoinDonor ==
    /\ gatePc.at = "compared_evaluation" /\ "compared" \in gateEvaluated /\ DonorIsGone
    /\ \/ /\ gateDonor = "returned" /\ GateGoes
          /\ \E judge \in JudgeInterval :
               gateRows' = Append(gateRows, ContendedSample(judge))
          /\ gatePc' = IF gatePc.block < GatePairs
                       THEN [gatePc EXCEPT !.at = "reserve", !.block = @ + 1]
                       ELSE [gatePc EXCEPT !.at = "finally"]
       \/ /\ gateDonor = "raised" \/ JudgeInterval = {}
          /\ GateGoes /\ GateTo("drain") /\ UNCHANGED gateRows
       \/ GateRaises /\ UNCHANGED gateRows
    /\ gateDonor' = "none" /\ gateSeen' = 0
    /\ gateEvents' = OthersEvents
    /\ gateEvaluated' = gateEvaluated \cap {"stranger"} /\ gateUnsound' = {}
    /\ UNCHANGED <<collectorOnly, gateLock, gateWaiting>>

------------------------------------------------------------------------------
(* The donor's process, and the evaluations of the machine.                 *)

DonorStep ==
    /\ \/ /\ gateDonor = "asking"
          /\ \/ /\ gateDonor' = "evaluating" /\ GateGoes
                /\ gateWaiting' = gateWaiting \cup {"donor"}
             \/ gateDonor' = "raised" /\ GateFails /\ UNCHANGED gateWaiting
       \/ /\ gateDonor = "evaluating" /\ "donor" \in gateEvaluated
          /\ gateDonor' = "returned" /\ GateGoes /\ UNCHANGED gateWaiting
    /\ UNCHANGED <<collectorOnly, gatePc, gateRows, gateEvents, gateLock, gateEvaluated,
                   gateUnsound, gateSeen>>

JudgeRequested(who) == Cardinality({n \in DOMAIN gateEvents :
                                  gateEvents[n].what = "start" /\ gateEvents[n].who = who})
EvaluationStep(who) ==
    LET judge(what, n) == Happens([what |-> what, who |-> who, n |-> n])
    IN /\ \/ /\ who \in gateWaiting /\ gateLock = "none"
             /\ gateLock' = who /\ gateWaiting' = gateWaiting \ {who}
             /\ GateGoes /\ UNCHANGED <<gateEvents, gateEvaluated, gateUnsound>>
          \/ /\ gateLock = who /\ ~JudgeBusy(who)
             /\ JudgeRequested(who) < (IF who = "donor" THEN JudgeRequests ELSE 1)
             /\ judge("start", JudgeRequested(who) + 1)
             /\ GateGoes /\ UNCHANGED <<gateLock, gateWaiting, gateEvaluated, gateUnsound>>
          \/ /\ gateLock = who /\ JudgeBusy(who)
             /\ \/ judge("end", JudgeRequested(who)) /\ GateGoes /\ UNCHANGED gateUnsound
                \/ /\ \E what \in {"refused", "lost"} : judge(what, JudgeRequested(who))
                   /\ GateFails /\ gateUnsound' = gateUnsound \cup {who}
             /\ UNCHANGED <<gateLock, gateWaiting, gateEvaluated>>
          \/ /\ gateLock = who /\ ~JudgeBusy(who) /\ JudgeRequested(who) > 0
             /\ gateLock' = "none" /\ gateEvaluated' = gateEvaluated \cup {who}
             /\ GateGoes /\ UNCHANGED <<gateEvents, gateWaiting, gateUnsound>>
       /\ UNCHANGED <<collectorOnly, gatePc, gateRows, gateDonor, gateSeen>>

\* Somebody else's evaluation on this machine has waited for the lock, or just came.
StrangerStarts ==
    /\ gatePc.run = "contention" /\ gatePc.at # "ended"
    /\ gateLock = "none" /\ "stranger" \notin gateEvaluated
    /\ gateLock' = "stranger"
    /\ GateGoes
    /\ UNCHANGED <<collectorOnly, gatePc, gateRows, gateEvents, gateWaiting, gateEvaluated,
                   gateUnsound, gateDonor, gateSeen>>

------------------------------------------------------------------------------
(* The verdict.                                                             *)

\* diagnose e2e passes on all its queries, and functional.json says so.
FunctionalPasses ==
    /\ GateAt("functional", "judge")
    /\ \/ /\ GateGoes /\ gateEvidence' = gateConfig
          /\ gatePc' = [gatePc EXCEPT !.run = "crossover", !.at = "start"]
          /\ UNCHANGED gateVerdict
       \/ GateFails /\ GateEnded("refused") /\ UNCHANGED gateEvidence
    /\ UNCHANGED <<gateRuntime, gateConfig, gateRows, pairVars, gateExcuse>>

\* The performance run, perhaps of another configuration than the functional one.
StartPerformance ==
    /\ gatePc.at = "start"
    /\ \E config \in 1..2 :
         /\ gateConfig' = config
         /\ IF config = gateEvidence THEN GateTo("down") /\ UNCHANGED gateVerdict
            ELSE GateEnded("refused")
    /\ GateGoes
    /\ UNCHANGED <<gateRuntime, gateEvidence, gateRows, pairVars, gateExcuse>>

\* validate_latency_schedule.
BlockRows(b) == SelectSeq(gateRows, LAMBDA row : row.block = b)
MeasuredRows(b) == SelectSeq(BlockRows(b), LAMBDA row : ~row.warmup)
ScheduleOf(rows) == [n \in DOMAIN rows |-> rows[n].query]
CrossoverValid ==
    /\ \A n \in DOMAIN gateRows :
         LET row == gateRows[n]
         IN /\ row.evidence = (row.mode = "on") /\ (row.mode = "on" => row.sound)
            /\ row.instance = BlockRows(row.block)[1].instance
    /\ Cardinality({gateRows[n].instance : n \in DOMAIN gateRows}) = 4
    /\ \A b \in 1..4 :
         /\ Len(BlockRows(b)) > GateWarmups
         /\ \A n \in DOMAIN BlockRows(b) : BlockRows(b)[n].warmup = (n <= GateWarmups)
         /\ ScheduleOf(MeasuredRows(b)) = ScheduleOf(MeasuredRows(1))

\* validate_contention_sample.
RequestOverlaps(row) == row.success /\ row.after /\ row.during
ContentionValid ==
    \A n \in DOMAIN gateRows :
        /\ gateRows[n].evidence /\ gateRows[n].sound
        /\ IF gateRows[n].mode = "contended" THEN RequestOverlaps(gateRows[n]) ELSE gateRows[n].idle

\* paired_latency_gate compares the medians and bounds their change; the model takes
\* either answer.
ValidateSamples ==
    /\ gatePc.at = "judge" /\ gatePc.run # "functional"
    /\ GateGoes
    /\ IF IF gatePc.run = "crossover" THEN CrossoverValid ELSE ContentionValid
       THEN /\ \E verdict \in {"passed", "failed"} :
                 gateVerdict' = [gateVerdict EXCEPT ![gatePc.run] = verdict]
            /\ GateTo("accepted")
       ELSE GateEnded("refused")
    /\ UNCHANGED <<gateRuntime, gateEvidence, gateConfig, gateRows, pairVars, gateExcuse>>

ConcludePhase ==
    /\ gatePc.at = "accepted"
    /\ \/ /\ gatePc.run = "crossover" /\ GateGoes
          /\ gatePc' = [gatePc EXCEPT !.run = "contention", !.at = "up", !.block = 1]
          /\ UNCHANGED gateVerdict
       \/ /\ gatePc.run = "contention" /\ GateGoes
          /\ GateEnded(IF gateVerdict.crossover = "passed" /\ gateVerdict.contention = "passed"
                       THEN "passed" ELSE "failed")
       \/ GateFails /\ GateEnded("refused")
    /\ gateRows' = <<>>
    /\ UNCHANGED <<gateRuntime, gateEvidence, gateConfig, pairVars, gateExcuse>>

------------------------------------------------------------------------------
(* What happens to it.                                                      *)

\* The container is replaced between two requests.
RuntimeRestarts ==
    /\ gatePc.at = "ask" /\ GateFails
    /\ gateRuntime' = [gateRuntime EXCEPT !.instance = @ + 1]
    /\ UNCHANGED <<gateEvidence, gateConfig, gatePc, gateRows, pairVars, gateVerdict, gateExcuse>>

\* The descriptor of the lock is closed with the process.
GateKilled ==
    /\ gatePc.at # "ended" /\ GateFails
    /\ GateEnded("killed")
    /\ gateExcuse' = gateRuntime.on
    /\ gateLock' = IF gateLock = "collector" THEN "none" ELSE gateLock
    /\ UNCHANGED <<gateRuntime, gateEvidence, gateConfig, gateRows, gateEvents, gateWaiting,
                   gateEvaluated, gateUnsound, gateDonor, gateSeen>>

GateStep ==
    \/ StopFirst \/ StartRuntime \/ ReadInstance \/ AskSample \/ ValidateAsk \/ Drain \/ StopRuntime
    \/ ReserveIdle \/ AskBase \/ BaseAnswered \/ BaseEvaluated
    \/ WatchDonor \/ AskCompared \/ ComparedAnswered \/ JoinDonor
    \/ FunctionalPasses \/ StartPerformance \/ ValidateSamples \/ ConcludePhase
GateOthers == DonorStep \/ \E who \in Evaluations : EvaluationStep(who)
GateNext == GateStep \/ GateOthers \/ StrangerStarts \/ RuntimeRestarts \/ GateKilled

GateSpec == GateInit /\ [][GateNext]_gateVars /\ WF_gateVars(GateStep) /\ WF_gateVars(GateOthers)

------------------------------------------------------------------------------
(* Properties.                                                              *)

\* Samples from which a verdict is calculated are what they are called: each measured
\* query was asked without and with evidence, on four runtimes; and beside a judge
\* that was judging, and beside none (non_regression_gate.py:657-858).
SamplesMeasured ==
    gatePc.at = "accepted" =>
        IF gatePc.run = "crossover"
        THEN \A n \in DOMAIN gateRows : ~gateRows[n].warmup =>
               \E m \in DOMAIN gateRows \ {n} :
                  /\ gateRows[m].pair = gateRows[n].pair /\ gateRows[m].query = gateRows[n].query
                  /\ gateRows[m].evidence # gateRows[n].evidence
                  /\ gateRows[m].worker # gateRows[n].worker
        ELSE /\ \A n \in DOMAIN gateRows :
                  IF gateRows[n].mode = "contended" THEN gateRows[n].beside
                  ELSE gateRows[n].undisturbed
             /\ \A q \in 1..GatePairs :
                  {gateRows[n].mode : n \in {k \in DOMAIN gateRows : gateRows[k].query = q}}
                      = {"contended", "uncontended"}

\* The run passes only when both comparisons did, for the configuration that passed
\* the functional run (1122-1125, 1283-1291).
PassedMeansCompared ==
    gateVerdict.result = "passed" =>
        gateVerdict.crossover = "passed" /\ gateVerdict.contention = "passed"
        /\ gateEvidence = gateConfig

\* A collection that ends, for whatever reason, has stopped the runtime or failed at
\* stopping it, has given the lock back and has no donor under way, unless it was killed.
GateCleanedUp ==
    gatePc.at = "ended" =>
        /\ gateRuntime.on => gateExcuse
        /\ gateLock # "collector"
        /\ gateVerdict.result # "killed" => DonorIsGone

\* A collection is under way, or a process it started; it ends.
GateBusy == gatePc.at # "ended" \/ ~DonorIsGone
=============================================================================
