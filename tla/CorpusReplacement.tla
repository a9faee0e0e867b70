------------------------- MODULE CorpusReplacement -------------------------
(***************************************************************************)
(* deployment/wizard_diagnostic_api.py, run_wizard_phase_1c, under         *)
(* deployment/ragctl.py, diagnose_wizard: runs of the seeding client.  A   *)
(* run stops and starts the deployment, exercises scratch wizards, then    *)
(* reuses the recorded corpus or replaces it by a new generation of two    *)
(* documents, and stops the deployment again.                              *)
(*                                                                         *)
(* The client is sequential and holds corpus_state_lock for a whole run,   *)
(* so one client at a time is modelled, and its copy of the state is the   *)
(* ledger on disk (_record_state writes it at once).  The backend saves    *)
(* concurrently.  A run may fail at any request, and may be killed between *)
(* any two: MaxFaults bounds how often that happens.  ragctl.down is taken *)
(* to stop the runtime when it returns; Deployment models how it does so.  *)
(***************************************************************************)
EXTENDS CorpusLedger

CONSTANTS MaxFaults     \* failed requests, failed saves and kills of a behaviour

ASSUME GenerationsAssumption == Generations \subseteq Nat \ {0}
ASSUME ChunksAssumption == Chunks # {}
ASSUME FaultsAssumption == MaxFaults \in Nat

VARIABLES
    ledger,     \* corpus-state.json
    physical,   \* the chunks Weaviate holds of each corpus document
    litter,     \* chunks of scratch documents of the diagnostic user
    runtime,    \* whether the RAG runtime is up
    save,       \* the save task of the runtime
    pc,         \* where the client is
    run,        \* the run under way, or the last one
    conf,       \* fixtures, policy and --reseed-corpus of the run
    scratch,    \* scratch wizards the client knows, newest last
    todo,       \* documents still to be deleted in this loop, or
                \* collections still to be seeded
    report,     \* trace session, result of the phase, status in summary.json
    faults

corpusVars == <<ledger, physical, litter, runtime, save, pc, run, conf, scratch,
                todo, report, faults>>
clientVars == <<pc, run, conf, scratch, todo, report>>

NoSave == [doc |-> <<>>, status |-> "none", left |-> {}]
Scratch == <<"knowledge", "policy", "other">>

ClientStates ==
    {"idle", "pre_down", "up", "up_failed", "start_trace", "first_membership",
     "scratch", "scratch_delete", "membership", "retire_pending", "retire_cleanup",
     "decide", "create", "upload", "submit", "submitted",
     "poll", "postcondition", "verify_replacement", "promote", "final", "failed",
     "delete_trace", "post_down"}

CorpusTypeOK ==
    /\ ledger \in Ledger
    /\ physical \in [Document -> SUBSET Chunks]
    /\ litter \in SUBSET {"knowledge", "policy"}
    /\ runtime \in BOOLEAN
    /\ save.status \in {"none", "running", "succeeded", "failed"}
    /\ pc \in ClientStates
    /\ run \in Generations \cup {0}
    /\ conf \in [digest : Digests, policy : Policies, reseed : BOOLEAN]
    /\ \E n \in 0..3 : scratch = SubSeq(Scratch, 1, n)
    /\ report \in [traced : BOOLEAN, phase : {"pending", "passed", "failed"},
                   summary : {"none", "running", "failed", "succeeded"}]
    /\ faults \in 0..MaxFaults

CorpusInit ==
    /\ ledger = NoLedger
    /\ physical = [d \in Document |-> {}]
    /\ litter = {}
    /\ runtime = FALSE
    /\ save = NoSave
    /\ pc = "idle"
    /\ run = 0
    /\ conf \in [digest : Digests, policy : Policies, reseed : {FALSE}]
    /\ scratch = <<>>
    /\ todo = <<>>
    /\ report = [traced |-> FALSE, phase |-> "pending", summary |-> "none"]
    /\ faults = 0

Go(step) == pc' = step
Doc(c) == [gen |-> run, collection |-> c]

\* A run ends with what it had in memory lost; summary.json keeps summary.
Stop(summary) ==
    /\ Go("idle")
    /\ scratch' = <<>>
    /\ todo' = <<>>
    /\ report' = [traced |-> FALSE, phase |-> "pending", summary |-> summary]
Failing == [report EXCEPT !.phase = "failed"]

------------------------------------------------------------------------------
(* The deployment around a run.                                             *)

\* diagnose_wizard up to the first down: lock, load, preflight.  A ledger or
\* fixtures they refuse end the run here.
Begin(digest, policy, reseed) ==
    /\ pc = "idle"
    /\ run + 1 \in Generations
    /\ Loadable(ledger)
    /\ PreflightAccepts(ledger, digest, reseed)
    /\ run' = run + 1
    /\ conf' = [digest |-> digest, policy |-> policy, reseed |-> reseed]
    /\ report' = [report EXCEPT !.summary = "running"]
    /\ Go("pre_down")
    /\ UNCHANGED <<ledger, physical, litter, runtime, save, scratch, todo, faults>>

\* ragctl.down: the runtime ends, and with it the save it was running.
PreDown ==
    /\ pc = "pre_down"
    /\ runtime' = FALSE
    /\ save' = NoSave
    /\ Go("up")
    /\ UNCHANGED <<ledger, physical, litter, run, conf, scratch, todo, report, faults>>

Up ==
    /\ pc = "up"
    /\ runtime' = TRUE
    /\ Go("start_trace")
    /\ UNCHANGED <<ledger, physical, litter, save, run, conf, scratch, todo, report, faults>>

\* up() that fails calls down() itself; diagnose_wizard only reports.
UpCleansUp ==
    /\ pc = "up_failed"
    /\ runtime' = FALSE
    /\ save' = NoSave
    /\ Stop("failed")
    /\ UNCHANGED <<ledger, physical, litter, run, conf, faults>>

\* The last down runs whether the diagnostic passed or failed.
PostDown ==
    /\ pc = "post_down"
    /\ runtime' = FALSE
    /\ save' = NoSave
    /\ Stop(IF report.phase = "passed" THEN "succeeded" ELSE "failed")
    /\ UNCHANGED <<ledger, physical, litter, run, conf, faults>>

------------------------------------------------------------------------------
(* The trace session and the scratch wizards.                               *)

StartTrace ==
    /\ pc = "start_trace"
    /\ report' = [report EXCEPT !.traced = TRUE]
    /\ Go("first_membership")
    /\ UNCHANGED <<ledger, physical, litter, runtime, save, run, conf, scratch, todo, faults>>

\* delete_trace in the finally of run_wizard_phase_1c; a failure is a note.
DeleteTrace ==
    /\ pc = "delete_trace"
    /\ report' = [report EXCEPT !.traced = FALSE]
    /\ Go("post_down")
    /\ UNCHANGED <<ledger, physical, litter, runtime, save, run, conf, scratch, todo, faults>>

\* validate_membership before anything is created or deleted.
CheckMembership(step, next) ==
    /\ pc = step
    /\ Go(IF MembershipValid(ledger, physical, litter # {}) THEN next ELSE "failed")
    /\ UNCHANGED <<ledger, physical, litter, runtime, save, run, conf, scratch, todo, report, faults>>

FirstMembership == CheckMembership("first_membership", "scratch")

\* run_scratch_diagnostic creates three wizards, in this order, and saves into
\* each; chunks of the other user are out of the reach of the inventory.
ScratchStep ==
    /\ pc = "scratch"
    /\ Len(scratch) < 3
    /\ LET s == Scratch[Len(scratch) + 1]
       IN  /\ scratch' = Append(scratch, s)
           /\ litter' = litter \cup ({s} \ {"other"})
    /\ UNCHANGED <<ledger, physical, runtime, save, pc, run, conf, todo, report, faults>>

ScratchPassed ==
    /\ pc = "scratch"
    /\ Len(scratch) = 3
    /\ Go("scratch_delete")
    /\ UNCHANGED <<ledger, physical, litter, runtime, save, run, conf, scratch, todo, report, faults>>

\* _delete_scratch: in reverse order, going on after an error; todo, empty
\* until then, remembers that something failed.
ScratchDelete(deleted) ==
    /\ pc = "scratch_delete"
    /\ scratch # <<>>
    /\ deleted \/ faults < MaxFaults
    /\ faults' = IF deleted THEN faults ELSE faults + 1
    /\ litter' = IF deleted THEN litter \ {Last(scratch)} ELSE litter
    /\ todo' = IF deleted THEN todo ELSE <<"error">>
    /\ scratch' = Front(scratch)
    /\ UNCHANGED <<ledger, physical, runtime, save, pc, run, conf, report>>

ScratchDeleted ==
    /\ pc = "scratch_delete"
    /\ scratch = <<>>
    /\ Go(IF todo = <<>> THEN "membership" ELSE "failed")
    /\ todo' = <<>>
    /\ UNCHANGED <<ledger, physical, litter, runtime, save, run, conf, scratch, report, faults>>

------------------------------------------------------------------------------
(* _cleanup_pending and CorpusStorage.delete_document.                      *)

Pending(c) == [gen |-> ledger.pending.gen, collection |-> c]
\* The documents of the pending generation, in the order they were recorded.
PendingOrder == SubSeq(<<"knowledge", "policy">>, 1, Cardinality(Recorded(ledger.pending)))

\* The first validation of ensure_persistent_corpus, and the state of a user
\* who has none; otherwise the one of _cleanup_pending, over the same facts.
EnterCleanup ==
    /\ pc = "membership"
    /\ IF ~MembershipValid(ledger, physical, litter # {})
       THEN Go("failed") /\ UNCHANGED <<ledger, todo>>
       ELSE IF ~ledger.exists
       THEN Go("decide") /\ ledger' = NewState /\ UNCHANGED todo
       ELSE /\ Go(IF ledger.pending = NoGeneration THEN "retire_cleanup"
                  ELSE "retire_pending")
            /\ todo' = IF ledger.pending = NoGeneration THEN <<>> ELSE PendingOrder
            /\ UNCHANGED ledger
    /\ UNCHANGED <<physical, litter, runtime, save, run, conf, scratch, report, faults>>

\* One confirmed batch of delete_chunks.
DeleteBatch(d, chunk) ==
    /\ chunk \in physical[d]
    /\ physical' = [physical EXCEPT ![d] = @ \ {chunk}]
    /\ UNCHANGED <<ledger, litter, runtime, save, clientVars, faults>>

DeletePendingBatch(chunk) ==
    /\ pc = "retire_pending"
    /\ todo # <<>>
    /\ DeleteBatch(Pending(Head(todo)), chunk)

\* Slip: no rescan after the last confirmed batch.
FaultPendingDocumentGone ==
    /\ pc = "retire_pending"
    /\ todo # <<>>
    /\ todo' = Tail(todo)
    /\ UNCHANGED <<ledger, physical, litter, runtime, save, pc, run, conf, scratch, report, faults>>

\* The rescan found the document gone: on to the next.
PendingDocumentGone ==
    /\ pc = "retire_pending"
    /\ todo # <<>>
    /\ physical[Pending(Head(todo))] = {}
    /\ todo' = Tail(todo)
    /\ UNCHANGED <<ledger, physical, litter, runtime, save, pc, run, conf, scratch, report, faults>>

\* The pending generation is forgotten once all its documents are deleted.
DiscardRetired ==
    /\ pc = "retire_pending"
    /\ todo = <<>>
    /\ ledger' = DiscardPending(ledger)
    /\ Go("retire_cleanup")
    /\ UNCHANGED <<physical, litter, runtime, save, run, conf, scratch, todo, report, faults>>

DeleteCleanupBatch(chunk) ==
    /\ pc = "retire_cleanup"
    /\ ledger.cleanup # <<>>
    /\ DeleteBatch(Head(ledger.cleanup).doc, chunk)

CleanupDocumentGone ==
    /\ pc = "retire_cleanup"
    /\ ledger.cleanup # <<>>
    /\ physical[Head(ledger.cleanup).doc] = {}
    /\ ledger' = RemoveCleanup(ledger, Head(ledger.cleanup).doc)
    /\ UNCHANGED <<physical, litter, runtime, save, clientVars, faults>>

\* The closing validation; a run that has just promoted goes on to verify.
CleanedUp ==
    /\ pc = "retire_cleanup"
    /\ ledger.cleanup = <<>>
    /\ Go(IF ~MembershipValid(ledger, physical, litter # {}) THEN "failed"
          ELSE IF ledger.active.gen = run THEN "final" ELSE "decide")
    /\ UNCHANGED <<ledger, physical, litter, runtime, save, run, conf, scratch, todo, report, faults>>

------------------------------------------------------------------------------
(* Reuse.                                                                   *)

\* _verify_generation: every document holds exactly its recorded chunks.
GenerationStored(g) ==
    \A c \in Collections : /\ g.docs[c].status = "saved"
                           /\ physical[[gen |-> g.gen, collection |-> c]] = g.docs[c].chunks

Reuse ==
    /\ pc = "decide"
    /\ ledger.active # NoGeneration /\ ~conf.reseed
    /\ IF ledger.active.digest = conf.digest /\ GenerationStored(ledger.active)
       THEN /\ ledger' = RecordPolicy(ledger, conf.policy)
            /\ report' = [report EXCEPT !.phase = "passed"]
            /\ Go("delete_trace")
       ELSE /\ Go("failed")
            /\ UNCHANGED <<ledger, report>>
    /\ UNCHANGED <<physical, litter, runtime, save, run, conf, scratch, todo, faults>>

------------------------------------------------------------------------------
(* Replacement.                                                             *)

BeginGeneration ==
    /\ pc = "decide"
    /\ ledger.active = NoGeneration \/ conf.reseed
    /\ CanBegin(ledger)
    /\ ledger' = BeginReplacement(ledger, run, conf.digest, conf.policy)
    /\ todo' = <<"knowledge", "policy">>
    /\ Go("create")
    /\ UNCHANGED <<physical, litter, runtime, save, run, conf, scratch, report, faults>>

Record(status, chunks, next) ==
    /\ CanRecord(ledger, Head(todo), status)
    /\ ledger' = RecordDocument(ledger, Head(todo), status, chunks)
    /\ Go(next)

\* api.create, and the wizard recorded.  A wizard nobody recorded has no chunks.
CreateDocument ==
    /\ pc = "create"
    /\ todo # <<>>
    /\ Record("created", {}, "upload")
    /\ UNCHANGED <<physical, litter, runtime, save, run, conf, scratch, todo, report, faults>>

\* _upload_fixture_batches leaves storage alone; then save_submitting is
\* recorded before the request that may start a save.
UploadDocument ==
    /\ pc = "upload"
    /\ Record("save_submitting", {}, "submit")
    /\ UNCHANGED <<physical, litter, runtime, save, run, conf, scratch, todo, report, faults>>

Submit ==
    /\ pc = "submit"
    /\ save' = [doc |-> Doc(Head(todo)), status |-> "running", left |-> Chunks]
    /\ Go("submitted")
    /\ UNCHANGED <<ledger, physical, litter, runtime, run, conf, scratch, todo, report, faults>>

RecordSubmitted ==
    /\ pc = "submitted"
    /\ Record("save_submitted", {}, "poll")
    /\ UNCHANGED <<physical, litter, runtime, save, run, conf, scratch, todo, report, faults>>

\* poll_task: the task ended, or TASK_TIMEOUT_SECONDS went by.
Poll ==
    /\ pc = "poll"
    /\ Go(IF save.status = "succeeded" THEN "postcondition" ELSE "failed")
    /\ UNCHANGED <<ledger, physical, litter, runtime, save, run, conf, scratch, todo, report, faults>>

\* _verify_save_postcondition and inspect_document, then saved is recorded.
RecordSaved ==
    /\ pc = "postcondition"
    /\ IF physical[Doc(Head(todo))] = {}
       THEN Go("failed") /\ UNCHANGED <<ledger, todo>>
       ELSE /\ Record("saved", physical[Doc(Head(todo))],
                      IF Len(todo) = 1 THEN "verify_replacement" ELSE "create")
            /\ todo' = Tail(todo)
    /\ UNCHANGED <<physical, litter, runtime, save, run, conf, scratch, report, faults>>

\* The two documents are verified as one generation before it is marked.
VerifyReplacement ==
    /\ pc = "verify_replacement"
    /\ IF /\ GenerationStored(ledger.pending)
          /\ MembershipValid(ledger, physical, litter # {})
       THEN /\ CanVerify(ledger)
            /\ ledger' = MarkVerified(ledger)
            /\ Go("promote")
       ELSE Go("failed") /\ UNCHANGED ledger
    /\ UNCHANGED <<physical, litter, runtime, save, run, conf, scratch, todo, report, faults>>

\* Promoted, the replaced generation is retired by the same loop.
Promote ==
    /\ pc = "promote"
    /\ CanPromote(ledger)
    /\ ledger' = PromoteReplacement(ledger)
    /\ Go("retire_cleanup")
    /\ UNCHANGED <<physical, litter, runtime, save, run, conf, scratch, todo, report, faults>>

FinalVerify ==
    /\ pc = "final"
    /\ IF GenerationStored(ledger.active)
       THEN Go("delete_trace") /\ report' = [report EXCEPT !.phase = "passed"]
       ELSE Go("failed") /\ UNCHANGED report
    /\ UNCHANGED <<ledger, physical, litter, runtime, save, run, conf, scratch, todo, faults>>

------------------------------------------------------------------------------
(* The save of the backend, and what may go wrong.                          *)

\* Chunk by chunk.  A failed save compensates, not always completely.
SaveChunk(chunk) ==
    /\ runtime
    /\ save.status = "running" /\ chunk \in save.left
    /\ physical' = [physical EXCEPT ![save.doc] = @ \cup {chunk}]
    /\ save' = [save EXCEPT !.left = @ \ {chunk},
                            !.status = IF save.left = {chunk} THEN "succeeded" ELSE @]
    /\ UNCHANGED <<ledger, litter, runtime, clientVars, faults>>

SaveFails(kept) ==
    /\ runtime
    /\ save.status = "running"
    /\ faults < MaxFaults
    /\ faults' = faults + 1
    /\ kept \subseteq physical[save.doc]
    /\ physical' = [physical EXCEPT ![save.doc] = kept]
    /\ save' = [save EXCEPT !.status = "failed"]
    /\ UNCHANGED <<ledger, litter, runtime, clientVars>>

\* Where a failure of a step leads.  A failed first down ends the run with the
\* deployment as it was; a failure among scratch wizards still deletes them.
AfterFailure ==
    CASE pc \in {"pre_down", "up_failed", "post_down"} -> "idle"
      [] pc = "up" -> "up_failed"
      [] pc = "start_trace" -> "post_down"
      [] pc = "scratch" -> "scratch_delete"
      [] pc = "delete_trace" -> "post_down"
      [] OTHER -> "delete_trace"

StepFails ==
    /\ pc \notin {"idle", "failed", "scratch_delete"}
    /\ faults < MaxFaults
    /\ faults' = faults + 1
    /\ IF AfterFailure = "idle" THEN Stop("failed")
       ELSE /\ Go(AfterFailure)
            /\ todo' = IF pc = "scratch" THEN <<"error">> ELSE <<>>
            /\ report' = [Failing EXCEPT !.traced = @ /\ AfterFailure # "post_down"]
            /\ UNCHANGED scratch
    /\ UNCHANGED <<ledger, physical, litter, runtime, save, run, conf>>

\* A check of the client failed: the run goes straight to its cleanup.
CheckFailed ==
    /\ pc = "failed"
    /\ Go("delete_trace")
    /\ todo' = <<>>
    /\ report' = Failing
    /\ UNCHANGED <<ledger, physical, litter, runtime, save, run, conf, scratch, faults>>

\* The process is killed: no finally runs and the deployment stays as it is.
Killed ==
    /\ pc # "idle"
    /\ faults < MaxFaults
    /\ faults' = faults + 1
    /\ Stop(report.summary)
    /\ UNCHANGED <<ledger, physical, litter, runtime, save, run, conf>>

ClientStep ==
    \/ PreDown \/ Up \/ UpCleansUp \/ PostDown \/ StartTrace \/ DeleteTrace
    \/ FirstMembership \/ ScratchStep \/ ScratchPassed \/ ScratchDeleted
    \/ \E deleted \in BOOLEAN : ScratchDelete(deleted)
    \/ EnterCleanup \/ PendingDocumentGone \/ DiscardRetired
    \/ CleanupDocumentGone \/ CleanedUp
    \/ \E chunk \in Chunks : DeletePendingBatch(chunk) \/ DeleteCleanupBatch(chunk)
    \/ Reuse \/ BeginGeneration \/ CreateDocument \/ UploadDocument \/ Submit
    \/ RecordSubmitted \/ Poll \/ RecordSaved \/ VerifyReplacement \/ Promote
    \/ FinalVerify \/ CheckFailed

CorpusNext ==
    \/ \E digest \in Digests, policy \in Policies, reseed \in BOOLEAN :
         Begin(digest, policy, reseed)
    \/ ClientStep
    \/ \E chunk \in Chunks : SaveChunk(chunk)
    \/ \E kept \in SUBSET Chunks : SaveFails(kept)
    \/ StepFails
    \/ Killed

CorpusSpec == CorpusInit /\ [][CorpusNext]_corpusVars

------------------------------------------------------------------------------
(* Properties.                                                              *)

\* Whatever fails and whenever the client is killed, the documents of the
\* active generation keep exactly their recorded chunks: a replaced corpus is
\* retired only after promotion (wizard_diagnostic_api.py:2617-2619).
ActiveIntact ==
    ledger.active # NoGeneration => GenerationStored(ledger.active)

\* load_corpus_state accepts every file the client ever leaves on disk, so no
\* point of interruption makes the record itself unreadable
\* (wizard_diagnostic.py:825-858).
LedgerLoads == Loadable(ledger)

\* Every chunk of a corpus document belongs to a document the ledger names:
\* a wizard is recorded before its save is submitted, and forgotten only when
\* its chunks are gone (wizard_diagnostic_api.py:2535, 2360).
NoStrayDocuments ==
    \A d \in Document : physical[d] # {} =>
        d \in DocumentsOf(ledger.active) \cup DocumentsOf(ledger.pending)
              \cup CleanupDocuments(ledger)

\* A generation becomes active in one step, complete and verified, and in that
\* step the documents it replaces become pending cleanup (promote_replacement).
PromotionKeepsTrack ==
    [][ledger'.active.gen # ledger.active.gen =>
         /\ GenerationStored(ledger'.active)
         /\ DocumentsOf(ledger.active) \subseteq CleanupDocuments(ledger')
         /\ CleanupDocuments(ledger) \subseteq CleanupDocuments(ledger')]_corpusVars

\* A summary that says succeeded is the truth: nothing failed on the way, the
\* corpus of the fixtures is active and stored, nothing is left to clean up and
\* the deployment is down (ragctl.py:1383-1424).
SucceededMeansInstalled ==
    report.summary = "succeeded" =>
        /\ ~runtime /\ litter = {}
        /\ ledger.active.gen # 0 /\ ledger.active.digest = conf.digest
        /\ GenerationStored(ledger.active)
        /\ ledger.pending = NoGeneration /\ ledger.cleanup = <<>>

\* What the next run would refuse.
Refused == ledger.exists /\ ~MembershipValid(ledger, physical, FALSE)

\* Scratch litter apart, storage and ledger disagree in a way that the next run
\* refuses only inside the deletion of a saved document of an abandoned
\* replacement (validate_physical_membership against _cleanup_pending).
RefusedOnlyAfterPartialDeletion ==
    Refused => \E c \in Recorded(ledger.pending) :
                 /\ ledger.pending.docs[c].status = "saved"
                 /\ physical[Pending(c)] # ledger.pending.docs[c].chunks

\* A run that ended, for whatever reason, can be followed by one that passes
\* the membership validation: deletions are retried on what survived
\* (wizard_diagnostic_api.py:1372).
RetryIsAccepted == pc = "idle" => ~Refused

\* A run is under way.  Every run ends: no wait of the client is unbounded
\* (poll_task's deadline); OperatorCommands says so for all commands.
CorpusBusy == pc # "idle"
=============================================================================
