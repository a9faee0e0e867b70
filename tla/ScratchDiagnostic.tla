------------------------- MODULE ScratchDiagnostic -------------------------
(***************************************************************************)
(* run_scratch_diagnostic of deployment/wizard_diagnostic_api.py: a script *)
(* of requests on three scratch wizards that checks the backend's uploads, *)
(* saves, deletions and isolation, and deletes the wizards in any case.    *)
(*                                                                         *)
(* The question is whether the diagnostic can be believed: the backend has *)
(* at most one defect, and the script must find it, and must find none in  *)
(* a sound backend.                                                        *)
(*                                                                         *)
(* Wizards: "k" and "p" are the diagnostic user's, in the knowledge and    *)
(* policy collections, "o" is the isolation user's.  A chunk is a pair of  *)
(* its paragraph and the save that made it; the text a wizard has is named *)
(* by the save that stored it.                                             *)
(***************************************************************************)
EXTENDS Integers, Sequences, FiniteSets, SequencesExt

CONSTANT ScratchMaxFaults      \* requests that fail, polls that time out

VARIABLES
    defect,         \* [what, where] of the backend
    wizards,        \* wizard -> what the backend holds of it
    tasks,          \* accepted saves and deletions not yet run
    finished,       \* the tasks that ran, in order
    step,           \* position in the script
    known,          \* scratch: wizards to delete, in creation order
    remembered,     \* what the client recorded to compare with
    verdict,        \* of the script, and the wizards whose cleanup failed
    scratchFaults

scratchVars == <<defect, wizards, tasks, finished, step, known, remembered, verdict,
                 scratchFaults>>

Do(do, op, w) == [do |-> do, op |-> op, w |-> w]
Script ==
    <<Do("create", "create", "k"), Do("create", "create", "p"), Do("create", "create", "o"),
      Do("refuse", "list", "k"), Do("refuse", "k_to_p", "k"), Do("refuse", "p_to_k", "p"),
      Do("refuse", "cross_user", "k"), Do("refuse", "invalid_user", "k"),
      Do("refuse", "missing", "k"),
      Do("upload", "unsupported", "k"), Do("upload", "empty", "k"),
      Do("upload", "whitespace", "k"), Do("upload", "invalid_modified", "k"),
      Do("upload", "upload", "k"),
      Do("submit", "save", "k"), Do("refuse", "task_owner", "k"), Do("poll", "save", "k"),
      Do("verify", "save", "k"), Do("remember", "initial", "k"),
      Do("submit", "edit", "k"), Do("poll", "edit", "k"), Do("verify", "edit", "k"),
      Do("partial", "edit", "k"), Do("remember", "before_invalid", "k"),
      Do("refuse", "structural", "k"), Do("submit", "invalid", "k"), Do("poll", "invalid", "k"),
      Do("unchanged", "invalid", "k"),
      Do("submit", "fifo_a", "k"), Do("submit", "fifo_b", "k"),
      Do("poll", "fifo_a", "k"), Do("poll", "fifo_b", "k"), Do("fifo", "fifo_a", "k"),
      Do("verify", "fifo_b", "k"),
      Do("upload", "p_upload", "p"), Do("submit", "p_save", "p"), Do("poll", "p_save", "p"),
      Do("verify", "p_save", "p"),
      Do("upload", "o_upload", "o"), Do("submit", "o_save", "o"), Do("poll", "o_save", "o"),
      Do("verify", "o_save", "o"),
      Do("persisted", "all", "k"), Do("persisted", "all", "p"), Do("persisted", "all", "o"),
      Do("isolated", "all", "k")>>

Changed(op) == CASE op = "save" -> {1, 2} [] op = "edit" -> {2} [] op = "fifo_a" -> {3}
                 [] op = "fifo_b" -> {4} [] op \in {"p_save", "o_save"} -> {1}

Refusals == {"list", "k_to_p", "p_to_k", "cross_user", "invalid_user", "missing", "task_owner",
             "structural"}
Uploads == {"unsupported", "empty", "whitespace", "invalid_modified", "upload", "p_upload"}
Saves == {"save", "edit", "fifo_a", "fifo_b", "p_save"}

\* The defects the script is meant to find, each with the request that shows it.
Defects ==
    {[what |-> "none", where |-> ""], [what |-> "reorders", where |-> "fifo_b"],
     [what |-> "keeps_old", where |-> "edit"], [what |-> "rechunks", where |-> "edit"],
     [what |-> "writes", where |-> "invalid"], [what |-> "loses_all", where |-> "o_save"]}
    \cup [what : {"accepts"}, where : Refusals]
    \cup [what : {"saves", "stores"}, where : Uploads \cup {"o_upload"}]
    \cup [what : {"enqueues", "no_trace"}, where : Uploads]
    \cup [what : {"drops", "no_trace", "fails"}, where : Saves]
    \cup [what : {"strays", "malformed"}, where : Saves \cup {"o_save"}]
    \cup [what : {"keeps_chunks", "still_found", "never_ends"}, where : {"k", "p", "o"}]
    \cup [what : {"keeps_map", "no_trace"}, where : {"k", "p"}]

Bad(what, where) == defect = [what |-> what, where |-> where]

Empty == [present |-> FALSE, text |-> "", map |-> {}, store |-> {}, stray |-> {}]

ScratchInit ==
    /\ defect \in Defects
    /\ wizards = [w \in {"k", "p", "o"} |-> Empty]
    /\ tasks = <<>> /\ finished = <<>>
    /\ step = 1 /\ known = <<>>
    /\ remembered = Empty
    /\ verdict = [script |-> "running", cleanup |-> {}, deleting |-> FALSE]
    /\ scratchFaults = 0

------------------------------------------------------------------------------
(* The backend.  A task runs some time after it was accepted.               *)

SavedWizard(old, op) ==
    LET new == Changed(op) \X {op}
        replaced == IF Bad("rechunks", op) THEN old.map
                    ELSE {c \in old.map : c[1] \in Changed(op)}
        remade == IF Bad("rechunks", op) THEN {<<c[1], op>> : c \in replaced} ELSE {}
        after(chunks) == (chunks \ replaced) \cup new \cup remade
    IN [old EXCEPT
          !.text = op,
          !.map = after(@),
          !.store = CASE Bad("keeps_old", op) -> old.store \cup new
                      [] Bad("drops", op) -> after(old.store) \ {<<Max(Changed(op)), op>>}
                      [] Bad("loses_all", op) -> {}
                      [] OTHER -> after(old.store),
          !.stray = IF Bad("strays", op) THEN new ELSE @]

Applied(task, old) ==
    CASE task.op = "delete" ->
            [old EXCEPT !.present = Bad("still_found", task.w),
                        !.text = "",
                        !.map = IF Bad("keeps_map", task.w) THEN @ ELSE {},
                        !.store = IF Bad("keeps_chunks", task.w) THEN @ ELSE {}]
      [] task.op = "invalid" -> IF Bad("writes", "invalid") THEN [old EXCEPT !.text = "invalid"]
                                ELSE old
      [] OTHER -> IF Bad("fails", task.op) THEN old ELSE SavedWizard(old, task.op)

\* Each user's tasks run one at a time in order of acceptance; a defective queue
\* takes the last.
SameUser(v, w) == (v = "o") = (w = "o")
NextTask(i) ==
    LET mine == {j \in DOMAIN tasks : SameUser(tasks[j].w, tasks[i].w)}
    IN i = IF Bad("reorders", "fifo_b") THEN Max(mine) ELSE Min(mine)
Stuck(i) == tasks[i].op = "delete" /\ Bad("never_ends", tasks[i].w)
Blocked(w) == \E i \in DOMAIN tasks : NextTask(i) /\ Stuck(i) /\ SameUser(tasks[i].w, w)
RunTask ==
    \E i \in DOMAIN tasks :
        /\ NextTask(i) /\ ~Stuck(i)
        /\ wizards' = [wizards EXCEPT ![tasks[i].w] = Applied(tasks[i], @)]
        /\ tasks' = RemoveAt(tasks, i)
        /\ finished' = Append(finished, tasks[i])
        /\ UNCHANGED <<defect, step, known, remembered, verdict, scratchFaults>>

\* The terminal status of a task that ran.
Outcome(task) == IF task.op = "invalid" \/ Bad("fails", task.op) THEN "failed" ELSE "succeeded"

------------------------------------------------------------------------------
(* What the client verifies.                                                *)

\* inspect_document and storage_integrity: every chunk record is well formed.
Intact(w) == \A c \in wizards[w].store : ~Bad("malformed", c[2])
\* validate_trace_evidence: the trace of the operation is complete.
Evidence(op) == ~Bad("no_trace", op)

\* _verify_save_postcondition, which knows the diagnostic user's traces only.
SaveVerified(op, w) ==
    w = "o" \/ /\ Evidence(op)
               /\ wizards[w].text = op
               /\ wizards[w].store # {} /\ Intact(w)
               /\ wizards[w].map = wizards[w].store
               /\ wizards[w].stray = {}

\* Slip: the chunks of the other paragraphs are not compared.
FaultPartialProof(op, w) ==
    LET old == {c \in remembered.store : c[1] \in Changed(op)}
        new == {c \in wizards[w].store : c[1] \in Changed(op)}
    IN /\ remembered.store # old /\ old # {} /\ new # {}
       /\ old \cap new = {}
       /\ old \cap wizards[w].map = {} /\ old \cap wizards[w].store = {}

\* verify_partial_resave_mappings: only the changed paragraph has new chunks,
\* and none of its old ones is left anywhere.
PartialProof(op, w) ==
    LET old == {c \in remembered.store : c[1] \in Changed(op)}
        new == {c \in wizards[w].store : c[1] \in Changed(op)}
    IN /\ remembered.store # old /\ old # {} /\ new # {}
       /\ remembered.store \ old = wizards[w].store \ new
       /\ old \cap new = {}
       /\ old \cap wizards[w].map = {} /\ old \cap wizards[w].store = {}

\* What the client sees of a wizard's saved state: only the diagnostic user's
\* mappings have a checkpoint.
SavedState(held, w) == [held EXCEPT !.map = IF w = "o" THEN {} ELSE @]

\* _delete_scratch after its poll: not found, no chunk, no mapping left.
DeleteVerified(w) ==
    /\ ~wizards[w].present /\ wizards[w].store = {}
    /\ w # "o" => Evidence(w) /\ wizards[w].map = {}

------------------------------------------------------------------------------
(* The script.                                                              *)

Running(do) == verdict.script = "running" /\ step <= Len(Script) /\ Script[step].do = do
Op == Script[step].op
Wizard == Script[step].w

Pass == step' = step + 1 /\ UNCHANGED verdict
Fail == verdict' = [verdict EXCEPT !.script = "failed"] /\ UNCHANGED step
Verdict(ok) == IF ok THEN Pass ELSE Fail
Quiet == UNCHANGED <<defect, tasks, finished, scratchFaults>>
Costs == scratchFaults < ScratchMaxFaults /\ scratchFaults' = scratchFaults + 1

\* The wizard is known for deletion once its identifier was answered.
CreateWizard(answered) ==
    /\ Running("create")
    /\ wizards' = [wizards EXCEPT ![Wizard].present = TRUE]
    /\ IF answered
       THEN Pass /\ known' = Append(known, Wizard) /\ UNCHANGED scratchFaults
       ELSE Fail /\ UNCHANGED known /\ Costs
    /\ UNCHANGED <<defect, tasks, finished, remembered>>

\* expect_error, and the membership of the lists.
ExpectRefusal ==
    /\ Running("refuse")
    /\ Verdict(~Bad("accepts", Op))
    /\ Quiet /\ UNCHANGED <<wizards, known, remembered>>

\* _upload_without_mutation: the saved state, the mappings and the storage are
\* the same before and after, and the trace shows no task.
UploadUnchanged ==
    /\ Running("upload")
    /\ wizards' = [wizards EXCEPT ![Wizard] =
          CASE Bad("saves", Op) -> [@ EXCEPT !.text = Op]
            [] Bad("stores", Op) -> [@ EXCEPT !.store = @ \cup {<<1, Op>>}]
            [] OTHER -> @]
    /\ Verdict(/\ SavedState(wizards'[Wizard], Wizard) = SavedState(wizards[Wizard], Wizard)
               /\ Wizard # "o" => Evidence(Op) /\ ~Bad("enqueues", Op))
    /\ Quiet /\ UNCHANGED <<known, remembered>>

SubmitSave ==
    /\ Running("submit")
    /\ tasks' = Append(tasks, [op |-> Op, w |-> Wizard])
    /\ Pass
    /\ UNCHANGED <<defect, wizards, finished, known, remembered, scratchFaults>>

\* poll_task until a terminal status, which must be the expected one.
PollTask ==
    /\ Running("poll")
    /\ LET task == [op |-> Op, w |-> Wizard]
       IN /\ task \in Range(finished)
          /\ Verdict(Outcome(task) = IF Op = "invalid" THEN "failed" ELSE "succeeded")
    /\ Quiet /\ UNCHANGED <<wizards, known, remembered>>

VerifySave ==
    /\ Running("verify")
    /\ Verdict(SaveVerified(Op, Wizard))
    /\ Quiet /\ UNCHANGED <<wizards, known, remembered>>

Remember ==
    /\ Running("remember")
    /\ remembered' = wizards[Wizard]
    /\ Verdict(Op = "initial" => Cardinality({c[1] : c \in wizards[Wizard].store}) >= 2)
    /\ Quiet /\ UNCHANGED <<wizards, known>>

VerifyPartialResave ==
    /\ Running("partial")
    /\ Verdict(PartialProof(Op, Wizard))
    /\ Quiet /\ UNCHANGED <<wizards, known, remembered>>

FailedSaveUnchanged ==
    /\ Running("unchanged")
    /\ Verdict(Evidence(Op) /\ wizards[Wizard] = remembered)
    /\ Quiet /\ UNCHANGED <<wizards, known, remembered>>

\* The second save started after the first had finished.
VerifyFifo ==
    /\ Running("fifo")
    /\ LET at(op) == CHOOSE i \in DOMAIN finished : finished[i] = [op |-> op, w |-> Wizard]
       IN Verdict(Evidence("fifo_a") /\ at("fifo_a") < at("fifo_b"))
    /\ Quiet /\ UNCHANGED <<wizards, known, remembered>>

VerifyPersisted ==
    /\ Running("persisted")
    /\ Verdict(wizards[Wizard].store # {} /\ Intact(Wizard))
    /\ Quiet /\ UNCHANGED <<wizards, known, remembered>>

VerifyIsolation ==
    /\ Running("isolated")
    /\ Verdict(\A w \in DOMAIN wizards : wizards[w].stray = {})
    /\ Quiet /\ UNCHANGED <<wizards, known, remembered>>

\* Any request may fail, and a poll may time out while its task is pending; an
\* interrupt comes to the same.
RequestFails ==
    /\ verdict.script = "running" /\ step <= Len(Script) /\ Script[step].do # "create"
    /\ Costs /\ Fail
    /\ UNCHANGED <<defect, wizards, tasks, finished, known, remembered>>

ScriptEnds ==
    /\ verdict.script = "running" /\ step > Len(Script)
    /\ verdict' = [verdict EXCEPT !.script = "passed"]
    /\ Quiet /\ UNCHANGED <<wizards, step, known, remembered>>

------------------------------------------------------------------------------
(* _delete_scratch, whatever the verdict: the known wizards in reverse, each *)
(* failure recorded and the next one tried.                                  *)

Cleaning == verdict.script \in {"passed", "failed"} /\ known # <<>>

SubmitDelete ==
    /\ Cleaning /\ ~verdict.deleting
    /\ tasks' = Append(tasks, [op |-> "delete", w |-> Last(known)])
    /\ verdict' = [verdict EXCEPT !.deleting = TRUE]
    /\ UNCHANGED <<defect, wizards, finished, step, known, remembered, scratchFaults>>

Deleted(ok) ==
    /\ known' = Front(known)
    /\ verdict' = [verdict EXCEPT !.deleting = FALSE,
                                  !.cleanup = IF ok THEN @ ELSE @ \cup {Last(known)}]
VerifyDelete ==
    /\ Cleaning /\ verdict.deleting
    /\ [op |-> "delete", w |-> Last(known)] \in Range(finished)
    /\ Deleted(DeleteVerified(Last(known)))
    /\ Quiet /\ UNCHANGED <<wizards, step, remembered>>
DeleteTimesOut ==
    /\ Cleaning /\ verdict.deleting
    /\ [op |-> "delete", w |-> Last(known)] \notin Range(finished)
    /\ IF Blocked(Last(known)) THEN UNCHANGED scratchFaults ELSE Costs
    /\ Deleted(FALSE)
    /\ UNCHANGED <<defect, wizards, tasks, finished, step, remembered>>
DeleteRefused ==
    /\ Cleaning /\ ~verdict.deleting
    /\ Costs
    /\ Deleted(FALSE)
    /\ UNCHANGED <<defect, wizards, tasks, finished, step, remembered>>

ScratchOver == verdict.script \in {"passed", "failed"} /\ known = <<>>
ScratchResult == IF verdict.script = "passed" /\ verdict.cleanup = {} THEN "passed" ELSE "failed"

ScratchClient ==
    \/ \E answered \in BOOLEAN : CreateWizard(answered)
    \/ ExpectRefusal \/ UploadUnchanged \/ SubmitSave \/ PollTask \/ VerifySave
    \/ Remember \/ VerifyPartialResave \/ FailedSaveUnchanged \/ VerifyFifo
    \/ VerifyPersisted \/ VerifyIsolation \/ RequestFails \/ ScriptEnds
    \/ SubmitDelete \/ VerifyDelete \/ DeleteTimesOut \/ DeleteRefused
ScratchRest == ScratchOver /\ UNCHANGED scratchVars
ScratchNext == ScratchClient \/ RunTask \/ ScratchRest
ScratchSpec ==
    ScratchInit /\ [][ScratchNext]_scratchVars
    /\ WF_scratchVars(ScratchClient) /\ WF_scratchVars(RunTask)

------------------------------------------------------------------------------
(* Properties.                                                              *)

\* A diagnostic that passes is not deceived: the backend has none of the
\* defects, wherever the defect shows and whenever the tasks ran.
\* A queue that overtakes shows only when both saves wait in it.
DefectShows ==
    /\ defect.what # "none"
    /\ defect.what = "reorders" =>
          \E i, j \in DOMAIN finished :
              i < j /\ finished[i].op = "fifo_b" /\ finished[j].op = "fifo_a"
PassMeansSound == ScratchOver /\ ScratchResult = "passed" => ~DefectShows

\* It raises no false alarm: a sound backend that answers every request passes.
NoFalseAlarm == ScratchOver /\ defect.what = "none" /\ scratchFaults = 0 => ScratchResult = "passed"

\* Every wizard whose identifier the client learned is gone at the end, or its
\* cleanup failed and the diagnostic fails; its deletion stands in the queue
\* after its saves, so that a save that timed out cannot bring it back.
ScratchCleanedUp ==
    ScratchOver =>
        \A i \in 1..Min({step, 4}) - 1 :
            LET w == Script[i].w
            IN wizards[w].present => w \in verdict.cleanup /\ ScratchResult = "failed"

\* The diagnostic is under way; it ends, with a task that never does and with
\* failing requests.
ScratchBusy == ~ScratchOver
=============================================================================
