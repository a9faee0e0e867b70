--------------------------- MODULE OperatorProofs ---------------------------
(***************************************************************************)
(* The commands of the operator's machine, proved for any number of        *)
(* generations, chunks, clients, queries, kills, timeouts and failed       *)
(* requests.                                                               *)
(*                                                                         *)
(* The corpus of the diagnoses: its record loads, the active generation    *)
(* keeps its chunks, and no chunk is stored that the record does not name. *)
(* The evaluation bridge: one evaluation at a time, and what its end       *)
(* means.  With the invariants of CommandProofs they hold in every         *)
(* behaviour of the operator's machine, where a command that does not run  *)
(* leaves its state alone.                                                 *)
(***************************************************************************)
EXTENDS OperatorCommands, CommandProofs

---------------------------------------------------------------------------
(* The inductive invariant *)

HasActive == ledger.active # NoGeneration
HasPending == ledger.pending # NoGeneration

\* The chunks that are stored of a document of a generation.
Held(g, c) == physical[[gen |-> g.gen, collection |-> c]]

\* The record by itself: what load_corpus_state asks of it, with generations in
\* the order of their runs in place of disjoint ones.
LedgerInv ==
    /\ ~ledger.exists => ledger = NoLedger
    /\ HasActive => /\ GenerationValid(ledger.active)
                    /\ ledger.active.completed /\ ledger.active.verified /\ Saved(ledger.active)
    /\ HasPending => /\ GenerationValid(ledger.pending) /\ ~ledger.pending.completed
                     /\ ledger.active.gen < ledger.pending.gen
                     /\ "policy" \in Recorded(ledger.pending) => "knowledge" \in Recorded(ledger.pending)
    /\ ledger.active.gen <= run /\ ledger.pending.gen <= run
    /\ \A i \in DOMAIN ledger.cleanup : /\ ledger.cleanup[i].chunks # {}
                                        /\ ledger.cleanup[i].doc.gen < ledger.active.gen
    /\ \A i, j \in DOMAIN ledger.cleanup : ledger.cleanup[i].doc = ledger.cleanup[j].doc => i = j

\* The storage, against the record.
StorageInv ==
    /\ HasActive => \A c \in Collections : Held(ledger.active, c) = ledger.active.docs[c].chunks
    /\ HasPending => \A c \in Collections :
          ledger.pending.docs[c].status \in {"absent", "created"} => Held(ledger.pending, c) = {}
    /\ \A i \in DOMAIN ledger.cleanup : physical[ledger.cleanup[i].doc] \subseteq ledger.cleanup[i].chunks
    /\ \A d \in Document : physical[d] # {} =>
          \/ d.gen = ledger.active.gen \/ d.gen = ledger.pending.gen
          \/ \E i \in DOMAIN ledger.cleanup : d = ledger.cleanup[i].doc

\* A save that runs is of a document of the pending generation whose save was
\* recorded before it was submitted, and the client does not retire that generation.
SaveInv ==
    save.status = "running" =>
        /\ pc \in {"idle", "pre_down", "submitted", "poll", "failed", "delete_trace", "post_down"}
        /\ HasPending
        /\ \E c \in Collections :
              /\ save.doc = [gen |-> ledger.pending.gen, collection |-> c]
              /\ ledger.pending.docs[c].status \in {"save_submitting", "save_submitted"}

Fresh == {"pre_down", "up", "up_failed", "start_trace", "first_membership", "scratch",
          "scratch_delete", "membership", "retire_pending", "decide"}
Recording == {"create", "upload", "submit", "submitted", "poll", "postcondition"}
Seeding == Recording \cup {"verify_replacement", "promote"}
Orders == {<<>>, <<"knowledge">>, <<"policy">>, <<"knowledge", "policy">>}

\* Where the client is, and what it knows there.
StageInv ==
    /\ pc # "idle" => run \in Generations
    /\ pc \in Fresh => ledger.active.gen < run /\ ledger.pending.gen < run
    /\ pc \in Seeding \cup {"retire_pending", "retire_cleanup", "decide", "final"} => litter = {}
    /\ pc \in {"retire_cleanup", "decide", "final"} => ~HasPending
    /\ pc \in {"retire_cleanup", "decide"} => ledger.exists
    /\ pc \in Seeding \cup {"decide", "final"} => ledger.cleanup = <<>>
    /\ pc \in Seeding => HasPending /\ ledger.pending.gen = run
    /\ pc \in Recording => /\ todo \in {<<"policy">>, <<"knowledge", "policy">>}
                           /\ todo = <<"policy">> => "knowledge" \in Recorded(ledger.pending)
    /\ pc = "submit" => ledger.pending.docs[Head(todo)].status = "save_submitting"
    /\ pc = "promote" => ledger.pending.verified /\ GenerationStored(ledger.pending)
    /\ pc = "final" => ledger.active.gen = run
    /\ pc = "retire_pending" =>
          /\ HasPending /\ todo \in Orders
          /\ \A c \in Collections : c \in ToSet(todo) \/ Held(ledger.pending, c) = {}

\* The corpus of the fixtures is active, and nothing is left to do.
Installed ==
    /\ litter = {} /\ HasActive /\ ledger.active.digest = conf.digest
    /\ ~HasPending /\ ledger.cleanup = <<>>

\* What the run made has its fixtures; and who says passed has the corpus installed.
OutcomeInv ==
    /\ HasActive /\ ledger.active.gen = run => ledger.active.digest = conf.digest
    /\ HasPending /\ ledger.pending.gen = run => ledger.pending.digest = conf.digest
    /\ report.phase = "passed" => pc \in {"delete_trace", "post_down"} /\ Installed
    /\ report.summary = "succeeded" => pc = "idle" /\ ~runtime /\ Installed

SaveTasks == [doc : Document \cup {<<>>}, status : {"none", "running", "succeeded", "failed"},
          left : SUBSET Chunks]

CorpusInv ==
    /\ CorpusTypeOK /\ save \in SaveTasks
    /\ LedgerInv /\ StorageInv /\ SaveInv /\ StageInv /\ OutcomeInv
---------------------------------------------------------------------------
(* Steps that leave the record and the storage alone *)

\* What the types say of the record, field by field.
LEMMA LedgerFields ==
  ASSUME CorpusTypeOK
  PROVE  /\ ledger.active \in Generation \cup {NoGeneration} /\ ledger.pending \in Generation \cup {NoGeneration}
         /\ ledger.exists \in BOOLEAN /\ ledger.cleanup \in Seq(Retired)
         /\ run \in Nat /\ ledger.active.gen \in Nat /\ ledger.pending.gen \in Nat
         /\ (HasActive => ledger.active \in Generation /\ ledger.active.gen \in Generations)
         /\ (HasPending => ledger.pending \in Generation /\ ledger.pending.gen \in Generations)
         /\ (~HasActive => ledger.active.gen = 0) /\ (~HasPending => ledger.pending.gen = 0)
         /\ (HasActive => ledger.active.gen # 0) /\ (HasPending => ledger.pending.gen # 0)
<1>1. ledger \in Ledger /\ run \in Generations \cup {0}
  BY DEF CorpusTypeOK
<1>2. \A g \in Generation : g.gen \in Generations
  BY DEF Generation
<1>3. Generations \subseteq Nat /\ 0 \notin Generations
  BY GenerationsAssumption
<1>4. NoGeneration.gen = 0
  BY DEF NoGeneration
<1>5. ledger.active \in Generation \cup {NoGeneration} /\ ledger.pending \in Generation \cup {NoGeneration}
      /\ ledger.exists \in BOOLEAN /\ ledger.cleanup \in Seq(Retired)
  BY <1>1 DEF Ledger
<1>6. \A g \in Generation \cup {NoGeneration} :
         /\ g.gen \in Nat
         /\ g # NoGeneration => g \in Generation /\ g.gen \in Generations /\ g.gen # 0
         /\ g = NoGeneration => g.gen = 0
  <2>1. TAKE g \in Generation \cup {NoGeneration}
  <2>2. CASE g = NoGeneration
    BY <1>4, <2>2
  <2>3. CASE g # NoGeneration
    BY <1>2, <1>3, <2>1, <2>3
  <2> QED
    BY <2>2, <2>3
<1>7. run \in Nat
  BY <1>1, <1>3
<1> QED
  BY <1>5, <1>6, <1>7 DEF HasActive, HasPending

\* The replaced documents that are still to be deleted.
LEMMA CleanupFields ==
  ASSUME CorpusTypeOK
  PROVE  \A i \in DOMAIN ledger.cleanup :
           /\ ledger.cleanup[i] \in Retired /\ ledger.cleanup[i].doc \in Document
           /\ ledger.cleanup[i].doc.gen \in Nat /\ ledger.cleanup[i].chunks \in SUBSET Chunks
<1>1. PICK s \in Seq(Retired) : s = ledger.cleanup
  BY LedgerFields
<1>2. \A i \in DOMAIN s : s[i] \in Retired
  OBVIOUS
<1>3. \A r \in Retired : r.doc \in Document /\ r.doc.gen \in Nat /\ r.chunks \in SUBSET Chunks
  BY GenerationsAssumption DEF Retired, Document
<1> QED
  BY <1>1, <1>2, <1>3

\* A document of a generation is a document.
LEMMA DocumentNamed ==
  ASSUME NEW g \in Generations, NEW c \in Collections
  PROVE  [gen |-> g, collection |-> c] \in Document
BY DEF Document

\* A step that changes neither record nor storage, and at most counts up the run.
LEMMA NothingRecorded ==
  ASSUME CorpusInv, UNCHANGED <<ledger, physical>>, run' = run \/ run' = run + 1
  PROVE  LedgerInv' /\ StorageInv'
<1>1. LedgerInv'
  <2>1. ledger.active.gen <= run' /\ ledger.pending.gen <= run'
    BY LedgerFields DEF CorpusInv, LedgerInv
  <2>2. LedgerInv /\ ledger' = ledger
    BY DEF CorpusInv
  <2> QED
    BY <2>1, <2>2 DEF LedgerInv, HasActive, HasPending
<1>2. StorageInv'
  BY DEF CorpusInv, StorageInv, HasActive, HasPending, Held
<1> QED
  BY <1>1, <1>2

\* The scratch wizards that there are.
LEMMA ScratchLists ==
  \A s : (\E n \in 0..3 : s = SubSeq(Scratch, 1, n))
         <=> s \in {<<>>, <<"knowledge">>, <<"knowledge", "policy">>, <<"knowledge", "policy", "other">>}
<1>1. \A n \in 0..3 : n = 0 \/ n = 1 \/ n = 2 \/ n = 3
  OBVIOUS
<1> DEFINE Names == {"knowledge", "policy", "other"}
<1>2. PICK s : s = Scratch
  OBVIOUS
<1>3. s \in Seq(Names) /\ Len(s) = 3 /\ s[1] = "knowledge" /\ s[2] = "policy" /\ s[3] = "other"
  <2>1. s = <<"knowledge", "policy", "other">>
    BY <1>2 DEF Scratch
  <2>2. s \in Seq(Names)
    BY <2>1
  <2>3. Len(s) = 3
    BY <2>1
  <2> QED
    BY <2>1, <2>2, <2>3
<1>4. \A n \in 0..3 : /\ SubSeq(s, 1, n) \in Seq(Names) /\ Len(SubSeq(s, 1, n)) = n
                      /\ \A i \in 1..n : SubSeq(s, 1, n)[i] = s[i]
  BY <1>3
<1>5. /\ SubSeq(Scratch, 1, 0) = <<>>
      /\ SubSeq(Scratch, 1, 1) = <<"knowledge">>
      /\ SubSeq(Scratch, 1, 2) = <<"knowledge", "policy">>
      /\ SubSeq(Scratch, 1, 3) = <<"knowledge", "policy", "other">>
  <2>1. PICK x, y, z : x = SubSeq(s, 1, 1) /\ y = SubSeq(s, 1, 2) /\ z = SubSeq(s, 1, 3)
    OBVIOUS
  <2>2. x \in Seq(Names) /\ Len(x) = 1 /\ x[1] = "knowledge"
    BY <1>3, <1>4, <2>1
  <2>3. y \in Seq(Names) /\ Len(y) = 2 /\ y[1] = "knowledge" /\ y[2] = "policy"
    BY <1>3, <1>4, <2>1
  <2>4. z \in Seq(Names) /\ Len(z) = 3 /\ z[1] = "knowledge" /\ z[2] = "policy" /\ z[3] = "other"
    BY <1>3, <1>4, <2>1
  <2>5. x = <<"knowledge">>
    BY <2>2
  <2>6. y = <<"knowledge", "policy">>
    BY <2>3
  <2>7. z = <<"knowledge", "policy", "other">>
    BY <2>4
  <2>8. SubSeq(s, 1, 0) = <<>>
    BY <1>3
  <2> QED
    BY <1>2, <2>1, <2>5, <2>6, <2>7, <2>8
<1>6. 0 \in 0..3 /\ 1 \in 0..3 /\ 2 \in 0..3 /\ 3 \in 0..3
  OBVIOUS
<1> QED
  BY <1>1, <1>2, <1>3, <1>4, <1>5, <1>6
---------------------------------------------------------------------------
(* The remaining steps that leave the record and the storage alone *)

\* One scratch wizard more, and one less.
LEMMA ScratchSteps ==
  /\ Append(<<>>, "knowledge") = <<"knowledge">>
  /\ Append(<<"knowledge">>, "policy") = <<"knowledge", "policy">>
  /\ Append(<<"knowledge", "policy">>, "other") = <<"knowledge", "policy", "other">>
  /\ Front(<<"knowledge">>) = <<>>
  /\ Front(<<"knowledge", "policy">>) = <<"knowledge">>
  /\ Front(<<"knowledge", "policy", "other">>) = <<"knowledge", "policy">>
<1> DEFINE Names == {"knowledge", "policy", "other"}
<1>1. PICK s, t, w : /\ s = <<"knowledge">> /\ t = <<"knowledge", "policy">>
                     /\ w = <<"knowledge", "policy", "other">>
  OBVIOUS
<1>2. /\ s \in Seq(Names) /\ Len(s) = 1 /\ s[1] = "knowledge"
      /\ t \in Seq(Names) /\ Len(t) = 2 /\ t[1] = "knowledge" /\ t[2] = "policy"
  BY <1>1
<1>3. w \in Seq(Names) /\ Len(w) = 3 /\ w[1] = "knowledge" /\ w[2] = "policy" /\ w[3] = "other"
  BY <1>1
<1>4. Append(<<>>, "knowledge") = <<"knowledge">>
  OBVIOUS
<1>0. \A q \in Seq(Names), x \in Names :
         /\ Append(q, x) \in Seq(Names) /\ Len(Append(q, x)) = Len(q) + 1
         /\ Append(q, x)[Len(q) + 1] = x /\ \A i \in 1..Len(q) : Append(q, x)[i] = q[i]
  OBVIOUS
<1>5. Append(s, "policy") = t
  <2>1. PICK x : x = Append(s, "policy")
    OBVIOUS
  <2>2. x \in Seq(Names) /\ Len(x) = 2 /\ x[1] = "knowledge" /\ x[2] = "policy"
    BY <1>0, <1>2, <2>1
  <2>3. x = t
    BY <1>2, <2>2
  <2> QED
    BY <2>1, <2>3
<1>6. Append(t, "other") = w
  <2>1. PICK x : x = Append(t, "other")
    OBVIOUS
  <2>2. x \in Seq(Names) /\ Len(x) = 3 /\ x[1] = "knowledge" /\ x[2] = "policy" /\ x[3] = "other"
    <3>0. Len(t) + 1 = 3 /\ "other" \in Names /\ t \in Seq(Names)
      BY <1>2
    <3>1. Len(x) = 3 /\ x \in Seq(Names) /\ x[3] = "other"
      BY <1>0, <2>1, <3>0
    <3>2. \A i \in 1..2 : x[i] = t[i]
      BY <1>0, <1>2, <2>1
    <3>3. x[1] = t[1] /\ x[2] = t[2]
      BY <3>2
    <3> QED
      BY <1>2, <3>1, <3>3
  <2>3. x = w
    BY <1>3, <2>2
  <2> QED
    BY <2>1, <2>3
<1>7. \A x \in Seq(Names) : Front(x) = SubSeq(x, 1, Len(x) - 1)
  BY DEF Front
<1>8. Front(s) = <<>>
  BY <1>2, <1>7
<1>9. Front(t) = s
  <2>1. PICK x : x = SubSeq(t, 1, 1)
    OBVIOUS
  <2>2. x \in Seq(Names) /\ Len(x) = 1 /\ x[1] = "knowledge"
    BY <1>2, <2>1
  <2>3. x = s
    BY <1>2, <2>2
  <2>4. Len(t) - 1 = 1
    BY <1>2
  <2>5. Front(t) = x
    BY <1>2, <1>7, <2>1, <2>4
  <2> QED
    BY <2>3, <2>5
<1>10. Front(w) = t
  <2>1. PICK x : x = SubSeq(w, 1, 2)
    OBVIOUS
  <2>2. x \in Seq(Names) /\ Len(x) = 2 /\ x[1] = "knowledge" /\ x[2] = "policy"
    BY <1>3, <2>1
  <2>3. x = t
    BY <1>2, <2>2
  <2>4. Front(w) = x
    BY <1>3, <1>7, <2>1
  <2> QED
    BY <2>3, <2>4
<1> QED
  BY <1>1, <1>4, <1>5, <1>6, <1>8, <1>9, <1>10

\* A fault is one of those a behaviour has left.
LEMMA OneFault ==
  CorpusTypeOK /\ faults < MaxFaults => faults + 1 \in 0..MaxFaults
BY FaultsAssumption DEF CorpusTypeOK

\* The run begins.
LEMMA BeginKeeps ==
  ASSUME NEW digest \in Digests, NEW policy \in Policies, NEW reseed \in BOOLEAN,
         CorpusInv, Begin(digest, policy, reseed)
  PROVE  CorpusInv'
<1>1. CorpusTypeOK' /\ save' \in SaveTasks
  BY DEF CorpusInv, CorpusTypeOK, SaveTasks, ClientStates, Begin, Go
<1>2. LedgerInv' /\ StorageInv'
  BY NothingRecorded DEF Begin
<1>3. SaveInv'
  BY DEF CorpusInv, SaveInv, HasPending, Begin, Go
<1>4. ledger.active.gen < run' /\ ledger.pending.gen < run'
  BY LedgerFields DEF CorpusInv, LedgerInv, Begin
<1>5. StageInv'
  BY <1>4 DEF StageInv, Fresh, Recording, Seeding, Begin, Go
<1>6. OutcomeInv'
  <2>1. /\ report'.phase = report.phase /\ report'.summary = "running" /\ pc = "idle"
        /\ ledger' = ledger
    BY DEF CorpusInv, CorpusTypeOK, Begin
  <2>2. report.phase # "passed"
    BY <2>1 DEF CorpusInv, OutcomeInv
  <2>3. ledger.active.gen # run' /\ ledger.pending.gen # run'
    BY <1>4, LedgerFields DEF CorpusInv
  <2> QED
    BY <2>1, <2>2, <2>3 DEF OutcomeInv, HasActive, HasPending
<1> QED
  BY <1>1, <1>2, <1>3, <1>5, <1>6 DEF CorpusInv

\* A scratch wizard is deleted, or is not.
LEMMA ScratchDeleteKeeps ==
  ASSUME NEW deleted \in BOOLEAN, CorpusInv, ScratchDelete(deleted)
  PROVE  CorpusInv'
<1>1. \E n \in 0..3 : scratch' = SubSeq(Scratch, 1, n)
  <2>1. scratch \in {<<"knowledge">>, <<"knowledge", "policy">>, <<"knowledge", "policy", "other">>}
    BY ScratchLists DEF CorpusInv, CorpusTypeOK, ScratchDelete
  <2>2. scratch' = Front(scratch)
    BY DEF ScratchDelete
  <2>3. scratch' \in {<<>>, <<"knowledge">>, <<"knowledge", "policy">>}
    BY <2>1, <2>2, ScratchSteps
  <2> QED
    BY <2>3, ScratchLists
<1>2. faults' \in 0..MaxFaults
  BY OneFault DEF ScratchDelete, CorpusInv, CorpusTypeOK
<1>3. litter' \in SUBSET {"knowledge", "policy"}
  BY DEF ScratchDelete, CorpusInv, CorpusTypeOK
<1>4. UNCHANGED <<ledger, physical, runtime, save, pc, run, conf, report>> /\ pc = "scratch_delete"
  BY DEF ScratchDelete
<1>5. CorpusTypeOK' /\ save' \in SaveTasks
  BY <1>1, <1>2, <1>3, <1>4 DEF CorpusInv, CorpusTypeOK
<1>6. LedgerInv' /\ StorageInv'
  BY <1>4, NothingRecorded
<1>7. SaveInv'
  BY <1>4 DEF CorpusInv, SaveInv, HasPending
<1>8. StageInv'
  BY <1>4 DEF CorpusInv, StageInv, Fresh, Recording, Seeding
<1>9. OutcomeInv'
  BY <1>4 DEF CorpusInv, OutcomeInv, Installed, HasActive, HasPending
<1> QED
  BY <1>5, <1>6, <1>7, <1>8, <1>9 DEF CorpusInv

\* A step of the client fails.
LEMMA StepFailsKeeps == CorpusInv /\ StepFails => CorpusInv'
<1> SUFFICES ASSUME CorpusInv, StepFails PROVE CorpusInv'
  OBVIOUS
<1>1. /\ pc \in ClientStates \ {"idle", "failed", "scratch_delete"}
      /\ UNCHANGED <<ledger, physical, litter, runtime, save, run, conf>>
  BY DEF StepFails, CorpusInv, CorpusTypeOK
<1>2. /\ pc' \in {"idle", "up_failed", "post_down", "scratch_delete", "delete_trace"}
      /\ pc' = "up_failed" => pc = "up"
      /\ pc' = "scratch_delete" => pc = "scratch"
      /\ report'.phase \in {"pending", "failed"}
      /\ report'.summary \in {report.summary, "failed"}
      /\ report' \in [traced : BOOLEAN, phase : {"pending", "passed", "failed"},
                      summary : {"none", "running", "failed", "succeeded"}]
      /\ scratch' \in {scratch, <<>>}
  <2>1. CASE pc \in {"pre_down", "up_failed", "post_down"}
    <3>1. AfterFailure = "idle"
      BY <2>1 DEF AfterFailure
    <3>2. /\ pc' = "idle" /\ scratch' = <<>>
          /\ report' = [traced |-> FALSE, phase |-> "pending", summary |-> "failed"]
      BY <3>1 DEF StepFails, Stop, Go
    <3> QED
      BY <3>2
  <2>2. CASE pc \notin {"pre_down", "up_failed", "post_down"}
    <3>1. /\ AfterFailure \in {"up_failed", "post_down", "scratch_delete", "delete_trace"}
          /\ AfterFailure = "up_failed" => pc = "up"
          /\ AfterFailure = "scratch_delete" => pc = "scratch"
      BY <1>1, <2>2 DEF AfterFailure
    <3>2. /\ pc' = AfterFailure /\ scratch' = scratch
          /\ report' = [Failing EXCEPT !.traced = @ /\ AfterFailure # "post_down"]
      BY <3>1 DEF StepFails, Go
    <3>3. PICK was : was = report
      OBVIOUS
    <3>4. /\ was \in [traced : BOOLEAN, phase : {"pending", "passed", "failed"},
                      summary : {"none", "running", "failed", "succeeded"}]
          /\ report' = [[was EXCEPT !.phase = "failed"] EXCEPT !.traced = @ /\ AfterFailure # "post_down"]
      BY <3>2, <3>3 DEF Failing, CorpusInv, CorpusTypeOK
    <3>5. report'.phase = "failed" /\ report'.summary = was.summary
      BY <3>4
    <3>6. report' \in [traced : BOOLEAN, phase : {"pending", "passed", "failed"},
                       summary : {"none", "running", "failed", "succeeded"}]
      BY <3>4, Zenon
    <3> QED
      BY <3>1, <3>2, <3>3, <3>5, <3>6
  <2> QED
    BY <2>1, <2>2
<1>3. \E n \in 0..3 : scratch' = SubSeq(Scratch, 1, n)
  BY <1>2, ScratchLists DEF CorpusInv, CorpusTypeOK
<1>4. faults' \in 0..MaxFaults
  BY OneFault DEF StepFails, CorpusInv
<1>5. CorpusTypeOK' /\ save' \in SaveTasks
  BY <1>1, <1>2, <1>3, <1>4 DEF CorpusInv, CorpusTypeOK, ClientStates
<1>6. LedgerInv' /\ StorageInv'
  BY <1>1, NothingRecorded
<1>7. SaveInv'
  <2>1. save.status = "running" => pc \in {"pre_down", "submitted", "poll", "delete_trace", "post_down"}
    BY <1>1 DEF CorpusInv, SaveInv
  <2>2. pc' \in {"idle", "post_down", "delete_trace"} \/ pc \in {"up", "scratch"}
    BY <1>2
  <2> QED
    BY <1>1, <2>1, <2>2 DEF CorpusInv, SaveInv, HasPending
<1>8. StageInv'
  BY <1>1, <1>2 DEF CorpusInv, StageInv, Fresh, Recording, Seeding
<1>9. OutcomeInv'
  <2>1. report'.phase # "passed" /\ report'.summary # "succeeded"
    BY <1>1, <1>2 DEF CorpusInv, OutcomeInv
  <2> QED
    BY <1>1, <2>1 DEF CorpusInv, OutcomeInv, HasActive, HasPending
<1> QED
  BY <1>5, <1>6, <1>7, <1>8, <1>9 DEF CorpusInv

\* The client is killed.
LEMMA KilledKeeps == CorpusInv /\ Killed => CorpusInv'
<1> SUFFICES ASSUME CorpusInv, Killed PROVE CorpusInv'
  OBVIOUS
<1>1. /\ pc # "idle" /\ pc' = "idle" /\ scratch' = <<>>
      /\ report' = [traced |-> FALSE, phase |-> "pending", summary |-> report.summary]
      /\ UNCHANGED <<ledger, physical, litter, runtime, save, run, conf>>
  BY DEF Killed, Stop, Go
<1>2. \E n \in 0..3 : scratch' = SubSeq(Scratch, 1, n)
  BY <1>1, ScratchLists
<1>3. faults' \in 0..MaxFaults
  BY OneFault DEF Killed, CorpusInv
<1>4. CorpusTypeOK' /\ save' \in SaveTasks
  BY <1>1, <1>2, <1>3 DEF CorpusInv, CorpusTypeOK, ClientStates
<1>5. LedgerInv' /\ StorageInv'
  BY <1>1, NothingRecorded
<1>6. SaveInv'
  BY <1>1 DEF CorpusInv, SaveInv, HasPending
<1>7. StageInv'
  BY <1>1 DEF StageInv, Fresh, Recording, Seeding
<1>8. OutcomeInv'
  BY <1>1 DEF CorpusInv, OutcomeInv, HasActive, HasPending
<1> QED
  BY <1>4, <1>5, <1>6, <1>7, <1>8 DEF CorpusInv

\* What is left to be retired or seeded, document by document.
LEMMA RetiringOrder ==
  ASSUME NEW t \in Orders, t # <<>>
  PROVE  /\ Head(t) \in Collections /\ Tail(t) \in Orders
         /\ ToSet(t) = {Head(t)} \cup ToSet(Tail(t))
<1>1. CASE t = <<"knowledge">>
  <2>1. Head(t) = "knowledge" /\ Tail(t) = <<>> /\ ToSet(t) = {"knowledge"} /\ ToSet(<<>>) = {}
    BY <1>1 DEF ToSet
  <2> QED
    BY <2>1 DEF Collections, Orders
<1>2. CASE t = <<"policy">>
  <2>1. Head(t) = "policy" /\ Tail(t) = <<>> /\ ToSet(t) = {"policy"} /\ ToSet(<<>>) = {}
    BY <1>2 DEF ToSet
  <2> QED
    BY <2>1 DEF Collections, Orders
<1>3. CASE t = <<"knowledge", "policy">>
  <2>1. Head(t) = "knowledge" /\ Tail(t) = <<"policy">>
    BY <1>3
  <2>2. DOMAIN t = {1, 2} /\ t[1] = "knowledge" /\ t[2] = "policy" /\ ToSet(<<"policy">>) = {"policy"}
    BY <1>3 DEF ToSet
  <2>3. ToSet(t) = {"knowledge", "policy"}
    BY <2>2 DEF ToSet
  <2> QED
    BY <2>1, <2>2, <2>3 DEF Collections, Orders
<1> QED
  BY <1>1, <1>2, <1>3 DEF Orders

\* The document that is being seeded.
LEMMA SeedingOrder ==
  ASSUME NEW t \in {<<"policy">>, <<"knowledge", "policy">>}
  PROVE  Head(t) \in Collections /\ t # <<>>
BY DEF Collections

\* The first down ends a save that an earlier run left.
LEMMA PreDownKeeps == CorpusInv /\ PreDown => CorpusInv'
<1> SUFFICES ASSUME CorpusInv, PreDown PROVE CorpusInv'
  OBVIOUS
<1>1. CorpusTypeOK' /\ save' \in SaveTasks
  BY DEF CorpusInv, CorpusTypeOK, SaveTasks, ClientStates, PreDown, Go, NoSave
<1>2. LedgerInv' /\ StorageInv'
  BY NothingRecorded DEF PreDown
<1>3. SaveInv'
  BY DEF CorpusInv, SaveInv, HasPending, PreDown, Go, NoSave
<1>4. StageInv'
  BY LedgerFields DEF CorpusInv, StageInv, Fresh, Recording, Seeding, Orders, HasPending, Held, GenerationStored, PreDown, Go
<1>5. OutcomeInv'
  BY DEF CorpusInv, OutcomeInv, Installed, HasActive, HasPending, PreDown, Go
<1> QED
  BY <1>1, <1>2, <1>3, <1>4, <1>5 DEF CorpusInv

\* The runtime is started.
LEMMA UpKeeps == CorpusInv /\ Up => CorpusInv'
<1> SUFFICES ASSUME CorpusInv, Up PROVE CorpusInv'
  OBVIOUS
<1>1. CorpusTypeOK' /\ save' \in SaveTasks
  BY SMTT(30) DEF CorpusInv, CorpusTypeOK, SaveTasks, ClientStates, Up, Go, NoSave
<1>2. LedgerInv' /\ StorageInv'
  BY NothingRecorded DEF Up
<1>3. SaveInv'
  BY DEF CorpusInv, SaveInv, HasPending, Up, Go, NoSave
<1>4. StageInv'
  BY LedgerFields DEF CorpusInv, StageInv, Fresh, Recording, Seeding, Orders, HasPending, Held, GenerationStored, Up, Go
<1>5. OutcomeInv'
  BY DEF CorpusInv, OutcomeInv, Installed, HasActive, HasPending, Up, Go
<1> QED
  BY <1>1, <1>2, <1>3, <1>4, <1>5 DEF CorpusInv

\* A start that failed is undone.
LEMMA UpCleansUpKeeps == CorpusInv /\ UpCleansUp => CorpusInv'
<1> SUFFICES ASSUME CorpusInv, UpCleansUp PROVE CorpusInv'
  OBVIOUS
<1>1. CorpusTypeOK' /\ save' \in SaveTasks
  <2>1. scratch' = <<>> /\ \E n \in 0..3 : scratch' = SubSeq(Scratch, 1, n)
    BY ScratchLists DEF UpCleansUp, Stop
  <2> QED
    BY <2>1 DEF CorpusInv, CorpusTypeOK, SaveTasks, ClientStates, UpCleansUp, Stop, Go, NoSave
<1>2. LedgerInv' /\ StorageInv'
  BY NothingRecorded DEF UpCleansUp, Stop
<1>3. SaveInv'
  BY DEF CorpusInv, SaveInv, HasPending, UpCleansUp, Stop, Go, NoSave
<1>4. StageInv'
  BY LedgerFields DEF CorpusInv, StageInv, Fresh, Recording, Seeding, Orders, HasPending, Held, GenerationStored, UpCleansUp, Stop, Go
<1>5. OutcomeInv'
  BY DEF CorpusInv, OutcomeInv, Installed, HasActive, HasPending, UpCleansUp, Stop, Go
<1> QED
  BY <1>1, <1>2, <1>3, <1>4, <1>5 DEF CorpusInv

\* The run ends, with what it has to tell.
LEMMA PostDownKeeps == CorpusInv /\ PostDown => CorpusInv'
<1> SUFFICES ASSUME CorpusInv, PostDown PROVE CorpusInv'
  OBVIOUS
<1>1. CorpusTypeOK' /\ save' \in SaveTasks
  <2>1. scratch' = <<>> /\ \E n \in 0..3 : scratch' = SubSeq(Scratch, 1, n)
    BY ScratchLists DEF PostDown, Stop
  <2> QED
    BY <2>1 DEF CorpusInv, CorpusTypeOK, SaveTasks, ClientStates, PostDown, Stop, Go, NoSave
<1>2. LedgerInv' /\ StorageInv'
  BY NothingRecorded DEF PostDown, Stop
<1>3. SaveInv'
  BY DEF CorpusInv, SaveInv, HasPending, PostDown, Stop, Go, NoSave
<1>4. StageInv'
  BY LedgerFields DEF CorpusInv, StageInv, Fresh, Recording, Seeding, Orders, HasPending, Held, GenerationStored, PostDown, Stop, Go
<1>5. OutcomeInv'
  BY DEF CorpusInv, OutcomeInv, Installed, HasActive, HasPending, PostDown, Stop, Go
<1> QED
  BY <1>1, <1>2, <1>3, <1>4, <1>5 DEF CorpusInv

\* The trace session is opened.
LEMMA StartTraceKeeps == CorpusInv /\ StartTrace => CorpusInv'
<1> SUFFICES ASSUME CorpusInv, StartTrace PROVE CorpusInv'
  OBVIOUS
<1>1. CorpusTypeOK' /\ save' \in SaveTasks
  BY DEF CorpusInv, CorpusTypeOK, SaveTasks, ClientStates, StartTrace, Go, NoSave
<1>2. LedgerInv' /\ StorageInv'
  BY NothingRecorded DEF StartTrace
<1>3. SaveInv'
  BY DEF CorpusInv, SaveInv, HasPending, StartTrace, Go, NoSave
<1>4. StageInv'
  BY LedgerFields DEF CorpusInv, StageInv, Fresh, Recording, Seeding, Orders, HasPending, Held, GenerationStored, StartTrace, Go
<1>5. OutcomeInv'
  BY DEF CorpusInv, OutcomeInv, Installed, HasActive, HasPending, StartTrace, Go
<1> QED
  BY <1>1, <1>2, <1>3, <1>4, <1>5 DEF CorpusInv

\* The trace session is closed.
LEMMA DeleteTraceKeeps == CorpusInv /\ DeleteTrace => CorpusInv'
<1> SUFFICES ASSUME CorpusInv, DeleteTrace PROVE CorpusInv'
  OBVIOUS
<1>1. CorpusTypeOK' /\ save' \in SaveTasks
  BY DEF CorpusInv, CorpusTypeOK, SaveTasks, ClientStates, DeleteTrace, Go, NoSave
<1>2. LedgerInv' /\ StorageInv'
  BY NothingRecorded DEF DeleteTrace
<1>3. SaveInv'
  BY DEF CorpusInv, SaveInv, HasPending, DeleteTrace, Go, NoSave
<1>4. StageInv'
  BY LedgerFields DEF CorpusInv, StageInv, Fresh, Recording, Seeding, Orders, HasPending, Held, GenerationStored, DeleteTrace, Go
<1>5. OutcomeInv'
  BY DEF CorpusInv, OutcomeInv, Installed, HasActive, HasPending, DeleteTrace, Go
<1> QED
  BY <1>1, <1>2, <1>3, <1>4, <1>5 DEF CorpusInv

\* The storage is validated before anything is created.
LEMMA FirstMembershipKeeps == CorpusInv /\ FirstMembership => CorpusInv'
<1> SUFFICES ASSUME CorpusInv, FirstMembership PROVE CorpusInv'
  OBVIOUS
<1>1. CorpusTypeOK' /\ save' \in SaveTasks
  BY DEF CorpusInv, CorpusTypeOK, SaveTasks, ClientStates, FirstMembership, CheckMembership, Go, NoSave
<1>2. LedgerInv' /\ StorageInv'
  BY NothingRecorded DEF FirstMembership, CheckMembership
<1>3. SaveInv'
  BY DEF CorpusInv, SaveInv, HasPending, FirstMembership, CheckMembership, Go, NoSave
<1>4. StageInv'
  BY LedgerFields DEF CorpusInv, StageInv, Fresh, Recording, Seeding, Orders, HasPending, Held, GenerationStored, FirstMembership, CheckMembership, Go
<1>5. OutcomeInv'
  BY DEF CorpusInv, OutcomeInv, Installed, HasActive, HasPending, FirstMembership, CheckMembership, Go
<1> QED
  BY <1>1, <1>2, <1>3, <1>4, <1>5 DEF CorpusInv

\* A scratch wizard is created.
LEMMA ScratchStepKeeps == CorpusInv /\ ScratchStep => CorpusInv'
<1> SUFFICES ASSUME CorpusInv, ScratchStep PROVE CorpusInv'
  OBVIOUS
<1>1. CorpusTypeOK' /\ save' \in SaveTasks
  <2>1. PICK s : s = scratch /\ Len(s) < 3
    BY DEF ScratchStep
  <2>2. s \in {<<>>, <<"knowledge">>, <<"knowledge", "policy">>}
    <3>1. s \in {<<>>, <<"knowledge">>, <<"knowledge", "policy">>, <<"knowledge", "policy", "other">>}
      BY <2>1, ScratchLists DEF CorpusInv, CorpusTypeOK
    <3>2. Len(<<"knowledge", "policy", "other">>) = 3
      OBVIOUS
    <3> QED
      BY <2>1, <3>1, <3>2
  <2>3. PICK x : x = Scratch[Len(s) + 1]
    OBVIOUS
  <2>4. /\ x \in {"knowledge", "policy", "other"}
        /\ Append(s, x) \in {<<"knowledge">>, <<"knowledge", "policy">>, <<"knowledge", "policy", "other">>}
    <3>1. CASE s = <<>>
      <4>1. x = "knowledge"
        BY <2>3, <3>1 DEF Scratch
      <4> QED
        BY <3>1, <4>1, ScratchSteps
    <3>2. CASE s = <<"knowledge">>
      <4>1. x = "policy"
        BY <2>3, <3>2 DEF Scratch
      <4> QED
        BY <3>2, <4>1, ScratchSteps
    <3>3. CASE s = <<"knowledge", "policy">>
      <4>1. x = "other"
        BY <2>3, <3>3 DEF Scratch
      <4> QED
        BY <3>3, <4>1, ScratchSteps
    <3> QED
      BY <2>2, <3>1, <3>2, <3>3
  <2>5. scratch' = Append(s, x) /\ litter' = litter \cup ({x} \ {"other"})
    BY <2>1, <2>3 DEF ScratchStep
  <2>6. \E n \in 0..3 : scratch' = SubSeq(Scratch, 1, n)
    BY <2>4, <2>5, ScratchLists
  <2>7. litter' \in SUBSET {"knowledge", "policy"}
    BY <2>4, <2>5 DEF CorpusInv, CorpusTypeOK
  <2>8. UNCHANGED <<ledger, physical, runtime, save, pc, run, conf, todo, report, faults>>
    BY DEF ScratchStep
  <2>9. /\ ledger \in Ledger /\ physical \in [Document -> SUBSET Chunks] /\ runtime \in BOOLEAN
        /\ save.status \in {"none", "running", "succeeded", "failed"} /\ pc \in ClientStates
        /\ run \in Generations \cup {0}
        /\ conf \in [digest : Digests, policy : Policies, reseed : BOOLEAN]
        /\ report \in [traced : BOOLEAN, phase : {"pending", "passed", "failed"},
                       summary : {"none", "running", "failed", "succeeded"}]
        /\ faults \in 0..MaxFaults /\ save \in SaveTasks
    BY DEF CorpusInv, CorpusTypeOK
  <2> QED
    BY <2>6, <2>7, <2>8, <2>9, Zenon DEF CorpusTypeOK
<1>2. LedgerInv' /\ StorageInv'
  BY NothingRecorded DEF ScratchStep
<1>3. SaveInv'
  BY DEF CorpusInv, SaveInv, HasPending, ScratchStep, Go, NoSave
<1>4. StageInv'
  BY LedgerFields DEF CorpusInv, StageInv, Fresh, Recording, Seeding, Orders, HasPending, Held, GenerationStored, ScratchStep, Go
<1>5. OutcomeInv'
  BY DEF CorpusInv, OutcomeInv, Installed, HasActive, HasPending, ScratchStep, Go
<1> QED
  BY <1>1, <1>2, <1>3, <1>4, <1>5 DEF CorpusInv

\* The scratch wizards passed.
LEMMA ScratchPassedKeeps == CorpusInv /\ ScratchPassed => CorpusInv'
<1> SUFFICES ASSUME CorpusInv, ScratchPassed PROVE CorpusInv'
  OBVIOUS
<1>1. CorpusTypeOK' /\ save' \in SaveTasks
  BY DEF CorpusInv, CorpusTypeOK, SaveTasks, ClientStates, ScratchPassed, Go, NoSave
<1>2. LedgerInv' /\ StorageInv'
  BY NothingRecorded DEF ScratchPassed
<1>3. SaveInv'
  BY DEF CorpusInv, SaveInv, HasPending, ScratchPassed, Go, NoSave
<1>4. StageInv'
  BY LedgerFields DEF CorpusInv, StageInv, Fresh, Recording, Seeding, Orders, HasPending, Held, GenerationStored, ScratchPassed, Go
<1>5. OutcomeInv'
  BY DEF CorpusInv, OutcomeInv, Installed, HasActive, HasPending, ScratchPassed, Go
<1> QED
  BY <1>1, <1>2, <1>3, <1>4, <1>5 DEF CorpusInv

\* The scratch wizards are deleted.
LEMMA ScratchDeletedKeeps == CorpusInv /\ ScratchDeleted => CorpusInv'
<1> SUFFICES ASSUME CorpusInv, ScratchDeleted PROVE CorpusInv'
  OBVIOUS
<1>1. CorpusTypeOK' /\ save' \in SaveTasks
  BY DEF CorpusInv, CorpusTypeOK, SaveTasks, ClientStates, ScratchDeleted, Go, NoSave
<1>2. LedgerInv' /\ StorageInv'
  BY NothingRecorded DEF ScratchDeleted
<1>3. SaveInv'
  BY DEF CorpusInv, SaveInv, HasPending, ScratchDeleted, Go, NoSave
<1>4. StageInv'
  BY LedgerFields DEF CorpusInv, StageInv, Fresh, Recording, Seeding, Orders, HasPending, Held, GenerationStored, ScratchDeleted, Go
<1>5. OutcomeInv'
  BY DEF CorpusInv, OutcomeInv, Installed, HasActive, HasPending, ScratchDeleted, Go
<1> QED
  BY <1>1, <1>2, <1>3, <1>4, <1>5 DEF CorpusInv

\* A recorded document is saved.
LEMMA SubmitKeeps == CorpusInv /\ Submit => CorpusInv'
<1> SUFFICES ASSUME CorpusInv, Submit PROVE CorpusInv'
  OBVIOUS
<1>1. CorpusTypeOK' /\ save' \in SaveTasks
  <2>1. PICK c \in Collections : c = Head(todo)
    BY SeedingOrder DEF Submit, CorpusInv, StageInv, Recording
  <2>2. run \in Generations
    BY DEF Submit, CorpusInv, StageInv
  <2>3. Doc(Head(todo)) \in Document
    BY <2>1, <2>2 DEF Doc, Document
  <2>4. save' \in SaveTasks /\ save'.status = "running"
    BY <2>3 DEF Submit, SaveTasks
  <2> QED
    BY <2>4 DEF CorpusInv, CorpusTypeOK, ClientStates, Submit, Go
<1>2. LedgerInv' /\ StorageInv'
  BY NothingRecorded DEF Submit, Doc
<1>3. SaveInv'
  <2>1. PICK c \in Collections : c = Head(todo)
    BY SeedingOrder DEF Submit, CorpusInv, StageInv, Recording
  <2>2. /\ HasPending /\ ledger.pending.gen = run
        /\ ledger.pending.docs[c].status = "save_submitting"
    BY <2>1 DEF Submit, CorpusInv, StageInv, Seeding, Recording
  <2>3. save'.doc = [gen |-> ledger.pending.gen, collection |-> c]
    BY <2>1, <2>2 DEF Submit, Doc
  <2> QED
    BY <2>2, <2>3 DEF SaveInv, HasPending, Submit, Go
<1>4. StageInv'
  BY LedgerFields DEF CorpusInv, StageInv, Fresh, Recording, Seeding, Orders, HasPending, Held, GenerationStored, Submit, Doc, Go
<1>5. OutcomeInv'
  BY DEF CorpusInv, OutcomeInv, Installed, HasActive, HasPending, Submit, Doc, Go
<1> QED
  BY <1>1, <1>2, <1>3, <1>4, <1>5 DEF CorpusInv

\* The save is waited for.
LEMMA PollKeeps == CorpusInv /\ Poll => CorpusInv'
<1> SUFFICES ASSUME CorpusInv, Poll PROVE CorpusInv'
  OBVIOUS
<1>1. CorpusTypeOK' /\ save' \in SaveTasks
  BY DEF CorpusInv, CorpusTypeOK, SaveTasks, ClientStates, Poll, Go, NoSave
<1>2. LedgerInv' /\ StorageInv'
  BY NothingRecorded DEF Poll
<1>3. SaveInv'
  BY DEF CorpusInv, SaveInv, HasPending, Poll, Go, NoSave
<1>4. StageInv'
  BY LedgerFields DEF CorpusInv, StageInv, Fresh, Recording, Seeding, Orders, HasPending, Held, GenerationStored, Poll, Go
<1>5. OutcomeInv'
  BY DEF CorpusInv, OutcomeInv, Installed, HasActive, HasPending, Poll, Go
<1> QED
  BY <1>1, <1>2, <1>3, <1>4, <1>5 DEF CorpusInv

\* What was promoted is verified.
LEMMA FinalVerifyKeeps == CorpusInv /\ FinalVerify => CorpusInv'
<1> SUFFICES ASSUME CorpusInv, FinalVerify PROVE CorpusInv'
  OBVIOUS
<1>1. CorpusTypeOK' /\ save' \in SaveTasks
  BY DEF CorpusInv, CorpusTypeOK, SaveTasks, ClientStates, FinalVerify, Go, NoSave
<1>2. LedgerInv' /\ StorageInv'
  BY NothingRecorded DEF FinalVerify
<1>3. SaveInv'
  BY DEF CorpusInv, SaveInv, HasPending, FinalVerify, Go, NoSave
<1>4. StageInv'
  BY LedgerFields DEF CorpusInv, StageInv, Fresh, Recording, Seeding, Orders, HasPending, Held, GenerationStored, FinalVerify, Go
<1>5. OutcomeInv'
  <2>1. pc = "final" /\ litter = {} /\ ~HasPending /\ ledger.cleanup = <<>> /\ ledger.active.gen = run
    BY DEF CorpusInv, StageInv, FinalVerify
  <2>2. HasActive
    <3>1. run \in Generations /\ run # 0
      BY <2>1, GenerationsAssumption DEF CorpusInv, StageInv
    <3> QED
      BY <2>1, <3>1, LedgerFields DEF CorpusInv
  <2>3. Installed
    BY <2>1, <2>2 DEF Installed, CorpusInv, OutcomeInv
  <2>4. Installed' /\ (HasActive' <=> HasActive) /\ (HasPending' <=> HasPending)
    BY <2>3 DEF Installed, HasActive, HasPending, FinalVerify
  <2>5. report.summary # "succeeded" /\ report'.summary = report.summary
    BY <2>1 DEF CorpusInv, CorpusTypeOK, OutcomeInv, FinalVerify
  <2>6. report'.phase = "passed" => pc' = "delete_trace"
    BY <2>1 DEF CorpusInv, CorpusTypeOK, OutcomeInv, FinalVerify, Go
  <2> QED
    BY <2>4, <2>5, <2>6 DEF CorpusInv, OutcomeInv, HasActive, HasPending, FinalVerify
<1> QED
  BY <1>1, <1>2, <1>3, <1>4, <1>5 DEF CorpusInv

\* A failed check leads to the cleanup.
LEMMA CheckFailedKeeps == CorpusInv /\ CheckFailed => CorpusInv'
<1> SUFFICES ASSUME CorpusInv, CheckFailed PROVE CorpusInv'
  OBVIOUS
<1>1. CorpusTypeOK' /\ save' \in SaveTasks
  BY DEF CorpusInv, CorpusTypeOK, SaveTasks, ClientStates, CheckFailed, Failing, Go, NoSave
<1>2. LedgerInv' /\ StorageInv'
  BY NothingRecorded DEF CheckFailed, Failing
<1>3. SaveInv'
  BY DEF CorpusInv, SaveInv, HasPending, CheckFailed, Failing, Go, NoSave
<1>4. StageInv'
  BY LedgerFields DEF CorpusInv, StageInv, Fresh, Recording, Seeding, Orders, HasPending, Held, GenerationStored, CheckFailed, Failing, Go
<1>5. OutcomeInv'
  BY DEF CorpusInv, OutcomeInv, Installed, HasActive, HasPending, CheckFailed, Failing, Go
<1> QED
  BY <1>1, <1>2, <1>3, <1>4, <1>5 DEF CorpusInv

\* A document of the pending generation is found deleted.
LEMMA PendingDocumentGoneKeeps == CorpusInv /\ PendingDocumentGone => CorpusInv'
<1> SUFFICES ASSUME CorpusInv, PendingDocumentGone PROVE CorpusInv'
  OBVIOUS
<1>1. CorpusTypeOK' /\ save' \in SaveTasks
  BY DEF CorpusInv, CorpusTypeOK, SaveTasks, ClientStates, PendingDocumentGone, Go, NoSave
<1>2. LedgerInv' /\ StorageInv'
  BY NothingRecorded DEF PendingDocumentGone
<1>3. SaveInv'
  BY DEF CorpusInv, SaveInv, HasPending, PendingDocumentGone, Go, NoSave
<1>4. StageInv'
  <2>1. /\ pc = "retire_pending" /\ pc' = pc /\ todo # <<>> /\ todo' = Tail(todo)
        /\ physical[Pending(Head(todo))] = {}
        /\ UNCHANGED <<ledger, physical, litter, run>>
    BY DEF PendingDocumentGone
  <2>2. /\ run \in Generations /\ litter = {} /\ HasPending /\ todo \in Orders
        /\ ledger.active.gen < run /\ ledger.pending.gen < run
        /\ \A c \in Collections : c \in ToSet(todo) \/ Held(ledger.pending, c) = {}
    BY <2>1 DEF CorpusInv, StageInv, Fresh
  <2>3. todo' \in Orders /\ ToSet(todo) = {Head(todo)} \cup ToSet(todo')
    BY <2>1, <2>2, RetiringOrder
  <2>4. \A c \in Collections : c \in ToSet(todo') \/ Held(ledger.pending, c) = {}
    BY <2>1, <2>2, <2>3 DEF Pending, Held
  <2> QED
    BY <2>1, <2>2, <2>3, <2>4 DEF StageInv, Fresh, Seeding, Recording, HasPending, Held
<1>5. OutcomeInv'
  BY DEF CorpusInv, OutcomeInv, Installed, HasActive, HasPending, PendingDocumentGone, Go
<1> QED
  BY <1>1, <1>2, <1>3, <1>4, <1>5 DEF CorpusInv

\* The last validation finds all as it was recorded.
LEMMA CleanedUpKeeps == CorpusInv /\ CleanedUp => CorpusInv'
<1> SUFFICES ASSUME CorpusInv, CleanedUp PROVE CorpusInv'
  OBVIOUS
<1>1. CorpusTypeOK' /\ save' \in SaveTasks
  BY DEF CorpusInv, CorpusTypeOK, SaveTasks, ClientStates, CleanedUp, Go, NoSave
<1>2. LedgerInv' /\ StorageInv'
  BY NothingRecorded DEF CleanedUp
<1>3. SaveInv'
  BY DEF CorpusInv, SaveInv, HasPending, CleanedUp, Go, NoSave
<1>4. StageInv'
  <2>1. /\ pc = "retire_cleanup" /\ ledger.cleanup = <<>> /\ pc' \in {"failed", "final", "decide"}
        /\ pc' = "final" => ledger.active.gen = run
        /\ pc' = "decide" => ledger.active.gen # run
        /\ UNCHANGED <<ledger, physical, litter, run>>
    BY DEF CleanedUp, Go
  <2>2. run \in Generations /\ ~HasPending /\ litter = {} /\ ledger.exists
    BY <2>1 DEF CorpusInv, StageInv
  <2>3. ledger.pending.gen = 0 /\ run # 0 /\ run \in Nat
    BY <2>2, LedgerFields, GenerationsAssumption DEF CorpusInv
  <2>4. ledger.active.gen <= run /\ ledger.active.gen \in Nat
    BY LedgerFields DEF CorpusInv, LedgerInv
  <2>5. pc' = "decide" => ledger.active.gen < run /\ ledger.pending.gen < run
    BY <2>1, <2>3, <2>4
  <2> QED
    BY <2>1, <2>2, <2>5 DEF StageInv, Fresh, Seeding, Recording, HasPending
<1>5. OutcomeInv'
  BY DEF CorpusInv, OutcomeInv, Installed, HasActive, HasPending, CleanedUp, Go
<1> QED
  BY <1>1, <1>2, <1>3, <1>4, <1>5 DEF CorpusInv

---------------------------------------------------------------------------
(* Steps that change what is stored *)

\* Chunks are deleted of documents that are not of the active generation.
LEMMA LessStored ==
  ASSUME CorpusInv, UNCHANGED <<ledger, run>>,
         \A d \in Document : physical'[d] \subseteq physical[d],
         \A d \in Document : d.gen = ledger.active.gen => physical'[d] = physical[d]
  PROVE  LedgerInv' /\ StorageInv'
<1>1. LedgerInv'
  BY DEF CorpusInv, LedgerInv, HasActive, HasPending
<1>2. /\ HasActive => \A c \in Collections : [gen |-> ledger.active.gen, collection |-> c] \in Document
      /\ HasPending => \A c \in Collections : [gen |-> ledger.pending.gen, collection |-> c] \in Document
      /\ \A i \in DOMAIN ledger.cleanup : ledger.cleanup[i].doc \in Document
  BY LedgerFields, CleanupFields, DocumentNamed DEF CorpusInv
<1>3. (HasActive' <=> HasActive) /\ (HasPending' <=> HasPending)
  BY DEF HasActive, HasPending
<1>4. HasActive => \A c \in Collections : Held(ledger.active, c)' = Held(ledger.active, c)
  BY <1>2 DEF Held
<1>5. HasPending => \A c \in Collections : Held(ledger.pending, c)' \subseteq Held(ledger.pending, c)
  BY <1>2 DEF Held
<1>6. \A d \in Document : physical'[d] # {} => physical[d] # {}
  OBVIOUS
<1>7. StorageInv
  BY DEF CorpusInv
<1> QED
  BY <1>1, <1>2, <1>3, <1>4, <1>5, <1>6, <1>7 DEF StorageInv

\* One batch less of a document.
LEMMA BatchDeleted ==
  ASSUME CorpusTypeOK, NEW doc \in Document, NEW chunk, DeleteBatch(doc, chunk)
  PROVE  /\ CorpusTypeOK'
         /\ \A d \in Document : physical'[d] \subseteq physical[d]
         /\ \A d \in Document : d # doc => physical'[d] = physical[d]
         /\ UNCHANGED <<ledger, litter, runtime, save, pc, run, conf, scratch, todo, report, faults>>
<1>1. UNCHANGED <<ledger, litter, runtime, save, pc, run, conf, scratch, todo, report, faults>>
  BY DEF DeleteBatch, clientVars
<1>2. physical \in [Document -> SUBSET Chunks]
  BY DEF CorpusTypeOK
<1>3. /\ physical' \in [Document -> SUBSET Chunks]
      /\ \A d \in Document : physical'[d] = IF d = doc THEN physical[d] \ {chunk} ELSE physical[d]
  BY <1>2 DEF DeleteBatch
<1>4. CorpusTypeOK'
  BY <1>1, <1>3 DEF CorpusTypeOK
<1> QED
  BY <1>1, <1>3, <1>4

\* A document of the pending generation loses a batch.
LEMMA DeletePendingBatchKeeps ==
  ASSUME NEW chunk, CorpusInv, DeletePendingBatch(chunk)
  PROVE  CorpusInv'
<1>1. pc = "retire_pending" /\ todo # <<>> /\ DeleteBatch(Pending(Head(todo)), chunk)
  BY DEF DeletePendingBatch
<1>2. HasPending /\ todo \in Orders
  BY <1>1 DEF CorpusInv, StageInv
<1>3. PICK doc \in Document : doc = Pending(Head(todo)) /\ doc.gen = ledger.pending.gen
  <2>1. Head(todo) \in Collections /\ ledger.pending.gen \in Generations
    BY <1>1, <1>2, RetiringOrder, LedgerFields DEF CorpusInv
  <2>2. Pending(Head(todo)) \in Document /\ Pending(Head(todo)).gen = ledger.pending.gen
    BY <2>1, DocumentNamed DEF Pending
  <2> QED
    BY <2>2
<1>4. /\ CorpusTypeOK'
      /\ \A d \in Document : physical'[d] \subseteq physical[d]
      /\ \A d \in Document : d # doc => physical'[d] = physical[d]
      /\ UNCHANGED <<ledger, litter, runtime, save, pc, run, conf, scratch, todo, report, faults>>
  BY <1>1, <1>3, BatchDeleted DEF CorpusInv
<1>5. doc.gen # ledger.active.gen
  BY <1>2, <1>3, LedgerFields DEF CorpusInv, LedgerInv
<1>6. LedgerInv' /\ StorageInv'
  BY <1>4, <1>5, LessStored
<1>7. SaveInv'
  BY <1>4 DEF CorpusInv, SaveInv, HasPending
<1>8. StageInv'
  <2>1. \A c \in Collections : Held(ledger.pending, c)' \subseteq Held(ledger.pending, c)
    BY <1>2, <1>4, LedgerFields DEF Held, CorpusInv, Document
  <2> QED
    BY <1>1, <1>4, <2>1 DEF CorpusInv, StageInv, Fresh, Recording, Seeding, HasPending
<1>9. OutcomeInv'
  BY <1>4 DEF CorpusInv, OutcomeInv, Installed, HasActive, HasPending
<1> QED
  BY <1>4, <1>6, <1>7, <1>8, <1>9 DEF CorpusInv

\* A replaced document loses a batch.
LEMMA DeleteCleanupBatchKeeps ==
  ASSUME NEW chunk, CorpusInv, DeleteCleanupBatch(chunk)
  PROVE  CorpusInv'
<1>1. pc = "retire_cleanup" /\ ledger.cleanup # <<>> /\ DeleteBatch(Head(ledger.cleanup).doc, chunk)
  BY DEF DeleteCleanupBatch
<1>2. PICK first : first = Head(ledger.cleanup)
  OBVIOUS
<1>3. 1 \in DOMAIN ledger.cleanup /\ first = ledger.cleanup[1] /\ first \in Retired
  BY <1>1, <1>2, LedgerFields DEF CorpusInv
<1>4. PICK doc \in Document : doc = first.doc /\ doc.gen < ledger.active.gen /\ doc.gen \in Nat
  BY <1>3, GenerationsAssumption DEF CorpusInv, LedgerInv, Retired, Document
<1>5. /\ CorpusTypeOK'
      /\ \A d \in Document : physical'[d] \subseteq physical[d]
      /\ \A d \in Document : d # doc => physical'[d] = physical[d]
      /\ UNCHANGED <<ledger, litter, runtime, save, pc, run, conf, scratch, todo, report, faults>>
  BY <1>1, <1>2, <1>4, BatchDeleted DEF CorpusInv
<1>6. doc.gen # ledger.active.gen
  BY <1>4, LedgerFields DEF CorpusInv
<1>7. LedgerInv' /\ StorageInv'
  BY <1>5, <1>6, LessStored
<1>8. SaveInv'
  BY <1>5 DEF CorpusInv, SaveInv, HasPending
<1>9. StageInv'
  BY <1>1, <1>5 DEF CorpusInv, StageInv, Fresh, Recording, Seeding, HasPending
<1>10. OutcomeInv'
  BY <1>5 DEF CorpusInv, OutcomeInv, Installed, HasActive, HasPending
<1> QED
  BY <1>5, <1>7, <1>8, <1>9, <1>10 DEF CorpusInv

\* Only the document of the save that runs changes, as long as it is named.
LEMMA SavedSounds ==
  ASSUME CorpusInv, save.status = "running", UNCHANGED <<ledger, run>>,
         \A d \in Document : d # save.doc => physical'[d] = physical[d]
  PROVE  /\ save.doc \in Document
         /\ LedgerInv' /\ StorageInv'
<1>1. PICK c \in Collections :
         /\ save.doc = [gen |-> ledger.pending.gen, collection |-> c]
         /\ ledger.pending.docs[c].status \in {"save_submitting", "save_submitted"}
  BY DEF CorpusInv, SaveInv
<1>2. HasPending /\ ledger.pending.gen \in Generations /\ ledger.active.gen < ledger.pending.gen
  BY LedgerFields DEF CorpusInv, SaveInv, LedgerInv
<1>3. save.doc \in Document /\ save.doc.gen = ledger.pending.gen
  BY <1>1, <1>2 DEF Document
<1>4. LedgerInv'
  BY DEF CorpusInv, LedgerInv, HasActive, HasPending
<1>5. (HasActive' <=> HasActive) /\ (HasPending' <=> HasPending)
  BY DEF HasActive, HasPending
<1>6. HasActive => \A k \in Collections : Held(ledger.active, k)' = Held(ledger.active, k)
  <2>1. HasActive => \A k \in Collections : [gen |-> ledger.active.gen, collection |-> k] \in Document
    BY LedgerFields DEF CorpusInv, Document
  <2>2. \A k : [gen |-> ledger.active.gen, collection |-> k] # save.doc
    BY <1>2, <1>3, LedgerFields DEF CorpusInv
  <2> QED
    BY <2>1, <2>2 DEF Held
<1>7. \A k \in Collections : k # c => Held(ledger.pending, k)' = Held(ledger.pending, k)
  <2>1. \A k \in Collections : k # c => /\ [gen |-> ledger.pending.gen, collection |-> k] \in Document
                                        /\ [gen |-> ledger.pending.gen, collection |-> k] # save.doc
    BY <1>1, <1>2 DEF Document
  <2> QED
    BY <2>1 DEF Held
<1>8. \A i \in DOMAIN ledger.cleanup : physical'[ledger.cleanup[i].doc] = physical[ledger.cleanup[i].doc]
  <2>1. TAKE i \in DOMAIN ledger.cleanup
  <2>2. ledger.cleanup[i].doc \in Document /\ ledger.cleanup[i].doc.gen \in Nat
    BY CleanupFields DEF CorpusInv
  <2>3. ledger.cleanup[i].doc.gen < ledger.active.gen
    BY DEF CorpusInv, LedgerInv
  <2>4. ledger.cleanup[i].doc # save.doc
    BY <1>2, <1>3, <2>2, <2>3, LedgerFields DEF CorpusInv
  <2> QED
    BY <2>2, <2>4
<1>9. \A d \in Document : physical'[d] # {} => physical[d] # {} \/ d.gen = ledger.pending.gen
  BY <1>3
<1>10. StorageInv
  BY DEF CorpusInv
<1>11. StorageInv'
  BY <1>1, <1>5, <1>6, <1>7, <1>8, <1>9, <1>10 DEF StorageInv
<1> QED
  BY <1>3, <1>4, <1>11

\* The save of the backend takes a step, or fails.
LEMMA SaveStepKeeps ==
  ASSUME CorpusInv, save.status = "running",
         physical' \in [Document -> SUBSET Chunks],
         \A d \in Document : d # save.doc => physical'[d] = physical[d],
         save' \in SaveTasks, save'.doc = save.doc, faults' \in 0..MaxFaults,
         UNCHANGED <<ledger, litter, runtime, pc, run, conf, scratch, todo, report>>
  PROVE  CorpusInv'
<1>1. CorpusTypeOK'
  <2>1. save'.status \in {"none", "running", "succeeded", "failed"}
    BY DEF SaveTasks
  <2> QED
    BY <2>1 DEF CorpusInv, CorpusTypeOK
<1>2. LedgerInv' /\ StorageInv'
  BY SavedSounds
<1>3. SaveInv'
  BY DEF CorpusInv, SaveInv, HasPending
<1>4. pc \in {"idle", "pre_down", "submitted", "poll", "failed", "delete_trace", "post_down"}
  BY DEF CorpusInv, SaveInv
<1>5. StageInv'
  BY <1>4 DEF CorpusInv, StageInv, Fresh, Recording, Seeding, HasPending
<1>6. OutcomeInv'
  BY DEF CorpusInv, OutcomeInv, Installed, HasActive, HasPending
<1> QED
  BY <1>1, <1>2, <1>3, <1>5, <1>6 DEF CorpusInv

\* A chunk is saved.
LEMMA SaveChunkKeeps ==
  ASSUME NEW chunk \in Chunks, CorpusInv, SaveChunk(chunk)
  PROVE  CorpusInv'
<1>1. /\ save.status = "running" /\ chunk \in save.left
      /\ physical' = [physical EXCEPT ![save.doc] = @ \cup {chunk}]
      /\ UNCHANGED <<ledger, litter, runtime, pc, run, conf, scratch, todo, report, faults>>
  BY DEF SaveChunk, clientVars
<1>2. physical \in [Document -> SUBSET Chunks] /\ save \in SaveTasks
  BY DEF CorpusInv, CorpusTypeOK
<1>3. physical' \in [Document -> SUBSET Chunks]
  BY <1>1, <1>2
<1>4. \A d \in Document : d # save.doc => physical'[d] = physical[d]
  BY <1>1, <1>2
<1>5. save' \in SaveTasks /\ save'.doc = save.doc
  <2>1. PICK was \in SaveTasks : was = save
    BY <1>2
  <2>0. PICK next : next = save'
    OBVIOUS
  <2>2. PICK s \in {"running", "succeeded"} :
           next = [was EXCEPT !.left = @ \ {chunk}, !.status = s]
    BY <2>0, <2>1 DEF SaveChunk
  <2>3. was.doc \in Document \cup {<<>>} /\ was.left \subseteq Chunks
    BY <2>1 DEF SaveTasks
  <2>4. next = [doc |-> was.doc, status |-> s, left |-> was.left \ {chunk}]
    BY <2>1, <2>2 DEF SaveTasks
  <2>5. next \in SaveTasks /\ next.doc = was.doc
    BY <2>3, <2>4 DEF SaveTasks
  <2> QED
    BY <2>0, <2>1, <2>5
<1>6. faults' \in 0..MaxFaults
  BY <1>1 DEF CorpusInv, CorpusTypeOK
<1> QED
  BY <1>1, <1>3, <1>4, <1>5, <1>6, SaveStepKeeps

\* A save fails, and keeps some of what it had stored.
LEMMA SaveFailsKeeps ==
  ASSUME NEW kept \in SUBSET Chunks, CorpusInv, SaveFails(kept)
  PROVE  CorpusInv'
<1>1. /\ save.status = "running"
      /\ physical' = [physical EXCEPT ![save.doc] = kept]
      /\ UNCHANGED <<ledger, litter, runtime, pc, run, conf, scratch, todo, report>>
  BY DEF SaveFails, clientVars
<1>2. physical \in [Document -> SUBSET Chunks] /\ save \in SaveTasks
  BY DEF CorpusInv, CorpusTypeOK
<1>3. physical' \in [Document -> SUBSET Chunks]
  BY <1>1, <1>2
<1>4. \A d \in Document : d # save.doc => physical'[d] = physical[d]
  BY <1>1, <1>2
<1>5. save' \in SaveTasks /\ save'.doc = save.doc
  BY <1>2 DEF SaveFails, SaveTasks
<1>6. faults' \in 0..MaxFaults
  BY OneFault DEF SaveFails, CorpusInv
<1> QED
  BY <1>1, <1>3, <1>4, <1>5, <1>6, SaveStepKeeps

---------------------------------------------------------------------------
(* Steps that change the record *)

\* The record of the documents of a generation, in the order they were recorded.
LEMMA RecordedInOrder ==
  ASSUME CorpusInv, HasPending
  PROVE  PendingOrder \in Orders /\ ToSet(PendingOrder) = Recorded(ledger.pending)
<1>1. PICK R : R = Recorded(ledger.pending)
  OBVIOUS
<1>2. R \subseteq Collections /\ ("policy" \in R => "knowledge" \in R)
  BY <1>1 DEF Recorded, HasPending, CorpusInv, LedgerInv
<1>3. R \in {{}, {"knowledge"}, {"knowledge", "policy"}}
  BY <1>2 DEF Collections
<1> DEFINE Names == {"knowledge", "policy"}
<1>4. PICK s : s = <<"knowledge", "policy">>
  OBVIOUS
<1>5. s \in Seq(Names) /\ Len(s) = 2 /\ s[1] = "knowledge" /\ s[2] = "policy"
  BY <1>4
<1>6. SubSeq(s, 1, 0) = <<>> /\ SubSeq(s, 1, 1) = <<"knowledge">> /\ SubSeq(s, 1, 2) = s
  <2>1. PICK x, y : x = SubSeq(s, 1, 1) /\ y = SubSeq(s, 1, 2)
    OBVIOUS
  <2>2. x \in Seq(Names) /\ Len(x) = 1 /\ x[1] = "knowledge"
    BY <1>5, <2>1
  <2>3. y \in Seq(Names) /\ Len(y) = 2 /\ y[1] = "knowledge" /\ y[2] = "policy"
    BY <1>5, <2>1
  <2>4. x = <<"knowledge">>
    BY <2>2
  <2>5. y = s
    BY <1>5, <2>3
  <2>6. SubSeq(s, 1, 0) = <<>>
    BY <1>5
  <2> QED
    BY <2>1, <2>4, <2>5, <2>6
<1>7. /\ ToSet(<<>>) = {} /\ ToSet(<<"knowledge">>) = {"knowledge"}
      /\ ToSet(s) = {"knowledge", "policy"}
  <2>1. DOMAIN s = {1, 2}
    BY <1>5
  <2>2. ToSet(s) = {"knowledge", "policy"}
    BY <1>5, <2>1 DEF ToSet
  <2>3. ToSet(<<>>) = {} /\ ToSet(<<"knowledge">>) = {"knowledge"}
    BY DEF ToSet
  <2> QED
    BY <2>2, <2>3
<1>8. /\ Cardinality({}) = 0 /\ Cardinality({"knowledge"}) = 1
      /\ Cardinality({"knowledge", "policy"}) = 2
  <2>1. Cardinality({}) = 0 /\ IsFiniteSet({})
    BY FS_EmptySet
  <2>2. Cardinality({"knowledge"}) = 1 /\ IsFiniteSet({"knowledge"})
    BY FS_Singleton
  <2>3. "policy" \notin {"knowledge"} /\ {"knowledge"} \cup {"policy"} = {"knowledge", "policy"}
    OBVIOUS
  <2>4. Cardinality({"knowledge"} \cup {"policy"}) = Cardinality({"knowledge"}) + 1
    BY <2>2, <2>3, FS_AddElement
  <2> QED
    BY <2>1, <2>2, <2>3, <2>4
<1>9. PendingOrder = SubSeq(s, 1, Cardinality(R))
  BY <1>1, <1>4 DEF PendingOrder
<1> QED
  BY <1>1, <1>3, <1>4, <1>6, <1>7, <1>8, <1>9 DEF Orders

\* The pending generation is changed, or there is a new one.
LEMMA PendingChanged ==
  ASSUME CorpusTypeOK, NEW g \in Generation \cup {NoGeneration},
         ledger' = [ledger EXCEPT !.pending = g]
  PROVE  /\ ledger' \in Ledger /\ ledger'.pending = g
         /\ ledger'.active = ledger.active /\ ledger'.cleanup = ledger.cleanup
         /\ ledger'.exists = ledger.exists
BY DEF CorpusTypeOK, Ledger

\* The order in which the record of a document goes through its states.
LEMMA StatusFollows ==
  ASSUME NEW s \in DOMAIN NextStatus
  PROVE  /\ s \in {"absent", "created", "save_submitting", "save_submitted"}
         /\ NextStatus[s] = "created" => s = "absent"
         /\ NextStatus[s] = "save_submitting" => s = "created"
         /\ NextStatus[s] = "save_submitted" => s = "save_submitting"
         /\ NextStatus[s] = "saved" => s = "save_submitted"
BY DEF NextStatus

\* The generation with one document recorded anew.
With(g, c, status, chunks) ==
    [g EXCEPT !.docs[c] = [status |-> status, chunks |-> chunks]]

\* What it has.
LEMMA WithFields ==
  ASSUME NEW g \in Generation, NEW c \in Collections, NEW status \in DocumentStates,
         NEW chunks \in SUBSET Chunks
  PROVE  LET w == With(g, c, status, chunks)
         IN  /\ w \in Generation /\ w.gen = g.gen /\ w.digest = g.digest
             /\ w.verified = g.verified /\ w.completed = g.completed
             /\ w.docs[c] = [status |-> status, chunks |-> chunks]
             /\ \A k \in Collections : k # c => w.docs[k] = g.docs[k]
<1>1. g.docs \in [Collections -> Entry]
  BY DEF Generation
<1>2. PICK e \in Entry : e = [status |-> status, chunks |-> chunks]
  BY DEF Entry
<1>3. PICK docs \in [Collections -> Entry] :
         /\ docs = [g.docs EXCEPT ![c] = e]
         /\ docs[c] = e /\ \A k \in Collections : k # c => docs[k] = g.docs[k]
  <2>1. [g.docs EXCEPT ![c] = e] \in [Collections -> Entry]
    BY <1>1, <1>2
  <2>2. [g.docs EXCEPT ![c] = e][c] = e
    BY <1>1
  <2>3. \A k \in Collections : k # c => [g.docs EXCEPT ![c] = e][k] = g.docs[k]
    BY <1>1
  <2> QED
    BY <2>1, <2>2, <2>3
<1>4. With(g, c, status, chunks) = [g EXCEPT !.docs = docs]
  BY <1>2, <1>3 DEF With
<1>5. [g EXCEPT !.docs = docs] \in Generation
  BY <1>3 DEF Generation
<1>6. PICK w \in Generation : w = With(g, c, status, chunks) /\ w = [g EXCEPT !.docs = docs]
  BY <1>4, <1>5
<1>7. /\ w.gen = g.gen /\ w.digest = g.digest /\ w.docs = docs
      /\ w.verified = g.verified /\ w.completed = g.completed
  BY <1>6 DEF Generation
<1> QED
  BY <1>2, <1>3, <1>6, <1>7

\* A state of a document is recorded.
LEMMA DocumentRecorded ==
  ASSUME CorpusInv, NEW c \in Collections, NEW status \in DocumentStates \ {"absent"},
         NEW chunks \in SUBSET Chunks,
         CanRecord(ledger, c, status), ledger' = RecordDocument(ledger, c, status, chunks),
         UNCHANGED <<physical, run>>,
         (status = "saved") <=> (chunks # {}),
         c = "policy" => "knowledge" \in Recorded(ledger.pending)
  PROVE  /\ HasPending /\ HasPending' /\ (HasActive' <=> HasActive)
         /\ ledger' \in Ledger /\ ledger'.active = ledger.active
         /\ ledger'.cleanup = ledger.cleanup
         /\ ledger'.pending.gen = ledger.pending.gen
         /\ ledger'.pending.digest = ledger.pending.digest
         /\ ledger'.pending.docs[c].status = status
         /\ c \in Recorded(ledger'.pending)
         /\ \A k \in Collections : k # c =>
               ledger'.pending.docs[k] = ledger.pending.docs[k]
         /\ NextStatus[ledger.pending.docs[c].status] = status
         /\ ledger.pending.docs[c].status \in DOMAIN NextStatus
         /\ LedgerInv' /\ StorageInv'
<1>1. PICK g \in Generation : g = ledger.pending /\ g # NoGeneration /\ HasPending
  BY LedgerFields DEF CanRecord, CorpusInv, HasPending
<1>2. PICK w \in Generation :
         /\ w = With(g, c, status, chunks)
         /\ w.gen = g.gen /\ w.digest = g.digest
         /\ w.verified = g.verified /\ w.completed = g.completed
         /\ w.docs[c] = [status |-> status, chunks |-> chunks]
         /\ \A k \in Collections : k # c => w.docs[k] = g.docs[k]
  BY WithFields
<1>3. ledger' = [ledger EXCEPT !.pending = w]
  BY <1>1, <1>2 DEF RecordDocument, With
<1>4. /\ ledger' \in Ledger /\ ledger'.pending = w
      /\ ledger'.active = ledger.active /\ ledger'.cleanup = ledger.cleanup
      /\ ledger'.exists = ledger.exists
  BY <1>3, PendingChanged DEF CorpusInv
<1>5. w # NoGeneration
  <2>1. w.gen \in Generations
    BY DEF Generation
  <2> QED
    BY <2>1, GenerationsAssumption DEF NoGeneration
<1>6. HasPending' /\ (HasActive' <=> HasActive)
  BY <1>4, <1>5 DEF HasPending, HasActive
<1>7. /\ NextStatus[g.docs[c].status] = status
      /\ g.docs[c].status \in DOMAIN NextStatus
      /\ ~g.verified
  BY <1>1 DEF CanRecord
<1>8. Recorded(w) = Recorded(g) \cup {c} /\ Recorded(g) \subseteq Collections
  BY <1>1, <1>2, <1>5 DEF Recorded
<1>9. /\ GenerationValid(g) /\ ~g.completed /\ ledger.active.gen < g.gen
      /\ "policy" \in Recorded(g) => "knowledge" \in Recorded(g)
  BY <1>1 DEF CorpusInv, LedgerInv
<1>10. GenerationValid(w)
  <2>1. \A k \in Recorded(w) : EntryValid(w.docs[k])
    BY <1>2, <1>8, <1>9 DEF GenerationValid, EntryValid
  <2> QED
    BY <1>2, <1>7, <1>9, <2>1 DEF GenerationValid
<1>11. LedgerInv'
  <2>1. LedgerInv /\ ledger.exists
    BY <1>1 DEF CorpusInv, LedgerInv, NoLedger
  <2>2. "policy" \in Recorded(w) => "knowledge" \in Recorded(w)
    BY <1>1, <1>8, <1>9
  <2> QED
    BY <1>1, <1>2, <1>4, <1>6, <1>9, <1>10, <2>1, <2>2 DEF LedgerInv
<1>12. StorageInv'
  <2>1. StorageInv
    BY DEF CorpusInv
  <2>2. \A k \in Collections : w.docs[k].status \in {"absent", "created"} => g.docs[k].status \in {"absent", "created"}
    BY <1>2, <1>7, StatusFollows
  <2>3. \A k \in Collections : /\ Held(ledger.active, k)' = Held(ledger.active, k)
                               /\ Held(ledger.pending, k)' = Held(ledger.pending, k)
    BY <1>1, <1>2, <1>4 DEF Held
  <2> QED
    BY <1>1, <1>2, <1>4, <1>6, <2>1, <2>2, <2>3 DEF StorageInv
<1> QED
  BY <1>1, <1>2, <1>4, <1>6, <1>7, <1>8, <1>11, <1>12

\* The types, of a step that changes the record.
LEMMA TypesFollow ==
  ASSUME CorpusInv, ledger' \in Ledger, pc' \in ClientStates,
         report' \in [traced : BOOLEAN, phase : {"pending", "passed", "failed"},
                      summary : {"none", "running", "failed", "succeeded"}],
         UNCHANGED <<physical, litter, runtime, save, run, conf, scratch, faults>>
  PROVE  CorpusTypeOK' /\ save' \in SaveTasks
BY DEF CorpusInv, CorpusTypeOK

\* The cleanup begins.
LEMMA EnterCleanupKeeps == CorpusInv /\ EnterCleanup => CorpusInv'
<1> SUFFICES ASSUME CorpusInv, EnterCleanup PROVE CorpusInv'
  OBVIOUS
<1>1. /\ pc = "membership" /\ UNCHANGED <<physical, litter, runtime, save, run, conf, scratch, report, faults>>
      /\ ledger.active.gen < run /\ ledger.pending.gen < run /\ run \in Generations
      /\ save.status # "running" /\ report.phase # "passed" /\ report.summary # "succeeded"
  BY DEF EnterCleanup, CorpusInv, StageInv, Fresh, SaveInv, OutcomeInv
<1>2. ledger' \in Ledger /\ ledger'.active = ledger.active /\ ledger'.pending = ledger.pending
      /\ ledger'.cleanup = ledger.cleanup /\ (ledger.exists => ledger'.exists)
  <2>1. CASE UNCHANGED ledger
    BY <2>1 DEF CorpusInv, CorpusTypeOK
  <2>2. CASE ~ledger.exists /\ ledger' = NewState
    <3>1. ledger = NoLedger
      BY <2>2 DEF CorpusInv, LedgerInv
    <3>2. ledger' = [ledger EXCEPT !.exists = TRUE] /\ ledger \in Ledger
      BY <2>2, <3>1 DEF NewState, CorpusInv, CorpusTypeOK
    <3> QED
      BY <3>2 DEF Ledger
  <2> QED
    BY <2>1, <2>2 DEF EnterCleanup
<1>3. (HasActive' <=> HasActive) /\ (HasPending' <=> HasPending)
  BY <1>2 DEF HasActive, HasPending
<1>4. pc' \in {"failed", "decide", "retire_cleanup", "retire_pending"}
  BY DEF EnterCleanup, Go
<1>5. CorpusTypeOK' /\ save' \in SaveTasks
  BY <1>1, <1>2, <1>4, TypesFollow DEF ClientStates, CorpusInv, CorpusTypeOK
<1>6. LedgerInv'
  <2>1. ledger'.exists \/ ledger' = ledger
    BY DEF EnterCleanup, NewState, NoLedger
  <2>2. LedgerInv
    BY DEF CorpusInv
  <2> QED
    BY <1>1, <1>2, <1>3, <2>1, <2>2 DEF LedgerInv
<1>7. StorageInv'
  <2>1. StorageInv
    BY DEF CorpusInv
  <2> QED
    BY <1>1, <1>2, <1>3, <2>1 DEF StorageInv, Held
<1>8. SaveInv'
  BY <1>1 DEF SaveInv
<1>9. StageInv'
  <2>1. pc' # "failed" => litter = {} /\ (litter' = {})
    BY <1>1 DEF EnterCleanup, Go, MembershipValid
  <2>2. pc' = "decide" => ~HasPending' /\ ledger'.cleanup = <<>> /\ ledger'.exists
    BY DEF EnterCleanup, Go, NewState, NoLedger, HasPending
  <2>3. pc' = "retire_cleanup" => ~HasPending' /\ ledger'.exists
    BY <1>3 DEF EnterCleanup, Go, HasPending
  <2>4. pc' = "retire_pending" => HasPending /\ todo' = PendingOrder
    BY DEF EnterCleanup, Go, HasPending
  <2>5. ASSUME pc' = "retire_pending"
        PROVE  /\ HasPending' /\ todo' \in Orders
               /\ \A c \in Collections : c \in ToSet(todo') \/ Held(ledger.pending, c)' = {}
    <3>1. HasPending /\ todo' \in Orders /\ ToSet(todo') = Recorded(ledger.pending)
      BY <2>4, <2>5, RecordedInOrder
    <3>2. \A c \in Collections : c \in Recorded(ledger.pending) \/ Held(ledger.pending, c) = {}
      BY <3>1 DEF CorpusInv, StorageInv, Recorded, HasPending
    <3>3. \A c : Held(ledger.pending, c)' = Held(ledger.pending, c)
      BY <1>1, <1>2 DEF Held
    <3> QED
      BY <1>3, <3>1, <3>2, <3>3
  <2> QED
    BY <1>1, <1>2, <1>4, <2>1, <2>2, <2>3, <2>5 DEF StageInv, Fresh, Recording, Seeding
<1>10. OutcomeInv'
  BY <1>1, <1>2, <1>3 DEF CorpusInv, OutcomeInv
<1> QED
  BY <1>5, <1>6, <1>7, <1>8, <1>9, <1>10 DEF CorpusInv

\* The retired generation is forgotten.
LEMMA DiscardRetiredKeeps == CorpusInv /\ DiscardRetired => CorpusInv'
<1> SUFFICES ASSUME CorpusInv, DiscardRetired PROVE CorpusInv'
  OBVIOUS
<1>1. /\ pc = "retire_pending" /\ pc' = "retire_cleanup" /\ todo = <<>>
      /\ ledger' = [ledger EXCEPT !.pending = NoGeneration]
      /\ UNCHANGED <<physical, litter, runtime, save, run, conf, scratch, todo, report, faults>>
  BY DEF DiscardRetired, DiscardPending, Go
<1>2. /\ ledger' \in Ledger /\ ledger'.pending = NoGeneration
      /\ ledger'.active = ledger.active /\ ledger'.cleanup = ledger.cleanup
      /\ ledger'.exists = ledger.exists
  BY <1>1, PendingChanged DEF CorpusInv
<1>3. ~HasPending' /\ (HasActive' <=> HasActive) /\ ledger'.pending.gen = 0
  BY <1>2 DEF HasPending, HasActive, NoGeneration
<1>4. /\ HasPending /\ run \in Generations /\ litter = {} /\ save.status # "running"
      /\ report.phase # "passed" /\ report.summary # "succeeded"
      /\ \A c \in Collections : Held(ledger.pending, c) = {}
  <2>1. ToSet(todo) = {}
    BY <1>1 DEF ToSet
  <2> QED
    BY <1>1, <2>1 DEF CorpusInv, StageInv, SaveInv, OutcomeInv
<1>5. CorpusTypeOK' /\ save' \in SaveTasks
  BY <1>1, <1>2, TypesFollow DEF ClientStates, CorpusInv, CorpusTypeOK
<1>6. LedgerInv'
  <2>1. LedgerInv /\ run \in Nat
    BY LedgerFields DEF CorpusInv
  <2>2. ledger.exists
    BY <1>4, <2>1 DEF LedgerInv, HasPending, NoLedger
  <2> QED
    BY <1>1, <1>2, <1>3, <2>1, <2>2 DEF LedgerInv
<1>7. StorageInv'
  <2>1. StorageInv
    BY DEF CorpusInv
  <2>2. \A d \in Document : d.gen = ledger.pending.gen => physical[d] = {}
    BY <1>4 DEF Held, Document
  <2>3. \A c : Held(ledger.active, c)' = Held(ledger.active, c)
    BY <1>1, <1>2 DEF Held
  <2> QED
    BY <1>1, <1>2, <1>3, <2>1, <2>2, <2>3 DEF StorageInv
<1>8. SaveInv'
  BY <1>1, <1>4 DEF SaveInv
<1>9. StageInv'
  <2>1. ledger.exists
    BY <1>4 DEF CorpusInv, LedgerInv, HasPending, NoLedger
  <2> QED
    BY <1>1, <1>2, <1>3, <1>4, <2>1 DEF StageInv, Fresh, Recording, Seeding
<1>10. OutcomeInv'
  BY <1>1, <1>2, <1>3, <1>4 DEF CorpusInv, OutcomeInv
<1> QED
  BY <1>5, <1>6, <1>7, <1>8, <1>9, <1>10 DEF CorpusInv

\* The first of the replaced documents is forgotten, and nothing else.
LEMMA FirstForgotten ==
  ASSUME NEW S, NEW s \in Seq(S), s # <<>>,
         \A i, j \in DOMAIN s : s[i].doc = s[j].doc => i = j
  PROVE  RemoveAt(s, CHOOSE i \in DOMAIN s : s[i].doc = Head(s).doc) = Tail(s)
<1>1. 1 \in DOMAIN s /\ Head(s) = s[1]
  OBVIOUS
<1>2. PICK k : k = CHOOSE i \in DOMAIN s : s[i].doc = Head(s).doc
  OBVIOUS
<1>3. k \in DOMAIN s /\ s[k].doc = Head(s).doc
  BY <1>1, <1>2
<1>4. k = 1
  BY <1>1, <1>3
<1>5. RemoveAt(s, 1) = SubSeq(s, 1, 0) \o SubSeq(s, 2, Len(s))
  BY DEF RemoveAt
<1>6. SubSeq(s, 1, 0) = <<>> /\ SubSeq(s, 2, Len(s)) = Tail(s) /\ Tail(s) \in Seq(S)
  OBVIOUS
<1>7. <<>> \o Tail(s) = Tail(s)
  BY <1>6
<1> QED
  BY <1>2, <1>4, <1>5, <1>6, <1>7

\* A replaced document is gone, and forgotten.
LEMMA CleanupDocumentGoneKeeps == CorpusInv /\ CleanupDocumentGone => CorpusInv'
<1> SUFFICES ASSUME CorpusInv, CleanupDocumentGone PROVE CorpusInv'
  OBVIOUS
<1>1. PICK s \in Seq(Retired) : s = ledger.cleanup
  BY LedgerFields DEF CorpusInv
<1>2. /\ pc = "retire_cleanup" /\ pc' = pc /\ s # <<>> /\ physical[Head(s).doc] = {}
      /\ ledger' = RemoveCleanup(ledger, Head(s).doc)
      /\ UNCHANGED <<physical, litter, runtime, save, run, conf, scratch, todo, report, faults>>
  BY <1>1 DEF CleanupDocumentGone, clientVars
<1>3. LedgerInv /\ StorageInv
  BY DEF CorpusInv
<1>4. \A i, j \in DOMAIN s : s[i].doc = s[j].doc => i = j
  BY <1>1, <1>3 DEF LedgerInv
<1>5. RemoveAt(s, CHOOSE i \in DOMAIN s : s[i].doc = Head(s).doc) = Tail(s)
  BY <1>2, <1>4, FirstForgotten
<1>6. ledger' = [ledger EXCEPT !.cleanup = Tail(s)]
  BY <1>1, <1>2, <1>5 DEF RemoveCleanup
<1>7. Tail(s) \in Seq(Retired) /\ \A i \in DOMAIN Tail(s) : i + 1 \in DOMAIN s /\ Tail(s)[i] = s[i + 1]
  BY <1>2
<1>8. \A i \in DOMAIN s : i = 1 \/ (i - 1 \in DOMAIN Tail(s) /\ Tail(s)[i - 1] = s[i])
  BY <1>2
<1>9. /\ ledger' \in Ledger /\ ledger'.cleanup = Tail(s)
      /\ ledger'.active = ledger.active /\ ledger'.pending = ledger.pending
      /\ ledger'.exists = ledger.exists
  BY <1>6, <1>7 DEF CorpusInv, CorpusTypeOK, Ledger
<1>10. (HasActive' <=> HasActive) /\ (HasPending' <=> HasPending)
  BY <1>9 DEF HasActive, HasPending
<1>11. CorpusTypeOK' /\ save' \in SaveTasks
  BY <1>2, <1>9, TypesFollow DEF ClientStates, CorpusInv, CorpusTypeOK
<1>12. LedgerInv'
  <2>1. ledger.exists
    BY <1>1, <1>2, <1>3 DEF LedgerInv, NoLedger
  <2>2. PICK t \in Seq(Retired) : t = Tail(s) /\ t = ledger'.cleanup
    BY <1>7, <1>9
  <2>3. \A i \in DOMAIN t : t[i].chunks # {} /\ t[i].doc.gen < ledger.active.gen
    BY <1>1, <1>3, <1>7, <2>2 DEF LedgerInv
  <2>4. \A i, j \in DOMAIN t : t[i].doc = t[j].doc => i = j
    <3>1. TAKE i, j \in DOMAIN t
    <3>2. i \in Int /\ j \in Int
      BY <3>1
    <3>3. t[i].doc = t[j].doc => i + 1 = j + 1
      BY <1>4, <1>7, <2>2
    <3> QED
      BY <3>2, <3>3
  <2>5. /\ HasActive => /\ GenerationValid(ledger.active)
                        /\ ledger.active.completed /\ ledger.active.verified /\ Saved(ledger.active)
        /\ HasPending => /\ GenerationValid(ledger.pending) /\ ~ledger.pending.completed
                         /\ ledger.active.gen < ledger.pending.gen
                         /\ "policy" \in Recorded(ledger.pending) => "knowledge" \in Recorded(ledger.pending)
        /\ ledger.active.gen <= run /\ ledger.pending.gen <= run
    BY <1>3 DEF LedgerInv
  <2>6. run' = run /\ ledger'.exists
    BY <1>2, <1>9, <2>1
  <2>7. \A i \in DOMAIN ledger'.cleanup : /\ ledger'.cleanup[i].chunks # {}
                                           /\ ledger'.cleanup[i].doc.gen < ledger'.active.gen
    BY <1>9, <2>2, <2>3
  <2>8. \A i, j \in DOMAIN ledger'.cleanup :
           ledger'.cleanup[i].doc = ledger'.cleanup[j].doc => i = j
    BY <2>2, <2>4
  <2>9. /\ HasActive' => /\ GenerationValid(ledger'.active)
                         /\ ledger'.active.completed /\ ledger'.active.verified /\ Saved(ledger'.active)
        /\ HasPending' => /\ GenerationValid(ledger'.pending) /\ ~ledger'.pending.completed
                          /\ ledger'.active.gen < ledger'.pending.gen
                          /\ "policy" \in Recorded(ledger'.pending) => "knowledge" \in Recorded(ledger'.pending)
        /\ ledger'.active.gen <= run' /\ ledger'.pending.gen <= run'
    BY <1>9, <1>10, <2>5, <2>6
  <2> QED
    BY <2>6, <2>7, <2>8, <2>9 DEF LedgerInv
<1>13. StorageInv'
  <2>1. \A c : /\ Held(ledger.active, c)' = Held(ledger.active, c)
               /\ Held(ledger.pending, c)' = Held(ledger.pending, c)
    BY <1>2, <1>9 DEF Held
  <2>2. \A i \in DOMAIN Tail(s) : physical[Tail(s)[i].doc] \subseteq Tail(s)[i].chunks
    BY <1>1, <1>3, <1>7 DEF StorageInv
  <2>3. \A d \in Document : physical[d] # {} /\ (\E i \in DOMAIN s : d = s[i].doc)
                              => \E i \in DOMAIN Tail(s) : d = Tail(s)[i].doc
    <3>1. TAKE d \in Document
    <3>2. HAVE physical[d] # {} /\ \E i \in DOMAIN s : d = s[i].doc
    <3>3. PICK i \in DOMAIN s : d = s[i].doc
      BY <3>2
    <3>4. i # 1
      BY <1>2, <3>2, <3>3
    <3> QED
      BY <1>8, <3>3, <3>4
  <2>4. /\ HasActive => \A c \in Collections : Held(ledger.active, c) = ledger.active.docs[c].chunks
        /\ HasPending => \A c \in Collections :
              ledger.pending.docs[c].status \in {"absent", "created"} => Held(ledger.pending, c) = {}
        /\ \A d \in Document : physical[d] # {} =>
              \/ d.gen = ledger.active.gen \/ d.gen = ledger.pending.gen
              \/ \E i \in DOMAIN s : d = s[i].doc
    BY <1>1, <1>3 DEF StorageInv
  <2>5. physical' = physical
    BY <1>2
  <2>6. \A d \in Document : physical[d] # {} =>
              \/ d.gen = ledger.active.gen \/ d.gen = ledger.pending.gen
              \/ \E i \in DOMAIN Tail(s) : d = Tail(s)[i].doc
    BY <2>3, <2>4
  <2> QED
    BY <1>9, <1>10, <2>1, <2>2, <2>4, <2>5, <2>6, Zenon DEF StorageInv
<1>14. SaveInv'
  BY <1>2, <1>9, <1>10 DEF CorpusInv, SaveInv
<1>15. StageInv'
  BY <1>2, <1>9, <1>10 DEF CorpusInv, StageInv, Fresh, Recording, Seeding
<1>16. OutcomeInv'
  BY <1>2, <1>9, <1>10 DEF CorpusInv, OutcomeInv
<1> QED
  BY <1>11, <1>12, <1>13, <1>14, <1>15, <1>16 DEF CorpusInv

\* The recorded corpus is used again.
LEMMA ReuseKeeps ==
  ASSUME CorpusInv, conf.policy \in Policies, Reuse
  PROVE  CorpusInv'
<1>1. /\ pc = "decide" /\ HasActive /\ pc' \in {"failed", "delete_trace"}
      /\ UNCHANGED <<physical, litter, runtime, save, run, conf, scratch, todo, faults>>
  BY DEF Reuse, Go, HasActive
<1>2. /\ ~HasPending /\ litter = {} /\ ledger.cleanup = <<>> /\ run \in Generations
      /\ save.status # "running" /\ report.phase # "passed" /\ report.summary # "succeeded"
  BY <1>1 DEF CorpusInv, StageInv, SaveInv, OutcomeInv
<1>3. CASE UNCHANGED <<ledger, report>> /\ pc' = "failed"
  <2>1. CorpusTypeOK' /\ save' \in SaveTasks
    BY <1>1, <1>3, TypesFollow DEF ClientStates, CorpusInv, CorpusTypeOK
  <2>2. LedgerInv' /\ StorageInv'
    BY <1>1, <1>3, NothingRecorded
  <2>3. SaveInv' /\ StageInv'
    BY <1>1, <1>2, <1>3 DEF SaveInv, StageInv, Fresh, Recording, Seeding
  <2>4. OutcomeInv'
    BY <1>1, <1>2, <1>3 DEF CorpusInv, OutcomeInv, HasActive, HasPending
  <2> QED
    BY <2>1, <2>2, <2>3, <2>4 DEF CorpusInv
<1>4. CASE /\ ledger.active.digest = conf.digest
           /\ ledger' = RecordPolicy(ledger, conf.policy)
           /\ report' = [report EXCEPT !.phase = "passed"] /\ pc' = "delete_trace"
  <2>1. PICK g \in Generation : g = ledger.active /\ g.gen \in Generations
    BY <1>1, LedgerFields DEF CorpusInv
  <2>2. PICK w \in Generation : w = [g EXCEPT !.policy = conf.policy]
    BY DEF Generation
  <2>3. /\ w.gen = g.gen /\ w.digest = g.digest /\ w.docs = g.docs
        /\ w.verified = g.verified /\ w.completed = g.completed
    BY <2>2 DEF Generation
  <2>4. ledger' = [ledger EXCEPT !.active = w]
    BY <1>4, <2>1, <2>2 DEF RecordPolicy
  <2>5. /\ ledger' \in Ledger /\ ledger'.active = w /\ ledger'.pending = ledger.pending
        /\ ledger'.cleanup = ledger.cleanup /\ ledger'.exists = ledger.exists
    BY <2>4 DEF CorpusInv, CorpusTypeOK, Ledger
  <2>6. w # NoGeneration /\ g # NoGeneration
    BY <2>1, <2>3, GenerationsAssumption DEF NoGeneration
  <2>7. HasActive' /\ HasActive /\ (HasPending' <=> HasPending)
    BY <2>1, <2>5, <2>6 DEF HasActive, HasPending
  <2>8. /\ report'.phase = "passed" /\ report'.summary = report.summary
        /\ report' \in [traced : BOOLEAN, phase : {"pending", "passed", "failed"},
                        summary : {"none", "running", "failed", "succeeded"}]
    BY <1>4 DEF CorpusInv, CorpusTypeOK
  <2>9. CorpusTypeOK' /\ save' \in SaveTasks
    BY <1>1, <1>4, <2>5, <2>8, TypesFollow DEF ClientStates
  <2>10. LedgerInv'
    <3>1. LedgerInv /\ ledger.exists
      BY <1>1 DEF CorpusInv, LedgerInv, HasActive, NoLedger
    <3>2. Recorded(w) = Recorded(g)
      BY <2>3, <2>6 DEF Recorded
    <3>3. GenerationValid(w) /\ w.completed /\ w.verified /\ Saved(w)
      BY <2>1, <2>3, <2>7, <3>1, <3>2 DEF LedgerInv, GenerationValid, Saved
    <3> QED
      BY <1>1, <2>1, <2>3, <2>5, <2>7, <3>1, <3>3 DEF LedgerInv
  <2>11. StorageInv'
    <3>1. \A c : Held(ledger.active, c)' = Held(ledger.active, c)
      BY <1>1, <2>1, <2>3, <2>5 DEF Held
    <3>2. StorageInv
      BY DEF CorpusInv
    <3> QED
      BY <1>1, <1>2, <2>1, <2>3, <2>5, <2>7, <3>1, <3>2 DEF StorageInv
  <2>12. SaveInv' /\ StageInv'
    BY <1>1, <1>2, <1>4 DEF SaveInv, StageInv, Fresh, Recording, Seeding
  <2>13. OutcomeInv'
    BY <1>1, <1>2, <1>4, <2>1, <2>3, <2>5, <2>7, <2>8 DEF CorpusInv, OutcomeInv, Installed
  <2> QED
    BY <2>9, <2>10, <2>11, <2>12, <2>13 DEF CorpusInv
<1> QED
  BY <1>3, <1>4 DEF Reuse, Go

\* A replacement begins: no chunk is stored of its generation.
LEMMA BeginGenerationKeeps ==
  ASSUME CorpusInv, BeginGeneration
  PROVE  CorpusInv'
<1>1. /\ pc = "decide" /\ pc' = "create" /\ todo' = <<"knowledge", "policy">>
      /\ UNCHANGED <<physical, litter, runtime, save, run, conf, scratch, report, faults>>
  BY DEF BeginGeneration, Go
<1>2. /\ ~HasPending /\ litter = {} /\ ledger.cleanup = <<>> /\ run \in Generations
      /\ ledger.active.gen < run
      /\ save.status # "running" /\ report.phase # "passed" /\ report.summary # "succeeded"
  BY <1>1 DEF CorpusInv, StageInv, Fresh, SaveInv, OutcomeInv
<1>3. conf.digest \in Digests /\ conf.policy \in Policies
  BY DEF CorpusInv, CorpusTypeOK
<1>4. PICK g : g = [gen |-> run, digest |-> conf.digest, policy |-> conf.policy,
                    docs |-> [c \in Collections |-> NoEntry],
                    verified |-> FALSE, completed |-> FALSE]
  OBVIOUS
<1>5. g \in Generation
  <2>1. [c \in Collections |-> NoEntry] \in [Collections -> Entry]
    BY DEF NoEntry, Entry, DocumentStates
  <2> QED
    BY <1>2, <1>3, <1>4, <2>1 DEF Generation
<1>6. /\ g.gen = run /\ g.digest = conf.digest /\ ~g.verified /\ ~g.completed
      /\ \A c \in Collections : g.docs[c].status = "absent"
  BY <1>4 DEF NoEntry
<1>7. ledger' = [ledger EXCEPT !.pending = g]
  BY <1>4 DEF BeginGeneration, BeginReplacement
<1>8. /\ ledger' \in Ledger /\ ledger'.pending = g
      /\ ledger'.active = ledger.active /\ ledger'.cleanup = ledger.cleanup
      /\ ledger'.exists = ledger.exists
  BY <1>5, <1>7, PendingChanged DEF CorpusInv
<1>9. g # NoGeneration
  BY <1>2, <1>6, GenerationsAssumption DEF NoGeneration
<1>10. HasPending' /\ (HasActive' <=> HasActive)
  BY <1>8, <1>9 DEF HasPending, HasActive
<1>11. CorpusTypeOK' /\ save' \in SaveTasks
  BY <1>1, <1>8, TypesFollow DEF ClientStates, CorpusInv, CorpusTypeOK
<1>12. LedgerInv'
  <2>1. Recorded(g) = {}
    BY <1>6 DEF Recorded
  <2>2. GenerationValid(g)
    BY <1>6, <2>1 DEF GenerationValid
  <2>3. LedgerInv /\ run \in Nat /\ (HasActive \/ ~HasActive)
    BY LedgerFields DEF CorpusInv
  <2>4. run <= run
    BY <2>3
  <2>5. ledger.exists
    BY <1>1 DEF CorpusInv, StageInv
  <2> QED
    BY <1>1, <1>2, <1>6, <1>8, <1>10, <2>1, <2>2, <2>3, <2>4, <2>5 DEF LedgerInv
<1>13. StorageInv'
  <2>1. StorageInv
    BY DEF CorpusInv
  <2>2. \A d \in Document : physical[d] # {} => d.gen = ledger.active.gen
    <3>1. TAKE d \in Document
    <3>2. HAVE physical[d] # {}
    <3>3. d.gen \in Generations /\ d.gen # 0
      BY GenerationsAssumption DEF Document
    <3>4. ledger.pending.gen = 0 /\ DOMAIN ledger.cleanup = {}
      BY <1>2, LedgerFields DEF CorpusInv
    <3> QED
      BY <2>1, <3>2, <3>3, <3>4 DEF StorageInv
  <2>3. \A c \in Collections : Held(g, c) = {}
    <3>1. TAKE c \in Collections
    <3>2. [gen |-> g.gen, collection |-> c] \in Document /\ g.gen # ledger.active.gen
      BY <1>2, <1>6, LedgerFields DEF Document, CorpusInv
    <3> QED
      BY <2>2, <3>2 DEF Held
  <2>4. \A c : Held(ledger.active, c)' = Held(ledger.active, c) /\ Held(ledger.pending, c)' = Held(g, c)
    BY <1>1, <1>8 DEF Held
  <2> QED
    BY <1>1, <1>8, <1>10, <2>1, <2>2, <2>3, <2>4 DEF StorageInv
<1>14. SaveInv'
  BY <1>1, <1>2 DEF SaveInv
<1>15. StageInv'
  BY <1>1, <1>2, <1>6, <1>8, <1>10 DEF StageInv, Fresh, Recording, Seeding
<1>16. OutcomeInv'
  BY <1>1, <1>2, <1>6, <1>8, <1>10 DEF CorpusInv, OutcomeInv
<1> QED
  BY <1>11, <1>12, <1>13, <1>14, <1>15, <1>16 DEF CorpusInv

\* What is known of the document that is being seeded.
LEMMA SeedingStage ==
  ASSUME CorpusInv, pc \in Recording
  PROVE  /\ Head(todo) \in Collections /\ todo # <<>> /\ Doc(Head(todo)) \in Document
         /\ Head(todo) = "policy" => "knowledge" \in Recorded(ledger.pending)
         /\ HasPending /\ ledger.pending.gen = run /\ run \in Generations
         /\ litter = {} /\ ledger.cleanup = <<>> /\ pc # "idle"
         /\ report.phase # "passed" /\ report.summary # "succeeded"
         /\ save.status = "running" => pc \in {"submitted", "poll"}
         /\ todo \in {<<"policy">>, <<"knowledge", "policy">>}
         /\ todo = <<"policy">> => "knowledge" \in Recorded(ledger.pending)
<1>1. /\ todo \in {<<"policy">>, <<"knowledge", "policy">>}
      /\ todo = <<"policy">> => "knowledge" \in Recorded(ledger.pending)
      /\ run \in Generations /\ HasPending /\ ledger.pending.gen = run
      /\ litter = {} /\ ledger.cleanup = <<>>
  BY DEF CorpusInv, StageInv, Recording, Seeding
<1>2. Head(todo) \in Collections /\ todo # <<>>
  BY <1>1, SeedingOrder
<1>3. Head(todo) = "policy" => todo = <<"policy">>
  <2>1. Head(<<"knowledge", "policy">>) = "knowledge"
    OBVIOUS
  <2> QED
    BY <1>1, <2>1
<1>4. Doc(Head(todo)) \in Document
  BY <1>1, <1>2 DEF Doc, Document
<1>5. /\ report.phase # "passed" /\ report.summary # "succeeded" /\ pc # "idle"
      /\ save.status = "running" => pc \in {"submitted", "poll"}
  BY DEF CorpusInv, OutcomeInv, SaveInv, Recording
<1> QED
  BY <1>1, <1>2, <1>3, <1>4, <1>5

\* A state is recorded of the document that is being seeded.
LEMMA SeedingKeeps ==
  ASSUME CorpusInv, pc \in Recording,
         NEW status \in DocumentStates \ {"absent"}, NEW chunks \in SUBSET Chunks, NEW next,
         Record(status, chunks, next), (status = "saved") <=> (chunks # {}),
         next \in {"create", "upload", "submit", "poll", "verify_replacement"},
         todo' \in {<<"policy">>, <<"knowledge", "policy">>} \/ next = "verify_replacement",
         todo' = <<"policy">> => todo = <<"policy">> \/ Head(todo) = "knowledge",
         next = "submit" => status = "save_submitting" /\ todo' = todo,
         save.status = "running" => next = "poll" /\ status = "save_submitted",
         UNCHANGED <<physical, litter, runtime, save, run, conf, scratch, report, faults>>
  PROVE  CorpusInv'
<1>1. PICK c \in Collections : c = Head(todo)
  BY SeedingStage
<1>2. /\ c = "policy" => "knowledge" \in Recorded(ledger.pending)
      /\ HasPending /\ ledger.pending.gen = run /\ run \in Generations
      /\ litter = {} /\ ledger.cleanup = <<>>
      /\ report.phase # "passed" /\ report.summary # "succeeded"
      /\ todo = <<"policy">> => "knowledge" \in Recorded(ledger.pending)
  BY <1>1, SeedingStage
<1>3. /\ CanRecord(ledger, c, status) /\ ledger' = RecordDocument(ledger, c, status, chunks)
      /\ pc' = next
  BY <1>1 DEF Record, Go
<1>4. /\ HasPending' /\ (HasActive' <=> HasActive)
      /\ ledger' \in Ledger /\ ledger'.active = ledger.active
      /\ ledger'.cleanup = ledger.cleanup
      /\ ledger'.pending.gen = ledger.pending.gen
      /\ ledger'.pending.digest = ledger.pending.digest
      /\ ledger'.pending.docs[c].status = status
      /\ c \in Recorded(ledger'.pending)
      /\ \A k \in Collections : k # c => ledger'.pending.docs[k] = ledger.pending.docs[k]
      /\ LedgerInv' /\ StorageInv'
  BY <1>2, <1>3, DocumentRecorded
<1>5. CorpusTypeOK' /\ save' \in SaveTasks
  BY <1>3, <1>4, TypesFollow DEF ClientStates, CorpusInv, CorpusTypeOK
<1>6. SaveInv'
  <2>1. SUFFICES ASSUME save'.status = "running"
        PROVE  /\ pc' \in {"poll"} /\ HasPending'
               /\ \E k \in Collections :
                     /\ save'.doc = [gen |-> ledger'.pending.gen, collection |-> k]
                     /\ ledger'.pending.docs[k].status \in {"save_submitting", "save_submitted"}
    BY DEF SaveInv
  <2>2. pc' = "poll" /\ status = "save_submitted" /\ save' = save /\ save.status = "running"
    BY <1>3, <2>1
  <2>3. PICK k \in Collections :
           /\ save.doc = [gen |-> ledger.pending.gen, collection |-> k]
           /\ ledger.pending.docs[k].status \in {"save_submitting", "save_submitted"}
    BY <2>2 DEF CorpusInv, SaveInv
  <2>4. ledger'.pending.docs[k].status \in {"save_submitting", "save_submitted"}
    BY <1>4, <2>2, <2>3
  <2>5. save'.doc = [gen |-> ledger'.pending.gen, collection |-> k]
    BY <1>4, <2>2, <2>3
  <2> QED
    BY <1>4, <2>2, <2>4, <2>5
<1>7. todo' = <<"policy">> => "knowledge" \in Recorded(ledger'.pending)
  <2>1. HAVE todo' = <<"policy">>
  <2>2. CASE c = "knowledge"
    BY <1>4, <2>2
  <2>3. CASE c # "knowledge"
    <3>1. "knowledge" \in Recorded(ledger.pending)
      BY <1>1, <1>2, <2>1, <2>3
    <3>2. "knowledge" \in Collections /\ HasPending /\ HasPending'
      BY <1>2, <1>4 DEF Collections
    <3> QED
      BY <1>4, <2>3, <3>1, <3>2 DEF Recorded, HasPending
  <2> QED
    BY <2>2, <2>3
<1>8. StageInv'
  BY <1>1, <1>2, <1>3, <1>4, <1>7 DEF StageInv, Fresh, Recording, Seeding
<1>9. OutcomeInv'
  BY <1>2, <1>3, <1>4 DEF CorpusInv, OutcomeInv
<1> QED
  BY <1>4, <1>5, <1>6, <1>8, <1>9 DEF CorpusInv

\* A wizard is created and recorded.
LEMMA CreateDocumentKeeps == CorpusInv /\ CreateDocument => CorpusInv'
<1> SUFFICES ASSUME CorpusInv, CreateDocument PROVE CorpusInv'
  OBVIOUS
<1>1. /\ pc = "create" /\ Record("created", {}, "upload") /\ todo' = todo
      /\ UNCHANGED <<physical, litter, runtime, save, run, conf, scratch, report, faults>>
  BY DEF CreateDocument
<1>2. pc \in Recording /\ "created" \in DocumentStates \ {"absent"} /\ {} \in SUBSET Chunks
  BY <1>1 DEF Recording, DocumentStates
<1>3. save.status # "running" /\ todo \in {<<"policy">>, <<"knowledge", "policy">>}
  BY <1>1, <1>2, SeedingStage
<1> QED
  BY <1>1, <1>2, <1>3, SeedingKeeps

\* Its fixtures are uploaded, and the save is recorded ahead.
LEMMA UploadDocumentKeeps == CorpusInv /\ UploadDocument => CorpusInv'
<1> SUFFICES ASSUME CorpusInv, UploadDocument PROVE CorpusInv'
  OBVIOUS
<1>1. /\ pc = "upload" /\ Record("save_submitting", {}, "submit") /\ todo' = todo
      /\ UNCHANGED <<physical, litter, runtime, save, run, conf, scratch, report, faults>>
  BY DEF UploadDocument
<1>2. pc \in Recording /\ "save_submitting" \in DocumentStates \ {"absent"} /\ {} \in SUBSET Chunks
  BY <1>1 DEF Recording, DocumentStates
<1>3. save.status # "running" /\ todo \in {<<"policy">>, <<"knowledge", "policy">>}
  BY <1>1, <1>2, SeedingStage
<1> QED
  BY <1>1, <1>2, <1>3, SeedingKeeps

\* The save was accepted.
LEMMA RecordSubmittedKeeps == CorpusInv /\ RecordSubmitted => CorpusInv'
<1> SUFFICES ASSUME CorpusInv, RecordSubmitted PROVE CorpusInv'
  OBVIOUS
<1>1. /\ pc = "submitted" /\ Record("save_submitted", {}, "poll") /\ todo' = todo
      /\ UNCHANGED <<physical, litter, runtime, save, run, conf, scratch, report, faults>>
  BY DEF RecordSubmitted
<1>2. pc \in Recording /\ "save_submitted" \in DocumentStates \ {"absent"} /\ {} \in SUBSET Chunks
  BY <1>1 DEF Recording, DocumentStates
<1>3. todo \in {<<"policy">>, <<"knowledge", "policy">>}
  BY <1>2, SeedingStage
<1> QED
  BY <1>1, <1>2, <1>3, SeedingKeeps

\* The save ended, and what it stored is recorded.
LEMMA RecordSavedKeeps == CorpusInv /\ RecordSaved => CorpusInv'
<1> SUFFICES ASSUME CorpusInv, RecordSaved PROVE CorpusInv'
  OBVIOUS
<1>1. /\ pc = "postcondition"
      /\ UNCHANGED <<physical, litter, runtime, save, run, conf, scratch, report, faults>>
  BY DEF RecordSaved
<1>2. pc \in Recording
  BY <1>1 DEF Recording
<1>3. /\ save.status # "running" /\ todo \in {<<"policy">>, <<"knowledge", "policy">>}
      /\ Doc(Head(todo)) \in Document /\ run \in Generations
      /\ report.phase # "passed" /\ report.summary # "succeeded"
  BY <1>1, <1>2, SeedingStage
<1>4. CASE pc' = "failed" /\ UNCHANGED <<ledger, todo>>
  <2>1. CorpusTypeOK' /\ save' \in SaveTasks
    BY <1>1, <1>4, TypesFollow DEF ClientStates, CorpusInv, CorpusTypeOK
  <2>2. LedgerInv' /\ StorageInv'
    BY <1>1, <1>4, NothingRecorded
  <2>3. SaveInv' /\ StageInv'
    BY <1>1, <1>3, <1>4 DEF SaveInv, StageInv, Fresh, Recording, Seeding
  <2>4. OutcomeInv'
    BY <1>1, <1>3, <1>4 DEF CorpusInv, OutcomeInv, HasActive, HasPending
  <2> QED
    BY <2>1, <2>2, <2>3, <2>4 DEF CorpusInv
<1>5. ASSUME NEW chunks, chunks = physical[Doc(Head(todo))], chunks # {},
             Record("saved", chunks, IF Len(todo) = 1 THEN "verify_replacement" ELSE "create"),
             todo' = Tail(todo)
      PROVE  CorpusInv'
  <2>1. chunks \in SUBSET Chunks /\ "saved" \in DocumentStates \ {"absent"}
    BY <1>3, <1>5 DEF CorpusInv, CorpusTypeOK, DocumentStates
  <2>2. CASE todo = <<"policy">>
    <3>1. Len(todo) = 1 /\ todo' = <<>>
      BY <1>5, <2>2
    <3>2. Record("saved", chunks, "verify_replacement") /\ todo' # <<"policy">>
      BY <1>5, <3>1
    <3> QED
      BY <1>1, <1>2, <1>3, <1>5, <2>1, <3>2, SeedingKeeps
  <2>3. CASE todo = <<"knowledge", "policy">>
    <3>1. Len(todo) = 2 /\ todo' = <<"policy">> /\ Head(todo) = "knowledge"
      BY <1>5, <2>3
    <3>2. Record("saved", chunks, "create")
      BY <1>5, <3>1
    <3> QED
      BY <1>1, <1>2, <1>3, <1>5, <2>1, <3>1, <3>2, SeedingKeeps
  <2> QED
    BY <1>3, <2>2, <2>3
<1> QED
  BY <1>4, <1>5 DEF RecordSaved, Go

\* A pending generation whose documents hold what is recorded is marked.
LEMMA VerifyReplacementKeeps == CorpusInv /\ VerifyReplacement => CorpusInv'
<1> SUFFICES ASSUME CorpusInv, VerifyReplacement PROVE CorpusInv'
  OBVIOUS
<1>1. /\ pc = "verify_replacement"
      /\ UNCHANGED <<physical, litter, runtime, save, run, conf, scratch, todo, report, faults>>
  BY DEF VerifyReplacement
<1>2. /\ HasPending /\ ledger.pending.gen = run /\ litter = {} /\ ledger.cleanup = <<>>
      /\ run \in Generations /\ save.status # "running"
      /\ report.phase # "passed" /\ report.summary # "succeeded"
  BY <1>1 DEF CorpusInv, StageInv, Seeding, SaveInv, OutcomeInv
<1>3. CASE pc' = "failed" /\ UNCHANGED ledger
  <2>1. CorpusTypeOK' /\ save' \in SaveTasks
    BY <1>1, <1>3, TypesFollow DEF ClientStates, CorpusInv, CorpusTypeOK
  <2>2. LedgerInv' /\ StorageInv'
    BY <1>1, <1>3, NothingRecorded
  <2>3. SaveInv' /\ StageInv'
    BY <1>1, <1>2, <1>3 DEF SaveInv, StageInv, Fresh, Recording, Seeding
  <2>4. OutcomeInv'
    BY <1>1, <1>2, <1>3 DEF CorpusInv, OutcomeInv, HasActive, HasPending
  <2> QED
    BY <2>1, <2>2, <2>3, <2>4 DEF CorpusInv
<1>4. CASE /\ GenerationStored(ledger.pending) /\ CanVerify(ledger)
           /\ ledger' = MarkVerified(ledger) /\ pc' = "promote"
  <2>1. PICK g \in Generation : g = ledger.pending /\ g # NoGeneration /\ g.gen \in Generations
    BY <1>2, LedgerFields DEF CorpusInv, HasPending
  <2>2. PICK w : w = [g EXCEPT !.verified = TRUE]
    OBVIOUS
  <2>3. /\ w \in Generation /\ w.gen = g.gen /\ w.digest = g.digest /\ w.docs = g.docs
        /\ w.verified /\ w.completed = g.completed
    BY <2>2 DEF Generation
  <2>4. ledger' = [ledger EXCEPT !.pending = w]
    BY <1>4, <2>1, <2>2 DEF MarkVerified
  <2>5. /\ ledger' \in Ledger /\ ledger'.pending = w
        /\ ledger'.active = ledger.active /\ ledger'.cleanup = ledger.cleanup
        /\ ledger'.exists = ledger.exists
    BY <2>3, <2>4, PendingChanged DEF CorpusInv
  <2>6. w # NoGeneration
    BY <2>1, <2>3, GenerationsAssumption DEF NoGeneration
  <2>7. HasPending' /\ (HasActive' <=> HasActive)
    BY <2>5, <2>6 DEF HasPending, HasActive
  <2>8. CorpusTypeOK' /\ save' \in SaveTasks
    BY <1>1, <1>4, <2>5, TypesFollow DEF ClientStates, CorpusInv, CorpusTypeOK
  <2>9. Recorded(w) = Recorded(g)
    BY <2>1, <2>3, <2>6 DEF Recorded
  <2>10. LedgerInv'
    <3>1. LedgerInv /\ ledger.exists
      BY <1>2 DEF CorpusInv, LedgerInv, HasPending, NoLedger
    <3>2. /\ GenerationValid(g) /\ ~g.completed /\ ledger.active.gen < g.gen /\ g.gen <= run
          /\ "policy" \in Recorded(g) => "knowledge" \in Recorded(g)
      BY <1>2, <2>1, <3>1 DEF LedgerInv
    <3>3. Saved(w)
      BY <1>4, <2>1, <2>3 DEF CanVerify, Saved
    <3>4. GenerationValid(w) /\ ~w.completed
      BY <2>3, <2>9, <3>2, <3>3 DEF GenerationValid
    <3> QED
      BY <1>1, <2>3, <2>5, <2>7, <2>9, <3>1, <3>2, <3>4 DEF LedgerInv
  <2>11. \A c : /\ Held(ledger.active, c)' = Held(ledger.active, c)
                /\ Held(ledger.pending, c)' = Held(ledger.pending, c)
    BY <1>1, <2>1, <2>3, <2>5 DEF Held
  <2>12. StorageInv'
    <3>1. StorageInv
      BY DEF CorpusInv
    <3> QED
      BY <1>1, <1>2, <2>1, <2>3, <2>5, <2>7, <2>11, <3>1 DEF StorageInv
  <2>13. SaveInv'
    BY <1>1, <1>2 DEF SaveInv
  <2>14. GenerationStored(ledger.pending)'
    BY <1>1, <1>4, <2>1, <2>3, <2>5 DEF GenerationStored
  <2>15. StageInv'
    BY <1>1, <1>2, <1>4, <2>1, <2>3, <2>5, <2>7, <2>14 DEF StageInv, Fresh, Recording, Seeding
  <2>16. OutcomeInv'
    BY <1>1, <1>2, <2>1, <2>3, <2>5, <2>7 DEF CorpusInv, OutcomeInv
  <2> QED
    BY <2>8, <2>10, <2>12, <2>13, <2>15, <2>16 DEF CorpusInv
<1> QED
  BY <1>3, <1>4 DEF VerifyReplacement, Go

\* The documents of a generation, as they are listed for the cleanup.
LEMMA RetiredFields ==
  ASSUME NEW g \in Generation
  PROVE  /\ RetiredDocuments(g) \in Seq(Retired) /\ DOMAIN RetiredDocuments(g) = {1, 2}
         /\ RetiredDocuments(g)[1].doc = [gen |-> g.gen, collection |-> "knowledge"]
         /\ RetiredDocuments(g)[1].chunks = g.docs["knowledge"].chunks
         /\ RetiredDocuments(g)[2].doc = [gen |-> g.gen, collection |-> "policy"]
         /\ RetiredDocuments(g)[2].chunks = g.docs["policy"].chunks
<1>1. /\ g.gen \in Generations /\ g.docs["knowledge"].chunks \in SUBSET Chunks
      /\ g.docs["policy"].chunks \in SUBSET Chunks
  BY DEF Generation, Entry, Collections
<1>2. PICK order : order = <<"knowledge", "policy">>
  OBVIOUS
<1>3. order[1] = "knowledge" /\ order[2] = "policy"
  BY <1>2
<1>4. PICK s : s = [i \in 1..2 |-> [doc |-> [gen |-> g.gen, collection |-> order[i]],
                                    chunks |-> g.docs[order[i]].chunks]]
  OBVIOUS
<1>5. s = RetiredDocuments(g)
  BY <1>2, <1>4 DEF RetiredDocuments
<1>6. 1..2 = {1, 2}
  OBVIOUS
<1>7. /\ s[1] = [doc |-> [gen |-> g.gen, collection |-> "knowledge"], chunks |-> g.docs["knowledge"].chunks]
      /\ s[2] = [doc |-> [gen |-> g.gen, collection |-> "policy"], chunks |-> g.docs["policy"].chunks]
  BY <1>3, <1>4, <1>6
<1>8. s[1] \in Retired /\ s[2] \in Retired
  BY <1>1, <1>7, DocumentNamed DEF Retired, Collections
<1>9. s \in [1..2 -> Retired]
  BY <1>4, <1>6, <1>8
<1>10. s \in Seq(Retired)
  <2>1. PICK a \in Retired, b \in Retired : a = s[1] /\ b = s[2]
    BY <1>8
  <2>2. s = <<a, b>>
    BY <1>6, <1>9, <2>1
  <2>3. <<a, b>> \in Seq(Retired)
    OBVIOUS
  <2> QED
    BY <2>2, <2>3
<1>11. DOMAIN s = {1, 2}
  BY <1>4, <1>6
<1>12. /\ s[1].doc = [gen |-> g.gen, collection |-> "knowledge"]
       /\ s[1].chunks = g.docs["knowledge"].chunks
       /\ s[2].doc = [gen |-> g.gen, collection |-> "policy"]
       /\ s[2].chunks = g.docs["policy"].chunks
  BY <1>7
<1> QED
  BY <1>5, <1>10, <1>11, <1>12, Zenon

\* What a promotion makes of the record: the pending generation is active, and the
\* documents of the one it replaces are all that is left to clean up.
LEMMA Promoted ==
  ASSUME CorpusInv, Promote
  PROVE  /\ HasPending /\ ledger.cleanup = <<>> /\ ledger.pending \in Generation
         /\ ledger' \in Ledger /\ ledger'.exists = ledger.exists
         /\ ledger'.active \in Generation /\ ledger'.pending = NoGeneration
         /\ HasActive' /\ ~HasPending'
         /\ ledger'.active.gen = ledger.pending.gen /\ ledger'.active.digest = ledger.pending.digest
         /\ ledger'.active.docs = ledger.pending.docs
         /\ ledger'.active.verified = ledger.pending.verified /\ ledger'.active.completed
         /\ ledger'.cleanup = IF HasActive THEN RetiredDocuments(ledger.active) ELSE <<>>
<1>1. HasPending /\ ledger.cleanup = <<>> /\ ledger.pending \in Generation
  BY LedgerFields DEF Promote, CorpusInv, StageInv, Seeding
<1>2. PICK g \in Generation : g = ledger.pending /\ g.gen \in Generations
  BY <1>1, LedgerFields DEF CorpusInv
<1>3. PICK w : w = [g EXCEPT !.completed = TRUE]
  OBVIOUS
<1>4. /\ w \in Generation /\ w.gen = g.gen /\ w.digest = g.digest /\ w.docs = g.docs
      /\ w.verified = g.verified /\ w.completed
  BY <1>3 DEF Generation
<1>5. PICK s \in Seq(Retired) : s = IF HasActive THEN RetiredDocuments(ledger.active) ELSE <<>>
  <2>1. CASE HasActive
    <3>1. RetiredDocuments(ledger.active) \in Seq(Retired)
      BY <2>1, LedgerFields, RetiredFields DEF CorpusInv
    <3> QED
      BY <2>1, <3>1
  <2>2. CASE ~HasActive
    <3>1. <<>> \in Seq(Retired)
      OBVIOUS
    <3> QED
      BY <2>2, <3>1
  <2> QED
    BY <2>1, <2>2
<1>6. <<>> \o s = s
  OBVIOUS
<1>7. ledger' = [ledger EXCEPT !.active = w, !.pending = NoGeneration, !.cleanup = s]
  BY <1>1, <1>2, <1>3, <1>5, <1>6 DEF Promote, PromoteReplacement, HasActive
<1>8. /\ ledger' \in Ledger /\ ledger'.active = w /\ ledger'.pending = NoGeneration
      /\ ledger'.cleanup = s /\ ledger'.exists = ledger.exists
  <2>1. ledger \in Ledger /\ w \in Generation \cup {NoGeneration}
        /\ NoGeneration \in Generation \cup {NoGeneration}
    BY <1>4 DEF CorpusInv, CorpusTypeOK
  <2> QED
    BY <1>7, <2>1 DEF Ledger
<1>9. w # NoGeneration
  BY <1>2, <1>4, GenerationsAssumption DEF NoGeneration
<1>10. HasActive' /\ ~HasPending'
  BY <1>8, <1>9 DEF HasActive, HasPending
<1> QED
  BY <1>1, <1>2, <1>4, <1>5, <1>8, <1>10

\* The pending generation is promoted.
LEMMA PromoteKeeps == CorpusInv /\ Promote => CorpusInv'
<1> SUFFICES ASSUME CorpusInv, Promote PROVE CorpusInv'
  OBVIOUS
<1>1. /\ pc = "promote" /\ pc' = "retire_cleanup"
      /\ UNCHANGED <<physical, litter, runtime, save, run, conf, scratch, todo, report, faults>>
  BY DEF Promote, Go
<1>2. /\ HasPending /\ ledger.pending.gen = run /\ litter = {} /\ ledger.cleanup = <<>>
      /\ run \in Generations /\ save.status # "running"
      /\ report.phase # "passed" /\ report.summary # "succeeded"
      /\ ledger.pending.verified /\ GenerationStored(ledger.pending)
  BY <1>1 DEF CorpusInv, StageInv, Seeding, SaveInv, OutcomeInv
<1>3. PICK g \in Generation, w \in Generation : g = ledger.pending /\ w = ledger'.active
  BY Promoted
<1>4. /\ ledger' \in Ledger /\ ledger'.exists = ledger.exists /\ ledger'.pending = NoGeneration
      /\ HasActive' /\ ~HasPending'
      /\ w.gen = g.gen /\ w.digest = g.digest /\ w.docs = g.docs
      /\ w.verified = g.verified /\ w.completed
      /\ ledger'.cleanup = IF HasActive THEN RetiredDocuments(ledger.active) ELSE <<>>
  BY <1>3, Promoted
<1>5. CorpusTypeOK' /\ save' \in SaveTasks
  BY <1>1, <1>4, TypesFollow DEF ClientStates, CorpusInv, CorpusTypeOK
<1>6. LedgerInv /\ StorageInv
  BY DEF CorpusInv
<1>7. /\ GenerationValid(g) /\ g.verified /\ Saved(g) /\ ledger.active.gen < g.gen /\ g.gen = run
  BY <1>2, <1>3, <1>6 DEF LedgerInv, GenerationValid
<1>8. w # NoGeneration /\ g # NoGeneration
  BY <1>2, <1>3, <1>4 DEF HasActive, HasPending
<1>9. GenerationValid(w) /\ Saved(w)
  <2>1. Recorded(w) = Recorded(g)
    BY <1>4, <1>8 DEF Recorded
  <2> QED
    BY <1>4, <1>7, <2>1 DEF GenerationValid, Saved
<1>10. ASSUME HasActive
       PROVE  /\ ledger.active \in Generation
              /\ \A c \in Collections : /\ Held(ledger.active, c) = ledger.active.docs[c].chunks
                                        /\ ledger.active.docs[c].chunks # {}
  <2>1. PICK a \in Generation : a = ledger.active /\ a # NoGeneration
    BY <1>10, LedgerFields DEF CorpusInv, HasActive
  <2>2. GenerationValid(a) /\ Saved(a)
    BY <1>6, <1>10, <2>1 DEF LedgerInv
  <2>3. \A c \in Collections : a.docs[c].chunks # {}
    BY <2>1, <2>2 DEF GenerationValid, Saved, Recorded, EntryValid
  <2> QED
    BY <1>6, <1>10, <2>1, <2>3 DEF StorageInv
<1>11. PICK s : s = ledger'.cleanup
  OBVIOUS
<1>12. \A i \in DOMAIN s : /\ HasActive /\ i \in {1, 2}
                           /\ s[i].doc.gen = ledger.active.gen
                           /\ s[i].chunks # {} /\ physical[s[i].doc] = s[i].chunks
  <2>1. CASE HasActive
    <3>1. PICK a \in Generation : a = ledger.active
      BY <1>10, <2>1
    <3>2. /\ DOMAIN s = {1, 2}
          /\ s[1].doc = [gen |-> a.gen, collection |-> "knowledge"]
          /\ s[1].chunks = a.docs["knowledge"].chunks
          /\ s[2].doc = [gen |-> a.gen, collection |-> "policy"]
          /\ s[2].chunks = a.docs["policy"].chunks
      BY <1>4, <1>11, <2>1, <3>1, RetiredFields
    <3>3. \A c \in {"knowledge", "policy"} : /\ physical[[gen |-> a.gen, collection |-> c]] = a.docs[c].chunks
                                             /\ a.docs[c].chunks # {}
      BY <1>10, <2>1, <3>1 DEF Held, Collections
    <3>4. /\ s[1].doc.gen = a.gen /\ physical[s[1].doc] = s[1].chunks /\ s[1].chunks # {}
          /\ s[2].doc.gen = a.gen /\ physical[s[2].doc] = s[2].chunks /\ s[2].chunks # {}
      BY <3>2, <3>3
    <3> QED
      BY <2>1, <3>1, <3>2, <3>4
  <2>2. CASE ~HasActive
    BY <1>4, <1>11, <2>2
  <2> QED
    BY <2>1, <2>2
<1>13. \A i, j \in DOMAIN s : s[i].doc = s[j].doc => i = j
  <2>1. CASE HasActive
    <3>1. PICK a \in Generation : a = ledger.active
      BY <1>10, <2>1
    <3>2. /\ DOMAIN s = {1, 2}
          /\ s[1].doc = [gen |-> a.gen, collection |-> "knowledge"]
          /\ s[2].doc = [gen |-> a.gen, collection |-> "policy"]
      BY <1>4, <1>11, <2>1, <3>1, RetiredFields
    <3>3. s[1].doc # s[2].doc
      BY <3>2
    <3> QED
      BY <3>2, <3>3
  <2>2. CASE ~HasActive
    BY <1>4, <1>11, <2>2
  <2> QED
    BY <2>1, <2>2
<1>14. LedgerInv'
  <2>1. ledger'.exists
    BY <1>2, <1>4, <1>6 DEF LedgerInv, HasPending, NoLedger
  <2>2. ledger'.active.gen = run /\ run' = run /\ run \in Nat /\ ledger'.pending.gen = 0
    BY <1>1, <1>3, <1>4, <1>7, LedgerFields DEF CorpusInv, NoGeneration
  <2>3. ledger'.active.gen <= run' /\ ledger'.pending.gen <= run'
    BY <2>2
  <2>4. \A i \in DOMAIN s : s[i].chunks # {} /\ s[i].doc.gen < w.gen
    BY <1>4, <1>7, <1>12
  <2> QED
    BY <1>3, <1>4, <1>7, <1>9, <1>11, <1>13, <2>1, <2>3, <2>4 DEF LedgerInv
<1>15. StorageInv'
  <2>1. \A c : Held(ledger.active, c)' = Held(g, c)
    BY <1>1, <1>3, <1>4 DEF Held
  <2>2. \A c \in Collections : Held(g, c) = w.docs[c].chunks
    BY <1>2, <1>3, <1>4 DEF GenerationStored, Held
  <2>3. \A i \in DOMAIN s : physical[s[i].doc] \subseteq s[i].chunks
    BY <1>12
  <2>4. ASSUME NEW d \in Document, physical[d] # {}
        PROVE  d.gen = w.gen \/ \E i \in DOMAIN s : d = s[i].doc
    <3>1. DOMAIN ledger.cleanup = {}
      BY <1>2
    <3>2. d.gen = ledger.active.gen \/ d.gen = g.gen
      BY <1>3, <1>6, <2>4, <3>1 DEF StorageInv
    <3>3. CASE d.gen = g.gen
      BY <1>4, <3>3
    <3>4. CASE d.gen = ledger.active.gen
      <4>1. HasActive
        BY <3>4, LedgerFields, GenerationsAssumption DEF CorpusInv, Document
      <4>2. PICK a \in Generation : a = ledger.active
        BY <1>10, <4>1
      <4>3. /\ DOMAIN s = {1, 2}
            /\ s[1].doc = [gen |-> a.gen, collection |-> "knowledge"]
            /\ s[2].doc = [gen |-> a.gen, collection |-> "policy"]
        BY <1>4, <1>11, <4>1, <4>2, RetiredFields
      <4>4. /\ d = [gen |-> a.gen, collection |-> d.collection]
            /\ d.collection \in {"knowledge", "policy"}
        BY <3>4, <4>2 DEF Document, Collections
      <4> QED
        BY <4>3, <4>4
    <3> QED
      BY <3>2, <3>3, <3>4
  <2> QED
    BY <1>1, <1>3, <1>4, <1>11, <2>1, <2>2, <2>3, <2>4 DEF StorageInv
<1>16. SaveInv'
  BY <1>1, <1>2 DEF SaveInv
<1>17. StageInv'
  <2>1. ledger'.exists
    BY <1>2, <1>4, <1>6 DEF LedgerInv, HasPending, NoLedger
  <2> QED
    BY <1>1, <1>2, <1>4, <2>1 DEF StageInv, Fresh, Recording, Seeding
<1>18. OutcomeInv'
  BY <1>1, <1>2, <1>3, <1>4 DEF CorpusInv, OutcomeInv
<1> QED
  BY <1>5, <1>14, <1>15, <1>16, <1>17, <1>18 DEF CorpusInv

---------------------------------------------------------------------------
(* Every run of the client *)

\* Before the first run.
LEMMA CorpusStarts == CorpusInit => CorpusInv
<1> SUFFICES ASSUME CorpusInit PROVE CorpusInv
  OBVIOUS
<1>1. ledger = NoLedger /\ ~HasActive /\ ~HasPending /\ ledger.cleanup = <<>>
      /\ ledger.active.gen = 0 /\ ledger.pending.gen = 0 /\ run = 0
  BY DEF CorpusInit, NoLedger, NoGeneration, HasActive, HasPending
<1>2. ledger \in Ledger
  <2>1. <<>> \in Seq(Retired)
    OBVIOUS
  <2> QED
    BY <1>1, <2>1 DEF NoLedger, Ledger
<1>3. \E n \in 0..3 : scratch = SubSeq(Scratch, 1, n)
  BY ScratchLists DEF CorpusInit
<1>4. 0 \in 0..MaxFaults
  BY FaultsAssumption
<1>5. CorpusTypeOK /\ save \in SaveTasks
  BY <1>2, <1>3, <1>4 DEF CorpusInit, CorpusTypeOK, ClientStates, NoSave, SaveTasks
<1>6. LedgerInv
  BY <1>1 DEF LedgerInv
<1>7. StorageInv
  BY <1>1 DEF StorageInv, CorpusInit
<1>8. SaveInv /\ StageInv /\ OutcomeInv
  BY <1>1 DEF CorpusInit, SaveInv, StageInv, OutcomeInv, NoSave, Fresh, Recording, Seeding
<1> QED
  BY <1>5, <1>6, <1>7, <1>8 DEF CorpusInv

\* Nothing happens.
LEMMA CorpusStutters == CorpusInv /\ UNCHANGED corpusVars => CorpusInv'
<1> SUFFICES ASSUME CorpusInv, UNCHANGED corpusVars PROVE CorpusInv'
  OBVIOUS
<1>1. UNCHANGED <<ledger, physical, litter, runtime, save, pc, run, conf, scratch, todo, report, faults>>
  BY DEF corpusVars
<1>2. CorpusTypeOK' /\ save' \in SaveTasks
  BY <1>1 DEF CorpusInv, CorpusTypeOK
<1>3. LedgerInv' /\ StorageInv'
  BY <1>1, NothingRecorded
<1>4. SaveInv'
  BY <1>1 DEF CorpusInv, SaveInv, HasPending
<1>5. StageInv'
  BY <1>1 DEF CorpusInv, StageInv, HasPending, Held, GenerationStored
<1>6. OutcomeInv'
  BY <1>1 DEF CorpusInv, OutcomeInv, Installed, HasActive, HasPending
<1> QED
  BY <1>2, <1>3, <1>4, <1>5, <1>6 DEF CorpusInv

\* Every step keeps the invariant.
LEMMA CorpusKeeps == CorpusInv /\ [CorpusNext]_corpusVars => CorpusInv'
<1> SUFFICES ASSUME CorpusInv, [CorpusNext]_corpusVars PROVE CorpusInv'
  OBVIOUS
<1>1. CASE UNCHANGED corpusVars
  BY <1>1, CorpusStutters
<1>2. CASE \E digest \in Digests, policy \in Policies, reseed \in BOOLEAN : Begin(digest, policy, reseed)
  BY <1>2, BeginKeeps
<1>3. CASE PreDown \/ Up \/ UpCleansUp \/ PostDown \/ StartTrace \/ DeleteTrace
           \/ FirstMembership \/ ScratchStep \/ ScratchPassed \/ ScratchDeleted
  BY <1>3, PreDownKeeps, UpKeeps, UpCleansUpKeeps, PostDownKeeps, StartTraceKeeps, DeleteTraceKeeps,
     FirstMembershipKeeps, ScratchStepKeeps, ScratchPassedKeeps, ScratchDeletedKeeps, Zenon
<1>4. CASE \E deleted \in BOOLEAN : ScratchDelete(deleted)
  BY <1>4, ScratchDeleteKeeps
<1>5. CASE EnterCleanup \/ PendingDocumentGone \/ DiscardRetired \/ CleanupDocumentGone \/ CleanedUp
  BY <1>5, EnterCleanupKeeps, PendingDocumentGoneKeeps, DiscardRetiredKeeps,
     CleanupDocumentGoneKeeps, CleanedUpKeeps, Zenon
<1>6. CASE \E chunk \in Chunks : DeletePendingBatch(chunk) \/ DeleteCleanupBatch(chunk)
  BY <1>6, DeletePendingBatchKeeps, DeleteCleanupBatchKeeps
<1>7. CASE Reuse
  <2>1. conf.policy \in Policies
    BY DEF CorpusInv, CorpusTypeOK
  <2> QED
    BY <1>7, <2>1, ReuseKeeps
<1>8. CASE BeginGeneration \/ CreateDocument \/ UploadDocument \/ Submit \/ RecordSubmitted \/ Poll
           \/ RecordSaved \/ VerifyReplacement \/ Promote \/ FinalVerify \/ CheckFailed
  BY <1>8, BeginGenerationKeeps, CreateDocumentKeeps, UploadDocumentKeeps, SubmitKeeps,
     RecordSubmittedKeeps, PollKeeps, RecordSavedKeeps, VerifyReplacementKeeps, PromoteKeeps,
     FinalVerifyKeeps, CheckFailedKeeps, Zenon
<1>9. CASE \E chunk \in Chunks : SaveChunk(chunk)
  BY <1>9, SaveChunkKeeps
<1>10. CASE \E kept \in SUBSET Chunks : SaveFails(kept)
  BY <1>10, SaveFailsKeeps
<1>11. CASE StepFails \/ Killed
  BY <1>11, StepFailsKeeps, KilledKeeps, Zenon
<1> QED
  BY <1>1, <1>2, <1>3, <1>4, <1>5, <1>6, <1>7, <1>8, <1>9, <1>10, <1>11, Zenon DEF CorpusNext, ClientStep

---------------------------------------------------------------------------
(* What the invariant means *)

\* A list without duplicates names as many documents as it is long.
LEMMA ListedOnce ==
  ASSUME NEW S, NEW s \in Seq(S), \A i, j \in DOMAIN s : s[i].doc = s[j].doc => i = j
  PROVE  Cardinality({s[i].doc : i \in DOMAIN s}) = Len(s)
<1> DEFINE T == {s[i].doc : i \in DOMAIN s}
           f == [i \in 1..Len(s) |-> s[i].doc]
<1>1. DOMAIN s = 1..Len(s) /\ Len(s) \in Nat
  OBVIOUS
<1>2. f \in Injection(1..Len(s), T)
  BY <1>1 DEF Injection, IsInjective
<1>3. f \in Surjection(1..Len(s), T)
  BY <1>1 DEF Surjection
<1>4. ExistsBijection(1..Len(s), T)
  BY <1>2, <1>3 DEF ExistsBijection, Bijection
<1> QED
  BY <1>1, <1>4, FS_CountingElements

\* The record that is left on disk loads.
LEMMA RecordLoads == CorpusInv => LedgerLoads
<1> SUFFICES ASSUME CorpusInv PROVE Loadable(ledger)
  BY DEF LedgerLoads
<1>1. LedgerInv /\ CorpusTypeOK
  BY DEF CorpusInv
<1>2. /\ ledger.active # NoGeneration => /\ GenerationValid(ledger.active)
                                         /\ ledger.active.completed /\ ledger.active.verified
                                         /\ Saved(ledger.active)
      /\ ledger.pending # NoGeneration => GenerationValid(ledger.pending) /\ ~ledger.pending.completed
  BY <1>1 DEF LedgerInv, HasActive, HasPending
<1>3. PICK s \in Seq(Retired) : s = ledger.cleanup
  BY <1>1, LedgerFields
<1>4. /\ \A i \in DOMAIN s : s[i].chunks # {} /\ s[i].doc.gen < ledger.active.gen /\ s[i].doc.gen \in Nat
      /\ \A i, j \in DOMAIN s : s[i].doc = s[j].doc => i = j
  BY <1>1, <1>3, CleanupFields DEF LedgerInv
<1>5. ledger.active.gen \in Nat /\ ledger.pending.gen \in Nat
      /\ (ledger.active = NoGeneration => ledger.active.gen = 0)
      /\ (ledger.pending # NoGeneration => ledger.active.gen < ledger.pending.gen)
  BY <1>1, LedgerFields DEF LedgerInv, HasActive, HasPending
<1>6. ledger.active = NoGeneration => s = <<>>
  <2>1. HAVE ledger.active = NoGeneration
  <2>2. ~ 1 \in DOMAIN s
    BY <1>4, <1>5, <2>1
  <2> QED
    BY <2>2
<1>7. /\ \A d \in DocumentsOf(ledger.active) : d.gen = ledger.active.gen /\ ledger.active # NoGeneration
      /\ \A d \in DocumentsOf(ledger.pending) : d.gen = ledger.pending.gen /\ ledger.pending # NoGeneration
      /\ \A d \in CleanupDocuments(ledger) : \E i \in DOMAIN s : d = s[i].doc
  BY <1>3 DEF DocumentsOf, Recorded, CleanupDocuments
<1>8. DocumentsOf(ledger.active) \cap DocumentsOf(ledger.pending) = {}
  BY <1>5, <1>7
<1>9. CleanupDocuments(ledger) \cap (DocumentsOf(ledger.active) \cup DocumentsOf(ledger.pending)) = {}
  <2>1. SUFFICES ASSUME NEW d \in CleanupDocuments(ledger),
                        d \in DocumentsOf(ledger.active) \/ d \in DocumentsOf(ledger.pending)
                 PROVE  FALSE
    OBVIOUS
  <2>2. d.gen \in Nat /\ d.gen < ledger.active.gen
    BY <1>4, <1>7
  <2>3. d.gen = ledger.active.gen \/ (d.gen = ledger.pending.gen /\ ledger.active.gen < ledger.pending.gen)
    BY <1>5, <1>7, <2>1
  <2> QED
    BY <1>5, <2>2, <2>3
<1>10. Cardinality(CleanupDocuments(ledger)) = Len(ledger.cleanup)
  <2>1. Cardinality({s[i].doc : i \in DOMAIN s}) = Len(s)
    BY <1>4, ListedOnce
  <2> QED
    BY <1>3, <2>1 DEF CleanupDocuments
<1>11. \A i \in DOMAIN ledger.cleanup : ledger.cleanup[i].chunks # {}
  BY <1>3, <1>4
<1>12. ledger.active = NoGeneration => ledger.cleanup = <<>>
  BY <1>3, <1>6
<1> QED
  BY <1>2, <1>8, <1>9, <1>10, <1>11, <1>12, Zenon DEF Loadable

\* The active generation is intact, and every stored chunk has a document.
LEMMA StorageAsRecorded == CorpusInv => ActiveIntact /\ NoStrayDocuments
<1> SUFFICES ASSUME CorpusInv PROVE ActiveIntact /\ NoStrayDocuments
  OBVIOUS
<1>1. LedgerInv /\ StorageInv /\ CorpusTypeOK
  BY DEF CorpusInv
<1>2. ActiveIntact
  BY <1>1 DEF ActiveIntact, GenerationStored, LedgerInv, StorageInv, HasActive, Held, Saved
<1>3. NoStrayDocuments
  <2>1. SUFFICES ASSUME NEW d \in Document, physical[d] # {}
                 PROVE  \/ d \in DocumentsOf(ledger.active) \/ d \in DocumentsOf(ledger.pending)
                        \/ d \in CleanupDocuments(ledger)
    BY DEF NoStrayDocuments
  <2>2. /\ d.gen \in Generations /\ d.gen # 0 /\ d.collection \in Collections
        /\ d = [gen |-> d.gen, collection |-> d.collection]
    BY GenerationsAssumption DEF Document
  <2>3. CASE d.gen = ledger.active.gen
    <3>1. HasActive
      BY <1>1, <2>2, <2>3, LedgerFields
    <3>2. d.collection \in Recorded(ledger.active)
      BY <1>1, <2>2, <3>1 DEF LedgerInv, HasActive, Recorded, Saved
    <3> QED
      BY <2>2, <2>3, <3>2 DEF DocumentsOf
  <2>4. CASE d.gen = ledger.pending.gen
    <3>1. HasPending
      BY <1>1, <2>2, <2>4, LedgerFields
    <3>2. Held(ledger.pending, d.collection) # {}
      BY <2>1, <2>2, <2>4 DEF Held
    <3>3. d.collection \in Recorded(ledger.pending)
      BY <1>1, <2>2, <3>1, <3>2 DEF StorageInv, HasPending, Recorded
    <3> QED
      BY <2>2, <2>4, <3>3 DEF DocumentsOf
  <2>5. CASE \E i \in DOMAIN ledger.cleanup : d = ledger.cleanup[i].doc
    BY <2>5 DEF CleanupDocuments
  <2> QED
    BY <1>1, <2>1, <2>3, <2>4, <2>5 DEF StorageInv
<1> QED
  BY <1>2, <1>3

\* The one case in which the next run refuses the storage.
LEMMA RefusalExplained == CorpusInv => RefusedOnlyAfterPartialDeletion
<1> SUFFICES ASSUME CorpusInv, ~MembershipValid(ledger, physical, FALSE)
             PROVE  \E c \in Recorded(ledger.pending) :
                       /\ ledger.pending.docs[c].status = "saved"
                       /\ physical[Pending(c)] # ledger.pending.docs[c].chunks
  BY DEF RefusedOnlyAfterPartialDeletion, Refused
<1>1. \A d \in Document : physical[d] # {} =>
         d \in DocumentsOf(ledger.active) \cup DocumentsOf(ledger.pending) \cup CleanupDocuments(ledger)
  BY StorageAsRecorded DEF NoStrayDocuments
<1>2. \A c \in Recorded(ledger.active) :
         physical[[gen |-> ledger.active.gen, collection |-> c]] = ledger.active.docs[c].chunks
  BY DEF CorpusInv, StorageInv, HasActive, Recorded, Held
<1>3. \A i \in DOMAIN ledger.cleanup : physical[ledger.cleanup[i].doc] \subseteq ledger.cleanup[i].chunks
  BY DEF CorpusInv, StorageInv
<1>4. PICK c \in Recorded(ledger.pending) :
         ~PendingMatches(ledger.pending.docs[c], physical[[gen |-> ledger.pending.gen, collection |-> c]])
  BY <1>1, <1>2, <1>3, Zenon DEF MembershipValid
<1>5. HasPending /\ c \in Collections
  BY <1>4 DEF Recorded, HasPending
<1>6. ledger.pending.docs[c].status = "created" => physical[[gen |-> ledger.pending.gen, collection |-> c]] = {}
  BY <1>5 DEF CorpusInv, StorageInv, Held
<1>7. PICK e, found : /\ e = ledger.pending.docs[c]
                      /\ found = physical[[gen |-> ledger.pending.gen, collection |-> c]]
  OBVIOUS
<1>8. e.status = "saved" /\ found # e.chunks
  <2>1. ~PendingMatches(e, found) /\ (e.status = "created" => found = {})
    BY <1>4, <1>6, <1>7
  <2> QED
    BY <2>1 DEF PendingMatches
<1> QED
  BY <1>4, <1>7, <1>8 DEF Pending

\* All that CorpusSafe says.
LEMMA InvariantIsSafe == CorpusInv => CorpusSafe /\ SucceededMeansInstalled
<1> SUFFICES ASSUME CorpusInv PROVE CorpusSafe /\ SucceededMeansInstalled
  OBVIOUS
<1>1. CorpusSafe
  BY RecordLoads, StorageAsRecorded, RefusalExplained DEF CorpusSafe, CorpusInv
<1>2. SucceededMeansInstalled
  <2>1. SUFFICES ASSUME report.summary = "succeeded"
        PROVE  /\ ~runtime /\ litter = {}
               /\ ledger.active.gen # 0 /\ ledger.active.digest = conf.digest
               /\ GenerationStored(ledger.active)
               /\ ledger.pending = NoGeneration /\ ledger.cleanup = <<>>
    BY DEF SucceededMeansInstalled
  <2>2. ~runtime /\ litter = {} /\ HasActive /\ ledger.active.digest = conf.digest
        /\ ledger.pending = NoGeneration /\ ledger.cleanup = <<>>
    BY <2>1 DEF CorpusInv, OutcomeInv, Installed, HasPending
  <2>3. ledger.active.gen # 0
    BY <2>2, LedgerFields DEF CorpusInv
  <2>4. GenerationStored(ledger.active)
    BY <2>2, StorageAsRecorded DEF ActiveIntact, HasActive
  <2> QED
    BY <2>2, <2>3, <2>4
<1> QED
  BY <1>1, <1>2

\* Only a promotion changes the active generation, and it keeps track of the replaced one.
LEMMA PromotionTracks ==
  ASSUME CorpusInv, [CorpusNext]_corpusVars, ledger'.active.gen # ledger.active.gen
  PROVE  /\ GenerationStored(ledger'.active)
         /\ DocumentsOf(ledger.active) \subseteq CleanupDocuments(ledger')
         /\ CleanupDocuments(ledger) \subseteq CleanupDocuments(ledger')
<1>1. Promote
  <2>1. ~UNCHANGED ledger
    OBVIOUS
  <2>2. CASE EnterCleanup
    <3>1. ledger' = NewState /\ ~ledger.exists
      BY <2>1, <2>2 DEF EnterCleanup
    <3>2. ledger = NoLedger
      BY <3>1 DEF CorpusInv, LedgerInv
    <3> QED
      BY <3>1, <3>2 DEF NewState, NoLedger
  <2>3. CASE DiscardRetired
    <3>1. ledger' = [ledger EXCEPT !.pending = NoGeneration]
      BY <2>3 DEF DiscardRetired, DiscardPending
    <3> QED
      BY <3>1, PendingChanged DEF CorpusInv
  <2>4. CASE CleanupDocumentGone
    BY <2>4 DEF CleanupDocumentGone, RemoveCleanup, CorpusInv, CorpusTypeOK, Ledger
  <2>5. CASE Reuse
    <3>1. ledger' = [ledger EXCEPT !.active.policy = conf.policy]
          /\ ledger \in Ledger /\ ledger.active \in Generation
      BY <2>1, <2>5, LedgerFields DEF Reuse, RecordPolicy, CorpusInv, CorpusTypeOK, HasActive
    <3> QED
      BY <3>1 DEF Ledger, Generation
  <2>6. CASE BeginGeneration \/ CreateDocument \/ UploadDocument \/ RecordSubmitted \/ RecordSaved \/ VerifyReplacement
    <3>1. \E g : ledger' = [ledger EXCEPT !.pending = g]
      <4>1. CASE BeginGeneration
        BY <4>1 DEF BeginGeneration, BeginReplacement
      <4>2. CASE CreateDocument \/ UploadDocument \/ RecordSubmitted \/ RecordSaved
        <5>1. \E status, chunks : ledger' = RecordDocument(ledger, Head(todo), status, chunks)
          BY <2>1, <4>2 DEF CreateDocument, UploadDocument, RecordSubmitted, RecordSaved, Record
        <5> QED
          BY <5>1 DEF RecordDocument
      <4>3. CASE VerifyReplacement
        BY <2>1, <4>3 DEF VerifyReplacement, MarkVerified
      <4> QED
        BY <2>6, <4>1, <4>2, <4>3
    <3> QED
      BY <3>1 DEF CorpusInv, CorpusTypeOK, Ledger
  <2>7. UNCHANGED ledger \/ EnterCleanup \/ DiscardRetired \/ CleanupDocumentGone \/ Reuse
        \/ BeginGeneration \/ CreateDocument \/ UploadDocument \/ RecordSubmitted \/ RecordSaved
        \/ VerifyReplacement \/ Promote
    <3>1. CASE UNCHANGED corpusVars
      BY <3>1 DEF corpusVars
    <3>2. CASE \E digest \in Digests, policy \in Policies, reseed \in BOOLEAN : Begin(digest, policy, reseed)
      BY <3>2 DEF Begin
    <3>3. CASE PreDown \/ Up \/ UpCleansUp \/ PostDown \/ StartTrace \/ DeleteTrace
      BY <3>3 DEF PreDown, Up, UpCleansUp, PostDown, StartTrace, DeleteTrace
    <3>4. CASE FirstMembership \/ ScratchStep \/ ScratchPassed \/ ScratchDeleted
      BY <3>4 DEF FirstMembership, CheckMembership, ScratchStep, ScratchPassed, ScratchDeleted
    <3>5. CASE \E deleted \in BOOLEAN : ScratchDelete(deleted)
      BY <3>5 DEF ScratchDelete
    <3>6. CASE \E chunk \in Chunks : DeletePendingBatch(chunk) \/ DeleteCleanupBatch(chunk)
      BY <3>6 DEF DeletePendingBatch, DeleteCleanupBatch, DeleteBatch
    <3>7. CASE PendingDocumentGone \/ CleanedUp \/ Submit \/ Poll \/ FinalVerify \/ CheckFailed
      BY <3>7 DEF PendingDocumentGone, CleanedUp, Submit, Poll, FinalVerify, CheckFailed
    <3>8. CASE \E chunk \in Chunks : SaveChunk(chunk)
      BY <3>8 DEF SaveChunk
    <3>9. CASE \E kept \in SUBSET Chunks : SaveFails(kept)
      BY <3>9 DEF SaveFails
    <3>10. CASE StepFails \/ Killed
      BY <3>10 DEF StepFails, Killed
    <3> QED
      BY <3>1, <3>2, <3>3, <3>4, <3>5, <3>6, <3>7, <3>8, <3>9, <3>10, Zenon DEF CorpusNext, ClientStep
  <2> QED
    BY <2>1, <2>2, <2>3, <2>4, <2>5, <2>6, <2>7
<1>2. /\ HasPending /\ ledger.pending \in Generation /\ ledger.cleanup = <<>>
      /\ ledger'.active \in Generation /\ ledger'.active.gen = ledger.pending.gen
      /\ ledger'.active.docs = ledger.pending.docs
      /\ ledger'.cleanup = IF HasActive THEN RetiredDocuments(ledger.active) ELSE <<>>
  BY <1>1, Promoted
<1>3. GenerationStored(ledger'.active)
  <2>1. GenerationStored(ledger.pending)
    BY <1>1 DEF Promote, CorpusInv, StageInv
  <2> QED
    BY <1>2, <2>1 DEF GenerationStored
<1>4. DocumentsOf(ledger.active) \subseteq CleanupDocuments(ledger')
  <2>1. SUFFICES ASSUME NEW d \in DocumentsOf(ledger.active) PROVE d \in CleanupDocuments(ledger')
    OBVIOUS
  <2>2. PICK c \in Collections : d = [gen |-> ledger.active.gen, collection |-> c] /\ HasActive
    BY DEF DocumentsOf, Recorded, HasActive
  <2>3. PICK s : s = ledger'.cleanup /\ s = RetiredDocuments(ledger.active)
    BY <1>2, <2>2
  <2>4. /\ DOMAIN s = {1, 2}
        /\ s[1].doc = [gen |-> ledger.active.gen, collection |-> "knowledge"]
        /\ s[2].doc = [gen |-> ledger.active.gen, collection |-> "policy"]
    BY <2>2, <2>3, RetiredFields, LedgerFields DEF CorpusInv
  <2>5. \E i \in DOMAIN s : d = s[i].doc
    BY <2>2, <2>4 DEF Collections
  <2> QED
    BY <2>3, <2>5 DEF CleanupDocuments
<1>5. CleanupDocuments(ledger) = {}
  BY <1>2 DEF CleanupDocuments
<1> QED
  BY <1>3, <1>4, <1>5

---------------------------------------------------------------------------
(* The evaluation bridge.  A job is a record; what is true of each job by   *)
(* itself is JobSound, and the only thing that is true of two jobs is that  *)
(* they do not both hold the lock.                                          *)

Threads == {"idle", "lock", "admitted", "spawned", "communicate", "stopping", "done", "dead"}
Alive == {"starting", "reading", "supervising", "terminating"}
Verdicts == {"none", "succeeded", "partial", "failed", "timeout"}
JobRecords ==
    [thread : Threads, caller : {"idle", "submitted", "cancelling", "cancelled"}, cancel : BOOLEAN,
     published : BOOLEAN, sup : Alive \cup {"none", "exited"}, term : BOOLEAN, code : Nat,
     group : SUBSET {"leader", "evaluator"}, launched : BOOLEAN, verdict : Verdicts,
     expired : BOOLEAN, result : Verdicts \cup {"cancelled"}]

\* The job's thread has the lock's descriptor open, or a process of the job has.
JobHolds(j) ==
    j.thread \in {"admitted", "spawned", "communicate", "stopping"} \/ j.sup \in Alive \/ j.group # {}

\* What is true of each job.  The thread publishes a worker after it has spawned it,
\* and ends after the supervisor has; a supervisor has a group only while it
\* supervises, unless it was killed; and an evaluation that counts as a success has
\* nobody left who could change its verdict.
JobSound(j) ==
    /\ j \in JobRecords
    /\ j.thread \in {"idle", "lock", "admitted"} => j.sup = "none" /\ ~j.published
    /\ j.thread = "spawned" => ~j.published
    /\ j.caller \in {"cancelling", "cancelled"} => j.cancel
    /\ j.caller = "cancelled" /\ j.published /\ j.sup \in Alive => j.term
    /\ j.sup \in {"none", "starting", "reading"} => j.group = {}
    /\ j.sup = "exited" /\ j.code # 9 => j.group = {}
    /\ j.thread = "done" => j.sup \notin Alive
    /\ j.verdict \in {"succeeded", "partial"} => j.launched
    /\ j.result \in {"succeeded", "partial"} =>
          /\ j.thread = "done" /\ "leader" \notin j.group
          /\ j.launched /\ j.verdict = j.result /\ j.code = 0

JobInv ==
    /\ job \in [Clients -> JobRecords]
    /\ \A c \in Clients : JobSound(job[c])
    /\ \A c, other \in Clients : c # other => ~(Holds(c) /\ Holds(other))

---------------------------------------------------------------------------
(* One job *)

\* What follows a job that is sound is sound, and takes no lock.
Follows(j, n) == JobSound(n) /\ (JobHolds(n) => JobHolds(j))

\* A job at rest is sound, and holds nothing.
LEMMA RestedSound ==
  ASSUME NEW n, JobSound(n)
  PROVE  JobSound(Rested(n)) /\ (JobHolds(Rested(n)) => JobHolds(n))
<1>1. n \in JobRecords
  BY DEF JobSound
<1>2. CASE n.thread \in {"done", "dead"} /\ n.sup \in {"none", "exited"} /\ n.group = {}
  <2>1. CASE n.result \in {"succeeded", "partial"}
    <3>1. PICK m : m = [JobNone EXCEPT !.thread = "done", !.result = n.result, !.verdict = n.verdict,
                                       !.launched = n.launched, !.code = n.code]
      OBVIOUS
    <3>2. /\ m.thread = "done" /\ m.result = n.result /\ m.verdict = n.verdict /\ m.launched = n.launched
          /\ m.code = n.code /\ m.caller = "idle" /\ m.cancel = FALSE /\ m.published = FALSE
          /\ m.sup = "none" /\ m.term = FALSE /\ m.group = {} /\ m.expired = FALSE
      BY <3>1 DEF JobNone
    <3>3. m \in JobRecords
      <4>1. PICK result, said, launched, code :
               /\ result = n.result /\ said = n.verdict /\ launched = n.launched /\ code = n.code
               /\ result \in Verdicts \cup {"cancelled"} /\ said \in Verdicts
               /\ launched \in BOOLEAN /\ code \in Nat
        BY <1>1 DEF JobRecords
      <4>2. m = [thread |-> "done", caller |-> "idle", cancel |-> FALSE, published |-> FALSE,
                 sup |-> "none", term |-> FALSE, code |-> code, group |-> {}, launched |-> launched,
                 verdict |-> said, expired |-> FALSE, result |-> result]
        BY <3>1, <4>1 DEF JobNone
      <4> QED
        BY <4>1, <4>2 DEF JobRecords, Threads, Alive
    <3>4. JobSound(m) /\ ~JobHolds(m)
      BY <2>1, <3>2, <3>3 DEF JobSound, JobHolds, Alive
    <3>5. Rested(n) = m
      BY <1>2, <2>1, <3>1 DEF Rested
    <3> QED
      BY <3>4, <3>5
  <2>2. CASE n.result \notin {"succeeded", "partial"}
    <3>1. PICK m : m = [JobNone EXCEPT !.thread = "done"]
      OBVIOUS
    <3>2. /\ m.thread = "done" /\ m.result = "none" /\ m.verdict = "none"
          /\ m.caller = "idle" /\ m.sup = "none" /\ m.group = {}
      BY <3>1 DEF JobNone
    <3>3. m \in JobRecords
      BY <3>1 DEF JobNone, JobRecords, Threads, Alive, Verdicts
    <3>4. JobSound(m) /\ ~JobHolds(m)
      BY <3>2, <3>3 DEF JobSound, JobHolds, Alive
    <3>5. Rested(n) = m
      BY <1>2, <2>2, <3>1 DEF Rested
    <3> QED
      BY <3>4, <3>5
  <2> QED
    BY <2>1, <2>2
<1>3. CASE ~(n.thread \in {"done", "dead"} /\ n.sup \in {"none", "exited"} /\ n.group = {})
  BY <1>3 DEF Rested
<1> QED
  BY <1>2, <1>3

\* Ending a job whose supervisor is gone.
LEMMA EndedSound ==
  ASSUME NEW j, JobSound(j), j.sup \notin Alive, NEW result \in Verdicts \cup {"cancelled"},
         result \in {"succeeded", "partial"} =>
            "leader" \notin j.group /\ j.verdict = result /\ j.code = 0,
         NEW n, n = Ended(j, result)
  PROVE  Follows(j, n)
<1>1. n = [j EXCEPT !.thread = "done", !.published = FALSE, !.result = result] /\ j \in JobRecords
  BY DEF Ended, JobSound
<1>2. n \in JobRecords
  BY <1>1, ZenonT(40) DEF JobRecords, Threads, Verdicts
<1>3. /\ n.thread = "done" /\ n.published = FALSE /\ n.result = result /\ n.sup = j.sup /\ n.group = j.group
      /\ n.code = j.code /\ n.verdict = j.verdict /\ n.launched = j.launched /\ n.caller = j.caller
      /\ n.cancel = j.cancel
  BY <1>1 DEF JobRecords
<1>4. JobSound(n)
  BY <1>2, <1>3 DEF JobSound
<1>5. JobHolds(n) => JobHolds(j)
  BY <1>3 DEF JobHolds
<1> QED
  BY <1>4, <1>5 DEF Follows

\* The thread's steps before it publishes the worker.
LEMMA ThreadSteps ==
  ASSUME NEW j, JobSound(j), NEW n,
         \/ j.thread = "idle" /\ n = [j EXCEPT !.caller = "submitted", !.thread = "lock"]
         \/ j.thread = "admitted" /\ n = [j EXCEPT !.thread = "spawned", !.sup = "starting"]
         \/ j.thread = "spawned" /\ j.cancel
            /\ n = [j EXCEPT !.thread = "stopping", !.published = TRUE, !.term = TRUE]
         \/ j.thread = "spawned" /\ ~j.cancel /\ n = [j EXCEPT !.thread = "communicate", !.published = TRUE]
         \/ j.thread = "communicate" /\ n = [j EXCEPT !.thread = "stopping", !.term = TRUE]
  PROVE  Follows(j, n)
<1>0. j \in JobRecords
  BY DEF JobSound
<1> USE DEF JobRecords, Threads, Alive, Verdicts
<1>1. n \in JobRecords
  <2>1. CASE n = [j EXCEPT !.caller = "submitted", !.thread = "lock"]
    BY <1>0, <2>1
  <2>2. CASE n = [j EXCEPT !.thread = "spawned", !.sup = "starting"]
    BY <1>0, <2>2
  <2>3. CASE n = [j EXCEPT !.thread = "stopping", !.published = TRUE, !.term = TRUE]
    BY <1>0, <2>3
  <2>4. CASE n = [j EXCEPT !.thread = "communicate", !.published = TRUE]
    BY <1>0, <2>4
  <2>5. CASE n = [j EXCEPT !.thread = "stopping", !.term = TRUE]
    BY <1>0, <2>5
  <2> QED
    BY <2>1, <2>2, <2>3, <2>4, <2>5
<1>2. /\ n.sup = j.sup \/ (j.thread = "admitted" /\ n.sup = "starting" /\ n.thread = "spawned")
      /\ n.group = j.group /\ n.code = j.code /\ n.verdict = j.verdict
      /\ n.launched = j.launched /\ n.cancel = j.cancel /\ n.result = j.result
  BY <1>0
<1>3. /\ n.caller = j.caller \/ n.caller = "submitted"
      /\ j.caller = "cancelled" /\ n.published => n.term \/ j.published \/ ~j.cancel
      /\ j.term => n.term
      /\ n.thread \in {"lock", "spawned"} => n.published = j.published
      /\ n.thread \in {"lock", "spawned", "communicate", "stopping"}
      /\ n.thread = "lock" => j.thread = "idle"
      /\ n.thread = "spawned" => j.thread = "admitted"
      /\ n.thread \in {"communicate", "stopping"} => j.thread \in {"spawned", "communicate"}
  BY <1>0, ZenonT(40)
<1>4. JobSound(n)
  BY <1>1, <1>2, <1>3 DEF JobSound
<1>5. JobHolds(n) => JobHolds(j)
  BY <1>2, <1>3 DEF JobHolds
<1> QED
  BY <1>4, <1>5 DEF Follows

\* The steps of a cancellation: a worker that it finds gets a SIGTERM.
LEMMA CancelSteps ==
  ASSUME NEW j, JobSound(j), NEW n,
         \/ n = [j EXCEPT !.caller = "cancelling", !.cancel = TRUE]
         \/ j.caller = "cancelling" /\ n = [j EXCEPT !.caller = "cancelled", !.term = TRUE]
         \/ /\ j.caller = "cancelling" /\ ~(j.published /\ j.sup \in Alive)
            /\ n = [j EXCEPT !.caller = "cancelled"]
  PROVE  Follows(j, n)
<1>0. j \in JobRecords
  BY DEF JobSound
<1> USE DEF JobRecords, Threads, Alive, Verdicts
<1>1. CASE n = [j EXCEPT !.caller = "cancelling", !.cancel = TRUE]
  <2>1. n \in JobRecords
    BY <1>0, <1>1
  <2>2. JobSound(n) /\ (JobHolds(n) => JobHolds(j))
    BY <1>0, <1>1, <2>1 DEF JobSound, JobHolds
  <2> QED
    BY <2>2 DEF Follows
<1>2. CASE j.caller = "cancelling" /\ n = [j EXCEPT !.caller = "cancelled", !.term = TRUE]
  <2>1. n \in JobRecords
    BY <1>0, <1>2
  <2>2. JobSound(n) /\ (JobHolds(n) => JobHolds(j))
    BY <1>0, <1>2, <2>1 DEF JobSound, JobHolds
  <2> QED
    BY <2>2 DEF Follows
<1>3. CASE /\ j.caller = "cancelling" /\ ~(j.published /\ j.sup \in Alive)
           /\ n = [j EXCEPT !.caller = "cancelled"]
  <2>1. n \in JobRecords
    BY <1>0, <1>3
  <2>2. JobSound(n) /\ (JobHolds(n) => JobHolds(j))
    BY <1>0, <1>3, <2>1 DEF JobSound, JobHolds
  <2> QED
    BY <2>2 DEF Follows
<1> QED
  BY <1>1, <1>2, <1>3

\* The supervisor's steps, and its death.  While it lives the job is not done.
LEMMA SupervisorSteps ==
  ASSUME NEW j, JobSound(j), j.sup \in Alive, NEW n,
         \/ j.sup = "starting" /\ n = [j EXCEPT !.sup = "reading"]
         \/ \E code \in Nat : j.sup \in {"starting", "reading"} /\ n = Exits(j, code)
         \/ n = Exits(j, 9)
         \/ j.thread = "communicate" /\ n = [j EXCEPT !.sup = "supervising", !.group = {"leader"}]
         \/ \E code \in Nat : n = [j EXCEPT !.sup = "terminating", !.code = code]
         \/ \E survivors \in SUBSET j.group : j.sup = "terminating" /\ n = [j EXCEPT !.group = survivors]
         \/ n = Exits([j EXCEPT !.group = {}], j.code)
  PROVE  Follows(j, n)
<1>0. j \in JobRecords /\ j.thread # "done" /\ j.result \notin {"succeeded", "partial"}
      /\ j.thread \notin {"idle", "lock", "admitted"}
  BY DEF JobSound, Alive
<1> USE DEF JobRecords, Threads, Alive, Verdicts
<1>1. ASSUME j.sup = "starting" /\ n = [j EXCEPT !.sup = "reading"]
      PROVE  JobSound(n)
  <2>1. n \in JobRecords
    BY <1>0, <1>1
  <2> QED
    BY <1>0, <1>1, <2>1 DEF JobSound
<1>2. ASSUME \E code \in Nat : j.sup \in {"starting", "reading"} /\ n = Exits(j, code)
      PROVE  JobSound(n)
  <2>1. PICK code \in Nat : j.sup \in {"starting", "reading"} /\ n = [j EXCEPT !.sup = "exited", !.code = code]
    BY <1>2 DEF Exits
  <2>2. n \in JobRecords
    BY <1>0, <2>1
  <2>3. /\ n.thread = j.thread /\ n.caller = j.caller /\ n.result = j.result /\ n.verdict = j.verdict
        /\ n.sup \in {"none", "starting", "reading"} => n.group = {}
        /\ n.sup = "exited" /\ n.code # 9 => n.group = {}
    BY <1>0, <2>1 DEF JobSound
  <2>4. (n.cancel <=> j.cancel) /\ (n.published <=> j.published) /\ (n.term <=> j.term)
        /\ (n.launched <=> j.launched)
    BY <1>0, <2>1
  <2> HIDE DEF JobRecords, Threads, Alive, Verdicts
  <2> QED
    BY <1>0, <2>2, <2>3, <2>4 DEF JobSound
<1>3. ASSUME n = Exits(j, 9)
      PROVE  JobSound(n)
  <2>1. n = [j EXCEPT !.sup = "exited", !.code = 9]
    BY <1>3 DEF Exits
  <2>2. n \in JobRecords
    BY <1>0, <2>1, ZenonT(40)
  <2>3. /\ n.thread = j.thread /\ n.caller = j.caller /\ n.result = j.result /\ n.verdict = j.verdict
        /\ n.sup \in {"none", "starting", "reading"} => n.group = {}
        /\ n.sup = "exited" /\ n.code # 9 => n.group = {}
    BY <1>0, <2>1, ZenonT(40) DEF JobSound
  <2>4. (n.cancel <=> j.cancel) /\ (n.published <=> j.published) /\ (n.term <=> j.term)
        /\ (n.launched <=> j.launched)
    BY <1>0, <2>1
  <2> HIDE DEF JobRecords, Threads, Alive, Verdicts
  <2> QED
    BY <1>0, <2>2, <2>3, <2>4 DEF JobSound
<1>4. ASSUME j.thread = "communicate" /\ n = [j EXCEPT !.sup = "supervising", !.group = {"leader"}]
      PROVE  JobSound(n)
  <2>1. n \in JobRecords
    BY <1>0, <1>4
  <2> QED
    BY <1>0, <1>4, <2>1 DEF JobSound
<1>5. ASSUME \E code \in Nat : n = [j EXCEPT !.sup = "terminating", !.code = code]
      PROVE  JobSound(n)
  <2>1. PICK code \in Nat : n = [j EXCEPT !.sup = "terminating", !.code = code]
    BY <1>5
  <2>2. n \in JobRecords
    BY <1>0, <2>1, ZenonT(40)
  <2>3. /\ n.thread = j.thread /\ n.caller = j.caller /\ n.result = j.result /\ n.verdict = j.verdict
        /\ n.sup \in {"none", "starting", "reading"} => n.group = {}
        /\ n.sup = "exited" /\ n.code # 9 => n.group = {}
    BY <1>0, <2>1, ZenonT(40) DEF JobSound
  <2>4. (n.cancel <=> j.cancel) /\ (n.published <=> j.published) /\ (n.term <=> j.term)
        /\ (n.launched <=> j.launched)
    BY <1>0, <2>1
  <2> HIDE DEF JobRecords, Threads, Alive, Verdicts
  <2> QED
    BY <1>0, <2>2, <2>3, <2>4 DEF JobSound
<1>6. ASSUME \E survivors \in SUBSET j.group : j.sup = "terminating" /\ n = [j EXCEPT !.group = survivors]
      PROVE  JobSound(n)
  <2>1. PICK survivors \in SUBSET j.group : j.sup = "terminating" /\ n = [j EXCEPT !.group = survivors]
    BY <1>6
  <2>0. survivors \in SUBSET {"leader", "evaluator"}
    BY <1>0
  <2>2. n \in JobRecords
    BY <1>0, <2>0, <2>1
  <2>3. /\ n.thread = j.thread /\ n.caller = j.caller /\ n.result = j.result /\ n.verdict = j.verdict
        /\ n.sup \in {"none", "starting", "reading"} => n.group = {}
        /\ n.sup = "exited" /\ n.code # 9 => n.group = {}
    BY <1>0, <2>1 DEF JobSound
  <2>4. (n.cancel <=> j.cancel) /\ (n.published <=> j.published) /\ (n.term <=> j.term)
        /\ (n.launched <=> j.launched)
    BY <1>0, <2>1
  <2> HIDE DEF JobRecords, Threads, Alive, Verdicts
  <2> QED
    BY <1>0, <2>2, <2>3, <2>4 DEF JobSound
<1>7. ASSUME n = Exits([j EXCEPT !.group = {}], j.code)
      PROVE  JobSound(n)
  <2>1. n = [j EXCEPT !.group = {}, !.sup = "exited", !.code = j.code]
    BY <1>7 DEF Exits
  <2>0. {} \in SUBSET {"leader", "evaluator"}
    OBVIOUS
  <2>2. n \in JobRecords
    BY <1>0, <2>0, <2>1, ZenonT(40)
  <2>3. /\ n.thread = j.thread /\ n.caller = j.caller /\ n.result = j.result /\ n.verdict = j.verdict
        /\ n.sup \in {"none", "starting", "reading"} => n.group = {}
        /\ n.sup = "exited" /\ n.code # 9 => n.group = {}
    BY <1>0, <2>1 DEF JobSound
  <2>4. (n.cancel <=> j.cancel) /\ (n.published <=> j.published) /\ (n.term <=> j.term)
        /\ (n.launched <=> j.launched)
    BY <1>0, <2>1
  <2> HIDE DEF JobRecords, Threads, Alive, Verdicts
  <2> QED
    BY <1>0, <2>2, <2>3, <2>4 DEF JobSound
<1>10. JobHolds(j)
  BY DEF JobHolds
<1> QED
  BY <1>1, <1>2, <1>3, <1>4, <1>5, <1>6, <1>7, <1>10 DEF Follows

\* The steps of the admitted group, of the clocks and of a client that is killed.
\* While the group has its leader no result counts as a success.
LEMMA GroupSteps ==
  ASSUME NEW j, JobSound(j), NEW n,
         \/ "leader" \in j.group /\ n = [j EXCEPT !.group = @ \cup {"evaluator"}, !.launched = TRUE]
         \/ "leader" \in j.group /\ n = [j EXCEPT !.group = @ \ {"leader"}, !.verdict = "failed"]
         \/ n = [j EXCEPT !.group = @ \ {"evaluator"}]
         \/ \E said \in Verdicts : /\ "leader" \in j.group /\ j.launched
                                      /\ n = [j EXCEPT !.group = {}, !.verdict = said]
         \/ n = [j EXCEPT !.group = {}]
         \/ n = [j EXCEPT !.expired = TRUE]
         \/ n = [j EXCEPT !.group = @ \ {"leader"}]
         \/ j.thread # "idle" /\ n = [j EXCEPT !.thread = "dead", !.result = "none"]
  PROVE  Follows(j, n)
<1>0. /\ j \in JobRecords
      /\ {} \in SUBSET {"leader", "evaluator"}
      /\ \A g \in SUBSET {"leader", "evaluator"} :
            g \cup {"evaluator"} \in SUBSET {"leader", "evaluator"}
            /\ g \ {"leader"} \in SUBSET {"leader", "evaluator"}
            /\ g \ {"evaluator"} \in SUBSET {"leader", "evaluator"}
  BY DEF JobSound
<1> USE DEF JobRecords, Threads, Alive, Verdicts
<1>1. CASE "leader" \in j.group /\ n = [j EXCEPT !.group = @ \cup {"evaluator"}, !.launched = TRUE]
  <2>1. n \in JobRecords
    BY <1>0, <1>1
  <2>2. JobSound(n)
    BY <1>0, <1>1, <2>1 DEF JobSound
  <2>3. JobHolds(j)
    BY <1>1 DEF JobHolds
  <2> QED
    BY <2>2, <2>3 DEF Follows
<1>2. CASE "leader" \in j.group /\ n = [j EXCEPT !.group = @ \ {"leader"}, !.verdict = "failed"]
  <2>1. n \in JobRecords
    BY <1>0, <1>2
  <2>2. JobSound(n)
    BY <1>0, <1>2, <2>1 DEF JobSound
  <2>3. JobHolds(j)
    BY <1>2 DEF JobHolds
  <2> QED
    BY <2>2, <2>3 DEF Follows
<1>3. CASE n = [j EXCEPT !.group = @ \ {"evaluator"}] \/ n = [j EXCEPT !.group = {}]
           \/ n = [j EXCEPT !.group = @ \ {"leader"}]
  <2>1. PICK g \in SUBSET j.group : n = [j EXCEPT !.group = g]
    BY <1>0, <1>3
  <2>2. g \in SUBSET {"leader", "evaluator"}
    BY <1>0, <2>1
  <2>3. n \in JobRecords
    BY <1>0, <2>1, <2>2
  <2>4. JobSound(n)
    BY <1>0, <2>1, <2>3 DEF JobSound
  <2>5. JobHolds(n) => JobHolds(j)
    BY <1>0, <2>1 DEF JobHolds
  <2> QED
    BY <2>4, <2>5 DEF Follows
<1>4. CASE \E said \in Verdicts : /\ "leader" \in j.group /\ j.launched
                                     /\ n = [j EXCEPT !.group = {}, !.verdict = said]
  <2>1. PICK said \in Verdicts : /\ "leader" \in j.group /\ j.launched
                                    /\ n = [j EXCEPT !.group = {}, !.verdict = said]
    BY <1>4
  <2>2. n \in JobRecords
    BY <1>0, <2>1
  <2>3. JobSound(n)
    BY <1>0, <2>1, <2>2 DEF JobSound
  <2>4. JobHolds(j)
    BY <2>1 DEF JobHolds
  <2> QED
    BY <2>3, <2>4 DEF Follows
<1>5. CASE n = [j EXCEPT !.expired = TRUE]
  <2>1. n \in JobRecords
    BY <1>0, <1>5
  <2>2. JobSound(n) /\ (JobHolds(n) => JobHolds(j))
    BY <1>0, <1>5, <2>1 DEF JobSound, JobHolds
  <2> QED
    BY <2>2 DEF Follows
<1>6. CASE j.thread # "idle" /\ n = [j EXCEPT !.thread = "dead", !.result = "none"]
  <2>1. n \in JobRecords
    BY <1>0, <1>6
  <2>2. JobSound(n) /\ (JobHolds(n) => JobHolds(j))
    BY <1>0, <1>6, <2>1 DEF JobSound, JobHolds
  <2> QED
    BY <2>2 DEF Follows
<1> QED
  BY <1>1, <1>2, <1>3, <1>4, <1>5, <1>6

---------------------------------------------------------------------------
(* All of them *)

\* A job that is updated: the others are as they were, and if it takes no lock, no
\* two hold one.
LEMMA UpdateKeeps ==
  ASSUME JobInv, NEW c \in Clients, NEW n, Update(c, n), JobSound(n),
         (JobHolds(n) => JobHolds(job[c])) \/ \A other \in Clients : ~Holds(other)
  PROVE  JobInv'
<1>1. PICK m : m = Rested(n)
  OBVIOUS
<1>2. JobSound(m) /\ (JobHolds(m) => JobHolds(n)) /\ m \in JobRecords
  BY <1>1, RestedSound DEF JobSound
<1>3. /\ job' \in [Clients -> JobRecords] /\ job'[c] = m
      /\ \A other \in Clients : other # c => job'[other] = job[other]
  BY <1>1, <1>2 DEF JobInv, Update
<1>4. \A d \in Clients : /\ Holds(d) <=> JobHolds(job[d])
                         /\ Holds(d)' <=> JobHolds(job'[d])
  BY DEF Holds, ThreadHolds, SupAlive, JobHolds, Alive
<1>5. \A d \in Clients : JobSound(job'[d])
  BY <1>2, <1>3 DEF JobInv
<1>6. \A d \in Clients : Holds(d)' => Holds(d) \/ (d = c /\ \A other \in Clients : ~Holds(other))
  BY <1>2, <1>3, <1>4
<1>7. \A d \in Clients : d # c => (Holds(d)' <=> Holds(d))
  BY <1>3, <1>4
<1>8. ASSUME NEW d \in Clients, NEW other \in Clients, d # other
      PROVE  ~(Holds(d)' /\ Holds(other)')
  BY <1>6, <1>7, <1>8 DEF JobInv
<1> QED
  BY <1>3, <1>5, <1>8 DEF JobInv

\* A step of one job that is as Follows allows keeps what is true of every job, as
\* nobody else holds the lock it takes.
LEMMA FollowKeeps ==
  ASSUME JobInv, NEW c \in Clients, NEW n, Update(c, n), Follows(job[c], n)
  PROVE  JobInv'
BY UpdateKeeps DEF Follows

\* What each process of a job does, the lock apart, follows from the job.
LEMMA StepFollows ==
  ASSUME JobInv, NEW c \in Clients, JobStep(c), ~TakeLock(c)
  PROVE  \E n : Update(c, n) /\ Follows(job[c], n)
<1>0. PICK j : j = job[c] /\ JobSound(j) /\ j \in JobRecords
  BY DEF JobInv
<1>1. CASE SubmitJob(c)
  BY <1>0, <1>1, ThreadSteps DEF SubmitJob
<1>2. CASE LockCancelled(c)
  <2>1. j.sup \notin Alive /\ "cancelled" \in Verdicts \cup {"cancelled"}
    BY <1>0, <1>2 DEF LockCancelled, JobSound, Alive
  <2>2. PICK n : n = Ended(j, "cancelled")
    OBVIOUS
  <2>3. Follows(j, n)
    BY <1>0, <2>1, <2>2, EndedSound
  <2> QED
    BY <1>0, <1>2, <2>2, <2>3 DEF LockCancelled
<1>3. CASE SpawnWorker(c)
  <2>1. j.thread = "admitted" /\ j.sup \notin Alive
    BY <1>0, <1>3 DEF SpawnWorker, JobSound, Alive
  <2>2. \A result \in {"cancelled", "timeout", "failed"} : Follows(j, Ended(j, result))
    <3>1. TAKE result \in {"cancelled", "timeout", "failed"}
    <3>2. PICK n : n = Ended(j, result)
      OBVIOUS
    <3>3. result \in Verdicts \cup {"cancelled"} /\ result \notin {"succeeded", "partial"}
      BY DEF Verdicts
    <3>4. Follows(j, n)
      BY <1>0, <2>1, <3>2, <3>3, EndedSound
    <3> QED
      BY <3>2, <3>4
  <2>3. PICK n : n = [j EXCEPT !.thread = "spawned", !.sup = "starting"]
    OBVIOUS
  <2>4. Follows(j, n)
    BY <1>0, <2>1, <2>3, ThreadSteps
  <2> QED
    BY <1>0, <1>3, <2>2, <2>3, <2>4 DEF SpawnWorker
<1>4. CASE PublishWorker(c)
  <2>1. PICK n : n = IF j.cancel
                     THEN [j EXCEPT !.thread = "stopping", !.published = TRUE, !.term = TRUE]
                     ELSE [j EXCEPT !.thread = "communicate", !.published = TRUE]
    OBVIOUS
  <2>2. Follows(j, n)
    BY <1>0, <1>4, <2>1, ThreadSteps DEF PublishWorker
  <2> QED
    BY <1>0, <1>4, <2>1, <2>2 DEF PublishWorker
<1>5. CASE WorkerEnds(c)
  <2>1. PICK result : /\ result = CASE j.code = 124 -> "timeout"
                                    [] j.code # 124 /\ j.cancel -> "cancelled"
                                    [] ~j.cancel /\ j.code = 0 -> j.verdict
                                    [] OTHER -> "failed"
                      /\ Update(c, Ended(j, result))
    BY <1>0, <1>5 DEF WorkerEnds
  <2>2. j.sup \notin Alive /\ "leader" \notin j.group
    BY <1>0, <1>5 DEF WorkerEnds, SupAlive, Alive
  <2>3. \/ result \in {"timeout", "cancelled", "failed"}
        \/ j.code = 0 /\ result = j.verdict
    BY <2>1
  <2>4. /\ result \in Verdicts \cup {"cancelled"}
        /\ result \in {"succeeded", "partial"} => j.verdict = result /\ j.code = 0
    BY <1>0, <2>3 DEF JobRecords, Verdicts
  <2>5. PICK n : n = Ended(j, result)
    OBVIOUS
  <2>6. Follows(j, n)
    BY <1>0, <2>2, <2>4, <2>5, EndedSound
  <2> QED
    BY <1>0, <2>1, <2>5, <2>6
<1>6. CASE CommunicateTimeout(c)
  BY <1>0, <1>6, ThreadSteps DEF CommunicateTimeout
<1>7. CASE WorkerStopped(c)
  <2>1. PICK result : result = (IF j.cancel THEN "cancelled" ELSE "timeout") /\ Update(c, Ended(j, result))
    BY <1>0, <1>7 DEF WorkerStopped
  <2>2. j.sup \notin Alive /\ result \in Verdicts \cup {"cancelled"} /\ result \notin {"succeeded", "partial"}
    BY <1>0, <1>7, <2>1 DEF WorkerStopped, SupAlive, Alive, Verdicts
  <2>3. PICK n : n = Ended(j, result)
    OBVIOUS
  <2>4. Follows(j, n)
    BY <1>0, <2>2, <2>3, EndedSound
  <2> QED
    BY <1>0, <2>1, <2>3, <2>4
<1>8. CASE CancelJob(c)
  BY <1>0, <1>8, CancelSteps DEF CancelJob
<1>9. CASE CancelWorker(c)
  <2>1. PICK n : n = IF j.published /\ j.sup \in Alive
                     THEN [j EXCEPT !.caller = "cancelled", !.term = TRUE]
                     ELSE [j EXCEPT !.caller = "cancelled"]
    OBVIOUS
  <2>2. Update(c, n) /\ j.caller = "cancelling"
    BY <1>0, <1>9, <2>1 DEF CancelWorker, SupAlive, Alive
  <2>3. Follows(j, n)
    BY <1>0, <2>1, <2>2, CancelSteps
  <2> QED
    BY <1>0, <2>2, <2>3
<1>10. CASE SupStart(c)
  <2>1. j.sup = "starting" /\ j.sup \in Alive /\ 2 \in Nat
    BY <1>0, <1>10 DEF SupStart, Alive
  <2>2. PICK n : n = IF j.term THEN Exits(j, 2) ELSE [j EXCEPT !.sup = "reading"]
    OBVIOUS
  <2>3. Follows(j, n)
    BY <1>0, <2>1, <2>2, SupervisorSteps
  <2> QED
    BY <1>0, <1>10, <2>2, <2>3 DEF SupStart
<1>11. CASE SupRead(c)
  <2>1. j.sup = "reading" /\ j.sup \in Alive /\ 2 \in Nat /\ 124 \in Nat /\ 130 \in Nat
    BY <1>0, <1>11 DEF SupRead, Alive
  <2>2. PICK n : /\ n = CASE j.term -> Exits(j, 130)
                          [] ~j.term /\ j.expired -> Exits(j, 124)
                          [] OTHER -> IF j.thread = "communicate"
                                      THEN [j EXCEPT !.sup = "supervising", !.group = {"leader"}]
                                      ELSE Exits(j, 2)
                 /\ Update(c, n)
    BY <1>0, <1>11 DEF SupRead
  <2>3. \/ n = Exits(j, 130) \/ n = Exits(j, 124) \/ n = Exits(j, 2)
        \/ j.thread = "communicate" /\ n = [j EXCEPT !.sup = "supervising", !.group = {"leader"}]
    BY <2>2
  <2>4. Follows(j, n)
    BY <1>0, <2>1, <2>3, SupervisorSteps, ZenonT(40)
  <2> QED
    BY <1>0, <2>2, <2>4
<1>12. CASE SupLeaves(c)
  <2>1. j.sup \in Alive
    BY <1>0, <1>12 DEF SupLeaves, Alive
  <2>2. PICK code \in Nat : Update(c, [j EXCEPT !.sup = "terminating", !.code = code])
    BY <1>0, <1>12 DEF SupLeaves
  <2>3. PICK n : n = [j EXCEPT !.sup = "terminating", !.code = code]
    OBVIOUS
  <2>4. Follows(j, n)
    BY <1>0, <2>1, <2>3, SupervisorSteps
  <2> QED
    BY <1>0, <2>2, <2>3, <2>4
<1>13. CASE \E survivors \in SUBSET {"leader", "evaluator"} : TermGroup(c, survivors)
  <2>1. PICK survivors \in SUBSET j.group :
           j.sup = "terminating" /\ Update(c, [j EXCEPT !.group = survivors])
    BY <1>0, <1>13 DEF TermGroup
  <2>2. PICK n : n = [j EXCEPT !.group = survivors]
    OBVIOUS
  <2>3. Follows(j, n)
    <3>1. j.sup \in Alive
      BY <2>1 DEF Alive
    <3> QED
      BY <1>0, <2>1, <2>2, <3>1, SupervisorSteps
  <2> QED
    BY <1>0, <2>1, <2>2, <2>3
<1>14. CASE KillGroup(c)
  <2>1. j.sup \in Alive /\ Update(c, Exits([j EXCEPT !.group = {}], j.code))
    BY <1>0, <1>14 DEF KillGroup, Alive
  <2>2. PICK n : n = Exits([j EXCEPT !.group = {}], j.code)
    OBVIOUS
  <2>3. Follows(j, n)
    BY <1>0, <2>1, <2>2, SupervisorSteps
  <2> QED
    BY <1>0, <2>1, <2>2, <2>3
<1>15. CASE LaunchEvaluator(c)
  BY <1>0, <1>15, GroupSteps DEF LaunchEvaluator
<1>16. CASE HydrationFails(c)
  BY <1>0, <1>16, GroupSteps DEF HydrationFails
<1>17. CASE EvaluatorEnds(c)
  BY <1>0, <1>17, GroupSteps DEF EvaluatorEnds
<1>18. CASE \E said \in {"succeeded", "partial", "failed", "timeout"} : LeaderAnswers(c, said)
  <2>1. PICK said \in Verdicts : /\ "leader" \in j.group /\ j.launched
                                    /\ Update(c, [j EXCEPT !.group = {}, !.verdict = said])
    BY <1>0, <1>18 DEF LeaderAnswers, Verdicts
  <2>2. PICK n : n = [j EXCEPT !.group = {}, !.verdict = said]
    OBVIOUS
  <2>3. Follows(j, n)
    BY <1>0, <2>1, <2>2, GroupSteps
  <2> QED
    BY <1>0, <2>1, <2>2, <2>3
<1>19. CASE OrphanDeadline(c)
  BY <1>0, <1>19, GroupSteps DEF OrphanDeadline
<1>20. CASE Expire(c)
  BY <1>0, <1>20, GroupSteps DEF Expire
<1>21. CASE KillSupervisor(c)
  <2>1. j.sup \in Alive /\ Update(c, Exits(j, 9))
    BY <1>0, <1>21 DEF KillSupervisor, SupAlive, Alive
  <2>2. PICK n : n = Exits(j, 9)
    OBVIOUS
  <2>3. Follows(j, n)
    BY <1>0, <2>1, <2>2, SupervisorSteps
  <2> QED
    BY <1>0, <2>1, <2>2, <2>3
<1>22. CASE KillLeader(c)
  BY <1>0, <1>22, GroupSteps DEF KillLeader
<1>23. CASE KillClient(c)
  BY <1>0, <1>23, GroupSteps DEF KillClient
<1> QED
  BY <1>1, <1>2, <1>3, <1>4, <1>5, <1>6, <1>7, <1>8, <1>9, <1>10, <1>11, <1>12, <1>13, <1>14,
     <1>15, <1>16, <1>17, <1>18, <1>19, <1>20, <1>21, <1>22, <1>23, Zenon DEF JobStep, JobProgress

\* At first there is no job.
LEMMA JobStarts == JobInit => JobInv
<1> SUFFICES ASSUME JobInit PROVE JobInv
  OBVIOUS
<1>1. JobNone \in JobRecords /\ JobSound(JobNone) /\ ~JobHolds(JobNone)
  <2>1. PICK m : m = JobNone
    OBVIOUS
  <2>2. m \in JobRecords
    BY <2>1 DEF JobNone, JobRecords, Threads, Alive, Verdicts
  <2>3. m.thread = "idle" /\ m.caller = "idle" /\ m.sup = "none" /\ m.group = {} /\ m.verdict = "none"
        /\ m.result = "none" /\ ~m.published
    BY <2>1 DEF JobNone
  <2>4. JobSound(m) /\ ~JobHolds(m)
    BY <2>2, <2>3 DEF JobSound, JobHolds, Alive
  <2> QED
    BY <2>1, <2>2, <2>4
<1>2. \A c \in Clients : job[c] = JobNone
  BY DEF JobInit
<1>3. \A c \in Clients : Holds(c) <=> JobHolds(job[c])
  BY DEF Holds, ThreadHolds, SupAlive, JobHolds, Alive
<1> QED
  BY <1>1, <1>2, <1>3 DEF JobInit, JobInv

\* Every step of a job is such a step.
LEMMA JobKeeps == JobInv /\ [JobNext]_jobVars => JobInv'
<1> SUFFICES ASSUME JobInv, [JobNext]_jobVars PROVE JobInv'
  OBVIOUS
<1>1. ASSUME NEW c \in Clients, JobStep(c), ~TakeLock(c) PROVE JobInv'
  BY <1>1, StepFollows, FollowKeeps
<1>2. ASSUME NEW c \in Clients, TakeLock(c) PROVE JobInv'
  <2>1. PICK j : j = job[c] /\ JobSound(j) /\ j \in JobRecords /\ j.thread = "lock"
    BY <1>2 DEF JobInv, TakeLock
  <2>2. PICK n : n = [j EXCEPT !.thread = "admitted"]
    OBVIOUS
  <2>3. n \in JobRecords
    BY <2>1, <2>2 DEF JobRecords, Threads, Alive, Verdicts
  <2>4. JobSound(n)
    <3>1. /\ n.thread = "admitted" /\ n.caller = j.caller /\ n.sup = j.sup /\ n.group = j.group
          /\ n.code = j.code /\ n.verdict = j.verdict /\ n.result = j.result
      BY <2>1, <2>2 DEF JobRecords
    <3>2. (n.cancel <=> j.cancel) /\ (n.published <=> j.published) /\ (n.term <=> j.term)
          /\ (n.launched <=> j.launched)
      BY <2>1, <2>2 DEF JobRecords
    <3> QED
      BY <2>1, <2>3, <3>1, <3>2 DEF JobSound
  <2>5. Update(c, n) /\ \A other \in Clients : ~Holds(other)
    BY <1>2, <2>1, <2>2 DEF TakeLock
  <2> QED
    BY <2>4, <2>5, UpdateKeeps
<1>3. CASE UNCHANGED jobVars
  BY <1>3 DEF jobVars, JobInv, Holds, ThreadHolds, SupAlive
<1> QED
  BY <1>1, <1>2, <1>3 DEF JobNext, JobsRest

---------------------------------------------------------------------------
(* The operator's machine *)

\* What the invariant of the evaluations says at their end.
LEMMA JobsSound == JobInv => NothingRunsOn /\ CancelNotLost /\ SuccessIsTheVerdict
<1> SUFFICES ASSUME JobInv PROVE NothingRunsOn /\ CancelNotLost /\ SuccessIsTheVerdict
  OBVIOUS
<1>1. \A c \in Clients : JobSound(job[c]) /\ (SupAlive(c) <=> job[c].sup \in Alive)
  BY DEF JobInv, SupAlive, Alive
<1>2. \A c \in Clients : job[c].sup \in Alive \cup {"none", "exited"}
  BY <1>1 DEF JobSound, JobRecords
<1>3. NothingRunsOn
  BY <1>1, <1>2 DEF NothingRunsOn, JobSound
<1>4. CancelNotLost
  BY <1>1 DEF CancelNotLost, JobSound
<1>5. SuccessIsTheVerdict
  BY <1>1 DEF SuccessIsTheVerdict, JobSound
<1> QED
  BY <1>3, <1>4, <1>5

\* Every command keeps the invariant of its own state, and the state of the others.
OperatorInv ==
    CorpusInv /\ JobInv /\ E2EInv /\ DepInv /\ ScoreInv /\ GateInv /\ SampleInv /\ ScratchInv
EachStep ==
    /\ [CorpusNext]_corpusVars /\ [JobNext]_jobVars /\ [E2ENext]_e2eVars /\ [DepNext]_depVars
    /\ [ScoreNext]_scoreVars /\ [GateNext]_gateVars /\ [ScratchNext]_scratchVars

\* Its initial states are some of each command's.
LEMMA OperatorStarts == OperatorInit => OperatorInv
BY CorpusStarts, JobStarts, E2EStarts, DepStarts, ScoreStarts, GateStarts, SampleStarts, ScratchStarts
   DEF OperatorInit, OperatorInv

\* Its steps are a command's, which leaves the state of the others alone.
LEMMA OperatorSteps == [OperatorNext]_operatorVars => EachStep
<1>1. SUFFICES ASSUME [OperatorNext]_operatorVars PROVE EachStep
  OBVIOUS
<1>2. CASE UNCHANGED operatorVars
  BY <1>2 DEF operatorVars, EachStep
<1>3. CASE Only("corpus") /\ CorpusNext
  BY <1>3 DEF Only, EachStep
<1>4. CASE Only("evaluate") /\ JobNext
  BY <1>4 DEF Only, EachStep
<1>5. CASE Only("e2e") /\ E2ENext
  BY <1>5 DEF Only, EachStep
<1>6. CASE Only("up_down") /\ DepNext
  BY <1>6 DEF Only, EachStep
<1>7. CASE Only("score") /\ ScoreNext
  BY <1>7 DEF Only, EachStep
<1>8. CASE Only("gate") /\ GateNext
  BY <1>8 DEF Only, EachStep
<1>9. CASE Only("scratch") /\ ScratchNext
  BY <1>9 DEF Only, EachStep
<1> QED
  BY <1>1, <1>2, <1>3, <1>4, <1>5, <1>6, <1>7, <1>8, <1>9 DEF OperatorNext

\* No command disturbs the invariant of another.
LEMMA OperatorKeeps == OperatorInv /\ [OperatorNext]_operatorVars => OperatorInv'
<1>1. SUFFICES ASSUME OperatorInv, EachStep PROVE OperatorInv'
  BY OperatorSteps
<1>2. SampleInv'
  BY <1>1, SampleKeeps DEF OperatorInv, EachStep, GateInv
<1> QED
  BY <1>1, <1>2, CorpusKeeps, JobKeeps, E2EKeeps, DepKeeps, ScoreKeeps, GateKeeps, ScratchKeeps
     DEF OperatorInv, EachStep

\* The corpus survives every failure and kill of every command: its record loads, the
\* active generation is intact, every stored chunk is of a recorded document, and the
\* next run refuses the storage only after an interrupted deletion (load_corpus_state,
\* promote_replacement).
THEOREM CorpusAlwaysSafe == OperatorSpec => []CorpusSafe
<1>1. OperatorInv => CorpusSafe
  BY InvariantIsSafe DEF OperatorInv
<1> QED
  BY OperatorStarts, OperatorKeeps, <1>1, PTL DEF OperatorSpec

\* A diagnosis that reports success has installed the corpus of its fixtures, and
\* nothing of it is left to clean up (the corpus' part of VerdictIsTrue).
THEOREM SuccessAlwaysInstalled == OperatorSpec => []SucceededMeansInstalled
<1>1. OperatorInv => SucceededMeansInstalled
  BY InvariantIsSafe DEF OperatorInv
<1> QED
  BY OperatorStarts, OperatorKeeps, <1>1, PTL DEF OperatorSpec

\* A generation becomes active in one step, complete, and in that step the documents
\* it replaces become pending cleanup (promote_replacement).
THEOREM PromotionAlwaysTracks == OperatorSpec => PromotionKeepsTrack
<1> DEFINE Tracked == ledger'.active.gen # ledger.active.gen =>
             /\ GenerationStored(ledger'.active)
             /\ DocumentsOf(ledger.active) \subseteq CleanupDocuments(ledger')
             /\ CleanupDocuments(ledger) \subseteq CleanupDocuments(ledger')
<1>1. OperatorInv /\ [OperatorNext]_operatorVars => [Tracked]_corpusVars
  BY OperatorSteps, PromotionTracks DEF OperatorInv, EachStep
<1> QED
  BY OperatorStarts, OperatorKeeps, <1>1, PTL DEF OperatorSpec, PromotionKeepsTrack

\* The lock admits one evaluation to the machine, whoever is killed
\* (LOCAL_EVALUATION_CONCURRENCY).
THEOREM OneEvaluationAlways == OperatorSpec => []OneEvaluationAtATime
<1>1. OperatorInv => OneEvaluationAtATime
  BY DEF OperatorInv, JobInv, OneEvaluationAtATime, Holds
<1> QED
  BY OperatorStarts, OperatorKeeps, <1>1, PTL DEF OperatorSpec

\* A job leaves no process behind when it is done, no cancellation is lost, and a
\* success is the verdict of an evaluator that ran.
THEOREM JobsAlwaysSound == OperatorSpec => [](NothingRunsOn /\ CancelNotLost /\ SuccessIsTheVerdict)
<1>1. OperatorInv => NothingRunsOn /\ CancelNotLost /\ SuccessIsTheVerdict
  BY JobsSound DEF OperatorInv
<1> QED
  BY OperatorStarts, OperatorKeeps, <1>1, PTL DEF OperatorSpec

\* The rows of an end-to-end run are the truth about its queries: one for each when the
\* report is written, posted exactly if it was, and none posted after a systemic failure
\* (RequestRecorder, write_dataset_report); and the samples from which the gate calculates a
\* verdict are what they are called: each query of the crossover asked with and without
\* evidence on two runtimes, each of the contention beside a judge that judges and beside
\* none (non_regression_gate.py, validate_latency_schedule, validate_contention_sample).
THEOREM ReportAlwaysFaithful == OperatorSpec => []ReportFaithful
<1>1. OperatorInv => ReportFaithful
  BY BatchFaithful, SamplesAreMeasured DEF OperatorInv, GateInv, ReportFaithful
<1> QED
  BY OperatorStarts, OperatorKeeps, <1>1, PTL DEF OperatorSpec

\* What the operator is told of a finished command is so: a run that reports success sent
\* every query, got every answer with its evidence and left nothing behind
\* (update_e2e_summary); up's ready and down's off are the state of the applications (up,
\* down); a result file is of the run that wrote it and says what it scored
\* (execute_record_evaluation); and the gate passes only on two comparisons of the
\* accepted configuration (non_regression_gate).
THEOREM VerdictsAlwaysTrue ==
  OperatorSpec => [](/\ SucceededMeansAll /\ ReadyMeansDeployed /\ OffWhenListed
                     /\ ResultIsTheScores /\ PassedMeansCompared)
<1>1. OperatorInv => /\ SucceededMeansAll /\ ReadyMeansDeployed /\ OffWhenListed
                     /\ ResultIsTheScores /\ PassedMeansCompared
  <2>1. DepInv => ReadyMeansDeployed /\ OffWhenListed
    BY DeploymentTrue
  <2>2. GateInv => PassedMeansCompared
    BY DEF GateInv, SameConfig
  <2> QED
    BY <2>1, <2>2, SucceededBatch, ResultTrue DEF OperatorInv
<1> QED
  BY OperatorStarts, OperatorKeeps, <1>1, PTL DEF OperatorSpec

\* Nothing that a command started outlives it unreported, whatever of it failed, hung or
\* was killed: applications and the secret's file (up, down), trace and chat sessions
\* (the finally clause of run_e2e_phase_2d), evaluators (supervise), scratch wizards
\* (_delete_scratch), the temporary result file (_publish_create_only), the gate's runtime
\* and donor.
THEOREM NothingEverLeftBehind == OperatorSpec => []NothingLeftBehind
<1>1. OperatorInv => NothingLeftBehind
  <2>1. DepInv => NothingLeftRunning /\ SecretRemoved
    BY DEF DepInv, StoppedSoFar
  <2>2. E2EInv => OneTraceAtATime /\ ChatsCleanedUp /\ NoJobLeft
    BY BatchCleansUp
  <2>3. JobInv => NothingRunsOn /\ CancelNotLost
    BY JobsSound
  <2>4. ScoreInv => TemporaryRemoved
    BY DEF ScoreInv
  <2>5. GateInv => GateCleanedUp
    BY DEF GateInv
  <2> QED
    BY <2>1, <2>2, <2>3, <2>4, <2>5, WizardsCleanedUp DEF OperatorInv, NothingLeftBehind
<1> QED
  BY OperatorStarts, OperatorKeeps, <1>1, PTL DEF OperatorSpec

=============================================================================
