----------------------------- MODULE WizardSave -----------------------------
(***************************************************************************)
(* Creating, saving and deleting the wizards of one user and collection    *)
(* (wizard/crud.py, wizard/save.py) over the two process-local maps        *)
(* (mappings/document_map.py, paragraph_map.py) and the chunk collection   *)
(* (weaviate_client/_chunk_collection.py), which can fail before, in the   *)
(* middle of and after taking effect.                                      *)
(*                                                                         *)
(* Saves and deletes run one at a time, as work of the user's FIFO queue   *)
(* (TaskQueue); create_wizard runs in a thread of its own, beside them.    *)
(* A step is one storage call, or the code between two of them.            *)
(*                                                                         *)
(* The text of a paragraph is the sequence of the pieces its chunker cut   *)
(* it into, and a piece is named by the chunk that stores it: the chunker  *)
(* is lossless (save.py:257), so DocumentMap and ParagraphMap hold equal   *)
(* sequences when they agree.  Vectors travel with the record.             *)
(***************************************************************************)
EXTENDS Naturals, FiniteSets, SequencesExt

CONSTANTS
    Docs,           \* document UUIDs that can be issued
    Chunks,         \* chunk UUIDs; one that nothing refers to may be reissued
    MaxParagraphs,  \* bound on the paragraphs of a document
    MaxSplit,       \* bound on the paragraphs one modified union is split into
    MaxChunks,      \* bound on the chunks of a paragraph
    MaxFaults,      \* bound on the storage calls that fail after a snapshot
    Absent, NoObject, NoDoc

ASSUME BoundsAssumption ==
    /\ MaxParagraphs \in Nat \ {0} /\ MaxSplit \in Nat \ {0}
    /\ MaxChunks \in Nat \ {0} /\ MaxFaults \in Nat
ASSUME NamesAssumption == NoDoc \notin Docs

VARIABLES
    docMap,         \* DocumentMap._documents: the paragraphs of d, or Absent
    parMap,         \* ParagraphMap._paragraphs: the chunks of each, or Absent
    creation,       \* creation[d]: how far the create_wizard that issued d is
    store,          \* store[c]: the object with UUID c in the collection
    op,             \* the save or delete that is running
    reported,       \* reported[d]: chunks named by recovery errors since d was made
    faults

maps == <<docMap, parMap>>
vars == <<docMap, parMap, creation, store, op, reported, faults>>

---------------------------------------------------------------------------
(* Documents, records and what the storage disagrees about *)

Paragraphs == SeqOf(Chunks, MaxChunks)
Documents == SeqOf(Paragraphs, MaxParagraphs) \ {<<>>}
Empty == <<<<>>>>                       \* {1: ""} and {1: []}

Paras == 1..MaxParagraphs
Records == [doc : Docs, par : Paras]

\* What a map or the storage holds is never taken for "nothing there".
ASSUME AbsenceAssumption == Absent \notin Documents /\ NoObject \notin Records

ChunksOf(m) == IF m = Absent THEN {} ELSE UNION {Range(m[p]) : p \in DOMAIN m}
ParaOf(m, c) == CHOOSE p \in DOMAIN m : c \in Range(m[p])

\* The objects with document_id d (in one of the paragraphs ps).
ByDocument(d) == {c \in Chunks : store[c] # NoObject /\ store[c].doc = d}
ByParagraphs(d, ps) == {c \in ByDocument(d) : store[c].par \in ps}

\* The chunks whose object is not where the paragraph map of d says.
Damage(d) ==
    {c \in Chunks :
        IF c \in ChunksOf(parMap[d])
        THEN store[c] # [doc |-> d, par |-> ParaOf(parMap[d], c)]
        ELSE c \in ByDocument(d)}

\* UUIDs that nothing refers to: uuid4 never returns one that is in use.
Free == {c \in Chunks :
            /\ store[c] = NoObject
            /\ \A d \in Docs : c \notin ChunksOf(parMap[d]) \cup reported[d]}

Idle == [kind |-> "idle", doc |-> NoDoc]
Running(kind, at) == op.kind = kind /\ op.at = at
Fault == faults < MaxFaults /\ faults' = faults + 1

---------------------------------------------------------------------------
(* delete_many and its dry run: any part of the matches may go before the  *)
(* call fails; it returns a report only when nothing is left.              *)

Removed(gone) == [c \in Chunks |-> IF c \in gone THEN NoObject ELSE store[c]]

\* Seeded fault: the dry run after delete_many is skipped.
FaultUnverified(matched, gone) == TRUE

Confirmed(matched, gone) == gone = matched

DeleteMany(matched, Then, Else) ==
    \E gone \in SUBSET matched :
        /\ store' = Removed(gone)
        /\ \/ Confirmed(matched, gone) /\ op' = Then /\ UNCHANGED faults
           \/ Fault /\ op' = Else

---------------------------------------------------------------------------
(* create_wizard *)

CreateStart(d) ==
    /\ creation[d] = "none"
    /\ creation' = [creation EXCEPT ![d] = "started"]
    /\ docMap' = [docMap EXCEPT ![d] = Empty]
    /\ UNCHANGED <<parMap, store, op, reported, faults>>

\* Its second write: replace_document(d, {1: []}).
AddKey(d) ==
    /\ creation[d] = "started"
    /\ creation' = [creation EXCEPT ![d] = "made"]

CreateFinish(d) ==
    /\ AddKey(d)
    /\ parMap' = [parMap EXCEPT ![d] = Empty]
    /\ UNCHANGED <<docMap, store, op, reported, faults>>

\* replace_document and delete_document scan the keys of all documents: one
\* that another thread adds or removes meanwhile makes the scan raise.
ScanRaises(e) ==
    /\ creation[e] = "started"
    /\ creation' = [creation EXCEPT ![e] = "aborting"]

\* A write to the paragraph map, during the scan of some creation.
MayDisturb == UNCHANGED creation \/ \E e \in Docs : ScanRaises(e)

\* Two creations: the first adds its key during the scan of the second.
CreateDisturbed(d, e) ==
    /\ d # e /\ creation[d] = "started" /\ creation[e] = "started"
    /\ creation' = [creation EXCEPT ![d] = "made", ![e] = "aborting"]
    /\ parMap' = [parMap EXCEPT ![d] = Empty]
    /\ UNCHANGED <<docMap, store, op, reported, faults>>

CreateAborts(d) ==
    /\ creation[d] = "aborting"
    /\ creation' = [creation EXCEPT ![d] = "aborted"]
    /\ docMap' = [docMap EXCEPT ![d] = Absent]
    /\ UNCHANGED <<parMap, store, op, reported, faults>>

---------------------------------------------------------------------------
(* save_wizard: steps 1-3, from the request to the verified deletions *)

\* The contiguous group of the marked ids that holds p.
Group(marked, p) ==
    {q \in marked : \A r \in Paras :
        (p <= r /\ r <= q) \/ (q <= r /\ r <= p) => r \in marked}
First(marked) == CHOOSE p \in marked : \A q \in marked : p <= q
NextUnion == Group(op.left, First(op.left))

\* A queued request of a document deleted meanwhile raises KeyError and one
\* whose text is unchanged or cannot be aligned does nothing: no step here.
\* The snapshot is refused unless it is exactly what the map says; when the
\* storage fails there, nothing has been touched.
Snapshot(d, ps) == [c \in ByParagraphs(d, ps) |-> store[c]]

BeginSave(d, marked) ==
    /\ op = Idle
    /\ creation[d] = "made" /\ docMap[d] # Absent
    /\ marked # {} /\ marked \subseteq DOMAIN docMap[d]
    /\ DOMAIN Snapshot(d, marked)
          = UNION {Range(parMap[d][p]) : p \in marked \cap DOMAIN parMap[d]}
    /\ op' = [kind |-> "save", doc |-> d, at |-> "delete",
              marked |-> marked, left |-> marked,
              text |-> docMap[d], old |-> parMap[d], snap |-> Snapshot(d, marked),
              newText |-> <<>>, new |-> <<>>,
              attempted |-> {}, moved |-> {},
              failed |-> FALSE, unresolved |-> {}, before |-> Damage(d)]
    /\ UNCHANGED <<docMap, parMap, creation, store, reported, faults>>

\* Seeded fault: the paragraph filter of delete_by_paragraphs is lost.
FaultDeleteEverything ==
    /\ Running("save", "delete")
    /\ DeleteMany(ByDocument(op.doc),
                  [op EXCEPT !.left = {}, !.at = "process"],
                  [op EXCEPT !.at = "undoMoves"])
    /\ UNCHANGED <<docMap, parMap, creation, reported>>

\* Step 3, one union at a time.
DeleteUnion ==
    /\ Running("save", "delete")
    /\ LET left == op.left \ NextUnion IN
       DeleteMany(ByParagraphs(op.doc, NextUnion),
                  [op EXCEPT !.left = left,
                             !.at = IF left = {} THEN "process" ELSE "delete"],
                  [op EXCEPT !.at = "undoMoves"])
    /\ UNCHANGED <<docMap, parMap, creation, reported>>

---------------------------------------------------------------------------
(* save_wizard: steps 4-8 *)

\* One sequence of new paragraphs for each union, with fresh chunks.
NewParagraphs == SeqOf(SeqOf(Free, MaxChunks) \ {<<>>}, MaxSplit)
Firsts == {p \in op.marked : p - 1 \notin op.marked}

\* Step 6: every union gives way to its new paragraphs, the others stay, and
\* the ids are renumbered from 1; a document never has no paragraph.
Substitute(base, edit) ==
    LET nodes == FlattenSeq([p \in DOMAIN base |->
                    IF p \in Firsts THEN edit[p]
                    ELSE IF p \in op.marked THEN <<>> ELSE <<base[p]>>])
    IN  IF nodes = <<>> THEN Empty ELSE nodes

Distinct(m) ==
    LET ids == FlattenSeq(m) IN Cardinality(Range(ids)) = Len(ids)

\* Splitting, chunking, embedding and the validation of the new maps.
Process ==
    /\ Running("save", "process")
    /\ \E edit \in [Firsts -> NewParagraphs] :
          LET new == Substitute(op.old, edit) IN
          /\ Distinct(new) /\ Len(new) <= MaxParagraphs
          /\ op' = [op EXCEPT !.at = "insert", !.new = new,
                              !.newText = Substitute(op.text, edit)]
    /\ UNCHANGED <<maps, creation, store, reported, faults>>

ProcessFails ==
    /\ Running("save", "process")
    /\ Fault
    /\ op' = [op EXCEPT !.at = "undoMoves"]
    /\ UNCHANGED <<maps, creation, store, reported>>

ToInsert == ChunksOf(op.new) \ ChunksOf(op.old)
Moved(c) == ParaOf(op.new, c) # ParaOf(op.old, c)
ToMove == {c \in ChunksOf(op.new) \cap ChunksOf(op.old) : Moved(c)}

\* Seeded fault: the id counts as attempted once the call has returned.
FaultAttemptedLate(c, returned) ==
    IF returned THEN op.attempted \cup {c} ELSE op.attempted

\* Step 7a: the id counts as attempted before the call is made.
Attempted(c, returned) == op.attempted \cup {c}

Insert(c) ==
    /\ Running("save", "insert")
    /\ c \in ToInsert \ op.attempted
    /\ store' = [store EXCEPT ![c] = [doc |-> op.doc, par |-> ParaOf(op.new, c)]]
    /\ op' = [op EXCEPT !.attempted = Attempted(c, TRUE)]
    /\ UNCHANGED <<maps, creation, reported, faults>>

\* The call raises, with or without having stored the object.
InsertRaises(c) ==
    /\ Running("save", "insert")
    /\ c \in ToInsert \ op.attempted
    /\ Fault
    /\ op' = [op EXCEPT !.attempted = Attempted(c, FALSE), !.at = "undoMoves"]
    /\ store' \in {store,
                   [store EXCEPT ![c] = [doc |-> op.doc, par |-> ParaOf(op.new, c)]]}
    /\ UNCHANGED <<maps, creation, reported>>

\* update_paragraph_ids: one call per chunk (in any order here), each failing
\* for an object that is not there.
Present(cs) == {c \in cs : store[c] # NoObject}

Updated(done, m) ==
    [c \in Chunks |-> IF c \in Present(done)
                      THEN [store[c] EXCEPT !.par = ParaOf(m, c)] ELSE store[c]]

\* verify_paragraph_ids: every object is where m says.
Verified(cs, m) == \A c \in cs : store'[c] # NoObject /\ store'[c].par = ParaOf(m, c)

\* Step 7b: the chunks of untouched paragraphs take their new numbers; all of
\* them count as attempted first.
Move ==
    /\ Running("save", "insert")
    /\ ToInsert \subseteq op.attempted
    /\ store' = Updated(ToMove, op.new)
    /\ Verified(ToMove, op.new)
    /\ op' = [op EXCEPT !.at = "commit", !.moved = ToMove]
    /\ UNCHANGED <<maps, creation, reported, faults>>

MoveFails ==
    /\ Running("save", "insert")
    /\ ToInsert \subseteq op.attempted /\ ToMove # {}
    /\ \E done \in SUBSET Present(ToMove) : store' = Updated(done, op.new)
    /\ IF Present(ToMove) = ToMove THEN Fault ELSE UNCHANGED faults
    /\ op' = [op EXCEPT !.at = "undoMoves", !.moved = ToMove]
    /\ UNCHANGED <<maps, creation, reported>>

\* Seeded fault: only the paragraph map takes the new paragraphs.
FaultCommitOneMap ==
    /\ Running("save", "commit")
    /\ parMap' = [parMap EXCEPT ![op.doc] = op.new]
    /\ op' = Idle
    /\ MayDisturb
    /\ UNCHANGED <<docMap, store, reported, faults>>

\* Step 8: replace_document, then update_paragraphs.
Commit ==
    /\ Running("save", "commit")
    /\ parMap' = [parMap EXCEPT ![op.doc] = op.new]
    /\ docMap' = [docMap EXCEPT ![op.doc] = op.newText]
    /\ op' = Idle
    /\ MayDisturb
    /\ UNCHANGED <<store, reported, faults>>

\* A create_wizard adds its key during the scan of replace_document.
CommitDisturbed(e) ==
    /\ Running("save", "commit") /\ AddKey(e)
    /\ parMap' = [parMap EXCEPT ![e] = Empty]
    /\ op' = [op EXCEPT !.at = "undoMoves"]
    /\ UNCHANGED <<docMap, store, reported, faults>>

---------------------------------------------------------------------------
(* delete_wizard *)

BeginDelete(d) ==
    /\ op = Idle
    /\ creation[d] = "made" /\ docMap[d] # Absent
    /\ op' = [kind |-> "delete", doc |-> d, at |-> "delete",
              text |-> docMap[d], old |-> parMap[d],
              snap |-> [c \in ByDocument(d) |-> store[c]],
              failed |-> FALSE, unresolved |-> {}, before |-> Damage(d)]
    /\ UNCHANGED <<maps, creation, store, reported, faults>>

DeleteDocument ==
    /\ Running("delete", "delete")
    /\ DeleteMany(ByDocument(op.doc), [op EXCEPT !.at = "forget"],
                                      [op EXCEPT !.at = "restoreChunks"])
    /\ UNCHANGED <<maps, creation, reported>>

Forget ==
    /\ Running("delete", "forget")
    /\ parMap' = [parMap EXCEPT ![op.doc] = Absent]
    /\ docMap' = [docMap EXCEPT ![op.doc] = Absent]
    /\ reported' = [reported EXCEPT ![op.doc] = {}]
    /\ op' = Idle
    /\ MayDisturb
    /\ UNCHANGED <<store, faults>>

ForgetDisturbed(e) ==
    /\ Running("delete", "forget") /\ AddKey(e)
    /\ parMap' = [parMap EXCEPT ![e] = Empty]
    /\ op' = [op EXCEPT !.at = "restoreChunks"]
    /\ UNCHANGED <<docMap, store, reported, faults>>

---------------------------------------------------------------------------
(* Compensation: every stage runs, whatever became of the one before it *)

Undone(next) == [op EXCEPT !.at = next]
NotUndone(next, ids) ==
    [op EXCEPT !.at = next, !.failed = TRUE, !.unresolved = @ \cup ids]

UndoMoves ==
    /\ op.kind = "save" /\ op.at = "undoMoves"
    /\ \/ /\ store' = Updated(Present(op.moved), op.old)
          /\ Verified(op.moved, op.old)
          /\ op' = Undone("undoInserts")
          /\ UNCHANGED faults
       \/ /\ op.moved # {}
          /\ \E done \in SUBSET Present(op.moved) : store' = Updated(done, op.old)
          /\ IF Present(op.moved) = op.moved THEN Fault ELSE UNCHANGED faults
          /\ op' = NotUndone("undoInserts", op.moved)
    /\ UNCHANGED <<maps, creation, reported>>

UndoInserts ==
    /\ Running("save", "undoInserts")
    /\ \/ /\ op.attempted = {}
          /\ op' = Undone("restoreChunks")
          /\ UNCHANGED <<store, faults>>
       \/ /\ op.attempted # {}
          /\ DeleteMany(Present(op.attempted), Undone("restoreChunks"),
                        NotUndone("restoreChunks", op.attempted))
    /\ UNCHANGED <<maps, creation, reported>>

\* restore_chunks: an object that differs from its record is a conflict;
\* missing ones are inserted one by one and everything is read back.
Lost == {c \in DOMAIN op.snap : store[c] = NoObject}
Conflict == \E c \in DOMAIN op.snap \ Lost : store[c] # op.snap[c]
Restored(some) ==
    [c \in Chunks |-> IF c \in some THEN op.snap[c] ELSE store[c]]

RestoreChunks ==
    /\ op.kind # "idle" /\ op.at = "restoreChunks"
    /\ \/ /\ ~Conflict
          /\ store' = Restored(Lost)
          /\ op' = Undone("restoreMaps")
          /\ UNCHANGED faults
       \/ /\ Conflict
          /\ op' = NotUndone("restoreMaps", DOMAIN op.snap)
          /\ UNCHANGED <<store, faults>>
       \/ /\ ~Conflict /\ DOMAIN op.snap # {}
          /\ Fault
          /\ \E some \in SUBSET Lost : store' = Restored(some)
          /\ op' = NotUndone("restoreMaps", DOMAIN op.snap)
    /\ UNCHANGED <<maps, creation, reported>>

\* Nothing failed: WizardSaveError or WizardDeleteError.  Otherwise the
\* recovery error names the chunks (a delete names its whole snapshot).
Named(failed) ==
    IF ~failed THEN {}
    ELSE IF op.kind = "save" THEN op.unresolved ELSE DOMAIN op.snap

Report(failed) == reported' = [reported EXCEPT ![op.doc] = @ \cup Named(failed)]

RestoreMaps ==
    /\ op.kind # "idle" /\ op.at = "restoreMaps"
    /\ parMap' = [parMap EXCEPT ![op.doc] = op.old]
    /\ docMap' = [docMap EXCEPT ![op.doc] = op.text]
    /\ Report(op.failed)
    /\ op' = Idle
    /\ MayDisturb
    /\ UNCHANGED <<store, faults>>

\* replace_document raises here too when a creation adds its key.
RestoreMapsDisturbed(e) ==
    /\ op.kind # "idle" /\ op.at = "restoreMaps" /\ AddKey(e)
    /\ parMap' = [parMap EXCEPT ![e] = Empty]
    /\ docMap' = [docMap EXCEPT ![op.doc] = op.text]
    /\ Report(TRUE)
    /\ op' = Idle
    /\ UNCHANGED <<store, faults>>

---------------------------------------------------------------------------
Init ==
    /\ docMap = [d \in Docs |-> Absent]
    /\ parMap = [d \in Docs |-> Absent]
    /\ creation = [d \in Docs |-> "none"]
    /\ store = [c \in Chunks |-> NoObject]
    /\ op = Idle
    /\ reported = [d \in Docs |-> {}]
    /\ faults = 0

Creates == \E d \in Docs :
    \/ CreateStart(d) \/ CreateFinish(d) \/ CreateAborts(d)
    \/ \E e \in Docs : CreateDisturbed(d, e)

Saves ==
    \/ \E d \in Docs, marked \in SUBSET Paras : BeginSave(d, marked)
    \/ DeleteUnion \/ Process \/ ProcessFails
    \/ \E c \in Chunks : Insert(c) \/ InsertRaises(c)
    \/ Move \/ MoveFails \/ Commit
    \/ \E e \in Docs : CommitDisturbed(e)

DeletesOf ==
    \/ \E d \in Docs : BeginDelete(d)
    \/ DeleteDocument \/ Forget
    \/ \E e \in Docs : ForgetDisturbed(e)

Recovers ==
    \/ UndoMoves \/ UndoInserts \/ RestoreChunks \/ RestoreMaps
    \/ \E e \in Docs : RestoreMapsDisturbed(e)

Next == Creates \/ Saves \/ DeletesOf \/ Recovers

Spec == Init /\ [][Next]_vars

---------------------------------------------------------------------------
\* The state has its types, and a document always has a paragraph.
TypeOK ==
    /\ \A d \in Docs : docMap[d] = Absent \/ docMap[d] \in Documents
    /\ \A d \in Docs : parMap[d] = Absent \/ parMap[d] \in Documents
    /\ creation \in [Docs -> {"none", "started", "made", "aborting", "aborted"}]
    /\ store \in [Chunks -> Records \cup {NoObject}]
    /\ op.doc \in Docs \cup {NoDoc}
    /\ reported \in [Docs -> SUBSET Chunks]
    /\ faults \in 0..MaxFaults

\* Between operations, whatever failed in them, both maps hold the same
\* documents with the same paragraphs (save.py step 8 and its compensation,
\* crud.py:114-126).
MapsAgree ==
    op = Idle => \A d \in Docs :
        creation[d] \notin {"started", "aborting"} => docMap[d] = parMap[d]

\* While an operation runs, each chunk of its document is in the storage
\* where the map says, is where the save is about to put it, or is in the
\* snapshot from which it can be put back; what is not was damaged before or
\* is already on the list of the recovery error (BACKEND.md 4.4, "Prototype
\* reliability contract").
Recoverable ==
    op # Idle =>
        \A c \in Damage(op.doc) \ (op.before \cup op.unresolved) :
            \/ c \in DOMAIN op.snap
            \/ op.kind = "save" /\ c \in op.attempted \cup ToMove

\* "Incomplete compensation raises a dedicated recovery error with affected
\* IDs and is never reported as an ordinary save failure" (BACKEND.md 4.4):
\* in every history of saves, deletes, creations and failures, the objects
\* that disagree with the maps are among those recovery errors have named
\* since the document was made; a deleted document has left none behind.
DamageReported ==
    \A d \in Docs : d # op.doc => Damage(d) \subseteq reported[d]

\* Every operation takes effect as a whole or not at all, except for the
\* chunks a recovery error names (DESIGN_DECISIONS.md "Stage 3 Mutation
\* Recovery Boundary").
A == INSTANCE AtomicWizards WITH
        content <- docMap,
        damage <- [d \in Docs |-> IF op.doc = d THEN op.before ELSE Damage(d)],
        Contents <- Documents
ImplementsAtomicWizards == A!Spec
=============================================================================
