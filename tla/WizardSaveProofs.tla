-------------------------- MODULE WizardSaveProofs --------------------------
(***************************************************************************)
(* Theorems about WizardSave, for every set of documents and chunks, every *)
(* bound on paragraphs and every number of storage failures: the two maps  *)
(* agree between operations (MapsAgree), what an operation has taken out   *)
(* of its place can be put back (Recoverable), no damage to a document     *)
(* goes unreported (DamageReported), and every operation takes effect as a *)
(* whole or not at all (the refinement of AtomicWizards).                  *)
(***************************************************************************)
EXTENDS WizardSave, SequenceLemmas

---------------------------------------------------------------------------
(* The inductive invariant *)

Snapshots == UNION {[S -> Records] : S \in SUBSET Chunks}
Plans == Documents \cup {<<>>}

SaveOps ==
    [kind : {"save"}, doc : Docs,
     at : {"delete", "process", "insert", "commit",
           "undoMoves", "undoInserts", "restoreChunks", "restoreMaps"},
     marked : SUBSET Paras, left : SUBSET Paras,
     text : Documents, old : Documents, snap : Snapshots,
     newText : Plans, new : Plans,
     attempted : SUBSET Chunks, moved : SUBSET Chunks,
     failed : BOOLEAN, unresolved : SUBSET Chunks, before : SUBSET Chunks]

DeleteOps ==
    [kind : {"delete"}, doc : Docs,
     at : {"delete", "forget", "restoreChunks", "restoreMaps"},
     text : Documents, old : Documents, snap : Snapshots,
     failed : BOOLEAN, unresolved : SUBSET Chunks, before : SUBSET Chunks]

\* The types, with the record of the operation that is running.
TypeInv ==
    /\ docMap \in [Docs -> Documents \cup {Absent}]
    /\ parMap \in [Docs -> Documents \cup {Absent}]
    /\ creation \in [Docs -> {"none", "started", "made", "aborting", "aborted"}]
    /\ store \in [Chunks -> Records \cup {NoObject}]
    /\ op \in {Idle} \cup SaveOps \cup DeleteOps
    /\ reported \in [Docs -> SUBSET Chunks]
    /\ faults \in 0..MaxFaults

\* What the maps hold of a document follows from how far its creation is,
\* whether or not an operation runs: no step of an operation but its last
\* one writes a map.
LifeInv ==
    \A d \in Docs :
        /\ creation[d] \in {"none", "aborted"} => docMap[d] = Absent /\ parMap[d] = Absent
        /\ creation[d] \in {"started", "aborting"} => docMap[d] = Empty /\ parMap[d] = Absent
        /\ creation[d] = "made" => docMap[d] = parMap[d]

\* The running operation is about a document that exists, and keeps it.
OpInv ==
    op # Idle =>
        /\ creation[op.doc] = "made"
        /\ op.text = docMap[op.doc] /\ op.old = parMap[op.doc]
        /\ op.before \subseteq reported[op.doc]
        /\ op.failed \/ op.unresolved = {}

\* No chunk is in two paragraphs of a document, or in two documents.
Apart(m) == \A p, q \in DOMAIN m : \A c \in Range(m[p]) : c \in Range(m[q]) => p = q

ApartInv ==
    /\ \A d \in Docs : parMap[d] # Absent => Apart(parMap[d])
    /\ \A d, e \in Docs : d # e => ChunksOf(parMap[d]) \cap ChunksOf(parMap[e]) = {}

\* The object of a chunk of d, wherever it is, is an object of d.
OwnedInv ==
    \A d \in Docs : \A c \in ChunksOf(parMap[d]) :
        store[c] # NoObject => store[c].doc = d

\* The snapshot holds objects of the document only, as they were, and no
\* chunk of another document.
SnapInv ==
    op # Idle =>
        /\ \A c \in DOMAIN op.snap :
              /\ op.snap[c].doc = op.doc
              /\ \A e \in Docs \ {op.doc} : c \notin ChunksOf(parMap[e])
              /\ \/ c \in op.before
                 \/ c \in ChunksOf(op.old) /\ op.snap[c].par = ParaOf(op.old, c)
        /\ op.kind = "delete" => op.unresolved \subseteq DOMAIN op.snap

\* The marked paragraphs are those of the snapshot.
MarkedInv ==
    op.kind = "save" =>
        /\ op.marked \subseteq DOMAIN op.old /\ op.left \subseteq op.marked
        /\ DOMAIN op.snap = UNION {Range(op.old[p]) : p \in op.marked}

\* The new paragraphs: those that were not marked, and fresh chunks that
\* no document holds and that are in the storage only once attempted.
PlanInv ==
    op.kind = "save" =>
        /\ op.newText = op.new
        /\ op.at \in {"delete", "process"} => op.new = <<>>
        /\ op.at \in {"insert", "commit"} => op.new # <<>>
        /\ op.attempted \subseteq ToInsert /\ op.moved \subseteq ToMove
        /\ op.new # <<>> =>
              /\ Apart(op.new)
              /\ ChunksOf(op.old) \cap ChunksOf(op.new) = ChunksOf(op.old) \ DOMAIN op.snap
              /\ \A c \in ToInsert :
                    /\ \A d \in Docs : c \notin ChunksOf(parMap[d])
                    /\ store[c] # NoObject => c \in op.attempted /\ store[c].doc = op.doc

\* The chunks that may be out of place when the stage begins.
Exposed(stage) ==
    IF stage = "restoreMaps" THEN {}
    ELSE IF stage = "restoreChunks" \/ op.kind = "delete" THEN DOMAIN op.snap
    ELSE IF stage = "undoInserts" THEN DOMAIN op.snap \cup op.attempted
    ELSE DOMAIN op.snap \cup op.attempted \cup op.moved

\* What is out of place was so before, or is exposed, or given up.
DamageInv ==
    op # Idle =>
        Damage(op.doc) \subseteq op.before \cup op.unresolved \cup Exposed(op.at)

\* Before anything went wrong the storage is known exactly.
ForwardInv ==
    op.kind = "save" =>
        /\ op.at = "delete" =>
              /\ ByParagraphs(op.doc, op.marked) \subseteq DOMAIN op.snap
              /\ ByParagraphs(op.doc, op.marked \ op.left) = {}
              /\ \A c \in DOMAIN op.snap : store[c] \in {NoObject, op.snap[c]}
              /\ \A c \in DOMAIN op.snap : op.snap[c].par \in op.marked
        /\ op.at \in {"process", "insert", "commit"} =>
              \A c \in DOMAIN op.snap : store[c] = NoObject
        /\ op.at \in {"delete", "process", "insert"} =>
              Damage(op.doc) \subseteq op.before \cup DOMAIN op.snap \cup op.attempted
        /\ op.at = "insert" =>
              \A c \in op.attempted : store[c] = [doc |-> op.doc, par |-> ParaOf(op.new, c)]
        /\ op.at = "commit" =>
              \A c \in Chunks :
                 \/ c \in op.before
                 \/ IF c \in ChunksOf(op.new)
                    THEN store[c] = [doc |-> op.doc, par |-> ParaOf(op.new, c)]
                    ELSE c \notin ByDocument(op.doc)

\* A delete forgets the document when nothing of it is left.
ForgetInv ==
    op.kind = "delete" =>
        /\ op.at = "delete" => ByDocument(op.doc) \subseteq DOMAIN op.snap
        /\ op.at = "forget" => ByDocument(op.doc) = {}

\* Only what was made can be named in a report.
ReportInv ==
    /\ DamageReported
    /\ \A d \in Docs : creation[d] # "made" => reported[d] = {}

WInv ==
    /\ TypeInv /\ LifeInv /\ OpInv /\ ApartInv /\ OwnedInv /\ SnapInv
    /\ MarkedInv /\ PlanInv /\ DamageInv /\ ForwardInv /\ ForgetInv /\ ReportInv
---------------------------------------------------------------------------
(* Documents, their chunks and the paragraphs they are in *)

\* The bounds leave room for a new document's single empty paragraph.
LEMMA EmptyDocument ==
  /\ Empty \in Documents /\ Empty # Absent
  /\ ChunksOf(Empty) = {} /\ ChunksOf(Absent) = {} /\ ChunksOf(<<>>) = {}
  /\ Apart(Empty)
<1>1. <<>> \in Paragraphs
  <2>1. <<>> \in [1..0 -> Chunks] /\ 0 \in 0..MaxChunks
    BY BoundsAssumption
  <2> QED
    BY <2>1 DEF Paragraphs, SeqOf
<1>2. Empty \in [1..1 -> Paragraphs] /\ 1 \in 0..MaxParagraphs /\ Empty # <<>>
  BY <1>1, BoundsAssumption DEF Empty
<1>3. Empty \in Documents
  BY <1>2 DEF Documents, SeqOf
<1>4. Empty # Absent
  BY <1>3, AbsenceAssumption
<1>5. DOMAIN Empty = {1} /\ Empty[1] = <<>> /\ Range(<<>>) = {}
  BY DEF Empty, Range
<1>6. ChunksOf(Empty) = {} /\ Apart(Empty)
  BY <1>5 DEF ChunksOf, Apart
<1>7. ChunksOf(Absent) = {} /\ ChunksOf(<<>>) = {}
  BY DEF ChunksOf
<1> QED
  BY <1>3, <1>4, <1>6, <1>7

\* A document is a non-empty sequence of sequences of chunks.
LEMMA DocumentShape ==
  ASSUME NEW m \in Documents
  PROVE  /\ m # Absent /\ m # <<>>
         /\ m \in Seq(Paragraphs) /\ DOMAIN m = 1..Len(m) /\ Len(m) \in 1..MaxParagraphs
         /\ m \in Seq(Seq(Chunks))
         /\ DOMAIN m \subseteq Paras
         /\ \A p \in DOMAIN m : m[p] \in Seq(Chunks) /\ Range(m[p]) \subseteq Chunks
<1>1. PICK n \in 0..MaxParagraphs : m \in [1..n -> Paragraphs]
  BY DEF Documents, SeqOf
<1>2. n # 0
  BY <1>1 DEF Documents
<1>3. \A x \in Paragraphs : x \in Seq(Chunks) /\ Range(x) \subseteq Chunks
  BY BoundsAssumption DEF Paragraphs, SeqOf, Range
<1>4. m \in Seq(Paragraphs) /\ Len(m) = n /\ DOMAIN m = 1..n
  BY <1>1, BoundsAssumption
<1>5. m \in Seq(Seq(Chunks))
  BY <1>3, <1>4
<1>6. m # Absent /\ m # <<>>
  BY AbsenceAssumption DEF Documents
<1> QED
  BY <1>1, <1>2, <1>3, <1>4, <1>5, <1>6, BoundsAssumption DEF Paras

\* Each chunk of a document is in the paragraph ParaOf names.
LEMMA ParaOfChunk ==
  ASSUME NEW m \in Documents
  PROVE  /\ \A c : c \in ChunksOf(m) <=> \E p \in DOMAIN m : c \in Range(m[p])
         /\ ChunksOf(m) \subseteq Chunks
         /\ \A c \in ChunksOf(m) :
               /\ ParaOf(m, c) \in DOMAIN m /\ c \in Range(m[ParaOf(m, c)])
               /\ ParaOf(m, c) \in Paras
<1>1. \A c : c \in ChunksOf(m) <=> \E p \in DOMAIN m : c \in Range(m[p])
  BY DocumentShape DEF ChunksOf
<1>2. ChunksOf(m) \subseteq Chunks
  BY <1>1, DocumentShape
<1>3. ASSUME NEW c \in ChunksOf(m)
      PROVE  ParaOf(m, c) \in DOMAIN m /\ c \in Range(m[ParaOf(m, c)])
  BY <1>1, <1>3 DEF ParaOf
<1> QED
  BY <1>1, <1>2, <1>3, DocumentShape

\* ... and in no other when its paragraphs are apart.
LEMMA ParaOfUnique ==
  ASSUME NEW m \in Documents, Apart(m), NEW p \in DOMAIN m, NEW c \in Range(m[p])
  PROVE  c \in ChunksOf(m) /\ ParaOf(m, c) = p
BY ParaOfChunk DEF Apart

\* The records of the running operation, by kind.
LEMMA OpShape ==
  ASSUME TypeInv
  PROVE  /\ op.kind = "save" => op \in SaveOps /\ op # Idle
         /\ op.kind = "delete" => op \in DeleteOps /\ op # Idle
         /\ op = Idle <=> op.kind = "idle"
         /\ op # Idle => op.kind \in {"save", "delete"} /\ op.doc \in Docs
         /\ op = Idle => op.doc = NoDoc
BY DEF TypeInv, Idle, SaveOps, DeleteOps

\* Step 6 of save_wizard: the new document keeps the chunks of exactly the
\* paragraphs that were not marked, and the others it has are fresh.
LEMMA SubstitutePlan ==
  ASSUME TypeInv, op.kind = "save", op.marked \subseteq DOMAIN op.old,
         NEW edit \in [Firsts -> NewParagraphs],
         NEW new, new = Substitute(op.old, edit),
         Len(new) <= MaxParagraphs
  PROVE  /\ new \in Documents
         /\ \A c : c \in ChunksOf(new) =>
               c \in Free \/ \E p \in DOMAIN op.old \ op.marked : c \in Range(op.old[p])
         /\ \A p \in DOMAIN op.old \ op.marked : Range(op.old[p]) \subseteq ChunksOf(new)
<1> DEFINE piece(p) == IF p \in Firsts THEN edit[p]
                       ELSE IF p \in op.marked THEN <<>> ELSE <<op.old[p]>>
           pieces == [p \in DOMAIN op.old |-> piece(p)]
           nodes == FlattenSeq(pieces)
<1>1. op.old \in Documents /\ op.marked \subseteq Paras
  BY OpShape DEF SaveOps
<1>2. Free \subseteq Chunks
  BY DEF Free
<1>3. \A q \in SeqOf(Free, MaxChunks) : q \in Paragraphs /\ Range(q) \subseteq Free
  BY <1>2 DEF SeqOf, Paragraphs, Range
<1>4. \A s \in NewParagraphs : s \in Seq(Paragraphs) /\ \A x \in Range(s) : Range(x) \subseteq Free
  <2>1. TAKE s \in NewParagraphs
  <2>2. PICK n \in 0..MaxSplit : s \in [1..n -> SeqOf(Free, MaxChunks) \ {<<>>}]
    BY DEF NewParagraphs, SeqOf
  <2>3. \A i \in 1..n : s[i] \in Paragraphs /\ Range(s[i]) \subseteq Free
    BY <1>3, <2>2
  <2>4. s \in Seq(Paragraphs) /\ DOMAIN s = 1..n
    BY <2>2, <2>3, BoundsAssumption
  <2> QED
    BY <2>3, <2>4 DEF Range
<1>5. /\ DOMAIN op.old = 1..Len(op.old) /\ Len(op.old) \in Nat
      /\ \A p \in DOMAIN op.old : op.old[p] \in Paragraphs
  BY <1>1, DocumentShape
<1>6. \A p \in DOMAIN op.old : piece(p) \in Seq(Paragraphs)
  BY <1>4, <1>5
<1>7. pieces \in Seq(Seq(Paragraphs)) /\ DOMAIN pieces = DOMAIN op.old
  BY <1>5, <1>6
<1>8. /\ nodes \in Seq(Paragraphs)
      /\ \A x : x \in Range(nodes) <=> \E p \in DOMAIN op.old : x \in Range(piece(p))
  <2> HIDE DEF piece
  <2>1. \A p \in DOMAIN op.old : pieces[p] = piece(p)
    OBVIOUS
  <2> HIDE DEF pieces
  <2> QED
    BY <1>7, <2>1, FlattenElements
<1>9. new = IF nodes = <<>> THEN Empty ELSE nodes
  BY DEF Substitute
<1>10. \A p \in DOMAIN op.old : \A x \in Range(piece(p)) :
          \/ Range(x) \subseteq Free
          \/ p \notin op.marked /\ x = op.old[p]
  <2>1. Firsts \subseteq op.marked
    BY DEF Firsts
  <2>2. \A x : Range(<<x>>) = {x} /\ Range(<<>>) = {}
    BY DEF Range
  <2> QED
    BY <1>4, <2>1, <2>2
<1>11. \A p \in DOMAIN op.old \ op.marked : op.old[p] \in Range(piece(p))
  BY DEF Range, Firsts
<1> HIDE DEF piece, pieces
<1> HIDE DEF nodes
<1>12. CASE nodes = <<>>
  <2>1. Range(nodes) = {}
    BY <1>12 DEF Range
  <2>2. new = Empty /\ DOMAIN op.old \ op.marked = {}
    BY <1>8, <1>9, <1>11, <1>12, <2>1
  <2> QED
    BY <2>2, EmptyDocument
<1>13. CASE nodes # <<>>
  <2>1. new = nodes
    BY <1>9, <1>13
  <2>2. new \in [1..Len(new) -> Paragraphs] /\ Len(new) \in 0..MaxParagraphs
    BY <1>8, <2>1, BoundsAssumption
  <2>3. new \in Documents
    BY <1>13, <2>1, <2>2 DEF Documents, SeqOf
  <2>4. \A c : c \in ChunksOf(new) <=> \E x \in Range(new) : c \in Range(x)
    BY <2>3, ParaOfChunk DEF Range
  <2> QED
    BY <1>8, <1>10, <1>11, <2>1, <2>3, <2>4
<1> QED
  BY <1>12, <1>13

\* Step 6 again: the chunk ids of the new document are distinct.
LEMMA DistinctApart ==
  ASSUME NEW m \in Documents, Distinct(m)
  PROVE  Apart(m)
<1>1. m \in Seq(Seq(Chunks))
  BY DocumentShape
<1>2. Cardinality(Range(FlattenSeq(m))) = Len(FlattenSeq(m))
  BY DEF Distinct
<1>3. \A p, q \in DOMAIN m : \A c \in Range(m[p]) : c \in Range(m[q]) => p = q
  BY <1>1, <1>2, FlattenDistinct
<1> QED
  BY <1>3 DEF Apart

---------------------------------------------------------------------------
(* What a stage of a running operation leaves alone *)

\* The operation goes on: it is the same one, with the same snapshot.
SameTask ==
    /\ op # Idle /\ op'.kind = op.kind
    /\ op'.doc = op.doc /\ op'.text = op.text /\ op'.old = op.old
    /\ op'.snap = op.snap /\ op'.before = op.before
    /\ op'.failed \/ op'.unresolved = {}
    /\ op.kind = "delete" => op'.unresolved \subseteq DOMAIN op.snap

\* The step writes only objects of its document, or chunks nobody else has.
Confined ==
    \A c \in Chunks : store'[c] # store[c] =>
        /\ store[c] = NoObject \/ store[c].doc = op.doc
        /\ \/ store'[c] = NoObject
           \/ /\ store'[c].doc = op.doc
              /\ \A e \in Docs \ {op.doc} : c \notin ChunksOf(parMap[e])

\* What a step keeps while it writes no map.
StageFrame == UNCHANGED <<maps, creation, reported>> /\ SameTask /\ Confined

\* Such a step does not change what is damaged of any other document.
LEMMA OthersUntouched ==
  ASSUME TypeInv, TypeInv', StageFrame, NEW d \in Docs, d # op.doc
  PROVE  Damage(d)' = Damage(d)
<1>1. parMap'[d] = parMap[d] /\ op.doc # d
  BY DEF StageFrame, maps
<1>2. \A c \in Chunks : c \in Damage(d)' <=> c \in Damage(d)
  <2>1. TAKE c \in Chunks
  <2>2. CASE store'[c] = store[c]
    BY <1>1, <2>2 DEF Damage, ByDocument
  <2>3. CASE store'[c] # store[c]
    <3>1. store[c] = NoObject \/ store[c].doc # d
      BY <1>1, <2>3 DEF StageFrame, Confined
    <3>2. store'[c] = NoObject \/ store'[c].doc # d
      BY <1>1, <2>3 DEF StageFrame, Confined
    <3>3. ParaOf(parMap[d], c) \in Paras =>
             /\ [doc |-> d, par |-> ParaOf(parMap[d], c)] \in Records
             /\ [doc |-> d, par |-> ParaOf(parMap[d], c)].doc = d
      BY DEF Records
    <3>4. c \in ChunksOf(parMap[d]) => ParaOf(parMap[d], c) \in Paras
      BY ParaOfChunk, EmptyDocument DEF TypeInv
    <3>5. c \in ChunksOf(parMap[d]) => c \in Damage(d) /\ c \in Damage(d)'
      BY <1>1, <3>1, <3>2, <3>3, <3>4, AbsenceAssumption DEF Damage
    <3>6. c \notin ChunksOf(parMap[d]) => c \notin Damage(d) /\ c \notin Damage(d)'
      BY <1>1, <3>1, <3>2 DEF Damage, ByDocument
    <3> QED
      BY <3>5, <3>6
  <2> QED
    BY <2>2, <2>3
<1> QED
  BY <1>2 DEF Damage

\* Every stage of an operation keeps what the invariant says of the maps, of
\* the other documents and of the snapshot.
LEMMA StageStep ==
  ASSUME WInv, TypeInv', StageFrame
  PROVE  LifeInv' /\ OpInv' /\ ApartInv' /\ OwnedInv' /\ SnapInv' /\ ReportInv'
<1> USE DEF StageFrame, SameTask, maps
<1>1. op # Idle /\ op' # Idle /\ op'.doc = op.doc /\ op.doc \in Docs
  <2>1. op.kind \in {"save", "delete"} /\ op.doc \in Docs
    BY OpShape DEF WInv
  <2> QED
    BY <2>1 DEF Idle
<1>2. LifeInv'
  BY DEF WInv, LifeInv
<1>3. OpInv'
  BY <1>1 DEF WInv, OpInv
<1>4. ApartInv'
  BY DEF WInv, ApartInv, Apart, ChunksOf
<1>5. OwnedInv'
  <2>1. SUFFICES ASSUME NEW d \in Docs, NEW c \in ChunksOf(parMap[d]), store'[c] # NoObject
                 PROVE  store'[c].doc = d
    BY DEF OwnedInv
  <2>2. c \in Chunks
    BY <2>1, ParaOfChunk, EmptyDocument DEF WInv, TypeInv
  <2>3. CASE store'[c] = store[c]
    BY <2>1, <2>3 DEF WInv, OwnedInv
  <2>4. CASE store'[c] # store[c]
    BY <2>1, <2>2, <2>4 DEF Confined
  <2> QED
    BY <2>3, <2>4
<1>6. SnapInv'
  <2>1. /\ parMap' = parMap /\ op'.snap = op.snap /\ op'.doc = op.doc
        /\ op'.old = op.old /\ op'.before = op.before /\ op'.kind = op.kind
    OBVIOUS
  <2>2. \A c \in DOMAIN op.snap :
              /\ op.snap[c].doc = op.doc
              /\ \A e \in Docs \ {op.doc} : c \notin ChunksOf(parMap[e])
              /\ \/ c \in op.before
                 \/ c \in ChunksOf(op.old) /\ op.snap[c].par = ParaOf(op.old, c)
    BY <1>1 DEF WInv, SnapInv
  <2> QED
    BY <2>1, <2>2 DEF SnapInv
<1>7. ReportInv'
  <2>1. \A d \in Docs : d # op.doc => Damage(d)' = Damage(d)
    BY OthersUntouched DEF WInv
  <2>2. DamageReported'
    BY <1>1, <2>1 DEF WInv, ReportInv, DamageReported
  <2> QED
    BY <2>2 DEF WInv, ReportInv
<1> QED
  BY <1>2, <1>3, <1>4, <1>5, <1>6, <1>7

---------------------------------------------------------------------------
(* The stages of a save, one lemma for each *)

\* Step 3: a union is deleted, or part of it is and the call fails.
LEMMA DeleteUnionStep ==
  ASSUME WInv, DeleteUnion
  PROVE  WInv' /\ StageFrame
<1> DEFINE ids == ByParagraphs(op.doc, NextUnion)
           left == op.left \ NextUnion
<1>1. /\ op \in SaveOps /\ op # Idle /\ op.kind = "save" /\ op.at = "delete"
      /\ op.left \subseteq op.marked
  BY OpShape DEF WInv, DeleteUnion, Running, MarkedInv
<1>2. PICK gone \in SUBSET ids :
         /\ store' = Removed(gone)
         /\ \/ /\ gone = ids /\ UNCHANGED faults
               /\ op' = [op EXCEPT !.left = left,
                                   !.at = IF left = {} THEN "process" ELSE "delete"]
            \/ /\ faults' \in 0..MaxFaults
               /\ op' = [op EXCEPT !.at = "undoMoves"]
  <2>1. Fault => faults' \in 0..MaxFaults
    BY BoundsAssumption DEF Fault, WInv, TypeInv
  <2> QED
    BY <2>1 DEF DeleteUnion, DeleteMany, Confirmed
<1>3. UNCHANGED <<maps, creation, reported>>
  BY DEF DeleteUnion, maps
<1>4. NextUnion \subseteq op.left
  BY DEF NextUnion, Group
<1>5. gone \subseteq DOMAIN op.snap /\ gone \subseteq Chunks
  BY <1>1, <1>4 DEF WInv, ForwardInv, ByParagraphs, ByDocument
<1>6. /\ store' \in [Chunks -> Records \cup {NoObject}]
      /\ \A c \in Chunks : store'[c] = IF c \in gone THEN NoObject ELSE store[c]
  BY <1>2 DEF Removed, WInv, TypeInv
<1>7. /\ op' \in SaveOps
      /\ op'.kind = "save" /\ op'.doc = op.doc /\ op'.text = op.text /\ op'.old = op.old
      /\ op'.snap = op.snap /\ op'.before = op.before /\ op'.failed = op.failed
      /\ op'.unresolved = op.unresolved /\ op'.marked = op.marked
      /\ op'.newText = op.newText /\ op'.new = op.new
      /\ op'.attempted = op.attempted /\ op'.moved = op.moved
      /\ op'.left \in {left, op.left} /\ op'.at \in {"process", "delete", "undoMoves"}
      /\ op'.at # "undoMoves" => op'.left = left /\ (op'.at = "process" <=> left = {})
  <2>1. left \in SUBSET Paras
    BY <1>1 DEF SaveOps
  <2>2. PICK l \in SUBSET Paras, a \in {"process", "delete", "undoMoves"} :
           /\ op' = [op EXCEPT !.left = l, !.at = a]
           /\ l \in {left, op.left}
           /\ a # "undoMoves" => l = left /\ (a = "process" <=> left = {})
    <3>1. CASE op' = [op EXCEPT !.at = "undoMoves"]
      <4>1. op' = [op EXCEPT !.left = op.left, !.at = "undoMoves"]
        BY <1>1, <3>1 DEF SaveOps
      <4> QED
        BY <1>1, <4>1 DEF SaveOps
    <3>2. CASE op' = [op EXCEPT !.left = left,
                                !.at = IF left = {} THEN "process" ELSE "delete"]
      <4> HIDE DEF left
      <4> QED
        BY <2>1, <3>2
    <3> QED
      BY <1>2, <3>1, <3>2
  <2> HIDE DEF left
  <2> QED
    BY <1>1, <2>2 DEF SaveOps
<1>8. TypeInv'
  BY <1>2, <1>3, <1>6, <1>7 DEF WInv, TypeInv, maps
<1>10. StageFrame
  <2>1. SameTask
    BY <1>1, <1>7 DEF SameTask, WInv, OpInv
  <2>2. Confined
    BY <1>2, <1>6 DEF Confined, ByParagraphs, ByDocument
  <2> QED
    BY <1>3, <2>1, <2>2 DEF StageFrame
<1>11. LifeInv' /\ OpInv' /\ ApartInv' /\ OwnedInv' /\ SnapInv' /\ ReportInv'
  BY <1>8, <1>10, StageStep
<1>12. MarkedInv'
  BY <1>1, <1>7 DEF WInv, MarkedInv
<1>13. PlanInv'
  <2>1. op'.new = <<>>
    BY <1>1, <1>7 DEF WInv, PlanInv
  <2> QED
    BY <1>1, <1>7, <2>1 DEF WInv, PlanInv, ToInsert, ToMove, Moved
<1>14. \A d \in Docs : \A c \in Damage(d)' : c \in gone \/ c \in Damage(d)
  BY <1>3, <1>6 DEF Damage, ByDocument, maps
<1>15. op.doc \in Docs
  BY <1>1 DEF SaveOps
<1>16. DamageInv'
  BY <1>1, <1>5, <1>7, <1>14, <1>15 DEF WInv, DamageInv, Exposed
<1>17. ForwardInv'
  <2>1. CASE op'.at = "undoMoves"
    BY <2>1 DEF ForwardInv
  <2>2. CASE op'.at # "undoMoves"
    <3>1. gone = ids /\ op'.left = left /\ (op'.at = "process" => left = {})
      BY <1>1, <1>2, <1>7, <2>2 DEF SaveOps
    <3>2. PICK d, ps, rest : d = op.doc /\ ps = op.marked /\ rest = op.marked \ left
      OBVIOUS
    <3>3. d = op'.doc /\ ps = op'.marked /\ rest = op'.marked \ op'.left /\ d \in Docs
      BY <1>7, <1>15, <3>1, <3>2
    <3>4. \A qs : \A c \in ByParagraphs(d, qs)' : c \in ByParagraphs(d, qs) \ gone
      BY <1>6 DEF ByParagraphs, ByDocument
    <3>5. ByParagraphs(d, rest)' = {}
      <4>1. ByParagraphs(op.doc, op.marked \ op.left) = {}
        BY <1>1 DEF WInv, ForwardInv
      <4>2. \A c \in ByParagraphs(op.doc, op.marked \ left) :
               c \in ids \/ c \in ByParagraphs(op.doc, op.marked \ op.left)
        BY DEF ByParagraphs
      <4> QED
        BY <3>1, <3>2, <3>4, <4>1, <4>2
    <3>6. ByParagraphs(d, ps)' \subseteq DOMAIN op.snap
      BY <1>1, <3>2, <3>4 DEF WInv, ForwardInv
    <3>7. \A c \in DOMAIN op.snap : c \in Chunks /\ store'[c] \in {NoObject, op.snap[c]}
      BY <1>1, <1>6 DEF WInv, ForwardInv, SaveOps, Snapshots
    <3>8. \A c \in DOMAIN op.snap : op.snap[c].par \in ps /\ op.snap[c].doc = d
      BY <1>1, <3>2 DEF WInv, ForwardInv, SnapInv
    <3>9. left = {} => \A c \in DOMAIN op.snap : store'[c] = NoObject
      <4>1. left = {} => ByParagraphs(d, ps)' = {}
        BY <3>2, <3>5
      <4> QED
        BY <3>7, <3>8, <4>1 DEF ByParagraphs, ByDocument
    <3>10. Damage(d)' \subseteq op.before \cup DOMAIN op.snap \cup op.attempted
      BY <1>1, <1>5, <1>14, <1>15, <3>2 DEF WInv, ForwardInv
    <3>11. /\ ByParagraphs(op.doc, op.marked)' = ByParagraphs(d, ps)'
           /\ ByParagraphs(op.doc, op.marked \ op.left)' = ByParagraphs(d, rest)'
           /\ Damage(op.doc)' = Damage(d)'
      BY <3>3
    <3> HIDE DEF left, ids
    <3> QED
      BY <1>7, <2>2, <3>1, <3>2, <3>5, <3>6, <3>7, <3>8, <3>9, <3>10, <3>11 DEF ForwardInv
  <2> QED
    BY <2>1, <2>2
<1>18. ForgetInv'
  BY <1>7 DEF ForgetInv
<1> QED
  BY <1>10, <1>8, <1>11, <1>12, <1>13, <1>16, <1>17, <1>18 DEF WInv

\* Steps 4-6: the new paragraphs are planned; only the operation changes.
LEMMA ProcessStep ==
  ASSUME WInv, Process
  PROVE  WInv' /\ StageFrame
<1>1. /\ op \in SaveOps /\ op # Idle /\ op.kind = "save" /\ op.at = "process"
      /\ op.marked \subseteq DOMAIN op.old /\ op.doc \in Docs
  BY OpShape DEF WInv, Process, Running, MarkedInv
<1>2. PICK edit \in [Firsts -> NewParagraphs] :
         /\ Distinct(Substitute(op.old, edit))
         /\ Len(Substitute(op.old, edit)) <= MaxParagraphs
         /\ op' = [op EXCEPT !.at = "insert", !.new = Substitute(op.old, edit),
                             !.newText = Substitute(op.text, edit)]
  BY DEF Process
<1>3. PICK new : new = Substitute(op.old, edit)
  OBVIOUS
<1>4. /\ new \in Documents
      /\ \A c : c \in ChunksOf(new) =>
            c \in Free \/ \E p \in DOMAIN op.old \ op.marked : c \in Range(op.old[p])
      /\ \A p \in DOMAIN op.old \ op.marked : Range(op.old[p]) \subseteq ChunksOf(new)
  BY <1>1, <1>2, <1>3, SubstitutePlan DEF WInv
<1>5. Apart(new)
  BY <1>2, <1>3, <1>4, DistinctApart
<1>6. op.text = op.old /\ op.old = parMap[op.doc] /\ op.old \in Documents /\ Apart(op.old)
  BY <1>1, DocumentShape DEF WInv, OpInv, LifeInv, ApartInv, SaveOps
<1>7. /\ op' \in SaveOps
      /\ op'.kind = "save" /\ op'.doc = op.doc /\ op'.text = op.text /\ op'.old = op.old
      /\ op'.snap = op.snap /\ op'.before = op.before /\ op'.failed = op.failed
      /\ op'.unresolved = op.unresolved /\ op'.marked = op.marked /\ op'.left = op.left
      /\ op'.newText = new /\ op'.new = new /\ op'.at = "insert"
      /\ op'.attempted = op.attempted /\ op'.moved = op.moved
  <2>1. op' = [op EXCEPT !.at = "insert", !.new = new, !.newText = new]
    BY <1>2, <1>3, <1>6
  <2> QED
    BY <1>1, <1>4, <2>1 DEF SaveOps, Plans
<1>8. UNCHANGED <<maps, creation, store, reported, faults>>
  BY DEF Process
<1>9. TypeInv'
  BY <1>7, <1>8 DEF WInv, TypeInv, maps
<1>10. StageFrame
  BY <1>1, <1>7, <1>8 DEF StageFrame, SameTask, Confined, WInv, OpInv
<1>11. LifeInv' /\ OpInv' /\ ApartInv' /\ OwnedInv' /\ SnapInv' /\ ReportInv'
  BY <1>9, <1>10, StageStep
<1>12. MarkedInv'
  BY <1>1, <1>7 DEF WInv, MarkedInv
<1>13. op.attempted = {} /\ op.moved = {}
  BY <1>1, EmptyDocument DEF WInv, PlanInv, ToInsert, ToMove
<1>14. PlanInv'
  <2>1. \A c \in Free : store[c] = NoObject /\ \A d \in Docs : c \notin ChunksOf(parMap[d])
    BY DEF Free
  <2>2. DOMAIN op.snap = UNION {Range(op.old[p]) : p \in op.marked}
    BY <1>1 DEF WInv, MarkedInv
  <2>3. \A p \in DOMAIN op.old : \A c : c \in Range(op.old[p]) =>
           c \in ChunksOf(op.old) /\ (c \in DOMAIN op.snap <=> p \in op.marked)
    BY <1>1, <1>6, <2>2, ParaOfUnique DEF Apart
  <2>4. ChunksOf(op.old) \cap ChunksOf(new) = ChunksOf(op.old) \ DOMAIN op.snap
    <3>1. \A c \in ChunksOf(op.old) \cap ChunksOf(new) : c \notin DOMAIN op.snap
      BY <1>1, <1>4, <1>6, <2>1, <2>3
    <3>2. \A c \in ChunksOf(op.old) \ DOMAIN op.snap : c \in ChunksOf(new)
      BY <1>4, <1>6, <2>3, ParaOfChunk
    <3> QED
      BY <3>1, <3>2
  <2>5. \A c \in ChunksOf(new) \ ChunksOf(op.old) :
           store[c] = NoObject /\ \A d \in Docs : c \notin ChunksOf(parMap[d])
    BY <1>4, <2>1, <2>3
  <2>6. /\ op'.attempted \subseteq ToInsert' /\ op'.moved \subseteq ToMove'
        /\ ToInsert' = ChunksOf(new) \ ChunksOf(op.old)
    BY <1>7, <1>13 DEF ToInsert, ToMove
  <2>7. new # <<>>
    BY <1>4 DEF Documents
  <2> QED
    BY <1>5, <1>7, <1>8, <2>4, <2>5, <2>6, <2>7 DEF PlanInv, maps
<1>15. Damage(op.doc)' = Damage(op.doc)
  BY <1>7, <1>8 DEF Damage, ByDocument, maps
<1>16. DamageInv'
  BY <1>1, <1>7, <1>15 DEF WInv, DamageInv, Exposed
<1>17. ForwardInv'
  BY <1>1, <1>7, <1>8, <1>13, <1>15 DEF WInv, ForwardInv
<1>18. ForgetInv'
  BY <1>7 DEF ForgetInv
<1> QED
  BY <1>10, <1>9, <1>11, <1>12, <1>14, <1>16, <1>17, <1>18 DEF WInv

\* ... or the planning fails.
LEMMA ProcessFailsStep ==
  ASSUME WInv, ProcessFails
  PROVE  WInv' /\ StageFrame
<1>1. /\ op \in SaveOps /\ op # Idle /\ op.kind = "save" /\ op.at = "process"
      /\ op' = [op EXCEPT !.at = "undoMoves"]
  BY OpShape DEF WInv, ProcessFails, Running
<1>2. /\ op' \in SaveOps
      /\ op'.kind = "save" /\ op'.doc = op.doc /\ op'.text = op.text /\ op'.old = op.old
      /\ op'.snap = op.snap /\ op'.before = op.before /\ op'.failed = op.failed
      /\ op'.unresolved = op.unresolved /\ op'.marked = op.marked /\ op'.left = op.left
      /\ op'.newText = op.newText /\ op'.new = op.new /\ op'.at = "undoMoves"
      /\ op'.attempted = op.attempted /\ op'.moved = op.moved
  BY <1>1 DEF SaveOps
<1>3. UNCHANGED <<maps, creation, store, reported>> /\ faults' \in 0..MaxFaults
  BY BoundsAssumption DEF ProcessFails, Fault, WInv, TypeInv
<1>4. TypeInv'
  BY <1>2, <1>3 DEF WInv, TypeInv, maps
<1>5. StageFrame
  BY <1>1, <1>2, <1>3 DEF StageFrame, SameTask, Confined, WInv, OpInv
<1>6. LifeInv' /\ OpInv' /\ ApartInv' /\ OwnedInv' /\ SnapInv' /\ ReportInv'
  BY <1>4, <1>5, StageStep
<1>7. MarkedInv' /\ ForgetInv'
  BY <1>1, <1>2 DEF WInv, MarkedInv, ForgetInv
<1>8. PlanInv'
  BY <1>1, <1>2, <1>3 DEF WInv, PlanInv, ToInsert, ToMove, Moved, maps
<1>9. Damage(op.doc)' = Damage(op.doc)
  BY <1>2, <1>3 DEF Damage, ByDocument, maps
<1>10. DamageInv'
  BY <1>1, <1>2, <1>9 DEF WInv, DamageInv, Exposed
<1>11. ForwardInv'
  BY <1>2 DEF ForwardInv
<1> QED
  BY <1>5, <1>4, <1>6, <1>7, <1>8, <1>10, <1>11 DEF WInv

\* Step 7a: a fresh chunk is inserted, or the call raises, with or without
\* effect; either way its id counts as attempted.
LEMMA InsertStep ==
  ASSUME WInv, NEW c \in Chunks, Insert(c) \/ InsertRaises(c)
  PROVE  WInv' /\ StageFrame
<1> DEFINE placed == [doc |-> op.doc, par |-> ParaOf(op.new, c)]
<1>1. /\ op \in SaveOps /\ op # Idle /\ op.kind = "save" /\ op.at = "insert"
      /\ op.doc \in Docs /\ c \in ToInsert \ op.attempted
  BY OpShape DEF WInv, Insert, InsertRaises, Running
<1>2. op.new \in Documents /\ op.old \in Documents
  BY <1>1 DEF WInv, PlanInv, SaveOps, Plans
<1>3. /\ store[c] = NoObject /\ \A d \in Docs : c \notin ChunksOf(parMap[d])
      /\ c \in ChunksOf(op.new) /\ c \notin ChunksOf(op.old)
      /\ placed \in Records /\ placed.doc = op.doc
  BY <1>1, <1>2, ParaOfChunk DEF WInv, PlanInv, ToInsert, Records
<1>4. PICK stage \in {"insert", "undoMoves"} :
         /\ op' = [op EXCEPT !.attempted = op.attempted \cup {c}, !.at = stage]
         /\ store' \in {store, [store EXCEPT ![c] = placed]}
         /\ stage = "insert" => store' = [store EXCEPT ![c] = placed]
         /\ faults' \in 0..MaxFaults
  <2>1. CASE Insert(c)
    BY <1>1, <2>1 DEF Insert, Attempted, SaveOps, WInv, TypeInv
  <2>2. CASE InsertRaises(c)
    <3>1. faults' \in 0..MaxFaults
      BY <2>2, BoundsAssumption DEF InsertRaises, Fault, WInv, TypeInv
    <3> QED
      BY <2>2, <3>1 DEF InsertRaises, Attempted
  <2> QED
    BY <2>1, <2>2
<1>5. /\ op' \in SaveOps
      /\ op'.kind = "save" /\ op'.doc = op.doc /\ op'.text = op.text /\ op'.old = op.old
      /\ op'.snap = op.snap /\ op'.before = op.before /\ op'.failed = op.failed
      /\ op'.unresolved = op.unresolved /\ op'.marked = op.marked /\ op'.left = op.left
      /\ op'.newText = op.newText /\ op'.new = op.new /\ op'.at = stage
      /\ op'.attempted = op.attempted \cup {c} /\ op'.moved = op.moved
  BY <1>1, <1>4 DEF SaveOps
<1>6. UNCHANGED <<maps, creation, reported>>
  BY DEF Insert, InsertRaises, maps
<1>7. /\ store' \in [Chunks -> Records \cup {NoObject}]
      /\ \A x \in Chunks : x # c => store'[x] = store[x]
      /\ store'[c] \in {NoObject, placed}
      /\ stage = "insert" => store'[c] = placed
  BY <1>3, <1>4 DEF WInv, TypeInv
<1> HIDE DEF placed
<1>8. TypeInv'
  BY <1>4, <1>5, <1>6, <1>7 DEF WInv, TypeInv, maps
<1>9. StageFrame
  <2>1. Confined
    BY <1>1, <1>3, <1>7 DEF Confined
  <2> QED
    BY <1>1, <1>5, <1>6, <2>1 DEF StageFrame, SameTask, WInv, OpInv
<1>10. LifeInv' /\ OpInv' /\ ApartInv' /\ OwnedInv' /\ SnapInv' /\ ReportInv'
  BY <1>8, <1>9, StageStep
<1>11. MarkedInv' /\ ForgetInv'
  BY <1>1, <1>5 DEF WInv, MarkedInv, ForgetInv
<1>12. PlanInv'
  <2>1. ToInsert' = ToInsert /\ ToMove' = ToMove
    BY <1>5 DEF ToInsert, ToMove, Moved
  <2>2. \A x \in ToInsert :
           /\ \A d \in Docs : x \notin ChunksOf(parMap[d])
           /\ store'[x] # NoObject => x \in op'.attempted /\ store'[x].doc = op.doc
    BY <1>1, <1>2, <1>3, <1>5, <1>7, ParaOfChunk DEF WInv, PlanInv, ToInsert
  <2>3. op'.attempted \subseteq ToInsert
    BY <1>1, <1>5 DEF WInv, PlanInv
  <2> QED
    BY <1>1, <1>4, <1>5, <1>6, <2>1, <2>2, <2>3 DEF WInv, PlanInv, maps
<1>13. Damage(op.doc)' \subseteq Damage(op.doc) \cup {c}
  BY <1>5, <1>6, <1>7 DEF Damage, ByDocument, maps
<1>14. DamageInv'
  BY <1>1, <1>5, <1>13 DEF WInv, DamageInv, Exposed
<1>15. ForwardInv'
  <2>1. CASE stage = "undoMoves"
    BY <1>5, <2>1 DEF ForwardInv
  <2>2. CASE stage = "insert"
    <3>1. placed = [doc |-> op.doc, par |-> ParaOf(op.new, c)]
      BY DEF placed
    <3>2. \A x \in op.attempted : x \in Chunks /\ x # c
      BY <1>1 DEF SaveOps
    <3>3. \A x \in op'.attempted : store'[x] = [doc |-> op.doc, par |-> ParaOf(op.new, x)]
      BY <1>1, <1>5, <1>7, <2>2, <3>1, <3>2 DEF WInv, ForwardInv
    <3>4. \A x \in DOMAIN op.snap : store'[x] = NoObject
      <4>1. \A x \in DOMAIN op.snap : x \in Chunks /\ store[x] = NoObject
        BY <1>1 DEF WInv, ForwardInv, SaveOps, Snapshots
      <4>2. c \notin DOMAIN op.snap
        <5>1. DOMAIN op.snap \subseteq ChunksOf(op.old)
          BY <1>1, <1>2, ParaOfChunk DEF WInv, MarkedInv
        <5> QED
          BY <1>3, <5>1
      <4> QED
        BY <1>7, <4>1, <4>2
    <3>5. Damage(op.doc)' \subseteq op.before \cup DOMAIN op.snap \cup op'.attempted
      BY <1>1, <1>5, <1>13 DEF WInv, ForwardInv
    <3> QED
      BY <1>5, <2>2, <3>3, <3>4, <3>5 DEF ForwardInv
  <2> QED
    BY <2>1, <2>2
<1> QED
  BY <1>9, <1>8, <1>10, <1>11, <1>12, <1>14, <1>15 DEF WInv

\* What update_paragraph_ids leaves where: the objects it reached are of the
\* document they were of, and in the paragraph the map names.
LEMMA UpdatedObjects ==
  ASSUME TypeInv, NEW m \in Documents, NEW done \in SUBSET ChunksOf(m),
         store' = Updated(done, m)
  PROVE  /\ store' \in [Chunks -> Records \cup {NoObject}]
         /\ \A c \in Chunks : c \notin done => store'[c] = store[c]
         /\ \A c \in Chunks : store'[c] = NoObject <=> store[c] = NoObject
         /\ \A c \in Chunks : store[c] # NoObject => store'[c].doc = store[c].doc
<1>1. \A c \in Chunks : store[c] \in Records \cup {NoObject}
  BY DEF TypeInv
<1>2. \A c \in done : c \in Chunks /\ ParaOf(m, c) \in Paras
  BY ParaOfChunk
<1>3. \A c \in Chunks : store'[c] = IF c \in done /\ store[c] # NoObject
                                   THEN [store[c] EXCEPT !.par = ParaOf(m, c)]
                                   ELSE store[c]
  BY <1>2 DEF Updated, Present
<1>4. \A c \in Chunks : c \in done /\ store[c] # NoObject =>
         /\ [store[c] EXCEPT !.par = ParaOf(m, c)] \in Records
         /\ [store[c] EXCEPT !.par = ParaOf(m, c)].doc = store[c].doc
  BY <1>1, <1>2 DEF Records
<1>5. store' \in [Chunks -> Records \cup {NoObject}]
  <2>1. \A c \in Chunks : store'[c] \in Records \cup {NoObject}
    BY <1>1, <1>3, <1>4
  <2> QED
    BY <2>1 DEF Updated
<1>6. \A c \in Chunks : c \in done /\ store[c] # NoObject => store'[c] # NoObject
  BY <1>3, <1>4, AbsenceAssumption
<1> QED
  BY <1>3, <1>4, <1>5, <1>6

\* An object of the document that is in paragraph p is exactly that record.
LEMMA RecordIs ==
  ASSUME NEW r \in Records
  PROVE  r = [doc |-> r.doc, par |-> r.par]
BY DEF Records

\* Step 7b: the chunks of the untouched paragraphs are renumbered, or some.
LEMMA MoveStep ==
  ASSUME WInv, Move \/ MoveFails
  PROVE  WInv' /\ StageFrame
<1>1. /\ op \in SaveOps /\ op # Idle /\ op.kind = "save" /\ op.at = "insert"
      /\ op.doc \in Docs /\ ToInsert \subseteq op.attempted
  BY OpShape DEF WInv, Move, MoveFails, Running
<1>2. /\ op.new \in Documents /\ op.old \in Documents
      /\ op.old = parMap[op.doc] /\ Apart(op.new) /\ Apart(op.old)
  BY <1>1, DocumentShape DEF WInv, PlanInv, OpInv, ApartInv, SaveOps, Plans
<1>3. ToMove \subseteq ChunksOf(op.new) /\ ToMove \subseteq ChunksOf(op.old)
      /\ ToMove \subseteq Chunks /\ ChunksOf(op.new) \subseteq Chunks
      /\ ChunksOf(op.old) \subseteq Chunks
  BY <1>2, ParaOfChunk DEF ToMove
<1>4. PICK stage \in {"commit", "undoMoves"}, done \in SUBSET ToMove :
         /\ op' = [op EXCEPT !.at = stage, !.moved = ToMove]
         /\ store' = Updated(done, op.new)
         /\ stage = "commit" => Verified(ToMove, op.new)
         /\ faults' \in 0..MaxFaults
  <2>1. CASE Move
    BY <2>1 DEF Move, WInv, TypeInv
  <2>2. CASE MoveFails
    <3>1. faults' \in 0..MaxFaults
      BY <2>2, BoundsAssumption DEF MoveFails, Fault, WInv, TypeInv
    <3>2. PICK done \in SUBSET Present(ToMove) : store' = Updated(done, op.new)
      BY <2>2 DEF MoveFails
    <3>3. done \in SUBSET ToMove
      BY <3>2 DEF Present
    <3> QED
      BY <2>2, <3>1, <3>2, <3>3 DEF MoveFails
  <2> QED
    BY <2>1, <2>2
<1>5. /\ op' \in SaveOps
      /\ op'.kind = "save" /\ op'.doc = op.doc /\ op'.text = op.text /\ op'.old = op.old
      /\ op'.snap = op.snap /\ op'.before = op.before /\ op'.failed = op.failed
      /\ op'.unresolved = op.unresolved /\ op'.marked = op.marked /\ op'.left = op.left
      /\ op'.newText = op.newText /\ op'.new = op.new /\ op'.at = stage
      /\ op'.attempted = op.attempted /\ op'.moved = ToMove
  <2>1. PICK mv : mv = ToMove
    OBVIOUS
  <2> QED
    BY <1>1, <1>3, <1>4, <2>1 DEF SaveOps
<1>6. UNCHANGED <<maps, creation, reported>>
  BY DEF Move, MoveFails, maps
<1>7. /\ store' \in [Chunks -> Records \cup {NoObject}]
      /\ \A c \in Chunks : c \notin done => store'[c] = store[c]
      /\ \A c \in Chunks : store'[c] = NoObject <=> store[c] = NoObject
      /\ \A c \in Chunks : store[c] # NoObject => store'[c].doc = store[c].doc
  BY <1>2, <1>3, <1>4, UpdatedObjects DEF WInv
<1>8. TypeInv'
  BY <1>4, <1>5, <1>6, <1>7 DEF WInv, TypeInv, maps
<1>9. StageFrame
  <2>1. \A c \in ToMove : /\ store[c] # NoObject => store[c].doc = op.doc
                          /\ \A e \in Docs \ {op.doc} : c \notin ChunksOf(parMap[e])
    BY <1>1, <1>2, <1>3 DEF WInv, OwnedInv, ApartInv
  <2>2. Confined
    BY <1>7, <2>1 DEF Confined
  <2> QED
    BY <1>1, <1>5, <1>6, <2>2 DEF StageFrame, SameTask, WInv, OpInv
<1>10. LifeInv' /\ OpInv' /\ ApartInv' /\ OwnedInv' /\ SnapInv' /\ ReportInv'
  BY <1>8, <1>9, StageStep
<1>11. MarkedInv' /\ ForgetInv'
  BY <1>1, <1>5 DEF WInv, MarkedInv, ForgetInv
<1>12. PlanInv'
  <2>1. ToInsert' = ToInsert /\ ToMove' = ToMove
    BY <1>5 DEF ToInsert, ToMove, Moved
  <2>2. ToInsert \subseteq Chunks
    BY <1>3 DEF ToInsert
  <2>3. \A c \in ToInsert :
           /\ \A d \in Docs : c \notin ChunksOf(parMap[d])
           /\ store'[c] # NoObject => c \in op.attempted /\ store'[c].doc = op.doc
    BY <1>1, <1>2, <1>7, <2>2, DocumentShape DEF WInv, PlanInv
  <2> QED
    BY <1>1, <1>2, <1>4, <1>5, <1>6, <2>1, <2>3 DEF WInv, PlanInv, maps
<1>13. Damage(op.doc)' \subseteq Damage(op.doc) \cup ToMove
  BY <1>4, <1>5, <1>6, <1>7 DEF Damage, ByDocument, maps
<1>14. Damage(op.doc) \subseteq op.before \cup DOMAIN op.snap \cup op.attempted
  BY <1>1 DEF WInv, ForwardInv
<1>15. DamageInv'
  BY <1>4, <1>5, <1>13, <1>14 DEF DamageInv, Exposed
<1>16. ForwardInv'
  <2>1. CASE stage = "undoMoves"
    BY <1>5, <2>1 DEF ForwardInv
  <2>2. CASE stage = "commit"
    <3>1. \A c \in DOMAIN op.snap : c \in Chunks /\ store'[c] = NoObject
      BY <1>1, <1>7 DEF WInv, ForwardInv, SaveOps, Snapshots
    <3>2. ASSUME NEW c \in Chunks, c \notin op.before
          PROVE  IF c \in ChunksOf(op.new)
                 THEN store'[c] = [doc |-> op.doc, par |-> ParaOf(op.new, c)]
                 ELSE ~ (store'[c] # NoObject /\ store'[c].doc = op.doc)
      <4>1. CASE c \in ToMove
        <5>1. store'[c] # NoObject /\ store'[c].par = ParaOf(op.new, c)
          BY <1>4, <2>2, <4>1 DEF Verified
        <5>2. store'[c] \in Records /\ store'[c].doc = op.doc
          <6>1. store[c] # NoObject => store[c].doc = op.doc
            BY <1>1, <1>2, <1>3, <4>1 DEF WInv, OwnedInv
          <6> QED
            BY <1>7, <5>1, <6>1
        <5> QED
          BY <1>3, <4>1, <5>1, <5>2, RecordIs
      <4>2. CASE c \in ToInsert
        <5>1. store[c] = [doc |-> op.doc, par |-> ParaOf(op.new, c)]
          BY <1>1, <4>2 DEF WInv, ForwardInv
        <5>2. c \notin ToMove /\ c \in ChunksOf(op.new)
          BY <4>2 DEF ToInsert, ToMove
        <5> QED
          BY <1>4, <1>7, <5>1, <5>2
      <4>3. CASE c \in ChunksOf(op.new) /\ c \notin ToInsert /\ c \notin ToMove
        <5>1. c \in ChunksOf(op.old) /\ ParaOf(op.new, c) = ParaOf(op.old, c)
          BY <4>3 DEF ToInsert, ToMove, Moved
        <5>2. c \notin DOMAIN op.snap
          BY <1>1, <1>2, <4>3, <5>1, DocumentShape DEF WInv, PlanInv
        <5>3. c \notin op.attempted
          BY <1>1, <4>3 DEF WInv, PlanInv
        <5>4. c \notin Damage(op.doc)
          BY <1>14, <3>2, <5>2, <5>3
        <5>5. store[c] = [doc |-> op.doc, par |-> ParaOf(op.old, c)]
          BY <1>2, <5>1, <5>4 DEF Damage
        <5> QED
          BY <1>4, <1>7, <4>3, <5>1, <5>5
      <4>4. CASE c \notin ChunksOf(op.new)
        <5>1. c \notin ToMove /\ c \notin ToInsert
          BY <4>4 DEF ToMove, ToInsert
        <5>2. CASE c \in DOMAIN op.snap
          BY <3>1, <4>4, <5>2
        <5>3. CASE c \notin DOMAIN op.snap
          <6>1. c \notin ChunksOf(op.old)
            BY <1>1, <1>2, <4>4, <5>3, DocumentShape DEF WInv, PlanInv
          <6>2. c \notin op.attempted
            BY <1>1, <5>1 DEF WInv, PlanInv
          <6>3. c \notin Damage(op.doc)
            BY <1>14, <3>2, <5>3, <6>2
          <6>4. ~ (store[c] # NoObject /\ store[c].doc = op.doc)
            BY <1>2, <6>1, <6>3 DEF Damage, ByDocument
          <6> QED
            BY <1>4, <1>7, <4>4, <5>1, <6>4
        <5> QED
          BY <5>2, <5>3
      <4> QED
        BY <4>1, <4>2, <4>3, <4>4 DEF ToInsert
    <3> QED
      BY <1>5, <2>2, <3>1, <3>2 DEF ForwardInv, ByDocument
  <2> QED
    BY <2>1, <2>2
<1> QED
  BY <1>9, <1>8, <1>10, <1>11, <1>12, <1>15, <1>16 DEF WInv

---------------------------------------------------------------------------
(* The stages of the compensation, and of a delete *)

\* The renumbered chunks go back, or are named in the report.
LEMMA UndoMovesStep ==
  ASSUME WInv, UndoMoves
  PROVE  WInv' /\ StageFrame
<1>1. /\ op \in SaveOps /\ op # Idle /\ op.kind = "save" /\ op.at = "undoMoves"
      /\ op.doc \in Docs /\ op.old \in Documents /\ op.old = parMap[op.doc]
  BY OpShape DEF WInv, UndoMoves, OpInv, SaveOps
<1>2. op.moved \subseteq ToMove /\ op.moved \subseteq ChunksOf(op.old) /\ op.moved \subseteq Chunks
      /\ ToInsert \cap ChunksOf(op.old) = {}
  BY <1>1, ParaOfChunk DEF WInv, PlanInv, ToMove, ToInsert
<1>3. PICK done \in SUBSET op.moved, f \in BOOLEAN, u \in SUBSET Chunks :
         /\ op' = [op EXCEPT !.at = "undoInserts", !.failed = f, !.unresolved = u]
         /\ store' = Updated(done, op.old)
         /\ \/ Verified(op.moved, op.old) /\ f = op.failed /\ u = op.unresolved
            \/ f = TRUE /\ u = op.unresolved \cup op.moved
         /\ faults' \in 0..MaxFaults
  <2>1. Present(op.moved) \subseteq op.moved
    BY DEF Present
  <2>2. CASE /\ store' = Updated(Present(op.moved), op.old)
             /\ Verified(op.moved, op.old)
             /\ op' = Undone("undoInserts")
             /\ UNCHANGED faults
    <3>1. op' = [op EXCEPT !.at = "undoInserts", !.failed = op.failed,
                           !.unresolved = op.unresolved]
      BY <1>1, <2>2 DEF Undone, SaveOps
    <3> QED
      BY <1>1, <2>1, <2>2, <3>1 DEF WInv, TypeInv, SaveOps
  <2>3. CASE /\ op.moved # {}
             /\ \E done \in SUBSET Present(op.moved) : store' = Updated(done, op.old)
             /\ IF Present(op.moved) = op.moved THEN Fault ELSE UNCHANGED faults
             /\ op' = NotUndone("undoInserts", op.moved)
    <3>1. faults' \in 0..MaxFaults
      BY <2>3, BoundsAssumption DEF Fault, WInv, TypeInv
    <3>2. PICK done \in SUBSET op.moved : store' = Updated(done, op.old)
      BY <2>1, <2>3
    <3>3. op' = [op EXCEPT !.at = "undoInserts", !.failed = TRUE,
                           !.unresolved = op.unresolved \cup op.moved]
      BY <2>3 DEF NotUndone
    <3>4. op.unresolved \cup op.moved \in SUBSET Chunks
      BY <1>1, <1>2 DEF SaveOps
    <3> QED
      BY <3>1, <3>2, <3>3, <3>4
  <2> QED
    BY <2>2, <2>3 DEF UndoMoves
<1>4. /\ op' \in SaveOps
      /\ op'.kind = "save" /\ op'.doc = op.doc /\ op'.text = op.text /\ op'.old = op.old
      /\ op'.snap = op.snap /\ op'.before = op.before /\ op'.failed = f
      /\ op'.unresolved = u /\ op'.marked = op.marked /\ op'.left = op.left
      /\ op'.newText = op.newText /\ op'.new = op.new /\ op'.at = "undoInserts"
      /\ op'.attempted = op.attempted /\ op'.moved = op.moved
  BY <1>1, <1>3 DEF SaveOps
<1>5. UNCHANGED <<maps, creation, reported>>
  BY DEF UndoMoves, maps
<1>6. /\ store' \in [Chunks -> Records \cup {NoObject}]
      /\ \A c \in Chunks : c \notin done => store'[c] = store[c]
      /\ \A c \in Chunks : store'[c] = NoObject <=> store[c] = NoObject
      /\ \A c \in Chunks : store[c] # NoObject => store'[c].doc = store[c].doc
  BY <1>1, <1>2, <1>3, UpdatedObjects DEF WInv
<1>7. TypeInv'
  BY <1>3, <1>4, <1>5, <1>6 DEF WInv, TypeInv, maps
<1>8. \A c \in op.moved : /\ store[c] # NoObject => store[c].doc = op.doc
                          /\ \A e \in Docs \ {op.doc} : c \notin ChunksOf(parMap[e])
  BY <1>1, <1>2 DEF WInv, OwnedInv, ApartInv
<1>9. StageFrame
  <2>1. Confined
    BY <1>6, <1>8 DEF Confined
  <2>2. f \/ u = {}
    BY <1>1, <1>3 DEF WInv, OpInv
  <2> QED
    BY <1>1, <1>4, <1>5, <2>1, <2>2 DEF StageFrame, SameTask
<1>10. LifeInv' /\ OpInv' /\ ApartInv' /\ OwnedInv' /\ SnapInv' /\ ReportInv'
  BY <1>7, <1>9, StageStep
<1>11. MarkedInv' /\ ForgetInv' /\ ForwardInv'
  BY <1>1, <1>4 DEF WInv, MarkedInv, ForgetInv, ForwardInv
<1>12. PlanInv'
  <2>1. ToInsert' = ToInsert /\ ToMove' = ToMove
    BY <1>4 DEF ToInsert, ToMove, Moved
  <2>2. op.new # <<>> => ToInsert \subseteq Chunks
    BY <1>1, ParaOfChunk DEF ToInsert, SaveOps, Plans
  <2>3. op.new # <<>> => \A c \in ToInsert :
           /\ \A d \in Docs : c \notin ChunksOf(parMap[d])
           /\ store'[c] # NoObject => c \in op.attempted /\ store'[c].doc = op.doc
    BY <1>1, <1>6, <2>2 DEF WInv, PlanInv
  <2> QED
    BY <1>1, <1>4, <1>5, <2>1, <2>3 DEF WInv, PlanInv, maps
<1>13. ASSUME NEW c \in Damage(op.doc)'
       PROVE  c \in op.before \cup u \cup DOMAIN op.snap \cup op.attempted
  <2>1. c \in Chunks
    BY DEF Damage
  <2>2. CASE c \notin op.moved
    <3>1. c \in Damage(op.doc)
      BY <1>3, <1>4, <1>5, <1>6, <2>1, <2>2 DEF Damage, ByDocument, maps
    <3> QED
      BY <1>1, <1>3, <2>2, <3>1 DEF WInv, DamageInv, Exposed
  <2>3. CASE c \in op.moved /\ Verified(op.moved, op.old)
    <3>1. store'[c] # NoObject /\ store'[c].par = ParaOf(op.old, c)
      BY <2>3 DEF Verified
    <3>2. store'[c] \in Records /\ store'[c].doc = op.doc
      BY <1>6, <1>8, <2>1, <2>3, <3>1
    <3>3. c \in ChunksOf(parMap'[op.doc]) /\ parMap'[op.doc] = op.old
      BY <1>1, <1>2, <1>5, <2>3 DEF maps
    <3>4. store'[c] = [doc |-> op.doc, par |-> ParaOf(parMap'[op.doc], c)]
      BY <3>1, <3>2, <3>3, RecordIs
    <3> QED
      BY <1>4, <3>3, <3>4 DEF Damage
  <2> QED
    BY <1>3, <2>2, <2>3
<1>14. DamageInv'
  BY <1>4, <1>13 DEF DamageInv, Exposed
<1> QED
  BY <1>9, <1>7, <1>10, <1>11, <1>12, <1>14 DEF WInv

\* What delete_many leaves: nothing it removed, everything else as it was.
LEMMA RemovedObjects ==
  ASSUME TypeInv, NEW gone, store' = Removed(gone)
  PROVE  /\ store' \in [Chunks -> Records \cup {NoObject}]
         /\ \A c \in Chunks : store'[c] = IF c \in gone THEN NoObject ELSE store[c]
BY DEF TypeInv, Removed

\* The attempted inserts go, or are named in the report.
LEMMA UndoInsertsStep ==
  ASSUME WInv, UndoInserts
  PROVE  WInv' /\ StageFrame
<1>1. /\ op \in SaveOps /\ op # Idle /\ op.kind = "save" /\ op.at = "undoInserts"
      /\ op.doc \in Docs /\ op.old \in Documents /\ op.old = parMap[op.doc]
  BY OpShape DEF WInv, UndoInserts, Running, OpInv, SaveOps
<1>2. /\ op.attempted \subseteq ToInsert /\ op.attempted \subseteq Chunks
      /\ op.attempted \cap ChunksOf(op.old) = {}
      /\ op.attempted # {} => op.new # <<>>
  BY <1>1, EmptyDocument DEF WInv, PlanInv, ToInsert, SaveOps
<1>3. PICK gone \in SUBSET Present(op.attempted), f \in BOOLEAN, u \in SUBSET Chunks :
         /\ op' = [op EXCEPT !.at = "restoreChunks", !.failed = f, !.unresolved = u]
         /\ store' = Removed(gone)
         /\ \/ gone = Present(op.attempted) /\ f = op.failed /\ u = op.unresolved
            \/ f = TRUE /\ u = op.unresolved \cup op.attempted
         /\ faults' \in 0..MaxFaults
  <2>1. Undone("restoreChunks") = [op EXCEPT !.at = "restoreChunks", !.failed = op.failed,
                                             !.unresolved = op.unresolved]
    BY <1>1 DEF Undone, SaveOps
  <2>2. /\ op.failed \in BOOLEAN /\ op.unresolved \in SUBSET Chunks
        /\ op.unresolved \cup op.attempted \in SUBSET Chunks /\ faults \in 0..MaxFaults
    BY <1>1 DEF SaveOps, WInv, TypeInv
  <2>3. CASE op.attempted = {} /\ op' = Undone("restoreChunks") /\ UNCHANGED <<store, faults>>
    <3>1. Present(op.attempted) = {}
      BY <2>3 DEF Present
    <3>2. store' = Removed({})
      BY <2>3 DEF Removed, WInv, TypeInv
    <3> QED
      BY <2>1, <2>2, <2>3, <3>1, <3>2
  <2>4. CASE DeleteMany(Present(op.attempted), Undone("restoreChunks"),
                        NotUndone("restoreChunks", op.attempted))
    <3>1. PICK gone \in SUBSET Present(op.attempted) :
             /\ store' = Removed(gone)
             /\ \/ /\ gone = Present(op.attempted) /\ UNCHANGED faults
                   /\ op' = Undone("restoreChunks")
                \/ Fault /\ op' = NotUndone("restoreChunks", op.attempted)
      BY <2>4 DEF DeleteMany, Confirmed
    <3>2. Fault => faults' \in 0..MaxFaults
      BY BoundsAssumption DEF Fault, WInv, TypeInv
    <3>3. NotUndone("restoreChunks", op.attempted)
             = [op EXCEPT !.at = "restoreChunks", !.failed = TRUE,
                          !.unresolved = op.unresolved \cup op.attempted]
      BY DEF NotUndone
    <3>4. CASE gone = Present(op.attempted) /\ op' = Undone("restoreChunks") /\ UNCHANGED faults
      BY <2>1, <2>2, <3>1, <3>4
    <3>5. CASE Fault /\ op' = NotUndone("restoreChunks", op.attempted)
      BY <2>2, <3>1, <3>2, <3>3, <3>5
    <3> QED
      BY <3>1, <3>4, <3>5
  <2> QED
    BY <2>3, <2>4 DEF UndoInserts
<1>4. /\ op' \in SaveOps
      /\ op'.kind = "save" /\ op'.doc = op.doc /\ op'.text = op.text /\ op'.old = op.old
      /\ op'.snap = op.snap /\ op'.before = op.before /\ op'.failed = f
      /\ op'.unresolved = u /\ op'.marked = op.marked /\ op'.left = op.left
      /\ op'.newText = op.newText /\ op'.new = op.new /\ op'.at = "restoreChunks"
      /\ op'.attempted = op.attempted /\ op'.moved = op.moved
  BY <1>1, <1>3 DEF SaveOps
<1>5. UNCHANGED <<maps, creation, reported>>
  BY DEF UndoInserts, maps
<1>6. /\ store' \in [Chunks -> Records \cup {NoObject}]
      /\ \A c \in Chunks : store'[c] = IF c \in gone THEN NoObject ELSE store[c]
  BY <1>3, RemovedObjects DEF WInv
<1>7. TypeInv'
  BY <1>3, <1>4, <1>5, <1>6 DEF WInv, TypeInv, maps
<1>8. gone \subseteq op.attempted
  BY <1>3 DEF Present
<1>9. StageFrame
  <2>1. \A c \in op.attempted : store[c] # NoObject => store[c].doc = op.doc
    BY <1>1, <1>2 DEF WInv, PlanInv
  <2>2. Confined
    BY <1>6, <1>8, <2>1 DEF Confined
  <2>3. f \/ u = {}
    BY <1>1, <1>3 DEF WInv, OpInv
  <2> QED
    BY <1>1, <1>4, <1>5, <2>2, <2>3 DEF StageFrame, SameTask
<1>10. LifeInv' /\ OpInv' /\ ApartInv' /\ OwnedInv' /\ SnapInv' /\ ReportInv'
  BY <1>7, <1>9, StageStep
<1>11. MarkedInv' /\ ForgetInv' /\ ForwardInv'
  BY <1>1, <1>4 DEF WInv, MarkedInv, ForgetInv, ForwardInv
<1>12. PlanInv'
  <2>1. ToInsert' = ToInsert /\ ToMove' = ToMove
    BY <1>4 DEF ToInsert, ToMove, Moved
  <2>2. op.new # <<>> => ToInsert \subseteq Chunks
    BY <1>1, ParaOfChunk DEF ToInsert, SaveOps, Plans
  <2>3. op.new # <<>> => \A c \in ToInsert :
           /\ \A d \in Docs : c \notin ChunksOf(parMap[d])
           /\ store'[c] # NoObject => c \in op.attempted /\ store'[c].doc = op.doc
    BY <1>1, <1>6, <2>2 DEF WInv, PlanInv
  <2> QED
    BY <1>1, <1>4, <1>5, <2>1, <2>3 DEF WInv, PlanInv, maps
<1>13. ASSUME NEW c \in Damage(op.doc)'
       PROVE  c \in op.before \cup u \cup DOMAIN op.snap
  <2>1. c \in Chunks
    BY DEF Damage
  <2>2. CASE c \notin op.attempted
    <3>1. c \in Damage(op.doc)
      BY <1>4, <1>5, <1>6, <1>8, <2>1, <2>2 DEF Damage, ByDocument, maps
    <3> QED
      BY <1>1, <1>3, <2>2, <3>1 DEF WInv, DamageInv, Exposed
  <2>3. CASE c \in op.attempted /\ gone = Present(op.attempted)
    <3>1. store'[c] = NoObject
      BY <1>6, <2>1, <2>3 DEF Present
    <3>2. c \notin ChunksOf(parMap'[op'.doc])
      BY <1>1, <1>2, <1>4, <1>5, <2>3 DEF maps
    <3> QED
      BY <3>1, <3>2 DEF Damage, ByDocument
  <2> QED
    BY <1>3, <2>2, <2>3
<1>14. DamageInv'
  BY <1>4, <1>13 DEF DamageInv, Exposed
<1> QED
  BY <1>9, <1>7, <1>10, <1>11, <1>12, <1>14 DEF WInv

\* The snapshot is put back, of a save or of a delete, or is reported.
LEMMA RestoreChunksStep ==
  ASSUME WInv, RestoreChunks
  PROVE  WInv' /\ StageFrame
<1>1. /\ op \in SaveOps \/ op \in DeleteOps
      /\ op # Idle /\ op.kind \in {"save", "delete"} /\ op.at = "restoreChunks"
      /\ op.doc \in Docs /\ op.old \in Documents /\ op.old = parMap[op.doc]
      /\ op.failed \in BOOLEAN /\ op.unresolved \in SUBSET Chunks
      /\ op.snap \in Snapshots
  <2>1. op # Idle
    BY DEF RestoreChunks, Idle
  <2>2. op \in SaveOps \/ op \in DeleteOps
    BY <2>1, OpShape DEF WInv
  <2> QED
    BY <2>1, <2>2 DEF WInv, RestoreChunks, OpInv, SaveOps, DeleteOps
<1>2. \A c \in DOMAIN op.snap :
         /\ c \in Chunks /\ op.snap[c] \in Records /\ op.snap[c].doc = op.doc
         /\ \A e \in Docs \ {op.doc} : c \notin ChunksOf(parMap[e])
         /\ \/ c \in op.before
            \/ c \in ChunksOf(op.old) /\ op.snap[c].par = ParaOf(op.old, c)
  <2>1. \A c \in DOMAIN op.snap : c \in Chunks /\ op.snap[c] \in Records
    BY <1>1 DEF Snapshots
  <2> QED
    BY <1>1, <2>1 DEF WInv, SnapInv
<1>3. PICK some \in SUBSET Lost, f \in BOOLEAN, u \in SUBSET Chunks :
         /\ op' = [op EXCEPT !.at = "restoreMaps", !.failed = f, !.unresolved = u]
         /\ store' = Restored(some)
         /\ \/ some = Lost /\ ~Conflict /\ f = op.failed /\ u = op.unresolved
            \/ f = TRUE /\ u = op.unresolved \cup DOMAIN op.snap
         /\ faults' \in 0..MaxFaults
  <2>1. Undone("restoreMaps") = [op EXCEPT !.at = "restoreMaps", !.failed = op.failed,
                                           !.unresolved = op.unresolved]
    BY <1>1 DEF Undone, SaveOps, DeleteOps
  <2>2. NotUndone("restoreMaps", DOMAIN op.snap)
             = [op EXCEPT !.at = "restoreMaps", !.failed = TRUE,
                          !.unresolved = op.unresolved \cup DOMAIN op.snap]
    BY DEF NotUndone
  <2>3. op.unresolved \cup DOMAIN op.snap \in SUBSET Chunks /\ faults \in 0..MaxFaults
    BY <1>1, <1>2 DEF WInv, TypeInv
  <2>4. CASE ~Conflict /\ store' = Restored(Lost) /\ op' = Undone("restoreMaps") /\ UNCHANGED faults
    BY <1>1, <2>1, <2>3, <2>4
  <2>5. CASE /\ op' = NotUndone("restoreMaps", DOMAIN op.snap)
             /\ UNCHANGED <<store, faults>>
    <3>1. store' = Restored({})
      BY <2>5 DEF Restored, WInv, TypeInv
    <3> QED
      BY <2>2, <2>3, <2>5, <3>1
  <2>6. CASE /\ op' = NotUndone("restoreMaps", DOMAIN op.snap) /\ Fault
             /\ \E some \in SUBSET Lost : store' = Restored(some)
    <3>1. faults' \in 0..MaxFaults
      BY <2>6, BoundsAssumption DEF Fault, WInv, TypeInv
    <3> QED
      BY <2>2, <2>3, <2>6, <3>1
  <2> QED
    BY <2>4, <2>5, <2>6 DEF RestoreChunks
<1>4. /\ op'.kind = op.kind /\ op'.doc = op.doc /\ op'.text = op.text /\ op'.old = op.old
      /\ op'.snap = op.snap /\ op'.before = op.before /\ op'.failed = f
      /\ op'.unresolved = u /\ op'.at = "restoreMaps"
      /\ op' \in SaveOps \cup DeleteOps
      /\ op.kind = "save" =>
            /\ op'.marked = op.marked /\ op'.left = op.left
            /\ op'.newText = op.newText /\ op'.new = op.new
            /\ op'.attempted = op.attempted /\ op'.moved = op.moved
  <2>1. CASE op \in SaveOps
    BY <1>3, <2>1 DEF SaveOps
  <2>2. CASE op \in DeleteOps
    BY <1>3, <2>2 DEF DeleteOps
  <2> QED
    BY <1>1, <2>1, <2>2
<1>5. UNCHANGED <<maps, creation, reported>>
  BY DEF RestoreChunks, maps
<1>6. \A c \in Lost : c \in DOMAIN op.snap /\ store[c] = NoObject
  BY DEF Lost
<1>7. /\ \A c \in Chunks : store'[c] = IF c \in some THEN op.snap[c] ELSE store[c]
      /\ store' \in [Chunks -> Records \cup {NoObject}]
  <2>1. \A c \in Chunks : store[c] \in Records \cup {NoObject}
    BY DEF WInv, TypeInv
  <2>2. \A c \in some : op.snap[c] \in Records
    BY <1>2, <1>6
  <2> QED
    BY <1>3, <2>1, <2>2 DEF Restored
<1>8. TypeInv'
  BY <1>3, <1>4, <1>5, <1>7 DEF WInv, TypeInv, maps
<1>9. StageFrame
  <2>1. Confined
    BY <1>2, <1>6, <1>7 DEF Confined
  <2>2. f \/ u = {}
    BY <1>1, <1>3 DEF WInv, OpInv
  <2>3. op.kind = "delete" => u \subseteq DOMAIN op.snap
    BY <1>1, <1>3 DEF WInv, SnapInv
  <2> QED
    BY <1>1, <1>4, <1>5, <2>1, <2>2, <2>3 DEF StageFrame, SameTask
<1>10. LifeInv' /\ OpInv' /\ ApartInv' /\ OwnedInv' /\ SnapInv' /\ ReportInv'
  BY <1>8, <1>9, StageStep
<1>11. MarkedInv' /\ ForgetInv' /\ ForwardInv'
  BY <1>1, <1>4 DEF WInv, MarkedInv, ForgetInv, ForwardInv
<1>12. PlanInv'
  <2>1. SUFFICES ASSUME op.kind = "save"
                 PROVE  PlanInv'
    BY <1>4 DEF PlanInv
  <2>2. op \in SaveOps
    BY <2>1, OpShape DEF WInv
  <2>3. ToInsert' = ToInsert /\ ToMove' = ToMove
    BY <1>4, <2>1 DEF ToInsert, ToMove, Moved
  <2>4. op.new # <<>> => ToInsert \subseteq Chunks
    BY <2>2, ParaOfChunk DEF ToInsert, SaveOps, Plans
  <2>5. \A c \in some : c \notin ToInsert
    BY <1>1, <1>2, <1>6, <2>1, ParaOfChunk DEF WInv, MarkedInv, ToInsert
  <2>6. op.new # <<>> => \A c \in ToInsert :
           /\ \A d \in Docs : c \notin ChunksOf(parMap[d])
           /\ store'[c] # NoObject => c \in op.attempted /\ store'[c].doc = op.doc
    BY <1>1, <1>7, <2>1, <2>4, <2>5 DEF WInv, PlanInv
  <2> QED
    BY <1>1, <1>4, <1>5, <2>1, <2>3, <2>6 DEF WInv, PlanInv, maps
<1>13. ASSUME NEW c \in Damage(op.doc)'
       PROVE  c \in op.before \cup u
  <2>1. c \in Chunks
    BY DEF Damage
  <2>2. CASE c \notin DOMAIN op.snap
    <3>1. c \in Damage(op.doc)
      BY <1>4, <1>5, <1>6, <1>7, <2>1, <2>2 DEF Damage, ByDocument, maps
    <3> QED
      BY <1>1, <1>3, <2>2, <3>1 DEF WInv, DamageInv, Exposed
  <2>3. CASE c \in DOMAIN op.snap /\ some = Lost /\ ~Conflict
    <3>1. store'[c] = op.snap[c]
      BY <1>7, <2>1, <2>3 DEF Lost, Conflict
    <3>2. CASE c \in op.before
      BY <3>2
    <3>3. CASE c \in ChunksOf(op.old) /\ op.snap[c].par = ParaOf(op.old, c)
      <4>1. store'[c] = [doc |-> op.doc, par |-> ParaOf(op.old, c)]
        BY <1>2, <2>3, <3>1, <3>3, RecordIs
      <4>2. parMap'[op'.doc] = op.old
        BY <1>1, <1>4, <1>5 DEF maps
      <4> QED
        BY <1>4, <3>3, <4>1, <4>2 DEF Damage
    <3> QED
      BY <1>2, <2>3, <3>2, <3>3
  <2> QED
    BY <1>3, <2>2, <2>3
<1>14. DamageInv'
  BY <1>4, <1>13 DEF DamageInv, Exposed
<1> QED
  BY <1>9, <1>8, <1>10, <1>11, <1>12, <1>14 DEF WInv

\* delete_wizard removes the objects of its document, or some and fails.
LEMMA DeleteDocumentStep ==
  ASSUME WInv, DeleteDocument
  PROVE  WInv' /\ StageFrame
<1>1. /\ op \in DeleteOps /\ op # Idle /\ op.kind = "delete" /\ op.at = "delete"
      /\ op.doc \in Docs /\ op.old \in Documents /\ op.old = parMap[op.doc]
  BY OpShape DEF WInv, DeleteDocument, Running, OpInv, DeleteOps
<1>2. PICK gone \in SUBSET ByDocument(op.doc), stage \in {"forget", "restoreChunks"} :
         /\ op' = [op EXCEPT !.at = stage]
         /\ store' = Removed(gone)
         /\ stage = "forget" => gone = ByDocument(op.doc)
         /\ faults' \in 0..MaxFaults
  <2>1. PICK gone \in SUBSET ByDocument(op.doc) :
           /\ store' = Removed(gone)
           /\ \/ /\ gone = ByDocument(op.doc) /\ UNCHANGED faults
                 /\ op' = [op EXCEPT !.at = "forget"]
              \/ Fault /\ op' = [op EXCEPT !.at = "restoreChunks"]
    BY DEF DeleteDocument, DeleteMany, Confirmed
  <2>2. Fault => faults' \in 0..MaxFaults
    BY BoundsAssumption DEF Fault, WInv, TypeInv
  <2> QED
    BY <2>1, <2>2 DEF WInv, TypeInv
<1>3. /\ op' \in DeleteOps /\ op'.kind = "delete" /\ op'.at = stage
      /\ op'.doc = op.doc /\ op'.text = op.text /\ op'.old = op.old
      /\ op'.snap = op.snap /\ op'.before = op.before /\ op'.failed = op.failed
      /\ op'.unresolved = op.unresolved
  BY <1>1, <1>2 DEF DeleteOps
<1>4. UNCHANGED <<maps, creation, reported>>
  BY DEF DeleteDocument, maps
<1>5. /\ store' \in [Chunks -> Records \cup {NoObject}]
      /\ \A c \in Chunks : store'[c] = IF c \in gone THEN NoObject ELSE store[c]
  BY <1>2, RemovedObjects DEF WInv
<1>6. gone \subseteq DOMAIN op.snap /\ \A c \in gone : store[c].doc = op.doc
  BY <1>1, <1>2 DEF WInv, ForgetInv, ByDocument
<1>7. TypeInv'
  BY <1>2, <1>3, <1>4, <1>5 DEF WInv, TypeInv, maps
<1>8. StageFrame
  <2>1. Confined
    BY <1>5, <1>6 DEF Confined
  <2> QED
    BY <1>1, <1>3, <1>4, <2>1 DEF StageFrame, SameTask, WInv, OpInv, SnapInv
<1>9. LifeInv' /\ OpInv' /\ ApartInv' /\ OwnedInv' /\ SnapInv' /\ ReportInv'
  BY <1>7, <1>8, StageStep
<1>10. MarkedInv' /\ PlanInv' /\ ForwardInv'
  BY <1>3 DEF MarkedInv, PlanInv, ForwardInv
<1>11. Damage(op.doc)' \subseteq Damage(op.doc) \cup DOMAIN op.snap
  BY <1>3, <1>4, <1>5, <1>6 DEF Damage, ByDocument, maps
<1>12. DamageInv'
  BY <1>1, <1>3, <1>11 DEF WInv, DamageInv, Exposed
<1>13. ForgetInv'
  <2>1. stage = "forget" => ByDocument(op.doc)' = {}
    BY <1>2, <1>3, <1>5 DEF ByDocument
  <2> QED
    BY <1>2, <1>3, <2>1 DEF ForgetInv
<1> QED
  BY <1>8, <1>7, <1>9, <1>10, <1>12, <1>13 DEF WInv

---------------------------------------------------------------------------
(* The steps that write the maps *)

\* What one step of create_wizard does to the document it is about: nothing,
\* the first write, the second, the exception, or the roll-back.
KeyMoves(d) ==
    \/ /\ creation'[d] = creation[d]
       /\ docMap'[d] = docMap[d] /\ parMap'[d] = parMap[d]
    \/ /\ creation[d] = "started" /\ creation'[d] = "aborting"
       /\ docMap'[d] = docMap[d] /\ parMap'[d] = parMap[d]
    \/ /\ creation[d] = "started" /\ creation'[d] = "made"
       /\ docMap'[d] = docMap[d] /\ parMap'[d] = Empty
    \/ /\ creation[d] = "none" /\ creation'[d] = "started"
       /\ docMap'[d] = Empty /\ parMap'[d] = parMap[d]
    \/ /\ creation[d] = "aborting" /\ creation'[d] = "aborted"
       /\ docMap'[d] = Absent /\ parMap'[d] = parMap[d]

\* None of it touches a document that is made, or the chunks of any.
LEMMA KeyMovesKeep ==
  ASSUME WInv, NEW d \in Docs, KeyMoves(d), store' = store
  PROVE  /\ creation'[d] \in {"none", "aborted"} =>
               docMap'[d] = Absent /\ parMap'[d] = Absent
         /\ creation'[d] \in {"started", "aborting"} =>
               docMap'[d] = Empty /\ parMap'[d] = Absent
         /\ creation'[d] = "made" => docMap'[d] = parMap'[d]
         /\ creation[d] = "made" =>
               /\ creation'[d] = "made"
               /\ docMap'[d] = docMap[d] /\ parMap'[d] = parMap[d]
         /\ ChunksOf(parMap'[d]) = ChunksOf(parMap[d])
         /\ parMap'[d] = parMap[d] \/ parMap'[d] = Empty
         /\ Damage(d)' = Damage(d)
<1> USE DEF KeyMoves
<1>1. /\ creation[d] \in {"none", "aborted"} => docMap[d] = Absent /\ parMap[d] = Absent
      /\ creation[d] \in {"started", "aborting"} => docMap[d] = Empty /\ parMap[d] = Absent
      /\ creation[d] = "made" => docMap[d] = parMap[d]
  BY DEF WInv, LifeInv
<1>2. \/ parMap'[d] = parMap[d]
      \/ parMap'[d] = Empty /\ parMap[d] = Absent
  BY <1>1
<1>3. ChunksOf(parMap'[d]) = ChunksOf(parMap[d])
  BY <1>2, EmptyDocument
<1>4. Damage(d)' = Damage(d)
  <2>1. CASE parMap'[d] = parMap[d]
    BY <2>1 DEF Damage, ByDocument
  <2>2. CASE parMap'[d] = Empty /\ parMap[d] = Absent
    <3>1. ChunksOf(parMap'[d]) = {} /\ ChunksOf(parMap[d]) = {}
      BY <2>2, EmptyDocument
    <3> QED
      BY <3>1 DEF Damage, ByDocument
  <2> QED
    BY <1>2, <2>1, <2>2
<1> QED
  BY <1>1, <1>2, <1>3, <1>4

\* While an operation stays where it is, or falls back to its compensation,
\* create_wizard can move any document: the invariant is kept.
KeyStage ==
    \/ op' = op
    \/ op \in SaveOps /\ op.at = "commit" /\ op' = [op EXCEPT !.at = "undoMoves"]
    \/ op \in DeleteOps /\ op.at = "forget" /\ op' = [op EXCEPT !.at = "restoreChunks"]

LEMMA KeyStep ==
  ASSUME WInv, \A d \in Docs : KeyMoves(d), KeyStage,
         store' = store, reported' = reported, faults' = faults,
         docMap' \in [Docs -> Documents \cup {Absent}],
         parMap' \in [Docs -> Documents \cup {Absent}],
         creation' \in [Docs -> {"none", "started", "made", "aborting", "aborted"}]
  PROVE  WInv'
<1>1. \A d \in Docs :
         /\ creation'[d] \in {"none", "aborted"} =>
               docMap'[d] = Absent /\ parMap'[d] = Absent
         /\ creation'[d] \in {"started", "aborting"} =>
               docMap'[d] = Empty /\ parMap'[d] = Absent
         /\ creation'[d] = "made" => docMap'[d] = parMap'[d]
         /\ creation[d] = "made" =>
               /\ creation'[d] = "made"
               /\ docMap'[d] = docMap[d] /\ parMap'[d] = parMap[d]
         /\ ChunksOf(parMap'[d]) = ChunksOf(parMap[d])
         /\ parMap'[d] = parMap[d] \/ parMap'[d] = Empty
         /\ Damage(d)' = Damage(d)
  BY KeyMovesKeep
<1>2. /\ op = Idle \/ op \in SaveOps \/ op \in DeleteOps
      /\ op # Idle => op.doc \in Docs /\ op.kind \in {"save", "delete"}
      /\ op.kind = "save" => op \in SaveOps
      /\ op.kind = "delete" => op \in DeleteOps
      /\ op = Idle => op.doc \notin Docs
      /\ op.kind = "idle" <=> op = Idle
  BY OpShape, NamesAssumption DEF WInv, TypeInv
<1>3. /\ op'.kind = op.kind /\ op'.doc = op.doc
      /\ op' = Idle <=> op = Idle
      /\ op # Idle =>
            /\ op'.text = op.text /\ op'.old = op.old /\ op'.snap = op.snap
            /\ op'.before = op.before /\ op'.failed = op.failed
            /\ op'.unresolved = op.unresolved
      /\ op.kind = "save" =>
            /\ op'.marked = op.marked /\ op'.left = op.left
            /\ op'.newText = op.newText /\ op'.new = op.new
            /\ op'.attempted = op.attempted /\ op'.moved = op.moved
      /\ op' \in {Idle} \cup SaveOps \cup DeleteOps
  <2>1. CASE op' = op
    BY <2>1 DEF WInv, TypeInv
  <2>2. CASE op \in SaveOps /\ op' = [op EXCEPT !.at = "undoMoves"]
    BY <2>2 DEF SaveOps, Idle
  <2>3. CASE op \in DeleteOps /\ op' = [op EXCEPT !.at = "restoreChunks"]
    BY <2>3 DEF DeleteOps, Idle
  <2> QED
    BY <2>1, <2>2, <2>3 DEF KeyStage
<1>4. \/ op'.at = op.at
      \/ op.kind = "save" /\ op.at = "commit" /\ op'.at = "undoMoves"
      \/ op.kind = "delete" /\ op.at = "forget" /\ op'.at = "restoreChunks"
  BY DEF KeyStage, SaveOps, DeleteOps
<1>5. TypeInv'
  BY <1>3 DEF WInv, TypeInv
<1>6. LifeInv'
  BY <1>1 DEF LifeInv
<1>7. OpInv'
  BY <1>1, <1>2, <1>3 DEF WInv, OpInv
<1>8. ApartInv'
  BY <1>1, EmptyDocument DEF WInv, ApartInv
<1>9. OwnedInv'
  BY <1>1 DEF WInv, OwnedInv
<1>10. SnapInv'
  BY <1>1, <1>2, <1>3 DEF WInv, SnapInv
<1>11. MarkedInv'
  BY <1>3 DEF WInv, MarkedInv
<1>12. PlanInv'
  <2>1. SUFFICES ASSUME op.kind = "save"
                 PROVE  PlanInv'
    BY <1>3 DEF PlanInv
  <2>2. ToInsert' = ToInsert /\ ToMove' = ToMove
    BY <1>3, <2>1 DEF ToInsert, ToMove, Moved
  <2> QED
    BY <1>1, <1>3, <1>4, <2>1, <2>2 DEF WInv, PlanInv
<1>13. op # Idle => Damage(op.doc)' = Damage(op.doc)
  BY <1>1, <1>2, <1>3
<1>14. DamageInv'
  BY <1>2, <1>3, <1>4, <1>13 DEF WInv, DamageInv, Exposed
<1>15. \A d \in Docs : ByDocument(d)' = ByDocument(d)
  BY DEF ByDocument
<1>16. ForwardInv'
  <2>1. SUFFICES ASSUME op.kind = "save"
                 PROVE  ForwardInv'
    BY <1>3 DEF ForwardInv
  <2>2. ByParagraphs(op.doc, op.marked)' = ByParagraphs(op.doc, op.marked)
        /\ ByParagraphs(op.doc, op.marked \ op.left)' = ByParagraphs(op.doc, op.marked \ op.left)
        /\ ByDocument(op.doc)' = ByDocument(op.doc)
    BY <1>3, <2>1 DEF ByParagraphs, ByDocument
  <2> QED
    BY <1>2, <1>3, <1>4, <1>13, <2>1, <2>2 DEF WInv, ForwardInv
<1>17. ForgetInv'
  BY <1>2, <1>3, <1>4, <1>15 DEF WInv, ForgetInv, ByDocument
<1>18. ReportInv'
  <2>1. \A d \in Docs : d # op.doc => Damage(d)' \subseteq reported[d]
    BY <1>1 DEF WInv, ReportInv, DamageReported
  <2>2. DamageReported'
    BY <1>3, <2>1 DEF DamageReported
  <2> QED
    BY <1>1, <2>2 DEF WInv, ReportInv
<1> QED
  BY <1>5, <1>6, <1>7, <1>8, <1>9, <1>10, <1>11, <1>12, <1>14, <1>16, <1>17, <1>18 DEF WInv

\* The steps of create_wizard, and the two disturbed by its new key.
LEMMA CreateStep ==
  ASSUME WInv, Creates
  PROVE  WInv'
<1>1. /\ docMap \in [Docs -> Documents \cup {Absent}]
      /\ parMap \in [Docs -> Documents \cup {Absent}]
      /\ creation \in [Docs -> {"none", "started", "made", "aborting", "aborted"}]
  BY DEF WInv, TypeInv
<1>2. Empty \in Documents
  BY EmptyDocument
<1>3. PICK d \in Docs : \/ CreateStart(d) \/ CreateFinish(d) \/ CreateAborts(d)
                        \/ \E e \in Docs : CreateDisturbed(d, e)
  BY DEF Creates
<1> DEFINE Typed == /\ docMap' \in [Docs -> Documents \cup {Absent}]
                    /\ parMap' \in [Docs -> Documents \cup {Absent}]
                    /\ creation' \in [Docs -> {"none", "started", "made", "aborting", "aborted"}]
<1>4. Typed /\ (\A x \in Docs : KeyMoves(x)) /\ UNCHANGED <<store, op, reported, faults>>
  <2>1. CASE CreateStart(d)
    BY <1>1, <1>2, <2>1 DEF CreateStart, KeyMoves
  <2>2. CASE CreateFinish(d)
    BY <1>1, <1>2, <2>2 DEF CreateFinish, AddKey, KeyMoves
  <2>3. CASE CreateAborts(d)
    BY <1>1, <1>2, <2>3 DEF CreateAborts, KeyMoves
  <2>4. ASSUME NEW e \in Docs, CreateDisturbed(d, e)
        PROVE  Typed /\ (\A x \in Docs : KeyMoves(x)) /\ UNCHANGED <<store, op, reported, faults>>
    BY <1>1, <1>2, <2>4 DEF CreateDisturbed, KeyMoves
  <2> QED
    BY <1>3, <2>1, <2>2, <2>3, <2>4
<1> QED
  BY <1>4, KeyStep DEF KeyStage

\* replace_document or delete_document raises: the operation falls back.
LEMMA DisturbedStep ==
  ASSUME WInv, NEW e \in Docs, CommitDisturbed(e) \/ ForgetDisturbed(e)
  PROVE  WInv'
<1>1. /\ docMap \in [Docs -> Documents \cup {Absent}]
      /\ parMap \in [Docs -> Documents \cup {Absent}]
      /\ creation \in [Docs -> {"none", "started", "made", "aborting", "aborted"}]
  BY DEF WInv, TypeInv
<1>2. Empty \in Documents
  BY EmptyDocument
<1>3. AddKey(e) /\ parMap' = [parMap EXCEPT ![e] = Empty]
      /\ UNCHANGED <<docMap, store, reported, faults>>
  BY DEF CommitDisturbed, ForgetDisturbed
<1>4. /\ docMap' \in [Docs -> Documents \cup {Absent}]
      /\ parMap' \in [Docs -> Documents \cup {Absent}]
      /\ creation' \in [Docs -> {"none", "started", "made", "aborting", "aborted"}]
      /\ \A x \in Docs : KeyMoves(x)
  BY <1>1, <1>2, <1>3 DEF AddKey, KeyMoves
<1>5. KeyStage
  BY OpShape DEF WInv, KeyStage, CommitDisturbed, ForgetDisturbed, Running
<1> QED
  BY <1>3, <1>4, <1>5, KeyStep

---------------------------------------------------------------------------
(* How an operation begins and ends *)

\* What holds of the snapshot an operation takes of objects of document d.
LEMMA SnapshotTaken ==
  ASSUME WInv, NEW d \in Docs, NEW ids \in SUBSET ByDocument(d),
         NEW snap, snap = [c \in ids |-> store[c]]
  PROVE  /\ snap \in Snapshots
         /\ \A c \in ids : snap[c] = store[c] /\ snap[c] \in Records
         /\ \A c \in ids :
               /\ snap[c].doc = d
               /\ \A e \in Docs \ {d} : c \notin ChunksOf(parMap[e])
               /\ \/ c \in Damage(d)
                  \/ c \in ChunksOf(parMap[d]) /\ snap[c].par = ParaOf(parMap[d], c)
<1>1. \A c \in ids : /\ c \in Chunks /\ store[c] \in Records /\ store[c].doc = d
                     /\ store[c] # NoObject
  BY DEF ByDocument, WInv, TypeInv
<1>2. snap \in [ids -> Records] /\ ids \in SUBSET Chunks
  BY <1>1
<1>3. snap \in Snapshots
  BY <1>2 DEF Snapshots
<1>4. \A c \in ids : \A e \in Docs \ {d} : c \notin ChunksOf(parMap[e])
  BY <1>1 DEF WInv, OwnedInv
<1>5. \A c \in ids : \/ c \in Damage(d)
                     \/ c \in ChunksOf(parMap[d]) /\ store[c].par = ParaOf(parMap[d], c)
  <2>1. TAKE c \in ids
  <2>2. [doc |-> d, par |-> ParaOf(parMap[d], c)].par = ParaOf(parMap[d], c)
    OBVIOUS
  <2> QED
    BY <1>1, <2>2 DEF Damage
<1> QED
  BY <1>1, <1>3, <1>4, <1>5

\* Steps 1-2 of save_wizard: the snapshot is exactly the marked chunks.
LEMMA BeginSaveStep ==
  ASSUME WInv, NEW d \in Docs, NEW marked \in SUBSET Paras, BeginSave(d, marked)
  PROVE  WInv'
<1> DEFINE ids == ByParagraphs(d, marked)
           snap == Snapshot(d, marked)
<1>1. /\ op = Idle /\ op.doc = NoDoc /\ creation[d] = "made" /\ docMap[d] # Absent
      /\ marked \subseteq DOMAIN docMap[d]
      /\ DOMAIN snap = UNION {Range(parMap[d][p]) : p \in marked \cap DOMAIN parMap[d]}
      /\ UNCHANGED <<docMap, parMap, creation, store, reported, faults>>
  BY OpShape DEF BeginSave, WInv
<1>2. docMap[d] = parMap[d] /\ parMap[d] \in Documents
  BY <1>1 DEF WInv, LifeInv, TypeInv
<1>3. ids \in SUBSET ByDocument(d) /\ snap = [c \in ids |-> store[c]] /\ DOMAIN snap = ids
  BY DEF ByParagraphs, Snapshot
<1>4. /\ snap \in Snapshots
      /\ \A c \in ids : snap[c] = store[c] /\ snap[c] \in Records
      /\ \A c \in ids :
            /\ snap[c].doc = d
            /\ \A e \in Docs \ {d} : c \notin ChunksOf(parMap[e])
            /\ \/ c \in Damage(d)
               \/ c \in ChunksOf(parMap[d]) /\ snap[c].par = ParaOf(parMap[d], c)
  BY <1>3, SnapshotTaken
<1>5. PICK before \in SUBSET Chunks : before = Damage(d)
  BY DEF Damage
<1>6. \A c \in ids : snap[c].par \in marked
  BY <1>4 DEF ByParagraphs
<1> HIDE DEF snap, ids
<1>7. op' = [kind |-> "save", doc |-> d, at |-> "delete",
             marked |-> marked, left |-> marked,
             text |-> docMap[d], old |-> parMap[d], snap |-> snap,
             newText |-> <<>>, new |-> <<>>, attempted |-> {}, moved |-> {},
             failed |-> FALSE, unresolved |-> {}, before |-> before]
  BY <1>5 DEF BeginSave, snap
<1>8. op' \in SaveOps
  BY <1>2, <1>4, <1>7 DEF SaveOps, Plans
<1>9. /\ op'.kind = "save" /\ op'.doc = d /\ op'.at = "delete"
      /\ op'.marked = marked /\ op'.left = marked
      /\ op'.text = docMap[d] /\ op'.old = parMap[d] /\ op'.snap = snap
      /\ op'.newText = <<>> /\ op'.new = <<>> /\ op'.attempted = {} /\ op'.moved = {}
      /\ op'.failed = FALSE /\ op'.unresolved = {} /\ op'.before = before
  BY <1>7
<1>10. TypeInv' /\ LifeInv'
  BY <1>1, <1>8 DEF WInv, TypeInv, LifeInv
<1>11. \A x \in Docs : Damage(x)' = Damage(x)
  BY <1>1 DEF Damage, ByDocument
<1>12. Damage(d) \subseteq reported[d]
  BY <1>1, NamesAssumption DEF WInv, ReportInv, DamageReported
<1>13. OpInv'
  BY <1>1, <1>2, <1>5, <1>9, <1>12 DEF OpInv
<1>14. ApartInv' /\ OwnedInv'
  BY <1>1 DEF WInv, ApartInv, OwnedInv
<1>15. SnapInv'
  BY <1>1, <1>3, <1>4, <1>5, <1>9 DEF SnapInv
<1>16. MarkedInv'
  BY <1>1, <1>2, <1>9 DEF MarkedInv
<1>17. PlanInv'
  BY <1>9, EmptyDocument DEF PlanInv, ToInsert, ToMove
<1>18. Damage(op.doc)' = before
  BY <1>5, <1>9, <1>11
<1>19. DamageInv'
  BY <1>18, <1>9 DEF DamageInv
<1>20. ForwardInv'
  <2>1. ByParagraphs(op.doc, op.marked)' = ids
    BY <1>1, <1>9 DEF ids, ByParagraphs, ByDocument
  <2>2. ByParagraphs(op.doc, op.marked \ op.left)' = {}
    BY <1>9 DEF ByParagraphs
  <2> QED
    BY <1>1, <1>3, <1>4, <1>6, <1>9, <1>18, <2>1, <2>2, ZenonT(40) DEF ForwardInv
<1>21. ForgetInv'
  BY <1>9 DEF ForgetInv
<1>22. ReportInv'
  <2>1. \A x \in Docs : Damage(x)' \subseteq reported'[x]
    BY <1>1, <1>11, NamesAssumption DEF WInv, ReportInv, DamageReported
  <2> QED
    BY <1>1, <2>1 DEF WInv, ReportInv, DamageReported
<1> QED
  BY <1>10, <1>13, <1>14, <1>15, <1>16, <1>17, <1>19, <1>20, <1>21, <1>22 DEF WInv

\* delete_wizard takes the whole document into its snapshot.
LEMMA BeginDeleteStep ==
  ASSUME WInv, NEW d \in Docs, BeginDelete(d)
  PROVE  WInv'
<1> DEFINE ids == ByDocument(d)
           snap == [c \in ByDocument(d) |-> store[c]]
<1>1. /\ op = Idle /\ op.doc = NoDoc /\ creation[d] = "made" /\ docMap[d] # Absent
      /\ UNCHANGED <<maps, creation, store, reported, faults>>
  BY OpShape DEF BeginDelete, WInv
<1>2. docMap[d] = parMap[d] /\ parMap[d] \in Documents
  BY <1>1 DEF WInv, LifeInv, TypeInv
<1>3. /\ snap \in Snapshots /\ DOMAIN snap = ids
      /\ \A c \in ids :
            /\ snap[c].doc = d
            /\ \A e \in Docs \ {d} : c \notin ChunksOf(parMap[e])
            /\ \/ c \in Damage(d)
               \/ c \in ChunksOf(parMap[d]) /\ snap[c].par = ParaOf(parMap[d], c)
  BY SnapshotTaken
<1>4. PICK before \in SUBSET Chunks : before = Damage(d)
  BY DEF Damage
<1> HIDE DEF snap, ids
<1>5. op' = [kind |-> "delete", doc |-> d, at |-> "delete",
             text |-> docMap[d], old |-> parMap[d], snap |-> snap,
             failed |-> FALSE, unresolved |-> {}, before |-> before]
  BY <1>4 DEF BeginDelete, snap
<1>6. op' \in DeleteOps
  BY <1>2, <1>3, <1>5 DEF DeleteOps
<1>7. /\ op'.kind = "delete" /\ op'.doc = d /\ op'.at = "delete"
      /\ op'.text = docMap[d] /\ op'.old = parMap[d] /\ op'.snap = snap
      /\ op'.failed = FALSE /\ op'.unresolved = {} /\ op'.before = before
  BY <1>5
<1>8. TypeInv' /\ LifeInv'
  BY <1>1, <1>6 DEF WInv, TypeInv, LifeInv, maps
<1>9. \A x \in Docs : Damage(x)' = Damage(x)
  BY <1>1 DEF Damage, ByDocument, maps
<1>10. Damage(d) \subseteq reported[d]
  BY <1>1, NamesAssumption DEF WInv, ReportInv, DamageReported
<1>11. OpInv'
  BY <1>1, <1>2, <1>4, <1>7, <1>10 DEF OpInv, maps
<1>12. ApartInv' /\ OwnedInv'
  BY <1>1 DEF WInv, ApartInv, OwnedInv, maps
<1>13. SnapInv'
  BY <1>1, <1>3, <1>4, <1>7 DEF SnapInv, maps
<1>14. MarkedInv' /\ PlanInv' /\ ForwardInv'
  BY <1>7 DEF MarkedInv, PlanInv, ForwardInv
<1>15. DamageInv'
  BY <1>4, <1>7, <1>9 DEF DamageInv
<1>16. ForgetInv'
  BY <1>1, <1>3, <1>7 DEF ForgetInv, ids, ByDocument
<1>17. ReportInv'
  <2>1. \A x \in Docs : Damage(x)' \subseteq reported'[x]
    BY <1>1, <1>9, NamesAssumption DEF WInv, ReportInv, DamageReported
  <2> QED
    BY <1>1, <2>1 DEF WInv, ReportInv, DamageReported
<1> QED
  BY <1>8, <1>11, <1>12, <1>13, <1>14, <1>15, <1>16, <1>17 DEF WInv

\* The last step of an operation on d gives both maps m and puts names on
\* the list of recovery errors; beside it, a creation may move.
EndsWith(m, names) ==
    /\ op # Idle /\ op' = Idle /\ store' = store
    /\ docMap' \in [Docs -> Documents \cup {Absent}]
    /\ parMap' \in [Docs -> Documents \cup {Absent}]
    /\ creation' \in [Docs -> {"none", "started", "made", "aborting", "aborted"}]
    /\ reported' \in [Docs -> SUBSET Chunks]
    /\ UNCHANGED faults
    /\ docMap'[op.doc] = m /\ parMap'[op.doc] = m /\ creation'[op.doc] = "made"
    /\ reported'[op.doc] = names
    /\ \A d \in Docs \ {op.doc} : KeyMoves(d) /\ reported'[d] = reported[d]

\* Every object that concerns the document is where m says, some excepted.
Healthy(m, except) ==
    \A c \in Chunks \ except :
        IF c \in ChunksOf(m)
        THEN store[c] = [doc |-> op.doc, par |-> ParaOf(m, c)]
        ELSE c \notin ByDocument(op.doc)

\* The invariant is kept when the chunks of m are of that document alone and
\* what is damaged with respect to m is among the names.
LEMMA EndStep ==
  ASSUME WInv, NEW m \in Documents \cup {Absent}, NEW names, EndsWith(m, names),
         m # Absent => Apart(m),
         \A c \in ChunksOf(m) :
            /\ store[c] # NoObject => store[c].doc = op.doc
            /\ \A e \in Docs \ {op.doc} : c \notin ChunksOf(parMap[e]),
         Healthy(m, names)
  PROVE  WInv'
<1> USE DEF EndsWith, Healthy
<1>1. op.doc \in Docs
  BY OpShape DEF WInv
<1>2. \A d \in Docs \ {op.doc} :
         /\ creation'[d] \in {"none", "aborted"} =>
               docMap'[d] = Absent /\ parMap'[d] = Absent
         /\ creation'[d] \in {"started", "aborting"} =>
               docMap'[d] = Empty /\ parMap'[d] = Absent
         /\ creation'[d] = "made" => docMap'[d] = parMap'[d]
         /\ creation[d] = "made" => creation'[d] = "made"
         /\ ChunksOf(parMap'[d]) = ChunksOf(parMap[d])
         /\ parMap'[d] = parMap[d] \/ parMap'[d] = Empty
         /\ Damage(d)' = Damage(d)
  BY KeyMovesKeep
<1>3. TypeInv'
  BY DEF WInv, TypeInv
<1>4. LifeInv'
  BY <1>1, <1>2 DEF LifeInv
<1>5. OpInv' /\ SnapInv' /\ MarkedInv' /\ PlanInv' /\ DamageInv' /\ ForwardInv' /\ ForgetInv'
  BY DEF OpInv, SnapInv, MarkedInv, PlanInv, DamageInv, ForwardInv, ForgetInv, Idle
<1>6. ApartInv'
  <2>1. \A d \in Docs : parMap'[d] # Absent => Apart(parMap'[d])
    BY <1>1, <1>2, EmptyDocument DEF WInv, ApartInv
  <2>2. \A d, e \in Docs : d # e => ChunksOf(parMap'[d]) \cap ChunksOf(parMap'[e]) = {}
    BY <1>1, <1>2 DEF WInv, ApartInv
  <2> QED
    BY <2>1, <2>2 DEF ApartInv
<1>7. OwnedInv'
  BY <1>1, <1>2 DEF WInv, OwnedInv
<1>8. ReportInv'
  <2>1. \A d \in Docs \ {op.doc} : Damage(d)' \subseteq reported'[d]
    BY <1>1, <1>2 DEF WInv, ReportInv, DamageReported
  <2>2. PICK d : d = op.doc
    OBVIOUS
  <2>3. \A c \in Damage(d)' : c \in names
    BY <2>2 DEF Damage, ByDocument
  <2>4. \A x \in Docs : Damage(x)' \subseteq reported'[x]
    BY <2>1, <2>2, <2>3
  <2> QED
    BY <1>1, <1>2, <2>4 DEF WInv, ReportInv, DamageReported
<1> QED
  BY <1>3, <1>4, <1>5, <1>6, <1>7, <1>8 DEF WInv

\* The creation that is disturbed, if one is, is of another document.
LEMMA MayDisturbKeeps ==
  ASSUME WInv, op # Idle, MayDisturb
  PROVE  /\ creation' \in [Docs -> {"none", "started", "made", "aborting", "aborted"}]
         /\ creation'[op.doc] = "made"
         /\ \A d \in Docs : \/ creation'[d] = creation[d]
                            \/ creation[d] = "started" /\ creation'[d] = "aborting"
<1>1. creation[op.doc] = "made" /\ op.doc \in Docs
  BY OpShape DEF WInv, OpInv
<1>2. creation \in [Docs -> {"none", "started", "made", "aborting", "aborted"}]
  BY DEF WInv, TypeInv
<1>3. CASE UNCHANGED creation
  BY <1>1, <1>2, <1>3
<1>4. ASSUME NEW e \in Docs, ScanRaises(e)
      PROVE  /\ creation' \in [Docs -> {"none", "started", "made", "aborting", "aborted"}]
             /\ creation'[op.doc] = "made"
             /\ \A d \in Docs : \/ creation'[d] = creation[d]
                                \/ creation[d] = "started" /\ creation'[d] = "aborting"
  BY <1>1, <1>2, <1>4 DEF ScanRaises
<1> QED
  BY <1>3, <1>4 DEF MayDisturb

\* Step 8 of save_wizard: the maps take the new paragraphs.
LEMMA CommitStep ==
  ASSUME WInv, Commit
  PROVE  /\ WInv' /\ op.new \in Documents
         /\ EndsWith(op.new, reported[op.doc]) /\ Healthy(op.new, op.before)
<1>1. /\ op \in SaveOps /\ op # Idle /\ op.kind = "save" /\ op.at = "commit"
      /\ op.doc \in Docs /\ op.before \subseteq reported[op.doc]
      /\ op.old \in Documents /\ op.old = parMap[op.doc]
  BY OpShape DEF WInv, Commit, Running, OpInv, SaveOps
<1>2. /\ op.new \in Documents /\ op.newText = op.new /\ Apart(op.new)
      /\ ChunksOf(op.new) \subseteq Chunks
  BY <1>1, DocumentShape, ParaOfChunk DEF WInv, PlanInv, SaveOps, Plans
<1>3. /\ parMap' = [parMap EXCEPT ![op.doc] = op.new]
      /\ docMap' = [docMap EXCEPT ![op.doc] = op.new]
      /\ op' = Idle /\ MayDisturb /\ UNCHANGED <<store, reported, faults>>
  BY <1>2 DEF Commit
<1>4. /\ creation' \in [Docs -> {"none", "started", "made", "aborting", "aborted"}]
      /\ creation'[op.doc] = "made"
      /\ \A d \in Docs : \/ creation'[d] = creation[d]
                         \/ creation[d] = "started" /\ creation'[d] = "aborting"
  BY <1>1, <1>3, MayDisturbKeeps
<1>5. EndsWith(op.new, reported[op.doc])
  BY <1>1, <1>2, <1>3, <1>4 DEF EndsWith, KeyMoves, WInv, TypeInv
<1>6. ASSUME NEW c \in ChunksOf(op.new)
      PROVE  /\ store[c] # NoObject => store[c].doc = op.doc
             /\ \A e \in Docs \ {op.doc} : c \notin ChunksOf(parMap[e])
  <2>1. CASE c \in ToInsert
    BY <1>1, <1>2, <2>1, DocumentShape DEF WInv, PlanInv
  <2>2. CASE c \in ChunksOf(op.old)
    BY <1>1, <2>2 DEF WInv, OwnedInv, ApartInv
  <2> QED
    BY <2>1, <2>2 DEF ToInsert
<1>7. Healthy(op.new, op.before)
  BY <1>1 DEF Healthy, WInv, ForwardInv
<1>8. Healthy(op.new, reported[op.doc])
  BY <1>1, <1>7 DEF Healthy
<1> QED
  BY <1>1, <1>2, <1>5, <1>6, <1>7, <1>8, EndStep

\* delete_wizard: the maps forget the document, of which nothing is left.
LEMMA ForgetStep ==
  ASSUME WInv, Forget
  PROVE  WInv' /\ EndsWith(Absent, {}) /\ Healthy(Absent, {})
<1>1. /\ op # Idle /\ op.kind = "delete" /\ op.at = "forget" /\ op.doc \in Docs
  BY OpShape DEF WInv, Forget, Running, Idle
<1>2. /\ parMap' = [parMap EXCEPT ![op.doc] = Absent]
      /\ docMap' = [docMap EXCEPT ![op.doc] = Absent]
      /\ reported' = [reported EXCEPT ![op.doc] = {}]
      /\ op' = Idle /\ MayDisturb /\ UNCHANGED <<store, faults>>
  BY DEF Forget
<1>3. /\ creation' \in [Docs -> {"none", "started", "made", "aborting", "aborted"}]
      /\ creation'[op.doc] = "made"
      /\ \A d \in Docs : \/ creation'[d] = creation[d]
                         \/ creation[d] = "started" /\ creation'[d] = "aborting"
  BY <1>1, <1>2, MayDisturbKeeps
<1>4. EndsWith(Absent, {})
  BY <1>1, <1>2, <1>3 DEF EndsWith, KeyMoves, WInv, TypeInv
<1>5. ByDocument(op.doc) = {} /\ ChunksOf(Absent) = {}
  BY <1>1, EmptyDocument DEF WInv, ForgetInv
<1>6. Healthy(Absent, {})
  BY <1>5 DEF Healthy
<1> QED
  BY <1>4, <1>5, <1>6, EndStep

\* The compensation ends with the maps as they were and the report.
LEMMA RestoreMapsStep ==
  ASSUME WInv, RestoreMaps \/ \E e \in Docs : RestoreMapsDisturbed(e)
  PROVE  /\ WInv' /\ docMap' = docMap
         /\ \E named \in SUBSET Chunks :
               /\ EndsWith(docMap[op.doc], reported[op.doc] \cup named)
               /\ Healthy(docMap[op.doc], op.before \cup named)
<1>1. /\ op # Idle /\ op.kind \in {"save", "delete"} /\ op.at = "restoreMaps"
      /\ op.doc \in Docs
      /\ op.old = parMap[op.doc] /\ op.text = docMap[op.doc] /\ op.text = op.old
      /\ op.before \subseteq reported[op.doc]
      /\ op.failed \/ op.unresolved = {}
      /\ creation[op.doc] = "made"
  <2>1. op # Idle /\ op.at = "restoreMaps"
    <3>1. op.kind # "idle" /\ op.at = "restoreMaps"
      BY DEF RestoreMaps, RestoreMapsDisturbed
    <3> QED
      BY <3>1 DEF Idle
  <2> QED
    BY <2>1, OpShape DEF WInv, OpInv, LifeInv
<1>2. op.old \in Documents /\ op.failed \in BOOLEAN /\ op.unresolved \subseteq Chunks
      /\ DOMAIN op.snap \subseteq Chunks
  <2>1. op \in SaveOps \/ op \in DeleteOps
    BY <1>1, OpShape DEF WInv
  <2>2. op.snap \in Snapshots => DOMAIN op.snap \subseteq Chunks
    BY DEF Snapshots
  <2>3. CASE op \in SaveOps
    BY <2>2, <2>3 DEF SaveOps
  <2>4. CASE op \in DeleteOps
    BY <2>2, <2>4 DEF DeleteOps
  <2> QED
    BY <2>1, <2>3, <2>4
<1>3. PICK f \in BOOLEAN : Report(f) /\ (op.failed => f)
  BY <1>2 DEF RestoreMaps, RestoreMapsDisturbed
<1>4. Named(f) \subseteq Chunks /\ op.unresolved \subseteq Named(f)
  BY <1>1, <1>2, <1>3 DEF Named, WInv, SnapInv
<1>5. /\ op' = Idle /\ store' = store /\ faults' = faults
      /\ docMap' = [docMap EXCEPT ![op.doc] = op.text]
  BY DEF RestoreMaps, RestoreMapsDisturbed
<1>6. docMap' = docMap
  BY <1>1, <1>5 DEF WInv, TypeInv
<1>7. /\ creation' \in [Docs -> {"none", "started", "made", "aborting", "aborted"}]
      /\ creation'[op.doc] = "made"
      /\ parMap' \in [Docs -> Documents \cup {Absent}] /\ parMap'[op.doc] = op.old
      /\ \A d \in Docs \ {op.doc} : KeyMoves(d)
  <2>1. CASE RestoreMaps
    <3>1. /\ creation' \in [Docs -> {"none", "started", "made", "aborting", "aborted"}]
          /\ creation'[op.doc] = "made"
          /\ \A d \in Docs : \/ creation'[d] = creation[d]
                             \/ creation[d] = "started" /\ creation'[d] = "aborting"
      BY <1>1, <2>1, MayDisturbKeeps DEF RestoreMaps
    <3> QED
      BY <1>1, <1>2, <1>6, <2>1, <3>1 DEF RestoreMaps, KeyMoves, WInv, TypeInv
  <2>2. ASSUME NEW e \in Docs, RestoreMapsDisturbed(e)
        PROVE  /\ creation' \in [Docs -> {"none", "started", "made", "aborting", "aborted"}]
               /\ creation'[op.doc] = "made"
               /\ parMap' \in [Docs -> Documents \cup {Absent}] /\ parMap'[op.doc] = op.old
               /\ \A d \in Docs \ {op.doc} : KeyMoves(d)
    <3>1. e # op.doc
      BY <1>1, <2>2 DEF RestoreMapsDisturbed, AddKey
    <3> QED
      BY <1>1, <1>2, <1>6, <2>2, <3>1, EmptyDocument
         DEF RestoreMapsDisturbed, AddKey, KeyMoves, WInv, TypeInv
  <2> QED
    BY <2>1, <2>2
<1>8. EndsWith(op.old, reported[op.doc] \cup Named(f))
  <2>1. /\ reported' \in [Docs -> SUBSET Chunks]
        /\ reported'[op.doc] = reported[op.doc] \cup Named(f)
        /\ \A d \in Docs \ {op.doc} : reported'[d] = reported[d]
    BY <1>1, <1>3, <1>4 DEF Report, WInv, TypeInv
  <2> QED
    BY <1>1, <1>5, <1>6, <1>7, <2>1 DEF EndsWith, WInv, TypeInv
<1>9. Apart(op.old)
  BY <1>1, <1>2, DocumentShape DEF WInv, ApartInv
<1>10. \A c \in ChunksOf(op.old) :
          /\ store[c] # NoObject => store[c].doc = op.doc
          /\ \A e \in Docs \ {op.doc} : c \notin ChunksOf(parMap[e])
  BY <1>1 DEF WInv, OwnedInv, ApartInv
<1>11. Healthy(op.old, op.before \cup Named(f))
  <2>1. Damage(op.doc) \subseteq op.before \cup op.unresolved
    BY <1>1 DEF WInv, DamageInv, Exposed
  <2> QED
    BY <1>1, <1>4, <2>1 DEF Damage, Healthy
<1>12. Healthy(op.old, reported[op.doc] \cup Named(f))
  BY <1>1, <1>11 DEF Healthy
<1>13. WInv'
  BY <1>2, <1>8, <1>9, <1>10, <1>12, EndStep
<1> QED
  BY <1>1, <1>4, <1>6, <1>8, <1>11, <1>13

---------------------------------------------------------------------------
(* The invariant *)

\* Nothing exists at first.
LEMMA WInit ==
  ASSUME Init
  PROVE  WInv
<1>1. op = Idle /\ \A d \in Docs : docMap[d] = Absent /\ parMap[d] = Absent
  BY DEF Init
<1>2. ChunksOf(Absent) = {}
  BY EmptyDocument
<1>3. TypeInv
  BY BoundsAssumption DEF Init, TypeInv
<1>4. LifeInv /\ ApartInv /\ OwnedInv
  BY <1>1, <1>2 DEF Init, LifeInv, ApartInv, OwnedInv
<1>5. OpInv /\ SnapInv /\ MarkedInv /\ PlanInv /\ DamageInv /\ ForwardInv /\ ForgetInv
  BY <1>1 DEF OpInv, SnapInv, MarkedInv, PlanInv, DamageInv, ForwardInv, ForgetInv, Idle
<1>6. ReportInv
  BY <1>1, <1>2 DEF Init, ReportInv, DamageReported, Damage, ByDocument
<1> QED
  BY <1>3, <1>4, <1>5, <1>6 DEF WInv

\* A step that changes nothing keeps it.
LEMMA WStutter ==
  ASSUME WInv, UNCHANGED vars
  PROVE  WInv'
<1>1. UNCHANGED <<docMap, parMap, creation, store, op, reported, faults>>
  BY DEF vars, maps
<1>2. \A d \in Docs : KeyMoves(d)
  BY <1>1 DEF KeyMoves
<1> QED
  BY <1>1, <1>2, KeyStep DEF KeyStage, WInv, TypeInv

\* Every action of the wizards keeps it.
LEMMA WStep ==
  ASSUME WInv, [Next]_vars
  PROVE  WInv'
<1>1. CASE Creates
  BY <1>1, CreateStep
<1>2. ASSUME NEW d \in Docs, NEW marked \in SUBSET Paras, BeginSave(d, marked)
      PROVE  WInv'
  BY <1>2, BeginSaveStep
<1>3. CASE DeleteUnion
  BY <1>3, DeleteUnionStep
<1>4. CASE Process
  BY <1>4, ProcessStep
<1>5. CASE ProcessFails
  BY <1>5, ProcessFailsStep
<1>6. ASSUME NEW c \in Chunks, Insert(c) \/ InsertRaises(c)
      PROVE  WInv'
  BY <1>6, InsertStep
<1>7. CASE Move \/ MoveFails
  BY <1>7, MoveStep
<1>8. CASE Commit
  BY <1>8, CommitStep
<1>9. ASSUME NEW e \in Docs, CommitDisturbed(e) \/ ForgetDisturbed(e)
      PROVE  WInv'
  BY <1>9, DisturbedStep
<1>10. ASSUME NEW d \in Docs, BeginDelete(d)
       PROVE  WInv'
  BY <1>10, BeginDeleteStep
<1>11. CASE DeleteDocument
  BY <1>11, DeleteDocumentStep
<1>12. CASE Forget
  BY <1>12, ForgetStep
<1>13. CASE UndoMoves
  BY <1>13, UndoMovesStep
<1>14. CASE UndoInserts
  BY <1>14, UndoInsertsStep
<1>15. CASE RestoreChunks
  BY <1>15, RestoreChunksStep
<1>16. CASE RestoreMaps \/ \E e \in Docs : RestoreMapsDisturbed(e)
  BY <1>16, RestoreMapsStep
<1>17. CASE UNCHANGED vars
  BY <1>17, WStutter
<1> QED
  BY <1>1, <1>2, <1>3, <1>4, <1>5, <1>6, <1>7, <1>8, <1>9, <1>10, <1>11,
     <1>12, <1>13, <1>14, <1>15, <1>16, <1>17
     DEF Next, Saves, DeletesOf, Recovers

\* The inductive invariant holds in every reachable state: of any number of
\* documents, saves, deletes, creations and storage failures.
THEOREM WizardInvariant == Spec => []WInv
<1>1. Init => WInv
  BY WInit
<1>2. WInv /\ [Next]_vars => WInv'
  BY WStep
<1> QED
  BY <1>1, <1>2, PTL DEF Spec

---------------------------------------------------------------------------
(* The properties *)

\* Between operations both maps hold the same documents with the same
\* paragraphs, whatever failed (save.py step 8, crud.py:114-126).
THEOREM MapsAlwaysAgree == Spec => []MapsAgree
<1>1. WInv => MapsAgree
  BY DEF WInv, TypeInv, LifeInv, MapsAgree
<1> QED
  BY <1>1, WizardInvariant, PTL

\* At every step of a save or delete, what is not where the maps say can be
\* put back, was damaged before, or is named by the recovery error.
THEOREM AlwaysRecoverable == Spec => []Recoverable
<1>1. ASSUME WInv
      PROVE  Recoverable
  <2>1. SUFFICES ASSUME op # Idle, NEW c \in Damage(op.doc), c \notin op.before \cup op.unresolved
                 PROVE  \/ c \in DOMAIN op.snap
                        \/ op.kind = "save" /\ c \in op.attempted \cup ToMove
    BY DEF Recoverable
  <2>2. c \in Exposed(op.at)
    BY <1>1, <2>1 DEF WInv, DamageInv
  <2>3. op.kind \in {"save", "delete"}
    BY <1>1, <2>1, OpShape DEF WInv
  <2>4. op.kind = "save" => op.moved \subseteq ToMove
    BY <1>1 DEF WInv, PlanInv
  <2> QED
    BY <2>2, <2>3, <2>4 DEF Exposed
<1> QED
  BY <1>1, WizardInvariant, PTL

\* No damage goes unreported: the objects of a document that disagree with
\* the maps are among those its recovery errors have named (BACKEND.md 4.4).
THEOREM DamageAlwaysReported == Spec => []DamageReported
<1>1. WInv => DamageReported
  BY DEF WInv, ReportInv
<1> QED
  BY <1>1, WizardInvariant, PTL

---------------------------------------------------------------------------
(* The wizards implement AtomicWizards *)

\* The refinement mapping of the damage: during an operation the document is
\* as damaged as it was when the operation began.
Mapped == [d \in Docs |-> IF op.doc = d THEN op.before ELSE Damage(d)]

AtomicStep == A!Next \/ UNCHANGED <<docMap, Mapped, reported>>

\* The stages of an operation are invisible.
LEMMA StageHidden ==
  ASSUME WInv, WInv', StageFrame
  PROVE  AtomicStep
<1>1. \A d \in Docs : d # op.doc => Damage(d)' = Damage(d)
  BY OthersUntouched DEF WInv
<1>2. op'.doc = op.doc /\ op'.before = op.before
  BY DEF StageFrame, SameTask
<1>3. Mapped' = Mapped
  BY <1>1, <1>2 DEF Mapped
<1> QED
  BY <1>3 DEF StageFrame, AtomicStep, maps

\* So is a creation that does not change the document map.
LEMMA KeyHidden ==
  ASSUME WInv, \A d \in Docs : KeyMoves(d), UNCHANGED <<docMap, store, reported>>,
         op'.doc = op.doc, op.doc \in Docs => op'.before = op.before
  PROVE  AtomicStep
<1>1. \A d \in Docs : Damage(d)' = Damage(d)
  BY KeyMovesKeep
<1>2. Mapped' = Mapped
  BY <1>1 DEF Mapped
<1> QED
  BY <1>2 DEF AtomicStep

\* A creation lists its wizard, finishes, or takes it back.
LEMMA CreateMapped ==
  ASSUME WInv, Creates
  PROVE  AtomicStep
<1>1. PICK d \in Docs : \/ CreateStart(d) \/ CreateFinish(d) \/ CreateAborts(d)
                        \/ \E e \in Docs : CreateDisturbed(d, e)
  BY DEF Creates
<1>2. /\ docMap \in [Docs -> Documents \cup {Absent}]
      /\ creation \in [Docs -> {"none", "started", "made", "aborting", "aborted"}]
  BY DEF WInv, TypeInv
<1>3. CASE CreateStart(d)
  <2>1. docMap[d] = Absent
    BY <1>3 DEF CreateStart, WInv, LifeInv
  <2>2. \A x \in Docs : KeyMoves(x)
    BY <1>2, <1>3 DEF CreateStart, KeyMoves
  <2>3. Mapped' = Mapped
    <3>1. \A x \in Docs : Damage(x)' = Damage(x)
      BY <1>3, <2>2, KeyMovesKeep DEF CreateStart
    <3> QED
      BY <1>3, <3>1 DEF CreateStart, Mapped
  <2>4. A!Create(d)
    BY <1>3, <2>1, <2>3 DEF CreateStart, A!Create, Mapped
  <2> QED
    BY <2>4 DEF AtomicStep, A!Next
<1>4. CASE CreateAborts(d)
  <2>1. docMap[d] = Empty /\ reported[d] = {}
    BY <1>4 DEF CreateAborts, WInv, LifeInv, ReportInv
  <2>2. op.doc # d
    BY <1>4, OpShape, NamesAssumption DEF CreateAborts, WInv, OpInv
  <2>3. Damage(d) = {}
    BY <2>1, <2>2 DEF WInv, ReportInv, DamageReported
  <2>4. \A x \in Docs : KeyMoves(x)
    BY <1>2, <1>4 DEF CreateAborts, KeyMoves
  <2>5. Mapped' = Mapped /\ Mapped[d] = {}
    <3>1. \A x \in Docs : Damage(x)' = Damage(x)
      BY <1>4, <2>4, KeyMovesKeep DEF CreateAborts
    <3> QED
      BY <1>4, <2>2, <2>3, <3>1 DEF CreateAborts, Mapped
  <2>6. A!Cancel(d)
    BY <1>4, <2>1, <2>5 DEF CreateAborts, A!Cancel, Mapped
  <2> QED
    BY <2>6 DEF AtomicStep, A!Next
<1>5. CASE CreateFinish(d) \/ \E e \in Docs : CreateDisturbed(d, e)
  <2>1. UNCHANGED <<docMap, store, op, reported>>
    BY <1>5 DEF CreateFinish, CreateDisturbed
  <2>2. \A x \in Docs : KeyMoves(x)
    <3>1. CASE CreateFinish(d)
      BY <3>1 DEF CreateFinish, AddKey, KeyMoves, WInv, TypeInv
    <3>2. ASSUME NEW e \in Docs, CreateDisturbed(d, e)
          PROVE  \A x \in Docs : KeyMoves(x)
      BY <3>2 DEF CreateDisturbed, KeyMoves, WInv, TypeInv
    <3> QED
      BY <1>5, <3>1, <3>2
  <2> QED
    BY <2>1, <2>2, KeyHidden
<1> QED
  BY <1>1, <1>3, <1>4, <1>5

\* Beginning an operation is invisible: its before is the damage of then.
LEMMA BeginHidden ==
  ASSUME WInv, NEW d \in Docs,
         (\E marked \in SUBSET Paras : BeginSave(d, marked)) \/ BeginDelete(d)
  PROVE  AtomicStep
<1>1. /\ op.doc = NoDoc /\ op'.doc = d /\ op'.before = Damage(d)
      /\ UNCHANGED <<docMap, parMap, store, reported>>
  <2>1. CASE BeginDelete(d)
    BY <2>1, OpShape DEF BeginDelete, WInv, maps
  <2>2. ASSUME NEW marked \in SUBSET Paras, BeginSave(d, marked)
        PROVE  /\ op.doc = NoDoc /\ op'.doc = d /\ op'.before = Damage(d)
               /\ UNCHANGED <<docMap, parMap, store, reported>>
    <3>1. op = Idle /\ UNCHANGED <<docMap, parMap, store, reported>>
      BY <2>2 DEF BeginSave
    <3>2. op'.doc = d /\ op'.before = Damage(d)
      BY <2>2 DEF BeginSave
    <3> QED
      BY <3>1, <3>2 DEF Idle
  <2> QED
    BY <2>1, <2>2
<1>2. \A x \in Docs : Damage(x)' = Damage(x)
  BY <1>1 DEF Damage, ByDocument
<1>3. Mapped' = Mapped
  BY <1>1, <1>2, NamesAssumption DEF Mapped
<1> QED
  BY <1>1, <1>3 DEF AtomicStep

\* What an ending does to the mapped damage: that of its document becomes
\* some of what its new map excepts, that of the others stays.
LEMMA EndMapped ==
  ASSUME WInv, NEW m \in Documents \cup {Absent}, NEW names, EndsWith(m, names),
         NEW allowed \in SUBSET Chunks, Healthy(m, allowed)
  PROVE  /\ op.doc \in Docs /\ docMap[op.doc] # Absent
         /\ Mapped[op.doc] = op.before
         /\ \E left \in SUBSET allowed : Mapped' = [Mapped EXCEPT ![op.doc] = left]
<1>1. op.doc \in Docs /\ docMap[op.doc] # Absent
  <2>1. op \in SaveOps \/ op \in DeleteOps
    BY OpShape DEF WInv, EndsWith
  <2>2. op.text \in Documents /\ op.doc \in Docs /\ op # Idle
    BY <2>1 DEF SaveOps, DeleteOps, EndsWith
  <2> QED
    BY <2>2, DocumentShape DEF WInv, OpInv
<1>2. PICK d \in Docs : d = op.doc
  BY <1>1
<1>3. \A x \in Docs \ {d} : Damage(x)' = Damage(x)
  BY <1>2, KeyMovesKeep DEF EndsWith
<1>4. Damage(d)' \subseteq allowed
  BY <1>2 DEF EndsWith, Healthy, Damage, ByDocument
<1>5. op'.doc \notin Docs
  BY NamesAssumption DEF EndsWith, Idle
<1>6. Mapped' = [Mapped EXCEPT ![d] = Damage(d)']
  BY <1>2, <1>3, <1>5 DEF Mapped
<1> QED
  BY <1>1, <1>2, <1>4, <1>6 DEF Mapped

\* The last step of a save is one atomic save, of a delete one deletion, and
\* the last step of a compensation one failure, with its report.
LEMMA EndAtomic ==
  ASSUME WInv, Commit \/ Forget \/ RestoreMaps
               \/ \E e \in Docs : RestoreMapsDisturbed(e)
  PROVE  AtomicStep
<1>1. CASE Commit
  <2>1. /\ op.new \in Documents /\ op.newText = op.new
        /\ EndsWith(op.new, reported[op.doc]) /\ Healthy(op.new, op.before)
    BY <1>1, CommitStep DEF WInv, PlanInv, Commit, Running
  <2>2. op.before \in SUBSET Chunks
    <3>1. op \in SaveOps
      BY <1>1, OpShape DEF WInv, Commit, Running
    <3> QED
      BY <3>1 DEF SaveOps
  <2>3. /\ op.doc \in Docs /\ docMap[op.doc] # Absent /\ Mapped[op.doc] = op.before
        /\ \E left \in SUBSET op.before : Mapped' = [Mapped EXCEPT ![op.doc] = left]
    BY <2>1, <2>2, EndMapped
  <2>4. docMap' = [docMap EXCEPT ![op.doc] = op.new] /\ UNCHANGED reported
    BY <1>1, <2>1 DEF Commit
  <2>5. PICK d \in Docs : d = op.doc
    BY <2>3
  <2>6. A!Save(d)
    BY <2>1, <2>3, <2>4, <2>5 DEF A!Save, A!Heals, Mapped
  <2>7. A!Next
    BY <2>6, Zenon DEF A!Next
  <2> QED
    BY <2>7 DEF AtomicStep
<1>2. CASE Forget
  <2>1. EndsWith(Absent, {}) /\ Healthy(Absent, {})
    BY <1>2, ForgetStep
  <2>2. /\ op.doc \in Docs /\ docMap[op.doc] # Absent
        /\ \E left \in SUBSET {} : Mapped' = [Mapped EXCEPT ![op.doc] = left]
    BY <2>1, EndMapped
  <2>3. Mapped' = [Mapped EXCEPT ![op.doc] = {}]
    BY <2>2
  <2>4. PICK d \in Docs : d = op.doc
    BY <2>2
  <2>5. A!Delete(d)
    BY <1>2, <2>2, <2>3, <2>4 DEF Forget, A!Delete, Mapped
  <2>6. A!Next
    BY <2>5, Zenon DEF A!Next
  <2> QED
    BY <2>6 DEF AtomicStep
<1>3. CASE RestoreMaps \/ \E e \in Docs : RestoreMapsDisturbed(e)
  <2>1. docMap' = docMap
    BY <1>3, RestoreMapsStep
  <2>2. PICK named \in SUBSET Chunks :
           /\ EndsWith(docMap[op.doc], reported[op.doc] \cup named)
           /\ Healthy(docMap[op.doc], op.before \cup named)
    BY <1>3, RestoreMapsStep
  <2>3. op \in SaveOps \/ op \in DeleteOps
    BY <2>2, OpShape DEF WInv, EndsWith
  <2>4. op.doc \in Docs /\ op.before \in SUBSET Chunks
    BY <2>3 DEF SaveOps, DeleteOps
  <2>5. docMap[op.doc] \in Documents \cup {Absent}
    BY <2>4 DEF WInv, TypeInv
  <2>6. /\ docMap[op.doc] # Absent /\ Mapped[op.doc] = op.before
        /\ \E left \in SUBSET (op.before \cup named) : Mapped' = [Mapped EXCEPT ![op.doc] = left]
    BY <2>2, <2>4, <2>5, EndMapped
  <2>7. reported' = [reported EXCEPT ![op.doc] = @ \cup named]
    BY <2>2, <2>4 DEF EndsWith, WInv, TypeInv
  <2>8. PICK d \in Docs : d = op.doc
    BY <2>4
  <2>9. A!Break(d)
    BY <2>1, <2>4, <2>6, <2>7, <2>8 DEF A!Break, A!Heals, Mapped
  <2>10. A!Next
    BY <2>9, Zenon DEF A!Next
  <2> QED
    BY <2>10 DEF AtomicStep
<1> QED
  BY <1>1, <1>2, <1>3

\* Every step of the wizards is an atomic operation or invisible.
LEMMA AtomicSteps ==
  ASSUME WInv, [Next]_vars
  PROVE  AtomicStep
<1>1. CASE Creates
  BY <1>1, CreateMapped
<1>2. ASSUME NEW d \in Docs,
             (\E marked \in SUBSET Paras : BeginSave(d, marked)) \/ BeginDelete(d)
      PROVE  AtomicStep
  BY <1>2, BeginHidden
<1>3. ASSUME WInv' /\ StageFrame
      PROVE  AtomicStep
  BY <1>3, StageHidden
<1>4. CASE DeleteUnion \/ Process \/ ProcessFails
  BY <1>3, <1>4, DeleteUnionStep, ProcessStep, ProcessFailsStep
<1>5. ASSUME NEW c \in Chunks, Insert(c) \/ InsertRaises(c)
      PROVE  AtomicStep
  BY <1>3, <1>5, InsertStep
<1>6. CASE Move \/ MoveFails \/ DeleteDocument
  BY <1>3, <1>6, MoveStep, DeleteDocumentStep
<1>7. CASE UndoMoves \/ UndoInserts \/ RestoreChunks
  BY <1>3, <1>7, UndoMovesStep, UndoInsertsStep, RestoreChunksStep
<1>8. ASSUME NEW e \in Docs, CommitDisturbed(e) \/ ForgetDisturbed(e)
      PROVE  AtomicStep
  <2>1. /\ creation[e] = "started" /\ creation' = [creation EXCEPT ![e] = "made"]
        /\ parMap' = [parMap EXCEPT ![e] = Empty]
        /\ UNCHANGED <<docMap, store, reported>>
    BY <1>8 DEF CommitDisturbed, ForgetDisturbed, AddKey
  <2>2. \A x \in Docs : KeyMoves(x)
    BY <2>1 DEF KeyMoves, WInv, TypeInv
  <2>3. op \in SaveOps \/ op \in DeleteOps
    BY <1>8, OpShape DEF WInv, CommitDisturbed, ForgetDisturbed, Running
  <2>4. op'.doc = op.doc /\ op'.before = op.before
    BY <1>8, <2>3 DEF CommitDisturbed, ForgetDisturbed, SaveOps, DeleteOps
  <2> QED
    BY <2>1, <2>2, <2>4, KeyHidden
<1>9. CASE Commit \/ Forget \/ RestoreMaps \/ \E e \in Docs : RestoreMapsDisturbed(e)
  BY <1>9, EndAtomic
<1>10. CASE UNCHANGED vars
  BY <1>10 DEF vars, maps, AtomicStep, Mapped, Damage, ByDocument
<1> QED
  BY <1>1, <1>2, <1>4, <1>5, <1>6, <1>7, <1>8, <1>9, <1>10
     DEF Next, Saves, DeletesOf, Recovers

\* Every operation takes effect as a whole or not at all, except for the
\* chunks a recovery error names (DESIGN_DECISIONS.md "Stage 3 Mutation
\* Recovery Boundary").
THEOREM WizardsAreAtomic == Spec => ImplementsAtomicWizards
<1>1. Init => A!Init
  <2> SUFFICES ASSUME Init PROVE A!Init
    OBVIOUS
  <2>1. ASSUME NEW d \in Docs
        PROVE  op.doc # d /\ Damage(d) = {}
    <3>1. op.doc = NoDoc /\ parMap[d] = Absent /\ \A c \in Chunks : store[c] = NoObject
      BY DEF Init, Idle
    <3>2. ChunksOf(parMap[d]) = {} /\ ByDocument(d) = {}
      BY <3>1 DEF ChunksOf, ByDocument
    <3> QED
      BY <3>1, <3>2, NamesAssumption DEF Damage
  <2>2. Mapped = [d \in Docs |-> {}]
    BY <2>1 DEF Mapped
  <2> QED
    BY <2>2, Zenon DEF Init, A!Init, Mapped
<1>2. AtomicStep => [A!Next]_(A!atomicVars)
  BY DEF AtomicStep, A!atomicVars, Mapped
<1>3. WInv /\ [Next]_vars => [A!Next]_(A!atomicVars)
  BY <1>2, AtomicSteps
<1> QED
  BY <1>1, <1>3, WizardInvariant, PTL DEF Spec, ImplementsAtomicWizards, A!Spec
=============================================================================
