---------------------------- MODULE CorpusLedger ----------------------------
(***************************************************************************)
(* deployment/wizard_diagnostic.py: the durable record of the retrieval    *)
(* corpus (corpus-state.json), the transitions the seeding client may make *)
(* on it, and the checks that read it back.  Operators only: the client    *)
(* that applies them is CorpusReplacement.                                 *)
(*                                                                         *)
(* A generation is numbered by the run that began it; a document is named  *)
(* by its generation and its collection, which stand for its wizard_id.    *)
(* The storage fingerprint of a document is abstracted into its set of     *)
(* chunks: a stored chunk never changes.  Timestamps are Booleans.         *)
(***************************************************************************)
EXTENDS Sequences, Naturals, FiniteSets, SequencesExt

CONSTANTS
    Generations,        \* the run identifiers
    Chunks,             \* the chunks one save of a document makes
    Digests, Policies   \* fixture digests and ingestion policies of the disk

Collections == {"knowledge", "policy"}      \* WIZARD_FIXTURE_COLLECTIONS
Document == [gen : Generations, collection : Collections]

\* DOCUMENT_STATES, and "absent" for a collection with no document yet.
DocumentStates == {"absent", "created", "save_submitting", "save_submitted", "saved"}
Entry == [status : DocumentStates, chunks : SUBSET Chunks]
NoEntry == [status |-> "absent", chunks |-> {}]

NoGeneration == [gen |-> 0]
Generation == [gen : Generations, digest : Digests, policy : Policies,
               docs : [Collections -> Entry], verified : BOOLEAN, completed : BOOLEAN]
Retired == [doc : Document, chunks : SUBSET Chunks]

\* exists: corpus-state.json is on disk.
Ledger == [exists : BOOLEAN, active : Generation \cup {NoGeneration},
           pending : Generation \cup {NoGeneration}, cleanup : Seq(Retired)]
NoLedger == [exists |-> FALSE, active |-> NoGeneration,
             pending |-> NoGeneration, cleanup |-> <<>>]

NewState == [NoLedger EXCEPT !.exists = TRUE]

Recorded(g) == IF g = NoGeneration THEN {}
               ELSE {c \in Collections : g.docs[c].status # "absent"}
Saved(g) == \A c \in Collections : g.docs[c].status = "saved"
DocumentsOf(g) == {[gen |-> g.gen, collection |-> c] : c \in Recorded(g)}
CleanupDocuments(l) == {l.cleanup[i].doc : i \in DOMAIN l.cleanup}

------------------------------------------------------------------------------
(* What the dataclasses and load_corpus_state refuse.                       *)

\* CorpusDocument.__post_init__: integrity data exactly in a saved document.
EntryValid(e) == (e.status = "saved") <=> (e.chunks # {})

\* CorpusGeneration.__post_init__.
GenerationValid(g) ==
    /\ \A c \in Recorded(g) : EntryValid(g.docs[c])
    /\ g.verified => Saved(g)
    /\ g.completed => g.verified

\* load_corpus_state raises for a file that is not one of these.
Loadable(l) ==
    /\ l.active # NoGeneration =>
         /\ GenerationValid(l.active)
         /\ l.active.completed /\ l.active.verified
         /\ Saved(l.active)
    /\ l.pending # NoGeneration => GenerationValid(l.pending) /\ ~l.pending.completed
    /\ \A i \in DOMAIN l.cleanup : l.cleanup[i].chunks # {}
    /\ l.active = NoGeneration => l.cleanup = <<>>
    /\ DocumentsOf(l.active) \cap DocumentsOf(l.pending) = {}
    /\ CleanupDocuments(l) \cap (DocumentsOf(l.active) \cup DocumentsOf(l.pending)) = {}
    /\ Cardinality(CleanupDocuments(l)) = Len(l.cleanup)

\* validate_corpus_preflight: a changed corpus needs --reseed-corpus.
PreflightAccepts(l, digest, reseed) ==
    l.active # NoGeneration => l.active.digest = digest \/ reseed

------------------------------------------------------------------------------
(* validate_physical_membership: physical[d] is the set of chunks found for *)
(* document d, unknown whether a chunk of any other document was found.     *)

\* A document of the pending replacement: while its save may be under way
\* nothing is known of its chunks, otherwise they are exactly the recorded.
PendingMatches(e, found) ==
    CASE e.status = "created" -> found = {}
      [] e.status = "saved" -> found = e.chunks
      [] OTHER -> TRUE

MembershipValid(l, physical, unknown) ==
    /\ ~unknown
    /\ \A d \in Document : physical[d] # {} =>
         d \in DocumentsOf(l.active) \cup DocumentsOf(l.pending) \cup CleanupDocuments(l)
    /\ \A c \in Recorded(l.active) :
         physical[[gen |-> l.active.gen, collection |-> c]] = l.active.docs[c].chunks
    /\ \A c \in Recorded(l.pending) :
         PendingMatches(l.pending.docs[c],
                        physical[[gen |-> l.pending.gen, collection |-> c]])
    /\ \A i \in DOMAIN l.cleanup :
         physical[l.cleanup[i].doc] \subseteq l.cleanup[i].chunks

------------------------------------------------------------------------------
(* The transitions.  Each is applied to a ledger that satisfies its guard;  *)
(* the code raises WizardDiagnosticError otherwise.                         *)

CanBegin(l) == l.pending = NoGeneration
BeginReplacement(l, run, digest, policy) ==
    [l EXCEPT !.pending =
        [gen |-> run, digest |-> digest, policy |-> policy,
         docs |-> [c \in Collections |-> NoEntry],
         verified |-> FALSE, completed |-> FALSE]]

NextStatus == [absent |-> "created", created |-> "save_submitting",
               save_submitting |-> "save_submitted", save_submitted |-> "saved"]

CanRecord(l, c, status) ==
    /\ l.pending # NoGeneration
    /\ ~l.pending.verified
    /\ l.pending.docs[c].status \in DOMAIN NextStatus
    /\ NextStatus[l.pending.docs[c].status] = status
RecordDocument(l, c, status, chunks) ==
    [l EXCEPT !.pending.docs[c] = [status |-> status, chunks |-> chunks]]

CanVerify(l) == l.pending # NoGeneration /\ ~l.pending.verified /\ Saved(l.pending)
MarkVerified(l) == [l EXCEPT !.pending.verified = TRUE]

DiscardPending(l) == [l EXCEPT !.pending = NoGeneration]

\* The documents of the active generation, in the order of _FIXTURE_COLLECTIONS.
RetiredDocuments(g) ==
    [i \in 1..2 |-> LET c == <<"knowledge", "policy">>[i] IN
        [doc |-> [gen |-> g.gen, collection |-> c], chunks |-> g.docs[c].chunks]]

CanPromote(l) == l.pending # NoGeneration /\ l.pending.verified
\* Slip: the replaced documents are dropped.
FaultDropReplaced(l) ==
    [l EXCEPT !.active = [l.pending EXCEPT !.completed = TRUE], !.pending = NoGeneration]

PromoteReplacement(l) ==
    [l EXCEPT !.active = [l.pending EXCEPT !.completed = TRUE],
              !.pending = NoGeneration,
              !.cleanup = IF l.active = NoGeneration THEN @
                          ELSE @ \o RetiredDocuments(l.active)]

\* A document is listed once.
RemoveCleanup(l, doc) ==
    [l EXCEPT !.cleanup = RemoveAt(@, CHOOSE i \in DOMAIN @ : @[i].doc = doc)]

\* record_active_ingestion_policy: the identity of the corpus is not touched.
RecordPolicy(l, policy) == [l EXCEPT !.active.policy = policy]
=============================================================================
