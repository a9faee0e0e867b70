--------------------------- MODULE AtomicWizards ---------------------------
(***************************************************************************)
(* What saving and deleting a wizard promises (DESIGN_DECISIONS.md "Stage 3 *)
(* Mutation Recovery Boundary", BACKEND.md 4.4-4.5): an operation either   *)
(* takes effect as a whole, or fails and leaves everything as it was, or   *)
(* fails and names the chunks it could not put back.  There are no stages, *)
(* no storage and no compensation here.                                    *)
(***************************************************************************)
EXTENDS FiniteSets

CONSTANTS
    Docs,           \* the wizard ids
    Chunks,         \* the chunk ids
    Contents,       \* what a wizard can hold
    Empty,          \* what a new one holds
    Absent          \* no such wizard

VARIABLES
    content,        \* content[d]: the paragraphs of wizard d, or Absent
    damage,         \* damage[d]: the chunks whose storage disagrees with content[d]
    reported        \* reported[d]: the chunks recovery errors named for d

atomicVars == <<content, damage, reported>>

Init ==
    /\ content = [d \in Docs |-> Absent]
    /\ damage = [d \in Docs |-> {}]
    /\ reported = [d \in Docs |-> {}]

Create(d) ==
    /\ content[d] = Absent
    /\ content' = [content EXCEPT ![d] = Empty]
    /\ UNCHANGED <<damage, reported>>

\* A creation that fails takes back the wizard it listed.
Cancel(d) ==
    /\ content[d] = Empty /\ damage[d] = {}
    /\ content' = [content EXCEPT ![d] = Absent]
    /\ UNCHANGED <<damage, reported>>

\* Whatever the storage held wrongly before may be set right, nothing more.
Heals(d, allowed) ==
    \E left \in SUBSET (damage[d] \cup allowed) :
        damage' = [damage EXCEPT ![d] = left]

Save(d) ==
    /\ content[d] # Absent
    /\ \E new \in Contents : content' = [content EXCEPT ![d] = new]
    /\ Heals(d, {})
    /\ UNCHANGED reported

Delete(d) ==
    /\ content[d] # Absent
    /\ content' = [content EXCEPT ![d] = Absent]
    /\ damage' = [damage EXCEPT ![d] = {}]
    /\ reported' = [reported EXCEPT ![d] = {}]

Fail(d) ==
    /\ content[d] # Absent
    /\ Heals(d, {})
    /\ UNCHANGED <<content, reported>>

\* A recovery error: the damage is confined to the chunks it names.
Break(d) ==
    /\ content[d] # Absent
    /\ \E named \in SUBSET Chunks :
          /\ reported' = [reported EXCEPT ![d] = @ \cup named]
          /\ Heals(d, named)
    /\ UNCHANGED content

Next == \E d \in Docs :
    \/ Create(d) \/ Cancel(d) \/ Save(d) \/ Delete(d)
    \/ Fail(d) \/ Break(d)

Spec == Init /\ [][Next]_atomicVars
=============================================================================
