---------------------------- MODULE MCWizardSave ----------------------------
EXTENDS WizardSave, TLC

\* Chunk and document ids are interchangeable for invariants.
Symmetric == Permutations(Chunks) \cup Permutations(Docs)
=============================================================================
