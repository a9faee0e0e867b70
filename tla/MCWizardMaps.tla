---------------------------- MODULE MCWizardMaps ----------------------------
EXTENDS WizardMaps, TLC

\* Requests of one kind are interchangeable.
Symmetric == Permutations(Posts) \cup Permutations(Gets)
=============================================================================
