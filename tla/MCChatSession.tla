--------------------------- MODULE MCChatSession ---------------------------
(***************************************************************************)
(* Small instances of ChatSession.                                         *)
(***************************************************************************)
EXTENDS ChatSession, TLC

Symmetric == Permutations(Sessions) \cup Permutations(Convs) \cup Permutations(Deletes)
=============================================================================
