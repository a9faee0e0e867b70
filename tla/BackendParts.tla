---------------------------- MODULE BackendParts ----------------------------
(***************************************************************************)
(* Nine parts of the backend that keep no state in common: the process     *)
(* itself (RuntimeLifecycle); the collections of the tenants               *)
(* (UserCollections); of a save, the alignment of the edit (EditAlignment) *)
(* and the chunking of its text (TextChunks); of a query, the retrieval of *)
(* one context (Retrieval), the prompt made of two of them (AnswerPrompt)  *)
(* and the stream of the answer (AnswerStream); the traces in which        *)
(* requests record what they did (TraceRegistry); and how the maps of the  *)
(* wizards come into being (WizardMaps).  A behaviour is of one part; the  *)
(* others stay in one of their initial states.                             *)
(***************************************************************************)
EXTENDS RuntimeLifecycle, UserCollections, EditAlignment, TextChunks,
        Retrieval, AnswerPrompt, AnswerStream, TraceRegistry, WizardMaps

VARIABLE part

partVars == <<part, lifecycleVars, collectionVars, editVars, chunkVars, retVars, promptVars,
              streamVars, traceVars, mapsVars>>

PartsInit ==
    /\ part \in {"lifecycle", "collections", "edit", "chunks", "retrieval", "prompt", "stream",
                 "trace", "maps"}
    /\ LifecycleInit /\ StreamInit
    /\ RetInit /\ (part # "retrieval" => collection = "policy")
    /\ TraceInit /\ (part # "trace" => captureMode = "deep")
    /\ MapsInit /\ (part # "maps" => ~warm)
    /\ IF part = "collections" THEN CollectionsInit
       ELSE CollectionsInit /\ Existing = {}
    /\ IF part = "edit" THEN EditInit
       ELSE /\ borders = <<0>> /\ opcodes = <<>> /\ unions = {} /\ editStage = "diff"
    /\ IF part = "chunks" THEN ChunksInit
       ELSE /\ blank = <<FALSE>> /\ similarity = <<>>
            /\ ends = <<>> /\ index = 0 /\ chunked = FALSE
    /\ IF part = "prompt" THEN PromptInit
       ELSE /\ knowledge = <<>> /\ policy = <<>> /\ queryTokens = 1
            /\ given = [knowledge |-> <<>>, policy |-> <<>>] /\ prompt = "rendering"

OnlyPart(mine) ==
    /\ part = mine
    /\ UNCHANGED part
    /\ mine # "lifecycle" => UNCHANGED lifecycleVars
    /\ mine # "collections" => UNCHANGED collectionVars
    /\ mine # "edit" => UNCHANGED editVars
    /\ mine # "chunks" => UNCHANGED chunkVars
    /\ mine # "retrieval" => UNCHANGED retVars
    /\ mine # "prompt" => UNCHANGED promptVars
    /\ mine # "stream" => UNCHANGED streamVars
    /\ mine # "trace" => UNCHANGED traceVars
    /\ mine # "maps" => UNCHANGED mapsVars

PartsNext ==
    \/ OnlyPart("lifecycle") /\ LifecycleNext
    \/ OnlyPart("collections") /\ CollectionsNext
    \/ OnlyPart("edit") /\ EditNext
    \/ OnlyPart("chunks") /\ ChunksNext
    \/ OnlyPart("retrieval") /\ RetNext
    \/ OnlyPart("prompt") /\ PromptNext
    \/ OnlyPart("stream") /\ StreamNext
    \/ OnlyPart("trace") /\ TraceNext
    \/ OnlyPart("maps") /\ MapsNext
PartsSpec == PartsInit /\ [][PartsNext]_partVars

\* The worker threads are alike, and so are the sessions of traces and the requests in
\* them.
ThreadSymmetry ==
    UNION {Permutations(S) : S \in {RequestThreads, TraceSessions, TraceRequests}}

------------------------------------------------------------------------------
(* Properties.                                                              *)

\* The ranking speaks for the scores alone: the adaptive cut separates no two
\* candidates with one score, and a conversation is represented once, by the
\* earliest of its best segments.
RankingSound == CutsBetweenScores /\ OneBestSegment

\* The context holds what survived the second read, best first, and as much of
\* it as the budget allows.
ContextSound == ContextConfirmed /\ BudgetTight

\* Whatever is edited, a save aligns it and replaces just the paragraphs that were
\* touched; whatever is chunked, no text is lost and no chunk breaks the bounds.
TextPreserved == AlignmentExact /\ ChunksSound

\* A trace is complete unless it tells that it is not, save for what untraced work adds
\* under a handle its worker was made with; and an evaluation session is faulted for
\* the doings of its own requests only.
TracesTruthful == CompleteUnlessTold /\ EvaluationIndependent
=============================================================================
