---------------------------- MODULE AnswerPrompt ----------------------------
(***************************************************************************)
(* _build_budgeted_prompt of backend/rag/generator.py: each context within *)
(* its own budget, then the prompt within the total one, by giving up the  *)
(* tail of one context at a time.  An empty context is replaced by a       *)
(* sentence, which costs tokens too.                                       *)
(*                                                                         *)
(* An item is its reranker score (or none) and the tokens of its text.     *)
(***************************************************************************)
EXTENDS Integers, Sequences, FiniteSets, SequencesExt

CONSTANTS
    KnowledgeTokens, PolicyTokens, TotalTokens,   \* TOKEN_BUDGETS
    PlaceholderTokens,                            \* of "No ... were retrieved."
    MaxItems, MaxQueryTokens                      \* bounds of the inputs

ASSUME PromptBudgets == KnowledgeTokens + PolicyTokens <= TotalTokens

VARIABLES
    knowledge, policy,     \* the contexts, as they shrink
    queryTokens,           \* of the rewritten query and the fixed prompt
    given,                 \* the contexts once they were within their own budgets
    prompt                 \* "rendering", "fitting", "built" or "refused"

promptVars == <<knowledge, policy, queryTokens, given, prompt>>

NoScore == 0
Items == [score : {NoScore, 1, 2}, tokens : 1..2]

Joined(items) ==
    FoldLeft(LAMBDA n, item : n + item.tokens, 0, items) + Max({0, Len(items) - 1})
Rendered(items) == IF items = <<>> THEN PlaceholderTokens ELSE Joined(items)
PromptTokens == queryTokens + Rendered(knowledge) + Rendered(policy)

\* _budget_results.
Budgeted(items, budget) ==
    LET kept[n \in 0..Len(items)] ==
            IF n = 0 \/ Joined(SubSeq(items, 1, n)) <= budget THEN n ELSE kept[n - 1]
    IN SubSeq(items, 1, kept[Len(items)])

PromptInit ==
    /\ knowledge \in BoundedSeq(Items, MaxItems) /\ policy \in BoundedSeq(Items, MaxItems)
    /\ queryTokens \in 1..MaxQueryTokens
    /\ given = [knowledge |-> <<>>, policy |-> <<>>]
    /\ prompt = "rendering"

RenderPair ==
    /\ prompt = "rendering"
    /\ knowledge' = Budgeted(knowledge, KnowledgeTokens)
    /\ policy' = Budgeted(policy, PolicyTokens)
    /\ given' = [knowledge |-> knowledge', policy |-> policy']
    /\ prompt' = "fitting"
    /\ UNCHANGED queryTokens

\* Slip: the stronger tail goes.
FaultGoesFirst(k, p) ==
    \/ k.score = NoScore /\ p.score # NoScore
    \/ k.score # NoScore /\ p.score # NoScore /\ k.score > p.score
    \/ k.score = p.score /\ k.tokens > p.tokens

\* Which of two tails goes: the unscored one, then the weaker, then the longer.
GoesFirst(k, p) ==
    \/ k.score = NoScore /\ p.score # NoScore
    \/ k.score # NoScore /\ p.score # NoScore /\ k.score < p.score
    \/ k.score = p.score /\ k.tokens > p.tokens
KnowledgeTailGoes ==
    knowledge # <<>> /\ (policy # <<>> => GoesFirst(Last(knowledge), Last(policy)))

PromptFits == PromptTokens <= TotalTokens
DropKnowledge ==
    /\ prompt = "fitting" /\ ~PromptFits
    /\ KnowledgeTailGoes
    /\ knowledge' = Front(knowledge)
    /\ UNCHANGED <<policy, queryTokens, given, prompt>>
DropPolicy ==
    /\ prompt = "fitting" /\ ~PromptFits
    /\ policy # <<>> /\ ~KnowledgeTailGoes
    /\ policy' = Front(policy)
    /\ UNCHANGED <<knowledge, queryTokens, given, prompt>>
BuildPrompt ==
    /\ prompt = "fitting" /\ PromptFits
    /\ prompt' = "built"
    /\ UNCHANGED <<knowledge, policy, queryTokens, given>>
RefusePrompt ==
    /\ prompt = "fitting" /\ ~PromptFits /\ knowledge = <<>> /\ policy = <<>>
    /\ prompt' = "refused"
    /\ UNCHANGED <<knowledge, policy, queryTokens, given>>

PromptStep == RenderPair \/ DropKnowledge \/ DropPolicy \/ BuildPrompt \/ RefusePrompt
PromptNext == PromptStep \/ (prompt \in {"built", "refused"} /\ UNCHANGED promptVars)
PromptSpec == PromptInit /\ [][PromptNext]_promptVars

------------------------------------------------------------------------------
(* Properties.                                                              *)

\* Of two contexts in the order of their scores, nothing is given up for the
\* total budget while something weaker of the other context is kept.
Descending(items) ==
    \A i, j \in DOMAIN items : i < j => items[i].score >= items[j].score
WeakestGivenUp ==
    prompt = "built" /\ Descending(given.knowledge) /\ Descending(given.policy) =>
        LET lost(all, kept) == {all[i].score : i \in Len(kept) + 1..Len(all)}
            have(kept) == {kept[i].score : i \in DOMAIN kept}
        IN /\ \A l \in lost(given.knowledge, knowledge), h \in have(policy) : l <= h
           /\ \A l \in lost(given.policy, policy), h \in have(knowledge) : l <= h
=============================================================================
