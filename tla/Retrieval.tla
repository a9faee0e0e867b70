----------------------------- MODULE Retrieval -----------------------------
(***************************************************************************)
(* retrieve() of backend/rag/retrieval.py on the storage client's          *)
(* hybrid_search and hydrate_mmr_head: the quarantine of malformed rows,   *)
(* the reranking, the collapse of conversation segments, the relevance     *)
(* floor, the adaptive cut, the hydration (a second read of the storage,   *)
(* after other writers), the diverse selection and the token budget.       *)
(*                                                                         *)
(* Object identifiers are 1..4.  In the conversations an identifier is     *)
(* derived from a conversation and a segment index (uuid5), in an order    *)
(* that has nothing to do with the indices; elsewhere an object is its own *)
(* canonical object.  Scores are the reranker's logits.                    *)
(***************************************************************************)
EXTENDS Integers, Sequences, FiniteSets, SequencesExt

CONSTANTS
    RetFinalCount,     \* config.final_count
    RetTokenBudget,    \* tokens of a context
    RetMaxRows         \* rows of a response that are not all sound

ASSUME RetrievalBounds == {RetFinalCount, RetTokenBudget, RetMaxRows} \subseteq Nat

VARIABLES
    collection,        \* collection_type of the call
    rows,              \* what hybrid_search's query answered
    retrieval,         \* the call: searching, reranking, hydrating, done or failed
    candidates,        \* of _hybrid_candidates, then with their scores
    reranked, eligible, adaptivePool,
    hydrated,          \* [pool, usable, selected], and the objects that are gone
    context            \* the answer of retrieve()

retVars == <<collection, rows, retrieval, candidates, reranked, eligible, adaptivePool,
             hydrated, context>>

Conversations == collection = "conversations"

\* uuid5(canonical, "retrieval-segment:" + index)
SegmentOwner == <<12, 11, 11, 12>>
SegmentIndex == <<0, 1, 0, 1>>
Identified(row) == ~Conversations \/ (row.canonical = SegmentOwner[row.id]
                                      /\ row.segment = SegmentIndex[row.id])

Scores == {-4, -2, -1, 3, 4}
RelevanceFloor == -1
PolicyEmptyPoolFloor == -3
\* In thousandths.
SigmoidScore == [s \in Scores |-> CASE s = -4 -> 18 [] s = -2 -> 119 [] s = -1 -> 269
                                    [] s = 3 -> 953 [] s = 4 -> 982]
GapThreshold == 150
\* Token counts of the texts, and of the separator.
Tokens == <<1, 2, 1, 3>>
ContextTokens(items) ==
    LET total[n \in 0..Len(items)] ==
            IF n = 0 THEN 0 ELSE total[n - 1] + Tokens[items[n].id]
    IN IF items = <<>> THEN 0 ELSE total[Len(items)] + Len(items) - 1

\* The rows a query can answer: one whose owner is another string raises.
Recoverable == {"bad_id", "business", "no_text", "bad_segment"}
Dropped == {"not_mapping", "no_user", "bad_canonical"}
Row(id, fault) ==
    [id |-> id, fault |-> fault,
     canonical |-> IF Conversations THEN SegmentOwner[id] ELSE id,
     segment |-> IF Conversations THEN SegmentIndex[id] ELSE 0]
SoundRows == {Row(id, "none") : id \in 1..4}
OddRows ==
    {Row(id, fault) : id \in {1, 3}, fault \in {"bad_id", "no_text", "no_user"}}
    \cup {Row(2, "other_user")}
    \cup IF Conversations THEN {[Row(id, "none") EXCEPT !.canonical = 11] : id \in {1, 2, 4}}
         ELSE {}

RetInit ==
    /\ collection \in {"conversations", "knowledge_facts", "policy"}
    /\ rows = <<>> /\ retrieval = "searching"
    /\ candidates = <<>> /\ reranked = <<>> /\ eligible = <<>> /\ adaptivePool = <<>>
    /\ hydrated = [pool |-> <<>>, usable |-> TRUE, selected |-> <<>>, gone |-> {}]
    /\ context = <<>>

------------------------------------------------------------------------------
(* The quarantine, in two loops over the rows in the order they came.       *)

Unread == [results |-> <<>>, seen |-> {}, ids |-> {}, canonicals |-> {}]
\* The members of a list at some of its places, in their order.
AtPlaces(list, places) ==
    LET kept[n \in 0..Len(list)] ==
            IF n = 0 THEN <<>>
            ELSE IF n \in places THEN Append(kept[n - 1], list[n]) ELSE kept[n - 1]
    IN kept[Len(list)]
Survivors(acc) ==
    AtPlaces(acc.results, {i \in DOMAIN acc.results :
                              /\ acc.results[i].id \notin acc.ids
                              /\ acc.results[i].canonical \notin acc.canonicals})

\* Slip: only the conversation of the second object is given up.
FaultQuarantineTwice(acc, row) ==
    [acc EXCEPT !.ids = @ \cup {row.id},
                !.canonicals = @ \cup IF Conversations THEN {row.canonical} ELSE {}]

\* A second object with an identifier that was seen: neither is to be used.
QuarantineTwice(acc, row) ==
    [acc EXCEPT !.ids = @ \cup {row.id},
                !.canonicals = @ \cup
                    IF Conversations
                    THEN {row.canonical} \cup
                         {r.canonical : r \in {s \in Range(acc.results) : s.id = row.id}}
                    ELSE {}]
Accept(acc, row) ==
    [acc EXCEPT !.seen = @ \cup {row.id}, !.results = Append(@, row)]

\* _hybrid_search of the storage client.
StorageRow(acc, row) ==
    CASE row.fault \in Dropped -> acc
      [] row.fault \in Recoverable ->
            [acc EXCEPT !.canonicals = @ \cup IF Conversations THEN {row.canonical} ELSE {}]
      [] row.fault \notin Dropped \cup Recoverable /\ row.id \in acc.seen ->
            QuarantineTwice(acc, row)
      [] OTHER -> Accept(acc, row)

\* _normalized_candidates of the retrieval.
CandidateRow(acc, row) ==
    IF row.id \in acc.seen THEN QuarantineTwice(acc, row)
    ELSE IF ~Identified(row)
         THEN [acc EXCEPT !.seen = @ \cup {row.id}, !.canonicals = @ \cup {row.canonical}]
         ELSE Accept(acc, row)

SearchResults(answer) ==
    LET read[n \in 0..Len(answer)] ==
            IF n = 0 THEN Unread ELSE StorageRow(read[n - 1], answer[n])
    IN Survivors(read[Len(answer)])
HybridCandidates(answer) ==
    LET results == SearchResults(answer)
        read[n \in 0..Len(results)] ==
            IF n = 0 THEN Unread ELSE CandidateRow(read[n - 1], results[n])
    IN Survivors(read[Len(results)])

\* UserIsolationError, or the query itself fails.
SearchFails == \E i \in DOMAIN rows : rows[i].fault = "other_user"

Search(answer) ==
    /\ retrieval = "searching"
    /\ rows' = answer
    /\ IF SearchFails'
       THEN retrieval' = "failed" /\ UNCHANGED candidates
       ELSE retrieval' = "reranking" /\ candidates' = HybridCandidates(answer)
    /\ UNCHANGED <<collection, reranked, eligible, adaptivePool, hydrated, context>>

------------------------------------------------------------------------------
(* From the scores to the pool.                                             *)

\* By descending score, of equal ones by an identifier.
Before(c, d, tie) == c.score > d.score \/ (c.score = d.score /\ c[tie] < d[tie])
Ranked(scored, tie) ==
    [n \in 1..Cardinality(scored) |->
        CHOOSE c \in scored : Cardinality({d \in scored : Before(d, c, tie)}) = n - 1]

\* Slip: of equal segments the one with the smaller identifier.
FaultRepresentative(c, d) == c.score > d.score \/ (c.score = d.score /\ c.id <= d.id)

\* _collapse_conversations: the best segment of each conversation, which then
\* goes by the conversation's identifier.
Representative(c, d) ==
    \/ c.score > d.score
    \/ c.score = d.score /\ c.segment < d.segment
    \/ c.score = d.score /\ c.segment = d.segment /\ c.id <= d.id
Collapse(ranking) ==
    LET best == {c \in Range(ranking) :
                    \A d \in Range(ranking) : d.canonical = c.canonical => Representative(c, d)}
    IN Ranked(best, "canonical")

\* _eligible_candidates: a policy call that would be left with nothing keeps
\* its best result when that is not too weak.
Eligible(ranking) ==
    LET above == AtPlaces(ranking, {i \in DOMAIN ranking : ranking[i].score >= RelevanceFloor})
    IN IF above = <<>> /\ collection = "policy" /\ ranking # <<>>
          /\ Head(ranking).score >= PolicyEmptyPoolFloor
       THEN <<Head(ranking)>> ELSE above

AdaptiveK(list) ==
    LET gap(i) == SigmoidScore[list[i].score] - SigmoidScore[list[i + 1].score]
        gaps == {gap(i) : i \in 1..Len(list) - 1}
    IN IF Len(list) <= 1 THEN Len(list)
       ELSE IF Max(gaps) < GapThreshold THEN Len(list)
       ELSE Min({i \in 1..Len(list) - 1 : gap(i) = Max(gaps)})

\* _cross_encoder: one finite score for every candidate.
Rerank(score) ==
    /\ retrieval = "reranking"
    /\ LET scored == {[id |-> c.id, canonical |-> c.canonical, segment |-> c.segment,
                       score |-> score[c.id]] : c \in Range(candidates)}
       IN /\ candidates' = Ranked(scored, "id")
          /\ reranked' = IF Conversations THEN Collapse(candidates') ELSE candidates'
    /\ eligible' = Eligible(reranked')
    /\ adaptivePool' = SubSeq(eligible', 1, AdaptiveK(eligible'))
    /\ retrieval' = "hydrating"
    /\ rows' = <<>>
    /\ UNCHANGED <<collection, hydrated, context>>
RerankFails ==
    /\ retrieval = "reranking"
    /\ retrieval' = "failed"
    /\ UNCHANGED <<collection, rows, candidates, reranked, eligible, adaptivePool, hydrated,
                   context>>

------------------------------------------------------------------------------
(* From the pool to the context.  Between the two reads another writer may  *)
(* have deleted or replaced an object.                                      *)

\* What the second read says of an object of the pool: as it was, without a
\* usable vector, to be quarantined (gone, doubled, changed, its segment no
\* longer in the conversation's text), or of another user.
Outcomes == {"same", "no_vector", "quarantined", "other_user"}
Classes == {1, 2}            \* of diversity vectors: equal, or orthogonal
Ids(items) == {items[i].id : i \in DOMAIN items}

\* Slip: what the second read quarantined stays in the pool.
FaultHydratedPool(outcome, class) ==
    [i \in DOMAIN adaptivePool |->
        [id |-> adaptivePool[i].id, canonical |-> adaptivePool[i].canonical,
         segment |-> adaptivePool[i].segment, score |-> adaptivePool[i].score,
         class |-> class[adaptivePool[i].id]]]

HydratedPool(outcome, class) ==
    LET kept == AtPlaces(adaptivePool, {i \in DOMAIN adaptivePool :
                            outcome[adaptivePool[i].id] \in {"same", "no_vector"}})
    IN [i \in DOMAIN kept |->
          [id |-> kept[i].id, canonical |-> kept[i].canonical, segment |-> kept[i].segment,
           score |-> kept[i].score, class |-> class[kept[i].id]]]

\* _mmr: config.mmr_lambda is 7/10; the objective is scaled by ten times the
\* spread of the scores.
Objective(pool, chosen, i) ==
    LET scores == {pool[j].score : j \in DOMAIN pool}
        spread == IF Max(scores) = Min(scores) THEN 1 ELSE Max(scores) - Min(scores)
        relevance == IF Max(scores) = Min(scores) THEN 1 ELSE pool[i].score - Min(scores)
        redundancy == IF \E j \in Range(chosen) : pool[j].class = pool[i].class THEN 1 ELSE 0
    IN 7 * relevance - 3 * redundancy * spread
Mmr(pool, k) ==
    LET next(chosen) ==
            CHOOSE i \in DOMAIN pool \ Range(chosen) :
                \A j \in DOMAIN pool \ Range(chosen) :
                    \/ Objective(pool, chosen, i) > Objective(pool, chosen, j)
                    \/ Objective(pool, chosen, i) = Objective(pool, chosen, j) /\ i <= j
        chosen[n \in 0..Min({k, Len(pool)})] ==
            IF n = 0 THEN <<>> ELSE Append(chosen[n - 1], next(chosen[n - 1]))
        order == chosen[Min({k, Len(pool)})]
    IN [n \in DOMAIN order |-> pool[order[n]]]

\* _budget_results: the tail is given up until the context fits.
WithinBudget(items) ==
    LET kept[n \in 0..Len(items)] ==
            IF n = 0 \/ ContextTokens(SubSeq(items, 1, n)) <= RetTokenBudget THEN n
            ELSE kept[n - 1]
    IN SubSeq(items, 1, kept[Len(items)])

Hydrate(outcome, class) ==
    /\ retrieval = "hydrating"
    /\ \A c \in Range(adaptivePool) : outcome[c.id] # "other_user"
    /\ LET pool == HydratedPool(outcome, class)
           usable == \A c \in Range(adaptivePool) : outcome[c.id] # "no_vector"
           selected == IF usable THEN Mmr(pool, RetFinalCount)
                       ELSE SubSeq(pool, 1, Min({RetFinalCount, Len(pool)}))
       IN /\ hydrated' =
                [pool |-> pool, usable |-> usable, selected |-> selected,
                 gone |-> {id \in Ids(adaptivePool) : outcome[id] = "quarantined"}]
          /\ context' = IF Conversations THEN selected ELSE WithinBudget(selected)
    /\ retrieval' = "done" /\ candidates' = <<>>
    /\ UNCHANGED <<collection, rows, reranked, eligible, adaptivePool>>
\* UserIsolationError, or the query fails.
HydrateFails ==
    /\ retrieval = "hydrating" /\ adaptivePool # <<>>
    /\ retrieval' = "failed"
    /\ UNCHANGED <<collection, rows, candidates, reranked, eligible, adaptivePool, hydrated,
                   context>>

\* Slip: what the second read dropped is taken for what the gap cut.
FaultReason(c) ==
    CASE c.id \notin Ids(eligible) -> "floor"
      [] c.id \in Ids(eligible) \ Ids(hydrated.pool) -> "adaptive_gap"
      [] c.id \in Ids(hydrated.pool) \ Ids(hydrated.selected) ->
            IF hydrated.usable THEN "mmr_limit" ELSE "fallback_limit"
      [] c.id \in Ids(hydrated.selected) \ Ids(context) -> "budget"
      [] OTHER -> "selected"

\* _observe_candidate_decisions: why a reranked candidate is not in the context.
Reason(c) ==
    CASE c.id \notin Ids(eligible) -> "floor"
      [] c.id \in Ids(eligible) \ Ids(adaptivePool) -> "adaptive_gap"
      [] c.id \in Ids(adaptivePool) \ Ids(hydrated.pool) -> "hydration"
      [] c.id \in Ids(hydrated.pool) \ Ids(hydrated.selected) ->
            IF hydrated.usable THEN "mmr_limit" ELSE "fallback_limit"
      [] c.id \in Ids(hydrated.selected) \ Ids(context) -> "budget"
      [] OTHER -> "selected"

\* Responses: any short one, and the sound objects in any order with repetitions.
Responses == BoundedSeq(SoundRows \cup OddRows, RetMaxRows) \cup [1..4 -> SoundRows]
Over(list, S) == [Ids(list) -> S]

RetNext ==
    \/ retrieval = "searching" /\ \E answer \in Responses : Search(answer)
    \/ \E score \in Over(candidates, Scores) : Rerank(score)
    \/ RerankFails
    \/ \E outcome \in Over(adaptivePool, Outcomes), class \in Over(adaptivePool, Classes) :
          Hydrate(outcome, class)
    \/ HydrateFails
    \/ retrieval \in {"done", "failed"} /\ UNCHANGED retVars
RetSpec == RetInit /\ [][RetNext]_retVars

------------------------------------------------------------------------------
(* Properties.                                                              *)

\* The quarantine is exact and blind to the order of the rows: a candidate is
\* kept unless it is malformed or doubled, and a conversation is given up with
\* the first of its segments that is.
Doubled(i) ==
    \E j \in DOMAIN rows \ {i} :
        rows[j].id = rows[i].id /\ rows[j].fault = "none" /\ rows[i].fault = "none"
Tainted(i) ==
    \/ rows[i].fault \in Recoverable
    \/ rows[i].fault = "none" /\ (Doubled(i) \/ ~Identified(rows[i]))
QuarantineExact ==
    retrieval = "reranking" =>
        Range(candidates) =
            {rows[i] : i \in {j \in DOMAIN rows :
                /\ rows[j].fault = "none" /\ ~Tainted(j)
                /\ Conversations => \A k \in DOMAIN rows :
                      rows[k].canonical = rows[j].canonical => ~Tainted(k)}}

\* The adaptive cut never separates two candidates with one score, and leaves
\* something of whatever passed the floor.
CutsBetweenScores ==
    retrieval = "hydrating" =>
        /\ eligible # <<>> => adaptivePool # <<>>
        /\ \A i, j \in DOMAIN eligible :
              eligible[i].score = eligible[j].score =>
                  (i \in DOMAIN adaptivePool <=> j \in DOMAIN adaptivePool)

\* A conversation is represented once, by a best of its segments; of equal ones
\* by the earliest, whatever the order of their identifiers.
OneBestSegment ==
    retrieval = "hydrating" /\ Conversations =>
        /\ Cardinality({c.canonical : c \in Range(reranked)}) = Len(reranked)
        /\ \A c \in Range(candidates) : \E r \in Range(reranked) :
              /\ r.canonical = c.canonical /\ r.score >= c.score
              /\ r.score = c.score => r.segment <= c.segment

\* Nothing enters the context that is gone since the search, or twice; the best
\* candidate that is left leads it; and it is no longer than configured.
ContextConfirmed ==
    retrieval = "done" =>
        /\ Ids(context) \subseteq Ids(adaptivePool) \ hydrated.gone
        /\ Cardinality(Ids(context)) = Len(context) /\ Len(context) <= RetFinalCount
        /\ context # <<>> =>
              \A c \in Range(adaptivePool) :
                  c.id \notin hydrated.gone => c.score <= Head(context).score

\* The context fits its budget, and not one more result would.
BudgetTight ==
    retrieval = "done" /\ ~Conversations =>
        /\ context # <<>> => ContextTokens(context) <= RetTokenBudget
        /\ Len(context) < Len(hydrated.selected) =>
              ContextTokens(SubSeq(hydrated.selected, 1, Len(context) + 1)) > RetTokenBudget

\* The recorded reasons explain the context: the selected are the context, what
\* the floor refused is weaker than all that passed it, what the gap cut is
\* weaker than the pool, and a limit is named only when it was reached.
ReasonsExplain ==
    retrieval = "done" =>
        LET with(reason) == {c \in Range(reranked) : Reason(c) = reason}
        IN /\ {c.id : c \in with("selected")} = Ids(context)
           /\ \A c \in with("floor"), d \in Range(eligible) : c.score <= d.score /\ c # d
           /\ \A c \in with("adaptive_gap"), d \in Range(adaptivePool) : c.score < d.score
           /\ with("mmr_limit") \cup with("fallback_limit") # {} =>
                 Len(hydrated.selected) = RetFinalCount
           /\ with("budget") # {} => ~Conversations
=============================================================================
