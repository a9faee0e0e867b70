----------------------------- MODULE TextChunks -----------------------------
(***************************************************************************)
(* chunk_paragraph of processing/chunker.py: the paragraph is cut from its *)
(* start, at topic changes first, and small chunks are merged.  A character*)
(* counts for one token; a boundary lies before a character that begins a  *)
(* semantic unit, and its similarity is Low below the threshold.           *)
(***************************************************************************)
EXTENDS Integers, Sequences, SequencesExt, FiniteSets, FiniteSetsExt

CONSTANTS
    MinTokens, TargetTokens, MaxTokens,
    MaxLength       \* of a paragraph

ASSUME ChunkingOrdered ==
    /\ {MinTokens, TargetTokens, MaxTokens, MaxLength} \subseteq Nat
    /\ 0 < MinTokens /\ MinTokens <= TargetTokens /\ TargetTokens <= MaxTokens

VARIABLES
    blank,      \* of each character: whether it is whitespace
    similarity, \* of each boundary: Low or High; a boundary is the offset before it
    ends,       \* where the chunks end; each begins where the one before it ends
    index,      \* the chunk that the merging looks at, 0 while the text is cut
    chunked     \* whether chunk_paragraph has returned

chunkVars == <<blank, similarity, ends, index, chunked>>

Low == 0
High == 1
Certain == 2        \* the similarity across a cut that is no boundary

\* A unit begins at a character that is not blank, and the first unit at no boundary.
ChunksInit ==
    /\ \E n \in 1..MaxLength : blank \in [1..n -> BOOLEAN]
    /\ \E n \in DOMAIN blank : ~blank[n]
    /\ \E at \in SUBSET {n \in 1..(Len(blank) - 1) : ~blank[n + 1] /\ \E m \in 1..n : ~blank[m]} :
         similarity \in [at -> {Low, High}]
    /\ ends = <<>>
    /\ index = 0
    /\ chunked = FALSE

Length == Len(blank)
ChunkStart(i) == IF i = 1 THEN 0 ELSE ends[i - 1]
SpanTokens(i, j) == ends[j] - ChunkStart(i)     \* of the chunks from i to j
Apart(m, n) == IF m < n THEN n - m ELSE m - n

------------------------------------------------------------------------------
(* _select_next_end and _prefix_end_for_limit.                              *)

Cut == IF ends = <<>> THEN 0 ELSE Last(ends)
Remaining == Length - Cut
Available == {b \in DOMAIN similarity : Cut < b /\ b - Cut <= MaxTokens}
TopicChanges == {b \in Available : similarity[b] = Low}
LargeEnough == {b \in Available : b - Cut >= MinTokens}
SizeCandidates ==
    LargeEnough \cup
    {n \in {Length} : /\ Remaining <= MaxTokens
                      /\ LargeEnough # {} \/ Remaining <= TargetTokens + MinTokens}
Nearest(offsets) ==
    CHOOSE b \in offsets : \A c \in offsets :
      \/ Apart(b - Cut, TargetTokens) < Apart(c - Cut, TargetTokens)
      \/ Apart(b - Cut, TargetTokens) = Apart(c - Cut, TargetTokens) /\ b <= c

\* The last whitespace that fits, unless the prefix up to it is too small.
PrefixEnd(limit) ==
    LET best == Min({Cut + limit, Length})
        spaces == {n \in (Cut + 1)..best : blank[n]}
    IN IF spaces # {} /\ Max(spaces) - Cut >= MinTokens THEN Max(spaces) ELSE best

NextEnd ==
    IF TopicChanges # {} THEN Min(TopicChanges)
    ELSE IF SizeCandidates # {} THEN Nearest(SizeCandidates)
    ELSE PrefixEnd(IF Remaining > TargetTokens + MinTokens THEN TargetTokens ELSE MaxTokens)

CutNext ==
    /\ index = 0 /\ Cut < Length
    /\ ends' = Append(ends, NextEnd)
    /\ UNCHANGED <<blank, similarity, index, chunked>>

BeginMerge ==
    /\ index = 0 /\ Cut = Length
    /\ index' = 1
    /\ UNCHANGED <<blank, similarity, ends, chunked>>

------------------------------------------------------------------------------
(* _merge_small_compatible_chunks.  To merge is to drop an end.             *)

Across(n) == IF n \in DOMAIN similarity THEN similarity[n] ELSE Certain

\* The ends that may be dropped for a chunk: of the one before it, and its own.
Mergeable(i) == {n \in {i - 1, i} : 1 <= n /\ n < Len(ends) /\ SpanTokens(n, n + 1) <= MaxTokens}

\* The most similar neighbour, then the nearest to the target, then the one before.
Better(m, n) ==
    \/ Across(ends[m]) > Across(ends[n])
    \/ /\ Across(ends[m]) = Across(ends[n])
       /\ \/ Apart(SpanTokens(m, m + 1), TargetTokens) < Apart(SpanTokens(n, n + 1), TargetTokens)
          \/ /\ Apart(SpanTokens(m, m + 1), TargetTokens) = Apart(SpanTokens(n, n + 1), TargetTokens)
             /\ m <= n
DroppedEnd(i) == CHOOSE m \in Mergeable(i) : \A n \in Mergeable(i) : Better(m, n)

Merge ==
    /\ index \in DOMAIN ends
    /\ IF SpanTokens(index, index) >= MinTokens \/ Mergeable(index) = {}
       THEN index' = index + 1 /\ UNCHANGED ends
       ELSE /\ ends' = RemoveAt(ends, DroppedEnd(index))
            /\ index' = IF DroppedEnd(index) = index THEN index ELSE Max({1, index - 1})
    /\ UNCHANGED <<blank, similarity, chunked>>

Return ==
    /\ ~chunked /\ index > Len(ends) /\ index > 0
    /\ chunked' = TRUE
    /\ UNCHANGED <<blank, similarity, ends, index>>

ChunksNext == CutNext \/ BeginMerge \/ Merge \/ Return
ChunksSpec == ChunksInit /\ [][ChunksNext]_chunkVars

------------------------------------------------------------------------------
(* Properties.                                                              *)

\* The chunks are the paragraph, none is above the hard maximum, no topic change
\* was cut over, and a small chunk is left only where no neighbour could take it
\* (chunker.py:128-279): the errors at the end of chunk_paragraph are not reached.
ChunksSound ==
    /\ \A i \in DOMAIN ends : SpanTokens(i, i) \in 1..MaxTokens
    /\ index = 0 => \A b \in DOMAIN similarity : similarity[b] = Low /\ b < Cut => b \in ToSet(ends)
    /\ chunked =>
         /\ Last(ends) = Length
         /\ \A i \in DOMAIN ends, n \in 1..(Len(ends) - 1) :
              SpanTokens(i, i) < MinTokens /\ n \in {i - 1, i} => SpanTokens(n, n + 1) > MaxTokens
=============================================================================
