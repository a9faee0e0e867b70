---------------------------- MODULE AnswerStream ----------------------------
(***************************************************************************)
(* A query after its lease is taken: the rewriting with its one retry      *)
(* (providers/sglang_query_rewriter.py), the answer stream with its one    *)
(* retry (_stream_response of providers/sglang_qwen_llm.py), what           *)
(* run_rag_pipeline persists of it (rag/pipeline.py) and how stream_events *)
(* ends it (api/chat.py).  The retrieval in between is Retrieval.          *)
(***************************************************************************)
EXTENDS Naturals, Sequences, SequencesExt

CONSTANT MaxLines       \* lines a server sends in one attempt

VARIABLES
    stage,      \* where the query is
    attempt,    \* of the rewriting, then of the stream
    seen,       \* saw_content, saw_finish and saw_done
    sent,       \* what the server sent in this attempt
    delivered,  \* the tokens the client has, each with its attempt
    persisted   \* the answer handed to the queue, or NoAnswer

streamVars == <<stage, attempt, seen, sent, delivered, persisted>>

NoAnswer == <<"none">>
Pieces == {"", "blank", "word"}
Finishes == {"none", "stop", "other"}       \* "stop" stands for "length" too
Unseen == [content |-> FALSE, finish |-> FALSE, done |-> FALSE]
Ended == {"done", "error", "left"}
Terminator == [piece |-> "", finish |-> "[DONE]"]

StreamInit ==
    /\ stage = "rewrite"
    /\ attempt = 0
    /\ seen = Unseen
    /\ sent = <<>>
    /\ delivered = <<>>
    /\ persisted = NoAnswer

\* The answer parts of stream_events, and of the pipeline.
Answer == [n \in DOMAIN delivered |-> delivered[n].piece]
NotBlank(answer) == "word" \in ToSet(answer)

------------------------------------------------------------------------------
(* Rewriting.                                                               *)

Rewritten ==
    /\ stage = "rewrite"
    /\ stage' = "stream"
    /\ attempt' = 0
    /\ UNCHANGED <<seen, sent, delivered, persisted>>

\* A transient failure and a malformed rewrite share the one second attempt;
\* anything else ends the query.
RewriteFails(again) ==
    /\ stage = "rewrite"
    /\ IF again /\ attempt = 0
       THEN attempt' = 1 /\ UNCHANGED stage
       ELSE stage' = "error" /\ UNCHANGED attempt
    /\ UNCHANGED <<seen, sent, delivered, persisted>>

------------------------------------------------------------------------------
(* The stream.                                                              *)

Receives(line) ==
    /\ stage = "stream"
    /\ Len(sent) < MaxLines
    /\ sent' = Append(sent, line)

\* One event.  Its piece is yielded before its finish reason is looked at.
Event(piece, finish) ==
    /\ Receives([piece |-> piece, finish |-> finish])
    /\ IF seen.done
       THEN stage' = "error" /\ UNCHANGED <<seen, delivered>>
       ELSE /\ delivered' = IF piece = "" THEN delivered
                            ELSE Append(delivered, [attempt |-> attempt, piece |-> piece])
            /\ stage' = IF finish # "none" /\ (seen.finish \/ finish = "other")
                        THEN "error" ELSE stage
            /\ seen' = [seen EXCEPT !.content = @ \/ piece # "",
                                    !.finish = @ \/ finish # "none"]
    /\ UNCHANGED <<attempt, persisted>>

Terminates ==
    /\ Receives(Terminator)
    /\ stage' = IF seen.done THEN "error" ELSE stage
    /\ seen' = [seen EXCEPT !.done = TRUE]
    /\ UNCHANGED <<attempt, delivered, persisted>>

Malformed ==
    /\ stage = "stream"
    /\ stage' = "error"
    /\ UNCHANGED <<attempt, seen, sent, delivered, persisted>>

\* Slip: a transient error is retried whatever was delivered.
FaultMayRetry == attempt = 0

\* Only a stream that has yielded nothing may be begun again.
MayRetry == attempt = 0 /\ ~seen.content

TransportFails(transient) ==
    /\ stage = "stream"
    /\ IF transient /\ MayRetry
       THEN /\ attempt' = 1
            /\ seen' = Unseen
            /\ sent' = <<>>
            /\ UNCHANGED stage
       ELSE /\ stage' = "error"
            /\ UNCHANGED <<attempt, seen, sent>>
    /\ UNCHANGED <<delivered, persisted>>

\* The response ends: an answer is complete with content, a finish reason and
\* the terminator, and the pipeline wants more than blanks in it.
ResponseEnds ==
    /\ stage = "stream"
    /\ stage' = IF seen.content /\ seen.finish /\ seen.done /\ NotBlank(Answer)
                THEN "persist" ELSE "error"
    /\ UNCHANGED <<attempt, seen, sent, delivered, persisted>>

------------------------------------------------------------------------------
(* The end of the query.                                                    *)

\* embed_conversation is accepted by the queue, or refused.
Persist(accepted) ==
    /\ stage = "persist"
    /\ persisted' = IF accepted THEN Answer ELSE persisted
    /\ stage' = IF accepted THEN "record" ELSE "error"
    /\ UNCHANGED <<attempt, seen, sent, delivered>>

\* Recorded in the session; a title that cannot be scheduled is only logged.
\* Telemetry and done follow.
RecordAnswer ==
    /\ stage = "record"
    /\ stage' = "done"
    /\ UNCHANGED <<attempt, seen, sent, delivered, persisted>>

\* The client leaves: the generators are closed wherever they are.
Leave ==
    /\ stage \notin Ended
    /\ stage' = "left"
    /\ UNCHANGED <<attempt, seen, sent, delivered, persisted>>

StreamNext ==
    \/ Rewritten
    \/ \E again \in BOOLEAN : RewriteFails(again)
    \/ \E piece \in Pieces, finish \in Finishes : Event(piece, finish)
    \/ Terminates \/ Malformed
    \/ \E transient \in BOOLEAN : TransportFails(transient)
    \/ ResponseEnds
    \/ \E accepted \in BOOLEAN : Persist(accepted)
    \/ RecordAnswer \/ Leave

StreamSpec == StreamInit /\ [][StreamNext]_streamVars

------------------------------------------------------------------------------
(* Properties.                                                              *)

\* What the client reads as one answer, and what is persisted as it, is what one
\* attempt of the server produced, in full if the stream ends with done
\* (sglang_qwen_llm.py:477-494, pipeline.py:213-249): nothing is repeated by the
\* retry and no cut-off answer is kept.
Yielded(lines) ==
    LET upTo[n \in 0..Len(lines)] ==
            IF n = 0 THEN <<>>
            ELSE IF lines[n].piece = "" THEN upTo[n - 1]
                 ELSE Append(upTo[n - 1], lines[n].piece)
    IN upTo[Len(lines)]
Produced == Yielded(sent)
Completed ==
    /\ \E n \in DOMAIN sent : sent[n].finish = "stop"
    /\ Last(sent) = Terminator
AnswerWhole ==
    /\ \A m, n \in DOMAIN delivered : delivered[m].attempt = delivered[n].attempt
    /\ persisted # NoAnswer => persisted = Produced /\ Completed
    /\ stage = "done" => persisted = Answer
=============================================================================
