--------------------------- MODULE BackendProofs ---------------------------
(***************************************************************************)
(* Parts of the backend, proved for every number of tenants, threads,      *)
(* lines, items, sessions and requests: the process that makes and closes  *)
(* its resources (RuntimeLifecycle), the collections of the tenants        *)
(* (UserCollections), the stream of an answer (AnswerStream), the prompt   *)
(* that is cut to its budget (AnswerPrompt), the traces of requests        *)
(* (TraceRegistry) and the maps of the wizards (WizardMaps).  Each part    *)
(* has its inductive invariant; the last theorem puts them together with   *)
(* those of RagProofs for the specification of all the parts.              *)
(***************************************************************************)
EXTENDS BackendParts, RagProofs

---------------------------------------------------------------------------
(* AnswerStream: what the lines of one attempt yield *)

\* What a line adds to what was yielded before it.
Adds(before, line) ==
    IF line.piece = "" THEN before ELSE Append(before, line.piece)

\* f[n] is what the first n of the lines yield.
YieldsUpTo(f, lines, k) ==
    \A n \in 0..k : f[n] = IF n = 0 THEN <<>> ELSE Adds(f[n-1], lines[n])

\* The prefixes can be read one after another, however many there are.
LEMMA YieldsExist ==
  ASSUME NEW lines, NEW k \in Nat
  PROVE  \E f : YieldsUpTo(f, lines, k)
<1> DEFINE Bad == {n \in Nat : ~ \E f : YieldsUpTo(f, lines, n)}
<1>1. SUFFICES ASSUME Bad # {} PROVE FALSE
  OBVIOUS
<1>2. PICK n \in Bad : \A m \in Bad : n <= m
  BY <1>1, LeastNatural
<1>3. n # 0
  <2>1. YieldsUpTo([i \in 0..0 |-> <<>>], lines, 0)
    BY DEF YieldsUpTo
  <2> QED
    BY <1>2, <2>1
<1>4. PICK f : YieldsUpTo(f, lines, n-1)
  BY <1>2, <1>3
<1> DEFINE g == [i \in 0..n |->
                    IF i = n THEN Adds(f[n-1], lines[n]) ELSE f[i]]
<1>5. n \in Nat /\ n # 0
  BY <1>2, <1>3
<1>6. ASSUME NEW i \in 0..n
      PROVE  g[i] = IF i = 0 THEN <<>> ELSE Adds(g[i-1], lines[i])
  <2>1. CASE i = n
    BY <1>5, <2>1
  <2>2. CASE i # n
    <3>1. i \in 0..(n-1)
      BY <1>5, <2>2
    <3>2. f[i] = IF i = 0 THEN <<>> ELSE Adds(f[i-1], lines[i])
      BY <1>4, <3>1 DEF YieldsUpTo
    <3>3. g[i] = f[i] /\ (i # 0 => g[i-1] = f[i-1])
      BY <1>5, <2>2, <3>1
    <3> QED
      BY <3>2, <3>3
  <2> QED
    BY <2>1, <2>2
<1>7. YieldsUpTo(g, lines, n)
  BY <1>6 DEF YieldsUpTo
<1> QED
  BY <1>2, <1>7

\* Yielded is the last of those prefixes.
LEMMA YieldedUnfolds ==
  ASSUME NEW lines, Len(lines) \in Nat
  PROVE  \E f : YieldsUpTo(f, lines, Len(lines)) /\ Yielded(lines) = f[Len(lines)]
<1> DEFINE Def(g) == [n \in 0..Len(lines) |->
                         IF n = 0 THEN <<>> ELSE Adds(g[n-1], lines[n])]
           f == CHOOSE g : g = Def(g)
<1>1. PICK g : YieldsUpTo(g, lines, Len(lines))
  BY YieldsExist
<1> DEFINE h == [n \in 0..Len(lines) |-> g[n]]
<1>2. h = Def(h)
  <2>1. \A n \in 0..Len(lines) :
           h[n] = IF n = 0 THEN <<>> ELSE Adds(h[n-1], lines[n])
    BY <1>1 DEF YieldsUpTo
  <2> QED
    BY <2>1
<1>3. f = Def(f)
  <2> HIDE DEF h
  <2> QED
    BY <1>2, Zenon
<1>4. Yielded(lines) = f[Len(lines)]
  BY Zenon DEF Yielded, Adds
<1> HIDE DEF f
<1>5. YieldsUpTo(f, lines, Len(lines))
  BY <1>3 DEF YieldsUpTo
<1> QED
  BY <1>4, <1>5

\* A line more adds its piece, if it has one.
LEMMA YieldedAppend ==
  ASSUME NEW S, NEW lines \in Seq(S), NEW line \in S
  PROVE  Yielded(Append(lines, line)) = Adds(Yielded(lines), line)
<1> DEFINE more == Append(lines, line)
<1>1. /\ Len(lines) \in Nat /\ Len(more) = Len(lines) + 1
      /\ \A n \in 1..Len(lines) : more[n] = lines[n]
      /\ more[Len(more)] = line
  OBVIOUS
<1>2. PICK f : YieldsUpTo(f, lines, Len(lines)) /\ Yielded(lines) = f[Len(lines)]
  BY <1>1, YieldedUnfolds
<1> HIDE DEF more
<1>3. PICK g : YieldsUpTo(g, more, Len(more)) /\ Yielded(more) = g[Len(more)]
  BY <1>1, YieldedUnfolds
<1>4. \A n \in 0..Len(lines) : g[n] = f[n]
  <2> DEFINE Bad == {n \in 0..Len(lines) : g[n] # f[n]}
  <2>1. SUFFICES ASSUME Bad # {} PROVE FALSE
    OBVIOUS
  <2>2. PICK n \in Bad : \A m \in Bad : n <= m
    <3>1. Bad \in SUBSET Nat
      BY <1>1
    <3> QED
      BY <2>1, <3>1, LeastNatural
  <2>3. n \in 0..Len(lines) /\ n \in 0..Len(more)
    BY <1>1, <2>2
  <2>4. /\ f[n] = IF n = 0 THEN <<>> ELSE Adds(f[n-1], lines[n])
        /\ g[n] = IF n = 0 THEN <<>> ELSE Adds(g[n-1], more[n])
    BY <1>2, <1>3, <2>3 DEF YieldsUpTo
  <2>5. n # 0
    BY <2>2, <2>4
  <2>6. g[n-1] = f[n-1]
    <3>1. n-1 \in 0..Len(lines) /\ ~ (n <= n-1)
      BY <1>1, <2>3, <2>5
    <3> QED
      BY <2>2, <3>1
  <2>7. more[n] = lines[n]
    BY <1>1, <2>3, <2>5
  <2> QED
    BY <2>2, <2>4, <2>5, <2>6, <2>7
<1>5. /\ Len(more) \in 0..Len(more) /\ Len(more) # 0 /\ Len(more) - 1 = Len(lines)
      /\ Len(lines) \in 0..Len(lines)
  BY <1>1
<1>6. g[Len(more)] = Adds(g[Len(lines)], line)
  BY <1>1, <1>3, <1>5 DEF YieldsUpTo
<1> QED
  BY <1>2, <1>3, <1>4, <1>5, <1>6 DEF more

\* Nothing yields nothing.
LEMMA YieldedEmpty == Yielded(<<>>) = <<>>
<1>1. Len(<<>>) = 0
  OBVIOUS
<1>2. PICK f : YieldsUpTo(f, <<>>, Len(<<>>)) /\ Yielded(<<>>) = f[Len(<<>>)]
  BY <1>1, YieldedUnfolds
<1> QED
  BY <1>1, <1>2 DEF YieldsUpTo

---------------------------------------------------------------------------
(* AnswerStream: the invariant *)

Lines == [piece : Pieces, finish : Finishes \cup {"[DONE]"}]
Delivery == [attempt : {0, 1}, piece : Pieces]
Stages == {"rewrite", "stream", "persist", "record"} \cup Ended

StreamType ==
    /\ stage \in Stages
    /\ attempt \in {0, 1}
    /\ seen \in [content : BOOLEAN, finish : BOOLEAN, done : BOOLEAN]
    /\ sent \in Seq(Lines)
    /\ delivered \in Seq(Delivery)

\* As long as lines are read or an answer is kept, the client has what this
\* attempt yielded; the three flags say what is among the lines; nothing is
\* persisted before the whole answer is.
StreamInv ==
    /\ StreamType
    /\ \A n \in DOMAIN delivered : delivered[n].attempt = attempt
    /\ stage = "rewrite" => sent = <<>> /\ delivered = <<>> /\ seen = Unseen
    /\ stage \in {"rewrite", "stream", "persist", "error"} => persisted = NoAnswer
    /\ stage \in {"stream", "persist"} => Answer = Produced
    /\ stage = "stream" =>
         /\ ~seen.content => delivered = <<>>
         /\ seen.finish => \E n \in DOMAIN sent : sent[n].finish = "stop"
         /\ seen.done => sent # <<>> /\ Last(sent) = Terminator
    /\ stage = "persist" => Completed
    /\ stage \in {"record", "done"} => persisted = Answer
    /\ persisted # NoAnswer => persisted = Produced /\ Completed

\* What a step that receives nothing and delivers nothing leaves alone.
LEMMA StreamKeeps ==
  ASSUME UNCHANGED <<sent, delivered, persisted>>
  PROVE  Answer' = Answer /\ Produced' = Produced /\ Completed' = Completed
BY DEF Answer, Produced, Completed

\* A token more, of the same attempt, is one piece more of the answer.
LEMMA TokenAppended ==
  ASSUME NEW tokens \in Seq(Delivery), NEW token \in Delivery,
         \A n \in DOMAIN tokens : tokens[n].attempt = token.attempt
  PROVE  /\ Append(tokens, token) \in Seq(Delivery)
         /\ \A n \in DOMAIN Append(tokens, token) :
               Append(tokens, token)[n].attempt = token.attempt
         /\ [n \in DOMAIN Append(tokens, token) |-> Append(tokens, token)[n].piece]
               = Append([n \in DOMAIN tokens |-> tokens[n].piece], token.piece)
<1> DEFINE more == Append(tokens, token)
           read == [n \in DOMAIN tokens |-> tokens[n].piece]
<1>1. /\ more \in Seq(Delivery) /\ Len(tokens) \in Nat
      /\ DOMAIN tokens = 1..Len(tokens) /\ DOMAIN more = 1..(Len(tokens) + 1)
      /\ \A n \in 1..Len(tokens) : more[n] = tokens[n]
      /\ more[Len(tokens) + 1] = token
  BY Appended
<1>2. \A n \in 1..Len(tokens) : tokens[n].piece \in Pieces
  <2>1. \A n \in 1..Len(tokens) : tokens[n] \in Delivery
    OBVIOUS
  <2> QED
    BY <2>1 DEF Delivery
<1>3. token.piece \in Pieces
  BY DEF Delivery
<1>4. read \in Seq(Pieces) /\ Len(read) = Len(tokens)
  BY <1>1, <1>2
<1> HIDE DEF more
<1>5. ASSUME NEW n \in 1..(Len(tokens) + 1)
      PROVE  more[n].attempt = token.attempt
  <2>1. CASE n \in 1..Len(tokens)
    BY <1>1, <2>1
  <2>2. CASE n = Len(tokens) + 1
    BY <1>1, <2>2
  <2> QED
    BY <1>1, <2>1, <2>2
<1>6. read = [n \in 1..Len(tokens) |-> tokens[n].piece]
  BY <1>1
<1> HIDE DEF read
<1>7. /\ Append(read, token.piece) \in Seq(Pieces)
      /\ DOMAIN Append(read, token.piece) = 1..(Len(tokens) + 1)
      /\ \A n \in 1..Len(tokens) : Append(read, token.piece)[n] = tokens[n].piece
      /\ Append(read, token.piece)[Len(tokens) + 1] = token.piece
  BY <1>3, <1>4, <1>6, Appended
<1>8. ASSUME NEW n \in 1..(Len(tokens) + 1)
      PROVE  Append(read, token.piece)[n] = more[n].piece
  <2>1. CASE n \in 1..Len(tokens)
    BY <1>1, <1>7, <2>1
  <2>2. CASE n = Len(tokens) + 1
    BY <1>1, <1>7, <2>2
  <2>3. n \in 1..Len(tokens) \/ n = Len(tokens) + 1
    BY <1>1
  <2> QED
    BY <2>1, <2>2, <2>3
<1>9. Append(read, token.piece) = [n \in 1..(Len(tokens) + 1) |-> more[n].piece]
  BY <1>7, <1>8
<1> QED
  BY <1>1, <1>5, <1>9 DEF more, read

\* A piece is delivered to the client just if it is among what was produced.
LEMMA EventKeepsInv ==
  ASSUME StreamInv, NEW piece \in Pieces, NEW finish \in Finishes, Event(piece, finish)
  PROVE  StreamInv'
<1>1. PICK line \in Lines : line = [piece |-> piece, finish |-> finish]
  BY DEF Lines
<1>2. /\ stage = "stream" /\ sent' = Append(sent, line)
      /\ UNCHANGED <<attempt, persisted>> /\ persisted = NoAnswer
      /\ line.piece = piece /\ line.finish = finish
  BY <1>1 DEF Event, Receives, StreamInv
<1>3. sent \in Seq(Lines) /\ delivered \in Seq(Delivery)
  BY DEF StreamInv, StreamType
<1>4. /\ sent' \in Seq(Lines) /\ Len(sent) \in Nat
      /\ DOMAIN sent' = 1..(Len(sent) + 1) /\ DOMAIN sent = 1..Len(sent)
      /\ \A n \in 1..Len(sent) : sent'[n] = sent[n]
      /\ sent'[Len(sent) + 1] = line
  BY <1>2, <1>3, Appended
<1>5. CASE seen.done
  <2>1. stage' = "error" /\ UNCHANGED <<seen, delivered>>
    BY <1>5 DEF Event
  <2> QED
    BY <1>2, <1>4, <2>1 DEF StreamInv, StreamType, Stages, Ended
<1>6. CASE ~seen.done
  <2>1. PICK token \in Delivery : token = [attempt |-> attempt, piece |-> piece]
    BY DEF StreamInv, StreamType, Delivery
  <2>2. /\ delivered' = IF piece = "" THEN delivered ELSE Append(delivered, token)
        /\ stage' = IF finish # "none" /\ (seen.finish \/ finish = "other")
                    THEN "error" ELSE stage
        /\ seen' = [seen EXCEPT !.content = @ \/ piece # "",
                                !.finish = @ \/ finish # "none"]
    BY <1>6, <2>1 DEF Event
  <2>3. PICK content \in BOOLEAN, over \in BOOLEAN :
           content = (seen.content \/ piece # "") /\ over = (seen.finish \/ finish # "none")
    OBVIOUS
  <2>4. seen' = [seen EXCEPT !.content = content, !.finish = over]
    BY <2>2, <2>3
  <2>5. /\ seen' \in [content : BOOLEAN, finish : BOOLEAN, done : BOOLEAN]
        /\ seen'.content = content /\ seen'.finish = over /\ seen'.done = seen.done
    BY <2>4 DEF StreamInv, StreamType
  <2>6. token.attempt = attempt /\ token.piece = piece
    BY <2>1
  <2>7. ASSUME piece # ""
        PROVE  /\ delivered' \in Seq(Delivery)
               /\ \A n \in DOMAIN delivered' : delivered'[n].attempt = attempt
               /\ Answer' = Append(Answer, piece)
    <3>1. delivered' = Append(delivered, token)
      BY <2>2, <2>7
    <3>2. \A n \in DOMAIN delivered : delivered[n].attempt = token.attempt
      BY <2>6 DEF StreamInv
    <3> QED
      BY <1>3, <2>6, <3>1, <3>2, TokenAppended DEF Answer
  <2>8. delivered' \in Seq(Delivery)
    BY <1>3, <2>2, <2>7
  <2>9. \A n \in DOMAIN delivered' : delivered'[n].attempt = attempt
    BY <2>2, <2>7 DEF StreamInv
  <2>10. Answer' = Adds(Answer, line)
    BY <1>2, <2>2, <2>7 DEF Answer, Adds
  <2>11. Answer' = Produced'
    <3>1. Answer = Yielded(sent)
      BY <1>2 DEF StreamInv, Produced
    <3> QED
      BY <1>2, <1>3, <2>10, <3>1, YieldedAppend DEF Produced
  <2>12. ASSUME stage' = "stream"
         PROVE  /\ ~seen'.content => delivered' = <<>>
                /\ seen'.finish => \E n \in DOMAIN sent' : sent'[n].finish = "stop"
                /\ ~seen'.done
    <3>1. ~seen'.content => delivered' = <<>>
      BY <1>2, <2>2, <2>3, <2>5 DEF StreamInv
    <3>2. CASE finish = "none"
      <4>1. seen.finish => \E n \in DOMAIN sent : sent[n].finish = "stop"
        BY <1>2 DEF StreamInv
      <4>2. seen'.finish = seen.finish /\ ~seen'.done
        BY <1>6, <2>2, <3>2 DEF StreamInv, StreamType
      <4> QED
        BY <1>4, <3>1, <4>1, <4>2
    <3>3. CASE finish # "none"
      <4>1. finish = "stop" /\ Len(sent) + 1 \in DOMAIN sent'
        <5>1. ~(finish = "other") /\ finish \in Finishes
          BY <1>2, <2>2, <2>12, <3>3
        <5> QED
          BY <1>4, <3>3, <5>1 DEF Finishes
      <4> QED
        BY <1>2, <1>4, <1>6, <2>5, <3>1, <4>1
    <3> QED
      BY <3>2, <3>3
  <2>13. stage' \in {"stream", "error"}
    BY <1>2, <2>2
  <2> QED
    BY <1>2, <1>4, <2>5, <2>8, <2>9, <2>11, <2>12, <2>13
       DEF StreamInv, StreamType, Stages, Ended
<1> QED
  BY <1>5, <1>6

\* The terminator yields nothing, and is the last line of a complete answer.
LEMMA TerminatesKeepsInv ==
  ASSUME StreamInv, Terminates
  PROVE  StreamInv'
<1>1. PICK line \in Lines : line = Terminator
  BY DEF Lines, Terminator, Pieces
<1>2. /\ stage = "stream" /\ sent' = Append(sent, line)
      /\ UNCHANGED <<attempt, delivered, persisted>> /\ persisted = NoAnswer
      /\ stage' = IF seen.done THEN "error" ELSE stage
      /\ seen' = [seen EXCEPT !.done = TRUE]
  BY <1>1 DEF Terminates, Receives, StreamInv
<1>3. /\ seen' \in [content : BOOLEAN, finish : BOOLEAN, done : BOOLEAN]
      /\ seen'.content = seen.content /\ seen'.finish = seen.finish
  BY <1>2 DEF StreamInv, StreamType
<1>4. /\ sent \in Seq(Lines) /\ sent' \in Seq(Lines) /\ Len(sent) \in Nat
      /\ DOMAIN sent' = 1..(Len(sent) + 1) /\ DOMAIN sent = 1..Len(sent)
      /\ \A n \in 1..Len(sent) : sent'[n] = sent[n]
      /\ sent'[Len(sent) + 1] = line /\ Len(sent') = Len(sent) + 1 /\ sent' # <<>>
  <2>1. sent \in Seq(Lines)
    BY DEF StreamInv, StreamType
  <2> QED
    BY <1>2, <2>1, Appended
<1>5. Answer' = Answer /\ Produced' = Produced
  <2>1. line.piece = ""
    BY <1>1 DEF Terminator
  <2>2. Adds(Yielded(sent), line) = Yielded(sent)
    BY <2>1 DEF Adds
  <2> QED
    BY <1>2, <1>4, <2>2, YieldedAppend DEF Answer, Produced
<1>6. Last(sent') = Terminator
  BY <1>1, <1>4 DEF Last
<1> QED
  BY <1>2, <1>3, <1>4, <1>5, <1>6 DEF StreamInv, StreamType, Stages, Ended

\* The stream of an answer keeps its invariant.
LEMMA StreamKeepsInv ==
  ASSUME StreamInv, [StreamNext]_streamVars
  PROVE  StreamInv'
<1>1. ASSUME NEW piece \in Pieces, NEW finish \in Finishes, Event(piece, finish)
      PROVE  StreamInv'
  BY <1>1, EventKeepsInv
<1>2. CASE Terminates
  BY <1>2, TerminatesKeepsInv
<1>3. CASE Rewritten
  <2>1. Answer = <<>> /\ Produced = <<>>
    BY <1>3, YieldedEmpty DEF Rewritten, StreamInv, Answer, Produced
  <2> QED
    BY <1>3, <2>1, StreamKeeps
       DEF Rewritten, StreamInv, StreamType, Stages, Ended, Unseen
<1>4. ASSUME NEW again \in BOOLEAN, RewriteFails(again)
      PROVE  StreamInv'
  <2>1. /\ stage = "rewrite" /\ stage' \in {"rewrite", "error"} /\ attempt' \in {0, 1}
        /\ UNCHANGED <<seen, sent, delivered, persisted>>
    BY <1>4 DEF RewriteFails, StreamInv, StreamType
  <2> QED
    BY <2>1, StreamKeeps DEF StreamInv, StreamType, Stages, Ended
<1>5. CASE Malformed
  BY <1>5, StreamKeeps DEF Malformed, StreamInv, StreamType, Stages, Ended
<1>6. ASSUME NEW transient \in BOOLEAN, TransportFails(transient)
      PROVE  StreamInv'
  <2>1. CASE transient /\ MayRetry
    <3>1. /\ stage' = "stream" /\ attempt' = 1 /\ seen' = Unseen /\ sent' = <<>>
          /\ delivered = <<>> /\ UNCHANGED <<delivered, persisted>> /\ persisted = NoAnswer
      BY <1>6, <2>1 DEF TransportFails, MayRetry, StreamInv
    <3>2. Answer' = <<>> /\ Produced' = <<>>
      BY <3>1, YieldedEmpty DEF Answer, Produced
    <3> QED
      BY <3>1, <3>2 DEF StreamInv, StreamType, Stages, Ended, Unseen
  <2>2. CASE ~(transient /\ MayRetry)
    BY <1>6, <2>2, StreamKeeps DEF TransportFails, StreamInv, StreamType, Stages, Ended
  <2> QED
    BY <2>1, <2>2
<1>7. CASE ResponseEnds
  <2>1. stage' = "persist" => Completed
    BY <1>7 DEF ResponseEnds, StreamInv, Completed
  <2> QED
    BY <1>7, <2>1, StreamKeeps DEF ResponseEnds, StreamInv, StreamType, Stages, Ended
<1>8. ASSUME NEW accepted \in BOOLEAN, Persist(accepted)
      PROVE  StreamInv'
  <2>1. Answer' = Answer /\ Produced' = Produced /\ Completed' = Completed
    BY <1>8 DEF Persist, Answer, Produced, Completed
  <2> QED
    BY <1>8, <2>1 DEF Persist, StreamInv, StreamType, Stages, Ended
<1>9. CASE RecordAnswer
  BY <1>9, StreamKeeps DEF RecordAnswer, StreamInv, StreamType, Stages, Ended
<1>10. CASE Leave
  BY <1>10, StreamKeeps DEF Leave, StreamInv, StreamType, Stages, Ended
<1>11. CASE UNCHANGED streamVars
  BY <1>11, StreamKeeps DEF streamVars, StreamInv, StreamType
<1> QED
  BY <1>1, <1>2, <1>3, <1>4, <1>5, <1>6, <1>7, <1>8, <1>9, <1>10, <1>11 DEF StreamNext

\* Before the first line there is nothing to read.
LEMMA StreamStarts == StreamInit => StreamInv
<1> SUFFICES ASSUME StreamInit PROVE StreamInv
  OBVIOUS
<1> QED
  BY DEF StreamInit, StreamInv, StreamType, Stages, Ended, Unseen

\* What the invariant says of an answer that was persisted, or not.
LEMMA WholeWhenTold == StreamInv => AnswerWhole
BY DEF StreamInv, AnswerWhole

\* What is read as one answer and persisted as it is what one attempt produced,
\* in full (sglang_qwen_llm.py:477-494, pipeline.py:213-249), however many lines
\* the server sends.
THEOREM AnswerAlwaysWhole == StreamSpec => []AnswerWhole
<1> QED
  BY WholeWhenTold, StreamStarts, StreamKeepsInv, PTL DEF StreamSpec

---------------------------------------------------------------------------
(* UserCollections: tenants and their collections *)

\* The next collection of a loop is one of it.
LEMMA MinChosen ==
  ASSUME NEW S \in SUBSET Nat, S # {}
  PROVE  Min(S) \in S
BY LeastNatural DEF Min

\* A tenant's collections are three of all.
LEMMA TenantOwns ==
  ASSUME NEW u \in Tenants
  PROVE  /\ TenantCollections(u) \subseteq AllCollections
         /\ \A k \in InsertedKinds : 3 * u - 2 + k \in TenantCollections(u)
BY CollectionsAssumption DEF Tenants, TenantCollections, AllCollections

AreReady(S) == \A c \in S : profile[c] = "ready"

EnsureRecords == [tenant : Tenants \cup {0}, step : {"none", "look", "check", "create", "serve"},
             todo : SUBSET AllCollections, found : SUBSET AllCollections]
Profiles == [AllCollections -> {"none", "old", "rebuilding", "ready"}]

CollectionsType ==
    /\ profile \in Profiles
    /\ objects \subseteq AllCollections
    /\ validated \subseteq Tenants
    /\ manifest \subseteq Tenants
    /\ restarted \in BOOLEAN
    /\ ensuring \in [RequestThreads -> EnsureRecords]
    /\ rebuild \in [step : {"none", "mark", "delete", "create", "ready"},
                    todo : SUBSET AllCollections]

\* A request has seen ready what its loops have behind them.
RequestSees(r) ==
    LET own == TenantCollections(r.tenant)
    IN /\ r.tenant \in Tenants
       /\ r.step \in {"look", "check", "create", "serve"}
       /\ r.todo \subseteq own /\ r.found \subseteq own
       /\ r.step = "check" => r.todo \subseteq r.found /\ AreReady(r.found \ r.todo)
       /\ r.step = "create" => AreReady(own \ r.todo)
       /\ r.step = "serve" => AreReady(own)

\* Requests run and tenants are validated in a running backend only, and the
\* rebuild runs without one.  A rebuild has no object to lose, and neither has
\* the storage that was exported as long as no backend has run since.
CollectionsInv ==
    /\ CollectionsType
    /\ \A t \in RequestThreads : ensuring[t] # NoRequest => api /\ RequestSees(ensuring[t])
    /\ \A u \in validated : api /\ AreReady(TenantCollections(u))
    /\ objects \subseteq Existing /\ written \subseteq objects
    /\ rebuild # NoRebuild => ~api /\ objects = {} /\ rebuild.todo \subseteq ManifestCollections
    /\ manifest # {} /\ ~restarted =>
         ~api /\ objects = {} /\ Existing \subseteq ManifestCollections

\* In a running backend a request is moved on to what it has seen, and at most
\* one missing collection is made ready.
RequestMoves(t) ==
    /\ api /\ \E r : /\ ensuring' = [ensuring EXCEPT ![t] = r]
                     /\ r \in EnsureRecords
                     /\ r # NoRequest => RequestSees(r)'
    /\ \A c \in AllCollections : profile[c] = "ready" => profile'[c] = "ready"
    /\ Existing \subseteq Existing'
    /\ profile' \in Profiles
    /\ UNCHANGED <<api, manifest, restarted, rebuild>>

\* What was ready stays so while requests run.
LEMMA MovesKeepReady ==
  ASSUME CollectionsInv, \A c \in AllCollections : profile[c] = "ready" => profile'[c] = "ready",
         NEW r, r # NoRequest => RequestSees(r)
  PROVE  r # NoRequest => RequestSees(r)'
<1> SUFFICES ASSUME RequestSees(r) PROVE RequestSees(r)'
  OBVIOUS
<1>1. TenantCollections(r.tenant) \subseteq AllCollections /\ r.found \subseteq AllCollections
  BY TenantOwns DEF RequestSees
<1> QED
  BY <1>1 DEF RequestSees, AreReady

\* A request that is moved on disturbs nobody else.
LEMMA MovesKeepInv ==
  ASSUME CollectionsInv, NEW t \in RequestThreads, RequestMoves(t),
         objects' \subseteq Existing' /\ objects' \subseteq AllCollections /\ written' \subseteq objects',
         validated' \subseteq Tenants,
         \A u \in validated' : u \in validated \/ AreReady(TenantCollections(u))'
  PROVE  CollectionsInv'
<1>1. PICK r : /\ ensuring' = [ensuring EXCEPT ![t] = r]
               /\ r \in EnsureRecords
               /\ r # NoRequest => RequestSees(r)'
  BY DEF RequestMoves
<1>2. CollectionsType'
  BY <1>1 DEF CollectionsInv, CollectionsType, RequestMoves
<1>3. ASSUME NEW x \in RequestThreads
      PROVE  ensuring'[x] # NoRequest => api' /\ RequestSees(ensuring[x])'
  <2>1. CASE x = t
    <3>1. ensuring'[x] = r
      BY <1>1, <2>1 DEF CollectionsInv, CollectionsType
    <3> QED
      BY <1>1, <3>1 DEF RequestMoves, RequestSees, AreReady
  <2>2. CASE x # t
    <3>1. PICK s : s = ensuring[x]
      OBVIOUS
    <3>2. ensuring'[x] = s
      BY <1>1, <2>2, <3>1 DEF CollectionsInv, CollectionsType
    <3>3. s # NoRequest => RequestSees(s)'
      BY <3>1, MovesKeepReady DEF CollectionsInv, RequestMoves
    <3> QED
      BY <3>2, <3>3 DEF RequestMoves, RequestSees, AreReady
  <2> QED
    BY <2>1, <2>2
<1>4. ASSUME NEW u \in validated'
      PROVE  api' /\ AreReady(TenantCollections(u))'
  <2>1. CASE u \in validated
    <3>1. TenantCollections(u) \subseteq AllCollections /\ AreReady(TenantCollections(u))
      BY <2>1, TenantOwns DEF CollectionsInv, CollectionsType
    <3> QED
      BY <3>1 DEF RequestMoves, AreReady
  <2>2. CASE u \notin validated
    BY <2>2 DEF RequestMoves
  <2> QED
    BY <2>1, <2>2
<1>5. rebuild' = NoRebuild /\ ~(manifest' # {} /\ ~restarted')
  BY DEF RequestMoves, CollectionsInv
<1> QED
  BY <1>2, <1>3, <1>4, <1>5 DEF CollectionsInv

Request(u, s, todo, found) == [tenant |-> u, step |-> s, todo |-> todo, found |-> found]

\* Requests with the same fields are the same.
LEMMA SameRequest ==
  /\ \A r, q \in EnsureRecords :
        r.tenant = q.tenant /\ r.step = q.step /\ r.todo = q.todo /\ r.found = q.found => r = q
  /\ \A u \in Tenants, s \in {"look", "check", "create", "serve"},
        todo, found \in SUBSET AllCollections :
        /\ Request(u, s, todo, found) \in EnsureRecords
        /\ Request(u, s, todo, found).tenant = u /\ Request(u, s, todo, found).step = s
        /\ Request(u, s, todo, found).todo = todo /\ Request(u, s, todo, found).found = found
BY DEF EnsureRecords, Request

\* Where a request is when its loop has done one collection.
LEMMA NextOf ==
  ASSUME NEW u \in Tenants, NEW s \in {"look", "check", "create"},
         NEW todo \in SUBSET AllCollections, NEW found \in SUBSET AllCollections
  PROVE  /\ todo # {} => NextCollection(Request(u, s, todo, found)) = Request(u, s, todo, found)
         /\ todo = {} /\ s = "look" /\ found # {} =>
              NextCollection(Request(u, s, todo, found)) = Request(u, "check", found, found)
         /\ todo = {} /\ (s # "look" \/ found = {}) =>
              NextCollection(Request(u, s, todo, found))
                 = Request(u, "create", TenantCollections(u) \ found, found)
<1>1. PICK r \in EnsureRecords : r = Request(u, s, todo, found)
  BY SameRequest
<1>2. r.tenant = u /\ r.step = s /\ r.todo = todo /\ r.found = found
  BY <1>1, SameRequest
<1>3. ASSUME NEW x \in {"check", "create"}, NEW y \in SUBSET AllCollections
      PROVE  [r EXCEPT !.step = x, !.todo = y] = Request(u, x, y, found)
  <2>1. PICK q : q = [r EXCEPT !.step = x, !.todo = y]
    OBVIOUS
  <2>2. /\ q \in EnsureRecords
        /\ q.tenant = r.tenant /\ q.step = x /\ q.todo = y /\ q.found = r.found
    BY <2>1 DEF EnsureRecords
  <2>3. PICK p : p = Request(u, x, y, found)
    OBVIOUS
  <2>4. /\ p \in EnsureRecords
        /\ p.tenant = u /\ p.step = x /\ p.todo = y /\ p.found = found
    BY <2>3, SameRequest
  <2>5. q = p
    BY <1>2, <2>2, <2>4, SameRequest
  <2> QED
    BY <2>1, <2>3, <2>5
<1>4. TenantCollections(u) \in SUBSET AllCollections
  BY TenantOwns
<1>5. CASE todo # {}
  <2>1. NextCollection(r) = r
    BY <1>2, <1>5 DEF NextCollection
  <2> QED
    BY <1>1, <1>5, <2>1
<1>6. CASE todo = {} /\ s = "look" /\ found # {}
  <2>1. NextCollection(r) = [r EXCEPT !.step = "check", !.todo = r.found]
    BY <1>2, <1>6 DEF NextCollection
  <2> QED
    BY <1>1, <1>2, <1>3, <1>6, <2>1
<1>7. CASE todo = {} /\ (s # "look" \/ found = {})
  <2>1. NextCollection(r)
           = [r EXCEPT !.step = "create", !.todo = TenantCollections(r.tenant) \ r.found]
    BY <1>2, <1>7 DEF NextCollection
  <2>2. TenantCollections(u) \ found \in SUBSET AllCollections
    BY <1>4
  <2>3. [r EXCEPT !.step = "create", !.todo = TenantCollections(u) \ found]
           = Request(u, "create", TenantCollections(u) \ found, found)
    BY <1>3, <2>2
  <2> QED
    BY <1>1, <1>2, <1>7, <2>1, <2>3
<1> QED
  BY <1>5, <1>6, <1>7

\* The request that a loop moves on, field by field.
LEMMA LoopRequest ==
  ASSUME CollectionsInv, NEW t \in RequestThreads, ensuring[t] # NoRequest
  PROVE  \E u \in Tenants, s \in {"look", "check", "create", "serve"},
            todo \in SUBSET AllCollections, found \in SUBSET AllCollections :
            /\ ensuring[t] = Request(u, s, todo, found)
            /\ api
            /\ todo \subseteq TenantCollections(u) /\ found \subseteq TenantCollections(u)
            /\ s = "check" => todo \subseteq found /\ AreReady(found \ todo)
            /\ s = "create" => AreReady(TenantCollections(u) \ todo)
            /\ s = "serve" => AreReady(TenantCollections(u))
            /\ todo # {} => At(t) \in todo
<1>1. ensuring[t] \in EnsureRecords
  BY DEF CollectionsInv, CollectionsType
<1>2. PICK r \in EnsureRecords : r = ensuring[t]
  BY <1>1
<1>0. /\ r = Request(r.tenant, r.step, r.todo, r.found)
      /\ r.todo \in SUBSET AllCollections /\ r.found \in SUBSET AllCollections
  BY DEF EnsureRecords, Request
<1>3. api /\ RequestSees(ensuring[t])
  BY DEF CollectionsInv
<1>4. r.todo # {} => At(t) \in r.todo
  <2>1. r.todo \in SUBSET Nat
    BY <1>0, CollectionsAssumption DEF AllCollections
  <2> QED
    BY <1>2, <2>1, MinChosen DEF At
<1>5. r.tenant \in Tenants /\ r.step \in {"look", "check", "create", "serve"}
  BY <1>2, <1>3 DEF RequestSees
<1> QED
  BY <1>0, <1>2, <1>3, <1>4, <1>5, ZenonT(40) DEF RequestSees

\* The loops of a request move it on.
LEMMA LoopsKeepInv ==
  ASSUME CollectionsInv, NEW t \in RequestThreads,
         LookUp(t) \/ Validate(t) \/ EnsureRaises(t)
  PROVE  CollectionsInv'
<1>1. ensuring[t].step \in {"look", "check", "create"} /\ ensuring[t].todo # {}
  BY DEF LookUp, Validate, EnsureRaises, Loop
<1>2. ensuring[t] # NoRequest
  BY <1>1 DEF NoRequest
<1>3. PICK u \in Tenants, s \in {"look", "check", "create", "serve"},
           todo \in SUBSET AllCollections, found \in SUBSET AllCollections :
            /\ ensuring[t] = Request(u, s, todo, found)
            /\ api
            /\ todo \subseteq TenantCollections(u) /\ found \subseteq TenantCollections(u)
            /\ s = "check" => todo \subseteq found /\ AreReady(found \ todo)
            /\ s = "create" => AreReady(TenantCollections(u) \ todo)
            /\ s = "serve" => AreReady(TenantCollections(u))
            /\ todo # {} => At(t) \in todo
  BY <1>2, LoopRequest
<1>4. UNCHANGED <<storeVars, api, validated, manifest, restarted, rebuild>>
  BY DEF LookUp, Validate, EnsureRaises
<1>5. TenantCollections(u) \in SUBSET AllCollections
  BY TenantOwns
<1>6. \E r \in EnsureRecords : /\ ensuring' = [ensuring EXCEPT ![t] = r]
                               /\ r # NoRequest => RequestSees(r)'
  <2>1. CASE EnsureRaises(t)
    <3>1. NoRequest \in EnsureRecords
      BY DEF NoRequest, EnsureRecords
    <3> QED
      BY <2>1, <3>1 DEF EnsureRaises, SetRequest
  <2>2. CASE LookUp(t)
    <3>1. s = "look" /\ todo # {} /\ At(t) \in todo
      BY <1>3, <2>2 DEF LookUp, Loop, Request
    <3>2. PICK c \in todo : c = At(t)
      BY <3>1
    <3>3. PICK rest \in SUBSET TenantCollections(u) : rest = todo \ {c}
      BY <1>3
    <3>4. PICK known \in SUBSET TenantCollections(u) : known = found \cup ({c} \cap Existing)
      BY <1>3, <3>2
    <3>5. [ensuring[t] EXCEPT !.todo = @ \ {At(t)}, !.found = @ \cup ({At(t)} \cap Existing)]
             = Request(u, "look", rest, known)
      <4>1. PICK r \in EnsureRecords : r = ensuring[t]
        BY <1>3, SameRequest
      <4>2. r.tenant = u /\ r.step = "look" /\ r.todo = todo /\ r.found = found
        BY <1>3, <3>1, <4>1, SameRequest
      <4>3. PICK q : q = [r EXCEPT !.todo = rest, !.found = known]
        OBVIOUS
      <4>4. /\ q \in EnsureRecords
            /\ q.tenant = r.tenant /\ q.step = r.step /\ q.todo = rest /\ q.found = known
        BY <1>5, <4>3 DEF EnsureRecords
      <4>5. rest \in SUBSET AllCollections /\ known \in SUBSET AllCollections
        BY <1>5
      <4>6. q = Request(u, "look", rest, known)
        BY <4>2, <4>4, <4>5, SameRequest
      <4> QED
        BY <3>2, <3>3, <3>4, <4>1, <4>2, <4>3, <4>6
    <3>6. ensuring' = [ensuring EXCEPT ![t] = NextCollection(Request(u, "look", rest, known))]
      BY <2>2, <3>5 DEF LookUp, SetRequest
    <3>7. \/ NextCollection(Request(u, "look", rest, known)) = Request(u, "look", rest, known)
          \/ NextCollection(Request(u, "look", rest, known)) = Request(u, "check", known, known)
          \/ NextCollection(Request(u, "look", rest, known))
                = Request(u, "create", TenantCollections(u), known)
      <4>1. known = {} => TenantCollections(u) \ known = TenantCollections(u)
        OBVIOUS
      <4>2. rest \in SUBSET AllCollections /\ known \in SUBSET AllCollections
        BY <1>5
      <4>3. /\ rest # {} => NextCollection(Request(u, "look", rest, known))
                             = Request(u, "look", rest, known)
            /\ rest = {} /\ known # {} => NextCollection(Request(u, "look", rest, known))
                                          = Request(u, "check", known, known)
            /\ rest = {} /\ known = {} => NextCollection(Request(u, "look", rest, known))
                                  = Request(u, "create", TenantCollections(u) \ known, known)
        BY <4>2, NextOf
      <4> QED
        BY <4>1, <4>3
    <3>8. /\ RequestSees(Request(u, "look", rest, known))'
          /\ RequestSees(Request(u, "check", known, known))'
          /\ RequestSees(Request(u, "create", TenantCollections(u), known))'
      BY DEF RequestSees, AreReady, Request
    <3>9. /\ Request(u, "look", rest, known) \in EnsureRecords
          /\ Request(u, "check", known, known) \in EnsureRecords
          /\ Request(u, "create", TenantCollections(u), known) \in EnsureRecords
      BY <1>5 DEF EnsureRecords, Request
    <3> QED
      BY <3>6, <3>7, <3>8, <3>9
  <2>3. CASE Validate(t)
    <3>1. s = "check" /\ todo # {} /\ At(t) \in todo
      BY <1>3, <2>3 DEF Validate, Loop, Request
    <3>2. CASE ~ProfileFits(At(t))
      <4>1. NoRequest \in EnsureRecords
        BY DEF NoRequest, EnsureRecords
      <4> QED
        BY <2>3, <3>2, <4>1 DEF Validate, SetRequest
    <3>3. CASE ProfileFits(At(t))
      <4>1. PICK c \in todo : c = At(t) /\ profile[c] = "ready"
        BY <3>1, <3>3 DEF ProfileFits
      <4>2. PICK rest \in SUBSET AllCollections :
               rest = todo \ {c} /\ AreReady(found \ rest) /\ rest \subseteq found
        BY <1>3, <3>1, <4>1 DEF AreReady
      <4>3. [ensuring[t] EXCEPT !.todo = @ \ {At(t)}] = Request(u, "check", rest, found)
        BY <1>3, <3>1, <4>1, <4>2 DEF Request
      <4>4. ensuring' = [ensuring EXCEPT ![t] = NextCollection(Request(u, "check", rest, found))]
        BY <2>3, <3>3, <4>3 DEF Validate, SetRequest, Continue
      <4>5. \/ NextCollection(Request(u, "check", rest, found)) = Request(u, "check", rest, found)
            \/ /\ rest = {}
               /\ NextCollection(Request(u, "check", rest, found))
                     = Request(u, "create", TenantCollections(u) \ found, found)
        BY NextOf
      <4>6. RequestSees(Request(u, "check", rest, found))'
        BY <1>3, <1>4, <4>2 DEF RequestSees, AreReady, storeVars, Request
      <4>7. rest = {} => RequestSees(Request(u, "create", TenantCollections(u) \ found, found))'
        BY <1>3, <1>4, <4>2 DEF RequestSees, AreReady, storeVars, Request
      <4>8. /\ Request(u, "check", rest, found) \in EnsureRecords
            /\ Request(u, "create", TenantCollections(u) \ found, found) \in EnsureRecords
        BY <1>5 DEF EnsureRecords, Request
      <4> QED
        BY <4>4, <4>5, <4>6, <4>7, <4>8
    <3> QED
      BY <3>2, <3>3
  <2> QED
    BY <2>1, <2>2, <2>3
<1>7. RequestMoves(t)
  BY <1>3, <1>4, <1>6 DEF RequestMoves, CollectionsInv, CollectionsType, storeVars, Existing
<1> QED
  BY <1>4, <1>7, MovesKeepInv DEF CollectionsInv, CollectionsType, storeVars, Existing

\* A request begins, creates what is missing, and serves.
LEMMA RequestKeepsInv ==
  ASSUME CollectionsInv, NEW t \in RequestThreads, NEW u \in Tenants,
         Ensure(t, u) \/ CreateMissing(t) \/ Remember(t) \/ Serve(t)
  PROVE  CollectionsInv'
<1>1. CASE Ensure(t, u)
  <2>1. /\ api /\ UNCHANGED <<storeVars, api, validated, manifest, restarted, rebuild>>
        /\ ensuring' = [ensuring EXCEPT ![t] =
             IF u \in validated THEN Request(u, "serve", {}, {})
             ELSE Request(u, "look", TenantCollections(u), {})]
    BY <1>1 DEF Ensure, SetRequest, Request
  <2>2. TenantCollections(u) \in SUBSET AllCollections
    BY TenantOwns
  <2>3. /\ Request(u, "serve", {}, {}) \in EnsureRecords
        /\ Request(u, "look", TenantCollections(u), {}) \in EnsureRecords
    BY <2>2, SameRequest
  <2>4. RequestSees(Request(u, "look", TenantCollections(u), {}))'
    BY DEF RequestSees, Request, AreReady
  <2>5. u \in validated => RequestSees(Request(u, "serve", {}, {}))'
    BY <2>1 DEF RequestSees, Request, AreReady, CollectionsInv, storeVars
  <2>6. RequestMoves(t)
    BY <2>1, <2>3, <2>4, <2>5
       DEF RequestMoves, CollectionsInv, CollectionsType, storeVars, Existing
  <2> QED
    BY <2>1, <2>6, MovesKeepInv DEF CollectionsInv, CollectionsType, storeVars, Existing
<1>2. CASE CreateMissing(t) \/ Remember(t) \/ Serve(t)
  <2>1. ensuring[t] # NoRequest
    BY <1>2 DEF CreateMissing, Remember, Serve, Loop, NoRequest
  <2>2. PICK v \in Tenants, s \in {"look", "check", "create", "serve"},
           todo \in SUBSET AllCollections, found \in SUBSET AllCollections :
            /\ ensuring[t] = Request(v, s, todo, found)
            /\ api
            /\ todo \subseteq TenantCollections(v) /\ found \subseteq TenantCollections(v)
            /\ s = "check" => todo \subseteq found /\ AreReady(found \ todo)
            /\ s = "create" => AreReady(TenantCollections(v) \ todo)
            /\ s = "serve" => AreReady(TenantCollections(v))
            /\ todo # {} => At(t) \in todo
    BY <2>1, LoopRequest
  <2>3. /\ ensuring[t].step = s /\ ensuring[t].todo = todo /\ ensuring[t].tenant = v
        /\ ensuring[t].found = found
    BY <2>2, SameRequest
  <2>4. TenantCollections(v) \in SUBSET AllCollections
    BY TenantOwns
  <2>5. NoRequest \in EnsureRecords
    BY DEF NoRequest, EnsureRecords
  <2>6. CASE CreateMissing(t)
    <3>1. /\ s = "create" /\ todo # {}
          /\ UNCHANGED <<objects, written, api, validated, manifest, restarted, rebuild>>
      BY <2>3, <2>6 DEF CreateMissing, Loop
    <3>2. PICK c \in todo : c = At(t)
      BY <2>2, <3>1
    <3>3. PICK rest \in SUBSET AllCollections : rest = todo \ {c}
      OBVIOUS
    <3>4. Created(t) = Request(v, "create", rest, found)
      BY <2>2, <3>1, <3>2, <3>3 DEF Created, Request
    <3>5. CASE c \in Existing
      <4>1. ensuring' = [ensuring EXCEPT ![t] = NoRequest] /\ UNCHANGED profile
        BY <2>6, <3>2, <3>5 DEF CreateMissing, SetRequest
      <4>2. RequestMoves(t)
        BY <2>2, <2>5, <3>1, <4>1 DEF RequestMoves, CollectionsInv, CollectionsType, Existing
      <4> QED
        BY <3>1, <4>1, <4>2, MovesKeepInv DEF CollectionsInv, CollectionsType, Existing
    <3>6. CASE c \notin Existing
      <4>1. /\ profile' = [profile EXCEPT ![c] = "ready"]
            /\ \/ ensuring' = [ensuring EXCEPT ![t] = Request(v, "create", rest, found)]
               \/ ensuring' = [ensuring EXCEPT ![t] = NoRequest]
        BY <2>6, <3>2, <3>4, <3>6 DEF CreateMissing, SetRequest
      <4>2. /\ \A x \in AllCollections : profile'[x] = IF x = c THEN "ready" ELSE profile[x]
            /\ profile' \in Profiles
        BY <4>1 DEF CollectionsInv, CollectionsType, Profiles
      <4>3. Existing \subseteq Existing'
        BY <4>2 DEF Existing
      <4>4. RequestSees(Request(v, "create", rest, found))'
        <5>1. AreReady(TenantCollections(v) \ rest)'
          BY <2>2, <2>4, <3>1, <3>3, <4>2 DEF AreReady
        <5> QED
          BY <2>2, <3>3, <5>1 DEF RequestSees, Request
      <4>5. Request(v, "create", rest, found) \in EnsureRecords
        BY SameRequest
      <4>6. RequestMoves(t)
        BY <2>2, <2>5, <3>1, <4>1, <4>2, <4>3, <4>4, <4>5 DEF RequestMoves
      <4> QED
        BY <3>1, <4>3, <4>6, MovesKeepInv DEF CollectionsInv, CollectionsType
    <3> QED
      BY <3>5, <3>6
  <2>7. CASE Remember(t)
    <3>1. /\ s = "create" /\ todo = {} /\ validated' = validated \cup {v}
          /\ UNCHANGED <<storeVars, api, manifest, restarted, rebuild>>
      BY <2>3, <2>7 DEF Remember
    <3>2. ensuring' = [ensuring EXCEPT ![t] = Request(v, "serve", todo, found)]
      <4>1. [ensuring[t] EXCEPT !.step = "serve"] = Request(v, "serve", todo, found)
        BY <2>2 DEF Request
      <4> QED
        BY <2>7, <4>1 DEF Remember, SetRequest
    <3>3. AreReady(TenantCollections(v))
      BY <2>2, <3>1 DEF AreReady
    <3>4. RequestSees(Request(v, "serve", todo, found))'
      BY <2>2, <3>1, <3>3 DEF RequestSees, Request, AreReady, storeVars
    <3>5. Request(v, "serve", todo, found) \in EnsureRecords
      BY SameRequest
    <3>6. RequestMoves(t)
      BY <2>2, <3>1, <3>2, <3>4, <3>5
         DEF RequestMoves, CollectionsInv, CollectionsType, storeVars, Existing
    <3> QED
      BY <3>1, <3>3, <3>6, MovesKeepInv
         DEF CollectionsInv, CollectionsType, storeVars, Existing, AreReady
  <2>8. CASE Serve(t)
    <3>1. PICK inserted \in {{}} \cup {{3 * v - 2 + k} : k \in InsertedKinds} :
             /\ objects' = objects \cup (inserted \cap Existing)
             /\ written' = written \cup inserted
      BY <2>3, <2>8 DEF Serve
    <3>2. /\ s = "serve" /\ ensuring' = [ensuring EXCEPT ![t] = NoRequest]
          /\ UNCHANGED <<profile, api, validated, manifest, restarted, rebuild>>
      BY <2>3, <2>8 DEF Serve, SetRequest
    <3>3. inserted \subseteq TenantCollections(v)
      BY <3>1, TenantOwns
    <3>4. inserted \subseteq Existing
      BY <2>2, <2>4, <3>2, <3>3 DEF AreReady, Existing
    <3>5. RequestMoves(t)
      BY <2>2, <2>5, <3>2 DEF RequestMoves, CollectionsInv, CollectionsType, Existing
    <3> QED
      BY <3>1, <3>2, <3>4, <3>5, MovesKeepInv DEF CollectionsInv, CollectionsType, Existing
  <2> QED
    BY <1>2, <2>6, <2>7, <2>8
<1> QED
  BY <1>1, <1>2

\* The backend starts with nothing validated and stops with nothing running.
LEMMA ApiKeepsInv ==
  ASSUME CollectionsInv, StartApi \/ StopApi
  PROVE  CollectionsInv'
<1>1. NoRequest \in EnsureRecords
  BY DEF NoRequest, EnsureRecords
<1>2. CASE StartApi
  <2>1. /\ ~api /\ api' /\ restarted' /\ rebuild = NoRebuild
        /\ UNCHANGED <<storeVars, validated, ensuring, manifest, rebuild>>
    BY <1>2 DEF StartApi
  <2>2. validated = {} /\ \A t \in RequestThreads : ensuring[t] = NoRequest
    BY <2>1 DEF CollectionsInv
  <2> QED
    BY <2>1, <2>2 DEF CollectionsInv, CollectionsType, storeVars, Existing, StartApi
<1>3. CASE StopApi
  <2>1. /\ api /\ ~api' /\ validated' = {} /\ ensuring' = [t \in RequestThreads |-> NoRequest]
        /\ UNCHANGED <<storeVars, manifest, restarted, rebuild>>
    BY <1>3 DEF StopApi
  <2> QED
    BY <1>1, <2>1
       DEF CollectionsInv, CollectionsType, storeVars, Existing, ManifestCollections
<1> QED
  BY <1>2, <1>3

\* What a manifest lists.
LEMMA ManifestOwns ==
  ASSUME manifest \subseteq Tenants
  PROVE  ManifestCollections \subseteq AllCollections
BY TenantOwns DEF ManifestCollections

\* The export requires that no object exists, and lists all that exists.
LEMMA ExportKeepsInv ==
  ASSUME CollectionsInv, Export
  PROVE  CollectionsInv'
<1>1. /\ ~api /\ rebuild = NoRebuild
      /\ Existing = UNION {TenantCollections(u) : u \in Triplets}
      /\ objects \cap Existing = {}
      /\ manifest' \in {{}, Triplets} /\ restarted' = FALSE
      /\ UNCHANGED <<storeVars, api, validated, ensuring, rebuild>>
  BY DEF Export
<1>2. objects = {}
  BY <1>1 DEF CollectionsInv
<1>3. manifest' \subseteq Tenants
  BY <1>1 DEF Triplets
<1>4. manifest' # {} => Existing' \subseteq ManifestCollections'
  BY <1>1 DEF ManifestCollections, Existing, storeVars
<1> QED
  BY <1>1, <1>2, <1>3, <1>4 DEF CollectionsInv, CollectionsType, storeVars, Existing, RequestSees,
     AreReady

\* A rebuild has no object to delete: it begins when all that exist are of the
\* manifest and empty, and nothing inserts while it runs.
LEMMA RebuildKeepsInv ==
  ASSUME CollectionsInv,
         \/ BeginRebuild \/ MarkRebuilding \/ DeleteCollection
         \/ CreateCollection \/ MarkReady \/ RebuildStops
  PROVE  CollectionsInv'
<1>1. ~api /\ ~api' /\ UNCHANGED <<validated, ensuring, manifest, restarted, written>>
  <2>1. CASE BeginRebuild
    BY <2>1 DEF BeginRebuild, storeVars
  <2>2. CASE MarkRebuilding \/ DeleteCollection \/ CreateCollection \/ MarkReady
    <3>1. rebuild # NoRebuild
      BY <2>2 DEF MarkRebuilding, DeleteCollection, CreateCollection, MarkReady, Rebuilding,
                  NoRebuild
    <3> QED
      BY <2>2, <3>1
         DEF MarkRebuilding, DeleteCollection, CreateCollection, MarkReady, CollectionsInv
  <2>3. CASE RebuildStops
    BY <2>3 DEF RebuildStops, CollectionsInv, storeVars
  <2> QED
    BY <2>1, <2>2, <2>3
<1>2. objects = {} /\ objects' = {}
  <2>1. CASE BeginRebuild
    <3>1. Existing \subseteq ManifestCollections /\ objects \cap ManifestCollections \cap Existing = {}
      BY <2>1 DEF BeginRebuild, RebuildAccepts
    <3>2. objects' = objects
      BY <2>1 DEF BeginRebuild, storeVars
    <3> QED
      BY <3>1, <3>2 DEF CollectionsInv
  <2>2. CASE MarkRebuilding \/ DeleteCollection \/ CreateCollection \/ MarkReady
    <3>1. rebuild # NoRebuild
      BY <2>2 DEF MarkRebuilding, DeleteCollection, CreateCollection, MarkReady, Rebuilding,
                  NoRebuild
    <3> QED
      BY <2>2, <3>1
         DEF MarkRebuilding, DeleteCollection, CreateCollection, MarkReady, CollectionsInv
  <2>3. CASE RebuildStops
    BY <2>3 DEF RebuildStops, CollectionsInv, storeVars
  <2> QED
    BY <2>1, <2>2, <2>3
<1>3. ManifestCollections \in SUBSET AllCollections
  BY ManifestOwns DEF CollectionsInv, CollectionsType
<1>4. rebuild # NoRebuild /\ rebuild.todo # {} =>
         Current \in ManifestCollections /\ Current \in AllCollections
  <2>1. rebuild # NoRebuild /\ rebuild.todo # {} => rebuild.todo \subseteq ManifestCollections
    BY DEF CollectionsInv
  <2>2. ManifestCollections \in SUBSET Nat
    BY <1>3, CollectionsAssumption DEF AllCollections
  <2> QED
    BY <1>3, <2>1, <2>2, MinChosen DEF Current
<1>5. /\ rebuild' \in [step : {"none", "mark", "delete", "create", "ready"},
                       todo : SUBSET AllCollections]
      /\ rebuild' # NoRebuild => rebuild'.todo \subseteq ManifestCollections
  <2> DEFINE Steps == {"none", "mark", "delete", "create", "ready"}
  <2>1. /\ NoRebuild \in [step : Steps, todo : SUBSET AllCollections]
        /\ \A s \in Steps : [step |-> s, todo |-> ManifestCollections]
                               \in [step : Steps, todo : SUBSET AllCollections]
    BY <1>3 DEF NoRebuild
  <2>2. CASE BeginRebuild
    BY <1>3, <2>1, <2>2 DEF BeginRebuild
  <2>3. ASSUME NEW s \in {"mark", "delete", "ready"}, RebuildStep(s), rebuild # NoRebuild
        PROVE  /\ rebuild' \in [step : Steps, todo : SUBSET AllCollections]
               /\ rebuild' # NoRebuild => rebuild'.todo \subseteq ManifestCollections
    <3>1. rebuild.todo \subseteq ManifestCollections
      BY <2>3 DEF CollectionsInv
    <3>2. PICK rest \in SUBSET ManifestCollections : rest = rebuild.todo \ {Current}
      BY <3>1
    <3>3. \/ rebuild' = [step |-> s, todo |-> rest]
          \/ \E x \in Steps : rebuild' = [step |-> x, todo |-> ManifestCollections]
          \/ rebuild' = NoRebuild
      BY <2>3, <3>2 DEF RebuildStep
    <3>4. [step |-> s, todo |-> rest] \in [step : Steps, todo : SUBSET AllCollections]
      BY <1>3
    <3> QED
      BY <1>3, <2>1, <3>3, <3>4
  <2>4. CASE MarkRebuilding \/ CreateCollection \/ MarkReady
    <3>1. rebuild # NoRebuild
      BY <2>4 DEF MarkRebuilding, CreateCollection, MarkReady, Rebuilding, NoRebuild
    <3> QED
      BY <2>3, <2>4, <3>1 DEF MarkRebuilding, CreateCollection, MarkReady
  <2>5. CASE DeleteCollection
    <3>1. rebuild # NoRebuild /\ rebuild' = [rebuild EXCEPT !.step = "create"]
      BY <2>5 DEF DeleteCollection, Rebuilding, NoRebuild
    <3> QED
      BY <3>1 DEF CollectionsInv, CollectionsType
  <2>6. CASE RebuildStops
    BY <2>1, <2>6 DEF RebuildStops
  <2> QED
    BY <2>2, <2>4, <2>5, <2>6
<1>6. profile' \in Profiles /\ (manifest # {} /\ ~restarted => Existing' \subseteq ManifestCollections)
  <2>1. \/ profile' = profile
        \/ /\ rebuild # NoRebuild /\ rebuild.todo # {}
           /\ \E x \in {"none", "rebuilding", "ready"} : profile' = [profile EXCEPT ![Current] = x]
    BY DEF BeginRebuild, MarkRebuilding, DeleteCollection, CreateCollection, MarkReady,
           RebuildStops, Rebuilding, NoRebuild, storeVars
  <2>2. CASE profile' = profile
    BY <2>2 DEF CollectionsInv, CollectionsType, Existing
  <2>3. CASE /\ rebuild # NoRebuild /\ rebuild.todo # {}
             /\ \E x \in {"none", "rebuilding", "ready"} : profile' = [profile EXCEPT ![Current] = x]
    <3>1. PICK c \in ManifestCollections : c = Current
      BY <1>4, <2>3
    <3>2. PICK x \in {"none", "rebuilding", "ready"} : profile' = [profile EXCEPT ![c] = x]
      BY <2>3, <3>1
    <3>3. /\ profile' \in Profiles
          /\ \A y \in AllCollections : y # c => profile'[y] = profile[y]
      BY <3>2 DEF CollectionsInv, CollectionsType, Profiles
    <3>4. Existing' \subseteq Existing \cup {c}
      BY <3>3 DEF Existing
    <3> QED
      BY <3>1, <3>3, <3>4 DEF CollectionsInv
  <2> QED
    BY <2>1, <2>2, <2>3
<1>7. ManifestCollections' = ManifestCollections
  BY <1>1 DEF ManifestCollections
<1>8. validated = {} /\ \A t \in RequestThreads : ensuring[t] = NoRequest
  BY <1>1 DEF CollectionsInv
<1> QED
  BY <1>1, <1>2, <1>5, <1>6, <1>7, <1>8 DEF CollectionsInv, CollectionsType

\* The storage as an earlier version left it.
LEMMA CollectionsStart == CollectionsInit => CollectionsInv
<1> SUFFICES ASSUME CollectionsInit PROVE CollectionsInv
  OBVIOUS
<1>1. PICK old \in SUBSET Tenants :
         LET left == UNION {TenantCollections(u) : u \in old}
         IN /\ profile = [c \in AllCollections |-> IF c \in left THEN "old" ELSE "none"]
            /\ objects \in {{}} \cup {{c} : c \in left}
  BY DEF CollectionsInit
<1>2. UNION {TenantCollections(u) : u \in old} \subseteq AllCollections
  BY TenantOwns
<1>3. objects \subseteq Existing
  BY <1>1, <1>2 DEF Existing
<1>4. NoRequest \in EnsureRecords /\ NoRebuild.todo = {} /\ NoRebuild.step = "none"
  BY DEF NoRequest, EnsureRecords, NoRebuild
<1>5. profile \in Profiles
  BY <1>1 DEF Profiles
<1>6. CollectionsType
  BY <1>3, <1>4, <1>5 DEF CollectionsInit, CollectionsType, Existing, NoRebuild
<1> QED
  BY <1>3, <1>4, <1>6 DEF CollectionsInit, CollectionsInv

\* Every step of the requests, the backend and the migration.
LEMMA CollectionsKeepInv ==
  ASSUME CollectionsInv, [CollectionsNext]_collectionVars
  PROVE  CollectionsInv'
<1>1. ASSUME NEW t \in RequestThreads, NEW u \in Tenants, Ensure(t, u)
      PROVE  CollectionsInv'
  BY <1>1, RequestKeepsInv
<1>2. ASSUME NEW t \in RequestThreads, CreateMissing(t) \/ Remember(t) \/ Serve(t)
      PROVE  CollectionsInv'
  <2>1. ensuring[t] # NoRequest
    BY <1>2 DEF CreateMissing, Remember, Serve, Loop, NoRequest
  <2>2. PICK u \in Tenants : TRUE
    BY <2>1 DEF CollectionsInv, RequestSees
  <2> QED
    BY <1>2, <2>2, RequestKeepsInv
<1>3. ASSUME NEW t \in RequestThreads, LookUp(t) \/ Validate(t) \/ EnsureRaises(t)
      PROVE  CollectionsInv'
  BY <1>3, LoopsKeepInv
<1>4. CASE StartApi \/ StopApi
  BY <1>4, ApiKeepsInv
<1>5. CASE Export
  BY <1>5, ExportKeepsInv
<1>6. CASE \/ BeginRebuild \/ MarkRebuilding \/ DeleteCollection
           \/ CreateCollection \/ MarkReady \/ RebuildStops
  BY <1>6, RebuildKeepsInv
<1>7. CASE UNCHANGED collectionVars
  BY <1>7 DEF collectionVars, CollectionsInv, CollectionsType, RequestSees, AreReady, Existing,
              ManifestCollections
<1> QED
  BY <1>1, <1>2, <1>3, <1>4, <1>5, <1>6, <1>7 DEF CollectionsNext

\* What the invariant says of the tenants that are served.
LEMMA CollectionsServed == CollectionsInv => CollectionsSafe
<1> SUFFICES ASSUME CollectionsInv PROVE CollectionsSafe
  OBVIOUS
<1>1. ASSUME NEW u \in Served
      PROVE  \A c \in TenantCollections(u) : profile[c] = "ready"
  <2>1. CASE u \in validated
    BY <2>1 DEF CollectionsInv, AreReady
  <2>2. CASE u \notin validated
    <3>1. PICK t \in RequestThreads : ensuring[t].step = "serve" /\ u = ensuring[t].tenant
      BY <2>2 DEF Served
    <3>2. ensuring[t] # NoRequest
      BY <3>1 DEF NoRequest
    <3> QED
      BY <3>1, <3>2 DEF CollectionsInv, RequestSees, AreReady
  <2> QED
    BY <2>1, <2>2
<1>2. manifest # {} /\ ~restarted /\ rebuild = NoRebuild => RebuildAccepts
  BY DEF CollectionsInv, RebuildAccepts
<1> QED
  BY <1>1, <1>2 DEF CollectionsSafe, CollectionsInv

\* Whatever was interrupted, a tenant is served only with its collections ready,
\* no object is deleted, and a rebuild can be run again (client.py:309-365,
\* migrate_onnx_vectors.py:310-365): for every number of tenants and threads.
THEOREM CollectionsAlwaysSafe == CollectionsSpec => []CollectionsSafe
<1> QED
  BY CollectionsServed, CollectionsStart, CollectionsKeepInv, PTL DEF CollectionsSpec

---------------------------------------------------------------------------
(* RuntimeLifecycle: what the process makes, and closes again *)

\* Everything that can be closed.
Resources == {"multi_vectors", "segmenter", "manager", "task_queue", "embedding", "reranker",
              "granite", "qwen", "qwen_async", "processing"}

\* What closing a resource closes.
ClosedWith(r) == IF r = "qwen" THEN {"qwen_async", "qwen"} ELSE {r}

\* The factories, one by one: the tokenizer is the last, and every other makes
\* something of its own.
LEMMA FactoryList ==
  /\ Len(Factories) \in {8, 9} /\ Factories[Len(Factories)] = "tokenizer"
  /\ \A n \in 1..(Len(Factories) - 1) :
        Factories[n] \in Resources \ {"qwen_async", "processing"} /\ Factories[n] # "tokenizer"
  /\ \A m, n \in 1..(Len(Factories) - 1) : Factories[m] = Factories[n] => m = n
  /\ \A r \in Resources \ {"qwen_async", "processing"} :
        r # "segmenter" \/ SeparateSegmenter => \E n \in 1..(Len(Factories) - 1) : Factories[n] = r
  /\ ~SeparateSegmenter => \A n \in 1..(Len(Factories) - 1) : Factories[n] # "segmenter"
<1>1. CASE SeparateSegmenter
  <2>1. PICK f : f = Factories
    OBVIOUS
  <2>2. /\ Len(f) = 9 /\ f[1] = "multi_vectors" /\ f[2] = "segmenter" /\ f[3] = "manager"
        /\ f[4] = "task_queue" /\ f[5] = "embedding" /\ f[6] = "reranker"
        /\ f[7] = "granite" /\ f[8] = "qwen" /\ f[9] = "tokenizer"
    BY <1>1, <2>1 DEF Factories
  <2>3. \A n \in 1..8 : n = 1 \/ n = 2 \/ n = 3 \/ n = 4 \/ n = 5 \/ n = 6 \/ n = 7 \/ n = 8
    OBVIOUS
  <2>4. 9 - 1 = 8 /\ {1, 2, 3, 4, 5, 6, 7, 8} \subseteq 1..8
    OBVIOUS
  <2>5. \A n \in 1..8 : f[n] \in Resources \ {"qwen_async", "processing"} /\ f[n] # "tokenizer"
    BY <2>2, <2>3 DEF Resources
  <2>6. \A m, n \in 1..8 : f[m] = f[n] => m = n
    BY <2>2, <2>3
  <2>7. \A r \in Resources \ {"qwen_async", "processing"} : \E n \in 1..8 : f[n] = r
    BY <2>2, <2>4 DEF Resources
  <2> QED
    BY <1>1, <2>1, <2>2, <2>4, <2>5, <2>6, <2>7
<1>2. CASE ~SeparateSegmenter
  <2>1. PICK f : f = Factories
    OBVIOUS
  <2>2. /\ Len(f) = 8 /\ f[1] = "multi_vectors" /\ f[2] = "manager"
        /\ f[3] = "task_queue" /\ f[4] = "embedding" /\ f[5] = "reranker"
        /\ f[6] = "granite" /\ f[7] = "qwen" /\ f[8] = "tokenizer"
    BY <1>2, <2>1 DEF Factories
  <2>3. \A n \in 1..7 : n = 1 \/ n = 2 \/ n = 3 \/ n = 4 \/ n = 5 \/ n = 6 \/ n = 7
    OBVIOUS
  <2>4. 8 - 1 = 7 /\ {1, 2, 3, 4, 5, 6, 7} \subseteq 1..7
    OBVIOUS
  <2>5. \A n \in 1..7 : f[n] \in Resources \ {"qwen_async", "processing", "segmenter"} /\ f[n] # "tokenizer"
    BY <2>2, <2>3 DEF Resources
  <2>6. \A m, n \in 1..7 : f[m] = f[n] => m = n
    BY <2>2, <2>3
  <2>7. \A r \in Resources \ {"qwen_async", "processing"} : r # "segmenter" => \E n \in 1..7 : f[n] = r
    BY <2>2, <2>4 DEF Resources
  <2> QED
    BY <1>2, <2>1, <2>2, <2>4, <2>5, <2>6, <2>7
<1> QED
  BY <1>1, <1>2

\* The shutdown, one by one: the queue is first and the connection last, and
\* it closes whatever was made, both clients of Qwen, and the processing hook.
LEMMA StopList ==
  /\ Len(StopSteps) \in {9, 10} /\ StopSteps[1] = "task_queue"
  /\ StopSteps[Len(StopSteps)] = "manager"
  /\ \A n \in 1..Len(StopSteps) : StopSteps[n] \in Resources
  /\ \A m, n \in 1..Len(StopSteps) : StopSteps[m] = StopSteps[n] => m = n
  /\ \A r \in Resources :
        r # "segmenter" \/ SeparateSegmenter => \E n \in 1..Len(StopSteps) : StopSteps[n] = r
  /\ ~SeparateSegmenter => \A n \in 1..Len(StopSteps) : StopSteps[n] # "segmenter"
<1>1. CASE SeparateSegmenter
  <2>1. PICK f : f = StopSteps
    OBVIOUS
  <2>2. /\ Len(f) = 10 /\ f[1] = "task_queue" /\ f[2] = "qwen_async" /\ f[3] = "qwen"
        /\ f[4] = "granite" /\ f[5] = "embedding" /\ f[6] = "reranker" /\ f[7] = "multi_vectors"
        /\ f[8] = "segmenter" /\ f[9] = "processing" /\ f[10] = "manager"
    BY <1>1, <2>1 DEF StopSteps
  <2>3. \A n \in 1..10 : n = 1 \/ n = 2 \/ n = 3 \/ n = 4 \/ n = 5 \/ n = 6 \/ n = 7 \/ n = 8
                         \/ n = 9 \/ n = 10
    OBVIOUS
  <2>4. {1, 2, 3, 4, 5, 6, 7, 8, 9, 10} \subseteq 1..10
    OBVIOUS
  <2>5. \A n \in 1..10 : f[n] \in Resources
    BY <2>2, <2>3 DEF Resources
  <2>6. \A m, n \in 1..10 : f[m] = f[n] => m = n
    BY <2>2, <2>3
  <2>7. \A r \in Resources : \E n \in 1..10 : f[n] = r
    BY <2>2, <2>4 DEF Resources
  <2> QED
    BY <1>1, <2>1, <2>2, <2>5, <2>6, <2>7
<1>2. CASE ~SeparateSegmenter
  <2>1. PICK f : f = StopSteps
    OBVIOUS
  <2>2. /\ Len(f) = 9 /\ f[1] = "task_queue" /\ f[2] = "qwen_async" /\ f[3] = "qwen"
        /\ f[4] = "granite" /\ f[5] = "embedding" /\ f[6] = "reranker" /\ f[7] = "multi_vectors"
        /\ f[8] = "processing" /\ f[9] = "manager"
    BY <1>2, <2>1 DEF StopSteps
  <2>3. \A n \in 1..9 : n = 1 \/ n = 2 \/ n = 3 \/ n = 4 \/ n = 5 \/ n = 6 \/ n = 7 \/ n = 8
                         \/ n = 9
    OBVIOUS
  <2>4. {1, 2, 3, 4, 5, 6, 7, 8, 9} \subseteq 1..9
    OBVIOUS
  <2>5. \A n \in 1..9 : f[n] \in Resources /\ f[n] # "segmenter"
    BY <2>2, <2>3 DEF Resources
  <2>6. \A m, n \in 1..9 : f[m] = f[n] => m = n
    BY <2>2, <2>3
  <2>7. \A r \in Resources : r # "segmenter" => \E n \in 1..9 : f[n] = r
    BY <2>2, <2>4 DEF Resources
  <2> QED
    BY <1>2, <2>1, <2>2, <2>5, <2>6, <2>7
<1> QED
  BY <1>1, <1>2

\* What the start-up checks.
Checks == {"processing", "embedding", "reranker", "collections", "granite", "qwen"}

\* All of it is checked by five steps.
LEMMA StartList ==
  /\ Len(StartSteps) = 5 /\ UNION ToSet(StartSteps) = Checks
  /\ StartSteps[1] \cup StartSteps[2] \cup StartSteps[3] \cup StartSteps[4] \cup StartSteps[5] = Checks
<1>1. PICK f : f = StartSteps
  OBVIOUS
<1>2. /\ Len(f) = 5 /\ DOMAIN f = 1..5 /\ f[1] = {"processing"} /\ f[2] = {"embedding"} /\ f[3] = {"reranker"}
      /\ f[4] = {"collections"} /\ f[5] = {"granite", "qwen"}
  BY <1>1 DEF StartSteps
<1>3. \A n \in 1..5 : n = 1 \/ n = 2 \/ n = 3 \/ n = 4 \/ n = 5
  OBVIOUS
<1>4. {1, 2, 3, 4, 5} \subseteq 1..5
  OBVIOUS
<1>5. ToSet(f) = {f[1], f[2], f[3], f[4], f[5]}
  BY <1>2, <1>3, <1>4 DEF ToSet
<1>6. f[1] \cup f[2] \cup f[3] \cup f[4] \cup f[5] = Checks
  BY <1>2 DEF Checks
<1> QED
  BY <1>1, <1>2, <1>5, <1>6

\* What was made is a prefix of the list of the factories.
MadeInOrder(k) ==
    /\ Len(owned) = k
    /\ \A n \in 1..k : owned[n] = Factories[n]

\* The last k of what was made are closed, each once.
Undone(k) ==
    /\ IsInjective(closings)
    /\ \A x : Occurs(closings, x) <=>
          \E n \in (Len(owned) - k + 1)..Len(owned) : x \in ClosedWith(owned[n])

\* The first k steps of the shutdown are done.
Stopped(k) ==
    /\ Len(closings) = k
    /\ \A n \in 1..k : closings[n] = StopSteps[n]

\* The first k steps of the start-up have passed.
StartPassed(k) == \A n \in 1..k : StartSteps[n] \subseteq checks

LifecycleType ==
    /\ step \in Nat
    /\ owned \in Seq(Resources)
    /\ closings \in Seq(Resources)
    /\ connected \in BOOLEAN
    /\ checks \subseteq Checks
    /\ ready \in BOOLEAN

\* Where each phase is, and what it has made, checked and closed.
PhaseIs ==
    \/ /\ phase = "construct" /\ ~ready
       /\ step < Len(Factories) /\ MadeInOrder(step)
       /\ Stopped(0)
    \/ /\ phase = "undo" /\ ~ready
       /\ Len(owned) < Len(Factories) /\ MadeInOrder(Len(owned))
       /\ step <= Len(owned) /\ Undone(step)
    \/ /\ phase = "failed" /\ ~ready
       /\ Undone(Len(owned))
    \/ /\ phase = "connect" /\ ~ready
       /\ MadeInOrder(Len(Factories) - 1)
       /\ Stopped(0)
    \/ /\ phase = "start" /\ ~ready
       /\ MadeInOrder(Len(Factories) - 1)
       /\ step < Len(StartSteps) /\ StartPassed(step)
       /\ Stopped(0)
    \/ /\ phase = "serve"
       /\ MadeInOrder(Len(Factories) - 1)
       /\ ready => checks = Checks
       /\ Stopped(0)
    \/ /\ phase = "stop"
       /\ MadeInOrder(Len(Factories) - 1)
       /\ step < Len(StopSteps) /\ Stopped(step)
       /\ ready => checks = Checks /\ step <= 1
    \/ /\ phase = "down" /\ ~ready
       /\ MadeInOrder(Len(Factories) - 1)
       /\ Stopped(IF connected THEN Len(StopSteps) ELSE Len(StopSteps) - 1)

LifecycleInv == LifecycleType /\ PhaseIs

\* A sequence with each value once stays so when values that it does not hold
\* are put after it.
LEMMA InjectiveConcat ==
  ASSUME NEW S, NEW s \in Seq(S), NEW t \in Seq(S), IsInjective(s), IsInjective(t),
         \A x : ~ (Occurs(s, x) /\ Occurs(t, x))
  PROVE  IsInjective(s \o t)
<1>1. PICK u : u = s \o t
  OBVIOUS
<1>2. u \in Seq(S) /\ Len(u) = Len(s) + Len(t) /\ DOMAIN u = 1..Len(u)
  BY <1>1
<1>3. /\ \A i \in 1..Len(s) : (s \o t)[i] = s[i]
      /\ \A i \in 1..Len(t) : (s \o t)[Len(s) + i] = t[i]
      /\ Len(s) \in Nat /\ Len(t) \in Nat /\ DOMAIN s = 1..Len(s) /\ DOMAIN t = 1..Len(t)
  OBVIOUS
<1>4. \A i \in 1..Len(u) : \/ i \in 1..Len(s) /\ u[i] = s[i]
                           \/ i - Len(s) \in 1..Len(t) /\ u[i] = t[i - Len(s)]
  <2>1. TAKE i \in 1..Len(u)
  <2>2. CASE i <= Len(s)
    BY <1>1, <1>2, <1>3, <2>2
  <2>3. CASE i > Len(s)
    <3>1. i - Len(s) \in 1..Len(t) /\ Len(s) + (i - Len(s)) = i
      BY <1>2, <1>3, <2>3
    <3> QED
      BY <1>1, <1>3, <3>1
  <2> QED
    BY <1>2, <1>3, <2>2, <2>3
<1>5. ASSUME NEW i \in 1..Len(u), NEW j \in 1..Len(u), u[i] = u[j]
      PROVE  i = j
  <2>1. CASE i \in 1..Len(s) /\ u[i] = s[i] /\ j \in 1..Len(s) /\ u[j] = s[j]
    BY <1>3, <1>5, <2>1 DEF IsInjective
  <2>2. CASE i - Len(s) \in 1..Len(t) /\ u[i] = t[i - Len(s)] /\ j - Len(s) \in 1..Len(t) /\ u[j] = t[j - Len(s)]
    <3>1. i - Len(s) = j - Len(s)
      BY <1>3, <1>5, <2>2 DEF IsInjective
    <3> QED
      BY <1>2, <1>3, <3>1
  <2>3. CASE i \in 1..Len(s) /\ u[i] = s[i] /\ j - Len(s) \in 1..Len(t) /\ u[j] = t[j - Len(s)]
    <3>1. Occurs(s, u[i]) /\ Occurs(t, u[i])
      BY <1>5, <2>3 DEF Occurs
    <3> QED
      BY <3>1
  <2>4. CASE j \in 1..Len(s) /\ u[j] = s[j] /\ i - Len(s) \in 1..Len(t) /\ u[i] = t[i - Len(s)]
    <3>1. Occurs(s, u[i]) /\ Occurs(t, u[i])
      BY <1>5, <2>4 DEF Occurs
    <3> QED
      BY <3>1
  <2> QED
    BY <1>4, <2>1, <2>2, <2>3, <2>4
<1> QED
  BY <1>1, <1>2, <1>5 DEF IsInjective

\* What closing one resource closes, as a sequence.
LEMMA ClosesHolds ==
  ASSUME NEW r \in Resources
  PROVE  /\ Closes(r) \in Seq(Resources) /\ IsInjective(Closes(r))
         /\ \A x : Occurs(Closes(r), x) <=> x \in ClosedWith(r)
<1>1. CASE r = "qwen"
  <2>1. PICK t : t = Closes(r)
    OBVIOUS
  <2>2. t \in Seq(Resources) /\ Len(t) = 2 /\ DOMAIN t = 1..2 /\ t[1] = "qwen_async" /\ t[2] = "qwen"
    BY <1>1, <2>1 DEF Closes, Resources
  <2>3. \A n \in 1..2 : n = 1 \/ n = 2
    OBVIOUS
  <2>4. 1 \in 1..2 /\ 2 \in 1..2
    OBVIOUS
  <2>5. IsInjective(t)
    BY <2>2, <2>3 DEF IsInjective
  <2>6. \A x : Occurs(t, x) <=> x \in {"qwen_async", "qwen"}
    BY <2>2, <2>3, <2>4 DEF Occurs
  <2> QED
    BY <1>1, <2>1, <2>2, <2>5, <2>6 DEF ClosedWith
<1>2. CASE r # "qwen"
  <2>1. PICK t : t = Closes(r)
    OBVIOUS
  <2>2. t \in Seq(Resources) /\ Len(t) = 1 /\ DOMAIN t = 1..1 /\ t[1] = r
    BY <1>2, <2>1 DEF Closes
  <2>3. 1..1 = {1}
    OBVIOUS
  <2>5. IsInjective(t)
    BY <2>2, <2>3 DEF IsInjective
  <2>6. \A x : Occurs(t, x) <=> x = r
    BY <2>2, <2>3 DEF Occurs
  <2> QED
    BY <1>2, <2>1, <2>2, <2>5, <2>6 DEF ClosedWith
<1> QED
  BY <1>1, <1>2

\* Before the process starts nothing is made.
LEMMA LifecycleStarts == LifecycleInit => LifecycleInv
<1> SUFFICES ASSUME LifecycleInit PROVE LifecycleInv
  OBVIOUS
<1>1. Len(owned) = 0 /\ Len(closings) = 0
  BY DEF LifecycleInit
<1>2. LifecycleType
  <2>1. <<>> \in Seq(Resources) /\ 0 \in Nat
    OBVIOUS
  <2> QED
    BY <2>1, Zenon DEF LifecycleInit, LifecycleType
<1>3. MadeInOrder(0) /\ Stopped(0)
  BY <1>1 DEF MadeInOrder, Stopped
<1>4. 0 < Len(Factories)
  BY FactoryList
<1> QED
  BY <1>2, <1>3, <1>4 DEF LifecycleInit, LifecycleInv, PhaseIs

\* The phases exclude each other: in each of them, its part of PhaseIs.
LEMMA InPhase ==
  ASSUME PhaseIs
  PROVE  /\ phase = "construct" => ~ready /\ step < Len(Factories) /\ MadeInOrder(step) /\ Stopped(0)
         /\ phase = "undo" => /\ ~ready /\ Len(owned) < Len(Factories) /\ MadeInOrder(Len(owned))
                              /\ step <= Len(owned) /\ Undone(step)
         /\ phase = "failed" => ~ready /\ Undone(Len(owned))
         /\ phase \in {"connect", "start", "serve", "stop", "down"} => MadeInOrder(Len(Factories) - 1)
         /\ phase \in {"connect", "start", "serve"} => Stopped(0)
         /\ phase \in {"connect", "start"} => ~ready
         /\ phase = "start" => step < Len(StartSteps) /\ StartPassed(step)
         /\ phase = "serve" => (ready => checks = Checks)
         /\ phase = "stop" => /\ step < Len(StopSteps) /\ Stopped(step)
                              /\ ready => checks = Checks /\ step <= 1
         /\ phase = "down" => /\ ~ready
                              /\ Stopped(IF connected THEN Len(StopSteps) ELSE Len(StopSteps) - 1)
         /\ phase \in {"construct", "undo", "failed", "connect", "start", "serve", "stop", "down"}
BY DEF PhaseIs

\* A factory that returns adds its resource to those the container owns.
LEMMA MakeKeeps == LifecycleInv /\ Make => LifecycleInv'
<1> SUFFICES ASSUME LifecycleInv, Make PROVE LifecycleInv'
  OBVIOUS
<1> USE DEF LifecycleType
<1>1. LifecycleType /\ phase = "construct" /\ ~ready /\ step < Len(Factories) /\ MadeInOrder(step) /\ Stopped(0)
  BY InPhase DEF LifecycleInv, Make
<1>2. UNCHANGED <<closings, connected, checks, ready>> /\ Stopped(0)'
  BY <1>1 DEF Make, Stopped
<1>3. CASE step + 1 = Len(Factories)
  <2>1. Factories[step + 1] = "tokenizer" /\ step = Len(Factories) - 1
    BY <1>1, <1>3, FactoryList
  <2>2. owned' = owned /\ phase' = "connect" /\ step' = 0
    BY <1>3, <2>1 DEF Make, Enter
  <2>3. MadeInOrder(Len(Factories) - 1)'
    BY <1>1, <2>1, <2>2 DEF MadeInOrder
  <2> QED
    BY <1>1, <1>2, <2>2, <2>3 DEF LifecycleInv, PhaseIs
<1>4. CASE step + 1 # Len(Factories)
  <2>1. step + 1 \in 1..(Len(Factories) - 1)
    BY <1>1, <1>4, FactoryList
  <2>2. PICK r \in Resources : r = Factories[step + 1] /\ r # "tokenizer"
    BY <2>1, FactoryList
  <2>3. owned' = Append(owned, r) /\ phase' = phase /\ step' = step + 1
    BY <1>4, <2>2 DEF Make, Enter
  <2>4. /\ Append(owned, r) \in Seq(Resources) /\ Len(Append(owned, r)) = step + 1
        /\ \A n \in 1..step : Append(owned, r)[n] = owned[n]
        /\ Append(owned, r)[step + 1] = r
    BY <1>1, Appended DEF MadeInOrder
  <2>5. Len(owned') = step + 1 /\ \A n \in 1..(step + 1) : owned'[n] = Factories[n]
    <3>1. \A n \in 1..(step + 1) : n \in 1..step \/ n = step + 1
      BY <1>1
    <3> QED
      BY <1>1, <2>2, <2>3, <2>4, <3>1 DEF MadeInOrder
  <2>6. step' < Len(Factories) /\ step' \in Nat
    BY <1>1, <1>4, <2>1, <2>3, FactoryList
  <2>7. MadeInOrder(step)'
    BY <2>3, <2>5 DEF MadeInOrder
  <2> QED
    BY <1>1, <1>2, <2>3, <2>4, <2>6, <2>7 DEF LifecycleInv, PhaseIs
<1> QED
  BY <1>3, <1>4

\* A factory that raises hands what was made before it to the cleanup.
LEMMA FactoryFailsKeeps == LifecycleInv /\ FactoryFails => LifecycleInv'
<1> SUFFICES ASSUME LifecycleInv, FactoryFails PROVE LifecycleInv'
  OBVIOUS
<1>1. LifecycleType /\ phase = "construct" /\ ~ready /\ step < Len(Factories) /\ MadeInOrder(step) /\ Stopped(0)
  BY InPhase DEF LifecycleInv, FactoryFails
<1>2. phase' = "undo" /\ step' = 0 /\ UNCHANGED <<owned, closings, connected, checks, ready>>
  BY DEF FactoryFails, Enter
<1>3. MadeInOrder(Len(owned))' /\ Len(owned)' < Len(Factories)
  BY <1>1, <1>2 DEF MadeInOrder
<1>4. Undone(0)'
  <2>1. Len(closings) = 0 /\ DOMAIN closings = 1..0 /\ Len(owned) \in Nat
    BY <1>1 DEF Stopped, LifecycleType
  <2>2. IsInjective(closings) /\ \A x : ~ Occurs(closings, x)
    BY <2>1 DEF IsInjective, Occurs
  <2>3. \A n \in (Len(owned) - 0 + 1)..Len(owned) : FALSE
    BY <2>1
  <2> QED
    BY <1>2, <2>2, <2>3 DEF Undone
<1>5. LifecycleType' /\ (step <= Len(owned))'
  BY <1>1, <1>2 DEF LifecycleType
<1> QED
  BY <1>1, <1>2, <1>3, <1>4, <1>5 DEF LifecycleInv, PhaseIs

\* Undoing closes what was made last: nothing that a closing before it closed.
LEMMA UndoKeeps == LifecycleInv /\ Undo => LifecycleInv'
<1> SUFFICES ASSUME LifecycleInv, Undo PROVE LifecycleInv'
  OBVIOUS
<1>1. /\ LifecycleType /\ phase = "undo" /\ ~ready /\ Len(owned) < Len(Factories)
      /\ MadeInOrder(Len(owned)) /\ step <= Len(owned) /\ Undone(step)
  BY InPhase DEF LifecycleInv, Undo
<1>2. UNCHANGED <<owned, connected, checks, ready>>
  BY DEF Undo
<1>3. step \in Nat /\ Len(owned) \in Nat /\ closings \in Seq(Resources)
  BY <1>1 DEF LifecycleType
<1>4. CASE step = Len(owned)
  <2>1. phase' = "failed" /\ step' = 0 /\ closings' = closings
    BY <1>4 DEF Undo, Enter
  <2>2. Undone(Len(owned))'
    BY <1>1, <1>2, <1>4, <2>1 DEF Undone
  <2>3. LifecycleType'
    BY <1>1, <1>2, <2>1 DEF LifecycleType
  <2> QED
    BY <1>1, <1>2, <2>1, <2>2, <2>3 DEF LifecycleInv, PhaseIs
<1>5. CASE step # Len(owned)
  <2>1. PICK k : k = Len(owned) - step
    OBVIOUS
  <2>2. k \in 1..Len(owned) /\ k \in 1..(Len(Factories) - 1)
    BY <1>1, <1>3, <1>5, <2>1, FactoryList
  <2>3. PICK r \in Resources \ {"qwen_async"} : r = owned[k] /\ r = Factories[k]
    BY <1>1, <2>2, FactoryList DEF MadeInOrder
  <2>4. closings' = closings \o Closes(r) /\ step' = step + 1 /\ phase' = phase
    BY <1>5, <2>1, <2>3 DEF Undo
  <2>5. PICK t \in Seq(Resources) : /\ t = Closes(r) /\ IsInjective(t)
                                    /\ \A x : Occurs(t, x) <=> x \in ClosedWith(r)
    BY <2>3, ClosesHolds
  <2>6. \A x : ~ (Occurs(closings, x) /\ Occurs(t, x))
    <3>1. SUFFICES ASSUME NEW x, Occurs(closings, x), Occurs(t, x) PROVE FALSE
      OBVIOUS
    <3>2. PICK n \in (Len(owned) - step + 1)..Len(owned) : x \in ClosedWith(owned[n])
      BY <1>1, <3>1 DEF Undone
    <3>3. n \in 1..Len(owned) /\ n \in 1..(Len(Factories) - 1) /\ n # k
      BY <1>1, <1>3, <1>5, <2>1, <3>2, FactoryList
    <3>4. owned[n] = Factories[n] /\ owned[n] \in Resources \ {"qwen_async"} /\ owned[n] # r
      BY <1>1, <2>2, <2>3, <3>3, FactoryList DEF MadeInOrder
    <3> QED
      BY <2>3, <2>5, <3>1, <3>2, <3>4 DEF ClosedWith
  <2>7. IsInjective(closings \o t) /\ closings \o t \in Seq(Resources)
    BY <1>1, <1>3, <2>5, <2>6, InjectiveConcat, ConcatOccurs DEF Undone
  <2>8. \A x : Occurs(closings \o t, x) <=> Occurs(closings, x) \/ x \in ClosedWith(owned[k])
    BY <1>3, <2>3, <2>5, ConcatOccurs
  <2>9. \A n : n \in (Len(owned) - (step + 1) + 1)..Len(owned)
                  <=> n = k \/ n \in (Len(owned) - step + 1)..Len(owned)
    BY <1>1, <1>3, <1>5, <2>1
  <2>10. \A x : Occurs(closings \o t, x) <=>
              \E n \in (Len(owned) - (step + 1) + 1)..Len(owned) : x \in ClosedWith(owned[n])
    BY <1>1, <2>8, <2>9 DEF Undone
  <2>11. Undone(step)' /\ step' <= Len(owned') /\ step' \in Nat
    BY <1>1, <1>2, <1>3, <1>5, <2>4, <2>5, <2>7, <2>10 DEF Undone
  <2>12. MadeInOrder(Len(owned))' /\ LifecycleType'
    BY <1>1, <1>2, <2>4, <2>5, <2>7, <2>11 DEF MadeInOrder, LifecycleType
  <2> QED
    BY <1>1, <1>2, <2>4, <2>11, <2>12 DEF LifecycleInv, PhaseIs
<1> QED
  BY <1>4, <1>5

\* Connecting makes and closes nothing; a process that cannot connect stops.
LEMMA ConnectKeeps ==
  ASSUME NEW succeeds \in BOOLEAN
  PROVE  LifecycleInv /\ Connect(succeeds) => LifecycleInv'
<1> SUFFICES ASSUME LifecycleInv, Connect(succeeds) PROVE LifecycleInv'
  OBVIOUS
<1>1. LifecycleType /\ phase = "connect" /\ ~ready /\ MadeInOrder(Len(Factories) - 1) /\ Stopped(0)
  BY InPhase DEF LifecycleInv, Connect
<1>2. /\ connected' = succeeds /\ phase' = (IF succeeds THEN "start" ELSE "stop") /\ step' = 0
      /\ UNCHANGED <<owned, closings, checks, ready>>
  BY DEF Connect, Enter
<1>3. MadeInOrder(Len(Factories) - 1)' /\ Stopped(0)' /\ Stopped(step)' /\ StartPassed(step)'
  BY <1>1, <1>2 DEF MadeInOrder, Stopped, StartPassed
<1>4. LifecycleType'
  BY <1>1, <1>2 DEF LifecycleType
<1>5. step' < Len(StartSteps) /\ step' < Len(StopSteps) /\ step' <= 1
  BY <1>2, StartList, StopList
<1> QED
  BY <1>1, <1>2, <1>3, <1>4, <1>5 DEF LifecycleInv, PhaseIs

\* The last step of the start-up passes only after all the others.
LEMMA StartStepKeeps ==
  ASSUME NEW passed
  PROVE  LifecycleInv /\ StartStep(passed) => LifecycleInv'
<1> SUFFICES ASSUME LifecycleInv, StartStep(passed) PROVE LifecycleInv'
  OBVIOUS
<1>1. /\ LifecycleType /\ phase = "start" /\ ~ready /\ MadeInOrder(Len(Factories) - 1) /\ Stopped(0)
      /\ step < Len(StartSteps) /\ StartPassed(step)
  BY InPhase DEF LifecycleInv, StartStep
<1>2. /\ checks' = checks \cup passed /\ passed \subseteq StartSteps[step + 1]
      /\ UNCHANGED <<owned, closings, connected>>
  BY DEF StartStep
<1>3. MadeInOrder(Len(Factories) - 1)' /\ Stopped(0)'
  BY <1>1, <1>2 DEF MadeInOrder, Stopped
<1>4. step + 1 \in 1..5 /\ step \in Nat
  BY <1>1, StartList DEF LifecycleType
<1>5. checks' \subseteq Checks
  <2>1. step + 1 = 1 \/ step + 1 = 2 \/ step + 1 = 3 \/ step + 1 = 4 \/ step + 1 = 5
    BY <1>4
  <2>2. StartSteps[step + 1] \subseteq Checks
    BY <2>1, StartList
  <2> QED
    BY <1>1, <1>2, <2>2 DEF LifecycleType
<1>6. CASE passed # StartSteps[step + 1]
  <2>1. phase' = "stop" /\ step' = 0 /\ ready' = ready
    BY <1>6 DEF StartStep, Enter
  <2>2. Stopped(step)' /\ LifecycleType' /\ step' < Len(StopSteps)
    BY <1>1, <1>2, <1>3, <1>5, <2>1, StopList DEF LifecycleType, Stopped
  <2> QED
    BY <1>1, <1>3, <2>1, <2>2 DEF LifecycleInv, PhaseIs
<1>7. ASSUME passed = StartSteps[step + 1]
      PROVE  \A n \in 1..(step + 1) : StartSteps[n] \subseteq checks'
  <2>1. \A n \in 1..(step + 1) : n \in 1..step \/ n = step + 1
    BY <1>4
  <2> QED
    BY <1>1, <1>2, <1>7, <2>1 DEF StartPassed
<1>8. CASE passed = StartSteps[step + 1] /\ step + 1 < Len(StartSteps)
  <2>1. step' = step + 1 /\ UNCHANGED <<phase, ready>>
    BY <1>8 DEF StartStep
  <2>2. StartPassed(step)'
    BY <1>7, <1>8, <2>1 DEF StartPassed
  <2>3. LifecycleType' /\ step' < Len(StartSteps)
    BY <1>1, <1>2, <1>4, <1>5, <1>8, <2>1 DEF LifecycleType
  <2> QED
    BY <1>1, <1>3, <2>1, <2>2, <2>3 DEF LifecycleInv, PhaseIs
<1>9. CASE passed = StartSteps[step + 1] /\ ~ (step + 1 < Len(StartSteps))
  <2>1. phase' = "serve" /\ step' = 0 /\ ready' = TRUE
    BY <1>9 DEF StartStep, Enter
  <2>2. step + 1 = 5
    BY <1>4, <1>9, StartList
  <2>3. 1 \in 1..5 /\ 2 \in 1..5 /\ 3 \in 1..5 /\ 4 \in 1..5 /\ 5 \in 1..5
    OBVIOUS
  <2>4. Checks \subseteq checks'
    <3>1. \A n \in 1..5 : StartSteps[n] \subseteq checks'
      BY <1>7, <1>9, <2>2
    <3> QED
      BY <2>3, <3>1, StartList
  <2>5. checks' = Checks /\ LifecycleType'
    BY <1>1, <1>2, <1>5, <2>1, <2>4 DEF LifecycleType
  <2> QED
    BY <1>3, <2>1, <2>5 DEF LifecycleInv, PhaseIs
<1> QED
  BY <1>6, <1>8, <1>9

\* A process told to shut down starts to stop with everything open.
LEMMA ShutdownKeeps == LifecycleInv /\ Shutdown => LifecycleInv'
<1> SUFFICES ASSUME LifecycleInv, Shutdown PROVE LifecycleInv'
  OBVIOUS
<1>1. /\ LifecycleType /\ phase = "serve" /\ MadeInOrder(Len(Factories) - 1) /\ Stopped(0)
      /\ ready => checks = Checks
  BY InPhase DEF LifecycleInv, Shutdown
<1>2. phase' = "stop" /\ step' = 0 /\ UNCHANGED <<owned, closings, connected, checks, ready>>
  BY DEF Shutdown, Enter
<1>3. MadeInOrder(Len(Factories) - 1)' /\ Stopped(step)' /\ LifecycleType' /\ (step < Len(StopSteps))'
  BY <1>1, <1>2, StopList DEF MadeInOrder, Stopped, LifecycleType
<1> QED
  BY <1>1, <1>2, <1>3 DEF LifecycleInv, PhaseIs

\* A step of the shutdown closes the next of the list, whether or not one before raised.
LEMMA StopStepKeeps ==
  ASSUME NEW raises \in BOOLEAN
  PROVE  LifecycleInv /\ StopStep(raises) => LifecycleInv'
<1> SUFFICES ASSUME LifecycleInv, StopStep(raises) PROVE LifecycleInv'
  OBVIOUS
<1>1. /\ LifecycleType /\ phase = "stop" /\ MadeInOrder(Len(Factories) - 1)
      /\ step < Len(StopSteps) /\ Stopped(step)
      /\ ready => checks = Checks /\ step <= 1
  BY InPhase DEF LifecycleInv, StopStep
<1>2. step \in Nat /\ closings \in Seq(Resources) /\ step + 1 \in 1..Len(StopSteps) /\ Len(StopSteps) > 1
  BY <1>1, StopList DEF LifecycleType
<1>3. PICK r \in Resources : r = StopSteps[step + 1]
  BY <1>2, StopList
<1>4. /\ closings' = (IF r = "manager" /\ ~connected THEN closings ELSE Append(closings, r))
      /\ ready' = (ready /\ r = "task_queue")
      /\ UNCHANGED <<owned, connected, checks>>
  BY <1>3 DEF StopStep
<1>5. MadeInOrder(Len(Factories) - 1)'
  BY <1>1, <1>4 DEF MadeInOrder
<1>6. ready' \in BOOLEAN /\ (ready' => checks' = Checks /\ step = 0)
  <2>1. 1 \in 1..Len(StopSteps)
    BY <1>2
  <2>2. r = "task_queue" => step + 1 = 1
    BY <1>2, <1>3, <2>1, StopList, ZenonT(40)
  <2>3. r = "task_queue" => step = 0
    BY <1>2, <2>2
  <2> QED
    BY <1>1, <1>4, <2>3, Zenon DEF LifecycleType
<1>7. ASSUME r # "manager" \/ connected
      PROVE  /\ closings' \in Seq(Resources) /\ Len(closings') = step + 1
             /\ \A n \in 1..(step + 1) : closings'[n] = StopSteps[n]
  <2>1. closings' = Append(closings, r)
    BY <1>4, <1>7
  <2>2. /\ Append(closings, r) \in Seq(Resources) /\ Len(Append(closings, r)) = step + 1
        /\ \A n \in 1..step : Append(closings, r)[n] = closings[n]
        /\ Append(closings, r)[step + 1] = r
    BY <1>1, <1>2, Appended DEF Stopped
  <2>3. \A n \in 1..(step + 1) : n \in 1..step \/ n = step + 1
    BY <1>2
  <2> QED
    BY <1>1, <1>3, <2>1, <2>2, <2>3 DEF Stopped
<1>8. CASE step + 1 = Len(StopSteps)
  <2>1. phase' = "down" /\ step' = 0 /\ r = "manager"
    BY <1>2, <1>3, <1>8, StopList DEF StopStep, Enter
  <2>2. ~ready'
    BY <1>4, <2>1
  <2>3. closings' \in Seq(Resources) /\ Stopped(IF connected THEN Len(StopSteps) ELSE Len(StopSteps) - 1)'
    <3>1. CASE connected
      BY <1>4, <1>7, <1>8, <3>1 DEF Stopped
    <3>2. CASE ~connected
      <4>1. closings' = closings /\ step = Len(StopSteps) - 1
        BY <1>2, <1>4, <1>8, <2>1, <3>2
      <4> QED
        BY <1>1, <1>2, <1>4, <3>2, <4>1 DEF Stopped
    <3> QED
      BY <3>1, <3>2
  <2>4. LifecycleType'
    BY <1>1, <1>4, <1>6, <2>1, <2>3 DEF LifecycleType
  <2> QED
    BY <1>5, <2>1, <2>2, <2>3, <2>4 DEF LifecycleInv, PhaseIs
<1>9. CASE step + 1 # Len(StopSteps)
  <2>1. phase' = "stop" /\ step' = step + 1
    BY <1>9 DEF StopStep, AfterStop
  <2>2. r # "manager" /\ step' < Len(StopSteps) /\ step' \in Nat
    BY <1>1, <1>2, <1>3, <1>9, <2>1, StopList
  <2>3. Stopped(step)' /\ closings' \in Seq(Resources)
    BY <1>7, <2>1, <2>2 DEF Stopped
  <2>4. LifecycleType' /\ (ready' => step' <= 1)
    BY <1>1, <1>4, <1>6, <2>1, <2>2, <2>3 DEF LifecycleType
  <2> QED
    BY <1>5, <1>6, <2>1, <2>2, <2>3, <2>4 DEF LifecycleInv, PhaseIs
<1> QED
  BY <1>8, <1>9

\* Every step of the process keeps the invariant.
LEMMA LifecycleKeeps == LifecycleInv /\ [LifecycleNext]_lifecycleVars => LifecycleInv'
<1> SUFFICES ASSUME LifecycleInv, [LifecycleNext]_lifecycleVars PROVE LifecycleInv'
  OBVIOUS
<1>1. CASE Make
  BY <1>1, MakeKeeps
<1>2. CASE FactoryFails
  BY <1>2, FactoryFailsKeeps
<1>3. CASE Undo
  BY <1>3, UndoKeeps
<1>4. CASE \E succeeds \in BOOLEAN : Connect(succeeds)
  BY <1>4, ConnectKeeps
<1>5. CASE \E passed \in SUBSET UNION ToSet(StartSteps) : StartStep(passed)
  BY <1>5, StartStepKeeps
<1>6. CASE Shutdown
  BY <1>6, ShutdownKeeps
<1>7. CASE \E raises \in BOOLEAN : StopStep(raises)
  BY <1>7, StopStepKeeps
<1>8. CASE UNCHANGED lifecycleVars
  BY <1>8 DEF lifecycleVars, LifecycleInv, LifecycleType, PhaseIs, MadeInOrder, Undone, Stopped, StartPassed
<1> QED
  BY <1>1, <1>2, <1>3, <1>4, <1>5, <1>6, <1>7, <1>8 DEF LifecycleNext

\* A prefix of the shutdown holds no resource twice, begins with the queue, and
\* holds the connection only as its last.
LEMMA StoppedInOrder ==
  ASSUME NEW k \in 0..Len(StopSteps), closings \in Seq(Resources), Stopped(k)
  PROVE  /\ IsInjective(closings)
         /\ \A r \in ToSet(closings) : ClosedBefore("task_queue", r) /\ ClosedBefore(r, "manager")
<1>1. /\ Len(StopSteps) \in Nat /\ k \in Nat /\ Len(closings) = k /\ DOMAIN closings = 1..k
      /\ \A n \in 1..k : n \in 1..Len(StopSteps) /\ closings[n] = StopSteps[n]
  BY StopList DEF Stopped
<1>2. IsInjective(closings)
  BY <1>1, StopList DEF IsInjective
<1>3. ASSUME NEW r \in ToSet(closings)
      PROVE  ClosedBefore("task_queue", r) /\ ClosedBefore(r, "manager")
  <2>1. PICK m \in 1..k : closings[m] = r
    BY <1>1, <1>3 DEF ToSet
  <2>2. 1 \in 1..k /\ closings[1] = "task_queue" /\ \A n \in 1..k : 1 \in 1..n
    BY <1>1, <2>1, StopList
  <2>3. \A n \in 1..k : closings[n] = "manager" => m \in 1..n
    <3>1. ASSUME NEW n \in 1..k, closings[n] = "manager" PROVE m \in 1..n
      <4>1. StopSteps[n] = StopSteps[Len(StopSteps)] /\ Len(StopSteps) \in 1..Len(StopSteps)
        BY <1>1, <3>1, StopList
      <4>2. n = Len(StopSteps)
        BY <1>1, <4>1, StopList
      <4> QED
        BY <1>1, <2>1, <4>2
    <3> QED
      BY <3>1
  <2> QED
    BY <1>1, <2>1, <2>2, <2>3 DEF ClosedBefore
<1> QED
  BY <1>2, <1>3

\* What each of the resources made needs closed.
LEMMA ClosesSet ==
  ASSUME NEW r \in Resources
  PROVE  ToSet(Closes(r)) = ClosedWith(r)
<1>1. Closes(r) \in Seq(Resources) /\ DOMAIN Closes(r) = 1..Len(Closes(r))
  BY ClosesHolds
<1>2. \A x : x \in ToSet(Closes(r)) <=> Occurs(Closes(r), x)
  BY <1>1 DEF ToSet, Occurs
<1> QED
  BY <1>2, ClosesHolds

\* What the resources of a set need closed.
LEMMA ClosesUnion ==
  ASSUME NEW S
  PROVE  \A x : x \in UNION {ToSet(Closes(r)) : r \in S} <=> \E r \in S : x \in ToSet(Closes(r))
OBVIOUS

\* A failed construction has closed what it made, both clients of Qwen included.
LEMMA FailedClosed ==
  ASSUME LifecycleInv, phase = "failed"
  PROVE  ToSet(closings) = MustClose
<1>1. LifecycleType /\ Undone(Len(owned)) /\ owned \in Seq(Resources) /\ closings \in Seq(Resources)
  BY InPhase DEF LifecycleInv, LifecycleType
<1>2. DOMAIN owned = 1..Len(owned) /\ Len(owned) \in Nat /\ DOMAIN closings = 1..Len(closings)
  BY <1>1
<1>3. Len(owned) - Len(owned) + 1 = 1
  BY <1>2
<1>4. \A x : x \in ToSet(closings) <=> \E n \in 1..Len(owned) : x \in ClosedWith(owned[n])
  BY <1>1, <1>2, <1>3 DEF ToSet, Occurs, Undone
<1>5. \A x : x \in MustClose <=> \E r \in ToSet(owned) : x \in ToSet(Closes(r))
  BY DEF MustClose
<1>6. \A n \in 1..Len(owned) : owned[n] \in Resources
  BY <1>1
<1>7. \A x : x \in MustClose <=> \E n \in 1..Len(owned) : x \in ClosedWith(owned[n])
  BY <1>2, <1>5, <1>6, ClosesSet DEF ToSet
<1> QED
  BY <1>4, <1>7

\* A process that is down has closed what was made, and the processing hook;
\* the connection too, if it was ever made.
LEMMA DownClosed ==
  ASSUME LifecycleInv, phase = "down"
  PROVE  ToSet(closings) = MustClose
<1>1. /\ LifecycleType /\ owned \in Seq(Resources) /\ closings \in Seq(Resources)
      /\ MadeInOrder(Len(Factories) - 1)
      /\ Stopped(IF connected THEN Len(StopSteps) ELSE Len(StopSteps) - 1)
  BY InPhase DEF LifecycleInv, LifecycleType
<1>2. /\ DOMAIN owned = 1..(Len(Factories) - 1) /\ DOMAIN closings = 1..Len(closings)
      /\ \A n \in 1..(Len(Factories) - 1) : owned[n] = Factories[n]
  BY <1>1 DEF MadeInOrder
<1>3. \A r : r \in ToSet(owned) <=> /\ r \in Resources \ {"qwen_async", "processing"}
                                    /\ r # "segmenter" \/ SeparateSegmenter
  <2>1. \A r : r \in ToSet(owned) <=> \E n \in 1..(Len(Factories) - 1) : Factories[n] = r
    BY <1>2 DEF ToSet
  <2> QED
    BY <2>1, FactoryList
<1>4. \A x : x \in ToSet(closings) <=> /\ x \in Resources
                                       /\ x # "segmenter" \/ SeparateSegmenter
                                       /\ x # "manager" \/ connected
  <2>1. \A r : (\E n \in 1..Len(StopSteps) : StopSteps[n] = r)
                  <=> r \in Resources /\ (r # "segmenter" \/ SeparateSegmenter)
    BY StopList
  <2>2. CASE connected
    <3>1. \A r : r \in ToSet(closings) <=> \E n \in 1..Len(StopSteps) : StopSteps[n] = r
      BY <1>1, <1>2, <2>2 DEF ToSet, Stopped
    <3> QED
      BY <2>1, <2>2, <3>1
  <2>3. CASE ~connected
    <3>1. \A r : r \in ToSet(closings) <=> \E n \in 1..(Len(StopSteps) - 1) : StopSteps[n] = r
      BY <1>1, <1>2, <2>3 DEF ToSet, Stopped
    <3>2. \A n : n \in 1..(Len(StopSteps) - 1) <=> n \in 1..Len(StopSteps) /\ StopSteps[n] # "manager"
      <4>1. \A n : n \in 1..(Len(StopSteps) - 1) <=> n \in 1..Len(StopSteps) /\ n # Len(StopSteps)
        BY StopList
      <4>2. Len(StopSteps) \in 1..Len(StopSteps)
        BY StopList
      <4> QED
        BY <4>1, <4>2, StopList
    <3> QED
      BY <2>1, <2>3, <3>1, <3>2
  <2> QED
    BY <2>2, <2>3
<1>5. \A x : x \in MustClose <=> \/ x = "processing"
                                 \/ \E r \in ToSet(owned) : (r # "manager" \/ connected) /\ x \in ToSet(Closes(r))
  <2>1. PICK S : S = ToSet(owned) \ (IF phase = "down" /\ ~connected THEN {"manager"} ELSE {})
    OBVIOUS
  <2>2. \A r : r \in S <=> r \in ToSet(owned) /\ (r # "manager" \/ connected)
    BY <2>1
  <2>3. MustClose = (UNION {ToSet(Closes(r)) : r \in S}) \cup {"processing"}
    BY <2>1 DEF MustClose
  <2>4. \A x : x \in UNION {ToSet(Closes(r)) : r \in S} <=> \E r \in S : x \in ToSet(Closes(r))
    BY ClosesUnion
  <2>5. \A x : x \in MustClose <=> x \in (UNION {ToSet(Closes(r)) : r \in S}) \/ x = "processing"
    BY <2>3
  <2> QED
    BY <2>2, <2>4, <2>5
<1>6. \A x : x \in MustClose <=> \/ x = "processing"
                                 \/ \E r \in ToSet(owned) : (r # "manager" \/ connected) /\ x \in ClosedWith(r)
  BY <1>3, <1>5, ClosesSet
<1>7. \A x : x \in MustClose <=> /\ x \in Resources
                                 /\ x # "segmenter" \/ SeparateSegmenter
                                 /\ x # "manager" \/ connected
  BY <1>3, <1>6 DEF ClosedWith, Resources
<1> QED
  BY <1>4, <1>7

\* What the invariant says of a process that has ended is what ResourcesClosed says.
LEMMA ClosedWhenItEnds == LifecycleInv => ResourcesClosed
<1> SUFFICES ASSUME LifecycleInv PROVE ResourcesClosed
  OBVIOUS
<1>0. LifecycleType /\ closings \in Seq(Resources)
  BY DEF LifecycleInv, LifecycleType
<1>1. Len(StopSteps) \in Nat \ {0, 1} /\ 0 \in 0..Len(StopSteps)
  BY StopList
<1>2. PICK k \in 0..Len(StopSteps) :
          phase \notin {"undo", "failed"} => Stopped(k) /\ (ready => k <= 1)
  <2>1. phase \in {"construct", "connect", "start", "serve"} => Stopped(0)
    BY InPhase DEF LifecycleInv
  <2>2. phase = "stop" => step \in 0..Len(StopSteps) /\ Stopped(step) /\ (ready => step <= 1)
    BY <1>0, <1>1, InPhase DEF LifecycleInv, LifecycleType
  <2>3. phase = "down" => ~ready /\ Stopped(IF connected THEN Len(StopSteps) ELSE Len(StopSteps) - 1)
    BY InPhase DEF LifecycleInv
  <2>4. (IF connected THEN Len(StopSteps) ELSE Len(StopSteps) - 1) \in 0..Len(StopSteps)
    BY <1>1
  <2>5. phase \in {"construct", "undo", "failed", "connect", "start", "serve", "stop", "down"}
    BY InPhase DEF LifecycleInv
  <2> QED
    BY <1>1, <2>1, <2>2, <2>3, <2>4, <2>5
<1>3. phase \in {"failed", "down"} => ~ready /\ ToSet(closings) = MustClose
  BY FailedClosed, DownClosed, InPhase DEF LifecycleInv
<1>4. IsInjective(closings)
  <2>1. phase = "undo" \/ phase = "failed" => IsInjective(closings)
    BY InPhase DEF LifecycleInv, Undone
  <2> QED
    BY <1>0, <1>2, <2>1, StoppedInOrder
<1>5. ready => checks = UNION ToSet(StartSteps) /\ ToSet(closings) \subseteq {"task_queue"}
  <2>1. SUFFICES ASSUME ready PROVE checks = UNION ToSet(StartSteps) /\ ToSet(closings) \subseteq {"task_queue"}
    OBVIOUS
  <2>2. phase \in {"serve", "stop"} /\ checks = Checks
    BY <2>1, InPhase DEF LifecycleInv
  <2>3. Stopped(k) /\ k <= 1
    BY <1>2, <2>1, <2>2
  <2>4. \A n \in DOMAIN closings : n = 1 /\ closings[n] = "task_queue"
    BY <1>0, <1>1, <2>3, StopList DEF Stopped
  <2> QED
    BY <2>2, <2>4, StartList DEF ToSet
<1>6. phase \in {"stop", "down"} => \A r \in ToSet(closings) :
         ClosedBefore("task_queue", r) /\ ClosedBefore(r, "manager")
  BY <1>0, <1>2, StoppedInOrder
<1> QED
  BY <1>3, <1>4, <1>5, <1>6 DEF ResourcesClosed

\* Whichever steps raise, what was made is closed once, in the order of the
\* shutdown, and never while the application says that it is ready.
THEOREM ResourcesAlwaysClosed == LifecycleSpec => []ResourcesClosed
<1>1. LifecycleInit => LifecycleInv
  BY LifecycleStarts
<1>2. LifecycleInv /\ [LifecycleNext]_lifecycleVars => LifecycleInv'
  BY LifecycleKeeps
<1>3. LifecycleInv => ResourcesClosed
  BY ClosedWhenItEnds
<1> QED
  BY <1>1, <1>2, <1>3, PTL DEF LifecycleSpec

---------------------------------------------------------------------------
(* TraceRegistry: sessions and the operations recorded in them *)

TraceOutcomes == {"running", "succeeded", "failed"}
Handles == TraceRequests \cup {NoHandle}
OperationRecords == [outcome : TraceOutcomes, exact : Nat, kept : Nat, mapping : Handles]
IsSession(t) ==
    \E D \in SUBSET TraceRequests :
        t \in [ops : [D -> OperationRecords], overflowed : BOOLEAN, faulted : BOOLEAN]
TraceRequestRecords ==
    [session : TraceSessions \cup {NoTrace}, handle : BOOLEAN, outcome : TraceOutcomes \cup {"new"},
     made : Nat, strays : Nat, lent : BOOLEAN]
WorkRecords == [queued : BOOLEAN, under : Handles, looking : Handles]

TraceType ==
    /\ captureMode \in {"deep", "evaluation"}
    /\ DOMAIN traces = TraceSessions
    /\ \A s \in Active : IsSession(traces[s])
    /\ started \subseteq TraceSessions
    /\ requests \in [TraceRequests -> TraceRequestRecords]

\* A request of no session has no handle, and one without a handle lends none.
\* What was observed under a handle by other work, was so in a deep trace, and a worker
\* was made under the handle.
HandleSound(r) ==
    /\ requests[r].outcome = "new" =>
          requests[r].session = NoTrace /\ requests[r].made = 0 /\ requests[r].strays = 0
    /\ requests[r].session = NoTrace => ~requests[r].handle
    /\ requests[r].session # NoTrace => requests[r].session \in started
    /\ requests[r].lent => requests[r].handle
    /\ requests[r].strays # 0 => requests[r].lent /\ ~Evaluation

\* An active session has an operation for each handle given out for it, with the
\* outcome of its request; one that has not been faulted has all its observations, and
\* one that has not overflowed refused no handle.  Its digest is of its own request, or
\* a worker was made under the handle.
SessionSound(s) ==
    /\ s \in started
    /\ \A r \in TraceRequests :
          r \in DOMAIN traces[s].ops <=> requests[r].session = s /\ requests[r].handle
    /\ \A r \in DOMAIN traces[s].ops :
          /\ traces[s].ops[r].outcome = requests[r].outcome
          /\ ~traces[s].faulted => traces[s].ops[r].exact = Observed(requests[r])
          /\ traces[s].ops[r].mapping \in {NoHandle, r} \/ requests[r].lent
    /\ ~traces[s].overflowed => \A r \in TraceRequests :
          requests[r].session = s => requests[r].handle

RegistryInv ==
    /\ TraceType
    /\ \A r \in TraceRequests : HandleSound(r)
    /\ \A s \in Active : SessionSound(s)
    /\ EvaluationIndependent

\* Work runs under a handle that was lent to a worker; what it looked at has a handle, of
\* its own or, in a deep trace, a lent one, and in an evaluation it has not succeeded.
WorkSound(r) ==
    /\ works[r].under # NoHandle => requests[works[r].under].lent
    /\ works[r].looking # NoHandle =>
          /\ requests[works[r].looking].handle
          /\ works[r].looking # r => requests[works[r].looking].lent /\ ~Evaluation
          /\ Evaluation => requests[works[r].looking].outcome # "succeeded"

WorksInv ==
    /\ works \in [TraceRequests -> WorkRecords]
    /\ worker \in [alive : BOOLEAN, handle : Handles]
    /\ \A r \in TraceRequests : WorkSound(r)
    /\ worker.handle # NoHandle => requests[worker.handle].lent

TraceInv == RegistryInv /\ WorksInv

\* What a session is made of, field by field.
LEMMA SessionFields ==
  ASSUME NEW t, IsSession(t)
  PROVE  /\ DOMAIN t.ops \subseteq TraceRequests /\ t.overflowed \in BOOLEAN /\ t.faulted \in BOOLEAN
         /\ \A r \in DOMAIN t.ops : t.ops[r] \in OperationRecords
BY DEF IsSession

\* A session that is faulted stays as it is otherwise.
LEMMA SessionFaulted ==
  ASSUME NEW t, IsSession(t), NEW u, u = [t EXCEPT !.faulted = TRUE]
  PROVE  IsSession(u) /\ u.ops = t.ops /\ u.overflowed = t.overflowed /\ u.faulted
<1>1. PICK D \in SUBSET TraceRequests :
         t \in [ops : [D -> OperationRecords], overflowed : BOOLEAN, faulted : BOOLEAN]
  BY DEF IsSession
<1>2. u \in [ops : [D -> OperationRecords], overflowed : BOOLEAN, faulted : BOOLEAN]
  BY <1>1
<1> QED
  BY <1>1, <1>2 DEF IsSession

\* A step that at most ends or faults sessions, and in an evaluation faults none
\* but those its requests are blamed for.
OnlyFaults ==
    /\ DOMAIN traces' = TraceSessions
    /\ \A s \in Active' :
          /\ s \in Active /\ IsSession(traces'[s])
          /\ traces'[s].ops = traces[s].ops /\ traces'[s].overflowed = traces[s].overflowed
          /\ traces[s].faulted => traces'[s].faulted
          /\ Evaluation /\ traces'[s].faulted => traces[s].faulted \/ s \in blamed'

\* _mark_fault changes nothing of a session but that it is faulted; in an evaluation
\* the session it names, in a deep trace every active one.
LEMMA MarkFaultSessions ==
  ASSUME TraceType, NEW session, MarkFault(session)
  PROVE  /\ DOMAIN traces' = TraceSessions
         /\ \A s \in Active' :
               /\ s \in Active /\ IsSession(traces'[s])
               /\ traces'[s].ops = traces[s].ops /\ traces'[s].overflowed = traces[s].overflowed
               /\ traces[s].faulted => traces'[s].faulted
               /\ Evaluation /\ traces'[s].faulted => traces[s].faulted \/ s = session
               /\ (Evaluation => s = session) => traces'[s].faulted
<1>1. DOMAIN traces' = TraceSessions
  BY DEF MarkFault
<1>2. ASSUME NEW s \in Active'
      PROVE  /\ s \in Active /\ IsSession(traces'[s])
             /\ traces'[s].ops = traces[s].ops /\ traces'[s].overflowed = traces[s].overflowed
             /\ traces[s].faulted => traces'[s].faulted
             /\ Evaluation /\ traces'[s].faulted => traces[s].faulted \/ s = session
             /\ (Evaluation => s = session) => traces'[s].faulted
  <2>1. s \in TraceSessions /\ traces'[s] # NoTrace
    BY DEF Active
  <2>2. traces'[s] = IF s \in Active /\ (Evaluation => s = session)
                     THEN [traces[s] EXCEPT !.faulted = TRUE] ELSE traces[s]
    BY <2>1 DEF MarkFault
  <2>3. s \in Active
    BY <2>1, <2>2 DEF Active
  <2>4. IsSession(traces[s])
    BY <2>3 DEF TraceType
  <2>5. CASE Evaluation => s = session
    <3>1. traces'[s] = [traces[s] EXCEPT !.faulted = TRUE]
      BY <2>2, <2>3, <2>5
    <3>2. PICK t, u : t = traces[s] /\ u = traces'[s]
      OBVIOUS
    <3>3. IsSession(u) /\ u.ops = t.ops /\ u.overflowed = t.overflowed /\ u.faulted
      BY <2>4, <3>1, <3>2, SessionFaulted
    <3> QED
      BY <2>3, <2>5, <3>2, <3>3
  <2>6. CASE ~(Evaluation => s = session)
    <3>1. traces'[s] = traces[s]
      BY <2>2, <2>6
    <3> QED
      BY <2>3, <2>4, <2>6, <3>1
  <2> QED
    BY <2>5, <2>6
<1> QED
  BY <1>1, <1>2

\* A step that only faults keeps the invariant when it changes no request with a
\* handle of a session that stays unfaulted.
LEMMA FaultsKeep ==
  ASSUME RegistryInv, OnlyFaults, captureMode' = captureMode, started' = started, blamed \subseteq blamed',
         requests' \in [TraceRequests -> TraceRequestRecords],
         \A r \in TraceRequests :
            /\ requests'[r].session = requests[r].session
            /\ requests'[r].handle = requests[r].handle
            /\ HandleSound(r)'
            /\ \A s \in Active' : requests[r].session = s /\ requests[r].handle =>
                  /\ requests'[r].outcome = requests[r].outcome
                  /\ requests[r].lent => requests'[r].lent
                  /\ Observed(requests'[r]) = Observed(requests[r]) \/ traces'[s].faulted
  PROVE  RegistryInv'
<1>1. TraceType'
  BY DEF RegistryInv, TraceType, OnlyFaults
<1>2. ASSUME NEW s \in Active' PROVE SessionSound(s)'
  <2>1. /\ s \in Active /\ SessionSound(s) /\ IsSession(traces[s]) /\ DOMAIN traces[s].ops \subseteq TraceRequests
        /\ traces'[s].ops = traces[s].ops /\ traces'[s].overflowed = traces[s].overflowed
        /\ traces[s].faulted => traces'[s].faulted
    BY SessionFields DEF RegistryInv, TraceType, OnlyFaults
  <2>2. s \in started'
    BY <2>1 DEF SessionSound
  <2>3. \A r \in TraceRequests :
          r \in DOMAIN traces'[s].ops <=> requests'[r].session = s /\ requests'[r].handle
    BY <2>1 DEF SessionSound
  <2>4. ASSUME NEW r \in DOMAIN traces[s].ops
        PROVE  /\ traces'[s].ops[r].outcome = requests'[r].outcome
               /\ ~traces'[s].faulted => traces'[s].ops[r].exact = Observed(requests'[r])
               /\ traces'[s].ops[r].mapping \in {NoHandle, r} \/ requests'[r].lent
    <3>1. /\ r \in TraceRequests /\ requests[r].session = s /\ requests[r].handle
          /\ traces[s].ops[r].outcome = requests[r].outcome
          /\ ~traces[s].faulted => traces[s].ops[r].exact = Observed(requests[r])
          /\ traces[s].ops[r].mapping \in {NoHandle, r} \/ requests[r].lent
      BY <2>1 DEF SessionSound
    <3>2. /\ requests'[r].outcome = requests[r].outcome
          /\ requests[r].lent => requests'[r].lent
          /\ Observed(requests'[r]) = Observed(requests[r]) \/ traces'[s].faulted
      BY <3>1
    <3> QED
      BY <2>1, <3>1, <3>2
  <2>5. ~traces'[s].overflowed => \A r \in TraceRequests :
          requests'[r].session = s => requests'[r].handle
    BY <2>1 DEF SessionSound
  <2> QED
    BY <2>1, <2>2, <2>3, <2>4, <2>5 DEF SessionSound
<1>3. EvaluationIndependent'
  BY DEF RegistryInv, OnlyFaults, EvaluationIndependent, Evaluation
<1> QED
  BY <1>1, <1>2, <1>3 DEF RegistryInv

\* No session is active at first.
LEMMA TraceStarts == TraceInit => TraceInv
<1> SUFFICES ASSUME TraceInit PROVE TraceInv
  OBVIOUS
<1>1. Active = {} /\ DOMAIN traces = TraceSessions
  BY DEF TraceInit, Active
<1>2. requests \in [TraceRequests -> TraceRequestRecords] /\ \A r \in TraceRequests : requests[r] = NewRequest
  BY DEF TraceInit, NewRequest, TraceRequestRecords, TraceOutcomes
<1>3. \A r \in TraceRequests : HandleSound(r)
  BY <1>2 DEF HandleSound, NewRequest
<1>4. RegistryInv
  BY <1>1, <1>2, <1>3 DEF TraceInit, RegistryInv, TraceType, EvaluationIndependent
<1>5. WorksInv
  <2>1. works \in [TraceRequests -> WorkRecords] /\ \A r \in TraceRequests : works[r] = NoWork
    BY DEF TraceInit, NoWork, WorkRecords, Handles
  <2>2. worker \in [alive : BOOLEAN, handle : Handles] /\ worker.handle = NoHandle
    BY DEF TraceInit, NoWorker, Handles
  <2>3. \A r \in TraceRequests : WorkSound(r)
    BY <2>1 DEF WorkSound, NoWork
  <2> QED
    BY <2>1, <2>2, <2>3 DEF WorksInv
<1> QED
  BY <1>4, <1>5 DEF TraceInv

\* A session that starts is new: no request can have been observed in it.
LEMMA StartTraceKeeps ==
  ASSUME RegistryInv, NEW s \in TraceSessions, StartTrace(s)
  PROVE  RegistryInv'
<1>1. /\ s \notin started /\ traces' = [traces EXCEPT ![s] = NewSession]
      /\ started' = started \cup {s} /\ UNCHANGED <<captureMode, requests, blamed>>
  BY DEF StartTrace
<1>2. TraceType /\ DOMAIN traces' = TraceSessions /\ traces'[s] = NewSession
      /\ \A t \in TraceSessions : t # s => traces'[t] = traces[t]
  BY <1>1 DEF RegistryInv, TraceType
<1>3. IsSession(NewSession) /\ DOMAIN NewSession.ops = {} /\ ~NewSession.faulted
  <2>1. NewSession.ops \in [{} -> OperationRecords]
    BY DEF NewSession
  <2>2. NewSession \in [ops : [{} -> OperationRecords], overflowed : BOOLEAN, faulted : BOOLEAN]
    BY DEF NewSession
  <2>3. DOMAIN NewSession.ops = {} /\ ~NewSession.faulted
    BY DEF NewSession
  <2> QED
    BY <2>2, <2>3 DEF IsSession
<1>4. \A r \in TraceRequests : requests[r].session # s
  BY <1>1, TraceLimits DEF RegistryInv, HandleSound
<1>5. ASSUME NEW t \in Active'
      PROVE  SessionSound(t)' /\ IsSession(traces'[t]) /\ (Evaluation' /\ traces'[t].faulted => t \in blamed')
  <2>1. CASE t = s
    BY <1>1, <1>2, <1>3, <1>4, <2>1 DEF SessionSound
  <2>2. CASE t # s
    <3>1. t \in Active /\ traces'[t] = traces[t]
      BY <1>2, <2>2 DEF Active
    <3>2. SessionSound(t) /\ IsSession(traces[t]) /\ (Evaluation /\ traces[t].faulted => t \in blamed)
      BY <3>1 DEF RegistryInv, TraceType, EvaluationIndependent
    <3> QED
      BY <1>1, <3>1, <3>2 DEF SessionSound, Evaluation
  <2> QED
    BY <2>1, <2>2
<1>6. TraceType'
  BY <1>1, <1>2, <1>5 DEF TraceType
<1>7. \A r \in TraceRequests : HandleSound(r)'
  BY <1>1 DEF RegistryInv, HandleSound, Evaluation
<1> QED
  BY <1>5, <1>6, <1>7 DEF RegistryInv, EvaluationIndependent

\* A deleted trace takes its operations along, and blames nobody.
LEMMA DeleteTraceKeeps ==
  ASSUME RegistryInv, NEW s \in TraceSessions, DeleteTrace(s)
  PROVE  RegistryInv' /\ OnlyFaults
<1>1. traces' = [traces EXCEPT ![s] = NoTrace] /\ UNCHANGED <<captureMode, started, requests, blamed>>
  BY DEF DeleteTrace
<1>2. /\ TraceType /\ DOMAIN traces' = TraceSessions
      /\ \A t \in Active' : t \in Active /\ traces'[t] = traces[t]
  BY <1>1 DEF RegistryInv, TraceType, Active
<1>3. OnlyFaults
  BY <1>2 DEF OnlyFaults, TraceType
<1>4. \A r \in TraceRequests : HandleSound(r)'
  BY <1>1 DEF RegistryInv, HandleSound, Evaluation
<1> QED
  BY <1>1, <1>2, <1>3, <1>4, FaultsKeep DEF TraceType

\* The request r, changed in one field or more, is the only one that is changed.
LEMMA OneRequest ==
  ASSUME requests \in [TraceRequests -> TraceRequestRecords], NEW r \in TraceRequests,
         NEW q \in TraceRequestRecords, requests' = [requests EXCEPT ![r] = q]
  PROVE  /\ requests' \in [TraceRequests -> TraceRequestRecords]
         /\ requests'[r] = q
         /\ \A o \in TraceRequests : o # r => requests'[o] = requests[o]
OBVIOUS

\* A request that begins without a handle is known to no session.
LEMMA BeginUntracked ==
  ASSUME RegistryInv, OnlyFaults, captureMode' = captureMode, started' = started, blamed \subseteq blamed',
         NEW r \in TraceRequests, requests[r].outcome = "new",
         requests' = [requests EXCEPT ![r].outcome = "running"]
  PROVE  RegistryInv'
<1>1. requests \in [TraceRequests -> TraceRequestRecords]
  BY DEF RegistryInv, TraceType
<1>2. PICK q : q = [requests[r] EXCEPT !.outcome = "running"]
  OBVIOUS
<1>3. /\ q \in TraceRequestRecords /\ q.session = requests[r].session /\ q.handle = requests[r].handle
      /\ q.made = requests[r].made /\ q.strays = requests[r].strays /\ q.lent = requests[r].lent
      /\ q.outcome = "running"
  BY <1>1, <1>2 DEF TraceRequestRecords, TraceOutcomes
<1>4. requests' = [requests EXCEPT ![r] = q]
  BY <1>2
<1>5. /\ requests' \in [TraceRequests -> TraceRequestRecords]
      /\ requests'[r] = q
      /\ \A o \in TraceRequests : o # r => requests'[o] = requests[o]
  BY <1>1, <1>3, <1>4, OneRequest
<1>6. /\ requests[r].session = NoTrace /\ ~requests[r].handle
      /\ requests[r].strays = 0 /\ ~requests[r].lent
  BY DEF RegistryInv, HandleSound
<1>7. ASSUME NEW o \in TraceRequests
      PROVE  /\ requests'[o].session = requests[o].session
             /\ requests'[o].handle = requests[o].handle
             /\ HandleSound(o)'
             /\ \A s \in Active' : requests[o].session = s /\ requests[o].handle =>
                  /\ requests'[o].outcome = requests[o].outcome
                  /\ requests[o].lent => requests'[o].lent
                  /\ Observed(requests'[o]) = Observed(requests[o]) \/ traces'[s].faulted
  <2>1. HandleSound(o)
    BY DEF RegistryInv
  <2>2. CASE o = r
    BY <1>3, <1>5, <1>6, <2>2 DEF HandleSound
  <2>3. CASE o # r
    BY <1>5, <2>1, <2>3 DEF HandleSound, Evaluation
  <2> QED
    BY <2>2, <2>3
<1> QED
  BY <1>5, <1>7, FaultsKeep

\* What a session becomes when a request that it did not know begins in it.
Begun(t, r, full) ==
    [t EXCEPT !.overflowed = @ \/ full,
              !.ops = IF full THEN @
                      ELSE [o \in DOMAIN @ \cup {r} |-> IF o = r THEN NewOperation ELSE @[o]]]

\* A session in which a request has begun an operation is still a session.
LEMMA SessionBegun ==
  ASSUME NEW t, IsSession(t), NEW r \in TraceRequests, NEW full \in BOOLEAN, NEW u, u = Begun(t, r, full)
  PROVE  /\ IsSession(u) /\ u.faulted = t.faulted
         /\ full => u.overflowed /\ u.ops = t.ops
         /\ ~full => /\ u.overflowed = t.overflowed
                     /\ DOMAIN u.ops = DOMAIN t.ops \cup {r} /\ u.ops[r] = NewOperation
                     /\ \A o \in DOMAIN t.ops : o # r => u.ops[o] = t.ops[o]
<1>1. PICK D \in SUBSET TraceRequests :
         t \in [ops : [D -> OperationRecords], overflowed : BOOLEAN, faulted : BOOLEAN]
  BY DEF IsSession
<1>2. NewOperation \in OperationRecords
  BY DEF NewOperation, OperationRecords, TraceOutcomes, Handles
<1>3. PICK os, ov : /\ os = IF full THEN t.ops
                            ELSE [o \in DOMAIN t.ops \cup {r} |->
                                     IF o = r THEN NewOperation ELSE t.ops[o]]
                    /\ ov = (t.overflowed \/ full)
  OBVIOUS
<1>4. u = [t EXCEPT !.overflowed = ov, !.ops = os]
  BY <1>1, <1>3 DEF Begun
<1>5. ov \in BOOLEAN /\ t.ops \in [D -> OperationRecords] /\ t.faulted \in BOOLEAN
  BY <1>1, <1>3, Zenon
<1>6. u.overflowed = ov /\ u.ops = os /\ u.faulted = t.faulted
  BY <1>1, <1>4
<1>7. CASE full
  <2>1. os = t.ops /\ ov
    BY <1>3, <1>7
  <2>2. u \in [ops : [D -> OperationRecords], overflowed : BOOLEAN, faulted : BOOLEAN]
    BY <1>1, <1>4, <1>5, <2>1
  <2> QED
    BY <1>6, <1>7, <2>1, <2>2 DEF IsSession
<1>8. CASE ~full
  <2>1. /\ os = [o \in D \cup {r} |-> IF o = r THEN NewOperation ELSE t.ops[o]]
        /\ DOMAIN t.ops = D
    BY <1>3, <1>5, <1>8
  <2>2. os \in [D \cup {r} -> OperationRecords]
    BY <1>2, <1>5, <2>1
  <2>3. u \in [ops : [D \cup {r} -> OperationRecords], overflowed : BOOLEAN, faulted : BOOLEAN]
    BY <1>1, <1>4, <1>5, <2>2
  <2>4. D \cup {r} \in SUBSET TraceRequests
    OBVIOUS
  <2>5. IsSession(u)
    BY <2>3, <2>4 DEF IsSession
  <2>6. ov = t.overflowed
    BY <1>1, <1>3, <1>8, Zenon
  <2>7. /\ DOMAIN os = D \cup {r} /\ os[r] = NewOperation
        /\ \A o \in D : o # r => os[o] = t.ops[o]
    BY <2>1
  <2> QED
    BY <1>6, <1>8, <2>1, <2>5, <2>6, <2>7
<1> QED
  BY <1>7, <1>8

\* A request that begins in an active session has an operation of it from then on, or
\* the session has overflowed.
LEMMA BeginTracked ==
  ASSUME RegistryInv, NEW r \in TraceRequests, NEW s \in Active, requests[r].outcome = "new",
         NEW full \in BOOLEAN,
         traces' = [traces EXCEPT
             ![s].overflowed = @ \/ full,
             ![s].ops = IF full THEN @
                        ELSE [o \in DOMAIN @ \cup {r} |-> IF o = r THEN NewOperation ELSE @[o]]],
         requests' = [requests EXCEPT ![r] = [@ EXCEPT !.session = s, !.handle = ~full,
                                                       !.outcome = "running"]],
         captureMode' = captureMode, started' = started, blamed' = blamed
  PROVE  /\ RegistryInv'
         /\ \A t \in Active, o \in TraceRequests : o \in DOMAIN traces[t].ops =>
               o # r /\ traces'[t].ops[o] = traces[t].ops[o]
<1>1. /\ requests \in [TraceRequests -> TraceRequestRecords] /\ DOMAIN traces = TraceSessions
      /\ IsSession(traces[s]) /\ s \in TraceSessions /\ HandleSound(r) /\ SessionSound(s)
  BY DEF RegistryInv, TraceType, Active
<1>2. PICK q \in TraceRequestRecords :
          /\ q = [requests[r] EXCEPT !.session = s, !.handle = ~full, !.outcome = "running"]
          /\ q.session = s /\ q.handle = ~full /\ q.outcome = "running"
          /\ q.made = requests[r].made /\ q.strays = requests[r].strays /\ q.lent = requests[r].lent
  <2>1. requests[r] \in TraceRequestRecords
    BY <1>1
  <2>2. PICK h \in BOOLEAN : h = ~full
    OBVIOUS
  <2>3. PICK q : q = [requests[r] EXCEPT !.session = s, !.handle = h, !.outcome = "running"]
    OBVIOUS
  <2>4. /\ q \in TraceRequestRecords /\ q.session = s /\ q.handle = h /\ q.outcome = "running"
        /\ q.made = requests[r].made /\ q.strays = requests[r].strays /\ q.lent = requests[r].lent
    BY <1>1, <2>1, <2>3 DEF TraceRequestRecords, TraceOutcomes
  <2> QED
    BY <2>2, <2>3, <2>4
<1>3. /\ requests' \in [TraceRequests -> TraceRequestRecords]
      /\ requests'[r] = q
      /\ \A o \in TraceRequests : o # r => requests'[o] = requests[o]
  <2>1. requests' = [requests EXCEPT ![r] = q]
    BY <1>2
  <2> QED
    BY <1>1, <2>1, OneRequest
<1>4. /\ requests[r].session = NoTrace /\ ~requests[r].handle
      /\ requests[r].made = 0 /\ requests[r].strays = 0 /\ ~requests[r].lent
  BY <1>1 DEF HandleSound
<1>5. PICK u : /\ u = Begun(traces[s], r, full)
               /\ IsSession(u) /\ u.faulted = traces[s].faulted
               /\ full => u.overflowed /\ u.ops = traces[s].ops
               /\ ~full => /\ u.overflowed = traces[s].overflowed
                           /\ DOMAIN u.ops = DOMAIN traces[s].ops \cup {r}
                           /\ u.ops[r] = NewOperation
                           /\ \A o \in DOMAIN traces[s].ops : o # r => u.ops[o] = traces[s].ops[o]
  <2>1. PICK t, u : t = traces[s] /\ u = Begun(t, r, full)
    OBVIOUS
  <2>2. /\ IsSession(u) /\ u.faulted = t.faulted
        /\ full => u.overflowed /\ u.ops = t.ops
        /\ ~full => /\ u.overflowed = t.overflowed
                    /\ DOMAIN u.ops = DOMAIN t.ops \cup {r} /\ u.ops[r] = NewOperation
                    /\ \A o \in DOMAIN t.ops : o # r => u.ops[o] = t.ops[o]
    BY <1>1, <2>1, SessionBegun
  <2> QED
    BY <2>1, <2>2
<1>6. /\ DOMAIN traces' = TraceSessions /\ traces'[s] = u
      /\ \A t \in TraceSessions : t # s => traces'[t] = traces[t]
  <2>1. traces' = [traces EXCEPT ![s] = u]
    BY <1>1, <1>5 DEF Begun
  <2> QED
    BY <1>1, <2>1
<1>7. r \notin DOMAIN traces[s].ops
  BY <1>1, <1>4 DEF SessionSound
<1>8. ASSUME NEW t \in Active' PROVE SessionSound(t)' /\ IsSession(traces'[t])
  <2>0. t \in TraceSessions /\ t # NoTrace
    BY TraceLimits DEF Active
  <2>1. CASE t = s
    <3>1. ASSUME NEW o \in TraceRequests
          PROVE  o \in DOMAIN u.ops <=> requests'[o].session = s /\ requests'[o].handle
      BY <1>1, <1>2, <1>3, <1>5, <1>7 DEF SessionSound
    <3>2. ASSUME NEW o \in DOMAIN u.ops
          PROVE  /\ u.ops[o].outcome = requests'[o].outcome
                 /\ ~u.faulted => u.ops[o].exact = Observed(requests'[o])
                 /\ u.ops[o].mapping \in {NoHandle, o} \/ requests'[o].lent
      <4>1. CASE o # r
        <5>1. o \in DOMAIN traces[s].ops /\ u.ops[o] = traces[s].ops[o] /\ o \in TraceRequests
          BY <1>1, <1>5, <4>1, <3>2, SessionFields
        <5> QED
          BY <1>1, <1>3, <1>5, <4>1, <5>1 DEF SessionSound
      <4>2. CASE o = r
        <5>1. ~full /\ u.ops[o] = NewOperation
          BY <1>5, <1>7, <3>2, <4>2
        <5>2. Observed(q) = 0
          BY <1>2, <1>4 DEF Observed
        <5>3. /\ NewOperation.exact = 0 /\ NewOperation.outcome = "running"
              /\ NewOperation.mapping = NoHandle
          BY DEF NewOperation
        <5> QED
          BY <1>2, <1>3, <4>2, <5>1, <5>2, <5>3
      <4> QED
        BY <4>1, <4>2
    <3>3. ASSUME ~u.overflowed, NEW o \in TraceRequests, requests'[o].session = s
          PROVE  requests'[o].handle
      <4>1. ~full /\ ~traces[s].overflowed
        BY <1>5, <3>3
      <4>2. CASE o = r
        BY <1>2, <1>3, <4>1, <4>2
      <4>3. CASE o # r
        <5>1. requests'[o] = requests[o]
          BY <1>3, <4>3
        <5>2. requests[o].session = s => requests[o].handle
          BY <1>1, <4>1, Zenon DEF SessionSound
        <5> QED
          BY <3>3, <5>1, <5>2
      <4> QED
        BY <4>2, <4>3
    <3>4. s \in started' /\ traces'[s] = u /\ IsSession(u)
      <4>1. s \in started
        BY <1>1, Zenon DEF SessionSound
      <4> QED
        BY <1>5, <1>6, <4>1, Zenon
    <3>5. SessionSound(s)'
      BY <3>1, <3>2, <3>3, <3>4 DEF SessionSound
    <3> QED
      BY <2>1, <3>4, <3>5
  <2>2. CASE t # s
    <3>1. t \in Active /\ traces'[t] = traces[t] /\ SessionSound(t) /\ IsSession(traces[t])
      BY <1>6, <2>2 DEF Active, RegistryInv, TraceType
    <3>2. \A o \in TraceRequests :
            requests'[o].session = t /\ requests'[o].handle <=> requests[o].session = t /\ requests[o].handle
      BY <1>2, <1>3, <1>4, <2>0, <2>2
    <3>3. \A o \in DOMAIN traces[t].ops : o \in TraceRequests /\ o # r
      BY <1>4, <2>0, <3>1, SessionFields DEF SessionSound
    <3>4. \A o \in TraceRequests : requests'[o].session = t => requests[o].session = t /\ requests'[o] = requests[o]
      BY <1>2, <1>3, <2>2
    <3>5. \A o \in TraceRequests :
             o \in DOMAIN traces'[t].ops <=> requests'[o].session = t /\ requests'[o].handle
      BY <3>1, <3>2 DEF SessionSound
    <3>6. \A o \in DOMAIN traces'[t].ops :
             /\ traces'[t].ops[o].outcome = requests'[o].outcome
             /\ ~traces'[t].faulted => traces'[t].ops[o].exact = Observed(requests'[o])
             /\ traces'[t].ops[o].mapping \in {NoHandle, o} \/ requests'[o].lent
      <4>1. TAKE o \in DOMAIN traces'[t].ops
      <4>2. o \in DOMAIN traces[t].ops /\ requests'[o] = requests[o]
        BY <1>3, <3>1, <3>3
      <4>3. /\ traces[t].ops[o].outcome = requests[o].outcome
            /\ ~traces[t].faulted => traces[t].ops[o].exact = Observed(requests[o])
            /\ traces[t].ops[o].mapping \in {NoHandle, o} \/ requests[o].lent
        BY <3>1, <4>2 DEF SessionSound
      <4> QED
        BY <3>1, <4>2, <4>3
    <3>7. ~traces'[t].overflowed => \A o \in TraceRequests :
             requests'[o].session = t => requests'[o].handle
      BY <3>1, <3>4 DEF SessionSound
    <3>8. t \in started'
      BY <3>1 DEF SessionSound
    <3>9. SessionSound(t)'
      BY <3>5, <3>6, <3>7, <3>8 DEF SessionSound
    <3> QED
      BY <3>1, <3>9
  <2> QED
    BY <2>1, <2>2
<1>9. ASSUME NEW o \in TraceRequests PROVE HandleSound(o)'
  <2>1. CASE o = r
    <3>1. s \in started
      BY <1>1 DEF SessionSound
    <3> QED
      BY <1>2, <1>3, <1>4, <2>1, <3>1, TraceLimits DEF HandleSound, Active
  <2>2. CASE o # r
    BY <1>3, <2>2 DEF HandleSound, Evaluation, RegistryInv
  <2> QED
    BY <2>1, <2>2
<1>10. EvaluationIndependent'
  <2>1. ASSUME NEW t \in Active', Evaluation, traces'[t].faulted PROVE t \in blamed
    <3>1. t \in TraceSessions /\ traces'[t] # NoTrace
      BY DEF Active
    <3>2. t \in Active /\ traces[t].faulted
      <4>1. CASE t = s
        BY <1>5, <1>6, <2>1, <4>1
      <4>2. CASE t # s
        BY <1>6, <2>1, <3>1, <4>2, Zenon DEF Active
      <4> QED
        BY <4>1, <4>2
    <3> QED
      BY <2>1, <3>2, Zenon DEF RegistryInv, EvaluationIndependent
  <2> QED
    BY <2>1 DEF EvaluationIndependent, Evaluation
<1>11. TraceType'
  BY <1>3, <1>6, <1>8 DEF TraceType, RegistryInv
<1>12. \A t \in Active, o \in TraceRequests : o \in DOMAIN traces[t].ops =>
               o # r /\ traces'[t].ops[o] = traces[t].ops[o]
  <2>1. ASSUME NEW t \in Active, NEW o \in DOMAIN traces[t].ops
        PROVE  o # r /\ traces'[t].ops[o] = traces[t].ops[o]
    <3>1. t \in TraceSessions /\ SessionSound(t)
      BY DEF Active, RegistryInv
    <3>2. o # r
      BY <1>4, <3>1, TraceLimits DEF SessionSound
    <3>3. CASE t = s
      BY <1>5, <1>6, <3>2, <3>3
    <3>4. CASE t # s
      BY <1>6, <3>1, <3>2, <3>4
    <3> QED
      BY <3>3, <3>4
  <2> QED
    BY <2>1
<1> QED
  BY <1>8, <1>9, <1>10, <1>11, <1>12 DEF RegistryInv

\* A request that begins gets a handle and an operation, or the session overflows.
LEMMA BeginOperationKeeps ==
  ASSUME RegistryInv, NEW r \in TraceRequests, NEW session \in TraceSessions,
         NEW malformed \in {"none", "session", "operation"}, BeginOperation(r, session, malformed)
  PROVE  /\ RegistryInv'
         /\ \/ OnlyFaults
            \/ \A t \in Active, o \in TraceRequests : o \in DOMAIN traces[t].ops =>
                  traces'[t].ops[o] = traces[t].ops[o]
<1>1. requests[r].outcome = "new" /\ UNCHANGED <<captureMode, started>> /\ TraceType
  BY DEF BeginOperation, RegistryInv
<1>2. UNCHANGED traces => OnlyFaults
  BY <1>1 DEF OnlyFaults, TraceType, Active
<1>3. CASE /\ malformed = "session"
           /\ IF Evaluation THEN UNCHANGED traces ELSE MarkFault(session)
           /\ requests' = [requests EXCEPT ![r].outcome = "running"]
           /\ blamed' = IF Evaluation THEN blamed ELSE blamed \cup Active
  <2>1. OnlyFaults
    <3>1. CASE Evaluation
      BY <1>2, <1>3, <3>1
    <3>2. CASE ~Evaluation
      BY <1>1, <1>3, <3>2, MarkFaultSessions DEF OnlyFaults
    <3> QED
      BY <3>1, <3>2
  <2>2. blamed \subseteq blamed'
    BY <1>3
  <2> QED
    BY <1>1, <1>3, <2>1, <2>2, BeginUntracked
<1>4. CASE /\ malformed = "operation"
           /\ MarkFault(session)
           /\ requests' = [requests EXCEPT ![r].outcome = "running"]
           /\ blamed' = blamed \cup {session}
  <2>1. OnlyFaults
    BY <1>1, <1>4, MarkFaultSessions DEF OnlyFaults
  <2>2. blamed \subseteq blamed'
    BY <1>4
  <2> QED
    BY <1>1, <1>4, <2>1, <2>2, BeginUntracked
<1>5. CASE /\ malformed = "none" /\ session \notin Active
           /\ requests' = [requests EXCEPT ![r].outcome = "running"]
           /\ UNCHANGED <<traces, blamed>>
  <2>1. OnlyFaults /\ blamed \subseteq blamed'
    BY <1>2, <1>5
  <2> QED
    BY <1>1, <1>5, <2>1, BeginUntracked
<1>6. CASE /\ malformed = "none" /\ session \in Active
           /\ LET full == Cardinality(DOMAIN traces[session].ops)
                             >= IF Evaluation THEN 1 ELSE MaxOperations
              IN /\ traces' = [traces EXCEPT
                        ![session].overflowed = @ \/ full,
                        ![session].ops = IF full THEN @
                                         ELSE [o \in DOMAIN @ \cup {r} |->
                                                  IF o = r THEN NewOperation ELSE @[o]]]
                 /\ requests' = [requests EXCEPT
                        ![r] = [@ EXCEPT !.session = session, !.handle = ~full,
                                         !.outcome = "running"]]
           /\ UNCHANGED blamed
  <2>0. PICK full : full = (Cardinality(DOMAIN traces[session].ops) >= IF Evaluation THEN 1 ELSE MaxOperations)
    OBVIOUS
  <2>1. full \in BOOLEAN
    BY <2>0
  <2>2. /\ traces' = [traces EXCEPT
               ![session].overflowed = @ \/ full,
               ![session].ops = IF full THEN @
                                ELSE [o \in DOMAIN @ \cup {r} |->
                                         IF o = r THEN NewOperation ELSE @[o]]]
        /\ requests' = [requests EXCEPT
               ![r] = [@ EXCEPT !.session = session, !.handle = ~full, !.outcome = "running"]]
    BY <1>6, <2>0, Zenon
  <2>3. UNCHANGED blamed /\ session \in Active
    BY <1>6
  <2>4. RegistryInv' /\ \A t \in Active, o \in TraceRequests : o \in DOMAIN traces[t].ops =>
               o # r /\ traces'[t].ops[o] = traces[t].ops[o]
    BY <1>1, <2>1, <2>2, <2>3, BeginTracked, Zenon
  <2> QED
    BY <2>4
<1> QED
  BY <1>3, <1>4, <1>5, <1>6, Zenon DEF BeginOperation

\* A step that puts down, for a request with a handle, what it observed or how it
\* ended, in its operation and in itself.
LEMMA OperationWritten ==
  ASSUME RegistryInv, NEW r \in TraceRequests, NEW s \in Active, requests[r].session = s, requests[r].handle,
         NEW op \in OperationRecords, NEW q \in TraceRequestRecords,
         traces' = [traces EXCEPT ![s].ops[r] = op], requests' = [requests EXCEPT ![r] = q],
         q.session = s, q.handle, op.outcome = q.outcome, q.outcome # "new",
         requests[r].lent => q.lent, q.strays # 0 => q.lent /\ ~Evaluation,
         ~traces[s].faulted => op.exact = Observed(q), op.mapping \in {NoHandle, r} \/ q.lent,
         captureMode' = captureMode, started' = started, blamed' = blamed
  PROVE  /\ RegistryInv'
         /\ \A t \in Active, o \in TraceRequests : o \in DOMAIN traces[t].ops /\ o # r =>
               traces'[t].ops[o] = traces[t].ops[o]
<1>1. /\ requests \in [TraceRequests -> TraceRequestRecords] /\ DOMAIN traces = TraceSessions
      /\ IsSession(traces[s]) /\ s \in TraceSessions /\ SessionSound(s) /\ r \in DOMAIN traces[s].ops
      /\ s # NoTrace
  BY TraceLimits DEF RegistryInv, TraceType, Active, SessionSound
<1>2. /\ requests' \in [TraceRequests -> TraceRequestRecords]
      /\ requests'[r] = q
      /\ \A o \in TraceRequests : o # r => requests'[o] = requests[o]
  BY <1>1, OneRequest
<1>3. PICK u : /\ u = [traces[s] EXCEPT !.ops[r] = op]
               /\ IsSession(u) /\ u.faulted = traces[s].faulted /\ u.overflowed = traces[s].overflowed
               /\ DOMAIN u.ops = DOMAIN traces[s].ops /\ u.ops[r] = op
               /\ \A o \in DOMAIN traces[s].ops : o # r => u.ops[o] = traces[s].ops[o]
  <2>1. PICK u : u = [traces[s] EXCEPT !.ops[r] = op]
    OBVIOUS
  <2>2. PICK t, D : /\ t = traces[s] /\ D \in SUBSET TraceRequests
                    /\ t \in [ops : [D -> OperationRecords], overflowed : BOOLEAN, faulted : BOOLEAN]
    BY <1>1 DEF IsSession
  <2>3. PICK os : os = [t.ops EXCEPT ![r] = op]
    OBVIOUS
  <2>4. /\ DOMAIN t.ops = D /\ r \in D /\ os \in [D -> OperationRecords] /\ os[r] = op
        /\ \A o \in D : o # r => os[o] = t.ops[o]
    BY <1>1, <2>2, <2>3
  <2>5. u = [t EXCEPT !.ops = os]
    BY <2>1, <2>2, <2>3
  <2>6. u \in [ops : [D -> OperationRecords], overflowed : BOOLEAN, faulted : BOOLEAN]
    BY <2>2, <2>4, <2>5
  <2>7. u.ops = os /\ u.faulted = t.faulted /\ u.overflowed = t.overflowed
    BY <2>2, <2>5
  <2>8. IsSession(u)
    BY <2>2, <2>6 DEF IsSession
  <2> QED
    BY <2>1, <2>2, <2>4, <2>7, <2>8
<1>4. /\ DOMAIN traces' = TraceSessions /\ traces'[s] = u
      /\ \A t \in TraceSessions : t # s => traces'[t] = traces[t]
  <2>1. traces' = [traces EXCEPT ![s] = u]
    BY <1>1, <1>3
  <2> QED
    BY <1>1, <2>1
<1>5. ASSUME NEW t \in Active' PROVE SessionSound(t)' /\ IsSession(traces'[t])
  <2>0. t \in TraceSessions /\ t # NoTrace
    BY TraceLimits DEF Active
  <2>1. CASE t = s
    <3>1. \A o \in TraceRequests : o \in DOMAIN u.ops <=> requests'[o].session = s /\ requests'[o].handle
      BY <1>1, <1>2, <1>3 DEF SessionSound
    <3>2. ASSUME NEW o \in DOMAIN u.ops
          PROVE  /\ u.ops[o].outcome = requests'[o].outcome
                 /\ ~u.faulted => u.ops[o].exact = Observed(requests'[o])
                 /\ u.ops[o].mapping \in {NoHandle, o} \/ requests'[o].lent
      <4>1. CASE o # r
        <5>1. o \in DOMAIN traces[s].ops /\ u.ops[o] = traces[s].ops[o] /\ requests'[o] = requests[o]
          BY <1>1, <1>2, <1>3, <3>2, <4>1, SessionFields
        <5>2. /\ traces[s].ops[o].outcome = requests[o].outcome
              /\ ~traces[s].faulted => traces[s].ops[o].exact = Observed(requests[o])
              /\ traces[s].ops[o].mapping \in {NoHandle, o} \/ requests[o].lent
          BY <1>1, <5>1 DEF SessionSound
        <5> QED
          BY <1>3, <5>1, <5>2
      <4>2. CASE o = r
        BY <1>2, <1>3, <4>2
      <4> QED
        BY <4>1, <4>2
    <3>3. ~u.overflowed => \A o \in TraceRequests : requests'[o].session = s => requests'[o].handle
      BY <1>1, <1>2, <1>3 DEF SessionSound
    <3>4. s \in started' /\ traces'[s] = u /\ IsSession(u)
      BY <1>1, <1>3, <1>4 DEF SessionSound
    <3>5. SessionSound(s)'
      BY <3>1, <3>2, <3>3, <3>4 DEF SessionSound
    <3> QED
      BY <2>1, <3>4, <3>5
  <2>2. CASE t # s
    <3>1. t \in Active /\ traces'[t] = traces[t] /\ SessionSound(t) /\ IsSession(traces[t])
      BY <1>4, <2>2 DEF Active, RegistryInv, TraceType
    <3>2. \A o \in TraceRequests : requests'[o].session = t \/ requests[o].session = t => requests'[o] = requests[o]
      BY <1>2, <2>2
    <3>3. \A o \in DOMAIN traces[t].ops : o \in TraceRequests /\ requests[o].session = t
      BY <3>1, SessionFields DEF SessionSound
    <3>4. \A o \in TraceRequests :
             o \in DOMAIN traces'[t].ops <=> requests'[o].session = t /\ requests'[o].handle
      BY <3>1, <3>2 DEF SessionSound
    <3>5. \A o \in DOMAIN traces'[t].ops :
             /\ traces'[t].ops[o].outcome = requests'[o].outcome
             /\ ~traces'[t].faulted => traces'[t].ops[o].exact = Observed(requests'[o])
             /\ traces'[t].ops[o].mapping \in {NoHandle, o} \/ requests'[o].lent
      <4>1. TAKE o \in DOMAIN traces'[t].ops
      <4>2. o \in DOMAIN traces[t].ops /\ requests'[o] = requests[o]
        BY <3>1, <3>2, <3>3
      <4>3. /\ traces[t].ops[o].outcome = requests[o].outcome
            /\ ~traces[t].faulted => traces[t].ops[o].exact = Observed(requests[o])
            /\ traces[t].ops[o].mapping \in {NoHandle, o} \/ requests[o].lent
        BY <3>1, <4>2 DEF SessionSound
      <4> QED
        BY <3>1, <4>2, <4>3
    <3>6. ~traces'[t].overflowed => \A o \in TraceRequests :
             requests'[o].session = t => requests'[o].handle
      BY <3>1, <3>2 DEF SessionSound
    <3>7. t \in started'
      BY <3>1 DEF SessionSound
    <3>8. SessionSound(t)'
      BY <3>4, <3>5, <3>6, <3>7 DEF SessionSound
    <3> QED
      BY <3>1, <3>8
  <2> QED
    BY <2>1, <2>2
<1>6. ASSUME NEW o \in TraceRequests PROVE HandleSound(o)'
  <2>1. CASE o = r
    <3>1. s \in started'
      BY <1>1 DEF SessionSound
    <3> QED
      BY <1>1, <1>2, <2>1, <3>1 DEF HandleSound, Evaluation
  <2>2. CASE o # r
    BY <1>2, <2>2 DEF HandleSound, Evaluation, RegistryInv
  <2> QED
    BY <2>1, <2>2
<1>7. EvaluationIndependent'
  <2>1. ASSUME NEW t \in Active', Evaluation, traces'[t].faulted PROVE t \in blamed
    BY <1>3, <1>4, <2>1 DEF RegistryInv, EvaluationIndependent, Active
  <2> QED
    BY <2>1 DEF EvaluationIndependent, Evaluation
<1>8. TraceType'
  BY <1>2, <1>4, <1>5 DEF TraceType, RegistryInv
<1>9. ASSUME NEW t \in Active, NEW o \in DOMAIN traces[t].ops, o # r
      PROVE  traces'[t].ops[o] = traces[t].ops[o]
  <2>1. t \in TraceSessions
    BY DEF Active
  <2>2. CASE t = s
    BY <1>3, <1>4, <1>9, <2>2
  <2>3. CASE t # s
    BY <1>4, <2>1, <2>3
  <2> QED
    BY <2>2, <2>3
<1> QED
  BY <1>5, <1>6, <1>7, <1>8, <1>9 DEF RegistryInv

\* The operations of the active sessions, but that of o, are not touched.
Spared(o) ==
    \A t \in Active, p \in TraceRequests :
        p \in DOMAIN traces[t].ops /\ p # o => traces'[t].ops[p] = traces[t].ops[p]

\* What such a step puts down: op in the session s, and q for its request.
Noted(s, r, op, q) ==
    /\ op \in OperationRecords /\ q \in TraceRequestRecords
    /\ requests[r].session = s /\ requests[r].handle /\ q.session = s /\ q.handle
    /\ traces' = [traces EXCEPT ![s].ops[r] = op] /\ requests' = [requests EXCEPT ![r] = q]
    /\ op.outcome = q.outcome /\ q.outcome # "new"
    /\ requests[r].lent => q.lent
    /\ q.strays # 0 => q.lent /\ ~Evaluation
    /\ ~traces[s].faulted => op.exact = Observed(q)
    /\ op.mapping \in {NoHandle, r} \/ q.lent
    /\ captureMode' = captureMode /\ started' = started /\ blamed' = blamed

\* It keeps the invariant and every other operation.
LEMMA NotedKeeps ==
  ASSUME RegistryInv, NEW r \in TraceRequests, NEW s \in Active, NEW op, NEW q, Noted(s, r, op, q)
  PROVE  RegistryInv' /\ Spared(r)
BY OperationWritten DEF Noted, Spared

\* What a step may make of one request that does not write into its operation.
Replaced(r, q) ==
    /\ q \in TraceRequestRecords /\ requests' = [requests EXCEPT ![r] = q]
    /\ q.session = requests[r].session /\ q.handle = requests[r].handle /\ q.outcome # "new"
    /\ q.lent => q.handle
    /\ q.strays # 0 => q.lent /\ ~Evaluation
    /\ \A s \in Active' : requests[r].session = s /\ requests[r].handle =>
            /\ q.outcome = requests[r].outcome
            /\ requests[r].lent => q.lent
            /\ Observed(q) = Observed(requests[r]) \/ traces'[s].faulted
    /\ captureMode' = captureMode /\ started' = started /\ blamed \subseteq blamed'

\* FaultsKeep for a step that changes one request.
LEMMA OneFaultKeeps ==
  ASSUME RegistryInv, OnlyFaults, captureMode' = captureMode, started' = started, blamed \subseteq blamed',
         NEW r \in TraceRequests, NEW q \in TraceRequestRecords, requests' = [requests EXCEPT ![r] = q],
         q.session = requests[r].session, q.handle = requests[r].handle, q.outcome # "new",
         q.lent => q.handle, q.strays # 0 => q.lent /\ ~Evaluation,
         \A s \in Active' : requests[r].session = s /\ requests[r].handle =>
            /\ q.outcome = requests[r].outcome
            /\ requests[r].lent => q.lent
            /\ Observed(q) = Observed(requests[r]) \/ traces'[s].faulted
  PROVE  RegistryInv'
<1>1. /\ requests' \in [TraceRequests -> TraceRequestRecords]
      /\ requests'[r] = q
      /\ \A o \in TraceRequests : o # r => requests'[o] = requests[o]
  BY OneRequest DEF RegistryInv, TraceType
<1>2. ASSUME NEW o \in TraceRequests
      PROVE  /\ requests'[o].session = requests[o].session
             /\ requests'[o].handle = requests[o].handle
             /\ HandleSound(o)'
             /\ \A s \in Active' : requests[o].session = s /\ requests[o].handle =>
                  /\ requests'[o].outcome = requests[o].outcome
                  /\ requests[o].lent => requests'[o].lent
                  /\ Observed(requests'[o]) = Observed(requests[o]) \/ traces'[s].faulted
  <2>1. HandleSound(o)
    BY DEF RegistryInv
  <2>2. CASE o = r
    BY <1>1, <2>1, <2>2 DEF HandleSound, Evaluation
  <2>3. CASE o # r
    BY <1>1, <2>1, <2>3 DEF HandleSound, Evaluation
  <2> QED
    BY <2>2, <2>3
<1> QED
  BY <1>1, <1>2, FaultsKeep

\* The same, in one word.
LEMMA ReplacedKeeps ==
  ASSUME RegistryInv, OnlyFaults, NEW r \in TraceRequests, NEW q, Replaced(r, q)
  PROVE  RegistryInv'
BY OneFaultKeeps DEF Replaced

\* A request that begins a second time faults its own session.
LEMMA BeginAgainKeeps ==
  ASSUME RegistryInv, NEW r \in TraceRequests, BeginAgain(r)
  PROVE  RegistryInv' /\ OnlyFaults
<1>1. PICK s \in Active : s = requests[r].session
  BY DEF BeginAgain
<1>2. /\ traces' = [traces EXCEPT ![s].faulted = TRUE] /\ blamed' = blamed \cup {s}
      /\ UNCHANGED <<captureMode, started, requests>>
  BY <1>1 DEF BeginAgain
<1>3. TraceType /\ s \in TraceSessions /\ IsSession(traces[s]) /\ DOMAIN traces = TraceSessions
  BY DEF RegistryInv, TraceType, Active
<1>4. PICK u : /\ u = [traces[s] EXCEPT !.faulted = TRUE] /\ IsSession(u) /\ u.ops = traces[s].ops
               /\ u.overflowed = traces[s].overflowed /\ u.faulted
  <2>1. PICK t, u : t = traces[s] /\ u = [t EXCEPT !.faulted = TRUE]
    OBVIOUS
  <2>2. IsSession(u) /\ u.ops = t.ops /\ u.overflowed = t.overflowed /\ u.faulted
    BY <1>3, <2>1, SessionFaulted
  <2> QED
    BY <2>1, <2>2
<1>5. /\ DOMAIN traces' = TraceSessions /\ traces'[s] = u
      /\ \A t \in TraceSessions : t # s => traces'[t] = traces[t]
  <2>1. traces' = [traces EXCEPT ![s] = u]
    BY <1>2, <1>3, <1>4
  <2> QED
    BY <1>3, <2>1
<1>6. OnlyFaults
  <2>1. ASSUME NEW t \in Active'
        PROVE  /\ t \in Active /\ IsSession(traces'[t])
               /\ traces'[t].ops = traces[t].ops /\ traces'[t].overflowed = traces[t].overflowed
               /\ traces[t].faulted => traces'[t].faulted
               /\ Evaluation /\ traces'[t].faulted => traces[t].faulted \/ t \in blamed'
    <3>1. CASE t = s
      BY <1>2, <1>4, <1>5, <3>1
    <3>2. CASE t # s
      <4>1. t \in Active /\ traces'[t] = traces[t]
        BY <1>5, <3>2 DEF Active
      <4> QED
        BY <1>3, <4>1 DEF TraceType
    <3> QED
      BY <3>1, <3>2
  <2> QED
    BY <1>5, <2>1 DEF OnlyFaults
<1>7. \A o \in TraceRequests : HandleSound(o)'
  BY <1>2 DEF RegistryInv, HandleSound, Evaluation
<1>8. blamed \subseteq blamed' /\ requests' \in [TraceRequests -> TraceRequestRecords]
  BY <1>2, <1>3 DEF TraceType
<1> QED
  BY <1>2, <1>6, <1>7, <1>8, FaultsKeep

\* A step that changes no request and at most faults sessions keeps the invariant.
LEMMA RequestsSame ==
  ASSUME RegistryInv, OnlyFaults, UNCHANGED <<captureMode, started, requests>>, blamed \subseteq blamed'
  PROVE  RegistryInv'
<1>1. \A o \in TraceRequests : HandleSound(o)'
  BY DEF RegistryInv, HandleSound, Evaluation
<1>2. requests' \in [TraceRequests -> TraceRequestRecords]
  BY DEF RegistryInv, TraceType
<1> QED
  BY <1>1, <1>2, FaultsKeep

\* Where no session is changed, none is faulted.
LEMMA TracesSame ==
  ASSUME TraceType, UNCHANGED traces
  PROVE  OnlyFaults
BY DEF OnlyFaults, TraceType, Active

\* A request that looks at an operation changes no request, and faults at most a session
\* that is gone, or in a deep trace the one that is there.
LEMMA LookKeeps ==
  ASSUME RegistryInv, NEW r \in TraceRequests, Look(r)
  PROVE  RegistryInv' /\ OnlyFaults
<1>1. TraceType /\ UNCHANGED <<captureMode, started, requests, blamed>>
  BY DEF RegistryInv, Look
<1>2. PICK session : session = requests[Context(r)].session
  OBVIOUS
<1>3. OnlyFaults
  <2>1. CASE session \in Active
    BY <1>1, <1>2, <2>1, TracesSame DEF Look
  <2>2. CASE session \notin Active
    <3>1. MarkFault(session)
      BY <1>2, <2>2 DEF Look
    <3> QED
      BY <1>1, <2>2, <3>1, MarkFaultSessions DEF OnlyFaults
  <2> QED
    BY <2>1, <2>2
<1> QED
  BY <1>1, <1>3, RequestsSame

\* A request with another outcome.
LEMMA OutcomeSet ==
  ASSUME NEW p \in TraceRequestRecords, NEW outcome \in TraceOutcomes, NEW q, q = [p EXCEPT !.outcome = outcome]
  PROVE  /\ q \in TraceRequestRecords /\ q.session = p.session /\ q.handle = p.handle
         /\ q.outcome = outcome /\ q.lent = p.lent /\ q.strays = p.strays /\ q.made = p.made
         /\ Observed(q) = Observed(p)
BY DEF TraceRequestRecords, TraceOutcomes, Observed

\* A request that lends its handle, or has none to lend.
LEMMA LentSet ==
  ASSUME NEW p \in TraceRequestRecords, NEW lent \in BOOLEAN, NEW q, q = [p EXCEPT !.lent = lent]
  PROVE  /\ q \in TraceRequestRecords /\ q.session = p.session /\ q.handle = p.handle
         /\ q.outcome = p.outcome /\ q.lent = lent /\ q.strays = p.strays /\ q.made = p.made
         /\ Observed(q) = Observed(p)
BY DEF TraceRequestRecords, Observed

\* A request for which one more count of items is kept, of its own or of other work.
LEMMA MadeSet ==
  ASSUME NEW p \in TraceRequestRecords, NEW items \in Nat, NEW q, q = [p EXCEPT !.made = @ + items]
  PROVE  /\ q \in TraceRequestRecords /\ q.session = p.session /\ q.handle = p.handle
         /\ q.outcome = p.outcome /\ q.lent = p.lent /\ q.strays = p.strays
         /\ Observed(q) = Observed(p) + items
<1>1. PICK made \in Nat : made = p.made + items /\ p.made \in Nat /\ p.strays \in Nat
  BY DEF TraceRequestRecords
<1>2. q = [p EXCEPT !.made = made]
  BY <1>1
<1>3. /\ q \in TraceRequestRecords /\ q.session = p.session /\ q.handle = p.handle
      /\ q.outcome = p.outcome /\ q.lent = p.lent /\ q.strays = p.strays /\ q.made = made
  BY <1>2 DEF TraceRequestRecords
<1>4. Observed(q) = Observed(p) + items
  BY <1>1, <1>3 DEF Observed
<1> QED
  BY <1>3, <1>4

\* The same for a count of other work.
LEMMA StraysSet ==
  ASSUME NEW p \in TraceRequestRecords, NEW items \in Nat, NEW q, q = [p EXCEPT !.strays = @ + items]
  PROVE  /\ q \in TraceRequestRecords /\ q.session = p.session /\ q.handle = p.handle
         /\ q.outcome = p.outcome /\ q.lent = p.lent
         /\ Observed(q) = Observed(p) + items
<1>1. PICK strays \in Nat : strays = p.strays + items /\ p.made \in Nat /\ p.strays \in Nat
  BY DEF TraceRequestRecords
<1>2. q = [p EXCEPT !.strays = strays]
  BY <1>1
<1>3. /\ q \in TraceRequestRecords /\ q.session = p.session /\ q.handle = p.handle
      /\ q.outcome = p.outcome /\ q.lent = p.lent /\ q.strays = strays /\ q.made = p.made
  BY <1>2 DEF TraceRequestRecords
<1>4. Observed(q) = Observed(p) + items
  BY <1>1, <1>3 DEF Observed
<1> QED
  BY <1>3, <1>4

\* What a request becomes when items are observed under its handle: nothing of it
\* changes but the counts, and items of others only count under a lent handle.
IsCounted(p, q, items) ==
    /\ q \in TraceRequestRecords /\ q.session = p.session /\ q.handle = p.handle
    /\ q.outcome = p.outcome /\ q.lent = p.lent /\ Observed(q) = Observed(p) + items
    /\ q.strays # 0 => q.lent /\ ~Evaluation

\* Items are counted in the request whose handle is active.
LEMMA CountedRequest ==
  ASSUME RegistryInv, NEW r \in TraceRequests, NEW o \in TraceRequests, NEW items \in Nat,
         o # r => requests[o].lent /\ ~Evaluation, requests' = Counted(r, o, items)
  PROVE  \E q : requests' = [requests EXCEPT ![o] = q] /\ IsCounted(requests[o], q, items)
<1>1. requests \in [TraceRequests -> TraceRequestRecords] /\ HandleSound(o)
  BY DEF RegistryInv, TraceType
<1>2. PICK p \in TraceRequestRecords : p = requests[o] /\ (p.strays # 0 => p.lent /\ ~Evaluation)
  BY <1>1 DEF HandleSound
<1>3. CASE o = r
  <2>1. PICK q : q = [p EXCEPT !.made = @ + items]
    OBVIOUS
  <2>2. requests' = [requests EXCEPT ![o] = q]
    BY <1>1, <1>2, <1>3, <2>1 DEF Counted
  <2>3. IsCounted(p, q, items)
    BY <1>2, <2>1, MadeSet DEF IsCounted
  <2> QED
    BY <1>2, <2>2, <2>3
<1>4. CASE o # r
  <2>1. PICK q : q = [p EXCEPT !.strays = @ + items]
    OBVIOUS
  <2>2. requests' = [requests EXCEPT ![o] = q]
    BY <1>1, <1>2, <1>4, <2>1 DEF Counted
  <2>3. IsCounted(p, q, items)
    BY <1>2, <1>4, <2>1, StraysSet DEF IsCounted
  <2> QED
    BY <1>2, <2>2, <2>3
<1> QED
  BY <1>3, <1>4

\* For r, the operation o was looked at, which is one with a handle.
LooksAt(r, o) ==
    /\ o = works[r].looking /\ requests[o].handle /\ requests[o].outcome \in TraceOutcomes
    /\ o # r => requests[o].lent /\ ~Evaluation
    /\ Evaluation => requests[o].outcome # "succeeded"

\* The operation that was looked at is such a one.
LEMMA LookedAt ==
  ASSUME TraceInv, NEW r \in TraceRequests, works[r].looking # NoHandle
  PROVE  \E o \in TraceRequests : LooksAt(r, o)
<1>1. WorkSound(r) /\ works[r].looking \in TraceRequests
  BY DEF TraceInv, WorksInv, WorkRecords, Handles
<1>2. PICK o \in TraceRequests : o = works[r].looking
  BY <1>1
<1>3. requests[o] \in TraceRequestRecords /\ HandleSound(o) /\ requests[o].handle
  BY <1>1, <1>2 DEF TraceInv, RegistryInv, TraceType, WorkSound
<1>4. requests[o].outcome \in TraceOutcomes
  BY <1>3 DEF HandleSound, TraceRequestRecords
<1>5. LooksAt(r, o)
  BY <1>1, <1>2, <1>3, <1>4 DEF WorkSound, LooksAt
<1> QED
  BY <1>5

\* An observation that is not valid faults the session of the handle it was made under.
LEMMA RecordInvalidKeeps ==
  ASSUME TraceInv, NEW r \in TraceRequests, RecordInvalid(r)
  PROVE  RegistryInv' /\ OnlyFaults
<1>1. PICK o \in TraceRequests :
         /\ o = works[r].looking /\ requests[o].handle /\ requests[o].outcome \in TraceOutcomes
         /\ o # r => requests[o].lent /\ ~Evaluation
  <2>1. works[r].looking # NoHandle
    BY Zenon DEF RecordInvalid
  <2>2. PICK o \in TraceRequests : LooksAt(r, o)
    BY <2>1, LookedAt
  <2> QED
    BY <2>2, Zenon DEF LooksAt
<1>2. /\ RegistryInv /\ TraceType /\ HandleSound(o) /\ UNCHANGED <<captureMode, started>>
      /\ requests' = Counted(r, o, 1) /\ MarkFault(requests[o].session)
      /\ blamed' = blamed \cup {requests[o].session}
  BY <1>1 DEF TraceInv, RegistryInv, RecordInvalid
<1>3. PICK q : requests' = [requests EXCEPT ![o] = q] /\ IsCounted(requests[o], q, 1)
  BY <1>1, <1>2, CountedRequest
<1>4. /\ OnlyFaults
      /\ \A s \in Active' : (Evaluation => s = requests[o].session) => traces'[s].faulted
  BY <1>2, MarkFaultSessions DEF OnlyFaults
<1>5. \A s \in Active' : requests[o].session = s => traces'[s].faulted
  BY <1>4
<1>6. q.outcome # "new" /\ blamed \subseteq blamed' /\ (q.lent => q.handle)
  BY <1>1, <1>2, <1>3 DEF HandleSound, IsCounted, TraceOutcomes
<1> QED
  BY <1>2, <1>3, <1>4, <1>5, <1>6, OneFaultKeeps DEF IsCounted

\* What an operation becomes when it records.
IsRecorded(op, w, items) ==
    /\ w \in OperationRecords /\ w.outcome = op.outcome /\ w.exact = op.exact + items
    /\ w.mapping = op.mapping

\* A sample changes the counts of an operation, and no other part of it.
LEMMA OperationRecorded ==
  ASSUME NEW op \in OperationRecords, NEW items \in Nat
  PROVE  IsRecorded(op, Recorded(op, items), items)
<1>0. PICK w : w = Recorded(op, items)
  OBVIOUS
<1>1. op.exact + items \in Nat /\ op.kept + items \in Nat
  BY DEF OperationRecords
<1>2. PICK kept \in Nat : kept = Min({SampleLimit, op.kept + items})
  <2>1. SampleLimit \in Nat
    BY TraceLimits
  <2>2. \E m \in {SampleLimit, op.kept + items} : \A y \in {SampleLimit, op.kept + items} : m <= y
    BY <1>1, <2>1
  <2>3. Min({SampleLimit, op.kept + items}) \in {SampleLimit, op.kept + items}
    BY <2>2, Zenon DEF Min
  <2> QED
    BY <1>1, <2>1, <2>3
<1>3. PICK exact \in Nat : exact = op.exact + items
  BY <1>1
<1>4. w = [op EXCEPT !.exact = exact, !.kept = kept]
  BY <1>0, <1>2, <1>3 DEF Recorded, OperationRecords
<1>5. /\ w \in OperationRecords /\ w.outcome = op.outcome /\ w.exact = op.exact + items
      /\ w.mapping = op.mapping
  BY <1>3, <1>4 DEF OperationRecords
<1> QED
  BY <1>0, <1>5, Zenon DEF IsRecorded

\* The session s has the operation of the handle of o.
IsBehind(o, s) ==
    /\ s = requests[o].session /\ s \in TraceSessions /\ IsSession(traces[s])
    /\ o \in DOMAIN traces[s].ops /\ traces[s].ops[o] \in OperationRecords
    /\ traces[s].ops[o].outcome = requests[o].outcome
    /\ ~traces[s].faulted => traces[s].ops[o].exact = Observed(requests[o])
    /\ traces[s].ops[o].mapping \in {NoHandle, o} \/ requests[o].lent

\* The operation behind a handle, in its session that goes on.
LEMMA OperationThere ==
  ASSUME RegistryInv, NEW o \in TraceRequests, requests[o].handle, requests[o].session \in Active
  PROVE  \E s \in Active : IsBehind(o, s)
<1>1. PICK s \in Active : s = requests[o].session
  OBVIOUS
<1>2. SessionSound(s) /\ IsSession(traces[s]) /\ s \in TraceSessions
  BY DEF RegistryInv, TraceType, Active
<1>3. o \in DOMAIN traces[s].ops
  BY <1>1, <1>2 DEF SessionSound
<1>4. traces[s].ops[o] \in OperationRecords
  BY <1>2, <1>3, SessionFields
<1>5. /\ traces[s].ops[o].outcome = requests[o].outcome
      /\ ~traces[s].faulted => traces[s].ops[o].exact = Observed(requests[o])
      /\ traces[s].ops[o].mapping \in {NoHandle, o} \/ requests[o].lent
  BY <1>2, <1>3 DEF SessionSound
<1> QED
  BY <1>1, <1>2, <1>3, <1>4, <1>5 DEF IsBehind

\* A recorded observation is counted in the operation it was made under.
LEMMA RecordKeeps ==
  ASSUME TraceInv, NEW r \in TraceRequests, NEW items \in 1..2, Record(r, items)
  PROVE  /\ RegistryInv'
         /\ \/ OnlyFaults
            \/ \E o \in TraceRequests : (Evaluation => requests[o].outcome # "succeeded") /\ Spared(o)
<1>1. PICK o \in TraceRequests :
         /\ o = works[r].looking /\ requests[o].handle /\ requests[o].outcome \in TraceOutcomes
         /\ o # r => requests[o].lent /\ ~Evaluation
         /\ Evaluation => requests[o].outcome # "succeeded"
  <2>1. works[r].looking # NoHandle
    BY Zenon DEF Record
  <2>2. PICK o \in TraceRequests : LooksAt(r, o)
    BY <2>1, LookedAt
  <2> QED
    BY <2>2, Zenon DEF LooksAt
<1>2. /\ RegistryInv /\ TraceType /\ HandleSound(o) /\ UNCHANGED <<captureMode, started, blamed>>
      /\ requests' = Counted(r, o, items) /\ items \in Nat
      /\ IF requests[o].session \in Active
         THEN traces' = [traces EXCEPT ![requests[o].session].ops[o] = Recorded(@, items)]
         ELSE MarkFault(requests[o].session)
  <2>1. RegistryInv /\ TraceType /\ HandleSound(o) /\ items \in Nat
    BY DEF TraceInv, RegistryInv
  <2>2. captureMode' = captureMode /\ started' = started /\ blamed' = blamed
    BY Zenon DEF Record
  <2>3. /\ requests' = Counted(r, o, items)
        /\ IF requests[o].session \in Active
           THEN traces' = [traces EXCEPT ![requests[o].session].ops[o] = Recorded(@, items)]
           ELSE MarkFault(requests[o].session)
    BY <1>1, Zenon DEF Record
  <2> QED
    BY <2>1, <2>2, <2>3
<1>3. PICK q : requests' = [requests EXCEPT ![o] = q] /\ IsCounted(requests[o], q, items)
  BY <1>1, <1>2, CountedRequest
<1>4. q.outcome # "new" /\ blamed \subseteq blamed' /\ (q.lent => q.handle)
  BY <1>1, <1>2, <1>3 DEF HandleSound, IsCounted, TraceOutcomes
<1>5. CASE requests[o].session \in Active
  <2>1. PICK s \in Active :
            /\ s = requests[o].session /\ s \in TraceSessions /\ IsSession(traces[s])
            /\ o \in DOMAIN traces[s].ops /\ traces[s].ops[o] \in OperationRecords
            /\ traces[s].ops[o].outcome = requests[o].outcome
            /\ ~traces[s].faulted => traces[s].ops[o].exact = Observed(requests[o])
            /\ traces[s].ops[o].mapping \in {NoHandle, o} \/ requests[o].lent
    <3>1. RegistryInv /\ requests[o].handle /\ requests[o].session \in Active
      BY <1>1, <1>2, <1>5
    <3>2. PICK s \in Active : IsBehind(o, s)
      BY <3>1, OperationThere
    <3> QED
      BY <3>2, Zenon DEF IsBehind
  <2>2. PICK before, op : before = traces[s].ops[o] /\ op = Recorded(before, items)
    OBVIOUS
  <2>3. /\ op \in OperationRecords /\ op.outcome = before.outcome /\ op.exact = before.exact + items
        /\ op.mapping = before.mapping
    <3>1. before \in OperationRecords /\ items \in Nat
      BY <1>2, <2>1, <2>2
    <3>2. IsRecorded(before, op, items)
      BY <2>2, <3>1, OperationRecorded, Zenon
    <3> QED
      BY <3>2, Zenon DEF IsRecorded
  <2>4. traces' = [traces EXCEPT ![s].ops[o] = op]
    <3>1. traces' = [traces EXCEPT ![s].ops[o] = Recorded(@, items)]
      BY <1>2, <1>5, <2>1
    <3> QED
      BY <1>2, <2>1, <2>2, <3>1 DEF TraceType
  <2>5. ~traces[s].faulted => op.exact = Observed(q)
    BY <1>3, <2>1, <2>2, <2>3, Zenon DEF IsCounted
  <2>6. /\ op.outcome = q.outcome /\ (op.mapping \in {NoHandle, o} \/ q.lent)
        /\ q.session = s /\ q.handle /\ q \in TraceRequestRecords
        /\ (requests[o].lent => q.lent) /\ (q.strays # 0 => q.lent /\ ~Evaluation)
    BY <1>1, <1>3, <2>1, <2>2, <2>3, Zenon DEF IsCounted
  <2>7. RegistryInv' /\ Spared(o)
    <3>1. /\ requests[o].session = s /\ requests[o].handle /\ requests' = [requests EXCEPT ![o] = q]
          /\ captureMode' = captureMode /\ started' = started /\ blamed' = blamed
      BY <1>1, <1>2, <1>3, <2>1, Zenon
    <3>2. Noted(s, o, op, q)
      BY <1>4, <2>3, <2>4, <2>5, <2>6, <3>1, Zenon DEF Noted
    <3> QED
      BY <1>2, <3>2, NotedKeeps, Zenon
  <2> QED
    BY <1>1, <2>7
<1>6. CASE requests[o].session \notin Active
  <2>1. OnlyFaults
    BY <1>2, <1>6, MarkFaultSessions DEF OnlyFaults
  <2>2. \A s \in Active' : requests[o].session # s
    BY <1>6, <2>1 DEF OnlyFaults
  <2> QED
    <3>1. Replaced(o, q)
      BY <1>2, <1>3, <1>4, <2>2, Zenon DEF IsCounted, Replaced
    <3> QED
      BY <1>2, <2>1, <3>1, ReplacedKeeps, Zenon
<1> QED
  BY <1>5, <1>6

\* What a digest leaves of an operation.
LEMMA MappingSet ==
  ASSUME NEW op \in OperationRecords, NEW m \in Handles, NEW w, w = [op EXCEPT !.mapping = m]
  PROVE  /\ w \in OperationRecords /\ w.outcome = op.outcome /\ w.exact = op.exact
         /\ w.kept = op.kept /\ w.mapping = m
BY DEF OperationRecords

\* A mapping digest changes nothing else of the operation, and in an evaluation it comes
\* from a worker that was made under its handle.
LEMMA MapDigestKeeps ==
  ASSUME TraceInv, NEW r \in TraceRequests, MapDigest(r)
  PROVE  /\ RegistryInv'
         /\ \/ OnlyFaults
            \/ \E o \in TraceRequests :
                  /\ Evaluation => requests[o].lent
                  /\ Spared(o)
                  /\ \A t \in Active : o \in DOMAIN traces[t].ops =>
                        /\ traces'[t].ops[o].outcome = traces[t].ops[o].outcome
                        /\ traces'[t].ops[o].exact = traces[t].ops[o].exact
                        /\ traces'[t].ops[o].kept = traces[t].ops[o].kept
<1>0. PICK o : o = Context(r) /\ o # NoHandle /\ (Evaluation => o # r)
  BY DEF MapDigest
<1>1. o \in TraceRequests /\ requests[o].handle /\ (o # r => requests[o].lent)
  <2>1. CASE requests[r].handle
    BY <1>0, <2>1 DEF Context
  <2>2. CASE ~requests[r].handle
    <3>1. o = works[r].under
      BY <1>0, <2>2 DEF Context
    <3>2. o \in TraceRequests /\ requests[o].lent
      BY <1>0, <3>1 DEF TraceInv, WorksInv, WorkSound, WorkRecords, Handles
    <3> QED
      BY <3>2 DEF TraceInv, RegistryInv, HandleSound
  <2> QED
    BY <2>1, <2>2
<1>2. /\ RegistryInv /\ TraceType /\ HandleSound(o) /\ UNCHANGED <<captureMode, started, requests, blamed>>
      /\ IF requests[o].session \in Active
         THEN traces' = [traces EXCEPT ![requests[o].session].ops[o].mapping = r]
         ELSE MarkFault(requests[o].session)
  BY <1>0, <1>1 DEF TraceInv, RegistryInv, MapDigest
<1>3. CASE requests[o].session \in Active
  <2>1. PICK s \in Active :
            /\ s = requests[o].session /\ s \in TraceSessions /\ IsSession(traces[s])
            /\ o \in DOMAIN traces[s].ops /\ traces[s].ops[o] \in OperationRecords
            /\ traces[s].ops[o].outcome = requests[o].outcome
            /\ ~traces[s].faulted => traces[s].ops[o].exact = Observed(requests[o])
            /\ traces[s].ops[o].mapping \in {NoHandle, o} \/ requests[o].lent
    <3>1. RegistryInv /\ o \in TraceRequests /\ requests[o].handle /\ requests[o].session \in Active
      BY <1>1, <1>2, <1>3, Zenon
    <3>2. PICK s \in Active : IsBehind(o, s)
      BY <3>1, OperationThere
    <3> QED
      BY <3>2, Zenon DEF IsBehind
  <2>2. PICK before, op : before = traces[s].ops[o] /\ op = [before EXCEPT !.mapping = r]
    OBVIOUS
  <2>3. /\ op \in OperationRecords /\ op.outcome = before.outcome /\ op.exact = before.exact
        /\ op.kept = before.kept /\ op.mapping = r
    <3>1. before \in OperationRecords /\ r \in Handles
      BY <2>1, <2>2 DEF Handles
    <3> QED
      BY <2>2, <3>1, MappingSet
  <2>4. traces' = [traces EXCEPT ![s].ops[o] = op]
    <3>1. traces' = [traces EXCEPT ![s].ops[o].mapping = r]
      BY <1>2, <1>3, <2>1
    <3> QED
      BY <1>2, <2>1, <2>2, <3>1 DEF TraceType
  <2>5. PICK q \in TraceRequestRecords : q = requests[o]
    BY <1>1, <1>2 DEF TraceType
  <2>6. requests' = [requests EXCEPT ![o] = q]
    BY <1>1, <1>2, <2>5 DEF TraceType
  <2>7. /\ requests[o].session = s /\ requests[o].handle /\ q.session = s /\ q.handle
        /\ op.outcome = q.outcome /\ q.outcome # "new" /\ (requests[o].lent => q.lent)
        /\ (q.strays # 0 => q.lent /\ ~Evaluation) /\ (~traces[s].faulted => op.exact = Observed(q))
        /\ (op.mapping \in {NoHandle, o} \/ q.lent)
    BY <1>1, <1>2, <2>1, <2>2, <2>3, <2>5 DEF HandleSound
  <2>8. RegistryInv' /\ Spared(o)
    <3>1. captureMode' = captureMode /\ started' = started /\ blamed' = blamed
      BY <1>2
    <3> QED
      <4>1. Noted(s, o, op, q)
        BY <2>3, <2>4, <2>5, <2>6, <2>7, <3>1, Zenon DEF Noted
      <4> QED
        BY <1>1, <1>2, <4>1, NotedKeeps, Zenon
  <2>9. ASSUME NEW t \in Active, o \in DOMAIN traces[t].ops
        PROVE  /\ traces'[t].ops[o].outcome = traces[t].ops[o].outcome
               /\ traces'[t].ops[o].exact = traces[t].ops[o].exact
               /\ traces'[t].ops[o].kept = traces[t].ops[o].kept
    <3>1. SessionSound(t) /\ DOMAIN traces = TraceSessions
      BY <1>2 DEF RegistryInv, TraceType
    <3>2. t = s
      BY <1>1, <2>1, <2>9, <3>1 DEF SessionSound
    <3>3. traces'[s].ops[o] = op
      <4>1. PICK os : os = traces[s].ops /\ o \in DOMAIN os /\ DOMAIN traces = TraceSessions
        BY <2>1, <3>1
      <4>2. PICK D \in SUBSET TraceRequests :
               traces[s] \in [ops : [D -> OperationRecords], overflowed : BOOLEAN, faulted : BOOLEAN]
        BY <2>1 DEF IsSession
      <4> QED
        BY <2>1, <2>4, <4>1, <4>2
    <3> QED
      BY <2>2, <2>3, <3>2, <3>3
  <2> QED
    BY <1>0, <1>1, <2>8, <2>9
<1>4. CASE requests[o].session \notin Active
  <2>1. OnlyFaults
    BY <1>2, <1>4, MarkFaultSessions DEF OnlyFaults
  <2> QED
    BY <1>2, <2>1, RequestsSame
<1> QED
  BY <1>3, <1>4

\* A request and its operation finish with one outcome.
LEMMA FinishOperationKeeps ==
  ASSUME RegistryInv, NEW r \in TraceRequests, NEW outcome \in {"succeeded", "failed"},
         FinishOperation(r, outcome)
  PROVE  /\ RegistryInv'
         /\ \/ OnlyFaults
            \/ requests[r].outcome # "succeeded" /\ Spared(r)
<1>1. /\ TraceType /\ HandleSound(r) /\ requests[r] \in TraceRequestRecords
      /\ UNCHANGED <<captureMode, started, blamed>> /\ requests[r].outcome = "running"
      /\ requests' = [requests EXCEPT ![r].outcome = outcome]
      /\ outcome \in TraceOutcomes
  BY DEF RegistryInv, TraceType, FinishOperation, TraceOutcomes
<1>2. PICK p, q : p \in TraceRequestRecords /\ p = requests[r] /\ q = [p EXCEPT !.outcome = outcome]
  BY <1>1
<1>3. /\ q \in TraceRequestRecords /\ q.session = p.session /\ q.handle = p.handle
      /\ q.outcome = outcome /\ q.lent = p.lent /\ q.strays = p.strays
      /\ Observed(q) = Observed(p)
  BY <1>1, <1>2, OutcomeSet
<1>4. /\ requests' = [requests EXCEPT ![r] = q] /\ q.outcome # "new"
      /\ (q.lent => q.handle) /\ (q.strays # 0 => q.lent /\ ~Evaluation)
  BY <1>1, <1>2, <1>3 DEF HandleSound
<1>5. CASE requests[r].handle /\ requests[r].session \in Active
  <2>1. PICK s \in Active :
            /\ s = requests[r].session /\ s \in TraceSessions /\ IsSession(traces[s])
            /\ r \in DOMAIN traces[s].ops /\ traces[s].ops[r] \in OperationRecords
            /\ traces[s].ops[r].outcome = requests[r].outcome
            /\ ~traces[s].faulted => traces[s].ops[r].exact = Observed(requests[r])
            /\ traces[s].ops[r].mapping \in {NoHandle, r} \/ requests[r].lent
    <3>1. PICK s \in Active : IsBehind(r, s)
      BY <1>5, OperationThere
    <3> QED
      BY <3>1, Zenon DEF IsBehind
  <2>2. PICK before, op : /\ before \in OperationRecords /\ before = traces[s].ops[r]
                          /\ op = [before EXCEPT !.outcome = outcome]
    BY <2>1
  <2>3. /\ op \in OperationRecords /\ op.outcome = outcome /\ op.exact = before.exact
        /\ op.mapping = before.mapping
    BY <1>1, <2>2 DEF OperationRecords
  <2>4. traces' = [traces EXCEPT ![s].ops[r] = op]
    <3>1. traces' = [traces EXCEPT ![s].ops[r].outcome = outcome]
      BY <1>5, <2>1 DEF FinishOperation
    <3> QED
      BY <1>1, <2>1, <2>2, <3>1 DEF TraceType
  <2>5. /\ requests[r].session = s /\ requests[r].handle /\ q.session = s /\ q.handle
        /\ op.outcome = q.outcome /\ (requests[r].lent => q.lent)
        /\ (~traces[s].faulted => op.exact = Observed(q)) /\ (op.mapping \in {NoHandle, r} \/ q.lent)
    BY <1>2, <1>3, <1>5, <2>1, <2>2, <2>3, Zenon
  <2>6. RegistryInv' /\ Spared(r)
    <3>1. captureMode' = captureMode /\ started' = started /\ blamed' = blamed
      BY <1>1
    <3> QED
      <4>1. Noted(s, r, op, q)
        BY <1>2, <1>3, <1>4, <2>3, <2>4, <2>5, <3>1, Zenon DEF Noted
      <4> QED
        BY <4>1, NotedKeeps, Zenon
  <2> QED
    BY <1>1, <2>6
<1>6. CASE ~(requests[r].handle /\ requests[r].session \in Active)
  <2>1. OnlyFaults
    <3>1. CASE ~requests[r].handle
      BY <1>1, <3>1, TracesSame DEF FinishOperation
    <3>2. CASE requests[r].handle
      <4>1. MarkFault(requests[r].session) /\ requests[r].session \notin Active
        BY <1>6, <3>2 DEF FinishOperation
      <4> QED
        BY <1>1, <4>1, MarkFaultSessions DEF OnlyFaults
    <3> QED
      BY <3>1, <3>2
  <2>2. \A s \in Active' : ~(requests[r].session = s /\ requests[r].handle)
    BY <1>6, <2>1 DEF OnlyFaults
  <2>3. blamed \subseteq blamed'
    BY <1>1
  <2>4. Replaced(r, q)
    BY <1>1, <1>2, <1>3, <1>4, <2>2, <2>3, Zenon DEF Replaced
  <2> QED
    BY <2>1, <2>4, ReplacedKeeps, Zenon
<1> QED
  BY <1>5, <1>6

\* A request that enqueues work may lend its handle, and is not changed otherwise.
LEMMA EnqueueKeeps ==
  ASSUME RegistryInv, NEW r \in TraceRequests, Enqueue(r)
  PROVE  /\ RegistryInv' /\ OnlyFaults
         /\ \A o \in TraceRequests :
               /\ requests'[o].handle = requests[o].handle /\ requests'[o].outcome = requests[o].outcome
               /\ requests[o].lent => requests'[o].lent
         /\ ~worker.alive => requests'[r].lent = requests[r].handle
<1>1. /\ TraceType /\ HandleSound(r) /\ requests[r] \in TraceRequestRecords
      /\ requests[r].outcome = "running" /\ UNCHANGED <<captureMode, traces, started, blamed>>
      /\ requests \in [TraceRequests -> TraceRequestRecords]
  BY DEF RegistryInv, TraceType, Enqueue
<1>2. OnlyFaults /\ blamed \subseteq blamed'
  BY <1>1, TracesSame
<1>3. CASE worker.alive
  <2>1. UNCHANGED requests
    BY <1>3 DEF Enqueue
  <2> QED
    BY <1>1, <1>2, <1>3, <2>1, RequestsSame
<1>4. CASE ~worker.alive
  <2>1. PICK p, lent, q : /\ p \in TraceRequestRecords /\ p = requests[r] /\ lent \in BOOLEAN
                          /\ lent = p.handle /\ q = [p EXCEPT !.lent = lent]
    BY <1>1 DEF TraceRequestRecords
  <2>2. /\ q \in TraceRequestRecords /\ q.session = p.session /\ q.handle = p.handle
        /\ q.outcome = p.outcome /\ q.lent = lent /\ q.strays = p.strays
        /\ Observed(q) = Observed(p)
    BY <2>1, LentSet
  <2>3. requests' = [requests EXCEPT ![r] = q]
    BY <1>1, <1>4, <2>1 DEF Enqueue
  <2>4. /\ requests'[r] = q
        /\ \A o \in TraceRequests : o # r => requests'[o] = requests[o]
    BY <1>1, <2>2, <2>3, OneRequest
  <2>5. /\ q.outcome # "new" /\ (q.lent => q.handle) /\ (q.strays # 0 => q.lent /\ ~Evaluation)
        /\ (requests[r].lent => q.lent)
    BY <1>1, <2>1, <2>2 DEF HandleSound
  <2>6. RegistryInv'
    <3>1. Replaced(r, q)
      BY <1>1, <1>2, <2>1, <2>2, <2>3, <2>5, Zenon DEF Replaced
    <3> QED
      BY <1>2, <3>1, ReplacedKeeps, Zenon
  <2>7. ASSUME NEW o \in TraceRequests
        PROVE  /\ requests'[o].handle = requests[o].handle /\ requests'[o].outcome = requests[o].outcome
               /\ requests[o].lent => requests'[o].lent
    BY <2>1, <2>2, <2>4, <2>5
  <2> QED
    BY <1>2, <2>1, <2>2, <2>4, <2>6, <2>7
<1> QED
  BY <1>3, <1>4

---------------------------------------------------------------------------
(* TraceRegistry: under which handle work runs *)

\* No handle is taken back, and in an evaluation no operation succeeds that is looked at.
HandlesStay ==
    \A o \in TraceRequests :
        /\ requests[o].handle => requests'[o].handle
        /\ requests[o].lent => requests'[o].lent
        /\ Evaluation /\ requests'[o].outcome = "succeeded" =>
              requests[o].outcome = "succeeded" \/ works[o].looking = NoHandle

\* What runs for a request is sound as long as handles stay.
LEMMA WorkKept ==
  ASSUME WorksInv, HandlesStay, captureMode' = captureMode, NEW r \in TraceRequests,
         \/ works'[r].under = works[r].under
         \/ works'[r].under = worker.handle,
         works'[r].looking \in {works[r].looking, NoHandle}
  PROVE  WorkSound(r)'
<1>1. /\ WorkSound(r) /\ works[r].under \in Handles /\ works[r].looking \in Handles
      /\ worker.handle \in Handles /\ (worker.handle # NoHandle => requests[worker.handle].lent)
  BY DEF WorksInv, WorkRecords
<1>2. works'[r].under # NoHandle => requests'[works'[r].under].lent
  BY <1>1 DEF HandlesStay, Handles, WorkSound
<1>3. ASSUME works'[r].looking # NoHandle
      PROVE  /\ requests'[works'[r].looking].handle
             /\ works'[r].looking # r => requests'[works'[r].looking].lent /\ ~Evaluation
             /\ Evaluation => requests'[works'[r].looking].outcome # "succeeded"
  <2>1. PICK o \in TraceRequests : o = works[r].looking /\ o = works'[r].looking /\ o # NoHandle
    BY <1>1, <1>3 DEF Handles
  <2>2. /\ requests[o].handle /\ (o # r => requests[o].lent /\ ~Evaluation)
        /\ Evaluation => requests[o].outcome # "succeeded"
    BY <1>1, <2>1 DEF WorkSound
  <2>3. Evaluation => o = r /\ works[o].looking # NoHandle
    BY <2>1, <2>2
  <2> QED
    BY <2>1, <2>2, <2>3 DEF HandlesStay
<1> QED
  BY <1>2, <1>3 DEF WorkSound, Evaluation

\* Where no work and no worker is changed, all stays sound.
LEMMA WorksSame ==
  ASSUME WorksInv, HandlesStay, captureMode' = captureMode, UNCHANGED <<works, worker>>
  PROVE  WorksInv'
<1>1. \A r \in TraceRequests : WorkSound(r)'
  BY WorkKept
<1>2. worker'.handle # NoHandle => requests'[worker'.handle].lent
  BY DEF WorksInv, HandlesStay, Handles
<1> QED
  BY <1>1, <1>2 DEF WorksInv

\* The work of r, changed, is the only one that is changed.
LEMMA OneWork ==
  ASSUME WorksInv, HandlesStay, captureMode' = captureMode, UNCHANGED worker,
         NEW r \in TraceRequests, NEW w \in WorkRecords, works' = [works EXCEPT ![r] = w], WorkSound(r)'
  PROVE  WorksInv'
<1>1. /\ works' \in [TraceRequests -> WorkRecords] /\ works'[r] = w
      /\ \A o \in TraceRequests : o # r => works'[o] = works[o]
  BY DEF WorksInv
<1>2. \A o \in TraceRequests : WorkSound(o)'
  BY <1>1, WorkKept
<1>3. worker'.handle # NoHandle => requests'[worker'.handle].lent
  BY DEF WorksInv, HandlesStay, Handles
<1> QED
  BY <1>1, <1>2, <1>3 DEF WorksInv

\* An unchanged request keeps its handle.
LEMMA RequestsStay == UNCHANGED requests => HandlesStay
BY DEF HandlesStay

\* A request without a handle may become anything that has not succeeded.
LEMMA BeginWorks ==
  ASSUME TraceInv, NEW r \in TraceRequests, NEW s \in TraceSessions,
         NEW m \in {"none", "session", "operation"}, BeginOperation(r, s, m)
  PROVE  WorksInv'
<1>1. /\ requests[r].outcome = "new" /\ HandleSound(r) /\ requests \in [TraceRequests -> TraceRequestRecords]
      /\ UNCHANGED <<captureMode, works, worker>> /\ WorksInv
  BY DEF TraceInv, RegistryInv, TraceType, BeginOperation
<1>2. ~requests[r].handle /\ ~requests[r].lent
  BY <1>1 DEF HandleSound
<1>3. \E q : requests' = [requests EXCEPT ![r] = q] /\ q.outcome = "running"
  <2>1. \/ requests' = [requests EXCEPT ![r].outcome = "running"]
        \/ \E full : requests' = [requests EXCEPT
                ![r] = [@ EXCEPT !.session = s, !.handle = full, !.outcome = "running"]]
    BY Zenon DEF BeginOperation
  <2>2. CASE requests' = [requests EXCEPT ![r].outcome = "running"]
    <3>1. PICK q : q = [requests[r] EXCEPT !.outcome = "running"]
      OBVIOUS
    <3>2. requests[r] \in TraceRequestRecords
      BY <1>1
    <3>3. q.outcome = "running"
      BY <3>1, <3>2 DEF TraceRequestRecords
    <3> QED
      BY <2>2, <3>1, <3>3
  <2>3. CASE \E full : requests' = [requests EXCEPT
                ![r] = [@ EXCEPT !.session = s, !.handle = full, !.outcome = "running"]]
    <3>0. PICK full : requests' = [requests EXCEPT
                ![r] = [@ EXCEPT !.session = s, !.handle = full, !.outcome = "running"]]
      BY <2>3, Zenon
    <3>1. PICK q : q = [requests[r] EXCEPT !.session = s, !.handle = full, !.outcome = "running"]
      OBVIOUS
    <3>2. requests[r] \in TraceRequestRecords
      BY <1>1
    <3>3. q.outcome = "running"
      BY <3>1, <3>2 DEF TraceRequestRecords
    <3> QED
      BY <3>0, <3>1, <3>3
  <2> QED
    BY <2>1, <2>2, <2>3, Zenon
<1>4. PICK q : requests' = [requests EXCEPT ![r] = q] /\ q.outcome = "running"
  BY <1>3
<1>5. requests'[r] = q /\ \A o \in TraceRequests : o # r => requests'[o] = requests[o]
  BY <1>1, <1>4
<1>6. HandlesStay
  BY <1>2, <1>4, <1>5 DEF HandlesStay
<1> QED
  BY <1>1, <1>6, WorksSame

\* A worker that is made has the handle that is lent to it.
LEMMA EnqueueWorks ==
  ASSUME TraceInv, NEW r \in TraceRequests, Enqueue(r)
  PROVE  WorksInv'
<1>1. /\ WorksInv /\ captureMode' = captureMode /\ works[r] \in WorkRecords
      /\ works' = [works EXCEPT ![r].queued = TRUE]
  BY DEF TraceInv, WorksInv, Enqueue
<1>2. /\ \A o \in TraceRequests :
            /\ requests'[o].handle = requests[o].handle /\ requests'[o].outcome = requests[o].outcome
            /\ requests[o].lent => requests'[o].lent
      /\ ~worker.alive => requests'[r].lent = requests[r].handle
  BY EnqueueKeeps DEF TraceInv
<1>3. HandlesStay
  BY <1>2 DEF HandlesStay
<1>4. PICK p, w : /\ p \in WorkRecords /\ p = works[r] /\ w = [p EXCEPT !.queued = TRUE]
  BY <1>1
<1>5. w \in WorkRecords /\ w.under = p.under /\ w.looking = p.looking
  BY <1>4 DEF WorkRecords
<1>6. /\ works' \in [TraceRequests -> WorkRecords]
      /\ \A o \in TraceRequests : works'[o].under = works[o].under /\ works'[o].looking = works[o].looking
  <2>1. works' = [works EXCEPT ![r] = w] /\ works \in [TraceRequests -> WorkRecords]
    BY <1>1, <1>4 DEF WorksInv
  <2>2. /\ works' \in [TraceRequests -> WorkRecords] /\ works'[r] = w
        /\ \A o \in TraceRequests : o # r => works'[o] = works[o]
    BY <1>5, <2>1
  <2> QED
    BY <1>4, <1>5, <2>2
<1>7. \A o \in TraceRequests : WorkSound(o)'
  BY <1>1, <1>3, <1>6, WorkKept
<1>8. /\ worker' \in [alive : BOOLEAN, handle : Handles]
      /\ worker'.handle # NoHandle => requests'[worker'.handle].lent
  <2>1. CASE worker.alive
    BY <1>1, <1>3, <2>1 DEF Enqueue, WorksInv, HandlesStay, Handles
  <2>2. CASE ~worker.alive
    <3>1. PICK h \in Handles : h = IF requests[r].handle THEN r ELSE NoHandle
      BY DEF Handles
    <3>2. worker' = [alive |-> TRUE, handle |-> h]
      BY <2>2, <3>1 DEF Enqueue
    <3>3. worker' \in [alive : BOOLEAN, handle : Handles] /\ worker'.handle = h
      BY <3>2
    <3>4. h # NoHandle => h = r /\ requests'[r].lent
      BY <1>2, <2>2, <3>1
    <3> QED
      BY <3>3, <3>4
  <2> QED
    BY <2>1, <2>2
<1> QED
  BY <1>6, <1>7, <1>8 DEF WorksInv

\* Work runs under the handle of the worker that took it.
LEMMA RunWorks ==
  ASSUME TraceInv, NEW r \in TraceRequests, RunWork(r)
  PROVE  WorksInv'
<1>1. /\ WorksInv /\ UNCHANGED <<captureMode, requests, worker>> /\ works[r] \in WorkRecords
      /\ works' = [works EXCEPT ![r].under = worker.handle] /\ worker.handle \in Handles
  BY DEF TraceInv, WorksInv, RunWork
<1>2. PICK p, h, w : /\ p \in WorkRecords /\ p = works[r] /\ h \in Handles /\ h = worker.handle
                     /\ w = [p EXCEPT !.under = h]
  BY <1>1
<1>3. w \in WorkRecords /\ w.under = h /\ w.looking = p.looking
  BY <1>2 DEF WorkRecords
<1>4. works' = [works EXCEPT ![r] = w] /\ works'[r] = w
  BY <1>1, <1>2 DEF WorksInv
<1>5. HandlesStay
  BY <1>1, RequestsStay
<1>6. WorkSound(r)'
  BY <1>1, <1>2, <1>3, <1>4, <1>5, WorkKept
<1> QED
  BY <1>1, <1>3, <1>4, <1>5, <1>6, OneWork

\* A worker that ended has no handle.
LEMMA EndWorks ==
  ASSUME TraceInv, EndWorker
  PROVE  WorksInv'
<1>1. /\ WorksInv /\ UNCHANGED <<captureMode, requests, works>> /\ worker' = NoWorker
  BY DEF TraceInv, EndWorker
<1>2. HandlesStay
  BY <1>1, RequestsStay
<1>3. \A o \in TraceRequests : WorkSound(o)'
  BY <1>1, <1>2, WorkKept
<1>4. worker' \in [alive : BOOLEAN, handle : Handles] /\ worker'.handle = NoHandle
  BY <1>1 DEF NoWorker, Handles
<1> QED
  BY <1>1, <1>3, <1>4 DEF WorksInv

\* What is looked at is the operation of the active handle, if observing it makes sense.
LEMMA LookWorks ==
  ASSUME TraceInv, NEW r \in TraceRequests, Look(r)
  PROVE  WorksInv'
<1>1. /\ WorksInv /\ UNCHANGED <<captureMode, requests, worker>> /\ works[r] \in WorkRecords
      /\ Observing(r) /\ WorkSound(r)
  BY DEF TraceInv, WorksInv, Look
<1>2. HandlesStay
  BY <1>1, RequestsStay
<1>3. CASE UNCHANGED works
  BY <1>1, <1>2, <1>3, WorksSame
<1>4. CASE works' = [works EXCEPT ![r].looking = Context(r)]
  <2>1. PICK o \in TraceRequests :
           /\ o = Context(r) /\ requests[o].handle
           /\ o # r => requests[o].lent /\ ~Evaluation
           /\ Evaluation => requests[o].outcome # "succeeded"
    <3>1. CASE requests[r].handle
      BY <1>1, <3>1 DEF Context, Observing
    <3>2. CASE ~requests[r].handle
      <4>1. works[r].under # NoHandle /\ ~Evaluation /\ Context(r) = works[r].under
        BY <1>1, <3>2 DEF Context, Observing
      <4>2. works[r].under \in TraceRequests /\ requests[works[r].under].lent
        BY <1>1, <4>1 DEF WorkSound, WorkRecords, Handles
      <4>3. PICK o \in TraceRequests : o = works[r].under
        BY <4>2
      <4>4. requests[o].handle
        BY <4>2, <4>3 DEF TraceInv, RegistryInv, HandleSound
      <4> QED
        BY <4>1, <4>2, <4>3, <4>4
    <3> QED
      BY <3>1, <3>2
  <2>2. PICK p, w : p \in WorkRecords /\ p = works[r] /\ w = [p EXCEPT !.looking = o]
    BY <1>1
  <2>3. w \in WorkRecords /\ w.under = p.under /\ w.looking = o
    BY <2>2 DEF WorkRecords, Handles
  <2>4. works' = [works EXCEPT ![r] = w] /\ works'[r] = w
    BY <1>1, <1>4, <2>1, <2>2 DEF WorksInv
  <2>5. WorkSound(r)'
    BY <1>1, <2>1, <2>2, <2>3, <2>4 DEF WorkSound, Evaluation
  <2> QED
    BY <1>1, <1>2, <2>3, <2>4, <2>5, OneWork
<1> QED
  BY <1>3, <1>4 DEF Look

\* An observation that is recorded or refused is over.
LEMMA RecordWorks ==
  ASSUME TraceInv, NEW r \in TraceRequests, RecordInvalid(r) \/ \E items \in 1..2 : Record(r, items)
  PROVE  WorksInv'
<1>0. PICK items \in Nat :
         /\ works[r].looking # NoHandle /\ works' = [works EXCEPT ![r].looking = NoHandle]
         /\ requests' = Counted(r, works[r].looking, items) /\ UNCHANGED <<captureMode, worker>>
  <2>1. CASE RecordInvalid(r)
    BY <2>1 DEF RecordInvalid
  <2>2. ASSUME NEW items \in 1..2, Record(r, items)
        PROVE  /\ works[r].looking # NoHandle /\ works' = [works EXCEPT ![r].looking = NoHandle]
               /\ requests' = Counted(r, works[r].looking, items) /\ UNCHANGED <<captureMode, worker>>
               /\ items \in Nat
    <3>1. items \in Nat
      OBVIOUS
    <3>2. works[r].looking # NoHandle /\ works' = [works EXCEPT ![r].looking = NoHandle]
      BY <2>2, Zenon DEF Record
    <3>3. requests' = Counted(r, works[r].looking, items)
      BY <2>2, Zenon DEF Record
    <3>4. captureMode' = captureMode /\ worker' = worker
      BY <2>2, Zenon DEF Record
    <3> QED
      BY <3>1, <3>2, <3>3, <3>4
  <2> QED
    BY <2>1, <2>2
<1>1. PICK o \in TraceRequests :
         o = works[r].looking /\ (o # r => requests[o].lent /\ ~Evaluation)
  <2>1. PICK o \in TraceRequests : LooksAt(r, o)
    BY <1>0, LookedAt
  <2> QED
    BY <2>1, Zenon DEF LooksAt
<1>2. PICK q : requests' = [requests EXCEPT ![o] = q] /\ IsCounted(requests[o], q, items)
  BY <1>0, <1>1, CountedRequest DEF TraceInv
<1>3. requests'[o] = q /\ \A n \in TraceRequests : n # o => requests'[n] = requests[n]
  BY <1>2 DEF TraceInv, RegistryInv, TraceType
<1>4. HandlesStay
  BY <1>2, <1>3 DEF HandlesStay, IsCounted
<1>5. WorksInv /\ works[r] \in WorkRecords
  BY DEF TraceInv, WorksInv
<1>6. PICK p, w : p \in WorkRecords /\ p = works[r] /\ w = [p EXCEPT !.looking = NoHandle]
  BY <1>5
<1>7. w \in WorkRecords /\ w.under = p.under /\ w.looking = NoHandle
  BY <1>6 DEF WorkRecords, Handles
<1>8. works' = [works EXCEPT ![r] = w] /\ works'[r] = w
  BY <1>0, <1>5, <1>6 DEF WorksInv
<1>9. WorkSound(r)'
  BY <1>0, <1>4, <1>5, <1>6, <1>7, <1>8, WorkKept
<1> QED
  BY <1>0, <1>4, <1>5, <1>7, <1>8, <1>9, OneWork

\* A request of an evaluation that succeeds is not looking any more.
LEMMA FinishWorks ==
  ASSUME TraceInv, NEW r \in TraceRequests, NEW outcome \in {"succeeded", "failed"},
         FinishOperation(r, outcome)
  PROVE  WorksInv'
<1>1. /\ requests \in [TraceRequests -> TraceRequestRecords] /\ requests[r] \in TraceRequestRecords
      /\ requests' = [requests EXCEPT ![r].outcome = outcome]
      /\ UNCHANGED <<captureMode, works, worker>> /\ WorksInv /\ outcome \in TraceOutcomes
      /\ outcome = "succeeded" /\ Evaluation => works[r].looking = NoHandle
  BY DEF TraceInv, RegistryInv, TraceType, FinishOperation, TraceOutcomes
<1>2. PICK p, q : p \in TraceRequestRecords /\ p = requests[r] /\ q = [p EXCEPT !.outcome = outcome]
  BY <1>1
<1>3. q.handle = p.handle /\ q.lent = p.lent /\ q.outcome = outcome
  BY <1>1, <1>2, OutcomeSet
<1>4. requests'[r] = q /\ \A o \in TraceRequests : o # r => requests'[o] = requests[o]
  BY <1>1, <1>2
<1>5. HandlesStay
  BY <1>1, <1>2, <1>3, <1>4 DEF HandlesStay
<1> QED
  BY <1>1, <1>5, WorksSame

\* Every step leaves the work sound.
LEMMA WorksStep ==
  ASSUME TraceInv, TraceNext
  PROVE  WorksInv'
<1>0. WorksInv
  BY DEF TraceInv
<1>1. CASE \E s \in TraceSessions : StartTrace(s) \/ DeleteTrace(s)
  BY <1>0, <1>1, RequestsStay, WorksSame DEF StartTrace, DeleteTrace
<1>2. CASE \E r \in TraceRequests, s \in TraceSessions, m \in {"none", "session", "operation"} :
              BeginOperation(r, s, m)
  BY <1>2, BeginWorks
<1>3. CASE \E r \in TraceRequests : BeginAgain(r) \/ MapDigest(r)
  BY <1>0, <1>3, RequestsStay, WorksSame DEF BeginAgain, MapDigest
<1>4. CASE \E r \in TraceRequests : Enqueue(r) \/ RunWork(r) \/ Look(r)
  BY <1>4, EnqueueWorks, RunWorks, LookWorks
<1>5. CASE \E r \in TraceRequests : RecordInvalid(r)
  BY <1>5, RecordWorks
<1>6. CASE \E r \in TraceRequests : \E items \in 1..2 : Record(r, items)
  BY <1>6, RecordWorks
<1>7. CASE \E r \in TraceRequests : \E outcome \in {"succeeded", "failed"} : FinishOperation(r, outcome)
  BY <1>7, FinishWorks
<1>8. CASE EndWorker
  BY <1>8, EndWorks
<1> QED
  BY <1>1, <1>2, <1>3, <1>4, <1>5, <1>6, <1>7, <1>8 DEF TraceNext

---------------------------------------------------------------------------
(* TraceRegistry: what a step may do *)

\* What stays of the operation of a request that succeeded in an evaluation.
SealedStep ==
    \A s \in TraceSessions :
        Evaluation /\ s \in Active /\ traces'[s] # NoTrace =>
            \A r \in DOMAIN traces[s].ops :
                traces[s].ops[r].outcome = "succeeded" =>
                    /\ traces'[s].ops[r].outcome = "succeeded"
                    /\ traces'[s].ops[r].exact = traces[s].ops[r].exact
                    /\ traces'[s].ops[r].kept = traces[s].ops[r].kept
                    /\ \/ traces'[s].ops[r].mapping = traces[s].ops[r].mapping
                       \/ requests[r].lent

\* It stays when the operations that succeeded stay as they are.
LEMMA SealedWhenSame ==
  ASSUME \A s \in Active : \A r \in DOMAIN traces[s].ops :
            Evaluation /\ traces'[s] # NoTrace /\ traces[s].ops[r].outcome = "succeeded" =>
                traces'[s].ops[r] = traces[s].ops[r]
  PROVE  SealedStep
BY Zenon DEF SealedStep

\* The requests that have an operation in a session.
LEMMA OperationsAreRequests ==
  ASSUME RegistryInv, NEW s \in Active
  PROVE  /\ DOMAIN traces[s].ops \subseteq TraceRequests
         /\ \A r \in DOMAIN traces[s].ops : traces[s].ops[r].outcome = requests[r].outcome
<1>1. IsSession(traces[s]) /\ SessionSound(s)
  BY DEF RegistryInv, TraceType
<1> QED
  BY <1>1, SessionFields DEF SessionSound

\* A session that at most is faulted keeps its operations.
LEMMA FaultsSeal ==
  ASSUME RegistryInv, OnlyFaults
  PROVE  SealedStep
<1>1. \A s \in Active : traces'[s] # NoTrace => s \in Active'
  BY DEF Active
<1>2. \A s \in Active : traces'[s] # NoTrace => traces'[s].ops = traces[s].ops
  BY <1>1 DEF OnlyFaults
<1> QED
  BY <1>2, SealedWhenSame

\* So does one of whose operations only that of a request is touched which has not
\* succeeded.
LEMMA SparedSeals ==
  ASSUME RegistryInv, NEW o \in TraceRequests, Evaluation => requests[o].outcome # "succeeded", Spared(o)
  PROVE  SealedStep
<1>1. ASSUME NEW s \in Active, NEW r \in DOMAIN traces[s].ops, Evaluation,
             traces[s].ops[r].outcome = "succeeded"
      PROVE  traces'[s].ops[r] = traces[s].ops[r]
  <2>1. r \in TraceRequests /\ requests[r].outcome = "succeeded"
    BY <1>1, OperationsAreRequests
  <2> QED
    BY <1>1, <2>1 DEF Spared
<1> QED
  BY <1>1, SealedWhenSame

\* Every step keeps the invariant; and what it changes of the operations of a
\* session that goes on, it changes by faults alone, or it adds, or it writes the
\* operation of a request that has not succeeded, or no more than its digest.
LEMMA TraceStep ==
  ASSUME TraceInv, TraceNext
  PROVE  TraceInv' /\ SealedStep
<1>0. RegistryInv /\ WorksInv'
  BY WorksStep DEF TraceInv
<1>1. CASE \E s \in TraceSessions : StartTrace(s)
  <2>1. PICK s \in TraceSessions : StartTrace(s)
    BY <1>1
  <2>2. RegistryInv'
    BY <1>0, <2>1, StartTraceKeeps
  <2>3. \A t \in Active : traces'[t] = traces[t]
    BY <1>0, <2>1 DEF StartTrace, SessionSound, RegistryInv, TraceType, Active
  <2>4. SealedStep
    BY <2>3, SealedWhenSame
  <2> QED
    BY <1>0, <2>2, <2>4 DEF TraceInv
<1>2. CASE \E s \in TraceSessions : DeleteTrace(s)
  BY <1>0, <1>2, DeleteTraceKeeps, FaultsSeal DEF TraceInv
<1>3. CASE \E r \in TraceRequests, s \in TraceSessions, m \in {"none", "session", "operation"} :
              BeginOperation(r, s, m)
  <2>1. PICK r \in TraceRequests, s \in TraceSessions, m \in {"none", "session", "operation"} :
              BeginOperation(r, s, m)
    BY <1>3
  <2>2. /\ RegistryInv'
        /\ \/ OnlyFaults
           \/ \A t \in Active, o \in TraceRequests : o \in DOMAIN traces[t].ops =>
                  traces'[t].ops[o] = traces[t].ops[o]
    BY <1>0, <2>1, BeginOperationKeeps
  <2>3. ASSUME \A t \in Active, o \in TraceRequests : o \in DOMAIN traces[t].ops =>
                  traces'[t].ops[o] = traces[t].ops[o]
        PROVE  SealedStep
    <3>1. \A t \in Active : \A o \in DOMAIN traces[t].ops : traces'[t].ops[o] = traces[t].ops[o]
      BY <1>0, <2>3, OperationsAreRequests
    <3> QED
      BY <3>1, SealedWhenSame
  <2> QED
    BY <1>0, <2>2, <2>3, FaultsSeal DEF TraceInv
<1>4. CASE \E r \in TraceRequests :
              BeginAgain(r) \/ Enqueue(r) \/ RunWork(r) \/ Look(r) \/ RecordInvalid(r)
  <2>1. PICK r \in TraceRequests :
              BeginAgain(r) \/ Enqueue(r) \/ RunWork(r) \/ Look(r) \/ RecordInvalid(r)
    BY <1>4
  <2>2. CASE RunWork(r)
    <3>1. OnlyFaults
      BY <1>0, <2>2, TracesSame DEF RunWork, RegistryInv
    <3>2. RegistryInv'
      BY <1>0, <2>2, <3>1, RequestsSame DEF RunWork
    <3> QED
      BY <1>0, <3>1, <3>2, FaultsSeal DEF TraceInv
  <2>3. (RegistryInv' /\ OnlyFaults) \/ RunWork(r)
    BY <1>0, <2>1, BeginAgainKeeps, EnqueueKeeps, LookKeeps, RecordInvalidKeeps
  <2> QED
    BY <1>0, <2>2, <2>3, FaultsSeal DEF TraceInv
<1>5. CASE \E r \in TraceRequests : \E items \in 1..2 : Record(r, items)
  <2>1. PICK r \in TraceRequests, items \in 1..2 : Record(r, items)
    BY <1>5
  <2>2. /\ RegistryInv'
        /\ \/ OnlyFaults
           \/ \E o \in TraceRequests : (Evaluation => requests[o].outcome # "succeeded") /\ Spared(o)
    BY <2>1, RecordKeeps
  <2> QED
    BY <1>0, <2>2, FaultsSeal, SparedSeals DEF TraceInv
<1>6. CASE \E r \in TraceRequests : \E outcome \in {"succeeded", "failed"} : FinishOperation(r, outcome)
  <2>1. PICK r \in TraceRequests, outcome \in {"succeeded", "failed"} : FinishOperation(r, outcome)
    BY <1>6
  <2>2. RegistryInv' /\ (OnlyFaults \/ (requests[r].outcome # "succeeded" /\ Spared(r)))
    BY <1>0, <2>1, FinishOperationKeeps
  <2> QED
    BY <1>0, <2>2, FaultsSeal, SparedSeals DEF TraceInv
<1>7. CASE \E r \in TraceRequests : MapDigest(r)
  <2>1. PICK r \in TraceRequests : MapDigest(r)
    BY <1>7
  <2>2. RegistryInv'
    BY <2>1, MapDigestKeeps
  <2>3. ASSUME NEW o \in TraceRequests, Evaluation => requests[o].lent, Spared(o),
               \A t \in Active : o \in DOMAIN traces[t].ops =>
                        /\ traces'[t].ops[o].outcome = traces[t].ops[o].outcome
                        /\ traces'[t].ops[o].exact = traces[t].ops[o].exact
                        /\ traces'[t].ops[o].kept = traces[t].ops[o].kept
        PROVE  SealedStep
    <3>1. ASSUME NEW s \in Active, NEW p \in DOMAIN traces[s].ops, Evaluation,
                 traces[s].ops[p].outcome = "succeeded"
          PROVE  /\ traces'[s].ops[p].outcome = "succeeded"
                 /\ traces'[s].ops[p].exact = traces[s].ops[p].exact
                 /\ traces'[s].ops[p].kept = traces[s].ops[p].kept
                 /\ \/ traces'[s].ops[p].mapping = traces[s].ops[p].mapping
                    \/ requests[p].lent
      <4>1. p \in TraceRequests
        BY <1>0, OperationsAreRequests
      <4>2. p # o => traces'[s].ops[p] = traces[s].ops[p]
        BY <2>3, <4>1 DEF Spared
      <4> QED
        BY <2>3, <3>1, <4>2
    <3> QED
      BY <3>1, Zenon DEF SealedStep
  <2> QED
    BY <1>0, <2>1, <2>2, <2>3, MapDigestKeeps, FaultsSeal DEF TraceInv
<1>8. CASE EndWorker
  <2>1. OnlyFaults
    BY <1>0, <1>8, TracesSame DEF EndWorker, RegistryInv
  <2>2. RegistryInv'
    BY <1>0, <1>8, <2>1, RequestsSame DEF EndWorker
  <2> QED
    BY <1>0, <2>1, <2>2, FaultsSeal DEF TraceInv
<1> QED
  BY <1>1, <1>2, <1>3, <1>4, <1>5, <1>6, <1>7, <1>8 DEF TraceNext

\* A step of another part changes nothing here.
LEMMA TraceStutters == TraceInv /\ UNCHANGED traceVars => TraceInv'
BY DEF traceVars, TraceInv, RegistryInv, WorksInv, WorkSound, TraceType, HandleSound, SessionSound,
       Active, Evaluation, EvaluationIndependent

\* What the invariant says of the sessions that do not tell to be incomplete.
LEMMA TracesTold == TraceInv => TracesTruthful
<1>1. SUFFICES ASSUME RegistryInv PROVE CompleteUnlessTold
  BY DEF TraceInv, RegistryInv, TracesTruthful
<1>2. ASSUME NEW s \in Active, ~traces[s].faulted, ~traces[s].overflowed,
             NEW r \in TraceRequests, requests[r].session = s
      PROVE  /\ r \in DOMAIN traces[s].ops
             /\ traces[s].ops[r].exact = Observed(requests[r])
             /\ requests[r].strays # 0 => requests[r].lent /\ ~Evaluation
             /\ traces[s].ops[r].mapping \in {NoHandle, r} \/ requests[r].lent
             /\ traces[s].ops[r].outcome = requests[r].outcome
  <2>1. SessionSound(s) /\ HandleSound(r)
    BY <1>1 DEF RegistryInv
  <2>2. r \in DOMAIN traces[s].ops
    BY <1>2, <2>1 DEF SessionSound
  <2> QED
    BY <1>2, <2>1, <2>2 DEF SessionSound, HandleSound
<1> QED
  BY <1>2, Zenon DEF CompleteUnlessTold

\* A session that does not tell to be incomplete has an operation for each of its
\* requests, with all that was observed under its handle.  More than the request itself
\* observed is there only when a worker was made under its handle, and in an evaluation
\* never.
THEOREM TracesAlwaysTruthful == TraceSpec => []TracesTruthful
<1>1. TraceInit => TraceInv
  BY TraceStarts
<1>2. TraceInv /\ [TraceNext]_traceVars => TraceInv'
  BY TraceStep, TraceStutters
<1>3. TraceInv => TracesTruthful
  BY TracesTold
<1> QED
  BY <1>1, <1>2, <1>3, PTL DEF TraceSpec

\* What an evaluation request that succeeded has observed does not change while its
\* session goes on; no more than a digest comes to it, from a worker made under its
\* handle.
THEOREM EvidenceStaysSealed == TraceSpec => EvidenceSealed
<1>1. TraceInit => TraceInv
  BY TraceStarts
<1>2. TraceInv /\ [TraceNext]_traceVars => TraceInv'
  BY TraceStep, TraceStutters
<1>3. TraceInv /\ [TraceNext]_traceVars => [SealedStep]_traceVars
  BY TraceStep
<1> QED
  BY <1>1, <1>2, <1>3, PTL DEF TraceSpec, EvidenceSealed, SealedStep

---------------------------------------------------------------------------
(* WizardMaps: how the two maps come into being *)

\* A map is registered for whoever will read it, and a creation keeps its
\* document map while it asks for the other one, and that one until it is
\* written.
Obtained ==
    \A r \in Requests :
        /\ at[r] \in {"document", "paragraph", "between", "again"} => r \in Posts
        /\ turn[r] = "read" => slot[Accessor(r)] # None
        /\ at[r] = "paragraph" => held["document"][r] # None
        /\ at[r] = "between" => held["paragraph"][r] # None

MapsTypeInv == MapsTypeOK /\ Obtained

\* Nobody makes a map where one is registered, and whoever holds a document
\* map holds the registered one.
Registered ==
    /\ \A a \in Accessors : slot[a] = "first"
    /\ \A r \in Requests :
        /\ turn[r] # "make"
        /\ at[r] = "paragraph" \/ turn[r] = "use" => held["document"][r] = "first"

FoundInv == warm => Registered /\ CreatedIsFound

---------------------------------------------------------------------------
\* The map a request is asking for is one of the two.
LEMMA AccessorType == \A r \in Requests : Accessor(r) \in Accessors
BY DEF Accessor, Accessors

\* Before any request has moved, nothing is obtained.
LEMMA MapsInitTypes == MapsInit => MapsTypeInv
<1> SUFFICES ASSUME MapsInit PROVE MapsTypeInv
    OBVIOUS
<1> USE RequestsAssumption
<1>1. MapsTypeOK
    BY SMT DEF MapsInit, MapsTypeOK, Requests, Instances, Accessors
<1>2. Obtained
    BY SMT DEF MapsInit, Obtained, Requests
<1> QED
    BY <1>1, <1>2 DEF MapsTypeInv

\* Each step of a request leaves the types and what is obtained.
LEMMA MapsStepTypes == MapsTypeInv /\ [MapsNext]_mapsVars => MapsTypeInv'
<1> SUFFICES ASSUME MapsTypeInv, [MapsNext]_mapsVars PROVE MapsTypeInv'
    OBVIOUS
<1> USE RequestsAssumption DEF MapsTypeInv, MapsTypeOK, Obtained, Accessors, Requests,
        Instances, Accessor, Take, Release
<1>1. ASSUME NEW r \in Requests, UNCHANGED warm, Check(r) PROVE MapsTypeInv'
    BY <1>1, SMTT(30) DEF Check, Missing
<1>2. ASSUME NEW r \in Requests, UNCHANGED warm, Register(r) PROVE MapsTypeInv'
    BY <1>2, SMTT(30) DEF Register
<1>3. ASSUME NEW r \in Requests, UNCHANGED warm, Read(r) PROVE MapsTypeInv'
    BY <1>3, SMTT(30) DEF Read
<1>4. ASSUME NEW r \in Requests, UNCHANGED warm, NextMap(r) PROVE MapsTypeInv'
    BY <1>4, SMTT(30) DEF NextMap, Advance
<1>5. ASSUME NEW r \in Requests, UNCHANGED warm, WriteDocument(r) PROVE MapsTypeInv'
    BY <1>5, SMTT(30) DEF WriteDocument, Write, Advance
<1>6. ASSUME NEW r \in Requests, UNCHANGED warm, WriteParagraph(r) PROVE MapsTypeInv'
    BY <1>6, SMTT(30) DEF WriteParagraph, Write, Advance
<1>7. ASSUME NEW r \in Requests, UNCHANGED warm, ReadBack(r) PROVE MapsTypeInv'
    BY <1>7, SMTT(30) DEF ReadBack, Advance
<1>8. ASSUME NEW r \in Requests, UNCHANGED warm, Listed(r) PROVE MapsTypeInv'
    BY <1>8, SMTT(30) DEF Listed, Advance
<1>9. CASE UNCHANGED mapsVars
    BY <1>9 DEF mapsVars
<1> QED
    BY <1>1, <1>2, <1>3, <1>4, <1>5, <1>6, <1>7, <1>8, <1>9 DEF MapsNext

\* The state keeps its types, and an accessor that returned has returned a
\* map, even where two first requests make one (wizard/runtime.py:139-149).
THEOREM AccessorsReturnMaps == MapsSpec => []MapsTypeOK
<1>1. MapsTypeInv => MapsTypeOK
    BY DEF MapsTypeInv
<1> QED
    BY <1>1, MapsInitTypes, MapsStepTypes, PTL DEF MapsSpec

---------------------------------------------------------------------------
\* With both maps registered from the start, nothing is held or written.
LEMMA InitFound == MapsInit => FoundInv
BY RequestsAssumption, SMT
   DEF MapsInit, FoundInv, Registered, CreatedIsFound, Written, Requests, Accessors

\* No step replaces a registered map or takes a wizard out of it.
LEMMA StepFound == MapsTypeInv /\ FoundInv /\ [MapsNext]_mapsVars => FoundInv'
<1> SUFFICES ASSUME MapsTypeInv, FoundInv, [MapsNext]_mapsVars, warm' PROVE (Registered /\ CreatedIsFound)'
    BY DEF FoundInv
<1>0. warm /\ Registered /\ CreatedIsFound
    BY DEF FoundInv, MapsNext, mapsVars
<1> USE <1>0, RequestsAssumption DEF MapsTypeInv, MapsTypeOK, Obtained, Registered,
        CreatedIsFound, Written, Accessors, Requests, Instances, Accessor
<1>1. ASSUME NEW r \in Requests, Check(r) PROVE (Registered /\ CreatedIsFound)'
    BY <1>1, SMTT(30) DEF Check, Missing
<1>2. ASSUME NEW r \in Requests, Register(r) PROVE FALSE
    BY <1>2 DEF Register
<1>3. ASSUME NEW r \in Requests, Read(r) PROVE (Registered /\ CreatedIsFound)'
    BY <1>3, SMTT(30) DEF Read
<1>4. ASSUME NEW r \in Requests, NextMap(r) PROVE (Registered /\ CreatedIsFound)'
    BY <1>4, SMTT(30) DEF NextMap, Advance
<1>5. ASSUME NEW r \in Requests, WriteDocument(r) PROVE (Registered /\ CreatedIsFound)'
    BY <1>5, SMTT(30) DEF WriteDocument, Write, Advance
<1>6. ASSUME NEW r \in Requests, WriteParagraph(r) PROVE (Registered /\ CreatedIsFound)'
    BY <1>6, SMTT(30) DEF WriteParagraph, Write, Advance
<1>7. ASSUME NEW r \in Requests, ReadBack(r) PROVE (Registered /\ CreatedIsFound)'
    BY <1>7, SMTT(30) DEF ReadBack, Advance
<1>8. ASSUME NEW r \in Requests, Listed(r) PROVE (Registered /\ CreatedIsFound)'
    BY <1>8, SMTT(30) DEF Listed, Advance
<1>9. CASE UNCHANGED mapsVars
    BY <1>9 DEF mapsVars
<1> QED
    BY <1>1, <1>2, <1>3, <1>4, <1>5, <1>6, <1>7, <1>8, <1>9 DEF MapsNext

\* What the invariant says of the maps of a scope that existed.
LEMMA FoundTold == FoundInv => FoundWhenWarm
BY DEF FoundInv, FoundWhenWarm

\* Once the maps of a scope exist, every wizard that was written is in the
\* registered document map (wizard/crud.py:47, BACKEND.md:88), however many
\* requests are interleaved.  On first use this fails.
THEOREM WarmMapsKeepWizards == MapsSpec => []FoundWhenWarm
<1>1. FoundInv => FoundWhenWarm
    BY FoundTold
<1> QED
    BY <1>1, MapsInitTypes, MapsStepTypes, InitFound, StepFound, PTL DEF MapsSpec

---------------------------------------------------------------------------
(* AnswerPrompt: what is given up to fit the budget *)

\* kept[n] is how many of the first n items _budget_results keeps.
KeepsUpTo(f, items, budget, k) ==
    \A n \in 0..k : f[n] = IF n = 0 \/ Joined(SubSeq(items, 1, n)) <= budget THEN n ELSE f[n - 1]

\* The numbers can be found one after another, however many items there are.
LEMMA KeepsExist ==
  ASSUME NEW items, NEW budget, NEW k \in Nat
  PROVE  \E f : KeepsUpTo(f, items, budget, k)
<1> DEFINE Bad == {n \in Nat : ~ \E f : KeepsUpTo(f, items, budget, n)}
<1>1. SUFFICES ASSUME Bad # {} PROVE FALSE
  OBVIOUS
<1>2. PICK n \in Bad : \A m \in Bad : n <= m
  BY <1>1, LeastNatural
<1>3. n # 0
  <2>1. KeepsUpTo([i \in 0..0 |-> 0], items, budget, 0)
    BY DEF KeepsUpTo
  <2> QED
    BY <1>2, <2>1
<1>4. PICK f : KeepsUpTo(f, items, budget, n-1)
  BY <1>2, <1>3
<1> DEFINE Step(i, before) == IF i = 0 \/ Joined(SubSeq(items, 1, i)) <= budget THEN i ELSE before
           g == [i \in 0..n |-> IF i = n THEN Step(n, f[n-1]) ELSE f[i]]
<1>5. n \in Nat /\ n # 0
  BY <1>2, <1>3
<1> HIDE DEF Step
<1>6. ASSUME NEW i \in 0..n
      PROVE  g[i] = Step(i, g[i-1])
  <2>1. CASE i = n
    BY <1>5, <2>1
  <2>2. CASE i # n
    <3>1. i \in 0..(n-1)
      BY <1>5, <2>2
    <3>2. f[i] = Step(i, f[i-1])
      BY <1>4, <3>1 DEF KeepsUpTo, Step
    <3>3. g[i] = f[i] /\ (i # 0 => g[i-1] = f[i-1])
      BY <1>5, <2>2, <3>1
    <3> QED
      BY <3>2, <3>3 DEF Step
  <2> QED
    BY <2>1, <2>2
<1>7. KeepsUpTo(g, items, budget, n)
  <2> HIDE DEF g
  <2> QED
    BY <1>6 DEF KeepsUpTo, Step
<1> QED
  BY <1>2, <1>7

\* Budgeted keeps a beginning of what it is given.
LEMMA BudgetedPrefix ==
  ASSUME NEW items \in Seq(Items), NEW budget
  PROVE  Budgeted(items, budget) \in Seq(Items)
<1>0. Len(items) \in Nat
  OBVIOUS
<1> DEFINE Def(g) == [n \in 0..Len(items) |->
                         IF n = 0 \/ Joined(SubSeq(items, 1, n)) <= budget THEN n ELSE g[n-1]]
           f == CHOOSE g : g = Def(g)
<1>1. PICK g : KeepsUpTo(g, items, budget, Len(items))
  BY <1>0, KeepsExist
<1> DEFINE h == [n \in 0..Len(items) |-> g[n]]
<1>2. h = Def(h)
  <2>1. \A n \in 0..Len(items) :
           h[n] = IF n = 0 \/ Joined(SubSeq(items, 1, n)) <= budget THEN n ELSE h[n-1]
    BY <1>0, <1>1 DEF KeepsUpTo
  <2> QED
    BY <2>1
<1>3. f = Def(f)
  <2> HIDE DEF h
  <2> QED
    BY <1>2, Zenon
<1>4. Budgeted(items, budget) = SubSeq(items, 1, f[Len(items)])
  BY Zenon DEF Budgeted
<1> HIDE DEF f
<1>5. KeepsUpTo(f, items, budget, Len(items))
  BY <1>3 DEF KeepsUpTo
<1>6. \A n \in 0..Len(items) : f[n] \in 0..n
  <2> DEFINE Bad == {n \in 0..Len(items) : f[n] \notin 0..n}
  <2>1. SUFFICES ASSUME Bad # {} PROVE FALSE
    OBVIOUS
  <2>2. PICK n \in Bad : \A m \in Bad : n <= m
    <3>1. Bad \in SUBSET Nat
      BY <1>0
    <3> QED
      BY <2>1, <3>1, LeastNatural
  <2>3. f[n] # n /\ n # 0 /\ f[n] = f[n-1]
    BY <1>0, <1>5, <2>2 DEF KeepsUpTo
  <2>4. n-1 \in 0..Len(items) /\ ~ (n <= n-1)
    BY <1>0, <2>2, <2>3
  <2>5. f[n-1] \in 0..(n-1)
    BY <2>2, <2>4
  <2> QED
    BY <1>0, <2>2, <2>3, <2>5
<1>7. f[Len(items)] \in 0..Len(items)
  BY <1>0, <1>6
<1>8. \A k \in 0..Len(items) : SubSeq(items, 1, k) \in Seq(Items)
  BY <1>0
<1> QED
  BY <1>4, <1>7, <1>8

\* kept is a beginning of all.
Beginning(all, kept) ==
    /\ Len(kept) <= Len(all)
    /\ \A i \in 1..Len(kept) : kept[i] = all[i]

\* What is missing of all in kept is no better than what the other context keeps.
Weaker(all, kept, other) ==
    \A i \in (Len(kept) + 1)..Len(all), j \in 1..Len(other) : all[i].score <= other[j].score

PromptType ==
    /\ prompt \in {"rendering", "fitting", "built", "refused"}
    /\ knowledge \in Seq(Items)
    /\ policy \in Seq(Items)

\* Once rendered, the contexts only lose their tails, the weaker one first.
Shrinks(gk, gp, k, p) ==
    /\ gk \in Seq(Items) /\ gp \in Seq(Items)
    /\ Beginning(gk, k) /\ Beginning(gp, p)
    /\ Descending(gk) /\ Descending(gp) => Weaker(gk, k, p) /\ Weaker(gp, p, k)

PromptInv ==
    /\ PromptType
    /\ prompt # "rendering" => Shrinks(given.knowledge, given.policy, knowledge, policy)

\* The context without its last item.
LEMMA FrontOf ==
  ASSUME NEW s \in Seq(Items), s # <<>>, NEW t, t = Front(s)
  PROVE  /\ t \in Seq(Items) /\ Len(t) = Len(s) - 1 /\ Len(s) \in Nat \ {0}
         /\ \A i \in 1..Len(t) : t[i] = s[i]
         /\ Last(s) = s[Len(s)] /\ Last(s) \in Items
<1>1. Len(s) \in Nat \ {0}
  OBVIOUS
<1>5. PICK m \in 0..Len(s) : m = Len(s) - 1
  BY SMTT(30), <1>1
<1>2. t = SubSeq(s, 1, m)
  BY <1>5 DEF Front
<1>3. /\ SubSeq(s, 1, m) \in Seq(Items) /\ Len(SubSeq(s, 1, m)) = m
      /\ \A i \in 1..m : SubSeq(s, 1, m)[i] = s[i]
  BY <1>1
<1>4. Last(s) = s[Len(s)] /\ Last(s) \in Items
  BY <1>1 DEF Last
<1> QED
  BY <1>1, <1>2, <1>3, <1>4, <1>5

\* A context loses its tail while the other one holds nothing, or ends in nothing
\* weaker: then nothing that the other keeps is weaker, and nothing that it lost is
\* better than what this one keeps.
LEMMA TailLost ==
  ASSUME NEW gk, NEW gp, NEW k \in Seq(Items), NEW p \in Seq(Items), Shrinks(gk, gp, k, p),
         k # <<>>, p # <<>> => Last(k).score <= Last(p).score, NEW t, t = Front(k)
  PROVE  Shrinks(gk, gp, t, p)
<1>1. /\ t \in Seq(Items) /\ Len(t) = Len(k) - 1 /\ Len(k) \in Nat \ {0} /\ Len(p) \in Nat
      /\ \A i \in 1..Len(t) : t[i] = k[i]
      /\ Last(k) = k[Len(k)]
  BY FrontOf
<1>2. gk \in Seq(Items) /\ gp \in Seq(Items) /\ Len(gk) \in Nat /\ Len(gp) \in Nat
      /\ DOMAIN gk = 1..Len(gk) /\ DOMAIN gp = 1..Len(gp)
  BY DEF Shrinks
<1>3. Beginning(gk, t) /\ Beginning(gp, p)
  <2>1. Beginning(gk, k) /\ Beginning(gp, p)
    BY Zenon DEF Shrinks
  <2>2. /\ Len(k) <= Len(gk)
        /\ \A i \in 1..Len(k) : k[i] = gk[i]
    BY <2>1, Zenon DEF Beginning
  <2>3. Len(t) <= Len(gk) /\ Len(t) <= Len(k) /\ Len(t) \in Int /\ Len(k) \in Int
    BY <1>1, <1>2, <2>2
  <2>4. ASSUME NEW i \in 1..Len(t)
        PROVE  t[i] = gk[i]
    <3>1. i \in 1..Len(k)
      BY <2>3
    <3> QED
      BY <1>1, <2>2, <3>1, Zenon
  <2> QED
    BY <2>1, <2>3, <2>4, Zenon DEF Beginning
<1>4. ASSUME Descending(gk), Descending(gp)
      PROVE  Weaker(gk, t, p) /\ Weaker(gp, p, t)
  <2>1. Weaker(gk, k, p) /\ Weaker(gp, p, k) /\ Beginning(gk, k) /\ Beginning(gp, p)
    BY <1>4 DEF Shrinks
  <2>0. \A item \in Items : item.score \in Nat
    BY DEF Items, NoScore
  <2>2. \A n \in 1..Len(gk) : gk[n].score \in Nat
    BY <1>2, <2>0
  <2>3. \A n \in 1..Len(p) : p[n].score \in Nat
    BY <1>1, <2>0
  <2>4. ASSUME NEW j \in 1..Len(p) PROVE gk[Len(k)].score <= p[j].score
    <3>1. Len(p) \in 1..Len(p) /\ p # <<>> /\ Last(p) = p[Len(p)] /\ Len(k) \in 1..Len(gk)
      BY <1>1, <1>2, <2>1 DEF Last, Beginning
    <3>2. gk[Len(k)].score <= p[Len(p)].score
      BY <1>1, <2>1, <3>1 DEF Beginning
    <3>3. j < Len(p) => p[j].score >= p[Len(p)].score
      <4>1. j \in DOMAIN gp /\ Len(p) \in DOMAIN gp /\ p[j] = gp[j] /\ p[Len(p)] = gp[Len(p)]
        BY <1>1, <1>2, <2>1, <3>1 DEF Beginning
      <4> QED
        BY <1>4, <4>1 DEF Descending
    <3>4. gk[Len(k)].score \in Nat /\ p[j].score \in Nat /\ p[Len(p)].score \in Nat
      BY <2>2, <2>3, <3>1
    <3>5. CASE j < Len(p)
      BY <3>2, <3>3, <3>4, <3>5
    <3>6. CASE j = Len(p)
      BY <3>2, <3>6
    <3> QED
      BY <1>1, <3>5, <3>6
  <2>5. Weaker(gk, t, p)
    <3>1. \A i \in (Len(t) + 1)..Len(gk) : i = Len(k) \/ i \in (Len(k) + 1)..Len(gk)
      BY <1>1, <1>2
    <3> QED
      BY <2>1, <2>4, <3>1 DEF Weaker
  <2>6. Weaker(gp, p, t)
    <3>1. \A j \in 1..Len(t) : j \in 1..Len(k) /\ t[j] = k[j]
      BY SMTT(30), <1>1
    <3> QED
      BY <2>1, <3>1 DEF Weaker
  <2> QED
    BY <2>5, <2>6
<1> QED
  BY <1>2, <1>3, <1>4 DEF Shrinks

\* The same with the contexts exchanged.
LEMMA ShrinksSwapped ==
  ASSUME NEW gk, NEW gp, NEW k, NEW p
  PROVE  Shrinks(gk, gp, k, p) <=> Shrinks(gp, gk, p, k)
BY DEF Shrinks

\* Of two tails, the one that goes is not the better one.
LEMMA WeakerGoes ==
  ASSUME NEW k \in Items, NEW p \in Items
  PROVE  IF GoesFirst(k, p) THEN k.score <= p.score ELSE p.score <= k.score
BY DEF GoesFirst, Items, NoScore

\* Nothing is given to the prompt before the contexts are rendered.
LEMMA PromptStarts == PromptInit => PromptInv
<1> SUFFICES ASSUME PromptInit PROVE PromptInv
  OBVIOUS
<1>1. ASSUME NEW s \in BoundedSeq(Items, MaxItems) PROVE s \in Seq(Items)
  <2>1. PICK m \in 0..MaxItems : s \in [1..m -> Items]
    BY <1>1 DEF BoundedSeq, SeqOf
  <2>2. m \in Nat
    BY <2>1
  <2> QED
    BY <2>1, <2>2
<1> QED
  BY <1>1 DEF PromptInit, PromptInv, PromptType

\* A prompt that does not fit gives up the weakest of what it has.
LEMMA PromptKeeps == PromptInv /\ [PromptNext]_promptVars => PromptInv'
<1> SUFFICES ASSUME PromptInv, [PromptNext]_promptVars PROVE PromptInv'
  OBVIOUS
<1>0. PromptType
  BY DEF PromptInv
<1>1. CASE RenderPair
  <2>1. PICK k \in Seq(Items), p \in Seq(Items) :
           k = Budgeted(knowledge, KnowledgeTokens) /\ p = Budgeted(policy, PolicyTokens)
    BY <1>0, BudgetedPrefix DEF PromptType
  <2>2. /\ knowledge' = k /\ policy' = p /\ prompt' = "fitting"
        /\ given' = [knowledge |-> k, policy |-> p]
    BY <1>1, <2>1 DEF RenderPair
  <2>3. Len(k) \in Nat /\ Len(p) \in Nat
    OBVIOUS
  <2>4. Beginning(k, k) /\ Beginning(p, p) /\ Weaker(k, k, p) /\ Weaker(p, p, k)
    BY <2>3 DEF Beginning, Weaker
  <2>5. Shrinks(k, p, k, p)
    BY <2>4 DEF Shrinks
  <2>6. given'.knowledge = k /\ given'.policy = p
    BY <2>2
  <2> QED
    BY <2>2, <2>5, <2>6 DEF PromptInv, PromptType
<1>2. CASE DropKnowledge
  <2>1. /\ prompt = "fitting" /\ knowledge # <<>> /\ UNCHANGED <<policy, given, prompt>>
        /\ policy # <<>> => GoesFirst(Last(knowledge), Last(policy))
        /\ Shrinks(given.knowledge, given.policy, knowledge, policy)
    BY <1>2 DEF DropKnowledge, KnowledgeTailGoes, PromptInv
  <2>2. PICK t : t = Front(knowledge)
    OBVIOUS
  <2>3. policy # <<>> => Last(knowledge).score <= Last(policy).score
    <3>1. ASSUME policy # <<>> PROVE Last(knowledge).score <= Last(policy).score
      <4>1. Last(knowledge) \in Items /\ Last(policy) \in Items
        BY <1>0, <2>1, <3>1, FrontOf DEF PromptType
      <4> QED
        BY <2>1, <3>1, <4>1, WeakerGoes
    <3> QED
      BY <3>1
  <2>4. Shrinks(given.knowledge, given.policy, t, policy)
    BY <1>0, <2>1, <2>2, <2>3, TailLost DEF PromptType
  <2>5. t \in Seq(Items) /\ knowledge' = t
    BY <1>0, <1>2, <2>1, <2>2, FrontOf DEF PromptType, DropKnowledge
  <2> QED
    BY <1>0, <2>1, <2>4, <2>5 DEF PromptInv, PromptType
<1>3. CASE DropPolicy
  <2>1. /\ prompt = "fitting" /\ policy # <<>> /\ UNCHANGED <<knowledge, given, prompt>>
        /\ knowledge # <<>> => policy # <<>> /\ ~GoesFirst(Last(knowledge), Last(policy))
        /\ Shrinks(given.knowledge, given.policy, knowledge, policy)
    BY <1>3 DEF DropPolicy, KnowledgeTailGoes, PromptInv
  <2>2. PICK t : t = Front(policy)
    OBVIOUS
  <2>3. knowledge # <<>> => Last(policy).score <= Last(knowledge).score
    <3>1. ASSUME knowledge # <<>> PROVE Last(policy).score <= Last(knowledge).score
      <4>1. Last(knowledge) \in Items /\ Last(policy) \in Items
        BY <1>0, <2>1, <3>1, FrontOf DEF PromptType
      <4> QED
        BY <2>1, <3>1, <4>1, WeakerGoes
    <3> QED
      BY <3>1
  <2>4. Shrinks(given.policy, given.knowledge, t, knowledge)
    <3>1. Shrinks(given.policy, given.knowledge, policy, knowledge)
      BY <2>1, ShrinksSwapped
    <3> QED
      BY <1>0, <2>1, <2>2, <2>3, <3>1, TailLost DEF PromptType
  <2>5. Shrinks(given.knowledge, given.policy, knowledge, t)
    BY <2>4, ShrinksSwapped
  <2>6. t \in Seq(Items) /\ policy' = t
    BY <1>0, <1>3, <2>1, <2>2, FrontOf DEF PromptType, DropPolicy
  <2> QED
    BY <1>0, <2>1, <2>5, <2>6 DEF PromptInv, PromptType
<1>4. CASE BuildPrompt
  BY <1>4 DEF BuildPrompt, PromptInv, PromptType
<1>5. CASE RefusePrompt
  BY <1>5 DEF RefusePrompt, PromptInv, PromptType
<1>6. CASE UNCHANGED promptVars
  BY <1>6 DEF promptVars, PromptInv, PromptType
<1> QED
  BY <1>1, <1>2, <1>3, <1>4, <1>5, <1>6 DEF PromptNext, PromptStep

\* What the invariant says of a prompt that is built.
LEMMA WeakestKept == PromptInv => WeakestGivenUp
<1>1. SUFFICES ASSUME PromptInv, prompt = "built", Descending(given.knowledge), Descending(given.policy)
               PROVE  WeakestGivenUp
  BY DEF WeakestGivenUp
<1>2. /\ Weaker(given.knowledge, knowledge, policy) /\ Weaker(given.policy, policy, knowledge)
      /\ DOMAIN knowledge = 1..Len(knowledge) /\ DOMAIN policy = 1..Len(policy)
  BY <1>1 DEF PromptInv, PromptType, Shrinks
<1> QED
  BY <1>2 DEF WeakestGivenUp, Weaker

\* Nothing is given up for the total budget while something weaker of the other
\* context is kept.
THEOREM WeakestAlwaysGivenUp == PromptSpec => []WeakestGivenUp
<1>1. PromptInit => PromptInv
  BY PromptStarts
<1>2. PromptInv /\ [PromptNext]_promptVars => PromptInv'
  BY PromptKeeps
<1>3. PromptInv => WeakestGivenUp
  BY WeakestKept
<1> QED
  BY <1>1, <1>2, <1>3, PTL DEF PromptSpec

---------------------------------------------------------------------------
(* BackendParts: what a retrieval promises *)

\* The adaptive cut separates no two candidates with one score and empties no list, and
\* a conversation is represented by one best segment (_adaptive_k, _collapse_conversations),
\* for any scores.
THEOREM RankingAlwaysSound == RetSpec => []RankingSound
<1>1. RetInv => RankingSound
  BY RetTold DEF RankingSound
<1> QED
  BY RetStarts, RetKept, <1>1, PTL DEF RetSpec

\* The context holds what survived the second read, each object once, the best first, no
\* more than configured and as much as the budget allows (_hydrate_mmr_head, _mmr,
\* _budget_results), whatever was deleted or replaced between the two reads.
THEOREM ContextAlwaysSound == RetSpec => []ContextSound
<1>1. RetInv => ContextSound
  BY RetTold DEF ContextSound
<1> QED
  BY RetStarts, RetKept, <1>1, PTL DEF RetSpec

---------------------------------------------------------------------------
(* BackendParts: the parts side by side *)

\* The inductive invariants of the parts.
PartsInv ==
    /\ LifecycleInv /\ CollectionsInv /\ StreamInv /\ TraceInv /\ PromptInv
    /\ ChunksInv /\ EditInv /\ RetInv /\ MapsTypeInv /\ FoundInv

\* A part that nobody starts is still in a state its invariant holds in.
LEMMA PartsStart == PartsInit => PartsInv
<1> SUFFICES ASSUME PartsInit PROVE PartsInv
  OBVIOUS
<1>1. LifecycleInv /\ StreamInv /\ TraceInv
  BY LifecycleStarts, StreamStarts, TraceStarts DEF PartsInit
<1>2. CollectionsInit
  BY DEF PartsInit
<1>3. CollectionsInv
  BY <1>2, CollectionsStart
<1>4. PromptInv
  <2>1. CASE part = "prompt"
    BY <2>1, PromptStarts DEF PartsInit
  <2>2. CASE part # "prompt"
    <3>1. knowledge = <<>> /\ policy = <<>> /\ prompt = "rendering"
      BY <2>2 DEF PartsInit
    <3> QED
      BY <3>1 DEF PromptInv, PromptType
  <2> QED
    BY <2>1, <2>2
<1>5. ChunksInv
  <2>1. CASE part = "chunks"
    BY <2>1, ChunksStart DEF PartsInit
  <2>2. CASE part # "chunks"
    <3>1. blank = <<FALSE>> /\ similarity = <<>> /\ ends = <<>> /\ index = 0 /\ chunked = FALSE
      BY <2>2 DEF PartsInit
    <3>2. blank \in Texts
      BY <3>1 DEF Texts
    <3>3. ends \in Seq(Nat) /\ Len(ends) = 0 /\ DOMAIN ends = {} /\ DOMAIN similarity = {}
      BY <3>1
    <3>4. index \in 0..(Len(ends) + 1)
      BY <3>1, <3>3
    <3>5. ChunksType
      BY <3>1, <3>2, <3>3, <3>4, Zenon DEF ChunksType
    <3> QED
      BY <3>1, <3>3, <3>5 DEF ChunksInv
  <2> QED
    BY <2>1, <2>2
<1>6. EditInv
  <2>1. CASE part = "edit"
    BY <2>1, EditStarts DEF PartsInit
  <2>2. CASE part # "edit"
    BY <2>2, EmptyDocument, NoOpcodes DEF PartsInit
  <2> QED
    BY <2>1, <2>2
<1>7. RetInv
  BY RetStarts DEF PartsInit
<1>8. MapsTypeInv /\ FoundInv
  BY MapsInitTypes, InitFound DEF PartsInit
<1> QED
  BY <1>1, <1>3, <1>4, <1>5, <1>6, <1>7, <1>8 DEF PartsInv

\* A step is of one part, and no step for the others.
LEMMA OnePartSteps ==
  ASSUME [PartsNext]_partVars
  PROVE  /\ [LifecycleNext]_lifecycleVars /\ [CollectionsNext]_collectionVars
         /\ [StreamNext]_streamVars /\ [TraceNext]_traceVars /\ [PromptNext]_promptVars
         /\ [ChunksNext]_chunkVars /\ [EditNext]_editVars /\ [RetNext]_retVars
         /\ [MapsNext]_mapsVars
<1>1. CASE UNCHANGED partVars
  BY <1>1 DEF partVars
<1>2. CASE PartsNext
  BY <1>2 DEF PartsNext, OnlyPart
<1> QED
  BY <1>1, <1>2

\* Every step keeps the invariants of all the parts.
LEMMA PartsKeep ==
  ASSUME PartsInv, [PartsNext]_partVars
  PROVE  PartsInv'
<1>1. LifecycleInv' /\ CollectionsInv' /\ StreamInv'
  BY OnePartSteps, LifecycleKeeps, CollectionsKeepInv, StreamKeepsInv DEF PartsInv
<1>2. TraceInv'
  BY OnePartSteps, TraceStep, TraceStutters DEF PartsInv
<1>3. PromptInv' /\ ChunksInv' /\ EditInv'
  BY OnePartSteps, PromptKeeps, ChunksKeep, EditKeeps DEF PartsInv
<1>4. RetInv'
  BY OnePartSteps, RetKept DEF PartsInv
<1>5. MapsTypeInv' /\ FoundInv'
  BY OnePartSteps, MapsStepTypes, StepFound DEF PartsInv
<1> QED
  BY <1>1, <1>2, <1>3, <1>4, <1>5 DEF PartsInv

\* The backend's parts together: all resources are closed at the end, no tenant is
\* served from a collection that is not ready, an answer is whole or not persisted,
\* the weakest items are given up first, a save aligns every edit and cuts no text
\* away, a retrieval's quarantine, ranking, context and reasons are sound, traces tell
\* the truth and keep what was observed, and no map that exists loses a wizard.
THEOREM PartsAlwaysSound ==
  PartsSpec => /\ [](/\ ResourcesClosed /\ CollectionsSafe /\ AnswerWhole
                     /\ WeakestGivenUp /\ TracesTruthful /\ TextPreserved
                     /\ QuarantineExact /\ RankingSound /\ ContextSound /\ ReasonsExplain
                     /\ MapsTypeOK /\ FoundWhenWarm)
               /\ EvidenceSealed
<1>1. PartsInit => PartsInv
  BY PartsStart
<1>2. PartsInv /\ [PartsNext]_partVars => PartsInv'
  BY PartsKeep
<1>3. PartsInv => /\ ResourcesClosed /\ CollectionsSafe /\ AnswerWhole
                  /\ WeakestGivenUp /\ TracesTruthful /\ TextPreserved
                  /\ QuarantineExact /\ RankingSound /\ ContextSound /\ ReasonsExplain
                  /\ MapsTypeOK /\ FoundWhenWarm
  BY ClosedWhenItEnds, CollectionsServed, WholeWhenTold, WeakestKept, TracesTold, ChunksTold,
     EditTold, RetTold, FoundTold DEF PartsInv, MapsTypeInv, TextPreserved, RankingSound, ContextSound
<1>4. PartsInv /\ [PartsNext]_partVars => [SealedStep]_traceVars
  BY OnePartSteps, TraceStep DEF PartsInv
<1> QED
  BY <1>1, <1>2, <1>3, <1>4, PTL DEF PartsSpec, EvidenceSealed, SealedStep
=============================================================================
