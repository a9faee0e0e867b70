------------------------- MODULE ChatSessionProofs -------------------------
(***************************************************************************)
(* ChatSession for every number of sessions, queries, deletions and        *)
(* segments: its types, the exclusive reservation, the complete snapshot,  *)
(* and what it owes to the order of its queue.                             *)
(***************************************************************************)
EXTENDS ChatSession, TLAPS

\* An insertion that goes on has a segment left to insert; nothing is persisted
\* before its stream has answered; a query that was made named a session.
Unanswered == {"none", "ensuring", "ready", "abandoned", "streaming"}
WorkInv ==
    \A c \in Convs :
        /\ stream[c] \in Unanswered => phase[Embed(c)] = "none" /\ phase[Title(c)] = "none"
        /\ stream[c] # "none" => asked[c] \in Sessions
        /\ phase[Embed(c)] \in {"none", "queued", "embedding"} => attempted[c] = 0
        /\ phase[Embed(c)] = "inserting" => attempted[c] < NumSegments

TypeInv == TypeOK /\ WorkInv

-----------------------------------------------------------------------------
\* The three kinds of work are different tasks, and so is each one's subject.
LEMMA TaskNames ==
    /\ \A c \in Convs : Embed(c) \in Tasks /\ Title(c) \in Tasks
    /\ \A d \in Deletes : Removal(d) \in Tasks
    /\ \A c, e : Embed(c) = Embed(e) <=> c = e
    /\ \A c, e : Title(c) = Title(e) <=> c = e
    /\ \A c, e : Removal(c) = Removal(e) <=> c = e
    /\ \A c, e : Embed(c) # Title(e) /\ Embed(c) # Removal(e) /\ Title(c) # Removal(e)
  BY DEF Embed, Title, Removal, Tasks

\* The conversations recorded after one more.
LEMMA AppendElements ==
    ASSUME NEW S, NEW q \in Seq(S), NEW t \in S
    PROVE  Append(q, t) \in Seq(S) /\ Elements(Append(q, t)) = Elements(q) \cup {t}
  <1>1. /\ Append(q, t) \in Seq(S)
        /\ DOMAIN Append(q, t) = 1..(Len(q) + 1) /\ DOMAIN q = 1..Len(q)
        /\ \A i \in DOMAIN q : Append(q, t)[i] = q[i]
        /\ Append(q, t)[Len(q) + 1] = t
        /\ Len(q) \in Nat
    OBVIOUS
  <1>2. ASSUME NEW x PROVE x \in Elements(Append(q, t)) <=> x \in Elements(q) \cup {t}
    <2>1. ASSUME NEW i \in 1..(Len(q) + 1)
          PROVE  Append(q, t)[i] \in Elements(q) \cup {t}
      BY <1>1, i \in 1..Len(q) \/ i = Len(q) + 1 DEF Elements
    <2>2. ASSUME NEW i \in 1..Len(q) PROVE q[i] \in Elements(Append(q, t))
      BY <1>1, i \in 1..(Len(q) + 1) DEF Elements
    <2>3. t \in Elements(Append(q, t))
      BY <1>1, Len(q) + 1 \in 1..(Len(q) + 1) DEF Elements
    <2> QED BY <1>1, <2>1, <2>2, <2>3 DEF Elements
  <1> QED BY <1>1, <1>2

-----------------------------------------------------------------------------
(* Types *)

\* The queue's three sequences keep their types.
LEMMA FifoTypes ==
    ASSUME TypeOK, NEW t \in Tasks, NEW p \in Tasks
    PROVE  /\ F!Accept(User, t) \/ F!AcceptPair(User, t, p) \/ F!Begin(User) \/ F!End(User)
                 => /\ log' \in [{User} -> Seq(Tasks)]
                    /\ began' \in [{User} -> Seq(Tasks)]
                    /\ active' \in [{User} -> SUBSET Tasks]
  <1> USE DEF TypeOK
  <1>1. log[User] \in Seq(Tasks) /\ began[User] \in Seq(Tasks)
    OBVIOUS
  <1>2. CASE F!Accept(User, t)
    <2>1. Append(log[User], t) \in Seq(Tasks)
      BY <1>1
    <2> QED BY <1>2, <2>1 DEF F!Accept
  <1>3. CASE F!AcceptPair(User, t, p)
    <2>1. log[User] \o <<t, p>> \in Seq(Tasks)
      BY <1>1
    <2> QED BY <1>3, <2>1 DEF F!AcceptPair
  <1>4. CASE F!Begin(User)
    <2> DEFINE next == log[User][Len(began[User]) + 1]
    <2>1. next \in Tasks
      BY <1>1, <1>4 DEF F!Begin
    <2>2. Append(began[User], next) \in Seq(Tasks)
      BY <1>1, <2>1
    <2> QED BY <1>4, <2>1, <2>2 DEF F!Begin
  <1>5. CASE F!End(User)
    BY <1>5 DEF F!End
  <1> QED BY <1>2, <1>3, <1>4, <1>5

\* A step of the work of one task keeps the type of the phases.
LEMMA PhaseTypes ==
    ASSUME TypeOK, NEW t \in Tasks, NEW p \in Phases
    PROVE  [phase EXCEPT ![t] = p] \in [Tasks -> Phases]
  BY DEF TypeOK

\* Begins and Ends, as the actions use them.
LEMMA WorkTypes ==
    ASSUME TypeOK, NEW t \in Tasks, NEW p \in Phases, Begins(t, p) \/ Ends(t, p)
    PROVE  /\ phase' = [phase EXCEPT ![t] = p]
           /\ phase' \in [Tasks -> Phases]
           /\ log' \in [{User} -> Seq(Tasks)]
           /\ began' \in [{User} -> Seq(Tasks)]
           /\ active' \in [{User} -> SUBSET Tasks]
  BY FifoTypes, PhaseTypes DEF Begins, Ends

\* The answer of a stream, recorded or not (stream_events).
LEMMA AnswerTypes ==
    ASSUME TypeInv, NEW c \in Convs, Answer(c)
    PROVE  TypeInv'
  <1>1. /\ Embed(c) \in Tasks /\ Title(c) \in Tasks
        /\ \A e \in Convs : Embed(c) = Embed(e) => c = e
        /\ \A e \in Convs : Title(c) # Embed(e) /\ Embed(c) # Title(e)
        /\ \A e \in Convs : Title(c) = Title(e) => c = e
        /\ \A e \in Convs : Embed(e) \in Tasks /\ Title(e) \in Tasks
    BY TaskNames
  <1>2. UNCHANGED <<sessions, created, title, deleting, asked, target, ids,
                    request, closing, draft, attempted, stored>>
    BY DEF Answer, deletions
  <1>3. TypeOK
    BY DEF TypeInv
  <1>4. CASE MayRecord(asked[c])
    <2>1. /\ convs' = [convs EXCEPT ![asked[c]] = Append(@, c)]
          /\ stream' = [stream EXCEPT ![c] = "answered"]
          /\ F!AcceptPair(User, Embed(c), Title(c))
          /\ phase' = [phase EXCEPT ![Embed(c)] = "queued", ![Title(c)] = "queued"]
          /\ lease' = lease
      BY <1>4 DEF Answer
    <2>2. convs' \in [Sessions -> Seq(Convs)]
      <3>1. asked[c] \in Sessions /\ convs[asked[c]] \in Seq(Convs)
        BY <1>3, <1>4 DEF TypeOK, MayRecord
      <3>2. Append(convs[asked[c]], c) \in Seq(Convs)
        BY <3>1
      <3> QED BY <1>3, <2>1, <3>2 DEF TypeOK
    <2>3. phase' \in [Tasks -> Phases]
      BY <1>1, <1>3, <2>1 DEF TypeOK, Phases
    <2>4. stream' \in [Convs -> StreamStates]
      BY <1>3, <2>1 DEF TypeOK, StreamStates
    <2>5. /\ log' \in [{User} -> Seq(Tasks)]
          /\ began' \in [{User} -> Seq(Tasks)]
          /\ active' \in [{User} -> SUBSET Tasks]
      BY <1>1, <1>3, <2>1, FifoTypes
    <2>6. WorkInv'
      BY <1>1, <1>2, <1>3, <2>1 DEF TypeInv, TypeOK, WorkInv, Unanswered, Answer
    <2> QED BY <1>2, <1>3, <2>1, <2>2, <2>3, <2>4, <2>5, <2>6 DEF TypeInv, TypeOK
  <1>5. CASE ~ MayRecord(asked[c])
    <2>1. /\ stream' = [stream EXCEPT ![c] = "ended"]
          /\ F!Accept(User, Embed(c))
          /\ phase' = [phase EXCEPT ![Embed(c)] = "queued"]
          /\ lease' = lease \ {c}
          /\ convs' = convs
      BY <1>5 DEF Answer
    <2>3. phase' \in [Tasks -> Phases]
      BY <1>1, <1>3, <2>1 DEF TypeOK, Phases
    <2>4. stream' \in [Convs -> StreamStates]
      BY <1>3, <2>1 DEF TypeOK, StreamStates
    <2>5. /\ log' \in [{User} -> Seq(Tasks)]
          /\ began' \in [{User} -> Seq(Tasks)]
          /\ active' \in [{User} -> SUBSET Tasks]
      BY <1>1, <1>3, <2>1, FifoTypes
    <2>6. WorkInv'
      BY <1>1, <1>2, <1>3, <2>1 DEF TypeInv, TypeOK, WorkInv, Unanswered, Answer
    <2> QED BY <1>2, <1>3, <2>1, <2>3, <2>4, <2>5, <2>6 DEF TypeInv, TypeOK
  <1> QED BY <1>4, <1>5

\* POST /query and its stream.
LEMMA QueryTypes ==
    ASSUME TypeInv, NEW c \in Convs, QueryStep(c)
    PROVE  TypeInv'
  <1> USE TaskNames DEF TypeInv, TypeOK, WorkInv, Unanswered, registry, deletions, fifo, work
  <1>1. ASSUME NEW s \in Sessions, Query(c, s) PROVE TypeInv'
    BY <1>1 DEF Query, StreamStates
  <1>2. CASE EnsureFails(c)
    BY <1>2 DEF EnsureFails, StreamStates
  <1>3. CASE Respond(c)
    BY <1>3 DEF Respond, StreamStates
  <1>4. CASE Abandon(c)
    BY <1>4 DEF Abandon, StreamStates
  <1>5. CASE FirstStep(c)
    BY <1>5 DEF FirstStep, StreamStates
  <1>6. CASE StreamFails(c)
    BY <1>6 DEF StreamFails, StreamStates
  <1>7. CASE Answer(c)
    BY <1>7, AnswerTypes DEF TypeInv
  <1>8. CASE TellDone(c)
    BY <1>8 DEF TellDone, StreamStates
  <1>9. CASE EndStream(c)
    BY <1>9 DEF EndStream, StreamStates
  <1> QED BY <1>1, <1>2, <1>3, <1>4, <1>5, <1>6, <1>7, <1>8, <1>9 DEF QueryStep

\* DELETE /sessions/{id}.
LEMMA DeleteTypes ==
    ASSUME TypeInv, NEW d \in Deletes, DeleteStep(d)
    PROVE  TypeInv'
  <1> USE TaskNames DEF TypeInv, TypeOK, WorkInv, Unanswered, registry, queries, fifo, work
  <1>1. ASSUME NEW s \in Sessions, Reserve(d, s) PROVE TypeInv'
    <2>1. Elements(convs[s]) \in SUBSET Convs
      BY DEF Elements
    <2> QED BY <1>1, <2>1 DEF Reserve, RequestStates
  <1>2. CASE DeleteRefused(d)
    BY <1>2 DEF DeleteRefused, Abort, RequestStates
  <1>3. CASE DeleteAccepted(d)
    <2>1. /\ log' \in [{User} -> Seq(Tasks)]
          /\ began' \in [{User} -> Seq(Tasks)]
          /\ active' \in [{User} -> SUBSET Tasks]
      BY <1>3, FifoTypes DEF DeleteAccepted
    <2>2. phase' \in [Tasks -> Phases]
      BY <1>3, PhaseTypes DEF DeleteAccepted, Phases
    <2>3. WorkInv'
      BY <1>3, ZenonT(40) DEF DeleteAccepted
    <2>4. request' \in [Deletes -> RequestStates]
      BY <1>3 DEF DeleteAccepted, RequestStates
    <2> QED BY <1>3, <2>1, <2>2, <2>3, <2>4 DEF DeleteAccepted
  <1> QED BY <1>1, <1>2, <1>3 DEF DeleteStep

\* embed_conversation and insert().
LEMMA EmbedTypes ==
    ASSUME TypeInv, NEW c \in Convs, EmbedStep(c)
    PROVE  TypeInv'
  <1> USE TaskNames, SegmentsAssumption
      DEF TypeInv, WorkInv, Unanswered, registry, queries, deletions, fifo, Segments
  <1>1. CASE BeginEmbed(c)
    BY <1>1, WorkTypes DEF BeginEmbed, TypeOK, Begins, Phases
  <1>2. CASE EmbedFails(c)
    BY <1>2, WorkTypes DEF EmbedFails, TypeOK, Ends, Phases
  <1>3. CASE Embedded(c)
    BY <1>3, PhaseTypes DEF Embedded, TypeOK, Phases
  <1>4. CASE InsertSegment(c)
    <2>1. attempted[c] + 1 \in Segments
      BY <1>4 DEF InsertSegment, TypeOK
    <2>2. stored' \in [Convs -> SUBSET Segments] /\ attempted' \in [Convs -> 0..NumSegments]
      BY <1>4, <2>1 DEF InsertSegment, TypeOK
    <2>3. CASE attempted[c] + 1 = NumSegments
      <3>1. Ends(Embed(c), "succeeded")
        BY <1>4, <2>3 DEF InsertSegment
      <3>2. /\ phase' = [phase EXCEPT ![Embed(c)] = "succeeded"]
            /\ phase' \in [Tasks -> Phases]
            /\ log' \in [{User} -> Seq(Tasks)]
            /\ began' \in [{User} -> Seq(Tasks)]
            /\ active' \in [{User} -> SUBSET Tasks]
        BY <3>1, WorkTypes DEF Phases
      <3> QED BY <1>4, <2>2, <3>2 DEF InsertSegment, TypeOK
    <2>4. CASE attempted[c] + 1 # NumSegments
      <3>1. UNCHANGED <<phase, log, began, active>>
        BY <1>4, <2>4 DEF InsertSegment
      <3>2. attempted[c] + 1 < NumSegments
        BY <2>1, <2>4
      <3>3. phase[Embed(c)] = "inserting" /\ attempted' = [attempted EXCEPT ![c] = attempted[c] + 1]
        BY <1>4 DEF InsertSegment
      <3>4. TypeOK'
        BY <1>4, <2>2, <3>1 DEF InsertSegment, TypeOK
      <3>5. UNCHANGED <<stream, asked>>
        BY <1>4 DEF InsertSegment
      <3> QED BY <3>1, <3>2, <3>3, <3>4, <3>5 DEF TypeOK
    <2> QED BY <2>3, <2>4
  <1>5. CASE InsertFails(c)
    <2>1. attempted[c] + 1 \in Segments
      BY <1>5 DEF InsertFails, TypeOK
    <2>2. PICK effect \in SUBSET {attempted[c] + 1} :
              stored' = [stored EXCEPT ![c] = @ \cup effect]
      BY <1>5 DEF InsertFails
    <2>3. stored[c] \cup effect \in SUBSET Segments
      <3>1. stored[c] \in SUBSET Segments
        BY DEF TypeOK
      <3>2. effect \subseteq {attempted[c] + 1} /\ {attempted[c] + 1} \subseteq Segments
        BY <2>1
      <3> HIDE DEF Segments
      <3> QED BY <3>1, <3>2
    <2>4. stored' \in [Convs -> SUBSET Segments]
      BY <2>2, <2>3 DEF TypeOK
    <2>5. attempted' \in [Convs -> 0..NumSegments]
      BY <1>5, <2>1 DEF InsertFails, TypeOK
    <2> QED BY <1>5, <2>4, <2>5, PhaseTypes DEF InsertFails, TypeOK, Phases
  <1>6. CASE CleanUp(c)
    <2>1. stored' \in [Convs -> SUBSET Segments]
      BY <1>6 DEF CleanUp, TypeOK
    <2> QED BY <1>6, <2>1, WorkTypes DEF CleanUp, TypeOK, Ends, Phases
  <1> QED BY <1>1, <1>2, <1>3, <1>4, <1>5, <1>6 DEF EmbedStep

\* title_work.
LEMMA TitleTypes ==
    ASSUME TypeInv, NEW c \in Convs, TitleStep(c)
    PROVE  TypeInv'
  <1> USE TaskNames
      DEF TypeInv, WorkInv, Unanswered, registry, queries, deletions, fifo
  <1>1. CASE BeginTitle(c)
    BY <1>1, WorkTypes DEF BeginTitle, TypeOK, Begins, Phases
  <1>2. CASE TitleFails(c)
    BY <1>2, WorkTypes DEF TitleFails, TypeOK, Ends, Phases
  <1>3. CASE Titled(c)
    <2>1. draft[c] \in Seq(Convs \cup {Renamed})
      BY DEF TypeOK
    <2> QED BY <1>3, <2>1, WorkTypes DEF Titled, TypeOK, Ends, Phases
  <1> QED BY <1>1, <1>2, <1>3 DEF TitleStep

\* delete_session's work and its commit.
LEMMA RemovalTypes ==
    ASSUME TypeInv, NEW d \in Deletes, RemovalStep(d)
    PROVE  TypeInv'
  <1> USE TaskNames
      DEF TypeInv, WorkInv, Unanswered, registry, queries, deletions, fifo
  <1>1. CASE BeginRemoval(d)
    BY <1>1, WorkTypes DEF BeginRemoval, TypeOK, Begins, Phases
  <1>2. CASE DeleteMany(d)
    <2>1. stored' \in [Convs -> SUBSET Segments]
      BY <1>2 DEF DeleteMany, TypeOK
    <2> QED BY <1>2, <2>1, PhaseTypes DEF DeleteMany, TypeOK, Phases
  <1>3. CASE Verify(d)
    BY <1>3, PhaseTypes DEF Verify, TypeOK, Phases
  <1>4. CASE Commit(d)
    <2>1. Ends(Removal(d), "succeeded") \/ Ends(Removal(d), "failed")
      BY <1>4 DEF Commit
    <2>2. PICK p \in {"succeeded", "failed"} : Ends(Removal(d), p)
      BY <2>1
    <2>3. /\ phase' = [phase EXCEPT ![Removal(d)] = p]
          /\ phase' \in [Tasks -> Phases]
          /\ log' \in [{User} -> Seq(Tasks)]
          /\ began' \in [{User} -> Seq(Tasks)]
          /\ active' \in [{User} -> SUBSET Tasks]
      <3>1. Removal(d) \in Tasks /\ p \in Phases /\ TypeOK
        BY DEF Phases
      <3> QED BY <2>2, <3>1, WorkTypes
    <2>4. convs' \in [Sessions -> Seq(Convs)]
          /\ title' \in [Sessions -> Seq(Convs \cup {Renamed})]
      <3>1. <<>> \in Seq(Convs) /\ <<>> \in Seq(Convs \cup {Renamed})
        OBVIOUS
      <3>2. \/ UNCHANGED <<convs, title>>
            \/ /\ convs' = [convs EXCEPT ![target[d]] = <<>>]
               /\ title' = [title EXCEPT ![target[d]] = <<>>]
        BY <1>4 DEF Commit
      <3>3. convs \in [Sessions -> Seq(Convs)]
            /\ title \in [Sessions -> Seq(Convs \cup {Renamed})]
        BY DEF TypeOK
      <3>4. ASSUME NEW T, NEW f \in [Sessions -> T], NEW s, NEW e \in T
            PROVE  [f EXCEPT ![s] = e] \in [Sessions -> T]
        OBVIOUS
      <3>5. CASE UNCHANGED <<convs, title>>
        BY <3>3, <3>5
      <3>6. CASE /\ convs' = [convs EXCEPT ![target[d]] = <<>>]
                 /\ title' = [title EXCEPT ![target[d]] = <<>>]
        <4>1. convs' \in [Sessions -> Seq(Convs)]
          BY <3>1, <3>3, <3>4, <3>6, Zenon
        <4>2. title' \in [Sessions -> Seq(Convs \cup {Renamed})]
          BY <3>1, <3>3, <3>4, <3>6, Zenon
        <4> QED BY <4>1, <4>2
      <3> QED BY <3>2, <3>5, <3>6
    <2>5. sessions' \subseteq sessions /\ deleting' \subseteq deleting
      BY <1>4 DEF Commit, Abort
    <2>6. UNCHANGED <<created, lease, asked, stream, target, ids, request, closing,
                      draft, attempted, stored>>
      BY <1>4 DEF Commit
    <2> QED BY <2>3, <2>4, <2>5, <2>6 DEF TypeOK
  <1>5. CASE RemovalFails(d)
    BY <1>5, WorkTypes DEF RemovalFails, TypeOK, Ends, Phases, Abort
  <1> QED BY <1>1, <1>2, <1>3, <1>4, <1>5 DEF RemovalStep

\* Every step keeps the types.
LEMMA StepTypes == TypeInv /\ [Next]_vars => TypeInv'
  <1> SUFFICES ASSUME TypeInv, [Next]_vars PROVE TypeInv'
    OBVIOUS
  <1>1. ASSUME NEW s \in Sessions, CreateSession(s) PROVE TypeInv'
    BY <1>1 DEF CreateSession, TypeInv, TypeOK, WorkInv, queries, deletions, fifo, work
  <1>2. ASSUME NEW s \in Sessions, Rename(s) PROVE TypeInv'
    <2>1. <<Renamed>> \in Seq(Convs \cup {Renamed})
      OBVIOUS
    <2> QED BY <1>2, <2>1 DEF Rename, TypeInv, TypeOK, WorkInv, queries, deletions, fifo, work
  <1>3. CASE Close
    BY <1>3 DEF Close, TypeInv, TypeOK, WorkInv, registry, queries, deletions, fifo, work
  <1>4. CASE UNCHANGED vars
    BY <1>4 DEF vars, TypeInv, TypeOK, WorkInv
  <1> QED
    BY <1>1, <1>2, <1>3, <1>4, QueryTypes, DeleteTypes, EmbedTypes, TitleTypes,
       RemovalTypes DEF Next

\* The empty registry has them.
LEMMA InitTypes == Init => TypeInv
  <1> SUFFICES ASSUME Init PROVE TypeInv
    OBVIOUS
  <1>1. log = [u \in {User} |-> <<>>] /\ began = [u \in {User} |-> <<>>]
        /\ active = [u \in {User} |-> {}]
    BY DEF Init, F!Init
  <1>2. \A S : <<>> \in Seq(S)
    OBVIOUS
  <1>3. TypeOK
    <2>1. /\ convs \in [Sessions -> Seq(Convs)]
          /\ title \in [Sessions -> Seq(Convs \cup {Renamed})]
          /\ draft \in [Convs -> Seq(Convs)]
      BY <1>2 DEF Init
    <2>2. /\ log \in [{User} -> Seq(Tasks)]
          /\ began \in [{User} -> Seq(Tasks)]
          /\ active \in [{User} -> SUBSET Tasks]
      BY <1>1, <1>2
    <2>3. /\ stream \in [Convs -> StreamStates]
          /\ request \in [Deletes -> RequestStates]
          /\ phase \in [Tasks -> Phases]
      BY DEF Init, StreamStates, RequestStates, Phases
    <2>4. /\ attempted \in [Convs -> 0..NumSegments]
          /\ stored \in [Convs -> SUBSET Segments]
      BY SegmentsAssumption DEF Init
    <2> QED BY <2>1, <2>2, <2>3, <2>4 DEF Init, TypeOK
  <1>4. WorkInv
    BY TaskNames, <1>3 DEF Init, WorkInv, TypeOK
  <1> QED BY <1>3, <1>4 DEF TypeInv

\* Every variable keeps its type, for any number of requests and segments
\* (services.py, api/chat.py, rag/embedder.py).
THEOREM TypeCorrect == Spec => []TypeOK
  <1>1. TypeInv => TypeOK
    BY DEF TypeInv
  <1> QED BY <1>1, InitTypes, StepTypes, PTL DEF Spec

-----------------------------------------------------------------------------
(* Reservations *)

\* A stream that has not ended holds its lease, and its session exists; work to
\* remove a session exists only for an accepted request.
Leased == {"ensuring", "ready", "abandoned", "streaming", "answered", "told"}
Owned ==
    /\ ReservationExclusive
    /\ \A d \in Deletes : phase[Removal(d)] # "none" => request[d] = "accepted"
    /\ \A c \in Convs : stream[c] \in Leased => c \in lease
    /\ \A c \in lease : asked[c] \in sessions
    /\ \A c \in Convs : asked[c] \in created \cup {NoSession}

\* What is persisted, or will be, is recorded while its session exists.
Recorded ==
    /\ \A c \in Convs : phase[Embed(c)] # "none" /\ asked[c] \in sessions
                            => c \in Elements(convs[asked[c]])
    /\ SnapshotCoversHistory

ReservationInv == Owned /\ Recorded

\* What most steps do: no reservation or persistence begins or ends, and no
\* lease is taken.
Quiet ==
    /\ UNCHANGED <<sessions, created, convs, deleting, asked, target, ids>>
    /\ lease' \subseteq lease
    /\ \A c \in Convs : stream'[c] \in Leased => c \in lease'
    /\ \A c \in Convs : phase'[Embed(c)] # "none" => phase[Embed(c)] # "none"
    /\ \A d \in Deletes : InFlight(d)' <=> InFlight(d)
    /\ \A d \in Deletes : phase'[Removal(d)] # "none" => request'[d] = "accepted"

\* Such a step disturbs no reservation.
LEMMA QuietStep ==
    ASSUME TypeInv, ReservationInv, Quiet
    PROVE  ReservationInv'
  <1> USE DEF ReservationInv, Quiet
  <1>1. ReservationExclusive'
    <2>1. \A s : Streams(s)' \subseteq Streams(s)
      BY DEF Streams
    <2> QED BY <2>1 DEF Owned, ReservationExclusive
  <1>2. Owned'
    BY <1>1 DEF Owned
  <1>3. Recorded'
    BY DEF Recorded, SnapshotCoversHistory
  <1> QED BY <1>2, <1>3

\* The streams, apart from their beginning and their answer.
LEMMA StreamQuiet ==
    ASSUME TypeInv, ReservationInv, NEW c \in Convs,
           \/ EnsureFails(c) \/ Respond(c) \/ Abandon(c) \/ FirstStep(c)
           \/ StreamFails(c) \/ TellDone(c) \/ EndStream(c)
    PROVE  Quiet
  <1>1. UNCHANGED <<sessions, created, convs, deleting, asked, target, ids, request, phase>>
    BY DEF EnsureFails, Respond, Abandon, FirstStep, StreamFails, TellDone, EndStream,
           registry, deletions, work
  <1>2. /\ lease' \subseteq lease
        /\ \A e \in Convs : stream'[e] \in Leased => e \in lease'
    BY DEF EnsureFails, Respond, Abandon, FirstStep, StreamFails, TellDone, EndStream,
           registry, TypeInv, TypeOK, ReservationInv, Owned, Leased
  <1> QED BY <1>1, <1>2 DEF Quiet, InFlight, ReservationInv, Owned

\* Embedding and titles.
LEMMA WorkQuiet ==
    ASSUME TypeInv, ReservationInv, NEW c \in Convs, EmbedStep(c) \/ TitleStep(c)
    PROVE  Quiet
  <1>1. UNCHANGED <<sessions, created, convs, deleting, asked, target, ids, request, lease, stream>>
    BY DEF EmbedStep, BeginEmbed, EmbedFails, Embedded, InsertSegment, InsertFails,
           CleanUp, TitleStep, BeginTitle, TitleFails, Titled, registry, queries, deletions
  <1>2. \/ phase' = phase
        \/ phase[Embed(c)] # "none" /\ \E p \in Phases : phase' = [phase EXCEPT ![Embed(c)] = p]
        \/ \E p \in Phases : phase' = [phase EXCEPT ![Title(c)] = p]
    BY DEF EmbedStep, BeginEmbed, EmbedFails, Embedded, InsertSegment, InsertFails,
           CleanUp, TitleStep, BeginTitle, TitleFails, Titled, Begins, Ends, Phases
  <1>3. /\ \A d \in Deletes : phase'[Removal(d)] = phase[Removal(d)]
        /\ \A e \in Convs : phase'[Embed(e)] # "none" => phase[Embed(e)] # "none"
    <2>1. phase \in [Tasks -> Phases]
      BY DEF TypeInv, TypeOK
    <2>2. ASSUME NEW p, phase[Embed(c)] # "none", phase' = [phase EXCEPT ![Embed(c)] = p]
          PROVE  <1>3!1 /\ <1>3!2
      BY <2>1, <2>2, TaskNames
    <2>3. ASSUME NEW p, phase' = [phase EXCEPT ![Title(c)] = p]
          PROVE  <1>3!1 /\ <1>3!2
      BY <2>1, <2>3, TaskNames
    <2> QED BY <1>2, <2>2, <2>3
  <1> QED BY <1>1, <1>3 DEF Quiet, InFlight, ReservationInv, Owned

\* A removal up to its end, and the acceptance of its request.
LEMMA RemovalQuiet ==
    ASSUME TypeInv, ReservationInv, NEW d \in Deletes,
           DeleteAccepted(d) \/ BeginRemoval(d) \/ DeleteMany(d) \/ Verify(d)
    PROVE  Quiet
  <1>1. UNCHANGED <<sessions, created, convs, deleting, asked, target, ids, lease, stream>>
    BY DEF DeleteAccepted, BeginRemoval, DeleteMany, Verify, registry, queries, deletions
  <1>2. PICK p \in {"queued", "deleting", "verifying", "verified"} :
            phase' = [phase EXCEPT ![Removal(d)] = p]
    BY DEF DeleteAccepted, BeginRemoval, DeleteMany, Verify, Begins
  <1>3. /\ phase'[Removal(d)] = p
        /\ \A e \in Deletes : e # d => phase'[Removal(e)] = phase[Removal(e)]
        /\ \A c \in Convs : phase'[Embed(c)] = phase[Embed(c)]
    <2>1. phase \in [Tasks -> Phases]
      BY DEF TypeInv, TypeOK
    <2> QED BY <1>2, <2>1, TaskNames
  <1>4. /\ request'[d] = "accepted" /\ InFlight(d)
        /\ \A e \in Deletes : e # d => request'[e] = request[e]
    <2>1. CASE DeleteAccepted(d)
      BY <2>1 DEF DeleteAccepted, InFlight, TypeInv, TypeOK
    <2>2. CASE ~ DeleteAccepted(d)
      <3>1. phase[Removal(d)] \in {"queued", "deleting", "verifying"} /\ request' = request
        BY <2>2 DEF BeginRemoval, DeleteMany, Verify, Begins, deletions
      <3> QED BY <3>1 DEF InFlight, ReservationInv, Owned
    <2> QED BY <2>1, <2>2
  <1>5. \A e \in Deletes : InFlight(e)' <=> InFlight(e)
    BY <1>3, <1>4 DEF InFlight
  <1> QED BY <1>1, <1>3, <1>4, <1>5 DEF Quiet, ReservationInv, Owned

\* A reservation is released: its request is over, its lease-free session is
\* kept or removed, and no other request had reserved it.
LEMMA ReleaseStep ==
    ASSUME TypeInv, ReservationInv, NEW d \in Deletes, InFlight(d), ~ InFlight(d)',
           Abort(d),
           UNCHANGED <<created, asked, target, ids, lease, stream>>,
           \A e \in Deletes : e # d => (InFlight(e)' <=> InFlight(e)),
           \A e \in Deletes : phase'[Removal(e)] # "none" => request'[e] = "accepted",
           \A c \in Convs : phase'[Embed(c)] = phase[Embed(c)],
           \/ UNCHANGED <<sessions, convs>>
           \/ /\ sessions' = sessions \ {target[d]}
              /\ convs' = [convs EXCEPT ![target[d]] = <<>>]
    PROVE  ReservationInv'
  <1> DEFINE s == target[d]
  <1>1. s \in deleting /\ Streams(s) = {} /\ deleting' = deleting \ {s}
    BY DEF ReservationInv, Owned, ReservationExclusive, Abort
  <1>2. \A e \in Deletes : InFlight(e)' => InFlight(e) /\ e # d /\ target[e] # s
    BY DEF ReservationInv, Owned, ReservationExclusive
  <1>3. \A q \in deleting' : q \in deleting /\ q # s /\ q \in sessions' /\ Streams(q)' = {}
    BY <1>1 DEF ReservationInv, Owned, ReservationExclusive, Streams
  <1>4. \A c \in lease : asked[c] # s
    BY <1>1 DEF Streams
  <1>5. ReservationExclusive'
    BY <1>1, <1>2, <1>3 DEF ReservationInv, Owned, ReservationExclusive
  <1>6. Owned'
    BY <1>4, <1>5 DEF ReservationInv, Owned
  <1>7. \A q \in sessions' : q \in sessions /\ convs'[q] = convs[q]
    BY s \notin sessions' \/ convs' = convs DEF TypeInv, TypeOK
  <1>8. Recorded'
    BY <1>2, <1>7 DEF ReservationInv, Recorded, SnapshotCoversHistory
  <1> QED BY <1>6, <1>8 DEF ReservationInv

\* A refusal, a commit and a failure release their own reservation.
LEMMA ReleaseSteps ==
    ASSUME TypeInv, ReservationInv, NEW d \in Deletes,
           DeleteRefused(d) \/ Commit(d) \/ RemovalFails(d)
    PROVE  ReservationInv'
  <1>1. CASE DeleteRefused(d)
    <2>1. InFlight(d) /\ request' = [request EXCEPT ![d] = "refused"] /\ phase' = phase
      BY <1>1 DEF DeleteRefused, InFlight, work
    <2>2. /\ ~ InFlight(d)'
          /\ \A e \in Deletes : e # d => (InFlight(e)' <=> InFlight(e))
          /\ \A e \in Deletes : phase'[Removal(e)] # "none" => request'[e] = "accepted"
      BY <1>1, <2>1 DEF InFlight, TypeInv, TypeOK, ReservationInv, Owned, DeleteRefused
    <2>3. UNCHANGED <<created, asked, target, ids, lease, stream, sessions, convs>> /\ Abort(d)
      BY <1>1 DEF DeleteRefused, queries
    <2> QED BY <2>1, <2>2, <2>3, ReleaseStep
  <1>2. CASE Commit(d) \/ RemovalFails(d)
    <2>1. phase[Removal(d)] \in {"deleting", "verifying", "verified"}
      BY <1>2 DEF Commit, RemovalFails
    <2>2. PICK p \in {"succeeded", "failed"} : phase' = [phase EXCEPT ![Removal(d)] = p]
      BY <1>2 DEF Commit, RemovalFails, Ends
    <2>3. /\ phase'[Removal(d)] = p
          /\ \A e \in Deletes : e # d => phase'[Removal(e)] = phase[Removal(e)]
          /\ \A c \in Convs : phase'[Embed(c)] = phase[Embed(c)]
      <3>1. phase \in [Tasks -> Phases]
        BY DEF TypeInv, TypeOK
      <3> QED BY <2>2, <3>1, TaskNames
    <2>4. UNCHANGED <<created, asked, target, ids, request, lease, stream>> /\ Abort(d)
      BY <1>2 DEF Commit, RemovalFails, queries, deletions
    <2>5. InFlight(d) /\ request[d] = "accepted"
      BY <2>1 DEF InFlight, ReservationInv, Owned
    <2>6. /\ ~ InFlight(d)'
          /\ \A e \in Deletes : e # d => (InFlight(e)' <=> InFlight(e))
          /\ \A e \in Deletes : phase'[Removal(e)] # "none" => request'[e] = "accepted"
      BY <2>3, <2>4, <2>5 DEF InFlight, ReservationInv, Owned
    <2>7. \/ UNCHANGED <<sessions, convs>>
          \/ /\ sessions' = sessions \ {target[d]}
             /\ convs' = [convs EXCEPT ![target[d]] = <<>>]
      BY <1>2 DEF Commit, RemovalFails
    <2> QED BY <2>3, <2>4, <2>5, <2>6, <2>7, ReleaseStep
  <1> QED BY <1>1, <1>2

\* A session is created: nothing is asked of it yet.
LEMMA CreateStep ==
    ASSUME TypeInv, ReservationInv, NEW s \in Sessions, CreateSession(s)
    PROVE  ReservationInv'
  <1>1. UNCHANGED <<convs, deleting, asked, target, ids, lease, stream, request, phase>>
    BY DEF CreateSession, queries, deletions, work
  <1>2. \A c \in Convs : asked[c] # s
    BY NamesAssumption DEF CreateSession, ReservationInv, Owned
  <1>3. sessions' = sessions \cup {s} /\ created' = created \cup {s}
    BY DEF CreateSession
  <1>4. Owned'
    BY <1>1, <1>3 DEF ReservationInv, Owned, ReservationExclusive, InFlight, Streams
  <1>5. Recorded'
    BY <1>1, <1>2, <1>3 DEF ReservationInv, Recorded, SnapshotCoversHistory, InFlight
  <1> QED BY <1>4, <1>5 DEF ReservationInv

\* A query takes a lease on a session that no request has reserved, and nothing
\* of it is persisted yet.
LEMMA QueryStarts ==
    ASSUME TypeInv, ReservationInv, NEW c \in Convs, NEW s \in Sessions, Query(c, s)
    PROVE  ReservationInv'
  <1>1. UNCHANGED <<sessions, created, convs, deleting, target, ids, request, phase>>
    BY DEF Query, deletions, work
  <1>2. /\ s \in sessions /\ s \notin deleting
        /\ asked' = [asked EXCEPT ![c] = s]
        /\ stream' = [stream EXCEPT ![c] = "ensuring"]
        /\ lease' = lease \cup {c}
    BY DEF Query, MayBegin
  <1>3. /\ asked'[c] = s
        /\ \A e \in Convs : e # c => asked'[e] = asked[e] /\ stream'[e] = stream[e]
    BY <1>2 DEF TypeInv, TypeOK
  <1>4. phase[Embed(c)] = "none"
    BY DEF Query, TypeInv, WorkInv, Unanswered
  <1>5. lease \subseteq Convs /\ sessions \subseteq created
    BY DEF TypeInv, TypeOK
  <1>6. \A q \in deleting : Streams(q)' = {}
    BY <1>2, <1>3, <1>5 DEF Streams, ReservationInv, Owned, ReservationExclusive
  <1>7. ReservationExclusive'
    BY <1>1, <1>6 DEF ReservationInv, Owned, ReservationExclusive, InFlight
  <1>8. Owned'
    BY <1>1, <1>2, <1>3, <1>5, <1>7 DEF ReservationInv, Owned
  <1>9. Recorded'
    BY <1>1, <1>3, <1>4 DEF ReservationInv, Recorded, SnapshotCoversHistory, InFlight
  <1> QED BY <1>8, <1>9 DEF ReservationInv

\* An answer finds its session there and unreserved: it holds a lease.
LEMMA AnswerStep ==
    ASSUME TypeInv, ReservationInv, NEW c \in Convs, Answer(c)
    PROVE  ReservationInv'
  <1> DEFINE s == asked[c]
  <1>1. c \in lease /\ s \in sessions /\ s \in Sessions
    BY DEF Answer, ReservationInv, Owned, Leased, TypeInv, TypeOK
  <1>2. s \notin deleting
    BY <1>1 DEF ReservationInv, Owned, ReservationExclusive, Streams
  <1>3. /\ convs' = [convs EXCEPT ![s] = Append(@, c)]
        /\ stream' = [stream EXCEPT ![c] = "answered"]
        /\ phase' = [phase EXCEPT ![Embed(c)] = "queued", ![Title(c)] = "queued"]
        /\ UNCHANGED <<sessions, created, deleting, asked, target, ids, request, lease>>
    BY <1>1, <1>2 DEF Answer, MayRecord, deletions
  <1>4. /\ \A d \in Deletes : phase'[Removal(d)] = phase[Removal(d)]
        /\ \A e \in Convs : e # c => phase'[Embed(e)] = phase[Embed(e)]
    <2>1. phase \in [Tasks -> Phases]
      BY DEF TypeInv, TypeOK
    <2> QED BY <1>3, <2>1, TaskNames
  <1>5. /\ Elements(convs'[s]) = Elements(convs[s]) \cup {c}
        /\ \A q \in Sessions : q # s => convs'[q] = convs[q]
    <2>1. convs \in [Sessions -> Seq(Convs)]
      BY DEF TypeInv, TypeOK
    <2>2. convs'[s] = Append(convs[s], c) /\ convs[s] \in Seq(Convs)
      BY <1>1, <1>3, <2>1
    <2> QED BY <1>3, <2>1, <2>2, AppendElements
  <1>6. \A d \in Deletes : InFlight(d)' => InFlight(d) /\ target[d] # s
    BY <1>2, <1>3, <1>4 DEF InFlight, ReservationInv, Owned, ReservationExclusive
  <1>7. Owned'
    <2>1. \A d \in Deletes : InFlight(d)' <=> InFlight(d)
      BY <1>3, <1>4 DEF InFlight
    <2>2. \A q : Streams(q)' = Streams(q)
      BY <1>3 DEF Streams
    <2>3. ReservationExclusive'
      BY <1>3, <2>1, <2>2 DEF ReservationInv, Owned, ReservationExclusive
    <2>4. \A e \in Convs : stream'[e] \in Leased => e \in lease'
      BY <1>1, <1>3 DEF ReservationInv, Owned, TypeInv, TypeOK
    <2> QED BY <1>3, <1>4, <2>3, <2>4 DEF ReservationInv, Owned
  <1>8. \A e \in Convs : phase'[Embed(e)] # "none" /\ asked'[e] \in sessions'
                            => e \in Elements(convs'[asked'[e]])
    BY <1>3, <1>4, <1>5 DEF ReservationInv, Recorded, TypeInv, TypeOK
  <1>9. SnapshotCoversHistory'
    BY <1>3, <1>4, <1>6 DEF ReservationInv, Recorded, SnapshotCoversHistory
  <1> QED BY <1>7, <1>8, <1>9 DEF ReservationInv, Recorded

\* A reservation is taken of a session nobody holds or reserves; the snapshot is
\* what the session has recorded, which is all that was persisted of it.
LEMMA ReserveStep ==
    ASSUME TypeInv, ReservationInv, NEW d \in Deletes, NEW s \in Sessions, Reserve(d, s)
    PROVE  ReservationInv'
  <1>1. /\ UNCHANGED <<sessions, created, convs, lease, asked, stream, phase>>
        /\ s \in sessions /\ s \notin deleting /\ Streams(s) = {}
        /\ request[d] = "none" /\ deleting' = deleting \cup {s}
    BY DEF Reserve, MayReserve, queries, work
  <1>2. /\ target'[d] = s /\ ids'[d] = Elements(convs[s]) /\ request'[d] = "ensuring"
        /\ \A e \in Deletes : e # d => /\ target'[e] = target[e] /\ ids'[e] = ids[e]
                                       /\ request'[e] = request[e]
    BY DEF Reserve, TypeInv, TypeOK
  <1>3. \A q : Streams(q)' = Streams(q)
    BY <1>1 DEF Streams
  <1>4. /\ InFlight(d)' /\ ~ InFlight(d)
        /\ \A e \in Deletes : e # d => (InFlight(e)' <=> InFlight(e))
    BY <1>1, <1>2 DEF InFlight
  <1>5. ReservationExclusive'
    <2>1. \A q \in deleting' : q \in sessions' /\ Streams(q)' = {}
      BY <1>1, <1>3 DEF ReservationInv, Owned, ReservationExclusive
    <2>2. \A q \in deleting' : \E e \in Deletes : InFlight(e)' /\ target'[e] = q
      BY <1>1, <1>2, <1>4 DEF ReservationInv, Owned, ReservationExclusive
    <2>3. \A e \in Deletes : InFlight(e)' => target'[e] \in deleting'
      BY <1>1, <1>2, <1>4 DEF ReservationInv, Owned, ReservationExclusive
    <2>4. \A e, g \in Deletes : InFlight(e)' /\ InFlight(g)' /\ target'[e] = target'[g] => e = g
      BY <1>1, <1>2, <1>4 DEF ReservationInv, Owned, ReservationExclusive
    <2> QED BY <2>1, <2>2, <2>3, <2>4 DEF ReservationExclusive
  <1>6. Owned'
    BY <1>1, <1>2, <1>5 DEF ReservationInv, Owned
  <1>7. Recorded'
    BY <1>1, <1>2, <1>4 DEF ReservationInv, Recorded, SnapshotCoversHistory
  <1> QED BY <1>6, <1>7 DEF ReservationInv

-----------------------------------------------------------------------------
\* Nothing is reserved, leased or persisted at first.
LEMMA InitReservation == Init => ReservationInv
  <1> SUFFICES ASSUME Init PROVE ReservationInv
    OBVIOUS
  <1>1. \A c \in Convs : phase[Embed(c)] = "none"
    BY TaskNames DEF Init
  <1>2. \A d \in Deletes : ~ InFlight(d) /\ phase[Removal(d)] = "none"
    BY TaskNames DEF Init, InFlight
  <1> QED BY <1>1, <1>2
      DEF Init, ReservationInv, Owned, ReservationExclusive, Recorded,
          SnapshotCoversHistory, Leased

\* Every step keeps the reservations and the snapshots.
LEMMA StepReservation == TypeInv /\ ReservationInv /\ [Next]_vars => ReservationInv'
  <1> SUFFICES ASSUME TypeInv, ReservationInv, [Next]_vars PROVE ReservationInv'
    OBVIOUS
  <1>1. ASSUME NEW c \in Convs, QueryStep(c) PROVE ReservationInv'
    BY <1>1, QueryStarts, AnswerStep, StreamQuiet, QuietStep DEF QueryStep
  <1>2. ASSUME NEW c \in Convs, EmbedStep(c) \/ TitleStep(c) PROVE ReservationInv'
    BY <1>2, WorkQuiet, QuietStep
  <1>3. ASSUME NEW d \in Deletes, DeleteStep(d) \/ RemovalStep(d) PROVE ReservationInv'
    BY <1>3, ReserveStep, RemovalQuiet, QuietStep, ReleaseSteps DEF DeleteStep, RemovalStep
  <1>4. ASSUME NEW s \in Sessions, Rename(s) PROVE Quiet
    BY <1>4 DEF Rename, queries, deletions, work, Quiet, InFlight, ReservationInv, Owned
  <1>5. CASE Close \/ UNCHANGED vars
    <2>1. Quiet
      BY <1>5 DEF Close, vars, registry, queries, deletions, work, Quiet, InFlight,
                  ReservationInv, Owned
    <2> QED BY <2>1, QuietStep
  <1> QED BY <1>1, <1>2, <1>3, <1>4, <1>5, CreateStep, QuietStep DEF Next

\* A reserved session exists, has no lease and belongs to exactly one request
\* until that request ends (services.py, reserve_session_deletion).
THEOREM Exclusive == Spec => []ReservationExclusive
  <1>1. ReservationInv => ReservationExclusive
    BY DEF ReservationInv, Owned
  <1> QED BY <1>1, InitTypes, StepTypes, InitReservation, StepReservation, PTL DEF Spec

\* The snapshot of a reservation names every conversation of its session whose
\* persistence was accepted (api/chat.py:194).
THEOREM CompleteSnapshot == Spec => []SnapshotCoversHistory
  <1>1. ReservationInv => SnapshotCoversHistory
    BY DEF ReservationInv, Recorded
  <1> QED BY <1>1, InitTypes, StepTypes, InitReservation, StepReservation, PTL DEF Spec

-----------------------------------------------------------------------------
(* The order of the queue: work finds its session, no segment outlives it, *)
(* and titles advance.                                                     *)

Log == log[User]
Taken == Len(began[User])
Running == {"embedding", "inserting", "cleaning", "titling", "deleting", "verifying",
            "verified"}

\* Where the phases stand along the log: ended, then at most one running, then
\* queued.
FifoInv ==
    /\ Taken \in 0..Len(Log)
    /\ \A i, j \in DOMAIN Log : Log[i] = Log[j] => i = j
    /\ \A t \in Tasks : phase[t] # "none" <=> \E i \in DOMAIN Log : Log[i] = t
    /\ \A i \in DOMAIN Log :
        /\ phase[Log[i]] = "queued" <=> i > Taken
        /\ phase[Log[i]] \in Running => i = Taken /\ active[User] = {Log[i]}

\* A task that runs goes on.
Moves(t, p) ==
    /\ phase[t] \in Running
    /\ phase' = [phase EXCEPT ![t] = p]
    /\ UNCHANGED fifo

-----------------------------------------------------------------------------
\* The types the lemmas on the log need.
LEMMA FifoDomains ==
    ASSUME TypeOK
    PROVE  /\ Log \in Seq(Tasks) /\ began[User] \in Seq(Tasks)
           /\ Len(Log) \in Nat /\ Taken \in Nat /\ DOMAIN Log = 1..Len(Log)
           /\ \A i \in DOMAIN Log : Log[i] \in Tasks
           /\ phase \in [Tasks -> Phases]
  BY DEF TypeOK, Log, Taken

\* The phases after one task's phase was set.
LEMMA SetPhase ==
    ASSUME TypeOK, NEW t \in Tasks, NEW p, phase' = [phase EXCEPT ![t] = p]
    PROVE  phase'[t] = p /\ \A q \in Tasks : q # t => phase'[q] = phase[q]
  BY DEF TypeOK

\* A task accepted is queued, at the end.
LEMMA AcceptFifo ==
    ASSUME TypeOK, FifoInv, NEW t \in Tasks, F!Accept(User, t),
           phase' = [phase EXCEPT ![t] = "queued"]
    PROVE  FifoInv'
  <1>1. /\ Log' = Append(Log, t) /\ Taken' = Taken /\ active' = active
        /\ \A i \in DOMAIN Log : Log[i] # t
    BY DEF F!Accept, Log, Taken, TypeOK
  <1>2. /\ DOMAIN Log' = 1..(Len(Log) + 1) /\ Len(Log') = Len(Log) + 1
        /\ \A i \in 1..Len(Log) : Log'[i] = Log[i]
        /\ Log'[Len(Log) + 1] = t
    BY <1>1, FifoDomains
  <1>3. phase'[t] = "queued" /\ \A q \in Tasks : q # t => phase'[q] = phase[q]
    BY SetPhase
  <1>4. Taken' \in 0..Len(Log')
    BY <1>1, <1>2, FifoDomains DEF FifoInv
  <1>5. \A i, j \in DOMAIN Log' : Log'[i] = Log'[j] => i = j
    BY <1>1, <1>2, FifoDomains DEF FifoInv
  <1>6. \A q \in Tasks : phase'[q] # "none" <=> \E i \in DOMAIN Log' : Log'[i] = q
    <2>1. ASSUME NEW q \in Tasks, q # t
          PROVE  (\E i \in DOMAIN Log' : Log'[i] = q) <=> \E i \in DOMAIN Log : Log[i] = q
      BY <1>2, <2>1, FifoDomains
    <2>2. \E i \in DOMAIN Log' : Log'[i] = t
      BY <1>2, FifoDomains
    <2> QED BY <1>3, <2>1, <2>2 DEF FifoInv
  <1>7. ASSUME NEW i \in DOMAIN Log'
        PROVE  /\ phase'[Log'[i]] = "queued" <=> i > Taken'
               /\ phase'[Log'[i]] \in Running => i = Taken' /\ active'[User] = {Log'[i]}
    <2>1. CASE i \in 1..Len(Log)
      BY <1>1, <1>2, <1>3, <2>1, FifoDomains DEF FifoInv
    <2>2. CASE i = Len(Log) + 1
      BY <1>1, <1>2, <1>3, <2>2, FifoDomains DEF FifoInv, Running
    <2> QED BY <1>2, <2>1, <2>2, FifoDomains
  <1> QED BY <1>4, <1>5, <1>6, <1>7 DEF FifoInv

\* The first queued task begins when nothing runs.
LEMMA BeginFifo ==
    ASSUME TypeOK, FifoInv, NEW t \in Tasks, NEW p \in Running, Begins(t, p)
    PROVE  FifoInv'
  <1>1. /\ Log' = Log /\ Taken + 1 \in DOMAIN Log /\ active[User] = {}
        /\ active'[User] = {Log[Taken + 1]} /\ t = Log[Taken + 1]
    BY DEF Begins, F!Begin, Log, Taken, TypeOK
  <1>2. Taken' = Taken + 1
    <2>1. began'[User] = Append(began[User], t)
      BY <1>1 DEF Begins, F!Begin, Log, Taken, TypeOK
    <2> QED BY <2>1, FifoDomains DEF Taken
  <1>3. phase'[t] = p /\ \A q \in Tasks : q # t => phase'[q] = phase[q]
    BY SetPhase DEF Begins
  <1>4. Taken' \in 0..Len(Log')
    BY <1>1, <1>2, FifoDomains
  <1>5. \A q \in Tasks : phase'[q] # "none" <=> \E i \in DOMAIN Log' : Log'[i] = q
    BY <1>1, <1>3 DEF FifoInv, Running
  <1>6. ASSUME NEW i \in DOMAIN Log'
        PROVE  /\ phase'[Log'[i]] = "queued" <=> i > Taken'
               /\ phase'[Log'[i]] \in Running => i = Taken' /\ active'[User] = {Log'[i]}
    <2>1. CASE i = Taken + 1
      BY <1>1, <1>2, <1>3, <2>1, FifoDomains DEF Running
    <2>2. CASE i # Taken + 1
      <3>1. Log[i] # t /\ Log[i] \in Tasks
        BY <1>1, <2>2, FifoDomains DEF FifoInv
      <3>2. phase'[Log[i]] = phase[Log[i]]
        BY <1>3, <3>1
      <3> QED BY <1>1, <1>2, <2>2, <3>2, FifoDomains DEF FifoInv
    <2> QED BY <2>1, <2>2
  <1> QED BY <1>1, <1>4, <1>5, <1>6 DEF FifoInv

\* The running task ends, and nothing runs.
LEMMA EndFifo ==
    ASSUME TypeOK, FifoInv, NEW t \in Tasks, NEW p \in {"succeeded", "failed"}, Ends(t, p),
           phase[t] \in Running
    PROVE  FifoInv'
  <1>1. Log' = Log /\ Taken' = Taken /\ t \in active[User]
    BY DEF Ends, F!End, Log, Taken
  <1>2. phase'[t] = p /\ \A q \in Tasks : q # t => phase'[q] = phase[q]
    BY SetPhase DEF Ends
  <1>3. \A q \in Tasks : phase'[q] # "none" <=> \E i \in DOMAIN Log' : Log'[i] = q
    BY <1>1, <1>2 DEF FifoInv, Running
  <1>4. ASSUME NEW i \in DOMAIN Log'
        PROVE  /\ phase'[Log'[i]] = "queued" <=> i > Taken'
               /\ phase'[Log'[i]] \notin Running
    BY <1>1, <1>2, FifoDomains DEF FifoInv, Running
  <1> QED BY <1>1, <1>3, <1>4 DEF FifoInv

\* The running task goes on running.
LEMMA MoveFifo ==
    ASSUME TypeOK, FifoInv, NEW t \in Tasks, NEW p \in Running, Moves(t, p)
    PROVE  FifoInv'
  <1>1. Log' = Log /\ Taken' = Taken /\ active' = active
    BY DEF Moves, fifo, Log, Taken
  <1>2. phase'[t] = p /\ \A q \in Tasks : q # t => phase'[q] = phase[q]
    BY SetPhase DEF Moves
  <1>3. \A q \in Tasks : phase'[q] # "none" <=> phase[q] # "none"
    BY <1>2 DEF Moves, Running
  <1>4. \A i \in DOMAIN Log : /\ phase'[Log[i]] = "queued" <=> phase[Log[i]] = "queued"
                              /\ phase'[Log[i]] \in Running => phase[Log[i]] \in Running
    BY <1>2, FifoDomains DEF Moves, Running
  <1> QED BY <1>1, <1>3, <1>4 DEF FifoInv

\* One answer puts two tasks at the end.
LEMMA AcceptPairFifo ==
    ASSUME TypeOK, FifoInv, NEW t \in Tasks, NEW u \in Tasks, F!AcceptPair(User, t, u),
           phase' = [phase EXCEPT ![t] = "queued", ![u] = "queued"]
    PROVE  FifoInv'
  <1>1. /\ Log' = Log \o <<t, u>> /\ Taken' = Taken /\ active' = active /\ t # u
        /\ \A i \in DOMAIN Log : Log[i] # t /\ Log[i] # u
    BY DEF F!AcceptPair, Log, Taken, TypeOK
  <1>2. /\ DOMAIN Log' = 1..(Len(Log) + 2) /\ Len(Log') = Len(Log) + 2
        /\ \A i \in 1..Len(Log) : Log'[i] = Log[i]
        /\ Log'[Len(Log) + 1] = t /\ Log'[Len(Log) + 2] = u
    BY <1>1, FifoDomains
  <1>3. /\ phase'[t] = "queued" /\ phase'[u] = "queued"
        /\ \A q \in Tasks : q # t /\ q # u => phase'[q] = phase[q]
    BY <1>1 DEF TypeOK
  <1>4. Taken' \in 0..Len(Log')
    BY <1>1, <1>2, FifoDomains DEF FifoInv
  <1>5. \A i, j \in DOMAIN Log' : Log'[i] = Log'[j] => i = j
    BY <1>1, <1>2, FifoDomains DEF FifoInv
  <1>6. \A q \in Tasks : phase'[q] # "none" <=> \E i \in DOMAIN Log' : Log'[i] = q
    <2>1. ASSUME NEW q \in Tasks, q # t, q # u
          PROVE  (\E i \in DOMAIN Log' : Log'[i] = q) <=> \E i \in DOMAIN Log : Log[i] = q
      BY <1>2, <2>1, FifoDomains
    <2>2. (\E i \in DOMAIN Log' : Log'[i] = t) /\ \E i \in DOMAIN Log' : Log'[i] = u
      BY <1>2, FifoDomains
    <2> QED BY <1>3, <2>1, <2>2 DEF FifoInv
  <1>7. ASSUME NEW i \in DOMAIN Log'
        PROVE  /\ phase'[Log'[i]] = "queued" <=> i > Taken'
               /\ phase'[Log'[i]] \in Running => i = Taken' /\ active'[User] = {Log'[i]}
    <2>1. CASE i \in 1..Len(Log)
      BY <1>1, <1>2, <1>3, <2>1, FifoDomains DEF FifoInv
    <2>2. CASE i \in {Len(Log) + 1, Len(Log) + 2}
      BY <1>1, <1>2, <1>3, <2>2, FifoDomains DEF FifoInv, Running
    <2> QED BY <1>2, <2>1, <2>2, FifoDomains
  <1> QED BY <1>4, <1>5, <1>6, <1>7 DEF FifoInv

-----------------------------------------------------------------------------
\* Every step of background work begins, moves or ends one task, or leaves the
\* phases alone.
WorkOn(t) ==
    \/ \E p \in Running : Begins(t, p)
    \/ \E p \in Running : Moves(t, p)
    \/ phase[t] \in Running /\ \E p \in {"succeeded", "failed"} : Ends(t, p)
    \/ UNCHANGED <<phase, log, began, active>>

\* Persistence, titles and removals are such work.
LEMMA EmbedWork ==
    ASSUME NEW c \in Convs, EmbedStep(c)
    PROVE  WorkOn(Embed(c))
  <1> USE DEF WorkOn, Running
  <1>1. CASE BeginEmbed(c) BY <1>1 DEF BeginEmbed
  <1>2. CASE EmbedFails(c) BY <1>2 DEF EmbedFails
  <1>3. CASE Embedded(c) BY <1>3 DEF Embedded, Moves
  <1>4. CASE InsertSegment(c) BY <1>4 DEF InsertSegment, fifo
  <1>5. CASE InsertFails(c) BY <1>5 DEF InsertFails, Moves
  <1>6. CASE CleanUp(c) BY <1>6 DEF CleanUp
  <1> QED BY <1>1, <1>2, <1>3, <1>4, <1>5, <1>6 DEF EmbedStep

\* The title of a session (title_work).
LEMMA TitleWork ==
    ASSUME NEW c \in Convs, TitleStep(c)
    PROVE  WorkOn(Title(c))
  <1> USE DEF WorkOn, Running
  <1>1. CASE BeginTitle(c) BY <1>1 DEF BeginTitle
  <1>2. CASE TitleFails(c) BY <1>2 DEF TitleFails
  <1>3. CASE Titled(c) BY <1>3 DEF Titled
  <1> QED BY <1>1, <1>2, <1>3 DEF TitleStep

\* The removal of a session's segments (delete_session's work).
LEMMA RemovalWork ==
    ASSUME NEW d \in Deletes, RemovalStep(d)
    PROVE  WorkOn(Removal(d))
  <1> USE DEF WorkOn, Running
  <1>1. CASE BeginRemoval(d) BY <1>1 DEF BeginRemoval
  <1>2. CASE DeleteMany(d) BY <1>2 DEF DeleteMany, Moves
  <1>3. CASE Verify(d) BY <1>3 DEF Verify, Moves
  <1>4. CASE Commit(d) BY <1>4 DEF Commit
  <1>5. CASE RemovalFails(d) BY <1>5 DEF RemovalFails
  <1> QED BY <1>1, <1>2, <1>3, <1>4, <1>5 DEF RemovalStep

\* Background work leaves the log, and the order along it.
LEMMA WorkFifo ==
    ASSUME TypeOK, FifoInv, NEW t \in Tasks, WorkOn(t)
    PROVE  FifoInv' /\ Log' = Log
  <1>1. CASE UNCHANGED <<phase, log, began, active>>
    BY <1>1 DEF FifoInv, Log, Taken
  <1>2. ASSUME NEW p, Begins(t, p) \/ Moves(t, p) \/ Ends(t, p) PROVE Log' = Log
    BY <1>2 DEF Begins, Moves, Ends, F!Begin, F!End, fifo, Log
  <1> QED BY <1>1, <1>2, BeginFifo, MoveFifo, EndFifo DEF WorkOn

\* A stream between its beginning and its end, its answer apart.
StreamGoesOn(c) ==
    \/ EnsureFails(c) \/ Respond(c) \/ Abandon(c) \/ FirstStep(c)
    \/ StreamFails(c) \/ TellDone(c) \/ EndStream(c)

\* Steps that leave the queue and the phases alone.
Idle == UNCHANGED <<phase, log, began, active>>

\* The handlers, up to what they enqueue.
LEMMA IdleSteps ==
    /\ \A s \in Sessions : CreateSession(s) \/ Rename(s) => Idle
    /\ \A c \in Convs : \A s \in Sessions : Query(c, s) => Idle
    /\ \A c \in Convs : StreamGoesOn(c) => Idle
    /\ \A d \in Deletes : \A s \in Sessions : Reserve(d, s) => Idle
    /\ \A d \in Deletes : DeleteRefused(d) => Idle
    /\ Close \/ UNCHANGED vars => Idle
  BY DEF StreamGoesOn, CreateSession, Rename, Query, EnsureFails, Respond, Abandon, FirstStep,
         StreamFails, TellDone, EndStream, Reserve, DeleteRefused, Close, vars, Idle,
         fifo, work

\* Where nothing moves, the order stays.
LEMMA IdleFifo == FifoInv /\ Idle => FifoInv' /\ Log' = Log
  BY DEF FifoInv, Idle, Log, Taken

-----------------------------------------------------------------------------
(* The order of a session's work *)

\* What a session had accepted precedes its deletion in the log.
Before ==
    \A d \in Deletes, c \in Convs : InFlight(d) /\ asked[c] = target[d] =>
        \A i, j \in DOMAIN Log :
            Log[i] = Removal(d) /\ Log[j] \in {Embed(c), Title(c)} => j < i

\* What a session records, and what a deletion removes, are its conversations.
Belongs ==
    /\ \A s \in Sessions : \A c \in Elements(convs[s]) :
          asked[c] = s /\ phase[Embed(c)] # "none"
    /\ \A d \in Deletes : InFlight(d) => \A c \in ids[d] :
          asked[c] = target[d] /\ phase[Embed(c)] # "none"

Pending == {"queued"} \cup Running
Found ==
    \A c \in Convs :
        phase[Embed(c)] \in Pending \/ phase[Title(c)] \in Pending => asked[c] \in sessions

Stored ==
    /\ NoOrphanSegments
    /\ \A c \in Convs : stored[c] # {} => phase[Embed(c)] # "none"
    /\ \A d \in Deletes : phase[Removal(d)] = "verified" => \A c \in ids[d] : stored[c] = {}

OrderInv == FifoInv /\ Before /\ Belongs /\ Found /\ Stored
AllInv == TypeInv /\ ReservationInv /\ OrderInv

\* While a deletion runs, nothing of its session waits or runs.
LEMMA RemovalAlone ==
    ASSUME AllInv, NEW d \in Deletes, phase[Removal(d)] \in Running,
           NEW c \in Convs, asked[c] = target[d]
    PROVE  phase[Embed(c)] \notin Pending /\ phase[Title(c)] \notin Pending
  <1> USE DEF AllInv, OrderInv
  <1>1. InFlight(d)
    BY DEF InFlight, ReservationInv, Owned, Running
  <1>2. PICK i \in DOMAIN Log : Log[i] = Removal(d)
    BY TaskNames DEF FifoInv, Running
  <1>3. i = Taken
    BY <1>2 DEF FifoInv
  <1>4. ASSUME NEW t \in {Embed(c), Title(c)}, phase[t] \in Pending PROVE FALSE
    <2>1. PICK j \in DOMAIN Log : Log[j] = t
      BY <1>4, TaskNames DEF FifoInv, Pending, Running
    <2>2. j < i
      BY <1>1, <1>2, <2>1 DEF Before
    <2>3. ~ j < i
      BY <1>3, <1>4, <2>1, FifoDomains DEF FifoInv, Pending, TypeInv
    <2> QED BY <2>2, <2>3
  <1> QED BY <1>4

\* A step of work takes no task out of its place and makes none pending.
LEMMA WorkPhases ==
    ASSUME TypeOK, NEW t \in Tasks, WorkOn(t)
    PROVE  /\ \A q \in Tasks : q # t => phase'[q] = phase[q]
           /\ \A q \in Tasks : phase'[q] # "none" <=> phase[q] # "none"
           /\ \A q \in Tasks : phase'[q] \in Pending => phase[q] \in Pending
  <1>1. CASE UNCHANGED <<phase, log, began, active>>
    BY <1>1
  <1>2. ASSUME NEW p \in Running \cup {"succeeded", "failed"},
               phase[t] \in Pending, phase' = [phase EXCEPT ![t] = p]
        PROVE  /\ \A q \in Tasks : q # t => phase'[q] = phase[q]
               /\ \A q \in Tasks : phase'[q] # "none" <=> phase[q] # "none"
               /\ \A q \in Tasks : phase'[q] \in Pending => phase[q] \in Pending
    BY <1>2, SetPhase DEF Pending, Running
  <1> QED BY <1>1, <1>2 DEF WorkOn, Begins, Moves, Ends, Pending

\* What all background work leaves alone.
LEMMA WorkOrder ==
    ASSUME AllInv, NEW t \in Tasks, WorkOn(t),
           UNCHANGED <<asked, target, ids>>,
           \A s \in Sessions : Elements(convs'[s]) \subseteq Elements(convs[s]),
           \A d \in Deletes : InFlight(d)' => InFlight(d)
    PROVE  FifoInv' /\ Before' /\ Belongs'
  <1> USE DEF AllInv, OrderInv, TypeInv
  <1>1. FifoInv' /\ Log' = Log
    BY WorkFifo
  <1>2. Before'
    BY <1>1 DEF Before
  <1>3. Belongs'
    <2>1. \A c \in Convs : phase'[Embed(c)] # "none" <=> phase[Embed(c)] # "none"
      BY WorkPhases, TaskNames
    <2>2. \A s \in Sessions : Elements(convs[s]) \subseteq Convs
      BY DEF TypeOK, Elements
    <2>3. \A d \in Deletes : ids[d] \subseteq Convs
      BY DEF TypeOK
    <2> QED BY <2>1, <2>2, <2>3 DEF Belongs
  <1> QED BY <1>1, <1>2, <1>3

\* Work that does not remove a session leaves it to what is pending.
LEMMA WorkFound ==
    ASSUME AllInv, NEW t \in Tasks, WorkOn(t), UNCHANGED <<asked, sessions>>
    PROVE  Found'
  BY WorkPhases, TaskNames DEF AllInv, OrderInv, TypeInv, Found

\* A step of work that only removes segments, and does not verify.
LEMMA WorkStored ==
    ASSUME AllInv, NEW t \in Tasks, WorkOn(t), UNCHANGED <<asked, sessions, convs, ids>>,
           \A c \in Convs : stored'[c] \subseteq stored[c],
           \A d \in Deletes : phase'[Removal(d)] = "verified" => phase[Removal(d)] = "verified"
    PROVE  Stored'
  <1>1. \A c \in Convs : phase'[Embed(c)] # "none" <=> phase[Embed(c)] # "none"
    BY WorkPhases, TaskNames DEF AllInv, TypeInv
  <1>2. \A d \in Deletes : ids[d] \subseteq Convs
    BY DEF AllInv, TypeInv, TypeOK
  <1> QED BY <1>1, <1>2 DEF AllInv, OrderInv, Stored, NoOrphanSegments

-----------------------------------------------------------------------------
(* The steps *)

\* Steps that neither touch the queue nor add a reservation or a record.
StillStates ==
    /\ Idle /\ UNCHANGED <<asked, convs, target, ids, stored>>
    /\ sessions \subseteq sessions'
    /\ \A d \in Deletes : InFlight(d)' => InFlight(d)

\* Such steps disturb no part of the invariant.
LEMMA StillOrder ==
    ASSUME AllInv, StillStates
    PROVE  OrderInv'
  <1> USE DEF AllInv, OrderInv, StillStates
  <1>1. FifoInv' /\ Log' = Log
    BY IdleFifo
  <1>2. Before' /\ Belongs' /\ Found' /\ Stored'
    BY <1>1 DEF Before, Belongs, Found, Stored, NoOrphanSegments, Idle
  <1> QED BY <1>1, <1>2

\* Creation, renaming, the stream and shutdown are such steps.
LEMMA StillSteps ==
    /\ \A s \in Sessions : CreateSession(s) \/ Rename(s) => StillStates
    /\ \A c \in Convs : StreamGoesOn(c) => StillStates
    /\ Close \/ UNCHANGED vars => StillStates
  BY IdleSteps
     DEF StreamGoesOn, CreateSession, Rename, EnsureFails, Respond, Abandon, FirstStep, StreamFails,
         TellDone, EndStream, Close, vars, registry, queries, deletions, work,
         StillStates, InFlight, Idle

\* A deletion that is refused is one more.
LEMMA RefusedStill ==
    ASSUME AllInv, NEW d \in Deletes, DeleteRefused(d)
    PROVE  StillStates
  <1>1. request' = [request EXCEPT ![d] = "refused"] /\ request \in [Deletes -> RequestStates]
    BY DEF DeleteRefused, AllInv, TypeInv, TypeOK
  <1>2. Idle /\ UNCHANGED <<asked, convs, sessions, target, ids, stored>>
    BY IdleSteps DEF DeleteRefused, queries, work
  <1> QED BY <1>1, <1>2 DEF StillStates, Idle, InFlight

\* A new query has nothing in the queue.
LEMMA QueryOrder ==
    ASSUME AllInv, NEW c \in Convs, NEW s \in Sessions, Query(c, s)
    PROVE  OrderInv'
  <1> USE DEF AllInv, OrderInv
  <1>1. Idle /\ FifoInv' /\ Log' = Log
    BY IdleSteps, IdleFifo
  <1>2. /\ UNCHANGED <<sessions, convs, target, ids, request, stored>>
        /\ \A e \in Convs : e # c => asked'[e] = asked[e]
    BY DEF Query, deletions, work, TypeInv, TypeOK
  <1>3. phase[Embed(c)] = "none" /\ phase[Title(c)] = "none"
    BY DEF Query, TypeInv, WorkInv, Unanswered
  <1>4. \A i \in DOMAIN Log : Log[i] # Embed(c) /\ Log[i] # Title(c)
    BY <1>3, TaskNames, FifoDomains DEF FifoInv, TypeInv
  <1>5. \A d \in Deletes : InFlight(d)' <=> InFlight(d)
    BY <1>1, <1>2 DEF Idle, InFlight
  <1>6. Before'
    BY <1>1, <1>2, <1>4, <1>5, TaskNames DEF Before
  <1>7. Belongs'
    <2>1. /\ \A q \in Sessions : Elements(convs[q]) \subseteq Convs
          /\ \A d \in Deletes : ids[d] \subseteq Convs
      BY DEF TypeInv, TypeOK, Elements
    <2> QED BY <1>1, <1>2, <1>3, <1>5, <2>1 DEF Belongs, Idle
  <1>8. Found'
    BY <1>1, <1>2, <1>3 DEF Found, Idle, Pending, Running
  <1>9. Stored'
    BY <1>1, <1>2, <1>3 DEF Stored, NoOrphanSegments, Idle
  <1> QED BY <1>1, <1>6, <1>7, <1>8, <1>9

\* An answer's work comes after every deletion in the log, and no deletion of
\* its session is in flight.
LEMMA AnswerOrder ==
    ASSUME AllInv, NEW c \in Convs, Answer(c)
    PROVE  OrderInv'
  <1> USE DEF AllInv, OrderInv
  <1> DEFINE s == asked[c]
  <1>1. c \in lease /\ s \in sessions /\ s \in Sessions
    BY DEF Answer, ReservationInv, Owned, Leased, TypeInv, TypeOK
  <1>2. s \notin deleting
    BY <1>1 DEF ReservationInv, Owned, ReservationExclusive, Streams
  <1>3. /\ convs' = [convs EXCEPT ![s] = Append(@, c)]
        /\ F!AcceptPair(User, Embed(c), Title(c))
        /\ phase' = [phase EXCEPT ![Embed(c)] = "queued", ![Title(c)] = "queued"]
        /\ UNCHANGED <<sessions, asked, target, ids, request, stored>>
    BY <1>1, <1>2 DEF Answer, MayRecord, deletions
  <1>4. FifoInv'
    BY <1>3, AcceptPairFifo, TaskNames DEF TypeInv
  <1>5. /\ phase'[Embed(c)] # "none"
        /\ \A d \in Deletes : phase'[Removal(d)] = phase[Removal(d)]
        /\ \A e \in Convs : e # c => /\ phase'[Embed(e)] = phase[Embed(e)]
                                     /\ phase'[Title(e)] = phase[Title(e)]
    <2>1. phase \in [Tasks -> Phases]
      BY DEF TypeInv, TypeOK
    <2> QED BY <1>3, <2>1, TaskNames
  <1>6. /\ Elements(convs'[s]) = Elements(convs[s]) \cup {c}
        /\ \A q \in Sessions : q # s => convs'[q] = convs[q]
    <2>1. convs \in [Sessions -> Seq(Convs)]
      BY DEF TypeInv, TypeOK
    <2>2. convs'[s] = Append(convs[s], c) /\ convs[s] \in Seq(Convs)
      BY <1>1, <1>3, <2>1
    <2> QED BY <1>3, <2>1, <2>2, AppendElements
  <1>7. \A d \in Deletes : (InFlight(d)' <=> InFlight(d)) /\ (InFlight(d) => target[d] # s)
    BY <1>2, <1>3, <1>5 DEF InFlight, ReservationInv, Owned, ReservationExclusive
  <1>8. Before'
    <2>1. /\ DOMAIN Log' = 1..(Len(Log) + 2)
          /\ \A i \in 1..Len(Log) : Log'[i] = Log[i]
          /\ Log'[Len(Log) + 1] = Embed(c) /\ Log'[Len(Log) + 2] = Title(c)
      <3>1. Log' = Log \o <<Embed(c), Title(c)>>
        BY <1>3 DEF F!AcceptPair, Log, TypeInv, TypeOK
      <3>2. Embed(c) \in Tasks /\ Title(c) \in Tasks
        BY TaskNames
      <3> QED BY <3>1, <3>2, FifoDomains DEF TypeInv
    <2>2. \A i \in DOMAIN Log' : i \in DOMAIN Log \/ Log'[i] \in {Embed(c), Title(c)}
      BY <2>1, FifoDomains DEF TypeInv
    <2>3. ASSUME NEW d \in Deletes, NEW e \in Convs, InFlight(d)', asked'[e] = target'[d],
                 NEW i \in DOMAIN Log', NEW j \in DOMAIN Log',
                 Log'[i] = Removal(d), Log'[j] \in {Embed(e), Title(e)}
          PROVE  j < i
      <3>1. InFlight(d) /\ asked[e] = target[d] /\ e # c
        BY <1>3, <1>7, <2>3
      <3>2. i \in DOMAIN Log /\ j \in DOMAIN Log
        BY <2>2, <2>3, <3>1, TaskNames
      <3> QED BY <2>1, <2>3, <3>1, <3>2, FifoDomains DEF Before, TypeInv
    <2> QED BY <2>3 DEF Before
  <1>9. Belongs'
    <2>1. /\ \A q \in Sessions : Elements(convs[q]) \subseteq Convs
          /\ \A d \in Deletes : ids[d] \subseteq Convs
      BY DEF TypeInv, TypeOK, Elements
    <2>2. \A e \in Convs : phase[Embed(e)] # "none" => phase'[Embed(e)] # "none"
      BY <1>5
    <2>3. ASSUME NEW q \in Sessions, NEW e \in Elements(convs'[q])
          PROVE  asked'[e] = q /\ phase'[Embed(e)] # "none"
      <3>1. CASE e \in Elements(convs[q])
        BY <1>3, <2>1, <2>2, <3>1 DEF Belongs
      <3>2. CASE e \notin Elements(convs[q])
        <4>1. q = s /\ e = c
          BY <1>6, <2>3, <3>2
        <4> QED BY <1>3, <1>5, <4>1
      <3> QED BY <3>1, <3>2
    <2>4. ASSUME NEW d \in Deletes, InFlight(d)', NEW e \in ids'[d]
          PROVE  asked'[e] = target'[d] /\ phase'[Embed(e)] # "none"
      <3>1. InFlight(d) /\ e \in ids[d] /\ e \in Convs
        BY <1>3, <1>7, <2>1, <2>4
      <3> QED BY <1>3, <2>2, <3>1 DEF Belongs
    <2> QED BY <2>3, <2>4 DEF Belongs
  <1>10. Found'
    BY <1>1, <1>3, <1>5 DEF Found
  <1>11. Stored'
    <2>1. \A e \in Convs : asked[e] \in sessions => asked[e] \in Sessions
      BY DEF TypeInv, TypeOK
    <2>2. \A q \in Sessions : Elements(convs[q]) \subseteq Elements(convs'[q])
      BY <1>6
    <2>3. NoOrphanSegments'
      BY <1>3, <2>1, <2>2 DEF Stored, NoOrphanSegments
    <2> QED BY <1>3, <1>5, <2>3 DEF Stored, TypeInv, TypeOK
  <1> QED BY <1>4, <1>8, <1>9, <1>10, <1>11

\* The snapshot is of the session's own conversations; no work of this request
\* is in the log yet.
LEMMA ReserveOrder ==
    ASSUME AllInv, NEW d \in Deletes, NEW s \in Sessions, Reserve(d, s)
    PROVE  OrderInv'
  <1> USE DEF AllInv, OrderInv
  <1>1. Idle /\ FifoInv' /\ Log' = Log
    BY IdleSteps, IdleFifo
  <1>2. /\ UNCHANGED <<sessions, convs, asked, stored>>
        /\ target'[d] = s /\ ids'[d] = Elements(convs[s]) /\ request[d] = "none"
        /\ \A e \in Deletes : e # d => /\ target'[e] = target[e] /\ ids'[e] = ids[e]
                                       /\ request'[e] = request[e]
    BY DEF Reserve, queries, work, TypeInv, TypeOK
  <1>3. phase[Removal(d)] = "none"
    BY <1>2 DEF ReservationInv, Owned
  <1>4. \A i \in DOMAIN Log : Log[i] # Removal(d)
    BY <1>3, TaskNames, FifoDomains DEF FifoInv, TypeInv
  <1>5. \A e \in Deletes : e # d => (InFlight(e)' <=> InFlight(e))
    BY <1>1, <1>2 DEF Idle, InFlight
  <1>6. Before'
    BY <1>1, <1>2, <1>4, <1>5 DEF Before
  <1>7. Belongs'
    BY <1>1, <1>2, <1>5 DEF Belongs, Idle
  <1>8. Found'
    BY <1>1, <1>2 DEF Found, Idle
  <1>9. Stored'
    BY <1>1, <1>2, <1>3 DEF Stored, NoOrphanSegments, Idle
  <1> QED BY <1>1, <1>6, <1>7, <1>8, <1>9

\* The deletion enters the log after everything its session had accepted.
LEMMA AcceptedOrder ==
    ASSUME AllInv, NEW d \in Deletes, DeleteAccepted(d)
    PROVE  OrderInv'
  <1> USE DEF AllInv, OrderInv
  <1>1. /\ UNCHANGED <<sessions, convs, asked, target, ids, stored>>
        /\ F!Accept(User, Removal(d))
        /\ phase' = [phase EXCEPT ![Removal(d)] = "queued"]
        /\ request' = [request EXCEPT ![d] = "accepted"]
        /\ request[d] = "ensuring"
    BY DEF DeleteAccepted, registry, queries
  <1>2. /\ phase'[Removal(d)] = "queued"
        /\ \A e \in Deletes : e # d => phase'[Removal(e)] = phase[Removal(e)]
        /\ \A c \in Convs : /\ phase'[Embed(c)] = phase[Embed(c)]
                            /\ phase'[Title(c)] = phase[Title(c)]
    <2>1. TypeOK /\ Removal(d) \in Tasks
      BY TaskNames DEF TypeInv
    <2>2. phase'[Removal(d)] = "queued" /\ \A q \in Tasks : q # Removal(d) => phase'[q] = phase[q]
      BY <1>1, <2>1, SetPhase
    <2> QED BY <2>2, TaskNames
  <1>3. FifoInv'
    BY <1>1, AcceptFifo, TaskNames DEF TypeInv
  <1>4. \A e \in Deletes : InFlight(e)' => InFlight(e)
    BY <1>1, <1>2 DEF InFlight, TypeInv, TypeOK
  <1>5. Before'
    <2>1. /\ DOMAIN Log' = 1..(Len(Log) + 1)
          /\ \A i \in 1..Len(Log) : Log'[i] = Log[i]
          /\ Log'[Len(Log) + 1] = Removal(d)
      <3>1. Log' = Append(Log, Removal(d)) /\ Removal(d) \in Tasks
        BY <1>1, TaskNames DEF F!Accept, Log, TypeInv, TypeOK
      <3> QED BY <3>1, FifoDomains DEF TypeInv
    <2>2. ASSUME NEW e \in Deletes, NEW c \in Convs, InFlight(e)', asked'[c] = target'[e],
                 NEW i \in DOMAIN Log', NEW j \in DOMAIN Log',
                 Log'[i] = Removal(e), Log'[j] \in {Embed(c), Title(c)}
          PROVE  j < i
      <3>1. j \in 1..Len(Log) /\ Len(Log) \in Nat /\ DOMAIN Log = 1..Len(Log)
        <4>1. j # Len(Log) + 1
          BY <2>1, <2>2, TaskNames
        <4>2. Len(Log) \in Nat /\ DOMAIN Log = 1..Len(Log)
          BY FifoDomains DEF TypeInv
        <4> QED BY <2>1, <4>1, <4>2
      <3>2. CASE i = Len(Log) + 1
        BY <3>1, <3>2
      <3>3. CASE i # Len(Log) + 1
        <4>1. i \in DOMAIN Log /\ j \in DOMAIN Log /\ Log[i] = Removal(e)
              /\ Log[j] \in {Embed(c), Title(c)}
          BY <2>1, <2>2, <3>1, <3>3
        <4>2. InFlight(e) /\ asked[c] = target[e]
          BY <1>1, <1>4, <2>2
        <4> QED BY <4>1, <4>2 DEF Before
      <3> QED BY <3>2, <3>3
    <2> QED BY <2>2 DEF Before
  <1>6. Belongs'
    <2>1. /\ \A q \in Sessions : Elements(convs[q]) \subseteq Convs
          /\ \A e \in Deletes : ids[e] \subseteq Convs
      BY DEF TypeInv, TypeOK, Elements
    <2> QED BY <1>1, <1>2, <1>4, <2>1 DEF Belongs
  <1>7. Found'
    BY <1>1, <1>2 DEF Found
  <1>8. Stored'
    BY <1>1, <1>2 DEF Stored, NoOrphanSegments
  <1> QED BY <1>3, <1>5, <1>6, <1>7, <1>8

\* An insertion finds its session and its record, and no verified deletion.
LEMMA EmbedOrder ==
    ASSUME AllInv, NEW c \in Convs, EmbedStep(c)
    PROVE  OrderInv'
  <1> USE DEF AllInv, OrderInv
  <1>1. /\ WorkOn(Embed(c)) /\ Embed(c) \in Tasks
        /\ UNCHANGED <<sessions, convs, asked, target, ids, request>>
    BY EmbedWork, TaskNames
       DEF EmbedStep, BeginEmbed, EmbedFails, Embedded, InsertSegment, InsertFails,
           CleanUp, registry, queries, deletions
  <1>2. \A d \in Deletes : phase'[Removal(d)] = phase[Removal(d)]
    BY <1>1, WorkPhases, TaskNames DEF TypeInv
  <1>3. FifoInv' /\ Before' /\ Belongs'
    BY <1>1, <1>2, WorkOrder DEF InFlight
  <1>4. Found'
    BY <1>1, WorkFound
  <1>5. CASE \A e \in Convs : stored'[e] \subseteq stored[e]
    BY <1>1, <1>2, <1>3, <1>4, <1>5, WorkStored
  <1>6. CASE InsertSegment(c) \/ InsertFails(c)
    <2>1. phase[Embed(c)] = "inserting"
      BY <1>6 DEF InsertSegment, InsertFails
    <2>2. asked[c] \in sessions /\ c \in Elements(convs[asked[c]])
      BY <2>1 DEF Found, Pending, Running, ReservationInv, Recorded
    <2>3. \A e \in Convs : e # c => stored'[e] = stored[e]
      BY <1>6 DEF InsertSegment, InsertFails, TypeInv, TypeOK
    <2>4. \A e \in Convs : phase'[Embed(e)] # "none" <=> phase[Embed(e)] # "none"
      BY <1>1, WorkPhases, TaskNames DEF TypeInv
    <2>5. NoOrphanSegments'
      BY <1>1, <2>2, <2>3 DEF Stored, NoOrphanSegments
    <2>6. ASSUME NEW d \in Deletes, phase[Removal(d)] = "verified" PROVE c \notin ids[d]
      <3>1. InFlight(d)
        BY <2>6 DEF InFlight, ReservationInv, Owned
      <3>2. asked[c] # target[d]
        BY <2>1, <2>6, RemovalAlone DEF Pending, Running
      <3> QED BY <3>1, <3>2 DEF Belongs
    <2>7. \A d \in Deletes : ids[d] \subseteq Convs
      BY DEF TypeInv, TypeOK
    <2>8. Stored'
      BY <1>1, <1>2, <2>1, <2>3, <2>4, <2>5, <2>6, <2>7 DEF Stored
    <2> QED BY <1>3, <1>4, <2>8
  <1>7. CASE BeginEmbed(c) \/ EmbedFails(c) \/ Embedded(c) \/ CleanUp(c)
    <2>1. \A e \in Convs : stored'[e] \subseteq stored[e]
      BY <1>7 DEF BeginEmbed, EmbedFails, Embedded, CleanUp, TypeInv, TypeOK
    <2> QED BY <1>5, <2>1
  <1> QED BY <1>6, <1>7 DEF EmbedStep

\* A title changes neither segments nor what is recorded.
LEMMA TitleOrder ==
    ASSUME AllInv, NEW c \in Convs, TitleStep(c)
    PROVE  OrderInv'
  <1>1. /\ WorkOn(Title(c)) /\ Title(c) \in Tasks
        /\ UNCHANGED <<sessions, convs, asked, target, ids, request, stored>>
    BY TitleWork, TaskNames
       DEF TitleStep, BeginTitle, TitleFails, Titled, registry, queries, deletions
  <1>2. \A d \in Deletes : phase'[Removal(d)] = phase[Removal(d)]
    <2>1. TypeOK
      BY DEF AllInv, TypeInv
    <2>2. \A q \in Tasks : q # Title(c) => phase'[q] = phase[q]
      BY <1>1, <2>1, WorkPhases
    <2> QED BY <2>2, TaskNames
  <1> QED BY <1>1, <1>2, WorkOrder, WorkFound, WorkStored DEF OrderInv, InFlight

\* A deletion before its commit only removes segments; verified means that the
\* dry run found none of the snapshot.
LEMMA RemovalOrder ==
    ASSUME AllInv, NEW d \in Deletes,
           BeginRemoval(d) \/ DeleteMany(d) \/ Verify(d) \/ RemovalFails(d)
    PROVE  OrderInv'
  <1> USE DEF AllInv, OrderInv
  <1>1. /\ WorkOn(Removal(d)) /\ Removal(d) \in Tasks
        /\ UNCHANGED <<sessions, convs, asked, target, ids, request>>
    BY RemovalWork, TaskNames
       DEF RemovalStep, BeginRemoval, DeleteMany, Verify, RemovalFails, registry,
           queries, deletions
  <1>2. /\ \A e \in Deletes : e # d => phase'[Removal(e)] = phase[Removal(e)]
        /\ \A t \in Tasks : phase'[t] # "none" <=> phase[t] # "none"
        /\ \A t \in Tasks : phase'[t] \in Pending => phase[t] \in Pending
    BY <1>1, WorkPhases, TaskNames DEF TypeInv
  <1>3. phase[Removal(d)] \in Pending
    BY DEF BeginRemoval, DeleteMany, Verify, RemovalFails, Begins, Pending, Running
  <1>4. \A e \in Deletes : InFlight(e)' => InFlight(e)
    <2>1. InFlight(d)
      BY <1>3 DEF InFlight, Pending, Running, ReservationInv, Owned
    <2> QED BY <1>1, <1>2, <2>1 DEF InFlight
  <1>5. FifoInv' /\ Before' /\ Belongs' /\ Found'
    BY <1>1, <1>4, WorkOrder, WorkFound
  <1>6. \A c \in Convs : stored'[c] \subseteq stored[c]
    BY DEF BeginRemoval, DeleteMany, Verify, RemovalFails
  <1>7. CASE Verify(d)
    <2>1. stored' = stored /\ \A c \in ids[d] : stored[c] = {}
      BY <1>7 DEF Verify, Confirmed
    <2>2. \A c \in Convs : phase'[Embed(c)] # "none" <=> phase[Embed(c)] # "none"
      BY <1>2, TaskNames
    <2>3. Stored'
      BY <1>1, <1>2, <2>1, <2>2 DEF Stored, NoOrphanSegments
    <2> QED BY <1>5, <2>3
  <1>8. CASE BeginRemoval(d) \/ DeleteMany(d) \/ RemovalFails(d)
    <2>1. PICK p \in {"deleting", "verifying", "failed"} :
              phase' = [phase EXCEPT ![Removal(d)] = p]
      BY <1>8 DEF BeginRemoval, DeleteMany, RemovalFails, Begins, Ends
    <2>2. phase'[Removal(d)] = p
      BY <1>1, <2>1, SetPhase DEF TypeInv
    <2>3. Stored'
      BY <1>1, <1>2, <1>6, <2>2, WorkStored
    <2> QED BY <1>5, <2>3
  <1> QED BY <1>7, <1>8

\* When the session goes, its conversations have no segment and no work left.
LEMMA CommitOrder ==
    ASSUME AllInv, NEW d \in Deletes, Commit(d)
    PROVE  OrderInv'
  <1> USE DEF AllInv, OrderInv
  <1> DEFINE s == target[d]
  <1>1. /\ WorkOn(Removal(d)) /\ Removal(d) \in Tasks
        /\ UNCHANGED <<asked, target, ids, request, stored>>
        /\ phase[Removal(d)] = "verified"
    BY RemovalWork, TaskNames DEF RemovalStep, Commit, queries, deletions
  <1>2. \/ UNCHANGED <<sessions, convs>>
        \/ sessions' = sessions \ {s} /\ convs' = [convs EXCEPT ![s] = <<>>]
    BY DEF Commit
  <1>3. InFlight(d)
    BY <1>1 DEF InFlight, ReservationInv, Owned
  <1>4. ASSUME NEW c \in Convs, asked[c] = s
        PROVE  /\ phase[Embed(c)] \notin Pending /\ phase[Title(c)] \notin Pending
               /\ stored[c] = {}
    <2>1. phase[Embed(c)] \notin Pending /\ phase[Title(c)] \notin Pending
      BY <1>1, <1>4, RemovalAlone DEF Running
    <2>2. stored[c] # {} => c \in ids[d]
      BY <1>3, <1>4 DEF Stored, ReservationInv, Recorded, SnapshotCoversHistory
    <2> QED BY <1>1, <2>1, <2>2 DEF Stored
  <1>5. /\ \A e \in Deletes : e # d => phase'[Removal(e)] = phase[Removal(e)]
        /\ \A t \in Tasks : phase'[t] # "none" <=> phase[t] # "none"
        /\ \A t \in Tasks : phase'[t] \in Pending => phase[t] \in Pending
    BY <1>1, WorkPhases, TaskNames DEF TypeInv
  <1>6. phase'[Removal(d)] # "verified"
    <2>1. PICK p \in {"succeeded", "failed"} : phase' = [phase EXCEPT ![Removal(d)] = p]
      BY DEF Commit, Ends
    <2> QED BY <1>1, <2>1, SetPhase DEF TypeInv
  <1>7. \A q \in Sessions : /\ q # s => convs'[q] = convs[q]
                            /\ Elements(convs'[q]) \subseteq Elements(convs[q])
    <2>1. convs \in [Sessions -> Seq(Convs)] /\ Elements(<<>>) = {}
      BY DEF TypeInv, TypeOK, Elements
    <2> QED BY <1>2, <2>1
  <1>8. \A e \in Deletes : InFlight(e)' => InFlight(e)
    BY <1>1, <1>3, <1>5 DEF InFlight
  <1>9. FifoInv' /\ Before' /\ Belongs'
    BY <1>1, <1>7, <1>8, WorkOrder
  <1>10. Found'
    BY <1>1, <1>2, <1>4, <1>5, TaskNames DEF Found
  <1>11. NoOrphanSegments'
    <2>1. ASSUME NEW c \in Convs, stored[c] # {}
          PROVE  asked[c] \in sessions' /\ c \in Elements(convs'[asked[c]])
      <3>1. asked[c] # s /\ asked[c] \in sessions /\ c \in Elements(convs[asked[c]])
        BY <1>4, <2>1 DEF Stored, NoOrphanSegments
      <3>2. asked[c] \in Sessions
        BY <3>1 DEF TypeInv, TypeOK
      <3> QED BY <1>2, <1>7, <3>1, <3>2
    <2> QED BY <1>1, <2>1 DEF NoOrphanSegments
  <1>12. Stored'
    <2>1. \A c \in Convs : phase'[Embed(c)] # "none" <=> phase[Embed(c)] # "none"
      BY <1>5, TaskNames
    <2> QED BY <1>1, <1>5, <1>6, <1>11, <2>1 DEF Stored
  <1> QED BY <1>9, <1>10, <1>12

-----------------------------------------------------------------------------
\* At first nothing is accepted, recorded or stored.
LEMMA InitOrder == Init => OrderInv
  <1> SUFFICES ASSUME Init PROVE OrderInv
    OBVIOUS
  <1>1. Log = <<>> /\ Taken = 0 /\ DOMAIN Log = {}
    BY DEF Init, F!Init, Log, Taken
  <1>2. \A t \in Tasks : phase[t] = "none"
    BY DEF Init
  <1>3. FifoInv /\ Before
    BY <1>1, <1>2 DEF FifoInv, Before
  <1>4. \A d \in Deletes : ~ InFlight(d)
    BY DEF Init, InFlight
  <1>5. Belongs
    BY <1>4 DEF Init, Belongs, Elements
  <1>6. Found /\ Stored
    BY <1>2, TaskNames DEF Init, Found, Pending, Running, Stored, NoOrphanSegments
  <1> QED BY <1>3, <1>5, <1>6 DEF OrderInv

\* Every step keeps the order.
LEMMA StepOrder == AllInv /\ [Next]_vars => OrderInv'
  <1> SUFFICES ASSUME AllInv, [Next]_vars PROVE OrderInv'
    OBVIOUS
  <1>1. ASSUME NEW s \in Sessions, CreateSession(s) \/ Rename(s) PROVE OrderInv'
    BY <1>1, StillSteps, StillOrder
  <1>2. ASSUME NEW c \in Convs, QueryStep(c) PROVE OrderInv'
    <2>1. ASSUME NEW s \in Sessions, Query(c, s) PROVE OrderInv'
      BY <2>1, QueryOrder
    <2>2. CASE Answer(c)
      BY <2>2, AnswerOrder
    <2>3. CASE StreamGoesOn(c)
      BY <2>3, StillSteps, StillOrder
    <2> QED BY <1>2, <2>1, <2>2, <2>3 DEF QueryStep, StreamGoesOn
  <1>3. ASSUME NEW c \in Convs, EmbedStep(c) \/ TitleStep(c) PROVE OrderInv'
    BY <1>3, EmbedOrder, TitleOrder
  <1>4. ASSUME NEW d \in Deletes, DeleteStep(d) PROVE OrderInv'
    BY <1>4, ReserveOrder, AcceptedOrder, RefusedStill, StillOrder DEF DeleteStep
  <1>5. ASSUME NEW d \in Deletes, RemovalStep(d) PROVE OrderInv'
    BY <1>5, RemovalOrder, CommitOrder DEF RemovalStep
  <1>6. CASE Close \/ UNCHANGED vars
    BY <1>6, StillSteps, StillOrder
  <1> QED BY <1>1, <1>2, <1>3, <1>4, <1>5, <1>6 DEF Next

\* The types, the reservations and the order together are inductive.
LEMMA Inductive == Spec => []AllInv
  <1>1. Init => AllInv
    BY InitTypes, InitReservation, InitOrder DEF AllInv
  <1>2. AllInv /\ [Next]_vars => AllInv'
    BY StepTypes, StepReservation, StepOrder DEF AllInv
  <1> QED BY <1>1, <1>2, PTL DEF Spec

\* No segment outlives the record through which it could be deleted, whatever
\* insertion, cleanup or deletion failed (API.md:25-27).
THEOREM NoOrphans == Spec => []NoOrphanSegments
  <1>1. AllInv => NoOrphanSegments
    BY DEF AllInv, OrderInv, Stored
  <1> QED BY <1>1, Inductive, PTL

\* Persistence and title work run before the deletion of their session
\* (BACKEND.md:476-478).
THEOREM WorkHasSession == Spec => []WorkFindsSession
  <1>1. AllInv => WorkFindsSession
    BY DEF AllInv, OrderInv, Found, WorkFindsSession, Pending, Running
  <1> QED BY <1>1, Inductive, PTL

\* A deletion removes segments of the session it reserved, and of no other
\* (conversation.py:232-237).
THEOREM DeletesOwnSegments == Spec => SegmentsLeaveReserved
  <1>1. ASSUME AllInv, [Next]_vars, NEW c \in Convs, ~ stored[c] \subseteq stored'[c]
        PROVE  phase[Embed(c)] = "cleaning" \/ asked[c] \in deleting
    <2>1. ASSUME NEW e \in Convs, EmbedStep(e) PROVE phase[Embed(c)] = "cleaning"
      BY <1>1, <2>1
         DEF EmbedStep, BeginEmbed, EmbedFails, Embedded, InsertSegment, InsertFails,
             CleanUp, AllInv, TypeInv, TypeOK
    <2>2. ASSUME NEW d \in Deletes, RemovalStep(d) PROVE asked[c] \in deleting
      <3>1. c \in ids[d] /\ phase[Removal(d)] = "deleting"
        BY <1>1, <2>2
           DEF RemovalStep, BeginRemoval, DeleteMany, Verify, Commit, RemovalFails
      <3>2. InFlight(d)
        BY <1>1, <3>1 DEF InFlight, AllInv, ReservationInv, Owned
      <3> QED BY <1>1, <3>1, <3>2
              DEF AllInv, OrderInv, Belongs, ReservationInv, Owned, ReservationExclusive
    <2>3. ASSUME UNCHANGED stored PROVE FALSE
      BY <1>1, <2>3
    <2>4. ASSUME NEW e \in Convs, TitleStep(e) \/ QueryStep(e) PROVE UNCHANGED stored
      BY <2>4 DEF TitleStep, BeginTitle, TitleFails, Titled, QueryStep, Query, EnsureFails,
                  Respond, Abandon, FirstStep, StreamFails, Answer, TellDone, EndStream, work
    <2>5. ASSUME NEW d \in Deletes, DeleteStep(d) PROVE UNCHANGED stored
      BY <2>5 DEF DeleteStep, Reserve, DeleteRefused, DeleteAccepted, work
    <2>6. ASSUME NEW s \in Sessions, CreateSession(s) \/ Rename(s) PROVE UNCHANGED stored
      BY <2>6 DEF CreateSession, Rename, work
    <2>7. ASSUME Close \/ UNCHANGED vars PROVE UNCHANGED stored
      BY <2>7 DEF Close, vars, work
    <2> QED BY <1>1, <2>1, <2>2, <2>3, <2>4, <2>5, <2>6, <2>7 DEF Next
  <1>2. AllInv /\ [Next]_vars =>
            [\A c \in Convs : ~ stored[c] \subseteq stored'[c] =>
                 phase[Embed(c)] = "cleaning" \/ asked[c] \in deleting]_vars
    BY <1>1
  <1> QED BY <1>2, Inductive, PTL DEF Spec, SegmentsLeaveReserved
-----------------------------------------------------------------------------
(* The order of the titles *)

\* A transcript begins as another one.
BeginsAs(long, short) == \E n \in 0..Len(long) : short = SubSeq(long, 1, n)

\* A title the user did not type is of a beginning of the session's transcript;
\* and so is a title under way, which is not of an older one than it replaces.
TitleInv ==
    /\ \A s \in Sessions : title[s] = <<Renamed>> \/ BeginsAs(convs[s], title[s])
    /\ \A c \in Convs : phase[Title(c)] = "titling" =>
          /\ BeginsAs(convs[asked[c]], draft[c])
          /\ title[asked[c]] = <<Renamed>> \/ BeginsAs(draft[c], title[asked[c]])

\* A transcript begins as itself, however long it is.
LEMMA BeginsAsItself ==
    ASSUME NEW S, NEW s \in Seq(S)
    PROVE  BeginsAs(s, s)
  <1>1. PICK n \in 0..Len(s) : n = Len(s)
    OBVIOUS
  <1>2. s = SubSeq(s, 1, n)
    BY <1>1
  <1> QED BY <1>2 DEF BeginsAs

\* What is recorded in it later changes nothing of how it begins.
LEMMA BeginsAsBefore ==
    ASSUME NEW S, NEW s \in Seq(S), NEW x \in S, NEW t, BeginsAs(s, t)
    PROVE  BeginsAs(Append(s, x), t)
  <1>1. PICK n \in 0..Len(s) : t = SubSeq(s, 1, n)
    BY DEF BeginsAs
  <1>2. Len(Append(s, x)) = Len(s) + 1 /\ \A i \in 1..Len(s) : Append(s, x)[i] = s[i]
    OBVIOUS
  <1>3. n \in 0..Len(Append(s, x)) /\ SubSeq(Append(s, x), 1, n) = SubSeq(s, 1, n)
    BY <1>2
  <1> QED BY <1>1, <1>3 DEF BeginsAs

\* The queue of a user runs one task at a time.
LEMMA OneRuns ==
    ASSUME AllInv, NEW t \in Tasks, NEW u \in Tasks, phase[t] \in Running, phase[u] \in Running
    PROVE  t = u
  <1>1. PICK i \in DOMAIN Log : Log[i] = t
    BY DEF AllInv, OrderInv, FifoInv, Running
  <1>2. PICK j \in DOMAIN Log : Log[j] = u
    BY DEF AllInv, OrderInv, FifoInv, Running
  <1> QED BY <1>1, <1>2 DEF AllInv, OrderInv, FifoInv

\* A step that changes no title or transcript, and begins no title.
TitlesStill ==
    /\ UNCHANGED <<convs, title, draft, asked>>
    /\ \A c \in Convs : phase'[Title(c)] = "titling" => phase[Title(c)] = "titling"

\* No such step disturbs the titles.
LEMMA TitlesKept == TitleInv /\ TitlesStill => TitleInv'
  BY DEF TitleInv, TitlesStill

\* The steps of the queries, the answer apart, of the persistence and of the deletions,
\* the commit apart.
LEMMA MostStill ==
    ASSUME AllInv
    PROVE  /\ \A s \in Sessions : CreateSession(s) => TitlesStill
           /\ \A c \in Convs : StreamGoesOn(c) \/ EmbedStep(c) \/ TitleFails(c) => TitlesStill
           /\ \A d \in Deletes : DeleteStep(d) => TitlesStill
           /\ \A d \in Deletes : RemovalStep(d) => TitlesStill \/ Commit(d)
           /\ Close \/ UNCHANGED vars => TitlesStill
  <1> USE DEF AllInv, TypeInv
  <1>1. ASSUME NEW t \in Tasks, NEW p, phase' = [phase EXCEPT ![t] = p], p # "titling"
        PROVE  \A c \in Convs : phase'[Title(c)] = "titling" => phase[Title(c)] = "titling"
    BY <1>1, SetPhase, TaskNames
  <1>2. \A s \in Sessions : CreateSession(s) => TitlesStill
    BY DEF CreateSession, TitlesStill, queries, work
  <1>3. ASSUME NEW c \in Convs, StreamGoesOn(c) PROVE TitlesStill
    BY <1>3 DEF StreamGoesOn, EnsureFails, Respond, Abandon, FirstStep, StreamFails, TellDone,
                EndStream, TitlesStill, registry, work
  <1>4. ASSUME NEW c \in Convs, EmbedStep(c) \/ TitleFails(c) PROVE TitlesStill
    <2>1. UNCHANGED <<convs, title, draft, asked>>
      BY <1>4 DEF EmbedStep, BeginEmbed, EmbedFails, Embedded, InsertSegment, InsertFails, CleanUp,
                  TitleFails, registry, queries
    <2>2. \/ phase' = phase
          \/ \E t \in {Embed(c), Title(c)}, p \in {"embedding", "inserting", "cleaning", "succeeded",
                 "failed"} : phase' = [phase EXCEPT ![t] = p]
      BY <1>4 DEF EmbedStep, BeginEmbed, EmbedFails, Embedded, InsertSegment, InsertFails, CleanUp,
                  TitleFails, Begins, Ends
    <2> QED BY <1>1, <2>1, <2>2, TaskNames DEF TitlesStill
  <1>5. ASSUME NEW d \in Deletes, DeleteStep(d) PROVE TitlesStill
    <2>1. UNCHANGED <<convs, title, draft, asked>>
      BY <1>5 DEF DeleteStep, Reserve, DeleteRefused, DeleteAccepted, registry, queries, work
    <2>2. phase' = phase \/ phase' = [phase EXCEPT ![Removal(d)] = "queued"]
      BY <1>5 DEF DeleteStep, Reserve, DeleteRefused, DeleteAccepted, work
    <2> QED BY <1>1, <2>1, <2>2, TaskNames DEF TitlesStill
  <1>6. ASSUME NEW d \in Deletes, RemovalStep(d), ~Commit(d) PROVE TitlesStill
    <2>1. UNCHANGED <<convs, title, draft, asked>>
      BY <1>6 DEF RemovalStep, BeginRemoval, DeleteMany, Verify, RemovalFails, registry, queries
    <2>2. \E p \in {"deleting", "verifying", "verified", "failed"} :
             phase' = [phase EXCEPT ![Removal(d)] = p]
      BY <1>6 DEF RemovalStep, BeginRemoval, DeleteMany, Verify, RemovalFails, Begins, Ends
    <2> QED BY <1>1, <2>1, <2>2, TaskNames DEF TitlesStill
  <1>7. Close \/ UNCHANGED vars => TitlesStill
    BY DEF Close, vars, TitlesStill, registry, queries, work
  <1> QED BY <1>2, <1>3, <1>4, <1>5, <1>6, <1>7
\* Renaming a session, and asking in it.
LEMMA RenameTitles ==
    ASSUME AllInv, TitleInv, NEW s \in Sessions, Rename(s)
    PROVE  TitleInv'
  <1>1. /\ title \in [Sessions -> Seq(Convs \cup {Renamed})]
        /\ title' = [title EXCEPT ![s] = <<Renamed>>]
        /\ UNCHANGED <<convs, asked, phase, draft>>
    BY DEF Rename, queries, work, AllInv, TypeInv, TypeOK
  <1>2. \A q \in Sessions : title'[q] = IF q = s THEN <<Renamed>> ELSE title[q]
    BY <1>1
  <1>3. \A c \in Convs : phase[Title(c)] = "titling" => asked[c] \in Sessions
    BY DEF AllInv, OrderInv, Found, Pending, Running, TypeInv, TypeOK
  <1> QED BY <1>1, <1>2, <1>3 DEF TitleInv

\* A query that is made has no title under way.
LEMMA QueryTitles ==
    ASSUME AllInv, TitleInv, NEW c \in Convs, NEW s \in Sessions, Query(c, s)
    PROVE  TitleInv'
  <1>1. /\ UNCHANGED <<convs, title, phase, draft>> /\ phase[Title(c)] = "none"
        /\ \A e \in Convs : e # c => asked'[e] = asked[e]
    BY DEF Query, work, AllInv, TypeInv, TypeOK, WorkInv, Unanswered
  <1> QED BY <1>1 DEF TitleInv

\* An answer continues the transcript of its session.
LEMMA AnswerTitles ==
    ASSUME AllInv, TitleInv, NEW c \in Convs, Answer(c)
    PROVE  TitleInv'
  <1>1. UNCHANGED <<title, asked, draft>>
    BY DEF Answer
  <1>2. \A e \in Convs : phase'[Title(e)] = "titling" => phase[Title(e)] = "titling"
    <2>1. phase \in [Tasks -> Phases]
      BY DEF AllInv, TypeInv, TypeOK
    <2>2. \A t \in Tasks : phase'[t] = phase[t] \/ phase'[t] = "queued"
      BY <2>1 DEF Answer
    <2> QED BY <2>2, TaskNames
  <1>3. \A s \in Sessions : \A t : BeginsAs(convs[s], t) => BeginsAs(convs'[s], t)
    <2>1. convs \in [Sessions -> Seq(Convs)]
      BY DEF AllInv, TypeInv, TypeOK
    <2>2. \A s \in Sessions : convs'[s] = convs[s] \/ convs'[s] = Append(convs[s], c)
      BY <2>1 DEF Answer
    <2> QED BY <2>1, <2>2, BeginsAsBefore
  <1>4. \A e \in Convs : phase[Title(e)] = "titling" => asked[e] \in Sessions
    BY DEF AllInv, OrderInv, Found, Pending, Running, TypeInv, TypeOK
  <1> QED BY <1>1, <1>2, <1>3, <1>4 DEF TitleInv

\* A title begins with all of the transcript.
LEMMA BeginTitles ==
    ASSUME AllInv, TitleInv, NEW c \in Convs, BeginTitle(c)
    PROVE  TitleInv'
  <1>1. /\ UNCHANGED <<title, asked, convs>>
        /\ draft' = [draft EXCEPT ![c] = convs[asked[c]]] /\ draft \in [Convs -> Seq(Convs)]
        /\ convs \in [Sessions -> Seq(Convs)] /\ phase \in [Tasks -> Phases]
        /\ phase' = [phase EXCEPT ![Title(c)] = "titling"] /\ phase[Title(c)] = "queued"
    BY DEF BeginTitle, Begins, registry, queries, AllInv, TypeInv, TypeOK
  <1>2. asked[c] \in Sessions
    BY <1>1 DEF AllInv, OrderInv, Found, Pending, TypeInv, TypeOK
  <1>3. /\ draft'[c] = convs[asked[c]]
        /\ \A e \in Convs : e # c => draft'[e] = draft[e] /\ phase'[Title(e)] = phase[Title(e)]
    BY <1>1, TaskNames
  <1>4. BeginsAs(convs[asked[c]], convs[asked[c]])
    BY <1>1, <1>2, BeginsAsItself
  <1>5. ASSUME NEW e \in Convs, phase'[Title(e)] = "titling"
        PROVE  /\ BeginsAs(convs[asked[e]], draft'[e])
               /\ title[asked[e]] = <<Renamed>> \/ BeginsAs(draft'[e], title[asked[e]])
    BY <1>2, <1>3, <1>4, <1>5 DEF TitleInv
  <1> QED BY <1>1, <1>5 DEF TitleInv

\* A title that is ready replaces one of no more than its transcript.
LEMMA TitledTitles ==
    ASSUME AllInv, TitleInv, NEW c \in Convs, Titled(c)
    PROVE  /\ TitleInv'
           /\ \A s \in Sessions : title[s] = <<Renamed>> \/ title'[s] = title[s]
                                    \/ BeginsAs(title'[s], title[s])
  <1>1. /\ UNCHANGED <<asked, convs, draft>> /\ asked[c] \in Sessions
        /\ title' = [title EXCEPT ![asked[c]] = draft[c]]
        /\ title \in [Sessions -> Seq(Convs \cup {Renamed})]
        /\ phase[Title(c)] = "titling" /\ phase' = [phase EXCEPT ![Title(c)] = "succeeded"]
        /\ phase \in [Tasks -> Phases]
    BY DEF Titled, Ends, queries, AllInv, TypeInv, TypeOK
  <1>2. \A s \in Sessions : title'[s] = IF s = asked[c] THEN draft[c] ELSE title[s]
    BY <1>1
  <1>3. /\ BeginsAs(convs[asked[c]], draft[c])
        /\ title[asked[c]] = <<Renamed>> \/ BeginsAs(draft[c], title[asked[c]])
    BY <1>1 DEF TitleInv
  <1>4. ASSUME NEW e \in Convs, phase'[Title(e)] = "titling" PROVE FALSE
    <2>1. e # c /\ phase[Title(e)] = "titling"
      BY <1>1, <1>4, TaskNames
    <2> QED BY <1>1, <2>1, OneRuns, TaskNames DEF Running
  <1> QED BY <1>1, <1>2, <1>3, <1>4 DEF TitleInv

\* A session that goes has no title, and no transcript.
LEMMA CommitTitles ==
    ASSUME AllInv, TitleInv, NEW d \in Deletes, Commit(d)
    PROVE  /\ TitleInv'
           /\ \A s \in Sessions : title'[s] = title[s] \/ s \notin sessions'
  <1>1. /\ UNCHANGED <<asked, draft>> /\ phase[Removal(d)] = "verified"
        /\ \/ UNCHANGED <<sessions, convs, title>>
           \/ /\ sessions' = sessions \ {target[d]}
              /\ convs' = [convs EXCEPT ![target[d]] = <<>>]
              /\ title' = [title EXCEPT ![target[d]] = <<>>]
        /\ convs \in [Sessions -> Seq(Convs)] /\ phase \in [Tasks -> Phases]
        /\ title \in [Sessions -> Seq(Convs \cup {Renamed})]
    BY DEF Commit, queries, AllInv, TypeInv, TypeOK
  <1>2. ASSUME NEW e \in Convs, phase'[Title(e)] = "titling" PROVE FALSE
    <2>1. \E p \in {"succeeded", "failed"} : phase' = [phase EXCEPT ![Removal(d)] = p]
      BY DEF Commit, Ends
    <2>2. phase[Title(e)] = "titling"
      BY <1>1, <1>2, <2>1, TaskNames
    <2> QED BY <1>1, <2>2, OneRuns, TaskNames DEF Running
  <1>3. BeginsAs(<<>>, <<>>)
    BY <<>> \in Seq(Convs), BeginsAsItself
  <1>4. \A s \in Sessions : \/ convs'[s] = convs[s] /\ title'[s] = title[s]
                            \/ convs'[s] = <<>> /\ title'[s] = <<>> /\ s \notin sessions'
    BY <1>1
  <1> QED BY <1>2, <1>3, <1>4 DEF TitleInv

\* Every step keeps the titles, and advances them.
LEMMA StepTitles ==
    ASSUME AllInv, TitleInv, [Next]_vars
    PROVE  /\ TitleInv'
           /\ \A s \in Sessions :
                \/ title[s] = <<Renamed>> \/ title'[s] = <<Renamed>>
                \/ s \notin sessions'
                \/ \E n \in 0..Len(title'[s]) : title[s] = SubSeq(title'[s], 1, n)
  <1> DEFINE Advances == \A s \in Sessions :
                \/ title[s] = <<Renamed>> \/ title'[s] = <<Renamed>>
                \/ s \notin sessions'
                \/ title'[s] = title[s] \/ BeginsAs(title'[s], title[s])
  <1>1. ASSUME TitlesStill PROVE TitleInv' /\ Advances
    BY <1>1, TitlesKept DEF TitlesStill
  <1>2. ASSUME NEW s \in Sessions, Rename(s) PROVE TitleInv' /\ Advances
    <2>1. \A q \in Sessions : title'[q] = <<Renamed>> \/ title'[q] = title[q]
      BY <1>2 DEF Rename, AllInv, TypeInv, TypeOK
    <2> QED BY <1>2, <2>1, RenameTitles
  <1>3. ASSUME NEW c \in Convs, NEW s \in Sessions, Query(c, s) PROVE TitleInv' /\ Advances
    BY <1>3, QueryTitles DEF Query
  <1>4. ASSUME NEW c \in Convs, Answer(c) PROVE TitleInv' /\ Advances
    BY <1>4, AnswerTitles DEF Answer
  <1>5. ASSUME NEW c \in Convs, TitleStep(c) PROVE TitleInv' /\ Advances
    <2>1. CASE BeginTitle(c)
      BY <2>1, BeginTitles DEF BeginTitle, registry
    <2>2. CASE Titled(c)
      BY <2>2, TitledTitles
    <2>3. CASE TitleFails(c)
      BY <1>1, <2>3, MostStill
    <2> QED BY <1>5, <2>1, <2>2, <2>3 DEF TitleStep
  <1>6. ASSUME NEW d \in Deletes, RemovalStep(d) PROVE TitleInv' /\ Advances
    BY <1>1, <1>6, MostStill, CommitTitles
  <1>7. ASSUME NEW c \in Convs, QueryStep(c) PROVE TitleInv' /\ Advances
    <2>1. CASE StreamGoesOn(c)
      BY <1>1, <2>1, MostStill
    <2> QED BY <1>3, <1>4, <1>7, <2>1 DEF QueryStep, StreamGoesOn
  <1>8. TitleInv' /\ Advances
    <2>1. \A c \in Convs : EmbedStep(c) => TitlesStill
      BY MostStill
    <2>2. \A d \in Deletes : DeleteStep(d) => TitlesStill
      BY MostStill
    <2>3. \A s \in Sessions : CreateSession(s) => TitlesStill
      BY MostStill
    <2>4. Close \/ UNCHANGED vars => TitlesStill
      BY MostStill
    <2> QED BY <1>1, <1>2, <1>5, <1>6, <1>7, <2>1, <2>2, <2>3, <2>4 DEF Next
  <1>9. \A s \in Sessions : BeginsAs(title[s], title[s])
    BY BeginsAsItself DEF AllInv, TypeInv, TypeOK
  <1> QED BY <1>8, <1>9 DEF BeginsAs

\* A generated title gives way to a typed one, to a deletion, or to one of a transcript
\* that begins as its own (chat.py:410-484).
THEOREM TitlesAdvance == Spec => TitleAdvances
  <1>1. Init => TitleInv
    <2>1. BeginsAs(<<>>, <<>>)
      BY <<>> \in Seq(Convs), BeginsAsItself
    <2> QED BY <2>1, TaskNames DEF Init, TitleInv
  <1>2. AllInv /\ TitleInv /\ [Next]_vars => TitleInv'
    BY StepTitles
  <1>3. AllInv /\ TitleInv /\ [Next]_vars =>
            [\A s \in Sessions :
                \/ title[s] = <<Renamed>> \/ title'[s] = <<Renamed>>
                \/ s \notin sessions'
                \/ \E n \in 0..Len(title'[s]) : title[s] = SubSeq(title'[s], 1, n)]_vars
    BY StepTitles
  <1> QED BY <1>1, <1>2, <1>3, Inductive, PTL DEF Spec, TitleAdvances
=============================================================================
