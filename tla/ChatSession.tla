---------------------------- MODULE ChatSession ----------------------------
(***************************************************************************)
(* The chat of one user: the registry of sessions, leases and deletion     *)
(* reservations (services.py), the query stream and the session endpoints  *)
(* (api/chat.py), the persistence of an answer (rag/pipeline.py,           *)
(* rag/embedder.py, weaviate_client/conversation.py) and its title, all of *)
(* whose background work goes through the user's FIFO queue.               *)
(*                                                                         *)
(* Registry methods hold one lock and never suspend, so each is atomic.  A *)
(* handler is split where it awaits; storage calls run in a thread, one    *)
(* step per call.  Registries of different users share nothing but the     *)
(* lock.  The queue is the abstract SerialFifo that TaskQueue implements.  *)
(***************************************************************************)
EXTENDS Sequences, Naturals, FiniteSets

CONSTANTS
    Sessions,       \* session UUIDs that can be issued
    Convs,          \* conversation UUIDs: one per accepted query
    Deletes,        \* DELETE requests that pass the reservation
    NumSegments,    \* retrieval segments of every conversation
    User,           \* the tenant
    NoSession,
    Renamed,        \* a title the user typed (PATCH)
    MayAbandon      \* may a client leave before its stream's first step?

ASSUME SegmentsAssumption == NumSegments \in Nat \ {0}
ASSUME NamesAssumption == NoSession \notin Sessions /\ Renamed \notin Convs
ASSUME AbandonAssumption == MayAbandon \in BOOLEAN

Segments == 1..NumSegments
Embed(c) == <<"embed", c>>
Title(c) == <<"title", c>>
Removal(d) == <<"delete", d>>
Tasks == {Embed(c) : c \in Convs} \cup {Title(c) : c \in Convs}
            \cup {Removal(d) : d \in Deletes}

VARIABLES
    \* ChatRegistry
    sessions,       \* sessions that exist
    created,        \* session UUIDs that were issued
    convs,          \* convs[s]: SessionMap, the recorded conversations in order
    title,          \* title[s]: the transcript it was generated from; <<>> is "New Chat"
    lease,          \* _active_streams: conversations holding a stream lease
    deleting,       \* _deleting_sessions
    \* requests
    asked,          \* asked[c]: the session of query c
    stream,         \* stream[c]: where the query handler and its stream are
    target, ids,    \* session and conversation_ids snapshot of a DELETE request
    request,        \* request[d]: where the DELETE handler is
    \* background work
    closing,        \* the queue refuses work
    log, began, active,
    phase,          \* phase[t]: where the work of task t is
    draft,          \* draft[c]: the transcript the title task of c read
    \* Weaviate
    attempted,      \* attempted[c]: how many segments insert() has tried
    stored          \* stored[c]: the segments of c in the collection

registry == <<sessions, created, convs, title, lease, deleting>>
queries == <<asked, stream>>
deletions == <<target, ids, request>>
fifo == <<log, began, active>>
work == <<phase, draft, attempted, stored>>
vars == <<sessions, created, convs, title, lease, deleting, asked, stream,
          target, ids, request, closing, log, began, active, phase, draft,
          attempted, stored>>

F == INSTANCE SerialFifo WITH Users <- {User}

StreamStates == {"none", "ensuring", "ready", "abandoned", "streaming",
                 "answered", "told", "ended"}
RequestStates == {"none", "ensuring", "accepted", "refused"}
Phases == {"none", "queued", "embedding", "inserting", "cleaning", "titling",
           "deleting", "verifying", "verified", "succeeded", "failed"}

Elements(s) == {s[i] : i \in DOMAIN s}
Streams(s) == {c \in lease : asked[c] = s}

TypeOK ==
    /\ sessions \subseteq created /\ created \subseteq Sessions
    /\ convs \in [Sessions -> Seq(Convs)]
    /\ title \in [Sessions -> Seq(Convs \cup {Renamed})]
    /\ lease \subseteq Convs
    /\ deleting \subseteq Sessions
    /\ asked \in [Convs -> Sessions \cup {NoSession}]
    /\ stream \in [Convs -> StreamStates]
    /\ target \in [Deletes -> Sessions \cup {NoSession}]
    /\ ids \in [Deletes -> SUBSET Convs]
    /\ request \in [Deletes -> RequestStates]
    /\ closing \in BOOLEAN
    /\ log \in [{User} -> Seq(Tasks)]
    /\ began \in [{User} -> Seq(Tasks)]
    /\ active \in [{User} -> SUBSET Tasks]
    /\ phase \in [Tasks -> Phases]
    /\ draft \in [Convs -> Seq(Convs)]
    /\ attempted \in [Convs -> 0..NumSegments]
    /\ stored \in [Convs -> SUBSET Segments]

Init ==
    /\ sessions = {} /\ created = {}
    /\ convs = [s \in Sessions |-> <<>>]
    /\ title = [s \in Sessions |-> <<>>]
    /\ lease = {} /\ deleting = {}
    /\ asked = [c \in Convs |-> NoSession]
    /\ stream = [c \in Convs |-> "none"]
    /\ target = [d \in Deletes |-> NoSession]
    /\ ids = [d \in Deletes |-> {}]
    /\ request = [d \in Deletes |-> "none"]
    /\ closing = FALSE
    /\ F!Init
    /\ phase = [t \in Tasks |-> "none"]
    /\ draft = [c \in Convs |-> <<>>]
    /\ attempted = [c \in Convs |-> 0]
    /\ stored = [c \in Convs |-> {}]

-----------------------------------------------------------------------------
(* Sessions *)

\* POST /sessions
CreateSession(s) ==
    /\ s \notin created
    /\ created' = created \cup {s}
    /\ sessions' = sessions \cup {s}
    /\ UNCHANGED <<convs, title, lease, deleting, closing>>
    /\ UNCHANGED <<queries, deletions, fifo, work>>

\* PATCH /sessions/{id}/title; a session under deletion may still be renamed.
Rename(s) ==
    /\ s \in sessions
    /\ title' = [title EXCEPT ![s] = <<Renamed>>]
    /\ UNCHANGED <<sessions, created, convs, lease, deleting, closing>>
    /\ UNCHANGED <<queries, deletions, fifo, work>>

-----------------------------------------------------------------------------
(* POST /query *)

\* begin_chat_stream's checks, under the registry lock.
FaultBeginUnderDeletion(s) == s \in sessions
MayBegin(s) == s \in sessions /\ s \notin deleting

\* Up to `await _ensure_collections`: nothing suspends between get_session,
\* the new UUID and the lease.
Query(c, s) ==
    /\ stream[c] = "none"
    /\ MayBegin(s)
    /\ asked' = [asked EXCEPT ![c] = s]
    /\ stream' = [stream EXCEPT ![c] = "ensuring"]
    /\ lease' = lease \cup {c}
    /\ UNCHANGED <<sessions, created, convs, title, deleting, closing>>
    /\ UNCHANGED <<deletions, fifo, work>>

\* Seeded fault of EnsureFails: the lease is kept.
FaultEnsureKeepsLease(c) ==
    /\ stream[c] = "ensuring"
    /\ stream' = [stream EXCEPT ![c] = "ended"]
    /\ UNCHANGED <<registry, asked, closing, deletions, fifo, work>>

\* The collections could not be ensured, or the handler was cancelled.
EnsureFails(c) ==
    /\ stream[c] = "ensuring"
    /\ stream' = [stream EXCEPT ![c] = "ended"]
    /\ lease' = lease \ {c}
    /\ UNCHANGED <<sessions, created, convs, title, deleting, asked, closing>>
    /\ UNCHANGED <<deletions, fifo, work>>

\* The handler returns its StreamingResponse.
Respond(c) ==
    /\ stream[c] = "ensuring"
    /\ stream' = [stream EXCEPT ![c] = "ready"]
    /\ UNCHANGED <<registry, asked, closing, deletions, fifo, work>>

\* The server cancels the response before it iterates the body: the generator
\* never runs, and neither does its finally clause.
Abandon(c) ==
    /\ MayAbandon
    /\ stream[c] = "ready"
    /\ stream' = [stream EXCEPT ![c] = "abandoned"]
    /\ UNCHANGED <<registry, asked, closing, deletions, fifo, work>>

FirstStep(c) ==
    /\ stream[c] = "ready"
    /\ stream' = [stream EXCEPT ![c] = "streaming"]
    /\ UNCHANGED <<registry, asked, closing, deletions, fifo, work>>

\* The pipeline raised, the queue refused the persistence, or the client left:
\* the finally clause releases the lease.
StreamFails(c) ==
    /\ stream[c] = "streaming"
    /\ stream' = [stream EXCEPT ![c] = "ended"]
    /\ lease' = lease \ {c}
    /\ UNCHANGED <<sessions, created, convs, title, deleting, asked, closing>>
    /\ UNCHANGED <<deletions, fifo, work>>

\* record_conversation's checks, under the registry lock.
MayRecord(s) == s \in sessions /\ s \notin deleting

\* The answer is complete.  The pipeline enqueues its persistence, then the
\* stream records the conversation and enqueues the title, without suspending.
\* If the registry refused the record the stream would fail after the
\* persistence was accepted.
Answer(c) ==
    /\ stream[c] = "streaming"
    /\ ~ closing
    /\ UNCHANGED <<sessions, created, title, deleting, asked, closing>>
    /\ UNCHANGED <<deletions, draft, attempted, stored>>
    /\ IF MayRecord(asked[c])
       THEN /\ convs' = [convs EXCEPT ![asked[c]] = Append(@, c)]
            /\ stream' = [stream EXCEPT ![c] = "answered"]
            /\ F!AcceptPair(User, Embed(c), Title(c))
            /\ phase' = [phase EXCEPT ![Embed(c)] = "queued", ![Title(c)] = "queued"]
            /\ UNCHANGED lease
       ELSE /\ stream' = [stream EXCEPT ![c] = "ended"]
            /\ F!Accept(User, Embed(c))
            /\ phase' = [phase EXCEPT ![Embed(c)] = "queued"]
            /\ lease' = lease \ {c}
            /\ UNCHANGED convs

\* The telemetry and done events reach the client.
TellDone(c) ==
    /\ stream[c] = "answered"
    /\ stream' = [stream EXCEPT ![c] = "told"]
    /\ UNCHANGED <<registry, asked, closing, deletions, fifo, work>>

\* The generator is resumed, or closed because the client left.
EndStream(c) ==
    /\ stream[c] \in {"answered", "told"}
    /\ stream' = [stream EXCEPT ![c] = "ended"]
    /\ lease' = lease \ {c}
    /\ UNCHANGED <<sessions, created, convs, title, deleting, asked, closing>>
    /\ UNCHANGED <<deletions, fifo, work>>

-----------------------------------------------------------------------------
(* DELETE /sessions/{id} *)

\* reserve_session_deletion's checks, under the registry lock.
FaultReserveActive(s) == s \in sessions /\ s \notin deleting
FaultReserveTwice(s) == s \in sessions /\ Streams(s) = {}
MayReserve(s) == s \in sessions /\ Streams(s) = {} /\ s \notin deleting

Reserve(d, s) ==
    /\ request[d] = "none"
    /\ MayReserve(s)
    /\ deleting' = deleting \cup {s}
    /\ target' = [target EXCEPT ![d] = s]
    /\ ids' = [ids EXCEPT ![d] = Elements(convs[s])]
    /\ request' = [request EXCEPT ![d] = "ensuring"]
    /\ UNCHANGED <<sessions, created, convs, title, lease, closing>>
    /\ UNCHANGED <<queries, fifo, work>>

\* abort_session_deletion; the fault forgets to release the reservation.
FaultAbortNothing(d) == deleting' = deleting
Abort(d) == deleting' = deleting \ {target[d]}

\* The collections could not be ensured, the handler was cancelled, or the
\* queue is closing.
DeleteRefused(d) ==
    /\ request[d] = "ensuring"
    /\ request' = [request EXCEPT ![d] = "refused"]
    /\ Abort(d)
    /\ UNCHANGED <<sessions, created, convs, title, lease, target, ids, closing>>
    /\ UNCHANGED <<queries, fifo, work>>

DeleteAccepted(d) ==
    /\ request[d] = "ensuring"
    /\ ~ closing
    /\ request' = [request EXCEPT ![d] = "accepted"]
    /\ F!Accept(User, Removal(d))
    /\ phase' = [phase EXCEPT ![Removal(d)] = "queued"]
    /\ UNCHANGED <<registry, target, ids, closing, queries, draft, attempted, stored>>

-----------------------------------------------------------------------------
(* Background work: the worker takes the next task of the user. *)

Begins(t, first) ==
    /\ phase[t] = "queued"
    /\ F!Begin(User)
    /\ active'[User] = {t}
    /\ phase' = [phase EXCEPT ![t] = first]

Ends(t, last) ==
    /\ t \in active[User]
    /\ F!End(User)
    /\ phase' = [phase EXCEPT ![t] = last]

\* embed_conversation: segmentation and embeddings, then insert() in a thread.
BeginEmbed(c) ==
    /\ Begins(Embed(c), "embedding")
    /\ UNCHANGED <<registry, queries, deletions, closing, draft, attempted, stored>>

EmbedFails(c) ==
    /\ phase[Embed(c)] = "embedding"
    /\ Ends(Embed(c), "failed")
    /\ UNCHANGED <<registry, queries, deletions, closing, draft, attempted, stored>>

Embedded(c) ==
    /\ phase[Embed(c)] = "embedding"
    /\ phase' = [phase EXCEPT ![Embed(c)] = "inserting"]
    /\ UNCHANGED <<registry, queries, deletions, closing, fifo, draft, attempted, stored>>

\* insert(): one object; its identifier is noted as attempted before the call.
InsertSegment(c) ==
    LET segment == attempted[c] + 1 IN
    /\ phase[Embed(c)] = "inserting"
    /\ attempted' = [attempted EXCEPT ![c] = segment]
    /\ stored' = [stored EXCEPT ![c] = @ \cup {segment}]
    /\ IF segment = NumSegments
       THEN Ends(Embed(c), "succeeded")
       ELSE UNCHANGED <<phase, fifo>>
    /\ UNCHANGED <<registry, queries, deletions, closing, draft>>

\* The call failed, with or without an effect in Weaviate.
InsertFails(c) ==
    LET segment == attempted[c] + 1 IN
    /\ phase[Embed(c)] = "inserting"
    /\ attempted' = [attempted EXCEPT ![c] = segment]
    /\ \E effect \in SUBSET {segment} : stored' = [stored EXCEPT ![c] = @ \cup effect]
    /\ phase' = [phase EXCEPT ![Embed(c)] = "cleaning"]
    /\ UNCHANGED <<registry, queries, deletions, closing, fifo, draft>>

\* The verified delete of the attempted identifiers, which may itself fail
\* part way (ConversationWriteRecoveryError): the task fails either way.
CleanUp(c) ==
    /\ phase[Embed(c)] = "cleaning"
    /\ \E removed \in SUBSET (1..attempted[c]) :
           stored' = [stored EXCEPT ![c] = @ \ removed]
    /\ Ends(Embed(c), "failed")
    /\ UNCHANGED <<registry, queries, deletions, closing, draft, attempted>>

\* Seeded fault of BeginTitle: the draft is the triggering conversation only.
FaultTitleOfOne(c) ==
    /\ Begins(Title(c), "titling")
    /\ draft' = [draft EXCEPT ![c] = <<c>>]
    /\ UNCHANGED <<registry, queries, deletions, closing, attempted, stored>>

\* title_work: the registry snapshot; a missing session is a KeyError.
BeginTitle(c) ==
    /\ Begins(Title(c), "titling")
    /\ draft' = [draft EXCEPT ![c] = convs[asked[c]]]
    /\ UNCHANGED <<registry, queries, deletions, closing, attempted, stored>>

TitleFails(c) ==
    /\ phase[Title(c)] = "titling"
    /\ Ends(Title(c), "failed")
    /\ UNCHANGED <<registry, queries, deletions, closing, draft, attempted, stored>>

Titled(c) ==
    /\ phase[Title(c)] = "titling"
    /\ asked[c] \in sessions
    /\ title' = [title EXCEPT ![asked[c]] = draft[c]]
    /\ Ends(Title(c), "succeeded")
    /\ UNCHANGED <<sessions, created, convs, lease, deleting>>
    /\ UNCHANGED <<queries, deletions, closing, draft, attempted, stored>>

\* delete_session's work: delete_batch_verified of the snapshot in a thread.
BeginRemoval(d) ==
    /\ Begins(Removal(d), "deleting")
    /\ UNCHANGED <<registry, queries, deletions, closing, draft, attempted, stored>>

\* Seeded fault of DeleteMany: the filter does not restrict the delete.
FaultDeleteEverything(d) ==
    /\ phase[Removal(d)] = "deleting"
    /\ stored' = [c \in Convs |-> {}]
    /\ phase' = [phase EXCEPT ![Removal(d)] = "verifying"]
    /\ UNCHANGED <<registry, queries, deletions, closing, fifo, draft, attempted>>

\* delete_many: any part of the matching objects may be gone afterwards.
DeleteMany(d) ==
    /\ phase[Removal(d)] = "deleting"
    /\ \E removed \in [ids[d] -> SUBSET Segments] :
           stored' = [c \in Convs |-> IF c \in ids[d] THEN stored[c] \ removed[c]
                                                      ELSE stored[c]]
    /\ phase' = [phase EXCEPT ![Removal(d)] = "verifying"]
    /\ UNCHANGED <<registry, queries, deletions, closing, fifo, draft, attempted>>

\* The dry run finds nothing left; the fault trusts the first call.
FaultUnverified(d) == TRUE
Confirmed(d) == \A c \in ids[d] : stored[c] = {}

Verify(d) ==
    /\ phase[Removal(d)] = "verifying"
    /\ Confirmed(d)
    /\ phase' = [phase EXCEPT ![Removal(d)] = "verified"]
    /\ UNCHANGED <<registry, queries, deletions, closing, fifo, draft, attempted, stored>>

\* commit_session_deletion; whatever it finds, the reservation is released.
Commit(d) ==
    LET s == target[d]
        commits == s \in deleting /\ s \in sessions /\ Streams(s) = {}
    IN  /\ phase[Removal(d)] = "verified"
        /\ IF commits
           THEN /\ sessions' = sessions \ {s}
                /\ convs' = [convs EXCEPT ![s] = <<>>]
                /\ title' = [title EXCEPT ![s] = <<>>]
                /\ Ends(Removal(d), "succeeded")
           ELSE /\ UNCHANGED <<sessions, convs, title>>
                /\ Ends(Removal(d), "failed")
        /\ Abort(d)
        /\ UNCHANGED <<created, lease>>
        /\ UNCHANGED <<queries, deletions, closing, draft, attempted, stored>>

\* Storage raised, or the dry run found objects: the session is kept for retry.
RemovalFails(d) ==
    /\ phase[Removal(d)] \in {"deleting", "verifying"}
    /\ Ends(Removal(d), "failed")
    /\ Abort(d)
    /\ UNCHANGED <<sessions, created, convs, title, lease>>
    /\ UNCHANGED <<queries, deletions, closing, draft, attempted, stored>>

\* The lifespan closes the queue: accepted work still runs, no more is accepted.
Close ==
    /\ ~ closing
    /\ closing' = TRUE
    /\ UNCHANGED <<registry, queries, deletions, fifo, work>>

-----------------------------------------------------------------------------
QueryStep(c) ==
    \/ \E s \in Sessions : Query(c, s)
    \/ EnsureFails(c) \/ Respond(c) \/ Abandon(c) \/ FirstStep(c)
    \/ StreamFails(c) \/ Answer(c) \/ TellDone(c) \/ EndStream(c)

DeleteStep(d) ==
    \/ \E s \in Sessions : Reserve(d, s)
    \/ DeleteRefused(d) \/ DeleteAccepted(d)

EmbedStep(c) ==
    \/ BeginEmbed(c) \/ EmbedFails(c) \/ Embedded(c)
    \/ InsertSegment(c) \/ InsertFails(c) \/ CleanUp(c)

TitleStep(c) == BeginTitle(c) \/ TitleFails(c) \/ Titled(c)

RemovalStep(d) ==
    \/ BeginRemoval(d) \/ DeleteMany(d) \/ Verify(d) \/ Commit(d) \/ RemovalFails(d)

Next ==
    \/ \E s \in Sessions : CreateSession(s) \/ Rename(s)
    \/ \E c \in Convs : QueryStep(c) \/ EmbedStep(c) \/ TitleStep(c)
    \/ \E d \in Deletes : DeleteStep(d) \/ RemovalStep(d)
    \/ Close

Spec == Init /\ [][Next]_vars

(***************************************************************************)
(* Every storage and provider call answers or fails (all have timeouts),   *)
(* the server keeps driving a stream it has started, and the user's worker *)
(* takes the next task (DiligentTasksEnd of MCTaskQueue).  No client has   *)
(* to ask, rename, delete, or read.                                        *)
(***************************************************************************)
Fairness ==
    /\ \A c \in Convs :
          /\ WF_vars(EnsureFails(c) \/ Respond(c))
          /\ WF_vars(FirstStep(c))
          /\ WF_vars(StreamFails(c) \/ Answer(c))
          /\ WF_vars(EndStream(c))
          /\ WF_vars(EmbedStep(c))
          /\ WF_vars(TitleStep(c))
    /\ \A d \in Deletes :
          /\ WF_vars(DeleteRefused(d) \/ DeleteAccepted(d))
          /\ WF_vars(RemovalStep(d))

FairSpec == Spec /\ Fairness

-----------------------------------------------------------------------------
(* Properties *)

\* A session reserved for deletion exists and holds no stream lease, and exactly
\* one DELETE request owns the reservation until its task ends (BACKEND.md:474-478).
InFlight(d) ==
    \/ request[d] = "ensuring"
    \/ request[d] = "accepted" /\ phase[Removal(d)] \notin {"succeeded", "failed"}

ReservationExclusive ==
    /\ \A s \in deleting :
          /\ s \in sessions
          /\ Streams(s) = {}
          /\ \E d \in Deletes : InFlight(d) /\ target[d] = s
    /\ \A d \in Deletes : InFlight(d) => target[d] \in deleting
    /\ \A d, e \in Deletes : InFlight(d) /\ InFlight(e) /\ target[d] = target[e] => d = e

\* No segment outlives the registry entry through which it could be deleted:
\* every stored segment belongs to a recorded conversation of an existing
\* session, whatever part of an insertion, its cleanup or a deletion failed
\* (API.md:25-27).
NoOrphanSegments ==
    \A c \in Convs : stored[c] # {} =>
        asked[c] \in sessions /\ c \in Elements(convs[asked[c]])

\* A stored segment disappears only through the cleanup of its own failed
\* insertion or under a reservation of its session: deleting one session never
\* reaches another one's history (conversation.py:232-237).
SegmentsLeaveReserved ==
    [][\A c \in Convs : ~ stored[c] \subseteq stored'[c] =>
          phase[Embed(c)] = "cleaning" \/ asked[c] \in deleting]_vars

\* The snapshot taken by the reservation covers every conversation of the session
\* whose persistence was ever accepted (chat.py:194, chat.py:231-238).
SnapshotCoversHistory ==
    \A d \in Deletes : InFlight(d) =>
        \A c \in Convs : asked[c] = target[d] /\ phase[Embed(c)] # "none" => c \in ids[d]

\* Persistence and title work of a finished stream precede the deletion of its
\* session (BACKEND.md:476-478): when they run, the session is there.
WorkFindsSession ==
    \A c \in Convs :
        /\ phase[Embed(c)] \in {"queued", "embedding", "inserting", "cleaning"}
              => asked[c] \in sessions
        /\ phase[Title(c)] \in {"queued", "titling"} => asked[c] \in sessions

\* A generated title never gives way to one of an older transcript.
TitleAdvances ==
    [][\A s \in Sessions :
          \/ title[s] = <<Renamed>> \/ title'[s] = <<Renamed>>
          \/ s \notin sessions'
          \/ \E n \in 0..Len(title'[s]) : title[s] = SubSeq(title'[s], 1, n)]_vars

\* A stream lease is released some day: deletion is only refused for as long as
\* "The session has an active response stream" (chat.py:207, API.md:28).
LeaseEnds == \A c \in Convs : c \in lease ~> c \notin lease

\* A reservation ends with the deletion of its session or with its release
\* (API.md:29-31).
ReservationEnds == \A s \in Sessions : s \in deleting ~> s \notin deleting
=============================================================================
