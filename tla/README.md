# TLA+ models of the multi-tenant RAG application

This directory specifies the parts of the application where the order of events,
a failure or a boundary decides whether it is right: the background queue, the
chats and the wizards of the backend; what a query and a save compute on the way;
the process, its collections and its traces; and the operator's commands with
their crashes, timeouts and retries. TLC checks each model on small instances;
TLAPS proves the queue, the chats, the wizards, the nine parts of the backend and the
operator's commands for every value of their constants.

Line numbers below and in `PROJECT.json` are those of the files under `src/`.

## 1. The system and its parts

The backend is one asyncio process (`backend/main.py`) with blocking calls in
threads (`asyncio.to_thread`), and Weaviate as the only durable store. Three
collections per user hold conversation segments, knowledge chunks and policy
chunks. Everything else (sessions, maps, task records, traces) is process-local
and is lost on a restart, which the documents accept (DESIGN_DECISIONS.md,
"Stage 3 Mutation Recovery Boundary"). The operator's machine runs `deployment/`:
it starts and stops the hosted applications, seeds the corpus, sends batches of
queries and evaluates their answers locally; its records are files.

| Part | State it keeps | Operations | What makes it hard | What makes it correct | Module |
|---|---|---|---|---|---|
| Task queue (`task_queue.py`) | records, history, a queue and a worker per user | enqueue, run, close (wait and get read) | workers that die, revival, concurrent `close()`, eviction across users | one piece of work per user at a time in acceptance order; no pending record evicted; close drains | `TaskQueue` |
| Chat registry (`services.py`, `mappings/session_map.py`) | sessions, titles, transcripts, leases, reservations | create, rename, begin/end stream, record, reserve/commit/abort deletion | snapshots used after awaits | leases and reservations exclude each other; none is kept for ever | `ChatSession` |
| Chat API (`api/chat.py`), conversation storage (`weaviate_client/conversation.py`) | the place of each request; segments | query, stream, delete, rename; insert with cleanup, verified delete | clients that leave, failures at every await, lost responses | an accepted persistence finds its session; nothing stored outlives it | `ChatSession` |
| Query rewriting, answer stream (`providers/`, `rag/pipeline.py`) | one attempt | rewrite, stream, retry, persist | a retry after content | content is never repeated or cut | `AnswerStream` |
| Retrieval (`rag/retrieval.py`), prompt (`rag/generator.py`) | none | quarantine, rank, cut, hydrate, select, budget | boundaries, ties, a second read after other writers | the context is confirmed, ordered and within budget; reasons are true | `Retrieval`, `AnswerPrompt` |
| Wizard save, delete, create (`wizard/save.py`, `crud.py`), chunk storage (`_chunk_collection.py`), maps (`mappings/`) | paragraphs, chunks, objects | eight-step save, delete, create | partial failure in every stage and in the compensation; scans during insertions | whole, or not at all, or the error names what is wrong | `WizardSave` |
| Alignment and chunking (`wizard/save.py`, `processing/chunker.py`) | none | opcodes to unions to pieces; paragraph to chunks | boundaries | no text lost or doubled | `EditAlignment`, `TextChunks` |
| Wizard runtime (`wizard/runtime.py`) | the maps of each user and collection | lazy registration | check-then-act without a lock | one authoritative map | `WizardMaps` |
| Collections (`weaviate_client/client.py`, `scripts/migrate_onnx_vectors.py`) | cache of validated users, the manifest | ensure, export, rebuild | two first requests; an interrupted rebuild | served means ready; a rebuild can be resumed | `UserCollections` |
| Runtime lifecycle (`main.py`, `runtime_app.py`) | what was made, readiness | construct, start, validate, shut down | a failure at any step | all that was made is closed, once | `RuntimeLifecycle` |
| Diagnostic traces (`wizard/diagnostics.py`) | sessions, operations, samples | start, observe, finish, read, delete | handles that outlive their session, and a worker of the queue that keeps one; limits | a trace is complete or says that it is not | `TraceRegistry` |
| Corpus (`deployment/wizard_diagnostic*.py`) | `corpus-state.json` | seed, replace, promote, clean up | kills and failures between any two requests | the active generation is never lost | `CorpusLedger`, `CorpusReplacement` |
| Scratch diagnostic (`wizard_diagnostic_api.py`) | scratch wizards | upload, save, delete and compare | does it see a defect? | it passes sound backends only | `ScratchDiagnostic` |
| End-to-end batch (`e2e_diagnostic_api.py`) | rows, chats, trace sessions | query, evaluate, record, rotate, clean up | abort in the middle | a true row for each query | `EndToEnd` |
| Local evaluations (`evaluation_bridge*.py`) | thread, lock, supervisor, child | submit, cancel, run, expire | signals and deaths of four processes | one at a time, none left behind | `EvaluationJobs` |
| Operator tool (`ragctl.py`, `modal_*.py`) | applications, funnels, files | up, down | a failed command, a wrong account | off means off, ready means ready | `Deployment` |
| Scoring (`evaluation/src/rag_evaluation/`) | a result file | score, write | runs with one output; failures of metrics and of the file system | the file says what was scored, and is never replaced | `RecordEvaluation` |
| Non-regression gate (`evaluation/non_regression_gate.py`) | samples, the judge's activity, a runtime | collect, validate | a judge, a donor and a request at once; restarts | a verdict only from samples that are what they are called | `AcceptanceGate` |

Tenants share the process but no data: a user's queue, registry entry, maps and
collections are reached only through that user's id. The queue is modelled with
several users because their records share one history, and the collections
because they share one cache and one manifest; the other modules have one user.

## 2. Modules

`MC` modules add symmetry sets and, for the queue, the set of users whose work is
assumed to end. `BackendParts` and `OperatorCommands` put modules together
(below). `SerialFifo` and `AtomicWizards` are abstract: what the queue and the
wizards promise. A module named `...Proofs` EXTENDS the modules it proves about (section 4):
`RagProofs` the retrieval, the alignment and the chunks, `BackendProofs` the other parts of the
backend and their composition, `CommandProofs` the operator's commands other than the corpus and
the evaluations, `OperatorProofs` those two and the composition. `SequenceLemmas` holds what the
proofs share. An operator named `Fault...` is a seeded bug that stands in
front of the definition it would replace; no specification uses it.

### TaskQueue

An asyncio task runs without interruption between two awaits, so a step is the
code from one await to the next. `enqueue` contains none: it is one action, which
also starts a worker when the user has none or the last one is done.
A user's `asyncio.Queue` is `queue[u]` (tasks) followed by `stops[u]` (the
sentinels of `close`). `Start` takes the head and calls the work; the work ends
by success or exception (`Finish`), by `CancelledError` raised inside it
(`Cancelled`, line 155) or by another `BaseException` (`Fatal`), which end the
worker. `Finish` includes the registration in the history and the eviction of
the oldest records. `close()` is cut at its awaits: join the queues, put the
sentinels, gather the workers. Calls of `close()` run concurrently.
`log` and `began` are history: acceptance order and start order.

### ChatSession

Every `ChatRegistry` method holds the lock and does not suspend: one action
each, or part of the action of the handler that calls it. Handlers and tasks are
split where they await. The lifecycle of a query is `Query` (lease) -
`Respond`/`EnsureFails` - `FirstStep` - `Answer` or `StreamFails` - `TellDone` -
`EndStream` (release), of a deletion `Reserve` - `DeleteAccepted`/`DeleteRefused` -
`BeginRemoval` - `DeleteMany` - `Verify` - `Commit`/`RemovalFails`. Retrieval and
generation are one step here; their inside is `Retrieval`, `AnswerPrompt` and
`AnswerStream`. Background work goes through `F == INSTANCE SerialFifo`: the
guarantee `TaskQueue` is proved to implement, not a copy of the queue.
`AcceptPair` is the acceptance of persistence and title in one uninterrupted
stretch (chat.py:479-485). Storage calls fail before, during or after their
effect. `MayAbandon` lets a client leave between the creation of the response and
the first step of its body: `main.py:67` installs an HTTP middleware under which
the first send suspends.

### WizardSave

The text of a paragraph is the sequence of pieces its chunker produced, and a
piece is named by its chunk. Both maps then hold sequences of sequences of
chunks, and the storage holds a document and a paragraph number for a chunk.
`Damage(d)` is the set of chunks whose object is not where the paragraph map of
`d` says. `op` is the running save or delete with its local variables; only one
runs, since both are work of the user's FIFO queue. `create_wizard` runs in its own
thread beside them.

A save is `BeginSave` (diff, modified unions, snapshot), `DeleteUnion` for each
contiguous union, `Process` (split, chunk, embed, renumber), `Insert` for each new
chunk, `Move` (renumber retained chunks), `Commit`; a failure anywhere goes to
`UndoMoves`, `UndoInserts`, `RestoreChunks`, `RestoreMaps`, each of which may fail
without stopping the next. Any nonempty set of paragraphs may be marked:
`EditAlignment` shows what the alignment makes of an edit.
Insertions and renumberings happen in any order; the code's order is one of them.
A `dict` that another thread changes during a scan raises: `ScanRaises`,
`CommitDisturbed`, `ForgetDisturbed`, `RestoreMapsDisturbed` are the scans of
`ParagraphMap` that a concurrent `create_wizard` reaches.
Requests of a document that was deleted while they were queued fail with a
`KeyError` before changing anything, and a refused snapshot changes nothing: they
are absent. `op.before` is history, for the refinement.

### WizardMaps

The accessors `document_map` and `paragraph_map` as check, assignment (`Register`), read, in
worker threads (create) and on the event loop (`ReadBack`, list). It is one of the parts
below; `MCWizardMaps` is for the run in which the maps do not exist yet.

### The parts of the backend (BackendParts)

* `RuntimeLifecycle`: `create_runtime_app` is `Make`/`FactoryFails` for each
  factory, then `Undo` over the same objects reversed; the lifespan is `Connect`,
  `StartStep` (the two endpoints are validated at the same time), serving, and
  `StopStep` along the chain of `finally` clauses, of which any may raise. `owned` and
  `closings` are sequences: the property is about order. The start-up step
  `collections` is there with a diagnostic or evaluation user, the richer case.
* `UserCollections`: a request is `Ensure`, `LookUp`, then `Validate` or
  `CreateMissing` for each collection, `Remember`, `Serve`; threads interleave at every
  storage call, which may fail with or without its effect. The migration is
  `Export` and the rebuild `MarkRebuilding`, `DeleteCollection`, `CreateCollection`,
  `MarkReady` for each collection, with `RebuildStops` anywhere; `RebuildAccepts` is what
  its checks require of the storage and the manifest to run again.
* `EditAlignment`: `borders` is where the saved paragraphs end. `AddOpcode` builds every
  opcode list difflib may return for a short text; `Align` is `_align_unions`
  (save.py:57-237). A saved character is its position, so losing, doubling or misplacing
  one shows.
* `TextChunks`: `CutNext` and `Merge` are the two loops of `chunk_paragraph`; a
  character is a token, a boundary has a similarity below or above the threshold.
* `Retrieval`: `Search` (with the quarantine), `Rerank`, `Hydrate` on responses with
  every kind of malformed row, and a second read from which any candidate may be
  gone or changed. Vectors are classes, so that MMR's penalty is a comparison.
* `AnswerPrompt`: the two loops of `_build_budgeted_prompt`.
* `AnswerStream`: each attempt of the server is any sequence of lines; it may end
  in an error of either kind at any line, or the client may leave. `delivered` carries the
  attempt that produced a token.
* `TraceRegistry`: the registry's methods are atomic (a lock); an observation is
  two of them, as in the code. What observes records under the active handle, a context
  variable. `Enqueue` makes the worker of the user's queue in the context of the request
  that enqueues (task_queue.py:120), which lends it its handle for as long as the worker
  lives; `RunWork` runs work of a request without a handle in the worker's context, since
  `activate_operation(None)` sets nothing (diagnostics.py:851). In a deep trace its observations
  are strays in the operation of that handle; in an evaluation they are not captured, but
  for the mapping digest of a save (`MapDigest`), which is written without asking for the
  mode. Only requests of the one configured user are traced, so there is one worker.

### The operator's commands (OperatorCommands)

* `CorpusLedger` is the record and its pure transitions (`wizard_diagnostic.py`);
  `CorpusReplacement` the run of the client around them, one action per request
  and one write of the record each, with `StepFails`, `Killed` and a save task of
  the backend that runs concurrently.
* `ScratchDiagnostic`: the script as a sequence of steps; the backend has at most
  one defect (a queue that overtakes, a failed save that changes something, a
  listing that crosses collections, ...) and its tasks run when they like.
* `EndToEnd`: the batch; what the backend answers to a step is an outcome.
* `EvaluationJobs`: the client thread, the `flock` whose descriptor the processes
  inherit, the supervisor, the admitted child and the evaluator in its group;
  signals, deadlines and kills of each.
* `Deployment`: one external command per action of `up` and `down`, each may fail with or
  without its effect; containers start and drain on their own; the active account
  may change.
* `RecordEvaluation`: `rag-evaluate run` from the record to the directory's
  synchronisation, in several processes with the same `--output`. Metrics fail
  alone, the backend may fail to open or to close, a run may be interrupted or killed.
* `AcceptanceGate`: `collect-functional` followed by `collect-performance`. `gatePc.block` is one
  of the four fresh runtimes, then a pair; `gateEvents` is the activity log together
  with the requests, so that the place of an event is its monotonic time. The
  evaluator's lock is shared by the collector, the evaluations of its two
  requests, the donor's and a stranger's. `up` and `down` are single steps here,
  `Deployment` has theirs. Which way the bound on the medians decides is left open.

### Why some modules share a run

The nine parts share no state, and neither do the operator's seven commands: the
corpus lock keeps the two diagnoses apart, and the operator is taken to run `up`,
`down` and the gate at other times (they take no lock; the gate sees other
evaluations through the evaluator's). Interleaving them would multiply
states and show nothing. `BackendParts` and `OperatorCommands` therefore choose one of them
in the initial state; the others stay where they are. What is promised by several of them
is one property of the composition (`NothingLeftBehind` is about applications, secret
files, trace and chat sessions, scratch wizards, evaluators, temporary files and the gate's
runtime and donor), a conjunction whose parts are named in the modules.

## 3. What is checked

| Run | Question | Bounds |
|---|---|---|
| `task_queue` | `SerialPerUser`, `PendingRecordsKept`, `HistoryExact`, `DrainedWhenClosed`, `NothingBeginsAfterClose`; implements `SerialFifo`; `DiligentTasksEnd`: a user's tasks end although another's hang; `CloseDrainsWhenWorkEnds` | 2 users (one diligent), 3 tasks, 2 `close()` calls, history of 1, all worker deaths |
| `task_queue_dead_worker` | **violated**: `close()` with a dead worker | 1 user, 2 tasks |
| `chat_deletion` | `ReservationExclusive`, `NoOrphanSegments`, `SnapshotCoversHistory`, `WorkFindsSession`, `TitleAdvances` | 1 session, 2 answers, 2 deletions, 2 segments |
| `chat_progress` | `LeaseEnds`, `ReservationEnds`, `SegmentsLeaveReserved` | 2 sessions, 1 answer, 2 deletions; clients stay until the stream starts |
| `chat_abandoned` | **violated**: `LeaseEnds` when a client leaves earlier | 1 session, 1 answer |
| `wizard_safety` | `MapsAgree`, `Recoverable`, `DamageReported`; implements `AtomicWizards` | 2 documents, 5 chunk ids, 3 paragraphs, 3 failures |
| `wizard_maps_first_use` | **violated**: `CreatedIsFound` on first use | 2 creations, 2 lists |
| `backend_parts` | `ResourcesClosed`, `CollectionsSafe`, `TextPreserved`, `QuarantineExact`, `RankingSound`, `ContextSound`, `ReasonsExplain`, `WeakestGivenUp`, `AnswerWhole`, `TracesTruthful`, `EvidenceSealed`, `MapsTypeOK` (every accessor returns a map), `FoundWhenWarm` (once the maps exist, every wizard is found) | below |
| `trace_stale_handle` | **violated**: `EvidenceRequestScoped` through the handle a worker keeps | 2 requests, 2 trace sessions |
| `operator` | `VerdictIsTrue`, `NothingLeftBehind`, `CorpusSafe`, `ReportFaithful`, `OneEvaluationAtATime`, `PromotionKeepsTrack`, `EveryCommandEnds` | 3 generations, 2 chunks, 2 digests; 3 queries, rotation after 2; 2 evaluation clients; 2 scorings of one output; the gate with 2 pairs, 1 warm-up and 1 judge request; 2 faults (1 in the scratch script, the scoring and the gate) |
| `corpus_retry` | **violated**: a later run accepts what an interrupted one left | 3 generations, 2 faults |
| `deployment_off` | **violated**: `down`'s "RAG is off" | 2 faults |

Why the bounds are enough to see the interesting cases:

* Queue: three tasks let one run, one wait and one finish; a history of 1 makes
  every second completion evict; two closers interleave at each await; two users
  let one user's completions evict while the other's work is pending.
* Chat: two answers of one session overlap with two deletions, so that a
  snapshot, a lease and an accepted persistence meet in every order; two
  segments make an insertion stop half way.
* Wizards: three paragraphs and five ids allow two separate unions with a
  retained paragraph between them that is renumbered; three failures are one in
  an operation, one in its compensation and one in the next operation on what
  that left. A chunk id that nothing refers to may be used again, so histories
  are unbounded in length. The second document is the one whose creation
  disturbs the scans.
* Maps: two creations and two lists, the maps used before or not; the race needs two requests.
* Lifecycle: every step, every failure; no bound. Collections: two tenants and
  two threads, objects inserted in the knowledge collections; the migration stops
  as often as it likes.
* Alignment: four saved characters in up to three paragraphs, two typed at one
  place: an edit inside, across, before and after a boundary, and of an empty
  document. Chunks: limits 2, 3 and 5, where target + minimum = maximum as in
  production (220, 80, 300), and seven characters: up to three chunks, so that a
  middle one has two neighbours to merge with.
* Retrieval: three rows when some are malformed (one to repeat another, one whose
  conversation they share), four identifiers when all are sound, ties everywhere.
  Prompt: two items in each context around its budget. Stream: four lines are a
  token, a blank one, the finish and the terminator. Traces: one operation and one sample before the limit, two items observed under each
  handle. Two requests are the one that lends its handle and the one whose work runs under
  it; of two sessions a second one is there when a handle of the first is used late. A
  refused `start` for want of room changes nothing and is not reached with two sessions
  (with three, the module alone has 447,747 states up to symmetry and the same properties hold).
* Corpus: three generations are an installed one, an abandoned replacement and the
  run that finds both; two faults are one that leaves a mess and one while it is
  cleaned up. End to end: three queries with a rotation after two are a query
  before, at and after the rotation. Evaluations: two clients contend for the lock.
  Gate: two pairs are one in each half of the crossover and two turns of the
  contention loop, so that a pair meets what the one before it left (a stranger's
  evaluation that goes on). With two judge requests in an evaluation and no other
  change the module alone has 184,000 states and the same properties hold; one is kept in the run.

Deadlock is not checked where a bounded run comes to rest: the queue is closed,
each request has ended, a process is down, a text is aligned.

### Fairness

* `TaskQueue`: the event loop resumes what can run (`Start`, `StopWorker`, the
  steps of `close`). That work ends is assumed only of the users in `Diligent`:
  provider and storage calls have timeouts. `CloseDrainsWhenWorkEnds` has as its premise
  that no worker died and all work ends. Nothing makes a client enqueue or the
  application close.
* `ChatSession`: every storage and provider call answers or fails, the server
  drives a stream it has started to its end or its cancellation, and the worker
  takes the next task. No fairness is put on the client; in particular none makes
  an abandoned response start.
* `OperatorCommands`: a command's process runs on (its waits have deadlines, which
  are steps of it); the containers and the backend's tasks, which it waits for, do
  so too. Of an evaluation each process runs on and each deadline passes (weak
  fairness); the kernel grants a lock that is free again and again to one who asks
  for it (strong fairness of `TakeLock`: the code polls it without blocking). The
  gate's lock needs no strong fairness: a stranger comes once in each turn.
* `WizardSave` and `BackendParts` have no liveness property: they are
  finite sequences of calls.

### Disagreements found

1. `task_queue_dead_worker`: `close()` says it drains all accepted work
   (task_queue.py:200), but joins a queue whose worker has died (line 206). When
   work raised `CancelledError`, the tasks behind it are never taken unless the
   user enqueues again, which a closing queue refuses: `close()` does not return.
2. `chat_abandoned`: the lease is taken before the response exists
   (chat.py:315) and released by the `finally` of its generator (568-573). A
   response cancelled before its first iteration never enters the generator; the
   session answers `SESSION_ACTIVE` to every later deletion.
3. `wizard_maps_first_use`: two requests that are the first of a user and collection
   can make two document maps; a wizard written to the one that is replaced is
   lost, against BACKEND.md:88 ("one authoritative map instance").
4. `corpus_retry`: the deletion of a saved document of an abandoned replacement does not
   first record that its chunks may be incomplete (wizard_diagnostic_api.py:2349).
   A run that stops between two batches of it leaves a storage every later run refuses,
   against the comment at line 1373 ("Rediscover survivors on every retry").
   `RefusedOnlyAfterPartialDeletion` shows that this is the only such case.
5. `deployment_off`: `down` ignores a funnel it could not disable
   (ragctl.py:1128) and an application it could not stop when the listing fails (1182), and
   reports "RAG is off", against README.md:30.
6. `trace_stale_handle`: a worker of the queue that was made by an evaluated chat keeps its
   handle (task_queue.py:120). A save of the user, which is not traced then, runs under it and
   `set_mapping_digest` (diagnostics.py:1067-1077) writes into the operation of the chat, also
   when that has succeeded and its evidence can be read; evaluation/README.md:113 promises
   "a request-scoped evidence session". `EvidenceSealed` states what does stay, and
   `TracesTruthful` that all else a session holds is its own, or was recorded
   under a handle that was lent.

Met while modelling, and not against any text: a rebuild killed between the deletion and
the creation of a collection, followed by a new user who reaches a backend started meanwhile,
leaves a storage that export and rebuild both refuse (the guide asks that the API stay
stopped, deployment/README.md:126-128; nothing enforces it, so `CollectionsSafe` assumes it). A long
run of whitespace can make a chunk that is blank, which a save refuses, and a modified union of
whitespace only has no paragraph: both fail the save after compensation. When one of the two
endpoint validations fails the other still runs while its client is closed
(runtime_app.py:264). The gate reads the identity of the container once in a block
(non_regression_gate.py:1200, 1226) and compares identities of containers only, although each sample
carries the worker that answered it: a container replaced within a block is not noticed.
`SamplesMeasured` compares what holds nevertheless, the workers of the two halves of a pair.
A judge request that fails, or that ends before the compared request starts, refuses the whole
collection.

## 4. What is proved

Every theorem holds for all values of the constants that satisfy the named
assumptions of its modules; sets of users, sessions, documents and requests may be
infinite. The proof modules EXTEND the module they are about. TLC checked each inductive
invariant on a small instance before it was proved.

| Module | Theorem | Statement |
|---|---|---|
| `TaskQueueProofs` | `TypeCorrect`, `InvCorrect` | `Spec => []TypeOK`, `Spec => []Inv` |
| | `Serial`, `RecordsKept` | `[]SerialPerUser`, `[]PendingRecordsKept` |
| | `History`, `Drained` | `[]HistoryExact`, `[]DrainedWhenClosed` |
| | `QuietAfterClose` | `NothingBeginsAfterClose` |
| | `ImplementsSerialFifo` | the refinement of `SerialFifo` |
| `ChatSessionProofs` | `TypeCorrect` | `Spec => []TypeOK` |
| | `Exclusive`, `CompleteSnapshot` | `[]ReservationExclusive`, `[]SnapshotCoversHistory` |
| | `NoOrphans`, `WorkHasSession` | `[]NoOrphanSegments`, `[]WorkFindsSession` |
| | `DeletesOwnSegments`, `TitlesAdvance` | `SegmentsLeaveReserved`, `TitleAdvances` |
| `WizardSaveProofs` | `WizardInvariant` | `Spec => []WInv` |
| | `MapsAlwaysAgree`, `AlwaysRecoverable` | `[]MapsAgree`, `[]Recoverable` |
| | `DamageAlwaysReported` | `[]DamageReported` |
| | `WizardsAreAtomic` | the refinement of `AtomicWizards` |
| `RagProofs` | `EditsAlwaysAligned` | `EditSpec => []AlignmentExact` |
| | `ChunksAlwaysSound` | `ChunksSpec => []ChunksSound` |
| | `QuarantineAlwaysExact`, `ReasonsAlwaysExplain` | `RetSpec => []QuarantineExact`, `[]ReasonsExplain` |
| `BackendProofs` | `ResourcesAlwaysClosed` | `LifecycleSpec => []ResourcesClosed` |
| | `CollectionsAlwaysSafe` | `CollectionsSpec => []CollectionsSafe` |
| | `AnswerAlwaysWhole` | `StreamSpec => []AnswerWhole` |
| | `WeakestAlwaysGivenUp` | `PromptSpec => []WeakestGivenUp` |
| | `TracesAlwaysTruthful`, `EvidenceStaysSealed` | `TraceSpec => []TracesTruthful`, `EvidenceSealed` |
| | `AccessorsReturnMaps`, `WarmMapsKeepWizards` | `MapsSpec => []MapsTypeOK`, `[]FoundWhenWarm` |
| | `RankingAlwaysSound`, `ContextAlwaysSound` | `RetSpec => []RankingSound`, `[]ContextSound` |
| | `PartsAlwaysSound` | all of these and those of `RagProofs` (the first two as `TextPreserved`), for `PartsSpec` |
| `OperatorProofs` | `CorpusAlwaysSafe`, `SuccessAlwaysInstalled` | `OperatorSpec => []CorpusSafe`, `[]SucceededMeansInstalled` |
| | `PromotionAlwaysTracks` | `PromotionKeepsTrack` |
| | `OneEvaluationAlways` | `[]OneEvaluationAtATime` |
| | `JobsAlwaysSound` | `[](NothingRunsOn /\ CancelNotLost /\ SuccessIsTheVerdict)` |
| | `NothingEverLeftBehind` | `[]NothingLeftBehind` |
| | `ReportAlwaysFaithful` | `[]ReportFaithful` |
| | `VerdictsAlwaysTrue` | `[](SucceededMeansAll /\ ReadyMeansDeployed /\ OffWhenListed /\ ResultIsTheScores /\ PassedMeansCompared)` |

`SequenceLemmas` holds what these share: every set of naturals has a least element
(`LeastNatural`), the unfolding of `FlattenSeq`, slices, bounds of sets of offsets. A
statement about all positions of a sequence is proved by taking the least position
at which it fails.

### The queue (`CapAssumption`, `DeathsAssumption`, `NoUserAssumption`)

The inductive invariant `Inv` is the conjunction of

* `TypeOK`;
* `RecordsInv`: a queued identifier has a queued record of its user, is queued
  once and has not finished; an executing one has a running record;
* `AccountedInv`: an issued task is finished, executing or queued. Without it a
  drained queue would not imply finished tasks;
* `HistoryExact`: eviction removes only what the history lists, and the history
  lists only terminal records, so no pending record is evicted;
* `WorkersInv`: a live worker is idle or executes exactly one task, a dead one
  neither. This is what makes a revived worker the only one;
* `CloseInv`: after `accepting` is false, a queue whose join returned stays empty;
* `LogInv`: what was accepted is what began followed by what is queued, which is
  the refinement of `SerialFifo`.

`SerialPerUser`, `PendingRecordsKept` and `DrainedWhenClosed` follow from it and
are not inductive alone. Each step lemma has one case per action.

### The chats (`SegmentsAssumption`, `NamesAssumption`)

The inductive invariant `AllInv` has three layers, each of which needs the ones
before it:

* `TypeInv`: the types, and that nothing is persisted before its stream answered;
* `ReservationInv`: `Owned` (a stream that has not ended holds its lease, a lease's
  session exists, work to remove a session exists only for an accepted request,
  and reservations are exclusive) and `Recorded` (what is persisted is recorded
  while its session exists, so a snapshot is complete);
* `OrderInv`: `FifoInv` (along the log the phases are ended, at most one running,
  then queued), `Before` (what a session had accepted precedes its deletion in
  the log), `Belongs` (records and snapshots are of their own session), `Found`
  and `Stored`.

The argument for `NoOrphanSegments`: a reservation excludes leases, so no answer
is accepted while a deletion is in flight, and everything accepted before comes
earlier in the log (`Before`). When the deletion runs, `FifoInv` makes it the only
work running and everything earlier has ended (`RemovalAlone`). The dry run then
found no segment of the snapshot, which names every conversation of the session,
and nothing can insert one before the commit.

`TitlesAdvance` needs `TitleInv` in addition: a generated title is of a beginning of its
session's transcript, and so is a draft under way, which is not of a shorter one
than the title it replaces. The second half is inductive because `FifoInv` lets only
one title task of the user run, and transcripts only grow.

### The wizards (`BoundsAssumption`, `NamesAssumption`, `AbsenceAssumption`)

`AbsenceAssumption` says that `None` is not a document and that a missing object is not a
record; the model's values are written that way. `WInv` follows an operation
through its stages:

* `TypeInv`, `LifeInv` (what the maps hold follows from how far the creation
  of the document is: no step of an operation but its last writes a map), `OpInv`;
* `ApartInv`, `OwnedInv`: no chunk is in two places, and its object, wherever it is, is
  an object of its document. Without them a repair of one document could
  change another;
* `SnapInv`, `MarkedInv`, `PlanInv`: the snapshot holds the objects of the marked paragraphs
  as they were, and new chunks are in no map and in the storage only once attempted;
* `DamageInv`: what is out of place was so before the operation, was given up, or is still
  to be restored by the stages that follow. This is `Recoverable` made inductive;
* `ForwardInv`, `ForgetInv`: until something fails the storage is known exactly, chunk
  by chunk; at the commit it is what the new maps say. This is why a commit needs
  no report;
* `ReportInv`: `DamageReported`, and only documents that exist are named.

The refinement maps every step but the last of an operation to a stutter, the
commit, the forgetting and the failing report to the atomic step they stand for.

### Alignment and chunks (`EditBounds`, `ChunkingOrdered`)

`EditInv` says that the borders increase, the opcodes tile both texts and two equal
ones never meet. The argument of `EditsAlwaysAligned`: a paragraph that no opcode
marks and no hint names lies inside one equal opcode (`HomeFound`), so its text is a slice of
the current one (`KeptText`). `Edge` says where each border that has such a
paragraph beside it lies in the current text, and a union begins and ends at the edges of its
neighbours. Every piece of the reconstruction is then a slice that begins
where the one before it ends, and by `FlattenSlices` they are the text. So
`_align_unions` never refuses, for texts, edits and hints of any size.

`ChunksInv` adds to `ChunksSound` that the text before the merging index is settled: a chunk
there is large enough or no neighbour can take it (`Settled`). A merge goes back one chunk, so
that the chunk beside the larger one is looked at again; for those further back nothing changed.
`ChunkingOrdered` (`0 < MinTokens <= TargetTokens <= MaxTokens`) is what the configuration
checks of itself (model_config.py:158-161).

### The retrieval (`RetrievalBounds`)

`RetInv` states what each stage of a call has established:

* at `reranking`, `QuarantineExact`. `QuarantineKeeps` follows the fold over the response row by
  row: what was accepted so far is exactly what no row read so far taints. Both folds, of the
  storage client and of the retriever, are the same one with a different notion of a malformed
  row, and a conversation that a later row taints takes its earlier segments with it;
* from `hydrating` on, `RankInv`: each ranking holds each candidate once, in descending order,
  the eligible ones are those above the floor, and the pool is a beginning of them that ends
  between two scores (`CutOff`). Without the second, `OneBestSegment` could be true of a
  ranking the next stage reorders;
* at `done`, `ContextInv`: the hydrated pool is what the second read left of the adaptive one, in
  its order (`Confirmed`); the selected are members of it, each once and led by its
  first, as many as there are or as are wanted (`Selection`); the context is the
  longest beginning of these that fits (`LongestFitting`).

`SearchKeeps`, `RerankKeeps` and `HydrateKeeps` are its three steps. A ranking by score and
then by identifier exists because the set is finite: `Ranked` gives the place n to the
candidate with n - 1 better ones, and that there is exactly one is proved by counting.
The recursive functions (`AtPlaces`, `SearchResults`, `ContextTokens`, MMR's loop) are unfolded
with the lemmas of `SequenceLemmas` on recursion over the naturals.

### The parts of the backend (`CollectionsAssumption`, `PromptBudgets`, `TraceLimits`)

* `LifecycleInv` states for each phase which prefix of the factories was made, which checks
  passed and which prefix of the shutdown chain, or suffix of what was made, is closed.
* `CollectionsInv`: a request that saw a collection ready is right as long as the backend
  runs, because only a rebuild unmakes readiness and it needs the backend stopped; while a
  rebuild is unfinished no object is left that it could lose.
* `StreamInv`: while an attempt streams, what was delivered is what its lines yield;
  a retry needs `delivered = <<>>`.
* `PromptInv`: the contexts are beginnings of the given ones, shortened in the order of `GoesFirst`.
* `TraceInv`: a request has a handle only of a session that was started, and strays only if a
  worker was made under it (`HandleSound`); a session
  that is active has exactly the operations whose handles are out, with every observation made
  unless it was faulted (`SessionSound`); and work runs, looks and records under its own handle
  or a lent one, in an evaluation never for an operation that has succeeded (`WorkSound`).
  Without the last, a record between the end of an evaluation request and the reading of its evidence
  could not be excluded. Of a step, `SealedStep` says what `EvidenceSealed` asks: it is
  shown from which sessions an action faults (`OnlyFaults`) and which operations it spares (`Spared`).
* `FoundInv`, with the types of `WizardMaps`: once the wizard maps exist they are the registered ones,
  and every written wizard is found in them.
* `PartsInv` is the conjunction. `PartsKeep` shows that a step of one part
  is a stutter of the others, so the theorems hold for what the run checks. The
  initial state of a part that is not chosen satisfies its invariant too.

### The operator's commands (`GenerationsAssumption`, `ChunksAssumption`, `FaultsAssumption`, `QueriesAssumption`, `GateBounds`)

The theorems are about `OperatorSpec`, which the run checks: `OperatorSteps` shows that a step of
any command is a step of each command's next-state relation or leaves its variables alone.
`OperatorInv` is the conjunction of these inductive invariants.

For the corpus, `CorpusInv` relates the record on disk, the chunks in the storage, the save task
of the backend and the place of the client:

* `LedgerInv`: what `load_corpus_state` asks of the record. Generations are numbered by the run
  that began them, so that the pending one is newer than the active one, and the documents listed
  for cleanup are older: this is why no document is in two places of the record;
* `StorageInv`: the active generation holds exactly its recorded chunks; a
  document of the pending one whose save was not submitted holds none; a document listed for cleanup holds
  at most what is listed; and nothing else is stored. It lets the storage fall short of the
  record, since a deletion in batches may stop anywhere, and never go beyond it;
* `SaveInv`: the save that runs is of a document whose submission was recorded first, and the
  client does not retire that generation meanwhile. Without it a task that outlives its
  client, which may be killed, could store chunks of a document that the next run has already removed from the record;
* `StageInv`: what the client has established where it is, for instance that nothing is left to clean
  up when a replacement begins, and that the stored documents were compared before `promote`;
* `OutcomeInv`: who says passed has the corpus of its fixtures installed.

`CorpusKeeps` has one lemma for each action. `RefusalExplained` derives from `StorageInv` that
a refused cleanup means a partial deletion, and `PromotionTracks` that only `Promote` changes the
active generation.

For the evaluations, `JobSound` is about one job: a worker is published after it is spawned, a
supervisor has a group only while it supervises unless it was killed, and a success has
nobody left to change its verdict. `JobInv` adds that no two jobs hold the lock. A job holds
it as long as any of its processes has the inherited descriptor, which is why
a killed supervisor does not let a second evaluation in.

For the batch, `E2EInv` relates the rows to the queries that were sent:

* `RowsPlaced`: the rows are those of the queries before this one, in their order; an aborted batch
  may miss the one of its last query (`OneMissing`), which `write_dataset_report` then adds. This
  is what makes one row for each query;
* `AttemptTrue`: the attempt says whether its query was posted, and how far it came. A query
  that was posted when the batch was aborted, without a row, is `lost`: its row says not attempted;
* `RowsTrue`: a row says what its attempt said, and after a systemic failure none is posted;
* `TraceHeld`, `ChatsKnown`: the only trace session is the one the client knows, and a chat session
  it knows of is pending, deleted or reported. Both hold through an abort, since the cleanup
  of the `finally` clause reads the same variables;
* `FaultsTold`: until something failed nothing was lost, and a chat session nobody learned of has
  made its query fail. `SucceededMeansAll` needs it.

For the deployment, `DepInv` says of each place of `up` what is on (`DeployedSoFar`), and of each
place of `down` that what is on is still to be stopped or could not be (`StoppedSoFar`).
`ScoreInv` says of each scoring which file it made: the result file is of the run that
linked it, and that run goes on only to remove its temporary file. `GateInv` follows the
configuration, the donor, the runtime and the lock through the collection; `SampleInv` what it
measures:

* `LogInv` is about the events of a pair, in the order in which they happened. Only the evaluation that has the
  lock judges (`LockLog`), the donor's judge requests start once and end at most once, and only the last
  of them may be under way (`DonorLog`), and the requests are where the collector
  is (`PairLog`). Nobody judges while the collector has the lock, which it took before the request beside none;
  so that request is undisturbed until it is done (`BaseRow`). A request between the start and the
  end of a judge request has nothing but that request's own events to look at, so it is beside it
  (`BesideJudge`): this is where it matters that an end is of the last start;
* `RowsInv` is about the samples. The blocks of the crossover that are over are complete, each on a later worker than the
  one before (`CrossSamples`), although a restart may split a block between two; so the partner of a sample, of the
  same query in the other block of its pair, exists and is of another worker (`CrossMeasured`).
  A pair leaves one sample of each kind for its query (`PairSamples`).

For the scratch script, `ScratchInv` adds to the types that the client knows the wizards in the order of
their creation, and that each it learned of is still known, reported or gone (`EachCleaned`).

### Only model-checked

* Liveness (`DiligentTasksEnd`, `CloseDrainsWhenWorkEnds`, `LeaseEnds`, `ReservationEnds`,
  `EveryCommandEnds`): out of the prover's reach.
* Of `VerdictIsTrue`, `PassMeansSound` and `NoFalseAlarm` (the scratch script against each defect);
  its other conjuncts are those of `VerdictsAlwaysTrue`, `SuccessAlwaysInstalled` and `JobsAlwaysSound`.

## 5. What is not modelled, and why

Behaviour left out of a modelled part:

* Reads that change nothing (`get`, `wait`, lists, search, status, verify).
* Cancellation of the queue's workers: it happens when the event loop itself
  stops, after which no state is left. A process crash during a save
  (save.py:507): the maps are lost and the documents disclaim it.
* Requests in flight: a storage call that failed has taken effect before the
  next call, or never. A create call or an insertion that lands after its caller
  gave up is therefore absent (in `UserCollections` and `WizardSave`).
* A title task that read its transcript before a `PATCH` of the title overwrites the user's
  title (chat.py:461). Both steps are in `ChatSession`; the documents promise nothing
  about it, so no property does.
* The synchronous `ChatRegistry.delete_session`, `ParagraphMap.set_chunks` and
  `delete_paragraph`, which no handler calls.
* A save of a wizard whose `create_wizard` is still between its two map writes:
  its id is only known to a client that lists in that instant.
* `up` or `down` beside a diagnosis; and the certificate of HAProxy and its key, which are
  replaced in two steps, seen by a HAProxy that restarts in between (ragctl.py:427).
* A supervisor and its admitted child that both die (evaluation_bridge_worker.py:33):
  the evaluator is left without anyone to stop it (`Unsupervised`), and `EveryCommandEnds`
  excludes it.
* Traces: the roles of related tasks, the checkpoint of the maps, and the kinds of
  observation that are stored as a sample is.
* The placeholder for an empty context is counted, but no property says that
  giving up the last item makes the prompt shorter: it need not.
* Vectors, prompts, texts, configuration values; the semantic units and their
  similarities (regular expressions and vectors) are inputs.

Parts left out:

* Of the evaluation: the scores, the bound on the change of the medians
  (`paired_latency_gate`), the digests of `preflight` and the `verify` command, which repeats
  the validations on stored files. Manifests and benchmarks: straight-line programs
  whose result is a number or a file.
* The ONNX sessions and the numerical code: libraries and arithmetic on reals.
* Routes, schemas, middleware, images, GPUs and command lines: declarations.
* Telemetry and the development page: they observe.

## 6. Plan

The plan's modelling is done, and every invariant that a run checks is a theorem but for
the two conjuncts above. What is left is to prove them.
