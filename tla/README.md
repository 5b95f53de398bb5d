# A TLA+ model of lore

lore is a gateway between a coding agent and its model provider. It records
every conversation in SQLite, distills old messages into short observations,
curates long-term knowledge from them, and rewrites each request so that it
fits the context window and keeps the provider's prompt cache warm. All of it
runs in one event loop: what makes it hard is not threads but `await`. Every
call to a model splits its function in two, and everything else may happen in
between. The models here keep each `await` as a step boundary, and what a
function read before the boundary stays in its own record.

## 1. Inventory

Paths are below `packages/`.

| Component | State it keeps | Operations | What makes it hard | Modules |
|---|---|---|---|---|
| Temporal store and distillation: `core/src/temporal.ts`, `distillation.ts`, `session-limiter.ts`, `data.ts` | tables `temporal_messages` and `distillations`, a p-limit(1) per session | `store`, `run`, `metaDistill`, `prune`, the user's deletions | await inside a run, stale locals, process death, two-stage compression with archiving, retention | `Distillation`, `DistillationProofs` |
| Batch queue: `gateway/src/batch-queue.ts` | queue, inflight batches, disabled sessions (also in `kv_meta`) | `prompt`, `flush`, `submitBatch`, `pollBatch`, `fallbackAll`, `shutdown` | overlapping flushes and polls, abandoned promises, shutdown in the middle | `BatchQueue`, `PromptService`, `BatchQueueProofs` |
| Background limiter and model adapter: `gateway/src/background-limiter.ts`, `llm-adapter.ts` | p-limit(2), circuit breaker, retry loops | `runBackground`, `tripCircuitBreaker`, `isBackgroundPaused`, `prompt` | a breaker that trips with tasks already queued, concurrent 429s, retries without end | `BackgroundLimiter`, `BackgroundProofs` |
| Long-term memory and its file: `core/src/ltm.ts`, `agents-file.ts`, the operations of `curator.ts`, `pattern-extract.ts` | `knowledge`, `knowledge_refs`, `.lore.md`, the cache of its hash | create, update, remove, sweep, consolidate, prune, import, export | three duplicate guards, answers about entries that changed meanwhile, a file that users and git edit | `Knowledge`, `LoreFile`, `BackgroundProofs` |
| Curation triggers and idle scheduler: `core/src/curator.ts`, `gateway/src/idle.ts`, parts of `pipeline.ts` | turn counts, marks, one run per session, the set of idle handlers | `scheduleBackgroundWork`, idle tick and handler, `/lore:curate`, `curator.run` | messages that arrive while the model answers, skipped triggers, restarts | `Curation`, `BackgroundProofs` |
| Gradient transform: `core/src/gradient.ts`, the turn of `gateway/src/pipeline.ts` | per session: layer, calibration, snapshot, prefix and pin caches, one-shot flags, partly persisted; shared: limits, prices, overhead | `transform`, `calibrate`, `onIdleResume`, overflow recovery, the 30 s flush | caches of one turn used in the next, a mode that depends on the history of turns, restarts | `Window`, `Gradient`, `GradientHistory`, `GradientProofs` |
| Session identity: `gateway/src/session.ts`, `identifySession` and its callers in `pipeline.ts` | sessions in memory, `headerSessionIndex`, learned header values, `session_state` | `identifySession`, `getOrCreateSession`, `learnHeaders`, header migration and rotation, restart | requests that overlap between awaits, guesses from a changed header, what of the index survives a restart | `SessionIdentity`, `RequestProofs` |
| Recall, streams and formats: `gateway/src/recall.ts`, `stream/*`, `translate/*`, `temporal-adapter.ts`, the turn of `pipeline.ts` | `recallStore`, the accumulator of a stream, the client's copy of the conversation | expand, clean up, accumulate, execute a recall, follow up, record | a call hidden behind a marker and restored turns later, hang-ups and refused follow-ups in one client stream, three wire formats | `Conversation`, `RecallTurn`, `RequestProofs` |
| Embeddings: `core/src/embedding.ts`, `embedding-worker.ts` | worker queue and model, `pendingRequests`, the provider, vectors, the stored configuration | `embed`, `ensureWorker`, `runStartupBackfill`, `checkConfigChange`, the worker's messages | a thread that dies or cannot load its model, a fallback to a remote provider, a backfill that reads before it awaits, a change of model | `EmbeddingWorker`, `Embeddings`, `EmbeddingProofs` |
| Cache warmer: `gateway/src/cache-warmer.ts`, `idle.ts`, its bookkeeping in `pipeline.ts` | per session: request body, counters, flags; the circuit breaker; both partly in tables | poll, `shouldWarm`, `executeWarmup`, turns, `/lore:warm:*`, restart | a warm-up that answers after turns, commands or a restart; three decision paths; a breaker that must outlive the process | `CacheWarmer`, `CacheWarmerProofs` |
| Database and projects: `core/src/db.ts`, `git.ts`, `data.ts` | schema version and objects; `projects`, `project_path_aliases`, the project of every row | `db`, `migrate`, `ensureProject`, merge, clear, delete, backfill | statements without a transaction, several processes of several releases, directories of one repository, remotes that are known late | `Database`, `Projects`, `Machine`, `MachineProofs` |
| Conversation import: `core/src/import/*`, `gateway/src/cli/import.ts`, `import-auto.ts` | `import_history`, `last_import_at` | detect, compare, ask, extract, record | a conversation that grows while the user and the model answer; a project that is merged or deleted meanwhile | `ConversationImport`, `Machine`, `MachineProofs` |
| Everything else | see `PROJECT.json`, `components` | | | not modelled |

Components meet in three ways: they share the SQLite tables; they call
`LLMClient.prompt`, whose implementation is the adapter wrapped by the batch
queue; and the pipeline and the idle scheduler start distillation, curation and
warm-ups through the background limiter.

`PROJECT.json` lists under `hazards` where this goes wrong if it goes wrong, each
at its line, with the properties that would notice. Hazards without a property
say why.

## 2. How the modules fit together

```
PromptService  <--implements--  BatchQueue        "one answer per call"
                                    |
        Distillation, Knowledge, Curation: "the prompt is answered, or not"
                                    |
                             BackgroundLimiter     who may call, and when

LoreFile  --extends-->  Knowledge                  entries and their file
Curation   abstracts Distillation (marks, rows) and Knowledge (what is applied)

GradientHistory  --extends-->  Gradient  --extends-->  Window
Gradient   abstracts Distillation (rows come, are consolidated, are deleted)

SessionIdentity   which session            a request, step by step
       |
RecallTurn  --extends-->  Conversation      what is sent, shown and recorded
       |            abstracts Gradient     (any window of the conversation)
CacheWarmer   abstracts RecallTurn         (a turn begins, is answered, fails)

Embeddings  --extends-->  EmbeddingWorker  the thread; the main thread and tables

Machine  --extends-->  ConversationImport  --extends-->  Projects  --extends-->  Database
                                           processes that share one database file
```

- The workers' modules treat a prompt as one step that sends and one that
  receives an answer or none. That they may do so is what `PromptService` states
  and `BatchQueue` is shown to implement.
- `LoreFile` extends `Knowledge`: every action of the entries is an action of the
  composition, and the file's actions read and change the same entries.
- `Curation` keeps of the other two what its decisions read: how many messages
  are undistilled, and what distillations after the mark cover.
- `Gradient` extends `Window`, which holds the pure choice of messages. Of the
  distillations it keeps the rows of the prefix, which steps of their own add,
  merge and delete between any two steps of a turn.
- `RecallTurn` extends `Conversation`, which holds the pure operations on
  messages: markers, expansion, clean-up, follow-ups, the wire formats. Of the
  gradient it keeps that some front of the conversation may be missing.
- `Embeddings` composes the main thread with the worker thread of
  `EmbeddingWorker`; the two share only the inbox and the outbox.
- `Machine` composes `Database`, `Projects` and `ConversationImport`: a process works
  with projects and imports only while `conn` says that it has the database open. It is
  the one place where several processes of lore meet; the other modules are about one.
  `Machine` implements `Database` (`MachineProofs`), so that the schema needs one proof.
- `GradientHistory` adds a history variable, for properties about the past. It
  changes no behaviour.
- `MC*` modules give constants values for TLC. `*Proofs` modules hold theorems.

## 3. Modules and code

### Distillation

| Model | Code |
|---|---|
| `stored`, `owner`, `at`, `distilled` | the columns of `temporal_messages` |
| `rows` | `distillations`: id, session, generation, `source_ids`, `archived` |
| `queue` | what waits in the session's p-limit(1) |
| `job[c]` | the locals of one call of `run` or `metaDistill`: its arguments, the messages it has yet to segment (`todo`), the segment (`seg`) or rows (`merge`) with the model, the generation it anchors to, its round |
| `Store` | `temporal.store`, an upsert by id |
| `Submit`, `StartRun`, `StartMeta` | the limiter: a call waits, then starts with `resetOrphans` and reads what is pending |
| `TinySegment`, `SendSegment`, `SegmentFailed`, `SegmentExpanded`, `SegmentStored` | `distillSegment` before and after its await, the transaction of insert and mark, and each way not to insert |
| `SendMeta`, `MetaFailed`, `MetaStored`, `RoundMeta`, `EndRound` | `metaDistill` around its await; the rounds of `runInner` |
| `Prune`, `Edit`, `Crash`, `Restart` | `temporal.prune`, `data.ts`, the death of the process and its start |

Segments are arbitrary prefixes that respect order, which covers every outcome
of the token arithmetic; texts, observations and priorities are left out.

### BatchQueue

Each run of `flush`, `pollBatch` and `shutdown` is a task with the locals that
outlive its awaits: the groups `flush` has yet to take (`left`), the items it is
submitting (`items`), what `fallbackAll` has yet to send (`rest`) and awaits
(`running`), and the batch a poll is about (`bid`). `promise` is the promise each
caller holds. `requests[b]` is shared: everyone who holds the batch sees its
`delete`s, as in the code. Item contents and wire formats are left out.

### BackgroundLimiter

Deadlines are kept as the time that is left, in minutes; `Tick` is a minute.
`Start` and `Submit` are the two places where `runBackground` asks the breaker,
and asking is `isBackgroundPaused`, which resets the escalation when a pause has
run out. `task[t]` is the retry loop of the adapter's `prompt`.

### Knowledge and LoreFile

`entry` is the `knowledge` table, `ref` the table of cross references, and
`curation[s]`, `trim[s]` the entries that an awaiting `run` or `consolidate` of
session s has read. `ApplyOps` applies the answer's operations to the table one after
another, each with the duplicate guards of `ltm.create`. The greedy clustering of the
sweep is stated by its result: `Centres` are the entries that no earlier centre has
claimed, those with more neighbours and then more confidence first, and each has its `Star`. The answer is any sequence of the
configured `Answers` that names entries it was shown. `LoreFile` adds the file,
the cached hash and whether the mtime changed. Scores and embeddings are a
nondeterministic "these are alike".

### Curation

`ses[s]` is the session's `SessionState` and its rows; `turns` is in memory and
`saved` in the table. `cur[s]` are the runs that await the model, with what they
read before. `queued`, `idle` and `command` are who waits for whom: triggers in
`runBackground`, the idle handler, a `/lore:curate`.

### Window and Gradient

| Model | Code |
|---|---|
| `limits`, `costs`, `overhead` | `contextLimit` and `outputReserved`, the layer-0 cap and cache prices (each stays that of an earlier model when a model has none), `calibratedOverhead`: module-level, shared by all sessions |
| `ses[s]` | `SessionState` of gradient.ts, or `NoState` before `getSessionState` made one |
| `saved[s]`, `dirty` | the columns of `session_state` that restore it, the sessions the next tick saves |
| `rows[s]` | the unarchived distillations, in order |
| `conv[s]`, `req[r]` | what the client holds; the turn under way with the conversation it was sent |
| `Arrive` | `handleConversationTurn` up to its await of long-term memory: limits, prices, idle resume |
| `Transform` | `setLtmTokens` and `transform` as one step, with the layer decision `LayerFor`, the window of `Window`, and every cache it leaves behind |
| `RefreshLtm` | the second scoring of long-term memory after layer 4 |
| `Answer`, `Fail`, `Overflow` | `postResponse`; an upstream error; `setForceMinLayer`, by a host that calls it |
| `Tick`, `IdleTime`, `Restart` | the flush, time, the death of the process |
| `Distil`, `Consolidate`, `DeleteRow` | what the other components do to the rows |

A message is a role, a size and what its output repeats; a conversation is a
sequence of them; an id is a position with its message, as `deterministicID` has
it. Token counts are small numbers; the percentages are those of the code. What
an answer counts beyond the estimate is free.

### Conversation and RecallTurn

| Model | Code |
|---|---|
| `conv` | the client's copy of the conversation, as the gateway parses it |
| `store` | `sessionState.recallStore`, by query |
| `req` | the messages sent to the provider last |
| `turn` | the request under way: what the accumulator has (`resp`, `blocks`, `suppressed`, `offset`), what the client saw (`shown`), what was recorded |
| the request's first action | `handleConversationTurn`: `expandRecallMarkers`, `cleanupRecallStore`, `stripContextWarnings`, `resolveToolResults`, any window, `loreMessagesToGateway`, `removeOrphanedToolResults` |
| one block of the reply | the accumulator's events for a block: passed on with its new index, or held back when it is a recall |
| the end of a stream, `RecallExecuted` | `buildStreamingResponse` and the non-streamed path: store, marker, follow-up, record |
| follow-ups answered, refused, unsent; hang-ups and broken streams | their error paths |
| what the client echoes | `ChatReply`, `StreamedItems`, `OutputItems` and the parsers: what each format keeps of a reply |

A text is a set of words; a call is a number; results are opaque. Usage and stop
reasons are left out, and a block's deltas are one event.

### SessionIdentity

`client` is what each client sends next, `index`, `sessions` and `values` are the
process's memory, `rows` the table. `request[r]` is a request between two awaits
of `initIfNeeded`, the fingerprint and `getOrCreateSession`. A header value is its
owner and a generation; a client that restarts changes its volatile headers, one
that is upgraded sends more of them, and a day without requests makes a session
too old to be resumed by rotation.

### EmbeddingWorker and Embeddings

`worker` is the thread: inbox, outbox, queue, the request being processed and
whether its model is loaded. `calls` are the `embed` calls in progress, waiting for
the worker's start, its answer or a remote provider. `rows` are the embedded rows
of the three tables, each with a text version and a vector that remembers its text
and model. `backfill` are the locals of the start-up backfill and of a reindex
request. One action is one event of the main thread with everything that runs
before it yields; a process that dies within the one that clears vectors leaves some
tables cleared (`CutShort` in `Restart`).

### CacheWarmer

`state[s]` has the fields of `SessionState` that `shouldWarm` reads; `flight` is
`warmupInProgress`; `table` is what survives a restart. `Poll` is a tick of the
idle scheduler: the breaker, the decision for each session with the marks it
leaves, and the flush. `WarmupAnswered` is the code after the await of
`executeWarmup`, and may come after any number of turns. `TurnBegins`, `TurnAnswered`,
`TurnFails`, `Compaction` and `WarmCommand` are the handlers in `pipeline.ts` that
touch the same fields. Time is counted in polls; whether the survival statistics
find a warm-up worth its cost, and survival low, is free at each poll.

### Database, Projects, ConversationImport and Machine

| Model | Code |
|---|---|
| `MIGRATIONS`, `V1`..`V26` | the 26 migrations of db.ts, each statement by what it does (create, add a column, fill, drop) and the object it leaves |
| `version`, `objects` | the row of `schema_version`; tables, indices, triggers, columns and finished backfills |
| `conn[p]` | a process's way through `db()`: the migration it is in, the statements it has left (`left`), whether it strips duplicate columns already (`again`), or `open`: it has its `instance` |
| `OpenDb` .. `AddColumn` | `migrate`, `stripAppliedAlters` and `recoverMissingObjects`, a statement at a time |
| `CloseDb`, `Stop` | `close()`, a lock or disk error in `db()`, the death of the process anywhere |
| `project`, `alias` | `projects`, `project_path_aliases` |
| `rows` | rows that name a project, with the directory they were stored for: `knowledge` without a foreign key, `message` for the tables that have one |
| `call[p]` | the locals of `ensureProject` or `backfillGitRemotes`, between two statements, and what the caller will do with the project (`next`) |
| `ByPath` .. `InsertProject` | the four lookups of `ensureProject`, the conflict of a remote that is known late, its merge |
| `BeginBackfill` .. `BackfillMerge` | `backfillGitRemotes`, which merges in the other direction |
| `StoreRow`, `ClearProject`, `DeleteProject` | what callers and `lore data` do |
| `said`, `shown` | messages of the other agent's conversation, and how many of them a model was asked about |
| `import[p]` | an import between its awaits; `auto` is the offer of `lore run` |
| `BeginImport` .. `ImportThrows` | `commandImport` and `maybeAutoImport` with `runBackgroundImport` |

Inside a process `ensureProject` is not interrupted, but every statement is a
transaction of its own, so each is a step between which other processes work. A merge
and a deletion are one step, as their transactions are. Git answers or does not, each
time it is asked. `alone` says that the processes of a behaviour take turns with the
database; two properties are about those behaviours only (section 7).

## 4. Runs

| Run | Question | Bounds, and why they are enough |
|---|---|---|
| `distill_chain` | do repeated consolidations, retention and crashes keep what the rows cover? | five message ids, four stores, consolidation at three rows: a first and a second consolidation, with archived rows between, both happen |
| `distill_calls` | do overlapping calls, shared ids, a deletion and crashes keep marks and rows in agreement, and is what waits distilled? | two calls are what a p-limit(1) tells apart; two sessions that store the same id; one deletion during an await |
| `batch_service` | is a call of the queue answered exactly once? | a queue of two with three calls: full, partial and empty flushes; two groups; two flushes and two polls at once; one restart |
| `limiter` | do slots, attempts and pauses keep their limits, and does every task return? | three tasks for two slots, so that one waits while the breaker trips; a call outside the limiter and an urgent one; a schedule of two entries, so that it escalates and saturates |
| `knowledge` | is an entry deleted or merged only by right, and do file and table settle? | three ids, two projects, one hand-written row, one edit: imports of new, known and foreign rows all occur |
| `curation` | is nothing read twice and no quiet session forgotten? | three turns with a threshold of two, one fault (a pause, an error or a restart), one command: each pair of the three triggers overlaps |
| `gradient` | does what a turn decides from the caches of earlier turns still fit, and still hold the conversation? | one session, one request at a time, one model with an input limit of 30; three requests, from a conversation of five messages to one of nine, two rows: all five layers, a pin kept and given up, a prefix appended to and rendered anew, stripping at layers 2 and 3 occur |
| `recall` | do messages stay well-formed and complete through hidden recalls, and does each request end? | two requests: what the first leaves behind is sent with the second; two queries, replies with every mix of recall, other call, thought and text, a chain of two follow-ups, which is the limit; streamed and not, three provider formats, warnings due or not; each reply may break or be hung up on at every block |
| `sessions` | does a client keep its session, and only its own? | three clients (a volatile header, a stable one, none known), two requests at a time, since two first requests that overlap are the hazard; one restart or upgrade of a client, one restart of the gateway or day |
| `embeddings` | does every call get its answer, and does every vector belong where it is? | two entries and a distillation, two versions of a text, two configurations (one local, one remote), a fallback, one query or reindex, two restarts, so that the second may come while vectors of a replaced configuration are being cleared; batches of one and of two rows occur |
| `warmer` | is what warming counts and promises kept when warm-ups answer late? | a lifetime of three polls with a margin of one, twelve polls: four lifetimes, so that caps and cooldowns are reached; three requests, one command, one restart; one session, so that at most one warm-up is in flight when the breaker trips (the theorems hold for any number) |
| `machine` | is an open database complete, do no two projects share a known remote, and is nothing taken for imported unseen? | two processes whose releases know 22 and 21 migrations: the last of them add columns, at which both may collide, and rewrite rows; databases found at version 20, with what the repair adds missing, and at 26, from a newer release; three directories of one repository, two with projects made before git was asked, one an alias; two calls, so that a merge, a backfill, a deletion or an import overlaps another; a conversation that grows once. The two beginnings (migrations to run, or projects to merge) are checked side by side and not combined. The proofs are about all migrations and any number of processes |

The type invariants (`TypeOK`, `TypeOKFile`) are in the modules and hold in these
runs too; the configurations leave them out, and for Distillation, the limiter, the
curation and the warmer the proofs contain them. So do the proofs about the machine.

Every bound is a constant of its module marked "bound". Deadlock is not checked:
all these systems may stop, since clients need not ask and bounded inputs run out.

What the runs show, property by property:

- **Distillation.** No message is summarised by two rows (`NoDuplicateDistillation`)
  and what waits is covered by none (`NoCoveredPending`), through overlapping
  calls, crashes between send and receive, and deletions. Archiving never hides the
  only row of a message (`PrefixReachesAll`), and no step but a deletion or
  retention loses what rows cover (`CoverageNeverShrinks`). What is stored is
  distilled if a forced run finds it and the model answers (`EventuallyDistilled`).
- **Batch queue.** `NothingLost`, `OnePlace` and `ImplementsService`: `PromptService!Spec` as a
  property, with its liveness. That a session that lost its batch access keeps it lost
  (`DisabledForGood`) is proved only.
- **Limiter.** `PauseBounded`: concurrent refusals do not add up. `NoStartInPause`:
  a task that waited for its slot asks the breaker again. `TasksReturn` holds even
  if the provider refuses for ever.
- **Knowledge.** `SweepKeepsOne`, `ForeignNotDeleted` and `Settles`: with no more edits,
  exports and imports end with file and table in agreement. It does not say that no
  entry was made twice on the way.
- **Curation.** `NotReadTwice` and `QuietSessionCurated`.
- **Gradient.** `WindowFits`: a compressed request is within the limit of its
  model, by the calibrated or the guarded estimate, though a window was pinned under
  another overhead. `PrefixMatchesRows`: the text that grows by appending holds each row once,
  although it is checked by a count and an id only. `ForcedIsHonoured`: a forced
  layer is spent by a transform at that layer and by nothing else.
  `GrowingTurnIntact` and `NoBounce` hold for conversations that only grow; the
  first says that the turn in progress is neither evicted nor rewritten, the
  second that a session does not fall to a lower layer while it goes on with the answer
  and another message.

- **Recall.** `CallsAnswered`: in every request, first or follow-up and in each
  provider's format, each call is answered right behind it. `NothingLost`: what was
  said, and the calls the client saw, reach the provider again unless the window
  dropped them. `Contiguous`: the client's blocks are numbered without gaps over a reply and its
  continuations, but for a due warning that found no place. `TurnEnds`: each request ends.
- **Sessions.** `OneSession`: a conversation that is alone with its headers keeps
  one session while the gateway runs, through overlapping first requests, restarts
  of the client and upgrades, one of them between two requests. `Apart`: conversations meet only through a header, a
  first message or a client id they share, or through others that do.
  `StoredKeysLead`: a key in the table is found after a restart, and one of a known
  header leads to its own session.
- **Embeddings.** `NobodyStranded`: no call waits for an answer that cannot come, and
  no backfill for a call that is gone. `OneSpace`: once compared, vectors belong to
  the stored configuration, but for those of a fallback. `BackfillCovers`: a backfill
  without failures leaves no gap in what it found. `NewestWins`: a vector of an older
  text replaces a newer one only where the code allows it, in the backfill and
  with a remote provider.
- **Cache warmer.** `HitsBacked`: hits never outnumber warm-ups, so the hit rate that
  stops unprofitable sessions is one. `CyclesBounded`: between two answered turns a
  session pays for no more warm-ups than can be profitable, and one for each
  request in between that moved its clock. `BreakerStays`, `StopHolds`: after the
  breaker has tripped, or the user said stop, nothing is sent.
- **Machine.** `OpenIsComplete`: whichever processes of whichever releases ran which
  statements, and wherever they stopped, a process that has its database finds what
  its release needs; the completion rests on the duplicate column that is stripped, on
  `IF NOT EXISTS`, and on the repair. `OneProjectPerRemote`: while processes take turns,
  no two projects share a known remote, though git may answer late, a process may die
  between a merge and the update behind it, and the two merges go in opposite
  directions; directories for which git has not answered may have projects of their own.
  `RowsReachable`: the rows stored for a directory are those of the project it leads to. `NothingSkipped`:
  the hash recorded for an import never covers a message no model was shown.

`WindowFits` is checked with one model and `GrowingTurnIntact` for a conversation
that grows because they are false otherwise (section 7). Two overlapping requests
of a session keep the properties of the gradient up to seven messages; that
instance takes five minutes and is not among the runs.

### Fairness

Only progress that the runtime owes is fair. The event loop runs what is ready, a
request to a provider is answered or fails (fetches time out, the adapter's
retries are bounded), intervals fire, and time passes. So: the steps of a call in
`Distillation`; timers, answers and ageing in `BatchQueue` (strongly fair where a
timer needs a free task slot of the model, which the code does not bound); ticks,
slots and answers in `BackgroundLimiter`; the export of the idle handler and the
import of a changed file in `LoreFile`; ticks, handler steps, the end of a run and
the end of a pause in `Curation`; in `RecallTurn` the
end of what was begun: a reply goes on or breaks, a recall is executed, a follow-up is
answered or refused. The runs of sessions, embeddings, warmer and machine state no liveness
and assume no fairness; `NobodyStranded` is the safety core of "every call settles",
whose liveness over 1.8 million states exceeds the time of a run. Never fair: clients, users, git, retention,
crashes, a particular outcome of a call, or the completion of a batch.

## 5. Proofs

The theorems hold for every value of the constants under the modules' named
assumptions, which TLC evaluates in the runs.

| Module | Theorems | Inductive invariant |
|---|---|---|
| `DistillationProofs` | `TypeCorrect`, `NoDuplicates`, `MarksAgree`, `ArchivedStaysReachable`, `CoverageKept` | types; one active call per session; per call, what its stale locals still say of the tables (`CallInv`); the tables between them (`TablesInv`) |
| `BatchQueueProofs` | `NothingIsLost`, `StaysDisabled`, `IsInOnePlace`, `Refinement` | types; what a task holds follows from where it is (`Shape`); the drain runs only after shutdown; what is disabled was saved; every waiting call is somewhere; for `IsInOnePlace`, each call is owned at most once by tasks, batches and lists together (`SoleInv`) |
| `BackgroundProofs` | of the limiter: `LimiterTypeCorrect`, `PausesBounded`, `NoStartWhilePaused`; of `Curation`: `TypeCorrect`, `ReadOnce`; of `LoreFile`: `SweepKeepsOneAlways`, `ForeignSpared` | `LimiterTypeOK`, which holds the limits on slots and attempts; for `Curation`, types; one run per session; answered raw readings lie behind the mark and the one under way ahead of it; a turn in progress has room for its message; for `LoreFile`, `FileInv`: the rows of the table are well formed and among the ids given out (`EntriesInv`), and the files carry no other ids (`FilesInv`) |
| `CacheWarmerProofs` | `HitsAreBacked`, `TrippedBreakerStays`, `StopIsHeld`, `CyclesAreBounded` | types; hits and an outstanding warm-up are covered by the total, in memory and in the table; a breaker that tripped is tripped in the table and, once loaded, in memory; a stopped session has no body or is disabled and not kept warm; for `CyclesAreBounded`, `PaceInv`: what a session has paid for, with the warm-up in flight, leaves room for the one that the next window sends without a look at the count |
| `GradientProofs` | `ForcedHonoured` (and `LayerAtLeastForced` on the layer decision), `PrefixComplete`, `GrowingTurn`, `NoBouncing`, `WindowsFit` | `ForceInv`: the forced layer of a state in memory is the one in the table, and a request under way has such a state. `PrefixInv`: the ids of every list of rows rise, the rows of a snapshot that the table still has are all there, and a prefix stands for the rows of its snapshot. `TypedInv`: the quantities are numbers, the conversations well formed. `HistInv`: what a session remembers of its last window and answer is bounded by the conversations they were given in, and a pin of a conversation that only grew is at or before its turn. `FitsInv`: a pin is within the raw budget, a compressed request within the limit |
| `MachineProofs` | `DatabaseComplete`, `MachineImplementsDatabase`, `MachineComplete`, `MachineSkipsNothing`, `MachineOneProject`, `MachineRowsReachable` | for the first, `DbInv`: the schema of the version is there, but for what the repair adds; a process in a migration has everything before it and every statement it has no longer left, and one in the repair everything but what is left of it. For `MachineSkipsNothing`, `ImportInv`: the hash an import carries is not ahead of the conversation, from the model's call on it is not ahead of what was shown, and a call that records serves an import that got so far. For the last two, `AloneInv`: while one process was ever alone with the tables, what a call of `ensureProject` has read still holds when it writes |
| `EmbeddingProofs` | `EmbeddingsInvariant`, `NobodyIsStranded`, `OneSpaceHolds`, `BackfillsCover`, `NewestVectorWins` | types; what the provider knows of its worker (`Knows`); where each call's request is (`Waited`); a running backfill has the call of its batch, and what it found is stored or still to do (`BackfillInv`); what was checked is of the stored configuration (`SpaceInv`). For the last, `OrderInv`: among local calls, one that outdates another's text comes behind it, in the list of those that wait for the worker and everywhere at the worker; no id in use comes again; no text in use is newer than the row's; nothing newer is stored while a row's call is on its way |
| `RequestProofs` | of `SessionIdentity`: `TypeCorrect`, `KeysFound`, `SessionsApart`, `OneSessionEach`; of `RecallTurn`: `ShownContiguous` | for `SessionIdentity`, types, with whose key each filed one is (`TypeInv`); every key of the table is in the index, a known header's leads to its row, and no two rows share one (`LeadInv`); whoever may be led to a session, by what it used, by a request on its way, by the index, a key or a fingerprint, is of the session's group (`ApartInv`); of a conversation that is alone, the keys filed for it and which of their sessions are stale (`KeyInv`), and that the session it has in this period is in memory, not marked, and the one its next request is led to (`UseInv`); for `RecallTurn`, `TurnInv`: what a stream has shown is numbered and as long as the place its next block takes (`Place`) |

Why they need more than the property. `NoDuplicateDistillation` speaks of rows,
but a row is inserted from a segment read before an await: that the segment is
still uncovered then follows from the limiter (`Exclusive`) and from what other
steps may do to the tables meanwhile (`CallInv`). `NothingLost` must know that a
task which goes on with its next group has nobody left to answer: `Shape` says so
of every point in its code. `NotReadTwice` follows from the mark alone once the
run in progress is known to lie ahead of it, and that needs the limiter, because
another run would move the mark under it.

`PrefixReachesAll` speaks of the rows that are not archived, and a consolidation
archives by id rows it read before its await. It holds because the new row takes the
sources of all of them, and because retention removes a row only when a row that
stays has its sources; `CoverageNeverShrinks` is the same argument for one step.

`OnePlace` counts over tasks, batches and lists, so one step of a flush disturbs three
terms of a sum. `SoleInv` says instead that two places never own the same call; the
count follows from it once, at the end.

`ForcedIsHonoured` speaks of the table only, but the transform reads the copy in
memory; that the two agree through restores, flushes, idle resumes and restarts is
`ForceInv`, and that the decision does not fall below what it reads is
`LayerAtLeastForced`, through the maximum of three minima and the fallback to layer 4.

`PrefixMatchesRows`: the cache compares a count and the last row's id, though rows
before it may have been archived or deleted. It is enough because ids rise and a row that
has left the table does not return: a list as long as the old one up to that id, made
of rows the old one had, has the same ids (`ValidPrefix`, a bijection and two
cardinalities). That the text of a fresh prefix has each row once, consolidated rows
first, is `WholeText`.

`GrowingTurnIntact` covers every way to choose a window. A window of layers 1 to 3 is
moved forward to a user message, which does not cross the turn in progress because the
turn starts with one (`TurnStarts`, `TryFitWithin`); that it does is where roles
must alternate (`Alternates`, in the assumption on what clients send). The emergency
tail starts at the turn or before it (`EmergencyWithin`). A pinned window is an
offset from the end, kept across turns: in a conversation that only grows the
start of the turn moves forward only (`TurnAdvances`), so a pin that was at or
before it stays so (`PinHoldsTurn`), which is why `HistInv` speaks of the conversation
that a pin was made in.

`NoBounce` rests on a count. The sticky guard holds while the request is at least as
long as what is remembered of the last window and answer, and `HistInv` bounds that by
the length of the conversation they were given in, plus two. A request that adds the
answer and a message reaches it; one that adds a message alone may not, and nothing
is promised of it.

`WindowFits` of an uncalibrated session is what the stages check; of a calibrated one
it is a sum that nothing in the code checks: the rows shown are within the distilled
share of the stage, the window within the raw share, and both shares together within the
limit (`StageShare`). A pinned window may exceed its share by the margin that absorbs
drift, and is measured against the larger of two budgets: the present one and the one it
was pinned under. With one limit both are at most 40 per cent of it (`PinSmall`), with the margin 46,
and the distilled share takes 25 (`WindowWeighs`). The hypothesis `OneLimit` is needed: with two
limits the old budget may be that of a larger model, and the statement is false
(section 7).

A warm-up's answer may come after the turn that reset its counters, so `HitsBacked`
alone is not inductive: a second hit could be counted for a warm-up already used.
What a warm-up not yet used is worth (`lastWarmupAt # 0`) is part of the sum, and a
restart brings back an older pair of the same kind. `StopHolds` must survive a restart
that forgets the flag: the session then has no request to replay, and gets one only
with the answered turn that ends the stop.

`CyclesBounded` counts warm-ups paid for between two answered turns, but the poll
decides by the count of a session and by the clock, and the answer of a warm-up moves
both later. `PaceInv` says how much room is left in each situation: two when a warm-up is
in flight across a request, one before the first window, none after it. The theorem has two hypotheses: the margins of a window are at most
half of a lifetime (`buildAnthropicProfile`: they are far less), and at least two cycles
are profitable, which is so at the default prices. With one, TLC finds a run that
exceeds the bound by one: a warm-up answers late, and the first window after it does
not look at the count.

`OpenIsComplete` is about processes that are open, and what they rely on was left by
statements of others: the invariant says at every point of `db()` which objects are
there for good, given that no migration drops what a later schema needs and that a
version is written only when its schema is complete. The version may go down, when an
older release normalizes it; the objects stay. `Machine` inherits the theorem: each of
its steps is a step of `Database` or leaves its variables alone.

`OneProjectPerRemote` and `RowsReachable` hold as long as no two processes were ever in
the database at the same time (section 7 shows what two can do). Even so a call of
`ensureProject` is many statements, between which git is asked and a process may
die: that what it has read is still true when it writes, at each of its points, is
`Seen`, and that paths and aliases lead to one project each is `TablesInv`.

`NothingSkipped` compares a recorded hash with what was shown, but the hash was taken
two questions earlier and is written by a call of `ensureProject` that may fail or end
on another project. `ImportInv` follows it from detection to record.

A call to the local provider ends only by a reply of the worker or by its death.
`NobodyStranded` therefore rests on what the provider believes of its worker (`Knows`:
a provider that is ready has a worker that runs, or whose end it has yet to read)
and on where each call's request is (`Waited`: with the worker, in one of its two
channels, or lost with it). A backfill that waits for a batch has a call
in progress with just that batch's texts (`BackfillInv`), which gives `BackfillCovers`
when the answer is stored in the event in which the next batch is cut off. `OneSpace`
needs that a backfill that runs has compared the configurations.

`NewestWins` is about the order of answers, which the worker's queue changes: a recall
overtakes documents. That no document overtakes another is followed through every place
a request passes (`First`: told, in hand, in the queue, in the inbox, and `StartsFirst`
before the worker runs), as long as the worker will answer (`Sound`); afterwards the
order of what it has told is enough (`ToldFirst`). A call for a newer text begins when the older
one's is already in line, which needs that ids are not used twice (`UsedInv`), and a
remote provider, which answers in any order, is asked only when nobody waits for
the local one (`LineInv`).

`Apart` says which sessions conversations have used. What a request will use depends on
what has been filed meanwhile, so `ApartInv` is about claims: a session's claims come from the
index, from its key and fingerprint in memory and in the table, and from requests under way. Each
tier adds claims only to the session it identifies, and either nobody claims that session or
somebody does who meets the conversation (`StepClaims`); looking alike is not transitive, which is
why the property speaks of closed groups. `KeysFound` rests on `OneRow`: a key of a known header
that is filed for a session was free or the session's own, because requests of one client
look at the index and write it in one step.

`OneSessionEach` has to foresee: that two requests have one session follows from where the
next request of the client *would* be led (`Led`), by its key, by a lower header that is filed,
or by the one session its rotated header may have left. Rotation is the hard case: of the keys
filed under the primary header exactly one may belong to a session that is neither stale nor
marked (`OneLive`, `OthersStale`), or the guess finds two candidates and gives up. A
second request on its way finds what the first has filed, because nothing is awaited in
between, and the client does not change while it waits (`PastLed`, `Settled`). The theorem
assumes `OneChange`, as the run does: `MaxChanges` is at most one. That is needed: with
`MaxChanges = 2` TLC finds the editor restarted *and* upgraded between two
requests; its primary header is new, the value of its old one as well, and
it gets a second session.

`ShownContiguous` needs the counters to agree. The place of a block is computed from the
blocks passed on, a correction for the warning in a first reply, and an offset in a
continuation, while the marker's place is computed from the recalls held back. `StreamInv`
relates them: every block the accumulator has was passed on or held back, and until the
warning is shown, all that were passed on are thoughts, which is why the warning may take
the number of thoughts as its index. A warning that is due and not shown when the recall
is executed (the reply was thoughts and a recall) is never shown; the marker would be numbered
as if it had been. `Contiguous` leaves that stream out, as `Skipped` does in the proof.

`SweepKeepsOne` is a fact about the sweep, whatever the table holds. Being alike is not
transitive, so it has to be shown that the greedy order yields centres at all
(`KernelExists`: in a finite strict order, those that no earlier centre has claimed are
determined), that no entry is in two stars (`StarsApart`), and that the survivor of one star
is therefore not lost from another (`SweepKeeps`). An entry need not look like its
survivor, only like the centre that both look like; `NearAssumption`, that being alike is
symmetric, is used there.

`ForeignNotDeleted` follows an answer operation by operation (`ApplyOpsKeep`): after
each, every entry that belongs neither to the project nor to everybody is still there, with
its owner (`Spared`). A creation might break that if it wrote over an existing row, so ids
have to be fresh, and an import inserts rows under the ids a file names: that is why the
invariant is about the files too. Both recursions, over the operations of an answer
and over the rows of a file, are followed by the least position at which they would go
wrong (`LeastExists`).

`Refinement` is the safety part of `ImplementsService`: every step of the queue
is a step of `PromptService` on `promise` or leaves it alone.

Model-checked only:

- liveness and everything under fairness, `Settles` of `LoreFile` among it (`ENABLED` and
  leads-to are out of the prover's reach);
- `CallsAnswered` and `NothingLost`, about what filters and recursive functions over
  sequences of messages compute.

## 6. Plan

Done: all modules of section 3. What would come next:

1. The switch of a cache's lifetime between five minutes and an hour
   (pipeline.ts:3252-3308), with `CacheWarmer`.
2. The import into a remote gateway (`importRemote`), whose retries meet a history
   that the gateway keeps.
3. The index of `lat.md` sections (`core/src/lat-reader.ts`), refreshed by hash.
4. Start-up, port discovery and self-upgrade of the command line.

## 7. Where code and comment differ

The statements below are in the modules and TLC finds each violated when it is
added to the named configuration. They have no run of their own.

| Statement | Where | With | What the code does |
|---|---|---|---|
| `CurrentTurnIntact` | `gradient.cfg` | `Messages <- LongTurns`, `Replies <- LongAnswers`, `Openings <- Rewrites` | a raw window pinned in one conversation is an offset from the end of the next one, and may cut its turn in progress (gradient.ts:1488, against 2136) |
| `WindowFits` | `gradient.cfg` | the same messages, `Models = {small, large}`, `Pricing <- TwoModels`, `Openings <- Talk` | the budget a window was pinned under is remembered across a switch to a smaller model (gradient.ts:1517, against 1513) |
| `NextTriggerPicksUp` | `curation.cfg` | | messages stored while a curation awaits the model fall behind the mark it then sets and are in no later raw reading (curator.ts:291, against 164) |
| `DeadRefsFound` | `knowledge.cfg` | | deleting an entry cascades to the reference rows by which the cleanup of dead links would find them (ltm.ts:1028, against 1020) |
| `ResumesAfterRestart` | `sessions.cfg` | `Convs = {"code"}` and the `One*` definitions of `MCSessionIdentity` | a new session with a known header is filed in memory only; the index restored from the table after a restart does not have it, and the client's next request makes a new session (pipeline.ts:1036, against 690) |
| `SubagentApart` | `sessions.cfg` | `Convs <- SubConvs` and the `Sub*` definitions of `MCSessionIdentity` | a sub-agent's first request looks like a rotation of its parent's header and takes over its session (pipeline.ts:985, against 933) |
| `LearnedKeysLead` | `sessions.cfg` | `Convs <- LearnConvs` and the `Learn*` definitions of `MCSessionIdentity`, `MaxPeriods = 1` | two sessions of one client, told apart by their message counts, learn the same header value; the one promoted last takes over the entry in the index, and the other's key leads to it (pipeline.ts:1098, against 1042) |
| `NotMixed` | `embeddings.cfg` | | vectors of a fallback stay beside those of the configuration (quality/CONTRACTS.md, EMB-02) |
| `VectorsAreCurrent` | `embeddings.cfg` | | the backfill writes the vector of a text it read before its await over a newer one, and no later backfill looks at it (embedding.ts:1230, against ltm.ts:172) |
| `KeptByMerge` | `machine.cfg` | `MaxCalls = 4`, and beginnings with two projects of which only `b` has its remote, no alias and `~alone` | two processes merge the same two projects in opposite directions: a directory is a project's path and an alias at once, and the second merge moves knowledge, which has no foreign key, to a project that is gone (db.ts:860, against 754) |
| `FlushedEachPoll` | `warmer.cfg` | | once the breaker has tripped the poll returns before it saves changed sessions, their gradient and costs included (idle.ts:98, against 149) |

Met while modelling, in the models or at their edge:

- Distillation: a segment whose distillation is discarded as too long is marked so
  as not to be tried again, but the next run takes it for an orphan, resets it and
  sends it again (distillation.ts:924, against 921).
- Batch queue: a queued call that falls back is sent without its model override
  (batch-queue.ts:872).
- Knowledge: a truncated entry exceeds the limit by its notice, so that the next
  start hides it (curator.ts:86); an entry created under the title of another
  project's shared entry overwrites that one (ltm.ts:96, meant so by
  quality/CONTRACTS.md:263-275).
- Recall: the clean-up behind an expansion removes the entries it has just expanded,
  since their markers are gone from the request, so that the next turn sends the marker
  as text (pipeline.ts:2836-2843, against recall.ts:156). In the Responses format
  parallel calls become consecutive assistant messages of which all but one lose
  their results (against pipeline.ts:3637). A chat client joins the texts of a reply,
  and expansion and the stripping of warnings then remove all of it
  (pipeline.ts:207-209). A recall in a stream from an OpenAI provider is not
  intercepted. When a due warning finds no place its block number is skipped.
- Sessions: two windows of one client within a day are taken for one that restarted;
  overlapping first requests without known headers make two sessions
  (pipeline.ts:1059); a session is never matched by its project.
- Embeddings: vectors of messages and archived distillations are cleared by a change
  of configuration but no backfill makes them again.
- Database: the backfill of the seventh migration and the rewrite of the 22nd have no
  guard, and run again when a process dies before the version is written, or an older
  release has set it back (db.ts:696).
- Projects: two processes that meet a repository at the same time each make a project
  for it, since `git_remote` is not unique, and both stay until a merge
  (db.ts:876-906). A merge moves "all data" of a project (db.ts:754), but its import
  history and warm-up histograms are deleted by cascade and its `last_import_at` goes
  with its row, so that the import is offered again.
- Import: an import is recorded although the model failed on every chunk
  (import.ts:255-264, against "Record a successful import", history.ts:45), so that it
  is not tried again until the conversation grows.
- Cache warmer: later warm-ups of a break fire in the last part of each lifetime
  counted from the last request, one lifetime after the one before, while the comment
  at cache-warmer.ts:726-731 wants them earlier; a warm-up sent while a turn is
  running counts as a hit of that turn (pipeline.ts:2156); a stop ends with the next
  turn (pipeline.ts:2218); commands and warm-ups do not mark a session as changed, so
  that a crash loses them; the gap by which savings of the longer lifetime are
  recognised is the duration of the request (pipeline.ts:2192), since
  `getOrCreateSession` has set its start. The tripped breaker is said to last for "the
  process lifetime" (cache-warmer.ts:155, quality/CONTRACTS.md:425); it is persisted and
  loaded again (quality/CONTRACTS.md:425 says that too), and `BreakerStays` follows the
  code.

## 8. What is left out

- Text: prompts, parsing, titles and observations are values that may be equal,
  alike or different.
- Real numbers: scores, embeddings, survival statistics and costs. Where code
  branches on them the model branches freely.
- `recentSegmentsToKeep` above zero in the passing runs of Distillation. With
  one kept row the second consolidation needs two more stores and several
  million states; the theorems hold for every value.
- In the cache warmer: histograms and survival statistics, the change of a cache's
  lifetime, costs, and the check whether a cache is warm at an idle resume.
- In recalls: what a search finds, usage numbers, stop reasons, broken SSE events, and
  events of blocks that overlap.
- In session identity: which headers look like ids, and header names beyond one
  learned header.
- In embeddings: similarity search, and the shutdown of a provider, which only the
  end of the process calls.
- In the gradient: the inside of messages (`cleanParts`, `sanitizeToolParts`, the
  wording of annotations), which distillations layers 3 and 4 select (only how
  many), and a host that trims the front of a conversation. What a client's own
  compaction or rewind leaves is modelled, as an opening.
- In the database: pragmas, the driver, and SQLite itself, whose statements are atomic
  steps. In projects: names, the normalization of remote URLs, lat sections apart from
  messages, and the regeneration of `.lore.md`. In the import: a remote gateway, several
  agents and chunks at once, and the parsers of transcripts.
- Two gateways on one database, except in `Machine`: the other code's locks are per
  process, and so are its models.
