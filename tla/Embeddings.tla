----------------------------- MODULE Embeddings -----------------------------
(***************************************************************************)
(* Embeddings (core embedding.ts and its callers): the calls that embed a  *)
(* new or changed row, recall queries, and the backfill; the local         *)
(* provider, whose calls wait for the worker thread of EmbeddingWorker;    *)
(* the switch to a remote provider when the local one is unavailable; and  *)
(* the vectors in the tables, with the configuration they were made for.   *)
(*                                                                         *)
(* One action is one event of the main thread with everything that runs    *)
(* before it yields: an answer is stored, and the backfill sends its next  *)
(* batch, in the same event.                                               *)
(*                                                                         *)
(* A row's text is a version number, 0 before the row exists; its vector   *)
(* is the text it was made from and the space, the model, it belongs to.   *)
(***************************************************************************)
EXTENDS EmbeddingWorker, FiniteSets, FiniteSetsExt, Functions

CONSTANTS
    Rows,                   \* rows worth embedding, of knowledge, distillations and temporal_messages
    Table,                  \* the table of a row
    Tokens,                 \* estimated length of a row's text
    Configs, ProviderOf,    \* embedding configurations: local, remote or none
    RemoteKey,              \* an API key for a remote provider is set
    MAX_BACKFILL_CHUNK, MAX_BATCH_TOKEN_AREA,
    Backlog,                \* rows an earlier process left without a vector
    MaxText,                \* bound: versions of each row's text
    MaxAsked,               \* bound: recall queries and reindex requests of a process
    MaxProcesses            \* bound: starts of the process

Runners == {"startup", "reindex"}
NoConfig == "none"
Fallback == "fallback"
NoVector == [text |-> 0, space |-> NoConfig, by |-> "none", checked |-> FALSE]

ASSUME RowsAssumption ==
    /\ IsFiniteSet(Rows)
    /\ Table \in [Rows -> {"knowledge", "distillations", "messages"}]
    /\ ProviderOf \in [Configs -> {"local", "remote", "none"}]
    /\ Rows \cap (Runners \cup {"query"}) = {}
ASSUME ConfigsAssumption == NoConfig \notin Configs
ASSUME BatchAssumption == MAX_BACKFILL_CHUNK \in Nat \ {0} /\ \A i \in Rows : Tokens[i] \in Nat

VARIABLES
    config,     \* the configuration of the process
    stored,     \* lore:embedding_config in kv_meta
    rows,       \* the three tables
    provider,   \* cachedProvider, and the local provider's state
    calls,      \* embed calls in progress
    backfill,   \* the startup backfill and the reindex request
    made        \* counters that bound the run

vars == <<worker, config, stored, rows, provider, calls, backfill, made>>

Idle == [pc |-> "idle", todo |-> <<>>, batches |-> 0, failed |-> FALSE, seen |-> {}]
FreshProvider(c) == [cached |-> ProviderOf[c], broken |-> FALSE, ready |-> FALSE, error |-> FALSE,
                     isStarting |-> FALSE, starting |-> <<>>]

Init ==
    /\ config \in Configs
    /\ stored = NoConfig
    /\ rows = [i \in Rows |-> [text |-> IF i \in Backlog THEN 1 ELSE 0, vector |-> NoVector]]
    /\ provider = FreshProvider(config)
    /\ calls = [id \in {} |-> 0]
    /\ backfill = [r \in Runners |-> Idle]
    /\ worker = NoWorker
    /\ made = [asked |-> 0, processes |-> 1]

-----------------------------------------------------------------------------
(* embed *)

IsAvailable == provider.cached # "none" /\ ~(provider.cached = "local" /\ provider.broken)

\* Where a call begins: ensureWorker, and the fallback of embed.
BeginsAt(p) ==
    IF p.cached = "remote" THEN "remote"
    ELSE IF p.ready THEN "waiting"
    ELSE IF ~p.error THEN "starting"
    ELSE IF RemoteKey THEN "remote" ELSE "failed"

\* The switch to a remote provider is for the rest of the process.
Switched(p) == IF p.cached = "local" /\ p.error /\ RemoteKey THEN [p EXCEPT !.cached = "remote"] ELSE p

\* Calls begin, all at the same stage: the local provider starts its worker or
\* posts to it.  new is a function from ids to calls.
Begin(new, p, w) ==
    LET stage == BeginsAt(p)
        ids   == SetToSeq(DOMAIN new)
    IN  /\ provider' = IF ids = <<>> THEN p
                       ELSE IF stage = "starting" THEN [p EXCEPT !.isStarting = TRUE, !.starting = @ \o ids]
                       ELSE Switched(p)
        /\ worker' = IF stage # "waiting" THEN w
                     ELSE Posted(w, [n \in DOMAIN ids |-> [id |-> ids[n], priority |-> new[ids[n]].priority]])

\* They join the calls in progress; one that fails at once is over.
InProgress(old, new, p) ==
    LET begun == IF BeginsAt(p) = "failed" THEN {} ELSE DOMAIN new
    IN  [id \in DOMAIN old \cup begun |-> IF id \in begun THEN [new[id] EXCEPT !.stage = BeginsAt(p)] ELSE old[id]]

Call(texts, priority) == [texts |-> texts, priority |-> priority, stage |-> "begins"]
NoCalls == [id \in {} |-> Call(<<>>, "normal")]

\* A row is embedded unless no provider is available.
CallFor(i, text) == IF IsAvailable THEN [id \in {<<i, text>>} |-> Call([j \in {i} |-> text], "normal")] ELSE NoCalls

\* The vectors an answered call stores, with who made them.
Vector(id, i) ==
    LET isRemote == calls[id].stage = "remote"
    IN  [text |-> calls[id].texts[i],
         space |-> IF isRemote /\ ProviderOf[config] = "local" THEN Fallback ELSE config,
         by |-> IF isRemote THEN "remote" ELSE IF id[1] \in Runners THEN "backfill" ELSE "row",
         checked |-> stored = config]

Stored(id) == [i \in Rows |-> IF i \in DOMAIN calls[id].texts THEN [rows[i] EXCEPT !.vector = Vector(id, i)] ELSE rows[i]]

-----------------------------------------------------------------------------
(* The backfill *)

\* nextBatch: rows whose padded length stays within the budget, at least one.
Longest(todo, n) == Max({Tokens[todo[k][1]] : k \in 1..n})
BatchLength(todo) ==
    Max({n \in 1..Min({Len(todo), MAX_BACKFILL_CHUNK}) : \A k \in 2..n : k * Longest(todo, k) <= MAX_BATCH_TOKEN_AREA})

\* A bug: the row that exceeds the budget is skipped.
Bug_Remaining(todo) == SubSeq(todo, BatchLength(todo) + 2, Len(todo))

Batch(todo) == SubSeq(todo, 1, BatchLength(todo))
Remaining(todo) == SubSeq(todo, BatchLength(todo) + 1, Len(todo))

\* The rows of a table without a vector, as they are now.
Missing(rs, table) ==
    {i \in Rows : Table[i] = table /\ rs[i].text > 0 /\ rs[i].vector = NoVector}
Snapshot(rs, table) == SetToSeq({<<i, rs[i].text>> : i \in Missing(rs, table)})

\* Knowledge first, then distillations; each table is read once.
Entered(b, table, rs) == [b EXCEPT !.pc = table, !.todo = Snapshot(rs, table), !.seen = @ \cup Missing(rs, table)]
Phase(b, rs) ==
    LET d == IF b.todo = <<>> /\ b.pc = "knowledge" THEN Entered(b, "distillations", rs) ELSE b
    IN  IF d.todo = <<>> THEN [d EXCEPT !.pc = "done"] ELSE d

\* The next batch is sent; an unavailable provider ends both loops.
Onward(b, p, rs) ==
    LET d == Phase(b, rs) IN
    IF d.pc = "done" THEN d
    ELSE IF BeginsAt(p) = "failed" THEN [d EXCEPT !.pc = "done", !.todo = <<>>, !.failed = TRUE]
    ELSE [d EXCEPT !.batches = @ + 1]

IsRunning(b) == b.pc \in {"knowledge", "distillations"}
BatchOf(b) ==
    LET texts == ToSet(Batch(b.todo))
    IN  Call([i \in {x[1] : x \in texts} |-> (CHOOSE x \in texts : x[1] = i)[2]], "normal")
BatchCalls(bs) ==
    [id \in {<<r, bs[r].batches>> : r \in {x \in DOMAIN bs : IsRunning(bs[x])}} |-> BatchOf(bs[id[1]])]

\* What follows a batch of a runner.
AfterBatch(b, failed, unavailable, p, rs) ==
    Onward([b EXCEPT !.todo = IF unavailable THEN <<>> ELSE Remaining(@), !.failed = @ \/ failed], p, rs)

\* Calls end together, and the backfills that waited for them go on.
Settle(ended, failed, unavailable, rs, p, w) ==
    LET waited == {r \in Runners : IsRunning(backfill[r]) /\ <<r, backfill[r].batches>> \in ended}
        after  == [r \in waited |-> AfterBatch(backfill[r], failed, unavailable, p, rs)]
        new    == BatchCalls(after)
    IN  /\ backfill' = [r \in Runners |-> IF r \in waited THEN after[r] ELSE backfill[r]]
        /\ calls' = InProgress(Restrict(calls, DOMAIN calls \ ended), new, p)
        /\ Begin(new, p, w)
        /\ rows' = rs

\* checkConfigChange
\* A bug: only the knowledge loses its vectors.
Bug_Cleared == [i \in Rows |-> IF stored \notin {NoConfig, config} /\ Table[i] = "knowledge"
                               THEN [rows[i] EXCEPT !.vector = NoVector] ELSE rows[i]]

Cleared == [i \in Rows |-> IF stored \notin {NoConfig, config} THEN [rows[i] EXCEPT !.vector = NoVector] ELSE rows[i]]

RunsBackfill(r) ==
    LET b   == [backfill[r] EXCEPT !.failed = FALSE, !.seen = {}]
        on  == IF provider.cached = "none" THEN [b EXCEPT !.pc = "done"]
               ELSE Onward(Entered(b, "knowledge", Cleared), provider, Cleared)
        new == BatchCalls([x \in {r} |-> on])
    IN  /\ stored' = config
        /\ rows' = Cleared
        /\ backfill' = [backfill EXCEPT ![r] = on]
        /\ calls' = InProgress(calls, new, provider)
        /\ Begin(new, provider, worker)

\* runStartupBackfill, with a delay when there is something to do.
HasBacklog == Missing(rows, "knowledge") \cup Missing(rows, "distillations") # {}

StartupBegins ==
    /\ backfill["startup"].pc = "idle"
    /\ IF ~IsAvailable \/ HasBacklog
       THEN /\ backfill' = [backfill EXCEPT !["startup"].pc = IF IsAvailable THEN "delay" ELSE "done"]
            /\ UNCHANGED <<worker, stored, rows, provider, calls>>
       ELSE RunsBackfill("startup")
    /\ UNCHANGED <<config, made>>

DelayEnds ==
    /\ backfill["startup"].pc = "delay"
    /\ RunsBackfill("startup")
    /\ UNCHANGED <<config, made>>

\* Requests come after initIfNeeded has started the backfill.
IsInitialized == backfill["startup"].pc # "idle"

\* handleReindex
Reindex ==
    /\ backfill["reindex"].pc \in {"idle", "done"} /\ IsInitialized /\ made.asked < MaxAsked
    /\ made' = [made EXCEPT !.asked = @ + 1]
    /\ RunsBackfill("reindex")
    /\ UNCHANGED config

-----------------------------------------------------------------------------
(* Rows and queries *)

Embeds(new) ==
    /\ calls' = InProgress(calls, new, provider)
    /\ Begin(new, provider, worker)

\* ltm.create, temporal.store, storeDistillation; the pattern echo embeds a
\* distillation unless the session has just had one extracted.
Create(i) ==
    /\ IsInitialized /\ rows[i].text = 0 /\ MaxText[i] > 0
    /\ rows' = [rows EXCEPT ![i].text = 1]
    /\ \E embeds \in IF Table[i] = "distillations" THEN BOOLEAN ELSE {TRUE} :
           Embeds(IF embeds THEN CallFor(i, 1) ELSE NoCalls)
    /\ UNCHANGED <<config, stored, backfill, made>>

\* ltm.update, temporal.store of a message that is there
Update(i) ==
    /\ IsInitialized /\ Table[i] # "distillations"
    /\ rows[i].text \in 1..(MaxText[i] - 1)
    /\ rows' = [rows EXCEPT ![i].text = @ + 1]
    /\ Embeds(CallFor(i, rows[i].text + 1))
    /\ UNCHANGED <<config, stored, backfill, made>>

Query ==
    /\ IsInitialized /\ made.asked < MaxAsked /\ IsAvailable
    /\ made' = [made EXCEPT !.asked = @ + 1]
    /\ Embeds([id \in {<<"query", made.asked>>} |-> Call([i \in {} |-> 0], "high")])
    /\ UNCHANGED <<config, stored, rows, backfill>>

-----------------------------------------------------------------------------
(* The local provider *)

\* The worker runs; the calls that waited for it post, in their order.
WorkerStarted ==
    LET ids == provider.starting IN
    /\ provider.isStarting
    /\ provider' = [provider EXCEPT !.isStarting = FALSE, !.ready = TRUE, !.starting = <<>>]
    /\ worker' = Posted(FreshWorker, [n \in DOMAIN ids |-> [id |-> ids[n], priority |-> calls[ids[n]].priority]])
    /\ calls' = [id \in DOMAIN calls |-> IF id \in ToSet(ids) THEN [calls[id] EXCEPT !.stage = "waiting"] ELSE calls[id]]
    /\ UNCHANGED <<config, stored, rows, backfill, made>>

\* It could not be started; the next call tries again.
WorkerNotStarted ==
    /\ provider.isStarting
    /\ Settle(ToSet(provider.starting), TRUE, FALSE, rows, [provider EXCEPT !.isStarting = FALSE, !.starting = <<>>], worker)
    /\ UNCHANGED <<config, stored, made>>

IsWaiting(id) == id \in DOMAIN calls /\ calls[id].stage = "waiting"
Waiting == {id \in DOMAIN calls : IsWaiting(id)}
Delivered == [worker EXCEPT !.outbox = Tail(@)]

Answered ==
    LET reply == Head(worker.outbox) IN
    /\ worker.outbox # <<>> /\ reply.type \in {"result", "error"}
    /\ IF ~IsWaiting(reply.id)
       THEN worker' = Delivered /\ UNCHANGED <<rows, provider, calls, backfill>>
       ELSE Settle({reply.id}, reply.type = "error", FALSE, IF reply.type = "result" THEN Stored(reply.id) ELSE rows,
                   provider, Delivered)
    /\ UNCHANGED <<config, stored, made>>

\* The model could not be loaded, or the worker died: all its requests are
\* rejected, and repeated with a remote provider if there is one.
\* A bug: only later calls learn of it.
Bug_WorkerLost ==
    /\ worker.outbox # <<>> /\ Head(worker.outbox).type \in {"init-error", "crash"}
    /\ provider' = [provider EXCEPT !.ready = FALSE, !.error = TRUE, !.broken = Head(worker.outbox).type = "init-error"]
    /\ worker' = Delivered
    /\ UNCHANGED <<config, stored, rows, calls, backfill, made>>

WorkerLost ==
    LET reply == Head(worker.outbox)
        lost  == [provider EXCEPT !.ready = FALSE, !.error = TRUE, !.broken = @ \/ reply.type = "init-error"]
    IN  /\ worker.outbox # <<>> /\ reply.type \in {"init-error", "crash"}
        /\ IF RemoteKey /\ Waiting # {}
           THEN /\ provider' = Switched(lost)
                /\ worker' = Delivered
                /\ calls' = [id \in DOMAIN calls |-> IF IsWaiting(id) THEN [calls[id] EXCEPT !.stage = "remote"] ELSE calls[id]]
                /\ UNCHANGED <<rows, backfill>>
           ELSE Settle(Waiting, TRUE, TRUE, rows, lost, Delivered)
        /\ UNCHANGED <<config, stored, made>>

\* A remote provider answers, or refuses, or lets the time pass.
RemoteEnds(id) ==
    /\ calls[id].stage = "remote"
    /\ \E isAnswer \in BOOLEAN :
           Settle({id}, ~isAnswer, FALSE, IF isAnswer THEN Stored(id) ELSE rows, provider, worker)
    /\ UNCHANGED <<config, stored, made>>

\* The next event may be one that compares the configurations.
CanCompare ==
    \/ backfill["startup"].pc = "idle" /\ IsAvailable /\ ~HasBacklog
    \/ backfill["startup"].pc = "delay"
    \/ IsInitialized /\ backfill["reindex"].pc \in {"idle", "done"} /\ made.asked < MaxAsked

\* What a process leaves that dies among the statements of checkConfigChange, which
\* clear one table after another and write the fingerprint last.
CutShort ==
    IF stored \in {NoConfig, config} \/ ~CanCompare THEN {}
    ELSE {[i \in Rows |-> IF Table[i] \in gone THEN [rows[i] EXCEPT !.vector = NoVector] ELSE rows[i]] :
            gone \in {{"knowledge"}, {"knowledge", "distillations"},
                     {"knowledge", "distillations", "messages"}}}

\* The process stops, or dies, and another one starts.
Restart ==
    /\ made.processes < MaxProcesses
    /\ \E c \in Configs :
           /\ config' = c
           /\ provider' = FreshProvider(c)
    /\ calls' = NoCalls
    /\ backfill' = [r \in Runners |-> Idle]
    /\ worker' = NoWorker
    /\ made' = [asked |-> 0, processes |-> made.processes + 1]
    /\ rows' \in {rows} \cup CutShort
    /\ UNCHANGED stored

WorkerThread == WorkerSteps /\ UNCHANGED <<config, stored, rows, provider, calls, backfill, made>>
WorkerDies == Crashes /\ UNCHANGED <<config, stored, rows, provider, calls, backfill, made>>

Next ==
    \/ StartupBegins \/ DelayEnds \/ Reindex
    \/ \E i \in Rows : Create(i) \/ Update(i)
    \/ Query
    \/ WorkerStarted \/ WorkerNotStarted
    \/ Answered \/ WorkerLost
    \/ \E id \in DOMAIN calls : RemoteEnds(id)
    \/ WorkerThread \/ WorkerDies
    \/ Restart

Spec == Init /\ [][Next]_vars

-----------------------------------------------------------------------------
(* Properties *)

\* No call waits for what cannot come: a worker's start, an answer that is on
\* its way, or the news of its end or of its model's failure, whatever the
\* worker drops; and a backfill waits for a call (LocalProvider.pendingRequests).
NobodyStranded ==
    /\ \A id \in DOMAIN calls :
        CASE calls[id].stage = "starting" -> provider.isStarting /\ id \in ToSet(provider.starting)
          [] calls[id].stage = "waiting" ->
                 \/ IsAtWorker(id)
                 \/ \E n \in DOMAIN worker.outbox : worker.outbox[n].type \in {"init-error", "crash"}
          [] OTHER -> calls[id].stage = "remote"
    /\ \A r \in Runners : IsRunning(backfill[r]) => <<r, backfill[r].batches>> \in DOMAIN calls

\* A vector of an older text replaces one of a newer text only if the backfill
\* read the text before the change or a remote provider answered out of order.
NewestWins ==
    [][\A i \in Rows : rows'[i].vector # NoVector /\ rows'[i].vector.text < rows[i].vector.text =>
           rows'[i].vector.by \in {"backfill", "remote"}]_vars

\* Vectors belong to the space of the stored configuration, but for those of a
\* fallback and of a process that has not yet compared the configurations.
OneSpace ==
    \A i \in Rows : rows[i].vector.checked /\ rows[i].vector.space # Fallback => rows[i].vector.space = stored

\* A backfill that met no failure leaves no row it found without a vector.
BackfillCovers ==
    \A r \in Runners : backfill[r].pc = "done" /\ ~backfill[r].failed =>
        \A i \in backfill[r].seen : rows[i].vector # NoVector

\* Vectors of different models are not mixed (CONTRACTS.md, EMB-02): once the
\* configuration has been checked, all belong to its space.
NotMixed ==
    stored = config => \A i \in Rows : rows[i].vector # NoVector => rows[i].vector.space = config

\* A changed row is embedded again: when nothing is in progress, no vector is
\* of an older text.
VectorsAreCurrent ==
    calls = NoCalls /\ (\A r \in Runners : ~IsRunning(backfill[r])) =>
        \A i \in Rows : rows[i].vector # NoVector => rows[i].vector.text = rows[i].text
=============================================================================
