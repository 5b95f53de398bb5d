----------------------------- MODULE BatchQueue -----------------------------
(***************************************************************************)
(* createBatchLLMClient (batch-queue.ts): calls that are not urgent are    *)
(* queued, a timer flushes the queue into one batch per credential and     *)
(* provider, a timer polls each batch, and what cannot be batched falls    *)
(* back to the direct client, a few calls at a time.                       *)
(*                                                                         *)
(* flush, pollBatch and shutdown are async functions of one event loop:    *)
(* each run of one is a task, and each await of the code ends a step of    *)
(* the task.  What a task read before its await stays in its record.       *)
(***************************************************************************)
EXTENDS Naturals, FiniteSets

CONSTANTS
    Prompts,       \* calls of prompt that are not answered at once
    Sessions,
    Groups,        \* a credential and a provider: groupKey
    SessionOf,     \* the session of each call
    GroupOf,       \* the credential and provider it was queued with
    MaxQueueSize,  \* maxQueueSize
    Concurrency,   \* CONCURRENCY of fallbackAll
    Batches,       \* bound: batches created
    Flushes,       \* bound: runs of flush in progress at once
    Polls,         \* bound: runs of pollBatch in progress at once
    Drain,         \* the task of shutdown
    NoBatch,       \* no batch
    MaxRestarts    \* bound: restarts of the process

ASSUME BatchAssumption ==
    /\ SessionOf \in [Prompts -> Sessions]
    /\ GroupOf \in [Prompts -> Groups]
    /\ {MaxQueueSize, Concurrency} \subseteq Nat \ {0}
    /\ MaxRestarts \in Nat
    /\ NoBatch \notin Batches
    /\ Flushes \cap Polls = {} /\ Drain \notin Flushes \cup Polls

VARIABLES
    promise,   \* the promise each call returned
    queue,     \* items waiting for the next flush
    direct,    \* calls handed to the inner client without queueing
    task,      \* the runs of flush, pollBatch and shutdown
    inflight,  \* batches being polled: the keys of the inflight map
    requests,  \* the requests map of each batch, shared by all who hold it
    aged,      \* batches older than maxBatchAgeMs
    disabled,  \* disabledBatchSessions
    saved,     \* disabled_batch_sessions in kv_meta
    down,      \* shuttingDown
    restarts   \* restarts so far

vars == <<promise, queue, direct, task, inflight, requests, aged, disabled, saved, down, restarts>>
batchVars == <<inflight, requests, aged>>
sessionVars == <<disabled, saved, restarts>>

-----------------------------------------------------------------------------
(* Tasks. *)

Tasks == Flushes \cup Polls \cup {Drain}

\* left and items: the groups flush has yet to take and the one it submits;
\* rest and running: what fallbackAll has yet to send and what it awaits.
Task == [pc: {"idle", "splitting", "submitting", "refused", "polling", "expired", "draining"},
         left: SUBSET Prompts, items: SUBSET Prompts,
         rest: SUBSET Prompts, running: SUBSET Prompts, bid: Batches \cup {NoBatch}]

Idle == [pc |-> "idle", left |-> {}, items |-> {}, rest |-> {}, running |-> {}, bid |-> NoBatch]

Become(t, record) == task' = [task EXCEPT ![t] = record]

\* fallbackAll sends its items in chunks.
Chunks(S) ==
    {T \in SUBSET S : Cardinality(T) = IF Cardinality(S) < Concurrency THEN Cardinality(S) ELSE Concurrency}

\* Task t awaits fallbackAll(S) and then goes on with `left`.
Fallback(t, pc, S, left) ==
    \E chunk \in Chunks(S) :
        Become(t, [Idle EXCEPT !.pc = pc, !.left = left, !.rest = S \ chunk, !.running = chunk])

Settle(S, T) ==
    promise' = [p \in Prompts |->
                   IF p \in S /\ promise[p] = "pending"
                   THEN IF p \in T THEN "text" ELSE "null"
                   ELSE promise[p]]

\* Mutant: flush forgets the batchable items of a group it had to split.
Bug_FlushOn(f, left) ==
    IF left = {}
    THEN Become(f, Idle)
    ELSE \E p \in left :
             LET group == {q \in left : GroupOf[q] = GroupOf[p]}
                 barred == {q \in group : SessionOf[q] \in disabled}
             IN  IF barred = {}
                 THEN Become(f, [Idle EXCEPT !.pc = "submitting", !.left = left \ group, !.items = group])
                 ELSE Fallback(f, "splitting", barred, left \ group)

\* The loop of flush: the next group is split into the items of disabled
\* sessions, which fall back first, and the ones to submit.
FlushOn(f, left) ==
    IF left = {}
    THEN Become(f, Idle)
    ELSE \E p \in left :
             LET group == {q \in left : GroupOf[q] = GroupOf[p]}
                 barred == {q \in group : SessionOf[q] \in disabled}
             IN  IF barred = {}
                 THEN Become(f, [Idle EXCEPT !.pc = "submitting", !.left = left \ group, !.items = group])
                 ELSE \E chunk \in Chunks(barred) :
                          Become(f, [Idle EXCEPT !.pc = "splitting", !.left = left \ group,
                                         !.items = group \ barred,
                                         !.rest = barred \ chunk, !.running = chunk])

-----------------------------------------------------------------------------

Init ==
    /\ promise = [p \in Prompts |-> "none"]
    /\ queue = {}
    /\ direct = {}
    /\ task = [t \in Tasks |-> Idle]
    /\ inflight = {}
    /\ requests = [b \in Batches |-> {}]
    /\ aged = {}
    /\ disabled = {}
    /\ saved = {}
    /\ down = FALSE
    /\ restarts = 0

-----------------------------------------------------------------------------
(* prompt. *)

\* Urgent, shutting down, a disabled session or no credential: no queueing.
PromptDirect(p) ==
    /\ promise[p] = "none"
    /\ promise' = [promise EXCEPT ![p] = "pending"]
    /\ direct' = direct \cup {p}
    /\ UNCHANGED <<queue, task, batchVars, sessionVars, down>>

DirectAnswer(p) ==
    /\ p \in direct
    /\ direct' = direct \ {p}
    /\ \E T \in SUBSET {p} : Settle({p}, T)
    /\ UNCHANGED <<queue, task, batchVars, sessionVars, down>>

\* push, and a flush at once when the queue is full.
Enqueue(p) ==
    /\ promise[p] = "none"
    /\ ~down
    /\ SessionOf[p] \notin disabled
    /\ promise' = [promise EXCEPT ![p] = "pending"]
    /\ IF Cardinality(queue) + 1 < MaxQueueSize
       THEN /\ queue' = queue \cup {p}
            /\ UNCHANGED task
       ELSE /\ queue' = {}
            /\ \E f \in Flushes : task[f] = Idle /\ FlushOn(f, queue \cup {p})
    /\ UNCHANGED <<direct, batchVars, sessionVars, down>>

-----------------------------------------------------------------------------
(* flush and submitBatch. *)

TimerFlush(f) ==
    /\ ~down
    /\ task[f] = Idle
    /\ queue # {}
    /\ queue' = {}
    /\ FlushOn(f, queue)
    /\ UNCHANGED <<promise, direct, batchVars, sessionVars, down>>

\* A batch id nobody holds.
Fresh(b) == b \notin inflight /\ requests[b] = {} /\ \A t \in Tasks : task[t].bid # b

\* Shutdown is not looked at: the batch gets its poll timer all the same.
SubmitAccepted(f, b) ==
    /\ task[f].pc = "submitting"
    /\ Fresh(b)
    /\ inflight' = inflight \cup {b}
    /\ requests' = [requests EXCEPT ![b] = task[f].items]
    /\ aged' = aged \ {b}
    /\ FlushOn(f, task[f].left)
    /\ UNCHANGED <<promise, queue, direct, sessionVars, down>>

\* 401 or 403 disables the sessions of the items; a transient failure or an
\* exception does not.  The items fall back either way.
SubmitRefused(f, auth) ==
    /\ task[f].pc = "submitting"
    /\ disabled' = IF auth THEN disabled \cup {SessionOf[p] : p \in task[f].items} ELSE disabled
    /\ saved' = IF auth THEN disabled' ELSE saved
    /\ Fallback(f, "refused", task[f].items, task[f].left)
    /\ UNCHANGED <<promise, queue, direct, batchVars, restarts, down>>

-----------------------------------------------------------------------------
(* fallbackAll. *)

\* The inner client answers with a text or null; it never throws past here.
FallbackAnswer(t, p) ==
    /\ p \in task[t].running
    /\ Become(t, [task[t] EXCEPT !.running = @ \ {p}])
    /\ \E T \in SUBSET {p} : Settle({p}, T)
    /\ UNCHANGED <<queue, direct, batchVars, sessionVars, down>>

FallbackNext(t) ==
    /\ task[t].running = {}
    /\ task[t].rest # {}
    /\ \E chunk \in Chunks(task[t].rest) :
           Become(t, [task[t] EXCEPT !.rest = @ \ chunk, !.running = chunk])
    /\ UNCHANGED <<promise, queue, direct, batchVars, sessionVars, down>>

FallbackOver(t, pc) == task[t].pc = pc /\ task[t].running = {} /\ task[t].rest = {}

\* Back in flush, which submits what it found batchable before the await.
SplitDone(f) ==
    /\ FallbackOver(f, "splitting")
    /\ IF task[f].items = {}
       THEN FlushOn(f, task[f].left)
       ELSE Become(f, [task[f] EXCEPT !.pc = "submitting"])
    /\ UNCHANGED <<promise, queue, direct, batchVars, sessionVars, down>>

RefusedDone(f) ==
    /\ FallbackOver(f, "refused")
    /\ FlushOn(f, task[f].left)
    /\ UNCHANGED <<promise, queue, direct, batchVars, sessionVars, down>>

ExpiredDone(k) ==
    /\ FallbackOver(k, "expired")
    /\ Become(k, Idle)
    /\ UNCHANGED <<promise, queue, direct, batchVars, sessionVars, down>>

-----------------------------------------------------------------------------
(* pollBatch. *)

Age(b) ==
    /\ b \in inflight \ aged
    /\ aged' = aged \cup {b}
    /\ UNCHANGED <<promise, queue, direct, task, inflight, requests, sessionVars, down>>

\* Mutant: the expired batch stays in the inflight map, its timer goes on.
Bug_PollTick(k, b) ==
    /\ task[k] = Idle
    /\ b \in inflight
    /\ IF b \in aged
       THEN Fallback(k, "expired", requests[b], {})
       ELSE Become(k, [Idle EXCEPT !.pc = "polling", !.bid = b])
    /\ UNCHANGED <<promise, queue, direct, batchVars, sessionVars, down>>

\* The timer of a batch fires: give up on an old one, else ask the provider.
PollTick(k, b) ==
    /\ task[k] = Idle
    /\ b \in inflight
    /\ IF b \in aged
       THEN /\ inflight' = inflight \ {b}
            /\ Fallback(k, "expired", requests[b], {})
       ELSE /\ Become(k, [Idle EXCEPT !.pc = "polling", !.bid = b])
            /\ UNCHANGED inflight
    /\ UNCHANGED <<promise, queue, direct, requests, aged, sessionVars, down>>

\* Still processing, an HTTP error or an exception: the next tick asks again.
PollPending(k) ==
    /\ task[k].pc = "polling"
    /\ Become(k, Idle)
    /\ UNCHANGED <<promise, queue, direct, batchVars, sessionVars, down>>

PollFailed(k) ==
    /\ task[k].pc = "polling"
    /\ inflight' = inflight \ {task[k].bid}
    /\ Fallback(k, "expired", requests[task[k].bid], {})
    /\ UNCHANGED <<promise, queue, direct, requests, aged, sessionVars, down>>

\* Mutant: only the items the results name are settled.
Bug_PollDone(k) ==
    LET b == task[k].bid
    IN  /\ task[k].pc = "polling"
        /\ inflight' = inflight \ {b}
        /\ \E R \in SUBSET requests[b] :
               /\ requests' = [requests EXCEPT ![b] = @ \ R]
               /\ \E T \in SUBSET R : Settle(R, T)
        /\ Become(k, Idle)
        /\ UNCHANGED <<queue, direct, aged, sessionVars, down>>

\* The results may name only some of the items (R) and hold a text for fewer
\* still (T): a line that does not parse, a download that fails, an item that
\* errored, was cancelled or expired.  All the others get null.
PollDone(k) ==
    LET b == task[k].bid
    IN  /\ task[k].pc = "polling"
        /\ inflight' = inflight \ {b}
        /\ \E R \in SUBSET requests[b] :
               /\ requests' = [requests EXCEPT ![b] = @ \ R]
               /\ \E T \in SUBSET R : Settle(requests[b], T)
        /\ Become(k, Idle)
        /\ UNCHANGED <<queue, direct, aged, sessionVars, down>>

-----------------------------------------------------------------------------
(* shutdown, and a new process. *)

\* The batches in flight are abandoned: their callers get null.
Abandon ==
    /\ Settle(UNION {requests[b] : b \in inflight}, {})
    /\ inflight' = {}

Shutdown ==
    /\ ~down
    /\ down' = TRUE
    /\ queue' = {}
    /\ IF queue = {}
       THEN Abandon /\ UNCHANGED task
       ELSE Fallback(Drain, "draining", queue, {}) /\ UNCHANGED <<promise, inflight>>
    /\ UNCHANGED <<direct, requests, aged, sessionVars>>

DrainDone ==
    /\ FallbackOver(Drain, "draining")
    /\ Abandon
    /\ Become(Drain, Idle)
    /\ UNCHANGED <<queue, direct, requests, aged, sessionVars, down>>

\* The process ends, its callers with it; the next one reads kv_meta.
Restart ==
    /\ restarts < MaxRestarts
    /\ restarts' = restarts + 1
    /\ promise' = [p \in Prompts |-> IF promise[p] = "pending" THEN "none" ELSE promise[p]]
    /\ queue' = {}
    /\ direct' = {}
    /\ task' = [t \in Tasks |-> Idle]
    /\ inflight' = {}
    /\ requests' = [b \in Batches |-> {}]
    /\ aged' = {}
    /\ disabled' = saved
    /\ down' = FALSE
    /\ UNCHANGED saved

-----------------------------------------------------------------------------
(* The specification. *)

SubmitAnswer(f) ==
    \/ \E b \in Batches : SubmitAccepted(f, b)
    \/ \E auth \in BOOLEAN : SubmitRefused(f, auth)

PollAnswer(k) == PollPending(k) \/ PollFailed(k) \/ PollDone(k)

GoOn(t) ==
    \/ FallbackNext(t) \/ SplitDone(t) \/ RefusedDone(t) \/ ExpiredDone(t)
    \/ t = Drain /\ DrainDone

Next ==
    \/ \E p \in Prompts : PromptDirect(p) \/ Enqueue(p) \/ DirectAnswer(p)
    \/ \E f \in Flushes : TimerFlush(f) \/ SubmitAnswer(f)
    \/ \E k \in Polls, b \in Batches : PollTick(k, b)
    \/ \E k \in Polls : PollAnswer(k)
    \/ \E t \in Tasks, p \in Prompts : FallbackAnswer(t, p)
    \/ \E t \in Tasks : GoOn(t)
    \/ \E b \in Batches : Age(b)
    \/ Shutdown
    \/ Restart

Spec == Init /\ [][Next]_vars

\* Timers fire, requests to a provider are answered or fail, and time passes:
\* nothing is assumed of the batch itself, which may stay pending for ever.
FairSpec ==
    /\ Spec
    /\ \A p \in Prompts : WF_vars(DirectAnswer(p))
    /\ \A t \in Tasks : WF_vars(GoOn(t)) /\ WF_vars(\E p \in Prompts : FallbackAnswer(t, p))
    /\ \A f \in Flushes : WF_vars(SubmitAnswer(f))
    /\ \A k \in Polls : WF_vars(PollAnswer(k))
    /\ \A b \in Batches : WF_vars(Age(b)) /\ SF_vars(\E k \in Polls : PollTick(k, b))
    /\ SF_vars(\E f \in Flushes : TimerFlush(f))

-----------------------------------------------------------------------------
(* Properties. *)

\* The types; between two events the queue is below its limit.
TypeOK ==
    /\ promise \in [Prompts -> {"none", "pending", "text", "null"}]
    /\ queue \subseteq Prompts /\ Cardinality(queue) < MaxQueueSize
    /\ direct \subseteq Prompts
    /\ task \in [Tasks -> Task]
    /\ inflight \subseteq Batches
    /\ requests \in [Batches -> SUBSET Prompts]
    /\ aged \subseteq Batches
    /\ disabled \subseteq Sessions
    /\ saved \subseteq Sessions
    /\ down \in BOOLEAN
    /\ restarts \in Nat

\* What a task is going to settle.
Held(t) == task[t].left \cup task[t].items \cup task[t].rest \cup task[t].running

\* No promise is orphaned: a call that waits is in the queue, in a batch that
\* is polled or in the hands of a task, through every await, shutdown included.
NothingLost ==
    \A p \in Prompts : promise[p] = "pending" =>
        \/ p \in queue \cup direct
        \/ \E t \in Tasks : p \in Held(t)
        \/ \E b \in inflight : p \in requests[b]

\* Until shutdown a call is in one place, and in none once it is settled: it
\* is not computed twice.  The exception are polls of one batch that overlap,
\* one of which hands the batch to fallbackAll.
OnePlace ==
    ~down => \A p \in Prompts :
        LET holders == {t \in Tasks : task[t].pc # "expired" /\ p \in Held(t)}
            batches == {b \in inflight : p \in requests[b]}
            waits   == {S \in {queue, direct} : p \in S}
        IN  Cardinality(holders) + Cardinality(batches) + Cardinality(waits)
                <= IF promise[p] = "pending" THEN 1 ELSE 0

\* A session that lost its batch access keeps it lost, restarts included.
DisabledForGood == [][disabled \subseteq disabled']_vars

\* The queue is a prompt service: every call gets one answer in the end.
Service == INSTANCE PromptService WITH Prompts <- Prompts, promise <- promise
ImplementsService == Service!Spec
=============================================================================
