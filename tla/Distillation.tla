---------------------------- MODULE Distillation ----------------------------
(***************************************************************************)
(* The distillation pipeline of @loreai/core: the temporal_messages table  *)
(* (temporal.ts), the distillations table, the per-session p-limit(1) that *)
(* serialises runs (session-limiter.ts), distillation.run and              *)
(* distillation.metaDistill (distillation.ts), the retention pass          *)
(* (temporal.prune), the deletions a user makes (data.ts) and the death of *)
(* the process between any two steps.                                      *)
(*                                                                         *)
(* A message is an opaque id with a token weight, a distillation row is    *)
(* the set of messages it summarises.  Every `await llm.prompt` splits its *)
(* function into the step that sends and the steps that receive; the       *)
(* messages, rows and generations the function read before the await stay  *)
(* in job[c], exactly as its local variables do.  `clock` stands for       *)
(* Date.now(): it advances with each insert and dates messages and rows.   *)
(***************************************************************************)
EXTENDS Naturals, FiniteSets, Sequences
LOCAL INSTANCE FiniteSetsExt

CONSTANTS
    Sessions,          \* sessions of one project
    Messages,          \* message ids: a hash of role, position and content
    CallIds,           \* bound: calls of run and metaDistill in progress at once
    Weight,            \* estimated tokens of each message
    MinMessages,       \* config distillation.minMessages
    MinSegmentTokens,  \* config distillation.minSegmentTokens
    MetaThreshold,     \* config distillation.metaThreshold
    LoweredThreshold,  \* metaThresholdOverride under bust pressure
    RecentToKeep,      \* config distillation.recentSegmentsToKeep
    MaxRounds,         \* maxRounds of runInner
    MaxStores,         \* bound: calls of temporal.store
    MaxEdits           \* bound: deletions made by the user

ASSUME ConstantsAssumption ==
    /\ Sessions # {}
    /\ Weight \in [Messages -> Nat]
    /\ {MinMessages, MinSegmentTokens, MetaThreshold, LoweredThreshold,
        RecentToKeep, MaxRounds, MaxStores, MaxEdits} \subseteq Nat

VARIABLES
    stored,     \* ids in temporal_messages
    owner,      \* temporal_messages.session_id
    at,         \* temporal_messages.created_at
    distilled,  \* ids with distilled = 1
    rows,       \* the distillations table
    queue,      \* calls waiting for the session's p-limit(1), oldest first
    job,        \* the local variables of each call
    clock,      \* Date.now()
    stores,     \* calls of temporal.store so far
    edits,      \* deletions by the user so far
    gone,       \* history: ids that were deleted at some time
    up          \* the gateway process runs

vars == <<stored, owner, at, distilled, rows, queue, job, clock, stores, edits, gone, up>>
messageVars == <<stored, owner, at, gone>>
otherVars == <<stores, edits, up>>

-----------------------------------------------------------------------------
(* Tables and calls. *)

Row == [id: Nat, ses: Sessions, gen: Nat, src: SUBSET Messages, archived: BOOLEAN]

\* The arguments of distillation.run and metaDistill that change what they do.
Arguments == [metaOnly: BOOLEAN, force: BOOLEAN, skipMeta: BOOLEAN, threshold: Nat]

Run(force, skipMeta, threshold) ==
    [metaOnly |-> FALSE, force |-> force, skipMeta |-> skipMeta, threshold |-> threshold]

Incremental == Run(FALSE, TRUE, MetaThreshold)   \* scheduleBackgroundWork
IdleRun     == Run(TRUE, TRUE, MetaThreshold)    \* idle handler, /lore:curate
UrgentRun   == Run(TRUE, FALSE, MetaThreshold)   \* overflow, compaction
BustRun     == Run(TRUE, FALSE, LoweredThreshold) \* overflow under bust pressure
IdleMeta    == [metaOnly |-> TRUE, force |-> FALSE, skipMeta |-> FALSE, threshold |-> MetaThreshold]

Calls == {Incremental, IdleRun, UrgentRun, BustRun, IdleMeta}

Active == {"segments", "distilling", "consolidating", "roundEnd"}

Job == [phase: {"none", "waiting"} \cup Active, ses: Sessions, call: Arguments, round: Nat,
        todo: SUBSET Messages, seg: SUBSET Messages, merge: SUBSET Row, anchor: Nat]

AnySession == CHOOSE s \in Sessions : TRUE

NewJob(phase, s, call) ==
    [phase |-> phase, ses |-> s, call |-> call, round |-> 0,
     todo |-> {}, seg |-> {}, merge |-> {}, anchor |-> 0]

NoJob == NewJob("none", AnySession, Incremental)

Continue(c, j) == job' = [job EXCEPT ![c] = j]
Finish(c) == Continue(c, NoJob)

Holders(s)   == {c \in CallIds : job[c].ses = s /\ job[c].phase \in Active}

RowsOf(s)    == {r \in rows : r.ses = s}
Covered(s)   == UNION {r.src : r \in RowsOf(s)}
Gen0(s)      == {r \in RowsOf(s) : r.gen = 0 /\ ~r.archived}
Metas(s)     == {r \in RowsOf(s) : r.gen > 0}
Pending(s)   == {m \in stored \ distilled : owner[m] = s}
Orphans(s)   == {m \in distilled : owner[m] = s /\ m \notin Covered(s)}

\* The first part of S in created_at order.
OldestFirst(S) == {T \in SUBSET S : \A m \in T, n \in S \ T : at[m] < at[n]}

Tokens(S) == MapThenSumSet(LAMBDA m : Weight[m], S)
Tiny(S)   == Tokens(S) < MinSegmentTokens

\* The gen-0 rows a consolidation merges: all but the most recent ones.
ToConsolidate(s) ==
    LET existing == Gen0(s)
        newer(r) == {q \in existing : q.id > r.id}
    IN  IF RecentToKeep > 0 /\ Cardinality(existing) >= RecentToKeep
        THEN {r \in existing : Cardinality(newer(r)) >= RecentToKeep}
        ELSE existing

\* g is the generation of latestMeta, 0 when the session has none.
IsAnchor(s, g) ==
    /\ g \in {0} \cup {r.gen : r \in Metas(s)}
    /\ \A r \in Metas(s) : r.gen <= g

\* A first consolidation needs three segments, an anchored one needs one.
Worthwhile(s) ==
    IF Metas(s) = {} THEN Cardinality(ToConsolidate(s)) >= 3 ELSE ToConsolidate(s) # {}

TwoOrMore(n) == IF n < 2 THEN 2 ELSE n

MetaDue(s, call) ==
    /\ ~call.skipMeta
    /\ Cardinality(Gen0(s)) >= TwoOrMore(call.threshold)
    /\ Worthwhile(s)

-----------------------------------------------------------------------------
(* Initial state: an empty database and no call in progress. *)

Init ==
    /\ stored = {}
    /\ owner = [m \in Messages |-> AnySession]
    /\ at = [m \in Messages |-> 0]
    /\ distilled = {}
    /\ rows = {}
    /\ queue = [s \in Sessions |-> <<>>]
    /\ job = [c \in CallIds |-> NoJob]
    /\ clock = 1
    /\ stores = 0
    /\ edits = 0
    /\ gone = {}
    /\ up = TRUE

-----------------------------------------------------------------------------
(* temporal.store, and the callers of run and metaDistill. *)

\* The id is looked up in the whole table: a message another session already
\* stored only has its content refreshed and stays with that session.
Store(s, m) ==
    /\ up
    /\ stores < MaxStores
    /\ stores' = stores + 1
    /\ IF m \in stored
       THEN UNCHANGED <<stored, owner, at, clock>>
       ELSE /\ stored' = stored \cup {m}
            /\ owner' = [owner EXCEPT ![m] = s]
            /\ at' = [at EXCEPT ![m] = clock]
            /\ clock' = clock + 1
    /\ UNCHANGED <<distilled, rows, queue, job, edits, gone, up>>

\* distillLimiter.get(sessionID)(...): the call queues for the session's slot.
\* The idle handler asks for a consolidation when it counts enough segments,
\* fewer under bust pressure; nothing is checked again once the slot is free.
Submit(c, s, call) ==
    /\ up
    /\ job[c].phase = "none"
    /\ call.metaOnly => \E t \in {MetaThreshold, LoweredThreshold} : Cardinality(Gen0(s)) >= t
    /\ Continue(c, NewJob("waiting", s, call))
    /\ queue' = [queue EXCEPT ![s] = Append(@, c)]
    /\ UNCHANGED <<messageVars, distilled, rows, clock, otherVars>>

-----------------------------------------------------------------------------
(* run: reset the orphans, read what is pending, walk the segments. *)

\* Mutant: no limiter, a call starts while another one is in progress.
Bug_Dequeue(c, s) ==
    /\ queue[s] # <<>>
    /\ c = Head(queue[s])
    /\ queue' = [queue EXCEPT ![s] = Tail(@)]

\* p-limit(1): the oldest waiting call starts when no call holds the slot.
Dequeue(c, s) ==
    /\ queue[s] # <<>>
    /\ c = Head(queue[s])
    /\ Holders(s) = {}
    /\ queue' = [queue EXCEPT ![s] = Tail(@)]

\* Mutant: the minMessages check ignores force.
Bug_StartRun(c) ==
    LET s       == job[c].ses
        pending == Pending(s) \cup Orphans(s)
    IN  /\ job[c].phase = "waiting"
        /\ ~job[c].call.metaOnly
        /\ Dequeue(c, s)
        /\ distilled' = distilled \ Orphans(s)
        /\ IF Cardinality(pending) < MinMessages
           THEN Finish(c)
           ELSE Continue(c, [job[c] EXCEPT !.phase = "segments", !.todo = pending])
        /\ UNCHANGED <<messageVars, rows, clock, otherVars>>

StartRun(c) ==
    LET s       == job[c].ses
        call    == job[c].call
        pending == Pending(s) \cup Orphans(s)
    IN  /\ job[c].phase = "waiting"
        /\ ~call.metaOnly
        /\ Dequeue(c, s)
        /\ distilled' = distilled \ Orphans(s)
        /\ IF ~call.force /\ Cardinality(pending) < MinMessages
           THEN Finish(c)
           ELSE Continue(c, [job[c] EXCEPT !.phase = "segments", !.todo = pending])
        /\ UNCHANGED <<messageVars, rows, clock, otherVars>>

\* detectSegments cuts the pending messages into runs of consecutive ones.
NextSegment(c, seg) ==
    /\ job[c].phase = "segments"
    /\ seg # {}
    /\ seg \in OldestFirst(job[c].todo)

\* A tiny segment: absorbed under force, else left for a later run.
TinySegment(c, seg) ==
    /\ NextSegment(c, seg)
    /\ Tiny(seg)
    /\ distilled' = IF job[c].call.force THEN distilled \cup (seg \cap stored) ELSE distilled
    /\ Continue(c, [job[c] EXCEPT !.todo = @ \ seg])
    /\ UNCHANGED <<messageVars, rows, queue, clock, otherVars>>

SendSegment(c, seg) ==
    /\ NextSegment(c, seg)
    /\ ~Tiny(seg)
    /\ Continue(c, [job[c] EXCEPT !.phase = "distilling", !.seg = seg, !.todo = @ \ seg])
    /\ UNCHANGED <<messageVars, distilled, rows, queue, clock, otherVars>>

AfterSegment(c) == Continue(c, [job[c] EXCEPT !.phase = "segments", !.seg = {}])

\* The prompt came back empty or unparseable: the messages stay pending.
SegmentFailed(c) ==
    /\ job[c].phase = "distilling"
    /\ AfterSegment(c)
    /\ UNCHANGED <<messageVars, distilled, rows, queue, clock, otherVars>>

\* The observations exceed the expansion limit: they are discarded, but the
\* messages are marked.
SegmentExpanded(c) ==
    /\ job[c].phase = "distilling"
    /\ distilled' = distilled \cup (job[c].seg \cap stored)
    /\ AfterSegment(c)
    /\ UNCHANGED <<messageVars, rows, queue, clock, otherVars>>

\* The row storeDistillation inserts for a segment.
SegmentRow(c) ==
    [id |-> clock, ses |-> job[c].ses, gen |-> 0, src |-> job[c].seg, archived |-> FALSE]

\* Mutant: a crash after storeDistillation leaves the messages unmarked.
Bug_SegmentStored(c) ==
    /\ job[c].phase = "distilling"
    /\ rows' = rows \cup {SegmentRow(c)}
    /\ clock' = clock + 1
    /\ AfterSegment(c)
    /\ UNCHANGED <<messageVars, distilled, queue, otherVars>>

\* BEGIN IMMEDIATE; storeDistillation; markDistilled; COMMIT.
SegmentStored(c) ==
    /\ job[c].phase = "distilling"
    /\ rows' = rows \cup {SegmentRow(c)}
    /\ distilled' = distilled \cup (job[c].seg \cap stored)
    /\ clock' = clock + 1
    /\ AfterSegment(c)
    /\ UNCHANGED <<messageVars, queue, otherVars>>

-----------------------------------------------------------------------------
(* metaDistill, called by itself or by run at the end of a round. *)

\* metaDistillInner up to its await.
SendMeta(c) ==
    LET s == job[c].ses
    IN  \E g \in {0} \cup {r.gen : r \in Metas(s)} :
            /\ IsAnchor(s, g)
            /\ Continue(c, [job[c] EXCEPT !.phase = "consolidating", !.merge = ToConsolidate(s), !.anchor = g])

StartMeta(c) ==
    /\ job[c].phase = "waiting"
    /\ job[c].call.metaOnly
    /\ Dequeue(c, job[c].ses)
    /\ IF Worthwhile(job[c].ses) THEN SendMeta(c) ELSE Finish(c)
    /\ UNCHANGED <<messageVars, distilled, rows, clock, otherVars>>

\* All segments of the round are done: consolidate, or go on to the round's end.
RoundMeta(c) ==
    /\ job[c].phase = "segments"
    /\ job[c].todo = {}
    /\ IF MetaDue(job[c].ses, job[c].call)
       THEN SendMeta(c)
       ELSE Continue(c, [job[c] EXCEPT !.phase = "roundEnd"])
    /\ UNCHANGED <<messageVars, distilled, rows, queue, clock, otherVars>>

\* What follows metaDistillInner: back to run, or the call is over.
AfterMeta(c) ==
    IF job[c].call.metaOnly
    THEN Finish(c)
    ELSE Continue(c, [job[c] EXCEPT !.phase = "roundEnd", !.merge = {}, !.anchor = 0])

MetaFailed(c) ==
    /\ job[c].phase = "consolidating"
    /\ AfterMeta(c)
    /\ UNCHANGED <<messageVars, distilled, rows, queue, clock, otherVars>>

MergedSources(c) == UNION {r.src : r \in job[c].merge}

\* Mutant: only the sources that are still in temporal_messages are listed.
Bug_MetaRow(c) ==
    [id |-> clock, ses |-> job[c].ses, gen |-> job[c].anchor + 1,
     src |-> MergedSources(c) \cap stored, archived |-> FALSE]

\* The row storeDistillation inserts for a consolidation.
MetaRow(c) ==
    [id |-> clock, ses |-> job[c].ses, gen |-> job[c].anchor + 1,
     src |-> MergedSources(c), archived |-> FALSE]

Archive(ids) == {[r EXCEPT !.archived = r.archived \/ r.id \in ids] : r \in rows}

\* BEGIN IMMEDIATE; storeDistillation; archiveDistillations; COMMIT.
MetaStored(c) ==
    /\ job[c].phase = "consolidating"
    /\ rows' = Archive({r.id : r \in job[c].merge}) \cup {MetaRow(c)}
    /\ clock' = clock + 1
    /\ AfterMeta(c)
    /\ UNCHANGED <<messageVars, distilled, queue, otherVars>>

\* Only a forced run reads the table again, at most MaxRounds times in all.
EndRound(c) ==
    /\ job[c].phase = "roundEnd"
    /\ IF job[c].call.force /\ job[c].round + 1 < MaxRounds
       THEN Continue(c, [job[c] EXCEPT !.phase = "segments", !.round = @ + 1, !.todo = Pending(job[c].ses)])
       ELSE Finish(c)
    /\ UNCHANGED <<messageVars, distilled, rows, queue, clock, otherVars>>

\* A transaction that cannot commit is rolled back and rethrown: the call ends.
Throw(c) ==
    /\ job[c].phase \in {"distilling", "consolidating"}
    /\ Finish(c)
    /\ UNCHANGED <<messageVars, distilled, rows, queue, clock, otherVars>>

-----------------------------------------------------------------------------
(* Retention, deletions by the user and process death. *)

Remove(ms) ==
    /\ stored' = stored \ ms
    /\ distilled' = distilled \ ms
    /\ gone' = gone \cup (ms \cap stored)

\* Mutant: old rows are deleted whether they are archived or not.
Bug_Prune(cutoff) ==
    LET expired == {m \in distilled : at[m] < cutoff}
    IN  /\ up
        /\ \E evicted \in OldestFirst(distilled \ expired) : Remove(expired \cup evicted)
        /\ rows' = {r \in rows : r.id >= cutoff}
        /\ UNCHANGED <<owner, at, queue, job, clock, otherVars>>

\* temporal.prune: distilled messages older than the cutoff, then the oldest
\* distilled ones until the size cap is met, then old archived rows.
Prune(cutoff) ==
    LET expired == {m \in distilled : at[m] < cutoff}
    IN  /\ up
        /\ \E evicted \in OldestFirst(distilled \ expired) : Remove(expired \cup evicted)
        /\ rows' = {r \in rows : ~(r.archived /\ r.id < cutoff)}
        /\ UNCHANGED <<owner, at, queue, job, clock, otherVars>>

UserEdit ==
    /\ edits < MaxEdits
    /\ edits' = edits + 1
    /\ UNCHANGED <<owner, at, queue, job, clock, stores, up>>

DeleteDistillation(r) ==
    /\ UserEdit
    /\ rows' = rows \ {r}
    /\ UNCHANGED <<stored, distilled, gone>>

DeleteSession(s) ==
    /\ UserEdit
    /\ Remove({m \in stored : owner[m] = s})
    /\ rows' = rows \ RowsOf(s)

ClearTemporal ==
    /\ UserEdit
    /\ Remove(stored)
    /\ UNCHANGED rows

ClearDistillations ==
    /\ UserEdit
    /\ rows' = {}
    /\ UNCHANGED <<stored, distilled, gone>>

\* The process dies: waiting and running calls vanish, the database stays (and
\* the command line can still edit it).
Crash ==
    /\ up
    /\ up' = FALSE
    /\ queue' = [s \in Sessions |-> <<>>]
    /\ job' = [c \in CallIds |-> NoJob]
    /\ UNCHANGED <<messageVars, distilled, rows, clock, stores, edits>>

Restart ==
    /\ ~up
    /\ up' = TRUE
    /\ UNCHANGED <<messageVars, distilled, rows, queue, job, clock, stores, edits>>

-----------------------------------------------------------------------------
(* The specification. *)

Answer(c) ==
    \/ SegmentFailed(c) \/ SegmentExpanded(c) \/ SegmentStored(c)
    \/ MetaFailed(c) \/ MetaStored(c) \/ Throw(c)

Step(c) ==
    \/ StartRun(c)
    \/ StartMeta(c)
    \/ \E seg \in SUBSET job[c].todo : TinySegment(c, seg) \/ SendSegment(c, seg)
    \/ RoundMeta(c)
    \/ EndRound(c)
    \/ Answer(c)

Edit ==
    \/ \E r \in rows : DeleteDistillation(r)
    \/ \E s \in Sessions : DeleteSession(s)
    \/ ClearTemporal
    \/ ClearDistillations

Next ==
    \/ \E s \in Sessions, m \in Messages : Store(s, m)
    \/ \E c \in CallIds, s \in Sessions, call \in Calls : Submit(c, s, call)
    \/ \E c \in CallIds : Step(c)
    \/ \E cutoff \in 0 .. clock : Prune(cutoff)
    \/ Edit
    \/ Crash
    \/ Restart

Spec == Init /\ [][Next]_vars

\* The event loop runs what is ready and every prompt is answered in the end
\* (the adapter bounds its retries, the batch queue its age).  Nothing is
\* assumed of users, of retention or of the outcome of a prompt.
FairSpec == Spec /\ \A c \in CallIds : WF_vars(Step(c))

-----------------------------------------------------------------------------
(* Properties. *)

\* Every variable has its type; marks and pending work refer to known ids.
TypeOK ==
    /\ stored \in SUBSET Messages
    /\ owner \in [Messages -> Sessions]
    /\ at \in [Messages -> Nat]
    /\ distilled \in SUBSET stored
    /\ rows \in SUBSET Row
    /\ queue \in [Sessions -> Seq(CallIds)]
    /\ job \in [CallIds -> Job]
    /\ clock \in Nat \ {0}
    /\ stores \in Nat
    /\ edits \in Nat
    /\ gone \in SUBSET Messages
    /\ up \in BOOLEAN

\* No message is summarised by two segments of its session: p-limit(1) and the
\* transaction around store and mark exist to prevent duplicate rows.  Only an
\* id that was deleted and stored again may be summarised afresh.
NoDuplicateDistillation ==
    \A r1, r2 \in rows :
        r1.ses = r2.ses /\ r1.gen = 0 /\ r2.gen = 0 /\ r1 # r2 => r1.src \cap r2.src \subseteq gone

\* A message that waits for distillation is in no row of its session, whatever
\* crashed, was pruned or was reset before: the mark and the row agree.
NoCoveredPending ==
    \A s \in Sessions : Pending(s) \cap Covered(s) \subseteq gone

\* Archiving hides a row from the in-context prefix, but never the only row
\* that summarises a message: what any row of a session covers, a row in the
\* prefix covers too, unless a user deleted rows.
PrefixReachesAll ==
    edits = 0 => \A s \in Sessions : Covered(s) = UNION {r.src : r \in {q \in RowsOf(s) : ~q.archived}}

\* Retention deletes archived rows only after their sources moved to a
\* consolidation: what a session's rows cover never shrinks, so resetOrphans
\* finds nothing to send again after a prune, a crash or a consolidation.
CoverageNeverShrinks ==
    [][edits' = 0 => \A s \in Sessions : Covered(s) \subseteq Covered(s)']_vars

\* The idle scheduler submits a forced run whenever messages are pending, the
\* model does not fail for ever on what it is sent, and the process stays up.
IdleRunsKeepComing ==
    /\ \A s \in Sessions : SF_vars(\E c \in CallIds : Submit(c, s, IdleRun))
    /\ \A c \in CallIds : SF_vars(SegmentStored(c))
    /\ <>[]up

\* Under that assumption a pending message that is not tiny is summarised in
\* the end (or deleted).
EventuallyDistilled ==
    IdleRunsKeepComing =>
        \A m \in Messages : ~Tiny({m}) => ((m \in stored \ distilled) ~> (m \notin stored \ distilled))
=============================================================================
