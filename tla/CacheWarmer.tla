----------------------------- MODULE CacheWarmer -----------------------------
(***************************************************************************)
(* The cache warmer (gateway cache-warmer.ts, the poll of idle.ts and its  *)
(* bookkeeping in pipeline.ts): a session whose prompt cache is about to   *)
(* expire gets a warm-up, a replay of its last request, unless it seems    *)
(* finished, costs more than it saves, was stopped by the user, or the     *)
(* circuit breaker has tripped.                                            *)
(*                                                                         *)
(* A warm-up awaits the provider: turns, commands and restarts come in     *)
(* between.  Time is counted in polls of the idle scheduler.  The survival *)
(* statistics are not modelled: whether they find a warm-up worth its      *)
(* cost, and survival low, is chosen freely at each poll.                  *)
(***************************************************************************)
EXTENDS Integers

CONSTANTS
    Sessions,                   \* sessions that are no sub-agent's: those are never warmed
    TTL, Margin,                \* lifetime of a cache entry, and its last part, in polls
    MaxCycles,                  \* maxProfitableCycles of the model's prices
    TOOL_CALL_MAX_CYCLES, MAX_TOOL_CALL_WARMING,
    CIRCUIT_BREAKER_MAX_FAILURES,
    MIN_WARMUPS_FOR_ROI_CHECK,
    HitShare,                   \* one hit in so many warm-ups is enough (MIN_SESSION_HIT_RATE)
    MaxTime,                    \* bound: polls
    MaxTurns,                   \* bound: requests of the clients
    MaxCommands,                \* bound: /lore:warm commands
    MaxRestarts                 \* bound: restarts of the gateway

ASSUME TimeAssumption == TTL \in Nat \ {0} /\ Margin \in 1..TTL
ASSUME LimitAssumption ==
    /\ {MaxCycles, TOOL_CALL_MAX_CYCLES, MAX_TOOL_CALL_WARMING, MIN_WARMUPS_FOR_ROI_CHECK} \subseteq Nat
    /\ {CIRCUIT_BREAKER_MAX_FAILURES, HitShare} \subseteq Nat \ {0}

VARIABLES
    now,
    state,    \* the sessions in memory
    turn,     \* "open" while a request of the session awaits its answer
    flight,   \* warmupInProgress
    breaker,  \* circuitBreakerFailures, -Tripped, -Loaded
    table,    \* what survives a restart: session_state, and kv_meta
    made,     \* counters that bound the run
    history   \* history: warm-ups and requests since the last answered turn, stops, a tripped breaker

vars == <<now, state, turn, flight, breaker, table, made, history>>

-----------------------------------------------------------------------------

NoWarmup == [lastWarmupAt |-> 0, count |-> 0, total |-> 0, hits |-> 0, disabled |-> FALSE, forced |-> FALSE]
NotLoaded == [loaded |-> FALSE, last |-> 0, body |-> FALSE, large |-> FALSE, tool |-> FALSE, warmup |-> NoWarmup, dirty |-> FALSE]
FreshBreaker == [failures |-> 0, tripped |-> FALSE, loaded |-> FALSE]

Init ==
    /\ now = 1
    /\ state = [s \in Sessions |-> NotLoaded]
    /\ turn = [s \in Sessions |-> "none"]
    /\ flight = {}
    /\ breaker = FreshBreaker
    /\ table = [warmup |-> [s \in Sessions |-> NoWarmup], failures |-> 0, tripped |-> FALSE]
    /\ made = [turns |-> 0, commands |-> 0, restarts |-> 0]
    /\ history = [spent |-> [s \in Sessions |-> 0], begun |-> [s \in Sessions |-> 0], stopped |-> {}, tripped |-> FALSE]

-----------------------------------------------------------------------------
(* shouldWarm *)

Elapsed(x, t) == t - x.last
InMargin(x, t) == Elapsed(x, t) % TTL >= TTL - Margin
CoolsDown(x, t) == x.warmup.lastWarmupAt # 0 /\ t - x.warmup.lastWarmupAt < TTL - Margin
IsUnprofitable(w) == w.total >= MIN_WARMUPS_FOR_ROI_CHECK /\ w.hits * HitShare < w.total

\* /lore:warm:keep
KeepsWarm(x, t) == x.warmup.forced /\ x.warmup.count < MaxCycles /\ InMargin(x, t)

\* A bug: a stopped session is warmed during a tool call.
Bug_InToolCall(x) == ~x.warmup.forced /\ x.tool

InToolCall(x) == ~x.warmup.forced /\ x.tool /\ ~x.warmup.disabled

WarmsToolCall(x, t) ==
    /\ InToolCall(x)
    /\ Elapsed(x, t) <= MAX_TOOL_CALL_WARMING
    /\ ~IsUnprofitable(x.warmup)
    /\ x.warmup.count < MaxCycles /\ x.warmup.count < TOOL_CALL_MAX_CYCLES
    /\ InMargin(x, t)

\* The commitment model decides: in the first window of the cache's lifetime,
\* and later ones.
IsConsidered(x) == ~x.warmup.forced /\ ~InToolCall(x) /\ ~x.warmup.disabled /\ ~IsUnprofitable(x.warmup)
InFirstWindow(x, t) == Elapsed(x, t) < TTL

\* A bug: one cycle too many.
Bug_HasCycles(w) == w.count <= MaxCycles

HasCycles(w) == w.count < MaxCycles

Commits(x, t, isWorth) == IsConsidered(x) /\ InFirstWindow(x, t) /\ InMargin(x, t) /\ isWorth
Continues(x, t, isWorth) ==
    IsConsidered(x) /\ ~InFirstWindow(x, t) /\ HasCycles(x.warmup) /\ isWorth /\ InMargin(x, t)

\* markDeadIfSurvivalLow
MarksDead(x, t, isWorth, isLow) ==
    /\ IsConsidered(x) /\ isLow
    /\ IF InFirstWindow(x, t) THEN InMargin(x, t) /\ ~isWorth ELSE ~HasCycles(x.warmup) \/ ~isWorth

\* A session with a request to replay, a large enough context and enough turns.
IsEligible(x, t) == x.loaded /\ x.large /\ x.body /\ ~CoolsDown(x, t)

ShouldWarm(x, t, isWorth) ==
    IsEligible(x, t) /\ (KeepsWarm(x, t) \/ WarmsToolCall(x, t) \/ Commits(x, t, isWorth) \/ Continues(x, t, isWorth))

-----------------------------------------------------------------------------
(* The circuit breaker *)

EnsureLoaded(b) == IF b.loaded THEN b ELSE [failures |-> table.failures, tripped |-> table.tripped, loaded |-> TRUE]

\* checkCircuitBreaker
Checked(b, outcome) ==
    IF b.tripped \/ outcome = "neither" THEN b
    ELSE IF outcome = "write"
    THEN [b EXCEPT !.failures = @ + 1, !.tripped = b.failures + 1 >= CIRCUIT_BREAKER_MAX_FAILURES]
    ELSE [b EXCEPT !.failures = 0]

\* saveCircuitBreaker
\* A bug: the trip itself is not saved.
Bug_Saved(b) == [table EXCEPT !.failures = b.failures]

Saved(b) == [table EXCEPT !.failures = b.failures, !.tripped = b.tripped]

-----------------------------------------------------------------------------
(* The idle scheduler *)

\* Sessions changed by a turn are saved; warm-ups and commands do not count.
Flushed(st) == [table EXCEPT !.warmup = [s \in Sessions |-> IF st[s].dirty THEN st[s].warmup ELSE @[s]]]

Poll ==
    /\ now < MaxTime
    /\ now' = now + 1
    /\ breaker' = EnsureLoaded(breaker)
    /\ IF breaker'.tripped THEN UNCHANGED <<state, flight, table>>
       ELSE \E isWorth, isLow \in [Sessions -> BOOLEAN] :
            LET warmed == {s \in Sessions \ flight : ShouldWarm(state[s], now + 1, isWorth[s])}
                dead   == {s \in Sessions \ flight : IsEligible(state[s], now + 1) /\
                              MarksDead(state[s], now + 1, isWorth[s], isLow[s])}
                marked == [s \in Sessions |-> IF s \in dead THEN [state[s] EXCEPT !.warmup.disabled = TRUE] ELSE state[s]]
            IN  /\ flight' = flight \cup warmed
                /\ table' = Flushed(marked)
                /\ state' = [s \in Sessions |-> [marked[s] EXCEPT !.dirty = FALSE]]
    /\ UNCHANGED <<turn, made, history>>

\* executeWarmup, after its answer: the provider has read its cache or written
\* it again, or neither, or refused the request.
WarmupAnswered(s) ==
    /\ s \in flight
    /\ flight' = flight \ {s}
    /\ \E outcome \in {"read", "write", "neither", "refused"} :
         IF outcome = "refused" THEN UNCHANGED <<state, breaker, table, history>>
         ELSE LET b == EnsureLoaded(breaker) IN
              /\ state' = [state EXCEPT ![s].warmup.lastWarmupAt = now, ![s].warmup.count = @ + 1, ![s].warmup.total = @ + 1]
              /\ breaker' = Checked(b, outcome)
              /\ table' = IF b.tripped \/ outcome = "neither" THEN table ELSE Saved(Checked(b, outcome))
              /\ history' = [history EXCEPT !.spent[s] = @ + 1, !.tripped = @ \/ breaker'.tripped]
    /\ UNCHANGED <<now, turn, made>>

-----------------------------------------------------------------------------
(* Turns *)

\* getOrCreateSession
Touched(s) == IF state[s].loaded THEN [state[s] EXCEPT !.last = now]
              ELSE [NotLoaded EXCEPT !.loaded = TRUE, !.last = now, !.warmup = table.warmup[s]]

TurnBegins(s) ==
    /\ turn[s] = "none" /\ made.turns < MaxTurns
    /\ state' = [state EXCEPT ![s] = Touched(s)]
    /\ turn' = [turn EXCEPT ![s] = "open"]
    /\ made' = [made EXCEPT !.turns = @ + 1]
    /\ history' = [history EXCEPT !.begun[s] = @ + 1]
    /\ UNCHANGED <<now, flight, breaker, table>>

\* postResponse: a warm-up within the lifetime of the cache is a hit, once;
\* the next break starts with no cycle spent, unless it is kept warm anyway.
IsHit(w) == w.lastWarmupAt # 0 /\ now - w.lastWarmupAt < TTL

\* A bug: the warm-up is not forgotten, and counts for the next turn again.
Bug_Resumed(w) ==
    [w EXCEPT !.hits = IF IsHit(w) THEN @ + 1 ELSE @, !.disabled = FALSE, !.count = IF w.forced THEN @ ELSE 0]

Resumed(w) ==
    [w EXCEPT !.lastWarmupAt = 0, !.hits = IF IsHit(w) THEN @ + 1 ELSE @,
              !.disabled = FALSE, !.count = IF w.forced THEN @ ELSE 0]

TurnAnswered(s) ==
    /\ turn[s] = "open"
    /\ turn' = [turn EXCEPT ![s] = "none"]
    /\ \E isTool, isLarge \in BOOLEAN :
           state' = [state EXCEPT ![s] = [@ EXCEPT !.body = TRUE, !.large = isLarge, !.tool = isTool,
                                                   !.warmup = Resumed(state[s].warmup), !.dirty = TRUE]]
    /\ history' = [history EXCEPT !.spent[s] = 0, !.begun[s] = 0, !.stopped = @ \ {s}]
    /\ UNCHANGED <<now, flight, breaker, table, made>>

\* The provider refuses the request, or the connection breaks.
TurnFails(s) ==
    /\ turn[s] = "open"
    /\ turn' = [turn EXCEPT ![s] = "none"]
    /\ UNCHANGED <<now, state, flight, breaker, table, made, history>>

\* A request for a compaction, or a call of /v1/compact for a known session:
\* the body is of no use any more.
Compaction(s) ==
    /\ turn[s] = "none" /\ made.turns < MaxTurns
    /\ \/ /\ state' = [state EXCEPT ![s] = [Touched(s) EXCEPT !.body = FALSE]]
          /\ history' = [history EXCEPT !.begun[s] = @ + 1]
       \/ /\ state[s].body
          /\ state' = [state EXCEPT ![s].body = FALSE]
          /\ UNCHANGED history
    /\ made' = [made EXCEPT !.turns = @ + 1]
    /\ UNCHANGED <<now, turn, flight, breaker, table>>

\* /lore:warm:stop, /lore:warm:keep, /lore:warm:auto
WarmCommand(s) ==
    /\ state[s].loaded /\ made.commands < MaxCommands
    /\ made' = [made EXCEPT !.commands = @ + 1]
    /\ \E command \in {"stop", "keep", "auto"} :
           /\ state' = [state EXCEPT ![s].warmup.disabled = command = "stop", ![s].warmup.forced = command = "keep"]
           /\ history' = [history EXCEPT !.stopped = IF command = "stop" THEN @ \cup {s} ELSE @ \ {s}]
    /\ UNCHANGED <<now, turn, flight, breaker, table>>

\* The gateway stops, or dies, and starts again.
Restart ==
    /\ made.restarts < MaxRestarts
    /\ made' = [made EXCEPT !.restarts = @ + 1]
    /\ state' = [s \in Sessions |-> NotLoaded]
    /\ turn' = [s \in Sessions |-> "none"]
    /\ flight' = {}
    /\ breaker' = FreshBreaker
    /\ UNCHANGED <<now, table, history>>

Next ==
    \/ Poll
    \/ \E s \in Sessions :
         WarmupAnswered(s) \/ TurnBegins(s) \/ TurnAnswered(s) \/ TurnFails(s) \/ Compaction(s) \/ WarmCommand(s)
    \/ Restart

Spec == Init /\ [][Next]_vars

-----------------------------------------------------------------------------
(* Properties *)

TypeOK ==
    /\ now \in 1..MaxTime
    /\ flight \subseteq {s \in Sessions : state[s].loaded}
    /\ \A s \in Sessions :
         /\ turn[s] \in {"none", "open"} /\ (turn[s] = "open" => state[s].loaded)
         /\ state[s].last \in 0..now /\ state[s].warmup.lastWarmupAt \in 0..now
    /\ breaker.failures \in 0..CIRCUIT_BREAKER_MAX_FAILURES

\* A hit is backed by a warm-up of its own, in memory and in the table: the
\* hit rate the profitability check uses is at most one, whatever answers late
\* or is lost in a restart.
IsBacked(w) == w.hits + (IF w.lastWarmupAt # 0 THEN 1 ELSE 0) <= w.total
HitsBacked == \A s \in Sessions : IsBacked(state[s].warmup) /\ IsBacked(table.warmup[s])

\* Between two answered turns a session pays for no more warm-ups than can be
\* profitable, and one for each request in between that moved its clock
\* without an answer.
CyclesBounded == \A s \in Sessions : history.spent[s] <= MaxCycles + history.begun[s]

\* Once the breaker has tripped no warm-up is sent, in this process or a later one.
BreakerStays == [][history.tripped => flight' \subseteq flight]_vars

\* After /lore:warm:stop no warm-up is sent until the session's next answered
\* turn, whichever path decides.
StopHolds == [][\A s \in history.stopped : s \in flight' => s \in flight]_vars

\* A crash loses at most what happened since the last poll (idle.ts:149): a
\* poll leaves no changed session unsaved.
FlushedEachPoll == [][now' # now => \A s \in Sessions : ~state'[s].dirty]_vars
=============================================================================
