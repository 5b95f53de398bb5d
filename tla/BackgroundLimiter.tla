------------------------- MODULE BackgroundLimiter -------------------------
(***************************************************************************)
(* Background calls to the model: the p-limit(2) and the circuit breaker   *)
(* of background-limiter.ts, and the retry loop of the adapter's prompt    *)
(* (llm-adapter.ts) that trips the breaker.                                *)
(*                                                                         *)
(* One unit of time is a minute, the first entry of BACKOFF_SCHEDULE; the  *)
(* pauses of a few seconds between two attempts are zero.  Deadlines are   *)
(* kept as the time that is left, so that no clock has to be bounded.      *)
(***************************************************************************)
EXTENDS Naturals, FiniteSets, Sequences

CONSTANTS
    Limited,     \* tasks that go through runBackground
    Loose,       \* background calls that do not: import, batch fallbacks
    Urgent,      \* calls a client waits for
    Concurrency, \* BACKGROUND_CONCURRENCY
    Schedule,    \* BACKOFF_SCHEDULE
    Hints,       \* Retry-After values the provider may send; 0: none
    MaxRetries,  \* MAX_RETRIES_RATE_LIMIT and MAX_RETRIES_SERVER
    UrgentRetries, \* MAX_RETRIES_URGENT
    HintCap,     \* RETRY_AFTER_CAP_BACKGROUND_MS
    MaxCalls     \* bound: model calls one task makes

Tasks == Limited \cup Loose \cup Urgent

ASSUME LimiterAssumption ==
    /\ Limited \cap (Loose \cup Urgent) = {} /\ Loose \cap Urgent = {}
    /\ {Concurrency, MaxRetries, UrgentRetries, HintCap} \subseteq Nat
    /\ Concurrency > 0 /\ MaxCalls \in Nat \ {0}
    /\ IsFiniteSet(Limited)
    /\ Schedule \in Seq(Nat \ {0}) /\ Schedule # <<>>
    /\ \A i \in 1 .. Len(Schedule) : Schedule[i] <= Schedule[Len(Schedule)]
    /\ Hints \subseteq Nat

VARIABLES
    tripped,  \* circuitOpenUntil # 0
    left,     \* circuitOpenUntil - now, when positive
    trips,    \* consecutiveTrips, as far as the schedule tells it apart
    waiting,  \* tasks pending in the limiter
    task      \* what each task is doing

limiterVars == <<tripped, left, trips, waiting, task>>
breaker == <<tripped, left, trips>>

-----------------------------------------------------------------------------

\* "asking": the request of an attempt is out; "sleeping": between attempts.
Task == [state: {"none", "queued", "asking", "sleeping"}, sleep: Nat, attempt: Nat, calls: 0 .. MaxCalls]

NoTask  == [state |-> "none", sleep |-> 0, attempt |-> 0, calls |-> 0]
Queued  == [NoTask EXCEPT !.state = "queued"]
Running == [NoTask EXCEPT !.state = "asking", !.calls = 1]

Become(t, record) == task' = [task EXCEPT ![t] = record]

HoldsSlot(t) == task[t].state \in {"asking", "sleeping"}
Active  == {t \in Limited : HoldsSlot(t)}

Least(a, b)    == IF a < b THEN a ELSE b
Greatest(a, b) == IF a < b THEN b ELSE a

\* isBackgroundPaused, called by everything that asks: a pause that has run
\* out is taken for a recovery and resets the escalation.
Paused == tripped /\ left > 0

NotePause ==
    IF Paused
    THEN UNCHANGED breaker
    ELSE tripped' = FALSE /\ left' = 0 /\ trips' = 0

\* Mutant: each trip is added to the pause in progress.
Bug_TripCircuitBreaker(hint) ==
    /\ left' = left + Greatest(hint, Schedule[Least(trips, Len(Schedule) - 1) + 1])
    /\ trips' = Least(trips + 1, Len(Schedule))
    /\ tripped' = TRUE

\* tripCircuitBreaker: the longer of the schedule and the server's hint, never
\* shortening a pause.  It does not look whether the last one has run out.
TripCircuitBreaker(hint) ==
    /\ left' = Greatest(left, Greatest(hint, Schedule[Least(trips, Len(Schedule) - 1) + 1]))
    /\ trips' = Least(trips + 1, Len(Schedule))
    /\ tripped' = TRUE

-----------------------------------------------------------------------------

LimiterInit ==
    /\ tripped = FALSE
    /\ left = 0
    /\ trips = 0
    /\ waiting = <<>>
    /\ task = [t \in Tasks |-> NoTask]

\* A minute goes by.
Tick ==
    /\ left' = Greatest(left, 1) - 1
    /\ task' = [t \in Tasks |-> [task[t] EXCEPT !.sleep = Greatest(@, 1) - 1]]
    /\ UNCHANGED <<tripped, trips, waiting>>

-----------------------------------------------------------------------------
(* runBackground, and the calls that bypass it. *)

\* During a pause the task is skipped: its promise resolves to undefined.
Submit(t) ==
    /\ task[t].state = "none"
    /\ NotePause
    /\ IF Paused
       THEN UNCHANGED <<waiting, task>>
       ELSE /\ waiting' = Append(waiting, t)
            /\ Become(t, Queued)

\* Mutant: the breaker is not asked again when the task leaves the queue.
Bug_Start(t) ==
    /\ Len(waiting) > 0
    /\ t = Head(waiting)
    /\ Cardinality(Active) < Concurrency
    /\ waiting' = Tail(waiting)
    /\ Become(t, Running)
    /\ UNCHANGED breaker

\* A slot is free: the breaker is asked once more.
Start(t) ==
    /\ Len(waiting) > 0
    /\ t = Head(waiting)
    /\ Cardinality(Active) < Concurrency
    /\ waiting' = Tail(waiting)
    /\ NotePause
    /\ Become(t, IF Paused THEN NoTask ELSE Running)

Bypass(t) ==
    /\ t \in Loose \cup Urgent
    /\ task[t].state = "none"
    /\ Become(t, Running)
    /\ UNCHANGED <<breaker, waiting>>

-----------------------------------------------------------------------------
(* prompt of the adapter. *)

\* The call is over: the task makes another one or returns.
CallOver(t) ==
    \/ Become(t, NoTask)
    \/ /\ t \notin Urgent
       /\ task[t].calls < MaxCalls
       /\ Become(t, [Running EXCEPT !.calls = task[t].calls + 1])

\* A text, a status that is not transient, or an answer that does not parse.
Answered(t) ==
    /\ task[t].state = "asking"
    /\ CallOver(t)
    /\ UNCHANGED <<breaker, waiting>>

RetriesOf(t) == IF t \in Urgent THEN UrgentRetries ELSE MaxRetries

\* Mutant: the attempts of a call are not counted.
Bug_Retry(t, delay) ==
    IF task[t].attempt < RetriesOf(t)
    THEN Become(t, [task[t] EXCEPT !.state = "sleeping", !.sleep = delay])
    ELSE CallOver(t)

Retry(t, delay) ==
    IF task[t].attempt < RetriesOf(t)
    THEN Become(t, [task[t] EXCEPT !.state = "sleeping", !.sleep = delay, !.attempt = @ + 1])
    ELSE CallOver(t)

\* A hint is followed up to its cap, which is seconds for an urgent call.
HintDelay(t, hint) == IF t \in Urgent THEN 0 ELSE Least(hint, HintCap)

\* A network error or a 5xx: without a hint the next attempt follows within seconds.
ServerError(t, hint) ==
    /\ task[t].state = "asking"
    /\ Retry(t, HintDelay(t, hint))
    /\ UNCHANGED <<breaker, waiting>>

\* After a 429 without a hint, a minute more each time.
RateLimitDelay(t, hint) ==
    IF t \notin Urgent /\ hint = 0 THEN Least(1 + task[t].attempt, 3) ELSE HintDelay(t, hint)

\* An urgent call never pauses the background.
RateLimited(t, hint) ==
    /\ task[t].state = "asking"
    /\ IF t \in Urgent THEN UNCHANGED breaker ELSE TripCircuitBreaker(hint)
    /\ Retry(t, RateLimitDelay(t, hint))
    /\ UNCHANGED waiting

Wake(t) ==
    /\ task[t].state = "sleeping"
    /\ task[t].sleep = 0
    /\ Become(t, [task[t] EXCEPT !.state = "asking"])
    /\ UNCHANGED <<breaker, waiting>>

-----------------------------------------------------------------------------

Step(t) ==
    \/ Answered(t) \/ Wake(t)
    \/ \E hint \in Hints \cup {0} : ServerError(t, hint)
    \/ \E hint \in Hints : RateLimited(t, hint)

LimiterNext ==
    \/ \E t \in Limited : Submit(t) \/ Start(t)
    \/ \E t \in Tasks : Bypass(t) \/ Step(t)
    \/ Tick

LimiterSpec == LimiterInit /\ [][LimiterNext]_limiterVars

\* Time passes, the limiter runs what it can, and every request is answered
\* or fails.  Nothing makes the provider stop sending 429s.
FairLimiterSpec ==
    /\ LimiterSpec
    /\ WF_limiterVars(Tick)
    /\ \A t \in Tasks : WF_limiterVars(Step(t))
    /\ \A t \in Limited : WF_limiterVars(Start(t))

-----------------------------------------------------------------------------
(* Properties. *)

\* Types; the tasks in progress and their attempts stay within their limits.
LimiterTypeOK ==
    /\ tripped \in BOOLEAN
    /\ left \in Nat
    /\ trips \in 0 .. Len(Schedule)
    /\ waiting \in Seq(Limited)
    /\ task \in [Tasks -> Task]
    /\ Cardinality(Active) <= Concurrency
    /\ \A t \in Tasks : task[t].attempt <= RetriesOf(t)

\* However many calls are refused at once and in a row, the background is not
\* paused for longer than the last entry of the schedule or the longest hint.
PauseBounded ==
    \E bound \in Hints \cup {Schedule[Len(Schedule)]} : left <= bound

\* A task that waited for a slot while the breaker tripped does not start.
NoStartInPause ==
    [][\A t \in Limited : task[t].state = "queued" /\ HoldsSlot(t)' => ~Paused]_limiterVars

\* Every task returns and gives its slot back, even if the provider refuses
\* all calls for ever.
TasksReturn ==
    \A t \in Tasks : (task[t].state # "none") ~> (task[t].state = "none")
=============================================================================
