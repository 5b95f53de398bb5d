-------------------------- MODULE BackgroundProofs --------------------------
(***************************************************************************)
(* Theorems about the gateway's background work, for every value of the    *)
(* constants: the limiter and the breaker that calls to the model pass     *)
(* (module BackgroundLimiter), the curations (module Curation), and what   *)
(* they and a .lore.md file do to the knowledge table (module LoreFile).   *)
(***************************************************************************)
EXTENDS BackgroundLimiter, Curation, LoreFile, FiniteSetTheorems, SequenceTheorems, WellFoundedInduction, TLAPS

(* The limiter and the breaker.                                            *)

-----------------------------------------------------------------------------
(* The parts of the type invariant.                                        *)

BreakerType == tripped \in BOOLEAN /\ left \in Nat /\ trips \in 0 .. Len(Schedule)
TasksType   == task \in [Tasks -> Task] /\ \A t \in Tasks : task[t].attempt <= RetriesOf(t)
SlotsType   == Cardinality(Active) <= Concurrency

LEMMA TypeParts ==
    LimiterTypeOK <=> BreakerType /\ TasksType /\ SlotsType /\ waiting \in Seq(Limited)
BY DEF LimiterTypeOK, BreakerType, TasksType, SlotsType

LEMMA LimiterNumbers ==
    /\ MaxRetries \in Nat /\ UrgentRetries \in Nat /\ HintCap \in Nat
    /\ Concurrency \in Nat /\ Concurrency > 0 /\ MaxCalls \in Nat /\ MaxCalls > 0
    /\ Len(Schedule) \in Nat /\ Len(Schedule) > 0
    /\ \A i \in 1 .. Len(Schedule) : Schedule[i] \in Nat
BY LimiterAssumption

LEMMA RetriesType == \A t : RetriesOf(t) \in Nat
BY LimiterNumbers DEF RetriesOf

LEMMA RecordTypes ==
    /\ {NoTask, Queued, Running} \subseteq Task
    /\ NoTask.attempt = 0 /\ Queued.attempt = 0 /\ Running.attempt = 0
    /\ NoTask.state = "none" /\ Queued.state = "queued" /\ Running.state = "asking"
<1>1. NoTask \in Task /\ NoTask.attempt = 0 /\ NoTask.state = "none"
  BY LimiterNumbers DEF NoTask, Task
<1>2. Queued \in Task /\ Queued.attempt = 0 /\ Queued.state = "queued"
  BY LimiterNumbers DEF Queued, NoTask, Task
<1>3. Running \in Task /\ Running.attempt = 0 /\ Running.state = "asking"
  <2>1. 1 \in 0 .. MaxCalls
    BY LimiterNumbers
  <2>2. Running = [NoTask EXCEPT !.state = "asking", !.calls = 1]
    BY DEF Running
  <2>. QED BY <1>1, <2>1, <2>2 DEF Task
<1>. QED BY <1>1, <1>2, <1>3

-----------------------------------------------------------------------------
(* The breaker.                                                            *)

LEMMA NotePauseType ==
    ASSUME BreakerType, NotePause
    PROVE  BreakerType' /\ left' <= left
<1>1. CASE Paused
  <2>1. tripped' = tripped /\ left' = left /\ trips' = trips
    BY <1>1 DEF NotePause, breaker
  <2>. QED BY <2>1 DEF BreakerType
<1>2. CASE ~Paused
  <2>1. tripped' = FALSE /\ left' = 0 /\ trips' = 0
    BY <1>2 DEF NotePause
  <2>2. left' \in Nat /\ left' <= left /\ trips' \in 0 .. Len(Schedule)
    BY <2>1, LimiterNumbers DEF BreakerType
  <2>3. tripped' \in BOOLEAN
    BY <2>1
  <2>. QED BY <2>2, <2>3 DEF BreakerType
<1>. QED BY <1>1, <1>2

LEMMA TripType ==
    ASSUME BreakerType, NEW hint \in Hints, TripCircuitBreaker(hint)
    PROVE  /\ BreakerType'
           /\ left' <= left \/ left' <= hint \/ left' <= Schedule[Len(Schedule)]
<1>. DEFINE i == Least(trips, Len(Schedule) - 1) + 1
<1>1. i \in 1 .. Len(Schedule)
  BY LimiterNumbers DEF BreakerType, Least
<1>2. Schedule[i] \in Nat /\ Schedule[i] <= Schedule[Len(Schedule)] /\ Schedule[Len(Schedule)] \in Nat
  BY <1>1, LimiterNumbers, LimiterAssumption
<1>3. hint \in Nat
  BY LimiterAssumption
<1>4. left' = Greatest(left, Greatest(hint, Schedule[i]))
  BY DEF TripCircuitBreaker
<1>. HIDE DEF i
<1>5. /\ left' \in Nat
      /\ left' <= left \/ left' <= hint \/ left' <= Schedule[Len(Schedule)]
  BY <1>2, <1>3, <1>4 DEF Greatest, BreakerType
<1>6. trips' \in 0 .. Len(Schedule) /\ tripped' \in BOOLEAN
  BY LimiterNumbers DEF TripCircuitBreaker, BreakerType, Least
<1>. QED BY <1>5, <1>6 DEF BreakerType

-----------------------------------------------------------------------------
(* Tasks and slots.                                                        *)

LEMMA BecomeType ==
    ASSUME TasksType, NEW t \in Tasks, NEW record \in Task, record.attempt <= RetriesOf(t), Become(t, record)
    PROVE  TasksType' /\ task'[t] = record /\ \A u \in Tasks : u # t => task'[u] = task[u]
BY DEF TasksType, Become

LEMMA ActiveFinite == IsFiniteSet(Active) /\ Cardinality(Active) \in Nat
BY LimiterAssumption, FS_Subset, FS_CardinalityType DEF Active

\* No task takes a slot: the slots in use stay within the limit.
LEMMA SameSlots ==
    ASSUME SlotsType, NEW t \in Tasks, \A u \in Tasks : u # t => task'[u] = task[u],
           HoldsSlot(t)' => HoldsSlot(t) \/ t \notin Limited
    PROVE  SlotsType'
<1>1. Active' \subseteq Active
  BY DEF Active, HoldsSlot, Tasks
<1>2. Cardinality(Active') <= Cardinality(Active) /\ Cardinality(Active') \in Nat
  BY <1>1, ActiveFinite, FS_Subset, FS_CardinalityType
<1>. QED BY <1>2, ActiveFinite, LimiterNumbers DEF SlotsType

LEMMA CallOverType ==
    ASSUME TasksType, NEW t \in Tasks, CallOver(t)
    PROVE  TasksType' /\ (\A u \in Tasks : u # t => task'[u] = task[u])
<1>1. CASE Become(t, NoTask)
  BY <1>1, RecordTypes, RetriesType, BecomeType
<1>2. CASE task[t].calls < MaxCalls /\ Become(t, [Running EXCEPT !.calls = task[t].calls + 1])
  <2>. DEFINE calls == task[t].calls + 1
              record == [Running EXCEPT !.calls = calls]
  <2>1. calls \in 0 .. MaxCalls
    BY <1>2, LimiterNumbers DEF TasksType, Task
  <2>. HIDE DEF calls
  <2>2. record \in Task /\ record.attempt = 0
    BY <2>1 DEF Running, NoTask, Task
  <2>3. Become(t, record)
    BY <1>2 DEF calls
  <2>. HIDE DEF record
  <2>. QED BY <2>2, <2>3, RetriesType, BecomeType
<1>. QED BY <1>1, <1>2 DEF CallOver

LEMMA RetryType ==
    ASSUME TasksType, NEW t \in Tasks, NEW delay \in Nat, Retry(t, delay)
    PROVE  TasksType' /\ (\A u \in Tasks : u # t => task'[u] = task[u])
<1>1. CASE task[t].attempt < RetriesOf(t)
  <2>. DEFINE attempt == task[t].attempt + 1
              record == [task[t] EXCEPT !.state = "sleeping", !.sleep = delay, !.attempt = attempt]
  <2>1. attempt \in Nat /\ attempt <= RetriesOf(t)
    BY <1>1, RetriesType DEF TasksType, Task
  <2>2. Become(t, record)
    BY <1>1 DEF Retry
  <2>. HIDE DEF attempt
  <2>3. record \in Task /\ record.attempt = attempt
    BY <2>1 DEF TasksType, Task
  <2>. HIDE DEF record
  <2>. QED BY <2>1, <2>2, <2>3, BecomeType
<1>2. CASE ~(task[t].attempt < RetriesOf(t))
  BY <1>2, CallOverType DEF Retry
<1>. QED BY <1>1, <1>2

-----------------------------------------------------------------------------
(* Steps.                                                                  *)

LEMMA LimiterInitType == LimiterInit => LimiterTypeOK
<1>. SUFFICES ASSUME LimiterInit PROVE LimiterTypeOK
  OBVIOUS
<1>1. BreakerType
  <2>1. left \in Nat /\ trips \in 0 .. Len(Schedule)
    BY LimiterNumbers DEF LimiterInit
  <2>2. tripped \in BOOLEAN
    BY DEF LimiterInit
  <2>. QED BY <2>1, <2>2 DEF BreakerType
<1>2. TasksType
  BY RecordTypes, RetriesType DEF LimiterInit, TasksType
<1>3. Active = {}
  BY RecordTypes DEF LimiterInit, Active, HoldsSlot, Tasks
<1>4. SlotsType
  BY <1>3, FS_EmptySet, LimiterNumbers DEF SlotsType
<1>. QED BY <1>1, <1>2, <1>4, TypeParts DEF LimiterInit

LEMMA SubmitType ==
    ASSUME LimiterTypeOK, NEW t \in Limited, Submit(t)
    PROVE  LimiterTypeOK'
<1>0. BreakerType /\ TasksType /\ SlotsType /\ waiting \in Seq(Limited) /\ t \in Tasks
  BY TypeParts DEF Tasks
<1>1. BreakerType'
  BY <1>0, NotePauseType DEF Submit
<1>2. CASE Paused
  <2>1. waiting' = waiting /\ task' = task
    BY <1>2 DEF Submit
  <2>2. TasksType' /\ SlotsType'
    BY <1>0, <2>1 DEF TasksType, SlotsType, Active, HoldsSlot
  <2>. QED BY <1>0, <1>1, <2>1, <2>2, TypeParts DEF LimiterTypeOK, BreakerType, TasksType, SlotsType
<1>3. CASE ~Paused
  <2>1. waiting' = Append(waiting, t) /\ Become(t, Queued)
    BY <1>3 DEF Submit
  <2>2. waiting' \in Seq(Limited)
    BY <1>0, <2>1
  <2>3. TasksType' /\ task'[t] = Queued /\ \A u \in Tasks : u # t => task'[u] = task[u]
    BY <1>0, <2>1, RecordTypes, RetriesType, BecomeType
  <2>4. SlotsType'
    BY <1>0, <2>3, RecordTypes, SameSlots DEF HoldsSlot
  <2>. QED BY <1>1, <2>2, <2>3, <2>4 DEF LimiterTypeOK, BreakerType, TasksType, SlotsType
<1>. QED BY <1>2, <1>3

\* A task that takes a slot found one free.
LEMMA StartType ==
    ASSUME LimiterTypeOK, NEW t \in Limited, Start(t)
    PROVE  LimiterTypeOK'
<1>0. BreakerType /\ TasksType /\ waiting \in Seq(Limited) /\ t \in Tasks
  BY TypeParts DEF Tasks
<1>1. BreakerType'
  BY <1>0, NotePauseType DEF Start
<1>2. waiting' \in Seq(Limited)
  BY <1>0, HeadTailProperties DEF Start
<1>3. TasksType' /\ \A u \in Tasks : u # t => task'[u] = task[u]
  BY <1>0, RecordTypes, RetriesType, BecomeType DEF Start
<1>4. SlotsType'
  <2>1. Active' \subseteq Active \cup {t}
    BY <1>3 DEF Active, HoldsSlot, Tasks
  <2>2. IsFiniteSet(Active \cup {t}) /\ Cardinality(Active \cup {t}) <= Cardinality(Active) + 1
        /\ Cardinality(Active \cup {t}) \in Nat
    <3>1. IsFiniteSet(Active \cup {t})
      BY ActiveFinite, FS_AddElement
    <3>2. \/ Cardinality(Active \cup {t}) = Cardinality(Active)
          \/ Cardinality(Active \cup {t}) = Cardinality(Active) + 1
      BY ActiveFinite, FS_AddElement
    <3>. QED BY <3>1, <3>2, ActiveFinite
  <2>3. Cardinality(Active') <= Cardinality(Active \cup {t}) /\ Cardinality(Active') \in Nat
    BY <2>1, <2>2, FS_Subset, FS_CardinalityType
  <2>4. Cardinality(Active) < Concurrency
    BY DEF Start
  <2>. QED BY <2>2, <2>3, <2>4, ActiveFinite, LimiterNumbers DEF SlotsType
<1>. QED BY <1>1, <1>2, <1>3, <1>4 DEF LimiterTypeOK, BreakerType, TasksType, SlotsType

LEMMA BypassType ==
    ASSUME LimiterTypeOK, NEW t \in Tasks, Bypass(t)
    PROVE  LimiterTypeOK'
<1>0. BreakerType /\ TasksType /\ SlotsType /\ waiting \in Seq(Limited)
  BY TypeParts
<1>1. TasksType' /\ \A u \in Tasks : u # t => task'[u] = task[u]
  BY <1>0, RecordTypes, RetriesType, BecomeType DEF Bypass
<1>2. SlotsType'
  BY <1>0, <1>1, SameSlots, LimiterAssumption DEF Bypass
<1>. QED BY <1>0, <1>1, <1>2 DEF Bypass, breaker, LimiterTypeOK, BreakerType, TasksType, SlotsType

\* A step of a task that has its slot.
LEMMA StepType ==
    ASSUME LimiterTypeOK, NEW t \in Tasks, Step(t)
    PROVE  LimiterTypeOK'
<1>0. BreakerType /\ TasksType /\ SlotsType /\ waiting \in Seq(Limited)
  BY TypeParts
<1>1. waiting' = waiting /\ HoldsSlot(t)
  BY DEF Step, Answered, ServerError, Wake, RateLimited, HoldsSlot
<1>2. BreakerType'
  <2>1. CASE tripped' = tripped /\ left' = left /\ trips' = trips
    BY <1>0, <2>1 DEF BreakerType
  <2>2. ASSUME NEW hint \in Hints, TripCircuitBreaker(hint) PROVE BreakerType'
    BY <1>0, <2>2, TripType
  <2>. QED BY <2>1, <2>2 DEF Step, Answered, ServerError, Wake, RateLimited, breaker
<1>3. TasksType' /\ \A u \in Tasks : u # t => task'[u] = task[u]
  <2>1. CASE Answered(t)
    BY <1>0, <2>1, CallOverType DEF Answered
  <2>2. ASSUME NEW hint \in Hints \cup {0}, ServerError(t, hint)
        PROVE  TasksType' /\ \A u \in Tasks : u # t => task'[u] = task[u]
    <3>1. HintDelay(t, hint) \in Nat
      BY LimiterNumbers, LimiterAssumption DEF HintDelay, Least
    <3>. QED BY <1>0, <2>2, <3>1, RetryType DEF ServerError
  <2>3. CASE Wake(t)
    <3>. DEFINE record == [task[t] EXCEPT !.state = "asking"]
    <3>1. record \in Task /\ record.attempt = task[t].attempt /\ task[t].attempt <= RetriesOf(t)
      BY <1>0 DEF TasksType, Task
    <3>2. Become(t, record)
      BY <2>3 DEF Wake
    <3>. HIDE DEF record
    <3>. QED BY <1>0, <3>1, <3>2, BecomeType
  <2>4. ASSUME NEW hint \in Hints, RateLimited(t, hint)
        PROVE  TasksType' /\ \A u \in Tasks : u # t => task'[u] = task[u]
    <3>1. RateLimitDelay(t, hint) \in Nat
      BY <1>0, LimiterNumbers, LimiterAssumption DEF RateLimitDelay, HintDelay, Least, TasksType, Task
    <3>. QED BY <1>0, <2>4, <3>1, RetryType DEF RateLimited
  <2>. QED BY <2>1, <2>2, <2>3, <2>4 DEF Step
<1>4. SlotsType'
  BY <1>0, <1>1, <1>3, SameSlots
<1>. QED BY <1>0, <1>1, <1>2, <1>3, <1>4 DEF LimiterTypeOK, BreakerType, TasksType, SlotsType

LEMMA TickType ==
    ASSUME LimiterTypeOK, Tick
    PROVE  LimiterTypeOK'
<1>0. BreakerType /\ TasksType /\ SlotsType /\ waiting \in Seq(Limited)
  BY TypeParts
<1>1. left' \in Nat
  BY <1>0 DEF Tick, Greatest, BreakerType
<1>2. ASSUME NEW t \in Tasks
      PROVE  task'[t] \in Task /\ task'[t].state = task[t].state /\ task'[t].attempt = task[t].attempt
  <2>. DEFINE sleep == Greatest(task[t].sleep, 1) - 1
  <2>1. sleep \in Nat
    BY <1>0 DEF TasksType, Task, Greatest
  <2>2. task'[t] = [task[t] EXCEPT !.sleep = sleep]
    BY DEF Tick
  <2>. HIDE DEF sleep
  <2>. QED BY <1>0, <2>1, <2>2 DEF TasksType, Task
<1>3. TasksType'
  BY <1>0, <1>2 DEF TasksType, Tick
<1>4. Active' = Active
  BY <1>2 DEF Active, HoldsSlot, Tasks
<1>. QED BY <1>0, <1>1, <1>3, <1>4 DEF Tick, LimiterTypeOK, BreakerType, TasksType, SlotsType

\* Every action keeps the type invariant.
LEMMA NextType == LimiterTypeOK /\ [LimiterNext]_limiterVars => LimiterTypeOK'
<1>. SUFFICES ASSUME LimiterTypeOK, [LimiterNext]_limiterVars PROVE LimiterTypeOK'
  OBVIOUS
<1>1. CASE UNCHANGED limiterVars
  BY <1>1 DEF limiterVars, LimiterTypeOK, Active, HoldsSlot
<1>. QED BY <1>1, SubmitType, StartType, BypassType, StepType, TickType DEF LimiterNext

-----------------------------------------------------------------------------
(* The results.                                                            *)

\* Types, no more than Concurrency tasks in progress, no attempt past the limit
\* of its kind: for any tasks, schedule, hints and limits.
THEOREM LimiterTypeCorrect == LimiterSpec => []LimiterTypeOK
BY LimiterInitType, NextType, PTL DEF LimiterSpec

\* No pause is longer than the schedule's last entry or the longest hint, however
\* many calls are refused at once (tripCircuitBreaker).
THEOREM PausesBounded == LimiterSpec => []PauseBounded
<1>. DEFINE Longest == Schedule[Len(Schedule)]
            Bounds == Hints \cup {Longest}
<1>0. Bounds \subseteq Nat /\ Longest \in Nat
  <2>1. Longest \in Nat
    BY LimiterNumbers
  <2>. QED BY <2>1, LimiterAssumption
<1>1. LimiterInit => PauseBounded
  BY <1>0 DEF LimiterInit, PauseBounded
<1>2. LimiterTypeOK /\ PauseBounded /\ [LimiterNext]_limiterVars => PauseBounded'
  <2>. SUFFICES ASSUME LimiterTypeOK, PauseBounded, [LimiterNext]_limiterVars PROVE PauseBounded'
    OBVIOUS
  <2>0. left \in Nat /\ BreakerType
    BY TypeParts DEF LimiterTypeOK
  <2>1. PICK bound \in Bounds : left <= bound
    BY DEF PauseBounded
  <2>2. CASE left' \in Nat /\ left' <= left
    <3>1. left' <= bound
      BY <1>0, <2>0, <2>1, <2>2
    <3>. QED BY <3>1 DEF PauseBounded
  <2>3. ASSUME NEW hint \in Hints, TripCircuitBreaker(hint) PROVE PauseBounded'
    <3>1. left' \in Nat /\ (left' <= left \/ left' <= hint \/ left' <= Longest)
      BY <2>0, <2>3, TripType DEF BreakerType
    <3>2. CASE left' <= left
      BY <2>2, <3>1, <3>2
    <3>. QED BY <3>1, <3>2 DEF PauseBounded
  <2>4. CASE NotePause
    <3>1. left' \in Nat /\ left' <= left
      BY <2>0, <2>4, NotePauseType DEF BreakerType
    <3>. QED BY <2>2, <3>1
  <2>5. CASE Tick
    <3>1. left' \in Nat /\ left' <= left
      BY <2>0, <2>5 DEF Tick, Greatest
    <3>. QED BY <2>2, <3>1
  <2>6. CASE left' = left
    BY <2>0, <2>2, <2>6
  <2>. QED
    BY <2>3, <2>4, <2>5, <2>6
    DEF LimiterNext, limiterVars, breaker, Submit, Start, Bypass, Step, Answered, ServerError, Wake, RateLimited
<1>. QED BY <1>1, <1>2, LimiterTypeCorrect, PTL DEF LimiterSpec

\* A task that left the limiter's queue while the breaker was open did not start
\* (runBackground asks it again).
THEOREM NoStartWhilePaused == LimiterSpec => NoStartInPause
<1>1. LimiterTypeOK /\ [LimiterNext]_limiterVars =>
        [\A t \in Limited : task[t].state = "queued" /\ HoldsSlot(t)' => ~Paused]_limiterVars
  <2>. SUFFICES ASSUME LimiterTypeOK, LimiterNext, NEW t \in Limited, task[t].state = "queued", HoldsSlot(t)'
                PROVE  ~Paused
    OBVIOUS
  <2>0. TasksType /\ t \in Tasks
    BY TypeParts DEF Tasks
  <2>1. task'[t].state # task[t].state
    BY DEF HoldsSlot
  <2>2. ASSUME NEW u \in Limited, Submit(u) PROVE FALSE
    <3>1. u \in Tasks /\ (task' = task \/ Become(u, Queued))
      BY <2>2 DEF Submit, Tasks
    <3>. QED BY <2>0, <2>1, <3>1, <2>2, RecordTypes, RetriesType, BecomeType DEF HoldsSlot
  <2>3. ASSUME NEW u \in Limited, Start(u) PROVE ~Paused
    <3>1. SUFFICES ASSUME Paused PROVE FALSE
      OBVIOUS
    <3>2. u \in Tasks /\ Become(u, NoTask)
      BY <2>3, <3>1 DEF Start, Tasks
    <3>. QED BY <2>0, <2>1, <3>2, RecordTypes, RetriesType, BecomeType DEF HoldsSlot
  <2>4. ASSUME NEW u \in Tasks, Bypass(u) PROVE FALSE
    <3>1. Become(u, Running) /\ u # t
      BY <2>4 DEF Bypass
    <3>. QED BY <2>0, <2>1, <2>4, <3>1, RecordTypes, RetriesType, BecomeType
  <2>5. ASSUME NEW u \in Tasks, Step(u) PROVE FALSE
    <3>1. u # t
      BY <2>5 DEF Step, Answered, ServerError, Wake, RateLimited
    <3>2. \E record : Become(u, record)
      BY <2>5 DEF Step, Answered, ServerError, Wake, RateLimited, Retry, CallOver
    <3>. QED BY <2>0, <2>1, <3>1, <3>2 DEF Become, TasksType
  <2>6. CASE Tick
    BY <2>0, <2>1, <2>6 DEF Tick, TasksType, Task
  <2>. QED BY <2>2, <2>3, <2>4, <2>5, <2>6 DEF LimiterNext
<1>. QED BY <1>1, LimiterTypeCorrect, PTL DEF LimiterSpec, NoStartInPause

-----------------------------------------------------------------------------
(* The curations.                                                          *)

-----------------------------------------------------------------------------
(* The inductive invariant.                                                *)

\* What is undistilled was stored, and the mark is no later than the last message.
InStore(s) == ses[s].raw \subseteq 1 .. ses[s].stored /\ ses[s].mark <= ses[s].stored

\* A turn stores at most one message, so there is room for the one in progress.
Room(s) == IF ses[s].asking THEN ses[s].stored < count.turns ELSE ses[s].stored <= count.turns

\* Raw readings that were answered are behind the mark.
ReadBehind(s) == \A m \in ses[s].read : m <= ses[s].mark

\* The limiter: one run at a time.
OneRun(s) == \A r1, r2 \in cur[s] : r1 = r2

\* A raw reading under way is ahead of the mark it started from.
RunAhead(s) ==
    \A run \in cur[s] : run.raw => \A m \in run.msgs : m > ses[s].mark /\ m <= ses[s].stored

SesInv(s) == InStore(s) /\ Room(s) /\ ReadBehind(s) /\ OneRun(s) /\ RunAhead(s)

IInv == TypeOK /\ \A s \in Sessions : SesInv(s)

-----------------------------------------------------------------------------
(* Types.                                                                  *)

LEMMA Numbers ==
    /\ MaxTurns \in Nat /\ MaxFaults \in Nat /\ MaxCommands \in Nat
    /\ AfterTurns \in Nat /\ EffectiveAfterTurns \in Nat /\ MinRecent \in Nat
BY CurationAssumption

LEMMA InitType == Init => TypeOK
<1>. SUFFICES ASSUME Init PROVE TypeOK
  OBVIOUS
<1>1. ses \in [Sessions -> Session]
  BY Numbers DEF Init, Session
<1>2. count \in Counts
  BY Numbers DEF Init, Counts
<1>3. \A s \in Sessions : Awaited(s)
  BY DEF Init, Awaited
<1>. QED BY <1>1, <1>2, <1>3 DEF Init, TypeOK

\* What a run reads are messages.
LEMMA InputType ==
    ASSUME TypeOK, NEW s \in Sessions
    PROVE  Input(s) \in SUBSET Messages
BY DEF TypeOK, Session, Input, Recent

LEMMA CountResetType ==
    ASSUME TypeOK, NEW s \in Sessions
    PROVE  CountReset(s) \in [Sessions -> Session]
<1>1. ses \in [Sessions -> Session]
  BY DEF TypeOK
<1>2. PICK x : x = [ses[s] EXCEPT !.turns = 0, !.saved = 0]
  OBVIOUS
<1>3. x \in Session
  BY <1>1, <1>2 DEF Session
<1>. QED BY <1>1, <1>2, <1>3 DEF CountReset

LEMMA AfterRunType ==
    ASSUME TypeOK, NEW s \in Sessions, NEW run
    PROVE  AfterRun(s, run) \in [Sessions -> Session]
BY CountResetType DEF AfterRun, TypeOK

\* A run that starts keeps the table of runs well typed, and is its session's only one.
LEMMA RunStartsType ==
    ASSUME TypeOK, NEW s \in Sessions, NEW by \in Starters, RunStarts(s, by)
    PROVE  /\ cur' \in [Sessions -> SUBSET Run]
           /\ \A r \in cur'[s] : r.by = by
           /\ cur'[s] # {}
           /\ \A t \in Sessions : t # s => cur'[t] = cur[t]
<1>. DEFINE run == [msgs |-> Input(s), raw |-> ReadsRaw(s), by |-> by]
<1>1. run \in Run
  BY InputType DEF Run, ReadsRaw
<1>2. run.by = by
  OBVIOUS
<1>3. cur[s] = {}
  BY DEF RunStarts, Busy
<1>4. cur' = [cur EXCEPT ![s] = cur[s] \cup {run}]
  BY DEF RunStarts
<1>. HIDE DEF run
<1>. QED BY <1>1, <1>2, <1>3, <1>4 DEF TypeOK

\* Whoever awaited a run that ends goes on.
LEMMA ReturnsType ==
    ASSUME IInv, NEW s \in Sessions, NEW run \in cur[s], Returns(s, run)
    PROVE  /\ cur' \in [Sessions -> SUBSET Run]
           /\ idle' \in [Sessions -> {"off", "queued", "distilling", "curating", "rest"}]
           /\ command' \in [Sessions -> {"off", "distilling", "curating"}]
           /\ \A t \in Sessions : Awaited(t)'
<1>1. cur[s] = {run} /\ cur'[s] = {}
  BY DEF IInv, SesInv, OneRun, Returns, TypeOK
<1>2. ASSUME NEW t \in Sessions, t # s PROVE Awaited(t)'
  BY <1>2 DEF IInv, TypeOK, Returns, Awaited
<1>3. Awaited(s)'
  <2>1. idle'[s] # "curating"
    BY <1>1 DEF IInv, TypeOK, Returns, Awaited
  <2>2. command'[s] # "curating"
    BY <1>1 DEF IInv, TypeOK, Returns, Awaited
  <2>. QED BY <1>1, <2>1, <2>2 DEF Awaited
<1>4. cur' \in [Sessions -> SUBSET Run]
  BY DEF IInv, TypeOK, Returns
<1>5. idle' \in [Sessions -> {"off", "queued", "distilling", "curating", "rest"}]
  BY DEF IInv, TypeOK, Returns
<1>6. command' \in [Sessions -> {"off", "distilling", "curating"}]
  BY DEF IInv, TypeOK, Returns
<1>. QED BY <1>2, <1>3, <1>4, <1>5, <1>6

\* A turn stores at most one message, and turns are bounded.
LEMMA RoomLeft ==
    ASSUME IInv, NEW s \in Sessions, ses[s].asking
    PROVE  ses[s].stored + 1 \in 0 .. MaxTurns
BY Numbers DEF IInv, SesInv, Room, TypeOK, Session, Counts

\* Every action keeps the type invariant.
LEMMA TypeNext == IInv /\ [Next]_vars => TypeOK'
<1>. SUFFICES ASSUME IInv, [Next]_vars PROVE TypeOK'
  OBVIOUS
<1>. TypeOK
  BY DEF IInv
<1>0. \A s \in Sessions : ses[s] \in Session /\ Awaited(s)
  BY DEF TypeOK
<1>1. ASSUME NEW s \in Sessions, TurnBegins(s) PROVE TypeOK'
  <2>1. PICK turns \in Nat :
            /\ count' = [count EXCEPT !.turns = @ + 1]
            /\ ses' = [ses EXCEPT ![s] = [@ EXCEPT !.loaded = TRUE, !.asking = TRUE, !.quiet = FALSE,
                                                   !.turns = turns, !.saved = turns]]
    BY <1>0, <1>1 DEF TurnBegins, Session
  <2>2. [ses[s] EXCEPT !.loaded = TRUE, !.asking = TRUE, !.quiet = FALSE, !.turns = turns, !.saved = turns] \in Session
    BY <1>0 DEF Session
  <2>3. count' \in Counts
    BY <1>1, <2>1, Numbers DEF TurnBegins, TypeOK, Counts
  <2>4. ses' \in [Sessions -> Session]
    BY <2>1, <2>2 DEF TypeOK
  <2>. QED BY <1>1, <2>3, <2>4 DEF TurnBegins, TypeOK, Awaited
<1>2. ASSUME NEW s \in Sessions, TurnFails(s) PROVE TypeOK'
  <2>1. [ses[s] EXCEPT !.asking = FALSE] \in Session
    BY <1>0 DEF Session
  <2>. QED BY <1>2, <2>1 DEF TurnFails, TypeOK, Awaited
<1>3. ASSUME NEW s \in Sessions, TurnEnds(s) PROVE TypeOK'
  <2>1. PICK tool \in BOOLEAN, turns \in Nat, stored \in 0 .. MaxTurns, raw \in SUBSET Messages :
            ses' = [ses EXCEPT ![s] = [@ EXCEPT !.asking = FALSE, !.tool = tool, !.turns = turns,
                                                !.stored = stored, !.raw = raw]]
    <3>1. PICK stores \in BOOLEAN, tool \in BOOLEAN, commit \in BOOLEAN :
              LET turns  == CountTurn(s, commit)
                  stored == IF stores THEN ses[s].stored + 1 ELSE ses[s].stored
                  raw    == IF stores THEN ses[s].raw \cup {stored} ELSE ses[s].raw
              IN  ses' = [ses EXCEPT ![s] = [@ EXCEPT !.asking = FALSE, !.tool = tool, !.turns = turns,
                                                      !.stored = stored, !.raw = raw]]
      BY <1>3 DEF TurnEnds
    <3>. DEFINE stored == IF stores THEN ses[s].stored + 1 ELSE ses[s].stored
                raw == IF stores THEN ses[s].raw \cup {stored} ELSE ses[s].raw
    <3>2. CountTurn(s, commit) \in Nat
      BY <1>0, Numbers DEF CountTurn, Session
    <3>3. stored \in 0 .. MaxTurns /\ raw \in SUBSET Messages
      BY <1>0, <1>3, RoomLeft, Numbers DEF TurnEnds, Session, Messages
    <3>4. ses' = [ses EXCEPT ![s] = [ses[s] EXCEPT !.asking = FALSE, !.tool = tool, !.turns = CountTurn(s, commit),
                                                   !.stored = stored, !.raw = raw]]
      BY <3>1
    <3>. HIDE DEF stored, raw
    <3>. QED BY <3>2, <3>3, <3>4
  <2>2. [ses[s] EXCEPT !.asking = FALSE, !.tool = tool, !.turns = turns, !.stored = stored, !.raw = raw] \in Session
    BY <1>0 DEF Session
  <2>3. ses' \in [Sessions -> Session]
    BY <2>1, <2>2 DEF TypeOK
  <2>4. queued' \in [Sessions -> Nat]
    BY <1>3 DEF TurnEnds, TypeOK
  <2>. QED BY <1>3, <2>3, <2>4 DEF TurnEnds, TypeOK, Awaited
<1>4. ASSUME NEW s \in Sessions, StartQueued(s) PROVE TypeOK'
  <2>1. queued' \in [Sessions -> Nat]
    BY <1>4 DEF StartQueued, TypeOK
  <2>2. CASE cur' = cur /\ ses' \in {ses, CountReset(s)}
    BY <1>4, <2>1, <2>2, CountResetType DEF StartQueued, TypeOK, Awaited
  <2>3. CASE RunStarts(s, "turn") /\ ses' = ses
    <3>1. "turn" \in Starters /\ "turn" # "idle" /\ "turn" # "command"
      BY DEF Starters
    <3>2. idle[s] # "curating" /\ command[s] # "curating"
      BY <1>0, <2>3 DEF Awaited, RunStarts, Busy
    <3>3. \A t \in Sessions : Awaited(t)'
      BY <1>0, <1>4, <2>3, <3>1, <3>2, RunStartsType DEF Awaited, StartQueued
    <3>. QED BY <1>4, <2>1, <2>3, <3>1, <3>3, RunStartsType DEF StartQueued, TypeOK
  <2>. QED BY <1>4, <2>2, <2>3 DEF StartQueued, RunSkipped
<1>5. ASSUME NEW s \in Sessions, RunAnswered(s) PROVE TypeOK'
  <2>1. PICK run \in cur[s] :
            LET read == IF run.raw THEN ses[s].read \cup run.msgs ELSE ses[s].read
            IN  /\ Returns(s, run)
                /\ ses' = [AfterRun(s, run) EXCEPT
                             ![s] = [@ EXCEPT !.mark = ses[s].stored, !.obs = {}, !.read = read]]
    BY <1>5 DEF RunAnswered
  <2>. DEFINE x == AfterRun(s, run)[s]
              read == IF run.raw THEN ses[s].read \cup run.msgs ELSE ses[s].read
              stored == ses[s].stored
  <2>2. AfterRun(s, run) \in [Sessions -> Session] /\ x \in Session
    BY AfterRunType
  <2>3. read \in SUBSET Messages /\ stored \in 0 .. MaxTurns
    BY <1>0, <2>2 DEF TypeOK, Run, Session
  <2>4. ses' = [AfterRun(s, run) EXCEPT ![s] = [x EXCEPT !.mark = stored, !.obs = {}, !.read = read]]
    BY <2>1, <2>2
  <2>. HIDE DEF x, read, stored
  <2>5. [x EXCEPT !.mark = stored, !.obs = {}, !.read = read] \in Session
    BY <2>2, <2>3 DEF Session
  <2>6. ses' \in [Sessions -> Session]
    BY <2>2, <2>4, <2>5
  <2>. QED BY <1>5, <2>1, <2>6, ReturnsType DEF RunAnswered, TypeOK
<1>6. ASSUME NEW s \in Sessions, RunUnanswered(s) PROVE TypeOK'
  BY <1>6, AfterRunType, ReturnsType DEF RunUnanswered, TypeOK
<1>7. ASSUME NEW s \in Sessions, RunThrows(s) PROVE TypeOK'
  <2>1. count' \in Counts
    BY <1>7, Numbers DEF RunThrows, TypeOK, Counts
  <2>. QED BY <1>7, <2>1, ReturnsType DEF RunThrows, TypeOK
<1>8. ASSUME NEW s \in Sessions, QuietTime(s) PROVE TypeOK'
  <2>1. [ses[s] EXCEPT !.quiet = TRUE] \in Session
    BY <1>0 DEF Session
  <2>. QED BY <1>8, <2>1 DEF QuietTime, TypeOK, Awaited
<1>9. ASSUME NEW s \in Sessions, IdleTick(s) \/ IdleStarts(s) \/ IdleEnds(s) PROVE TypeOK'
  BY <1>9 DEF IdleTick, IdleStarts, IdleEnds, TypeOK, Awaited
<1>10. ASSUME NEW s \in Sessions, IdleCurates(s) PROVE TypeOK'
  <2>1. CASE cur' = cur /\ ses' \in {ses, CountReset(s)} /\ idle' = [idle EXCEPT ![s] = "rest"]
    BY <1>10, <2>1, CountResetType DEF IdleCurates, TypeOK, Awaited
  <2>2. CASE RunStarts(s, "idle") /\ ses' = ses /\ idle' = [idle EXCEPT ![s] = "curating"]
    <3>1. "idle" \in Starters /\ "idle" # "command"
      BY DEF Starters
    <3>2. command[s] # "curating"
      BY <1>0, <2>2 DEF Awaited, RunStarts, Busy
    <3>3. idle' \in [Sessions -> {"off", "queued", "distilling", "curating", "rest"}] /\ idle'[s] = "curating"
      BY <2>2 DEF TypeOK
    <3>4. \A t \in Sessions : t # s => idle'[t] = idle[t]
      BY <2>2 DEF TypeOK
    <3>5. \A t \in Sessions : Awaited(t)'
      BY <1>0, <1>10, <2>2, <3>1, <3>2, <3>3, <3>4, RunStartsType DEF Awaited, IdleCurates
    <3>. QED BY <1>10, <2>2, <3>1, <3>3, <3>5, RunStartsType DEF IdleCurates, TypeOK
  <2>. QED BY <1>10, <2>1, <2>2 DEF IdleCurates, RunSkipped
<1>11. ASSUME NEW s \in Sessions, Command(s) PROVE TypeOK'
  <2>1. count' \in Counts
    BY <1>11, Numbers DEF Command, TypeOK, Counts
  <2>. QED BY <1>11, <2>1 DEF Command, TypeOK, Awaited
<1>12. ASSUME NEW s \in Sessions, CommandCurates(s) PROVE TypeOK'
  <2>1. CASE cur' = cur /\ command' = [command EXCEPT ![s] = "off"]
    BY <1>12, <2>1 DEF CommandCurates, TypeOK, Awaited
  <2>2. CASE RunStarts(s, "command") /\ command' = [command EXCEPT ![s] = "curating"]
    <3>1. "command" \in Starters /\ "idle" # "command"
      BY DEF Starters
    <3>2. idle[s] # "curating"
      BY <1>0, <2>2 DEF Awaited, RunStarts, Busy
    <3>3. command' \in [Sessions -> {"off", "distilling", "curating"}] /\ command'[s] = "curating"
      BY <2>2 DEF TypeOK
    <3>4. \A t \in Sessions : t # s => command'[t] = command[t]
      BY <2>2 DEF TypeOK
    <3>5. \A t \in Sessions : Awaited(t)'
      BY <1>0, <1>12, <2>2, <3>1, <3>2, <3>3, <3>4, RunStartsType DEF Awaited, CommandCurates
    <3>. QED BY <1>12, <2>2, <3>1, <3>3, <3>5, RunStartsType DEF CommandCurates, TypeOK
  <2>. QED BY <1>12, <2>1, <2>2 DEF CommandCurates, RunSkipped
<1>13. ASSUME NEW s \in Sessions, Distil(s) PROVE TypeOK'
  <2>1. PICK raw \in SUBSET Messages, obs \in SUBSET Messages :
            ses' = [ses EXCEPT ![s] = [@ EXCEPT !.raw = raw, !.obs = obs]]
    BY <1>0, <1>13 DEF Distil, Session
  <2>2. [ses[s] EXCEPT !.raw = raw, !.obs = obs] \in Session
    BY <1>0 DEF Session
  <2>3. ses' \in [Sessions -> Session]
    BY <2>1, <2>2 DEF TypeOK
  <2>. QED BY <1>13, <2>3 DEF Distil, TypeOK, Awaited
<1>14. ASSUME NEW s \in Sessions, Consolidate(s) PROVE TypeOK'
  <2>. DEFINE distilled == (1 .. ses[s].stored) \ ses[s].raw
  <2>1. distilled \in SUBSET Messages
    BY <1>0, Numbers DEF Session, Messages
  <2>. HIDE DEF distilled
  <2>2. [ses[s] EXCEPT !.obs = distilled] \in Session
    BY <1>0, <2>1 DEF Session
  <2>3. ses' = [ses EXCEPT ![s] = [ses[s] EXCEPT !.obs = distilled]]
    BY <1>14 DEF Consolidate, distilled
  <2>4. ses' \in [Sessions -> Session]
    BY <2>2, <2>3 DEF TypeOK
  <2>5. UNCHANGED <<cur, queued, idle, command, paused, count>>
    BY <1>14 DEF Consolidate
  <2>. QED BY <2>4, <2>5 DEF TypeOK, Awaited
<1>15. ASSUME Pause \/ PauseEnds PROVE TypeOK'
  <2>1. count' \in Counts
    BY <1>15, Numbers DEF Pause, PauseEnds, TypeOK, Counts
  <2>. QED BY <1>15, <2>1 DEF Pause, PauseEnds, TypeOK, Awaited
<1>16. ASSUME Restart PROVE TypeOK'
  <2>1. \A s \in Sessions :
            [ses[s] EXCEPT !.loaded = FALSE, !.asking = FALSE, !.quiet = FALSE, !.tool = FALSE, !.turns = 0] \in Session
    BY <1>0 DEF Session
  <2>2. ses' \in [Sessions -> Session]
    BY <1>16, <2>1 DEF Restart
  <2>3. count.faults < MaxFaults /\ count' = [count EXCEPT !.faults = @ + 1]
    BY <1>16 DEF Restart
  <2>4. count' \in Counts
    BY <2>3, Numbers DEF TypeOK, Counts
  <2>. QED BY <1>16, <2>2, <2>4 DEF Restart, TypeOK, Awaited
<1>17. CASE UNCHANGED vars
  BY <1>17 DEF vars, TypeOK, Awaited
<1>. QED
  BY <1>1, <1>2, <1>3, <1>4, <1>5, <1>6, <1>7, <1>8, <1>9, <1>10, <1>11, <1>12, <1>13, <1>14, <1>15, <1>16, <1>17
  DEF Next, RunEnds

-----------------------------------------------------------------------------
(* The state of a session.                                                 *)

LEMMA InitInv == Init => IInv
<1>. SUFFICES ASSUME Init PROVE IInv
  OBVIOUS
<1>1. \A s \in Sessions : SesInv(s)
  BY DEF Init, SesInv, InStore, Room, ReadBehind, OneRun, RunAhead
<1>. QED BY <1>1, InitType DEF IInv

\* What SesInv needs of a step that leaves the runs of a session, or has fewer.
LEMMA SameRuns ==
    ASSUME IInv, NEW s \in Sessions,
           cur'[s] \subseteq cur[s],
           ses'[s].mark = ses[s].mark, ses'[s].read = ses[s].read,
           ses[s].stored <= ses'[s].stored, ses'[s].stored \in Nat
    PROVE  ReadBehind(s)' /\ OneRun(s)' /\ RunAhead(s)'
<1>1. ReadBehind(s)'
  BY DEF IInv, SesInv, ReadBehind
<1>2. OneRun(s)'
  BY DEF IInv, SesInv, OneRun
<1>3. RunAhead(s)'
  BY Numbers DEF IInv, SesInv, RunAhead, TypeOK, Session, Run, Messages
<1>. QED BY <1>1, <1>2, <1>3

\* A step that touches neither the messages of a session nor its runs.
LEMMA SameSession ==
    ASSUME IInv, NEW s \in Sessions,
           cur'[s] \subseteq cur[s],
           ses'[s].mark = ses[s].mark, ses'[s].read = ses[s].read,
           ses'[s].stored = ses[s].stored, ses'[s].raw \subseteq ses[s].raw,
           ses'[s].asking => ses[s].asking,
           count'.turns = count.turns
    PROVE  SesInv(s)'
<1>1. ses[s].stored \in Nat /\ count.turns \in Nat
  BY DEF IInv, TypeOK, Session, Counts
<1>2. InStore(s)' /\ Room(s)'
  BY <1>1 DEF IInv, SesInv, InStore, Room
<1>. QED BY <1>1, <1>2, SameRuns DEF SesInv

\* A run that starts is the only one, and a raw reading is ahead of the mark.
LEMMA RunStartsInv ==
    ASSUME IInv, NEW s \in Sessions, NEW by \in Starters, RunStarts(s, by),
           ses' = ses, count' = count
    PROVE  SesInv(s)'
<1>. DEFINE run == [msgs |-> Input(s), raw |-> ReadsRaw(s), by |-> by]
<1>1. cur'[s] = {run}
  BY DEF RunStarts, Busy, IInv, TypeOK
<1>2. OneRun(s)'
  BY <1>1 DEF OneRun
<1>3. ReadsRaw(s) => \A m \in Input(s) : m > ses[s].mark /\ m <= ses[s].stored
  BY DEF Input, Recent, IInv, SesInv, InStore, TypeOK, Session
<1>4. RunAhead(s)'
  BY <1>1, <1>3 DEF RunAhead
<1>5. InStore(s)' /\ Room(s)' /\ ReadBehind(s)'
  BY DEF IInv, SesInv, InStore, Room, ReadBehind
<1>. QED BY <1>2, <1>4, <1>5 DEF SesInv

\* A reset of the count disturbs nothing else.
LEMMA CountResetSame ==
    ASSUME IInv, NEW s \in Sessions, NEW t \in Sessions
    PROVE  LET x == CountReset(s)[t]
           IN  /\ x.mark = ses[t].mark /\ x.read = ses[t].read /\ x.stored = ses[t].stored
               /\ x.raw = ses[t].raw /\ x.asking = ses[t].asking
BY DEF IInv, TypeOK, CountReset, Session

LEMMA AfterRunSame ==
    ASSUME IInv, NEW s \in Sessions, NEW t \in Sessions, NEW run
    PROVE  LET x == AfterRun(s, run)[t]
           IN  /\ x.mark = ses[t].mark /\ x.read = ses[t].read /\ x.stored = ses[t].stored
               /\ x.raw = ses[t].raw /\ x.asking = ses[t].asking
BY CountResetSame DEF AfterRun

LEMMA ReturnsRuns ==
    ASSUME IInv, NEW s \in Sessions, NEW run \in cur[s], Returns(s, run)
    PROVE  cur'[s] = {} /\ \A t \in Sessions : cur'[t] \subseteq cur[t]
BY DEF IInv, SesInv, OneRun, Returns, TypeOK

\* Every action keeps what a session's state and its runs say of each other.
LEMMA SesNext == IInv /\ [Next]_vars => \A s \in Sessions : SesInv(s)'
<1>. SUFFICES ASSUME IInv, [Next]_vars, NEW t \in Sessions PROVE SesInv(t)'
  OBVIOUS
<1>0. ses \in [Sessions -> Session] /\ count \in Counts
  BY DEF IInv, TypeOK
<1>a. ses[t] \in Session
  BY <1>0
<1>1. ASSUME NEW s \in Sessions, TurnBegins(s) PROVE SesInv(t)'
  <2>1. count'.turns = count.turns + 1 /\ count.turns \in Nat
    BY <1>0, <1>1 DEF TurnBegins, Counts
  <2>2. /\ ses'[t].mark = ses[t].mark /\ ses'[t].read = ses[t].read
        /\ ses'[t].stored = ses[t].stored /\ ses'[t].raw = ses[t].raw
        /\ ses'[t].asking = (s = t \/ ses[t].asking)
    BY <1>0, <1>1 DEF TurnBegins, Session
  <2>3. ses[t].stored \in Nat /\ ses[t].stored <= count.turns
    BY <1>a, <2>1 DEF IInv, SesInv, Room, Session
  <2>4. InStore(t)' /\ Room(t)'
    BY <2>1, <2>2, <2>3 DEF IInv, SesInv, InStore, Room
  <2>. QED BY <1>1, <2>2, <2>3, <2>4, SameRuns DEF TurnBegins, SesInv
<1>2. ASSUME NEW s \in Sessions, TurnFails(s) PROVE SesInv(t)'
  BY <1>0, <1>2, SameSession DEF TurnFails, Session
<1>3. ASSUME NEW s \in Sessions, TurnEnds(s) PROVE SesInv(t)'
  <2>1. CASE s # t
    BY <1>0, <1>3, <2>1, SameSession DEF TurnEnds
  <2>2. CASE s = t
    <3>1. ses[t].asking /\ ses[t].stored \in Nat /\ count.turns \in Nat /\ count' = count /\ cur' = cur
      BY <1>0, <1>3, <2>2 DEF TurnEnds, Session, Counts
    <3>2. /\ ~ses'[t].asking /\ ses'[t].mark = ses[t].mark /\ ses'[t].read = ses[t].read
          /\ \/ ses'[t].stored = ses[t].stored /\ ses'[t].raw = ses[t].raw
             \/ /\ ses'[t].stored = ses[t].stored + 1
                /\ ses'[t].raw = ses[t].raw \cup {ses[t].stored + 1}
      BY <1>0, <1>3, <2>2 DEF TurnEnds, Session
    <3>3. InStore(t) /\ Room(t) /\ ses[t].mark \in Nat
      BY <1>a DEF IInv, SesInv, Session
    <3>4. InStore(t)' /\ Room(t)'
      BY <3>1, <3>2, <3>3 DEF InStore, Room
    <3>. QED BY <3>1, <3>2, <3>4, SameRuns DEF SesInv
  <2>. QED BY <2>1, <2>2
<1>4. ASSUME NEW s \in Sessions, StartQueued(s) PROVE SesInv(t)'
  <2>1. CASE cur' = cur /\ ses' \in {ses, CountReset(s)}
    BY <1>4, <2>1, CountResetSame, SameSession DEF StartQueued
  <2>2. CASE RunStarts(s, "turn") /\ ses' = ses
    <3>1. CASE s = t
      BY <1>4, <2>2, <3>1, RunStartsInv DEF StartQueued, Starters
    <3>2. CASE s # t
      BY <1>0, <1>4, <2>2, <3>2, SameSession DEF StartQueued, RunStarts, IInv, TypeOK
    <3>. QED BY <3>1, <3>2
  <2>. QED BY <1>4, <2>1, <2>2 DEF StartQueued, RunSkipped
<1>5. ASSUME NEW s \in Sessions, RunAnswered(s) PROVE SesInv(t)'
  <2>1. PICK run \in cur[s] :
            LET read == IF run.raw THEN ses[s].read \cup run.msgs ELSE ses[s].read
            IN  /\ Returns(s, run)
                /\ ses' = [AfterRun(s, run) EXCEPT
                             ![s] = [@ EXCEPT !.mark = ses[s].stored, !.obs = {}, !.read = read]]
    BY <1>5 DEF RunAnswered
  <2>2. AfterRun(s, run) \in [Sessions -> Session]
    BY AfterRunType DEF IInv
  <2>3. CASE s # t
    <3>1. ses'[t] = AfterRun(s, run)[t]
      BY <2>1, <2>2, <2>3
    <3>2. /\ ses'[t].mark = ses[t].mark /\ ses'[t].read = ses[t].read /\ ses'[t].stored = ses[t].stored
          /\ ses'[t].raw = ses[t].raw /\ ses'[t].asking = ses[t].asking
      BY <3>1, AfterRunSame
    <3>3. cur'[t] \subseteq cur[t]
      BY <2>1, ReturnsRuns
    <3>4. count' = count
      BY <1>5 DEF RunAnswered
    <3>. QED BY <3>2, <3>3, <3>4, SameSession
  <2>4. CASE s = t
    <3>. DEFINE read == IF run.raw THEN ses[t].read \cup run.msgs ELSE ses[t].read
                x == AfterRun(s, run)[t]
    <3>1. ses'[t] = [x EXCEPT !.mark = ses[t].stored, !.obs = {}, !.read = read] /\ x \in Session
      BY <2>1, <2>2, <2>4
    <3>2. x.stored = ses[t].stored /\ x.raw = ses[t].raw /\ x.asking = ses[t].asking
      BY AfterRunSame
    <3>. HIDE DEF x, read
    <3>3. /\ ses'[t].mark = ses[t].stored /\ ses'[t].read = read
          /\ ses'[t].stored = ses[t].stored /\ ses'[t].raw = ses[t].raw /\ ses'[t].asking = ses[t].asking
      BY <3>1, <3>2 DEF Session
    <3>4. cur'[t] = {}
      BY <2>1, <2>4, ReturnsRuns
    <3>5. \A m \in read : m <= ses[t].stored
      BY <1>a, <2>4 DEF read, IInv, SesInv, ReadBehind, RunAhead, InStore, Session, Messages
    <3>6. count' = count /\ ses[t].stored \in Nat
      BY <1>5, <1>a DEF RunAnswered, Session
    <3>7. InStore(t)' /\ Room(t)'
      BY <3>3, <3>6 DEF IInv, SesInv, InStore, Room
    <3>8. ReadBehind(t)' /\ OneRun(t)' /\ RunAhead(t)'
      BY <3>3, <3>4, <3>5 DEF ReadBehind, OneRun, RunAhead
    <3>. QED BY <3>7, <3>8 DEF SesInv
  <2>. QED BY <2>3, <2>4
<1>6. ASSUME NEW s \in Sessions, RunUnanswered(s) PROVE SesInv(t)'
  <2>1. PICK run \in cur[s] : Returns(s, run) /\ ses' = AfterRun(s, run)
    BY <1>6 DEF RunUnanswered
  <2>. QED BY <1>6, <2>1, AfterRunSame, ReturnsRuns, SameSession DEF RunUnanswered
<1>7. ASSUME NEW s \in Sessions, RunThrows(s) PROVE SesInv(t)'
  <2>1. PICK run \in cur[s] : Returns(s, run)
    BY <1>7 DEF RunThrows
  <2>2. count'.turns = count.turns
    BY <1>0, <1>7 DEF RunThrows, Counts
  <2>. QED BY <1>7, <2>1, <2>2, ReturnsRuns, SameSession DEF RunThrows
<1>8. ASSUME NEW s \in Sessions, QuietTime(s) PROVE SesInv(t)'
  BY <1>0, <1>8, SameSession DEF QuietTime, Session
<1>9. ASSUME NEW s \in Sessions, IdleTick(s) \/ IdleStarts(s) \/ IdleEnds(s) PROVE SesInv(t)'
  BY <1>9, SameSession DEF IdleTick, IdleStarts, IdleEnds
<1>10. ASSUME NEW s \in Sessions, IdleCurates(s) PROVE SesInv(t)'
  <2>1. CASE cur' = cur /\ ses' \in {ses, CountReset(s)}
    BY <1>10, <2>1, CountResetSame, SameSession DEF IdleCurates
  <2>2. CASE RunStarts(s, "idle") /\ ses' = ses
    <3>1. CASE s = t
      BY <1>10, <2>2, <3>1, RunStartsInv DEF IdleCurates, Starters
    <3>2. CASE s # t
      BY <1>10, <2>2, <3>2, SameSession DEF IdleCurates, RunStarts, IInv, TypeOK
    <3>. QED BY <3>1, <3>2
  <2>. QED BY <1>10, <2>1, <2>2 DEF IdleCurates, RunSkipped
<1>11. ASSUME NEW s \in Sessions, Command(s) PROVE SesInv(t)'
  <2>1. count'.turns = count.turns
    BY <1>0, <1>11 DEF Command, Counts
  <2>. QED BY <1>11, <2>1, SameSession DEF Command
<1>12. ASSUME NEW s \in Sessions, CommandCurates(s) PROVE SesInv(t)'
  <2>1. CASE cur' = cur
    BY <1>12, <2>1, SameSession DEF CommandCurates
  <2>2. CASE RunStarts(s, "command")
    <3>1. CASE s = t
      BY <1>12, <2>2, <3>1, RunStartsInv DEF CommandCurates, Starters
    <3>2. CASE s # t
      BY <1>12, <2>2, <3>2, SameSession DEF CommandCurates, RunStarts, IInv, TypeOK
    <3>. QED BY <3>1, <3>2
  <2>. QED BY <1>12, <2>1, <2>2 DEF CommandCurates, RunSkipped
<1>13. ASSUME NEW s \in Sessions, Distil(s) PROVE SesInv(t)'
  BY <1>0, <1>13, SameSession DEF Distil, Session
<1>14. ASSUME NEW s \in Sessions, Consolidate(s) PROVE SesInv(t)'
  BY <1>0, <1>14, SameSession DEF Consolidate, Session
<1>15. ASSUME Pause \/ PauseEnds PROVE SesInv(t)'
  <2>1. count'.turns = count.turns
    BY <1>0, <1>15 DEF Pause, PauseEnds, Counts
  <2>. QED BY <1>15, <2>1, SameSession DEF Pause, PauseEnds
<1>16. ASSUME Restart PROVE SesInv(t)'
  <2>1. count'.turns = count.turns
    BY <1>0, <1>16 DEF Restart, Counts
  <2>2. /\ ses'[t].mark = ses[t].mark /\ ses'[t].read = ses[t].read
        /\ ses'[t].stored = ses[t].stored /\ ses'[t].raw = ses[t].raw /\ ~ses'[t].asking
    BY <1>a, <1>16 DEF Restart, Session
  <2>3. cur'[t] = {}
    BY <1>16 DEF Restart
  <2>. QED BY <2>1, <2>2, <2>3, SameSession
<1>17. CASE UNCHANGED vars
  BY <1>17, SameSession DEF vars
<1>. QED
  BY <1>1, <1>2, <1>3, <1>4, <1>5, <1>6, <1>7, <1>8, <1>9, <1>10, <1>11, <1>12, <1>13, <1>14, <1>15, <1>16, <1>17
  DEF Next, RunEnds

-----------------------------------------------------------------------------
(* The results.                                                            *)

\* The inductive invariant holds of every behaviour: for any sessions, thresholds
\* and bounds.
THEOREM Invariance == Spec => []IInv
<1>1. IInv /\ [Next]_vars => IInv'
  BY TypeNext, SesNext DEF IInv
<1>. QED BY <1>1, InitInv, PTL DEF Spec

\* The tables, the runs and whoever awaits them keep their types and agree
\* (curator.ts, idle.ts:78-120).
THEOREM TypeCorrect == Spec => []TypeOK
<1>1. IInv => TypeOK
  BY DEF IInv
<1>. QED BY <1>1, Invariance, PTL

\* No message is sent to the curator twice in its raw form, across runs, overlaps
\* and restarts (curatorLimiter, lastCuratedAt in curator.ts).
THEOREM ReadOnce == Spec => []NotReadTwice
<1>1. IInv => NotReadTwice
  <2>. SUFFICES ASSUME IInv, NEW s \in Sessions, NEW run \in cur[s], run.raw
                PROVE  /\ run.msgs \cap ses[s].read = {}
                       /\ \A other \in cur[s] : other = run
    BY DEF NotReadTwice
  <2>1. \A m \in run.msgs : m > ses[s].mark /\ m \in Int /\ ses[s].mark \in Int
    BY DEF IInv, SesInv, RunAhead, TypeOK, Run, Session, Messages
  <2>2. \A m \in ses[s].read : m <= ses[s].mark
    BY DEF IInv, SesInv, ReadBehind
  <2>3. \A other \in cur[s] : other = run
    BY DEF IInv, SesInv, OneRun
  <2>. QED BY <2>1, <2>2, <2>3
<1>. QED BY <1>1, Invariance, PTL

-----------------------------------------------------------------------------
(* The sweep of the knowledge table.                                       *)

LEMMA LeastExists ==
    ASSUME NEW S, S \subseteq Nat, S # {}
    PROVE  \E x \in S : \A y \in S : x <= y
<1>1. PICK x \in S : \A y \in S : ~(<<y, x>> \in OpToRel(<, Nat))
  BY NatLessThanWellFounded, WFMin
<1>2. \A y \in S : ~(y < x)
  BY <1>1 DEF OpToRel
<1>. QED BY <1>2

LEMMA GreatestExists ==
    ASSUME NEW n \in Nat, NEW S, S \subseteq 0 .. n, S # {}
    PROVE  \E x \in S : \A y \in S : y <= x
<1>1. PICK T : T = {n - x : x \in S}
  OBVIOUS
<1>2. PICK z \in T : \A y \in T : z <= y
  <2>1. ASSUME NEW x \in S PROVE n - x \in Nat
    OBVIOUS
  <2>2. T \subseteq Nat /\ T # {}
    BY <1>1, <2>1
  <2>. QED BY <2>2, LeastExists
<1>3. PICK x \in S : z = n - x
  BY <1>1, <1>2
<1>4. \A y \in S : n - y \in T
  BY <1>1
<1>. QED BY <1>2, <1>3, <1>4

\* A tie is decided for one of the entries, the oldest or the newest.
LEMMA FirstIs ==
    ASSUME NEW S \in SUBSET Ids, S # {}, NEW oldest \in BOOLEAN
    PROVE  /\ First(S, oldest) \in S
           /\ \A j \in S : IF oldest THEN First(S, oldest) <= j ELSE j <= First(S, oldest)
<1>1. MaxIds \in Nat /\ S \subseteq 0 .. MaxIds /\ S \subseteq Nat
  BY KnowledgeAssumption DEF Ids
<1>2. \E i \in S : \A j \in S : IF oldest THEN i <= j ELSE j <= i
  <2>1. CASE oldest
    BY <1>1, <2>1, LeastExists
  <2>2. CASE ~oldest
    BY <1>1, <2>2, GreatestExists
  <2>. QED BY <2>1, <2>2
<1>. QED BY <1>2 DEF First

\* In a finite set whose every part has a first element, the elements that no
\* earlier one of them claims can be told from the rest.
AllRanked(P, R) ==
    /\ \A x, y \in P : <<x, y>> \in R => <<y, x>> \notin R
    /\ \A S \in SUBSET P : S # {} => \E x \in S : \A y \in S : y = x \/ <<x, y>> \in R

Kernel(P, R, N, C) == \A i \in P : i \in C <=> \A c \in C : <<c, i>> \in R => <<c, i>> \notin N

LEMMA KernelExists ==
    ASSUME NEW P, IsFiniteSet(P), NEW R, NEW N, AllRanked(P, R)
    PROVE  \E C \in SUBSET P : Kernel(P, R, N, C)
<1>. USE DEF AllRanked, Kernel
<1>. DEFINE Decides(C, D) == C \subseteq D /\ \A i \in D : i \in C <=> \A c \in C : <<c, i>> \in R => <<c, i>> \notin N
            Closed(D) == \A i \in D, j \in P : <<j, i>> \in R => j \in D
<1>1. PICK X : X = {T \in SUBSET P : Closed(P \ T) /\ \E C \in SUBSET P : Decides(C, P \ T)}
  OBVIOUS
<1>2. P \in X
  <2>1. Closed(P \ P) /\ Decides({}, P \ P)
    OBVIOUS
  <2>. QED BY <1>1, <2>1
<1>3. PICK T \in X : \A U \in X : <<U, T>> \notin StrictSubsetOrdering(P)
  <2>1. X \subseteq FiniteSubsetsOf(P)
    BY <1>1, FS_Subset DEF FiniteSubsetsOf
  <2>. QED BY <1>2, <2>1, FS_StrictSubsetOrderingWellFounded, WFMin
<1>4. PICK C \in SUBSET P : Closed(P \ T) /\ Decides(C, P \ T)
  BY <1>1
<1>5. T \subseteq P
  BY <1>1
<1>6. CASE T = {}
  BY <1>4, <1>6
<1>7. CASE T # {}
  <2>1. PICK x \in T : \A y \in T : y = x \/ <<x, y>> \in R
    BY <1>5, <1>7
  <2>2. PICK D : D = P \ T
    OBVIOUS
  <2>3. P \ (T \ {x}) = D \cup {x} /\ x \notin D /\ x \in P
    BY <1>5, <2>1, <2>2
  <2>4. Closed(D \cup {x})
    <3>1. ASSUME NEW j \in P, <<j, x>> \in R PROVE j \in D
      BY <1>5, <2>1, <2>2, <3>1
    <3>. QED BY <1>4, <2>2, <3>1
  <2>5. PICK B : B = IF \A c \in C : <<c, x>> \in R => <<c, x>> \notin N THEN C \cup {x} ELSE C
    OBVIOUS
  <2>6. Decides(B, D \cup {x})
    <3>1. B \subseteq D \cup {x} /\ \A i \in D : i \in B <=> i \in C
      BY <1>4, <2>2, <2>3, <2>5
    <3>2. \A i \in D : <<x, i>> \notin R
      BY <1>4, <2>2, <2>3
    <3>3. <<x, x>> \notin R
      BY <2>3
    <3>4. ASSUME NEW i \in D PROVE i \in B <=> \A c \in B : <<c, i>> \in R => <<c, i>> \notin N
      BY <1>4, <2>2, <2>5, <3>1, <3>2
    <3>5. x \in B <=> \A c \in B : <<c, x>> \in R => <<c, x>> \notin N
      BY <1>4, <2>2, <2>3, <2>5, <3>3
    <3>. QED BY <3>1, <3>4, <3>5
  <2>7. T \ {x} \in X
    <3>1. B \in SUBSET P
      BY <2>3, <2>5
    <3>. QED BY <1>1, <1>5, <2>3, <2>4, <2>6, <3>1
  <2>8. <<T \ {x}, T>> \in StrictSubsetOrdering(P)
    BY <1>5, <2>1 DEF StrictSubsetOrdering
  <2>. QED BY <1>3, <2>7, <2>8
<1>. QED BY <1>6, <1>7

LEMMA DegreeIs ==
    ASSUME NEW e, NEW pool \in SUBSET Ids, NEW i, NEW embedded
    PROVE  Neighbours(e, pool, i, embedded) \subseteq pool /\ Degree(e, pool, i, embedded) \in 0 .. MaxIds
<1>1. PICK S : S = Neighbours(e, pool, i, embedded)
  OBVIOUS
<1>2. S \subseteq pool /\ S \in SUBSET (1 .. MaxIds) /\ MaxIds \in Nat
  BY <1>1, KnowledgeAssumption DEF Neighbours, Ids
<1>3. IsFiniteSet(1 .. MaxIds) /\ Cardinality(1 .. MaxIds) = MaxIds
  BY <1>2, FS_Interval
<1>4. IsFiniteSet(S) /\ Cardinality(S) <= MaxIds
  BY <1>2, <1>3, FS_Subset
<1>5. Cardinality(S) \in Nat
  BY <1>4, FS_CardinalityType
<1>. QED BY <1>1, <1>2, <1>4, <1>5 DEF Degree

\* The most trusted of some entries, and of any two of them that it is one of.
LEMMA LeadingIs ==
    ASSUME NEW e, NEW S \in SUBSET Ids, S # {}, NEW oldest \in BOOLEAN, \A i \in S : e[i].conf \in Confs
    PROVE  /\ Leading(e, S, oldest) \in S
           /\ \A j \in S : e[j].conf <= e[Leading(e, S, oldest)].conf
           /\ \A j \in S : e[j].conf = e[Leading(e, S, oldest)].conf
                 => IF oldest THEN Leading(e, S, oldest) <= j ELSE j <= Leading(e, S, oldest)
<1>1. PICK M : M = {e[i].conf : i \in S}
  OBVIOUS
<1>2. M \subseteq 0 .. 3 /\ M # {}
  BY <1>1 DEF Confs
<1>3. PICK n \in M : \A m \in M : m <= n
  BY <1>2, GreatestExists
<1>4. PICK T : T = {i \in S : \A j \in S : e[j].conf <= e[i].conf}
  OBVIOUS
<1>5. T \in SUBSET Ids /\ T # {}
  BY <1>1, <1>3, <1>4
<1>6. PICK k : k = First(T, oldest)
  OBVIOUS
<1>7. k \in T /\ \A j \in T : IF oldest THEN k <= j ELSE j <= k
  BY <1>5, <1>6, FirstIs
<1>8. k = Leading(e, S, oldest)
  BY <1>4, <1>6 DEF Leading
<1>9. \A j \in S : e[j].conf = e[k].conf => j \in T
  BY <1>4, <1>7
<1>. QED BY <1>4, <1>7, <1>8, <1>9

LEMMA LeadingOfTwo ==
    ASSUME NEW e, NEW S \in SUBSET Ids, NEW oldest \in BOOLEAN, \A i \in S : e[i].conf \in Confs,
           NEW i, NEW j \in S, i = Leading(e, S, oldest)
    PROVE  Leading(e, {i, j}, oldest) = i
<1>1. /\ i \in S /\ e[j].conf <= e[i].conf
      /\ e[j].conf = e[i].conf => IF oldest THEN i <= j ELSE j <= i
  BY LeadingIs
<1>2. PICK P : P = {i, j}
  OBVIOUS
<1>3. PICK k : k = Leading(e, P, oldest)
  OBVIOUS
<1>4. P \in SUBSET Ids /\ P # {} /\ \A x \in P : e[x].conf \in Confs
  BY <1>1, <1>2
<1>5. /\ k \in P /\ e[i].conf <= e[k].conf
      /\ e[i].conf = e[k].conf => IF oldest THEN k <= i ELSE i <= k
  BY <1>2, <1>3, <1>4, LeadingIs
<1>6. e[i].conf \in Nat /\ e[j].conf \in Nat /\ i \in Int /\ j \in Int
  <2>1. Confs \subseteq Nat /\ Ids \subseteq Int
    BY DEF Confs, Ids
  <2>. QED BY <1>1, <2>1
<1>7. k = i
  BY <1>1, <1>2, <1>5, <1>6
<1>. QED BY <1>2, <1>3, <1>7

LEMMA BeforeOnce ==
    ASSUME NEW e, NEW pool \in SUBSET Ids, NEW embedded, NEW oldest \in BOOLEAN, NEW i \in pool, NEW j \in pool,
           Before(e, pool, i, j, embedded, oldest)
    PROVE  ~Before(e, pool, j, i, embedded, oldest)
<1>1. Degree(e, pool, i, embedded) \in Nat /\ Degree(e, pool, j, embedded) \in Nat
  BY DegreeIs
<1>2. {i, j} = {j, i}
  OBVIOUS
<1>. QED BY <1>1, <1>2 DEF Before

LEMMA FirstOf ==
    ASSUME NEW e, NEW pool \in SUBSET Ids, NEW embedded, NEW oldest \in BOOLEAN, NEW S \in SUBSET pool, S # {},
           \A i \in pool : e[i].conf \in Confs
    PROVE  \E i \in S : \A j \in S : j = i \/ Before(e, pool, i, j, embedded, oldest)
<1>1. PICK d : d = [i \in pool |-> Degree(e, pool, i, embedded)]
  OBVIOUS
<1>2. \A i \in pool : d[i] = Degree(e, pool, i, embedded) /\ d[i] \in 0 .. MaxIds
  BY <1>1, DegreeIs
<1>3. PICK n \in {d[i] : i \in S} : \A m \in {d[i] : i \in S} : m <= n
  <2>1. {d[i] : i \in S} \subseteq 0 .. MaxIds /\ {d[i] : i \in S} # {} /\ MaxIds \in Nat
    BY <1>2, KnowledgeAssumption
  <2>. QED BY <2>1, GreatestExists
<1>4. PICK T : T = {i \in S : d[i] = n}
  OBVIOUS
<1>5. PICK i : i = Leading(e, T, oldest)
  OBVIOUS
<1>6. T \in SUBSET Ids /\ T # {} /\ (\A j \in T : e[j].conf \in Confs) /\ i \in T
  <2>1. T \in SUBSET Ids /\ T # {} /\ \A j \in T : e[j].conf \in Confs
    BY <1>3, <1>4
  <2>. QED BY <1>5, <2>1, LeadingIs
<1>7. ASSUME NEW j \in S, j # i PROVE Before(e, pool, i, j, embedded, oldest)
  <2>1. d[j] <= d[i] /\ d[i] \in Nat /\ d[j] \in Nat
    BY <1>2, <1>3, <1>4, <1>6
  <2>2. CASE d[j] < d[i]
    BY <1>2, <1>4, <1>6, <2>2 DEF Before
  <2>3. CASE d[j] = d[i]
    <3>1. j \in T
      BY <1>4, <1>6, <2>3
    <3>2. Leading(e, {i, j}, oldest) = i
      BY <1>5, <1>6, <3>1, LeadingOfTwo
    <3>. QED BY <1>2, <1>4, <1>6, <1>7, <2>3, <3>2 DEF Before
  <2>. QED BY <2>1, <2>2, <2>3
<1>. QED BY <1>4, <1>6, <1>7

LEMMA IdsFinite == IsFiniteSet(Ids)
BY KnowledgeAssumption, FS_Interval DEF Ids

\* The centres are entries of the pool.
LEMMA CentresAre ==
    ASSUME NEW e, NEW pool \in SUBSET Ids, NEW embedded, NEW oldest \in BOOLEAN,
           \A i \in pool : e[i].conf \in Confs
    PROVE  /\ Centres(e, pool, embedded, oldest) \subseteq pool
           /\ \A i \in pool : i \in Centres(e, pool, embedded, oldest)
                <=> \A c \in Centres(e, pool, embedded, oldest) :
                      Before(e, pool, c, i, embedded, oldest) => i \notin Neighbours(e, pool, c, embedded)
<1>1. PICK R : R = {w \in pool \X pool : Before(e, pool, w[1], w[2], embedded, oldest)}
  OBVIOUS
<1>2. PICK N : N = {w \in pool \X pool : w[2] \in Neighbours(e, pool, w[1], embedded)}
  OBVIOUS
<1>3. \A x, y \in pool : <<x, y>> \in R <=> Before(e, pool, x, y, embedded, oldest)
  BY <1>1
<1>4. ASSUME NEW x \in pool, NEW y \in pool
      PROVE  <<x, y>> \in N <=> y \in Neighbours(e, pool, x, embedded)
  <2>1. PICK w : w = <<x, y>>
    OBVIOUS
  <2>2. w \in pool \X pool /\ w[1] = x /\ w[2] = y
    BY <2>1
  <2>. QED BY <1>2, <2>1, <2>2
<1>5. IsFiniteSet(pool)
  BY IdsFinite, FS_Subset
<1>6. AllRanked(pool, R)
  <2>1. \A x, y \in pool : <<x, y>> \in R => <<y, x>> \notin R
    BY <1>3, BeforeOnce
  <2>2. \A S \in SUBSET pool : S # {} => \E x \in S : \A y \in S : y = x \/ <<x, y>> \in R
    BY <1>3, FirstOf
  <2>. QED BY <2>1, <2>2 DEF AllRanked
<1>7. \E C \in SUBSET pool : Kernel(pool, R, N, C)
  BY <1>5, <1>6, KernelExists
<1>8. \E C \in SUBSET pool : \A i \in pool : i \in C <=> \A c \in C : Before(e, pool, c, i, embedded, oldest)
                                                => i \notin Neighbours(e, pool, c, embedded)
  <2>1. PICK C \in SUBSET pool : Kernel(pool, R, N, C)
    BY <1>7
  <2>2. \A c \in C : c \in pool
    OBVIOUS
  <2>. QED BY <1>3, <1>4, <2>1, <2>2 DEF Kernel
<1>. QED BY <1>8 DEF Centres

\* No entry is claimed by two centres.
LEMMA StarsApart ==
    ASSUME NEW e, NEW pool \in SUBSET Ids, NEW embedded, NEW oldest \in BOOLEAN, NEW C \in SUBSET pool,
           NEW c \in C, NEW d \in C, c # d, NEW i, \A k \in pool : e[k].conf \in Confs
    PROVE  ~(i \in Star(e, pool, C, c, embedded, oldest) /\ i \in Star(e, pool, C, d, embedded, oldest))
<1>1. Before(e, pool, c, d, embedded, oldest) \/ Before(e, pool, d, c, embedded, oldest)
  <2>1. PICK S : S = {c, d}
    OBVIOUS
  <2>2. S \in SUBSET pool /\ S # {}
    BY <2>1
  <2>3. PICK k \in S : \A j \in S : j = k \/ Before(e, pool, k, j, embedded, oldest)
    BY <2>2, FirstOf
  <2>. QED BY <2>1, <2>3
<1>2. ASSUME i \in Star(e, pool, C, c, embedded, oldest), i \in Star(e, pool, C, d, embedded, oldest)
      PROVE  i # c /\ i # d /\ i \in Neighbours(e, pool, c, embedded) /\ i \in Neighbours(e, pool, d, embedded)
  BY <1>2 DEF Star
<1>. QED BY <1>1, <1>2 DEF Star

LEMMA StarWithin ==
    ASSUME NEW e, NEW pool \in SUBSET Ids, NEW embedded, NEW oldest \in BOOLEAN, NEW C \in SUBSET pool, NEW c \in C
    PROVE  /\ Star(e, pool, C, c, embedded, oldest) \subseteq pool
           /\ c \in Star(e, pool, C, c, embedded, oldest)
           /\ \A i \in Star(e, pool, C, c, embedded, oldest) : i = c \/ i \in Neighbours(e, pool, c, embedded)
BY DEF Star, Neighbours

LEMMA SurvivorIs ==
    ASSUME NEW e, NEW star \in SUBSET Ids, star # {}, NEW oldest \in BOOLEAN, \A i \in star : e[i].conf \in Confs
    PROVE  Survivor(e, star, oldest) \in star /\ \A j \in star : e[j].conf <= e[Survivor(e, star, oldest)].conf
BY LeadingIs DEF Survivor

LEMMA AlikeBoth ==
    ASSUME NEW e, NEW pool, NEW embedded, NEW c \in pool, NEW i \in Neighbours(e, pool, c, embedded)
    PROVE  c \in Neighbours(e, pool, i, embedded)
<1>1. \A x, y : <<x, y>> \in NearTitles => <<y, x>> \in NearTitles
  BY NearAssumption
<1>2. \A x, y : <<x, y>> \in NearTexts => <<y, x>> \in NearTexts
  BY NearAssumption
<1>3. i \in pool /\ i # c /\ Alike(e, c, i, embedded)
  BY DEF Neighbours
<1>4. Alike(e, i, c, embedded)
  BY <1>1, <1>2, <1>3 DEF Alike
<1>. QED BY <1>3, <1>4 DEF Neighbours

\* An entry that was deleted has a survivor with a neighbour in common.
Outlived(e, pool, gone, embedded, i) ==
    LET Near(k) == {k} \cup Neighbours(e, pool, k, embedded)
    IN  \E j \in pool \ gone : Near(i) \cap Near(j) # {} /\ e[j].conf >= e[i].conf

LEMMA SweepKeeps ==
    ASSUME NEW e, NEW p, NEW embedded, NEW oldest \in BOOLEAN,
           \A k \in Rows(e) : e[k].conf \in Confs,
           NEW i \in Duplicates(e, p, embedded, oldest)
    PROVE  /\ i \in Visible(e, p, FALSE)
           /\ Outlived(e, Visible(e, p, FALSE), Duplicates(e, p, embedded, oldest), embedded, i)
<1>. SUFFICES ASSUME NEW pool, pool = Visible(e, p, FALSE),
                     NEW gone, gone = Duplicates(e, p, embedded, oldest)
              PROVE  i \in pool /\ Outlived(e, pool, gone, embedded, i)
  OBVIOUS
<1>1. pool \in SUBSET Ids /\ \A k \in pool : e[k].conf \in Confs
  BY DEF Visible, Rows
<1>2. PICK C : C = Centres(e, pool, embedded, oldest)
  OBVIOUS
<1>3. C \in SUBSET pool
  BY <1>1, <1>2, CentresAre
<1>4. Stars(e, pool, embedded, oldest) = {Star(e, pool, C, c, embedded, oldest) : c \in C}
  BY <1>2 DEF Stars
<1>5. \A k : k \in gone <=> \E c \in C : /\ k \in Star(e, pool, C, c, embedded, oldest)
                                         /\ k # Survivor(e, Star(e, pool, C, c, embedded, oldest), oldest)
  <2>1. \A k : k \in gone <=> \E star \in Stars(e, pool, embedded, oldest) : k \in star \ {Survivor(e, star, oldest)}
    BY DEF Duplicates
  <2>2. \A c \in C : Star(e, pool, C, c, embedded, oldest) \in Stars(e, pool, embedded, oldest)
    BY <1>4
  <2>3. \A star \in Stars(e, pool, embedded, oldest) : \E c \in C : star = Star(e, pool, C, c, embedded, oldest)
    BY <1>4
  <2>4. ASSUME NEW k \in gone
        PROVE  \E c \in C : /\ k \in Star(e, pool, C, c, embedded, oldest)
                            /\ k # Survivor(e, Star(e, pool, C, c, embedded, oldest), oldest)
    <3>1. PICK star \in Stars(e, pool, embedded, oldest) : k \in star \ {Survivor(e, star, oldest)}
      BY <2>1
    <3>. QED BY <2>3, <3>1
  <2>. QED BY <2>1, <2>2, <2>4
<1>6. PICK c \in C : /\ i \in Star(e, pool, C, c, embedded, oldest)
                     /\ i # Survivor(e, Star(e, pool, C, c, embedded, oldest), oldest)
  BY <1>5
<1>7. PICK star : star = Star(e, pool, C, c, embedded, oldest)
  OBVIOUS
<1>8. star \subseteq pool /\ c \in star /\ \A k \in star : k = c \/ k \in Neighbours(e, pool, c, embedded)
  BY <1>1, <1>3, <1>7, StarWithin
<1>9. PICK j : j = Survivor(e, star, oldest)
  OBVIOUS
<1>10. j \in star /\ e[i].conf <= e[j].conf /\ e[i].conf \in Int /\ e[j].conf \in Int
  <2>1. star \in SUBSET Ids /\ star # {} /\ \A k \in star : e[k].conf \in Confs
    BY <1>1, <1>8
  <2>2. j \in star /\ \A k \in star : e[k].conf <= e[j].conf
    BY <1>9, <2>1, SurvivorIs
  <2>3. i \in star
    BY <1>6, <1>7
  <2>4. e[i].conf \in 0 .. 3 /\ e[j].conf \in 0 .. 3
    BY <2>1, <2>2, <2>3 DEF Confs
  <2>. QED BY <2>2, <2>3, <2>4
<1>11. j \notin gone
  <2>1. ASSUME NEW d \in C, j \in Star(e, pool, C, d, embedded, oldest) PROVE d = c
    BY <1>1, <1>3, <1>7, <1>10, <2>1, StarsApart
  <2>. QED BY <1>5, <1>7, <1>9, <2>1
<1>12. \A k \in star : c \in {k} \cup Neighbours(e, pool, k, embedded)
  BY <1>3, <1>8, AlikeBoth
<1>13. i \in star
  BY <1>6, <1>7
<1>14. c \in ({i} \cup Neighbours(e, pool, i, embedded)) \cap ({j} \cup Neighbours(e, pool, j, embedded))
  BY <1>10, <1>12, <1>13
<1>15. i \in pool /\ j \in pool \ gone /\ e[j].conf >= e[i].conf
  BY <1>8, <1>10, <1>11, <1>13
<1>. QED BY <1>14, <1>15 DEF Outlived

-----------------------------------------------------------------------------
(* What a writer leaves of the table.                                      *)

EntryFields == {"owner", "title", "content", "cross", "conf"}
WorkFields == {"entry", "minted", "sync", "created"}

EntryOK(r) == DOMAIN r = EntryFields /\ r.conf \in Confs

\* The rows of the table, among the ids given out.
TableOK(e, n) ==
    /\ e = [i \in Ids |-> e[i]]
    /\ \A i \in Ids : e[i] = NoEntry \/ (EntryOK(e[i]) /\ i <= n)

WorkOK(w) == DOMAIN w = WorkFields /\ w.minted \in Nat /\ TableOK(w.entry, w.minted)

\* The entries of other projects are as they were, as far as whose they are goes.
Spared(e, f, p) == \A i \in Rows(e) : e[i].owner \in {p, NoProject} \/ (i \in Rows(f) /\ f[i].owner = e[i].owner)

LEMMA OpsAre ==
    ASSUME NEW ops, NEW p, NEW skipCreate, NEW oldest, Len(ops) \in Nat
    PROVE  \E w : /\ w = [n \in 0 .. Len(ops) |-> IF n = 0 THEN Work ELSE ApplyOp(w[n - 1], ops[n], p, skipCreate, oldest)]
                  /\ ApplyOps(ops, p, skipCreate, oldest) = w[Len(ops)]
<1>. DEFINE Runs(m, w) == w = [n \in 0 .. m |-> IF n = 0 THEN Work ELSE ApplyOp(w[n - 1], ops[n], p, skipCreate, oldest)]
<1>1. PICK S : S = {m \in Nat : ~\E w : Runs(m, w)}
  OBVIOUS
<1>2. ASSUME NEW m \in S, \A k \in S : m <= k PROVE FALSE
  <2>1. m # 0
    <3>1. PICK w : w = [n \in 0 .. 0 |-> Work]
      OBVIOUS
    <3>2. Runs(0, w)
      BY <3>1
    <3>. QED BY <1>1, <3>2
  <2>2. m \in Nat /\ m - 1 \in Nat /\ m - 1 \notin S
    <3>1. m \in Nat
      BY <1>1
    <3>2. m - 1 \in Nat /\ ~(m <= m - 1)
      BY <2>1, <3>1
    <3>. QED BY <1>2, <3>1, <3>2
  <2>3. PICK v : Runs(m - 1, v)
    BY <1>1, <2>2
  <2>4. PICK w : w = [n \in 0 .. m |-> IF n = m THEN ApplyOp(v[m - 1], ops[m], p, skipCreate, oldest) ELSE v[n]]
    OBVIOUS
  <2>5. \A n \in 0 .. m - 1 : w[n] = v[n]
    BY <2>2, <2>4
  <2>6. w[m] = ApplyOp(w[m - 1], ops[m], p, skipCreate, oldest)
    BY <2>2, <2>4, <2>5
  <2>7. \A n \in 0 .. m : w[n] = IF n = 0 THEN Work ELSE ApplyOp(w[n - 1], ops[n], p, skipCreate, oldest)
    <3>1. ASSUME NEW n \in 0 .. m - 1 PROVE w[n] = IF n = 0 THEN Work ELSE ApplyOp(w[n - 1], ops[n], p, skipCreate, oldest)
      <4>1. v[n] = IF n = 0 THEN Work ELSE ApplyOp(v[n - 1], ops[n], p, skipCreate, oldest)
        BY <2>2, <2>3
      <4>2. n # 0 => n - 1 \in 0 .. m - 1
        BY <2>2
      <4>. QED BY <2>5, <4>1, <4>2
    <3>. QED BY <2>1, <2>2, <2>6, <3>1
  <2>8. Runs(m, w)
    BY <2>4, <2>7
  <2>. QED BY <1>1, <2>8
<1>3. \E w : Runs(Len(ops), w)
  <2>1. S = {}
    BY <1>1, <1>2, LeastExists
  <2>. QED BY <1>1, <2>1
<1>. QED BY <1>3 DEF ApplyOps

LEMMA FilledIn ==
    ASSUME NEW r, DOMAIN r = EntryFields
    PROVE  r # NoEntry
<1>1. DOMAIN NoEntry = {"owner"}
  BY DEF NoEntry
<1>. QED BY <1>1 DEF EntryFields

LEMMA RowsOf ==
    ASSUME NEW e, NEW n, TableOK(e, n)
    PROVE  DOMAIN e = Ids /\ \A i \in Rows(e) : i \in Ids /\ EntryOK(e[i]) /\ e[i].conf \in Confs /\ i <= n
BY DEF TableOK, Rows, EntryOK

LEMMA ChangeKeeps ==
    ASSUME NEW e, NEW n, TableOK(e, n), NEW i \in Rows(e), NEW content, NEW conf \in Confs \cup {Keep},
           NEW f, f = Change(e, i, content, conf)
    PROVE  TableOK(f, n) /\ \A p, e0 : Spared(e0, e, p) => Spared(e0, f, p)
<1>1. PICK r : r = e[i]
  OBVIOUS
<1>2. PICK c : c = IF content = Keep THEN r.content ELSE content
  OBVIOUS
<1>3. PICK k : k = IF conf = Keep THEN r.conf ELSE conf
  OBVIOUS
<1>4. PICK u : u = [r EXCEPT !.content = c, !.conf = k]
  OBVIOUS
<1>5. DOMAIN e = Ids /\ i \in Ids /\ DOMAIN r = EntryFields /\ r.conf \in Confs /\ i <= n
  BY <1>1, RowsOf DEF EntryOK
<1>6. f = [e EXCEPT ![i] = u]
  BY <1>1, <1>2, <1>3, <1>4, <1>5 DEF Change, EntryFields
<1>7. DOMAIN u = EntryFields /\ u.conf = k /\ k \in Confs /\ u.owner = r.owner
  BY <1>3, <1>4, <1>5 DEF EntryFields
<1>8. f = [j \in Ids |-> f[j]] /\ f[i] = u /\ \A j \in Ids \ {i} : f[j] = e[j]
  BY <1>5, <1>6 DEF TableOK
<1>9. TableOK(f, n)
  BY <1>5, <1>7, <1>8 DEF TableOK, EntryOK
<1>10. \A j \in Rows(e) : j \in Rows(f) /\ f[j].owner = e[j].owner
  BY <1>1, <1>5, <1>7, <1>8, FilledIn DEF Rows
<1>. QED BY <1>9, <1>10 DEF Spared

LEMMA WithoutKeeps ==
    ASSUME NEW e, NEW n, TableOK(e, n), NEW gone, NEW f, f = Without(e, gone)
    PROVE  /\ TableOK(f, n) /\ Rows(f) = Rows(e) \ gone
           /\ \A i \in Rows(f) : f[i] = e[i]
BY DEF TableOK, Without, Rows

LEMMA InsertKeeps ==
    ASSUME NEW w, WorkOK(w), NEW id \in Nat, NEW new, new.conf \in Confs \cup {Keep},
           NEW n \in Nat, w.minted <= n, id <= n, NEW v, v = Insert(w, id, new)
    PROVE  /\ DOMAIN v = WorkFields /\ v.minted = w.minted /\ TableOK(v.entry, n)
           /\ \A j \in Rows(w.entry) \ {id} : j \in Rows(v.entry) /\ v.entry[j] = w.entry[j]
<1>1. PICK r : r = [owner |-> new.owner, title |-> new.title, content |-> new.content,
                    cross |-> new.owner = NoProject \/ new.cross,
                    conf |-> IF new.conf = Keep THEN 3 ELSE new.conf]
  OBVIOUS
<1>2. DOMAIN r = EntryFields /\ r.conf \in Confs
  BY <1>1 DEF EntryFields, Confs
<1>3. PICK e : e = w.entry
  OBVIOUS
<1>4. PICK f : f = [e EXCEPT ![id] = r]
  OBVIOUS
<1>5. v = [w EXCEPT !.entry = f]
  BY <1>1, <1>3, <1>4 DEF Insert, WorkOK, WorkFields
<1>6. DOMAIN v = WorkFields /\ v.minted = w.minted /\ v.entry = f
  BY <1>5 DEF WorkOK, WorkFields
<1>7. TableOK(e, w.minted) /\ DOMAIN e = Ids /\ w.minted \in Nat
  BY <1>3, RowsOf DEF WorkOK
<1>8. f = [j \in Ids |-> f[j]] /\ \A j \in Ids : f[j] = IF j = id THEN r ELSE e[j]
  BY <1>4, <1>7 DEF TableOK
<1>9. TableOK(f, n)
  <2>1. ASSUME NEW j \in Ids PROVE f[j] = NoEntry \/ (EntryOK(f[j]) /\ j <= n)
    <3>1. CASE j = id
      BY <1>2, <1>8, <3>1 DEF EntryOK
    <3>2. CASE j # id
      <4>1. j \in Nat /\ (e[j] = NoEntry \/ (EntryOK(e[j]) /\ j <= w.minted))
        BY <1>7 DEF TableOK, Ids
      <4>. QED BY <1>7, <1>8, <3>2, <4>1
    <3>. QED BY <3>1, <3>2
  <2>. QED BY <1>8, <2>1 DEF TableOK
<1>10. \A j \in Rows(e) \ {id} : j \in Rows(f) /\ f[j] = e[j]
  BY <1>8 DEF Rows
<1>. QED BY <1>3, <1>6, <1>9, <1>10

LEMMA FirstWithin ==
    ASSUME NEW S \in SUBSET Ids, NEW oldest \in BOOLEAN
    PROVE  First(S, oldest) = NoId \/ First(S, oldest) \in S
BY FirstIs DEF First

LEMMA FuzzyIs ==
    ASSUME NEW e, NEW title, NEW owner, NEW oldest \in BOOLEAN
    PROVE  FuzzyDuplicate(e, title, owner, oldest) = NoId \/ FuzzyDuplicate(e, title, owner, oldest) \in Rows(e)
<1>1. PICK S : S = {i \in Rows(e) : /\ e[i].conf > 1
                                    /\ e[i].owner = owner \/ e[i].cross
                                    /\ <<title, e[i].title>> \in NearTitles}
  OBVIOUS
<1>2. S \in SUBSET Rows(e) /\ S \in SUBSET Ids
  BY <1>1 DEF Rows
<1>3. FuzzyDuplicate(e, title, owner, oldest) = First(S, oldest)
  BY <1>1 DEF FuzzyDuplicate
<1>. QED BY <1>2, <1>3, FirstWithin

LEMMA DuplicateIs ==
    ASSUME NEW e, NEW new, NEW oldest \in BOOLEAN
    PROVE  Duplicate(e, new, oldest) = NoId \/ Duplicate(e, new, oldest) \in Rows(e)
<1>1. Rows(e) \subseteq Ids
  BY DEF Rows
<1>3. PICK same : same = {i \in Rows(e) : e[i].title = new.title /\ e[i].conf > 0}
  OBVIOUS
<1>4. PICK own : own = {i \in same : e[i].owner = new.owner}
  OBVIOUS
<1>5. PICK shared : shared = {i \in same : e[i].cross}
  OBVIOUS
<1>6. own \in SUBSET Rows(e) /\ shared \in SUBSET Rows(e)
  BY <1>3, <1>4, <1>5
<1>7. Duplicate(e, new, oldest) = IF own \cup shared = {} THEN FuzzyDuplicate(e, new.title, new.owner, oldest)
                                  ELSE First(IF own # {} THEN own ELSE shared, oldest)
  BY <1>3, <1>4, <1>5 DEF Duplicate
<1>8. (IF own # {} THEN own ELSE shared) \in SUBSET Rows(e)
  BY <1>6
<1>9. (IF own # {} THEN own ELSE shared) \in SUBSET Ids
  BY <1>1, <1>8
<1>. QED BY <1>7, <1>8, <1>9, FirstWithin, FuzzyIs

LEMMA CreateKeeps ==
    ASSUME NEW w, WorkOK(w), NEW new, new.conf \in Confs \cup {Keep}, NEW oldest \in BOOLEAN,
           NEW v, v = Create(w, new, oldest)
    PROVE  /\ WorkOK(v) /\ v.minted \in {w.minted, w.minted + 1}
           /\ \A p, e0 : Spared(e0, w.entry, p) => Spared(e0, v.entry, p)
<1>1. PICK twin : twin = Duplicate(w.entry, new, oldest)
  OBVIOUS
<1>2. twin = NoId \/ twin \in Rows(w.entry)
  BY <1>1, DuplicateIs
<1>3. PICK id : id = IF twin = NoId THEN w.minted + 1 ELSE twin
  OBVIOUS
<1>4. PICK made : made = IF twin = NoId THEN [Insert(w, id, new) EXCEPT !.minted = id]
                         ELSE [w EXCEPT !.entry = Change(w.entry, twin, new.content, new.conf)]
  OBVIOUS
<1>5. v = [made EXCEPT !.sync = made.sync \cup {id}, !.created = TRUE]
  BY <1>1, <1>3, <1>4 DEF Create
<1>6. DOMAIN w = WorkFields /\ w.minted \in Nat /\ TableOK(w.entry, w.minted)
  BY DEF WorkOK
<1>7. /\ DOMAIN made = WorkFields /\ made.minted \in {w.minted, w.minted + 1}
      /\ TableOK(made.entry, made.minted)
      /\ \A p, e0 : Spared(e0, w.entry, p) => Spared(e0, made.entry, p)
  <2>1. CASE twin = NoId
    <3>1. PICK x : x = Insert(w, id, new)
      OBVIOUS
    <3>2. id = w.minted + 1 /\ id \in Nat /\ w.minted <= id
      BY <1>3, <1>6, <2>1
    <3>3. /\ DOMAIN x = WorkFields /\ TableOK(x.entry, id)
          /\ \A j \in Rows(w.entry) \ {id} : j \in Rows(x.entry) /\ x.entry[j] = w.entry[j]
      BY <3>1, <3>2, InsertKeeps
    <3>4. made = [x EXCEPT !.minted = id]
      BY <1>4, <2>1, <3>1
    <3>5. DOMAIN made = WorkFields /\ made.minted = id /\ made.entry = x.entry
      BY <3>3, <3>4 DEF WorkFields
    <3>6. id \notin Rows(w.entry)
      BY <1>6, <3>2, RowsOf DEF Ids
    <3>7. \A j \in Rows(w.entry) : j \in Rows(made.entry) /\ made.entry[j].owner = w.entry[j].owner
      BY <3>3, <3>5, <3>6
    <3>. QED BY <3>2, <3>3, <3>5, <3>7 DEF Spared
  <2>2. CASE twin # NoId
    <3>1. PICK f : f = Change(w.entry, twin, new.content, new.conf)
      OBVIOUS
    <3>2. TableOK(f, w.minted) /\ \A p, e0 : Spared(e0, w.entry, p) => Spared(e0, f, p)
      BY <1>2, <1>6, <2>2, <3>1, ChangeKeeps
    <3>3. made = [w EXCEPT !.entry = f]
      BY <1>4, <2>2, <3>1
    <3>4. DOMAIN made = WorkFields /\ made.minted = w.minted /\ made.entry = f
      BY <1>6, <3>3 DEF WorkFields
    <3>. QED BY <3>2, <3>4
  <2>. QED BY <2>1, <2>2
<1>8. DOMAIN v = WorkFields /\ v.minted = made.minted /\ v.entry = made.entry
  BY <1>5, <1>7 DEF WorkFields
<1>. QED BY <1>6, <1>7, <1>8 DEF WorkOK

LEMMA ApplyOpKeeps ==
    ASSUME NEW w, WorkOK(w), NEW op \in Op, NEW p, NEW skipCreate, NEW oldest \in BOOLEAN,
           NEW v, v = ApplyOp(w, op, p, skipCreate, oldest)
    PROVE  WorkOK(v) /\ w.minted <= v.minted /\ \A e0 : Spared(e0, w.entry, p) => Spared(e0, v.entry, p)
<1>1. DOMAIN w = WorkFields /\ w.minted \in Nat /\ TableOK(w.entry, w.minted)
  BY DEF WorkOK
<1>2. CASE op.op = "create" /\ Creates(skipCreate)
  <2>1. PICK new : new = NewFrom(op, p)
    OBVIOUS
  <2>2. v = Create(w, new, oldest)
    BY <1>2, <2>1 DEF ApplyOp
  <2>3. new.conf \in Confs \cup {Keep}
    BY <1>2, <2>1 DEF NewFrom, Op
  <2>. QED BY <1>1, <2>2, <2>3, CreateKeeps
<1>3. CASE op.op = "update" /\ Guarded(w.entry, op.id, p)
  <2>1. PICK content : content = IF op.content = Keep THEN Keep ELSE Written(op.content)
    OBVIOUS
  <2>2. PICK f : f = Change(w.entry, op.id, content, op.conf)
    OBVIOUS
  <2>3. op.conf \in Confs \cup {Keep} /\ op.id \in Rows(w.entry)
    BY <1>3 DEF Op, Guarded
  <2>4. TableOK(f, w.minted) /\ \A e0 : Spared(e0, w.entry, p) => Spared(e0, f, p)
    BY <1>1, <2>2, <2>3, ChangeKeeps
  <2>5. v = [w EXCEPT !.entry = f, !.sync = IF op.content = Keep THEN w.sync ELSE w.sync \cup {op.id}]
    BY <1>3, <2>1, <2>2 DEF ApplyOp
  <2>6. DOMAIN v = WorkFields /\ v.minted = w.minted /\ v.entry = f
    BY <1>1, <2>5 DEF WorkFields
  <2>. QED BY <1>1, <2>4, <2>6 DEF WorkOK
<1>4. CASE op.op = "delete" /\ Guarded(w.entry, op.id, p)
  <2>1. PICK f : f = Without(w.entry, {op.id})
    OBVIOUS
  <2>2. TableOK(f, w.minted) /\ Rows(f) = Rows(w.entry) \ {op.id} /\ \A i \in Rows(f) : f[i] = w.entry[i]
    BY <1>1, <2>1, WithoutKeeps
  <2>3. w.entry[op.id].owner \in {p, NoProject}
    BY <1>4 DEF Guarded
  <2>4. \A e0 : Spared(e0, w.entry, p) => Spared(e0, f, p)
    BY <2>2, <2>3 DEF Spared
  <2>5. v = [w EXCEPT !.entry = f]
    BY <1>4, <2>1 DEF ApplyOp
  <2>6. DOMAIN v = WorkFields /\ v.minted = w.minted /\ v.entry = f
    BY <1>1, <2>5 DEF WorkFields
  <2>. QED BY <1>1, <2>2, <2>4, <2>6 DEF WorkOK
<1>5. CASE /\ ~(op.op = "create" /\ Creates(skipCreate))
           /\ ~(op.op = "update" /\ Guarded(w.entry, op.id, p))
           /\ ~(op.op = "delete" /\ Guarded(w.entry, op.id, p))
  <2>1. v = w
    BY <1>5 DEF ApplyOp
  <2>. QED BY <1>1, <2>1
<1>. QED BY <1>2, <1>3, <1>4, <1>5

\* An answer leaves the entries of other projects.
LEMMA ApplyOpsKeep ==
    ASSUME TableOK(entry, minted), minted \in Nat, NEW ops \in Answers, NEW p, NEW skipCreate, NEW oldest \in BOOLEAN,
           NEW work, work = ApplyOps(ops, p, skipCreate, oldest)
    PROVE  WorkOK(work) /\ minted <= work.minted /\ Spared(entry, work.entry, p)
<1>1. ops \in Seq(Op) /\ Len(ops) \in Nat /\ \A n \in 1 .. Len(ops) : ops[n] \in Op
  BY AnswersAssumption
<1>2. PICK w : /\ w = [n \in 0 .. Len(ops) |-> IF n = 0 THEN Work ELSE ApplyOp(w[n - 1], ops[n], p, skipCreate, oldest)]
               /\ work = w[Len(ops)]
  BY <1>1, OpsAre
<1>3. PICK bad : bad = {n \in 0 .. Len(ops) : ~(WorkOK(w[n]) /\ minted <= w[n].minted /\ Spared(entry, w[n].entry, p))}
  OBVIOUS
<1>4. 0 \notin bad
  <2>1. w[0] = Work
    BY <1>1, <1>2
  <2>2. WorkOK(Work) /\ Work.entry = entry /\ Work.minted = minted
    BY DEF WorkOK, Work, WorkFields
  <2>. QED BY <1>3, <2>1, <2>2 DEF Spared
<1>5. ASSUME NEW n \in bad, \A k \in bad : n <= k PROVE FALSE
  <2>1. n \in 1 .. Len(ops)
    BY <1>1, <1>3, <1>4
  <2>2. n - 1 \in 0 .. Len(ops) /\ ~(n <= n - 1)
    BY <1>1, <2>1
  <2>3. WorkOK(w[n - 1]) /\ minted <= w[n - 1].minted /\ Spared(entry, w[n - 1].entry, p)
    BY <1>3, <1>5, <2>2
  <2>4. w[n] = ApplyOp(w[n - 1], ops[n], p, skipCreate, oldest)
    BY <1>1, <1>2, <2>1
  <2>5. WorkOK(w[n]) /\ w[n - 1].minted <= w[n].minted /\ Spared(entry, w[n].entry, p)
    BY <1>1, <2>1, <2>3, <2>4, ApplyOpKeeps
  <2>6. minted <= w[n].minted
    BY <2>3, <2>5 DEF WorkOK
  <2>. QED BY <1>3, <2>5, <2>6
<1>6. bad = {}
  <2>1. bad \subseteq Nat
    BY <1>3
  <2>. QED BY <1>5, <2>1, LeastExists
<1>7. Len(ops) \notin bad /\ Len(ops) \in 0 .. Len(ops)
  BY <1>1, <1>6
<1>. QED BY <1>2, <1>3, <1>7

-----------------------------------------------------------------------------
(* What an import of a file leaves of the table.                           *)

\* The rows of a file carry ids that were given out.
RowsOK(rows, n) == IsFiniteSet(rows) /\ \A row \in rows : "id" \in DOMAIN row /\ row.id \in 0 .. n

LEMMA ListIs ==
    ASSUME NEW rows, IsFiniteSet(rows), NEW list, list = SetToSeq(rows)
    PROVE  Len(list) \in Nat /\ \A n \in 1 .. Len(list) : list[n] \in rows
<1>1. PICK k : k = Cardinality(rows)
  OBVIOUS
<1>2. k \in Nat /\ ExistsBijection(1 .. k, rows)
  BY <1>1, FS_CardinalityType
<1>3. \E f \in [1 .. k -> rows] : IsInjective(f)
  BY <1>2 DEF ExistsBijection, Bijection, Injection, IsInjective
<1>4. list \in [1 .. k -> rows]
  BY <1>1, <1>3 DEF SetToSeq
<1>5. list \in Seq(rows) /\ Len(list) = k
  BY <1>2, <1>4
<1>. QED BY <1>2, <1>4, <1>5

LEMMA ImportIs ==
    ASSUME NEW work, NEW rows, NEW p, NEW oldest, NEW list, list = SetToSeq(rows), Len(list) \in Nat
    PROVE  \E w : /\ w = [n \in 0 .. Len(list) |-> IF n = 0 THEN work ELSE ImportRow(w[n - 1], list[n], p, oldest)]
                  /\ Import(work, rows, p, oldest) = w[Len(list)]
<1>. DEFINE Runs(m, w) == w = [n \in 0 .. m |-> IF n = 0 THEN work ELSE ImportRow(w[n - 1], list[n], p, oldest)]
<1>1. PICK S : S = {m \in Nat : ~\E w : Runs(m, w)}
  OBVIOUS
<1>2. ASSUME NEW m \in S, \A k \in S : m <= k PROVE FALSE
  <2>1. m # 0
    <3>1. PICK w : w = [n \in 0 .. 0 |-> work]
      OBVIOUS
    <3>2. Runs(0, w)
      BY <3>1
    <3>. QED BY <1>1, <3>2
  <2>2. m \in Nat /\ m - 1 \in Nat /\ m - 1 \notin S
    <3>1. m \in Nat
      BY <1>1
    <3>2. m - 1 \in Nat /\ ~(m <= m - 1)
      BY <2>1, <3>1
    <3>. QED BY <1>2, <3>1, <3>2
  <2>3. PICK v : Runs(m - 1, v)
    BY <1>1, <2>2
  <2>4. PICK w : w = [n \in 0 .. m |-> IF n = m THEN ImportRow(v[m - 1], list[m], p, oldest) ELSE v[n]]
    OBVIOUS
  <2>5. \A n \in 0 .. m - 1 : w[n] = v[n]
    BY <2>2, <2>4
  <2>6. w[m] = ImportRow(w[m - 1], list[m], p, oldest)
    BY <2>2, <2>4, <2>5
  <2>7. \A n \in 0 .. m : w[n] = IF n = 0 THEN work ELSE ImportRow(w[n - 1], list[n], p, oldest)
    <3>1. ASSUME NEW n \in 0 .. m - 1 PROVE w[n] = IF n = 0 THEN work ELSE ImportRow(w[n - 1], list[n], p, oldest)
      <4>1. v[n] = IF n = 0 THEN work ELSE ImportRow(v[n - 1], list[n], p, oldest)
        BY <2>2, <2>3
      <4>2. n # 0 => n - 1 \in 0 .. m - 1
        BY <2>2
      <4>. QED BY <2>5, <4>1, <4>2
    <3>. QED BY <2>1, <2>2, <2>6, <3>1
  <2>8. Runs(m, w)
    BY <2>4, <2>7
  <2>. QED BY <1>1, <2>8
<1>3. \E w : Runs(Len(list), w)
  <2>1. S = {}
    BY <1>1, <1>2, LeastExists
  <2>. QED BY <1>1, <2>1
<1>. QED BY <1>3 DEF Import

LEMMA ChangedWork ==
    ASSUME NEW w, WorkOK(w), NEW i \in Rows(w.entry), NEW content,
           NEW v, v = [w EXCEPT !.entry = Change(w.entry, i, content, Keep)]
    PROVE  WorkOK(v) /\ v.minted = w.minted
<1>1. PICK f : f = Change(w.entry, i, content, Keep)
  OBVIOUS
<1>2. TableOK(w.entry, w.minted) /\ DOMAIN w = WorkFields /\ w.minted \in Nat
  BY DEF WorkOK
<1>3. TableOK(f, w.minted)
  BY <1>1, <1>2, ChangeKeeps
<1>4. DOMAIN v = WorkFields /\ v.minted = w.minted /\ v.entry = f
  BY <1>1, <1>2 DEF WorkFields
<1>. QED BY <1>2, <1>3, <1>4 DEF WorkOK

LEMMA ImportRowKeeps ==
    ASSUME NEW w, WorkOK(w), NEW row, row.id \in 0 .. w.minted, NEW p, NEW oldest \in BOOLEAN,
           NEW v, v = ImportRow(w, row, p, oldest)
    PROVE  WorkOK(v) /\ w.minted <= v.minted
<1>1. DOMAIN w = WorkFields /\ w.minted \in Nat /\ TableOK(w.entry, w.minted)
  BY DEF WorkOK
<1>2. NewEntry(p, row).conf = Keep
  BY DEF NewEntry
<1>3. CASE row.id = NoId
  <2>1. CASE v = w
    BY <1>1, <2>1
  <2>2. CASE v = Create(w, NewEntry(p, row), oldest)
    BY <1>1, <1>2, <2>2, CreateKeeps
  <2>. QED BY <1>3, <2>1, <2>2 DEF ImportRow, ImportHandWritten
<1>4. CASE row.id # NoId /\ row.id \in Rows(w.entry)
  <2>1. v = [w EXCEPT !.entry = Change(w.entry, row.id, row.content, Keep)]
    BY <1>4 DEF ImportRow, ImportKnown
  <2>. QED BY <1>1, <1>4, <2>1, ChangedWork
<1>5. CASE row.id # NoId /\ row.id \notin Rows(w.entry)
  <2>1. PICK twin : twin = FuzzyDuplicate(w.entry, row.title, p, oldest)
    OBVIOUS
  <2>2. twin = NoId \/ twin \in Rows(w.entry)
    BY <2>1, FuzzyIs
  <2>3. v = IF twin # NoId THEN [w EXCEPT !.entry = Change(w.entry, twin, row.content, Keep)]
            ELSE Insert(w, row.id, NewEntry(p, row))
    BY <1>5, <2>1 DEF ImportRow, ImportForeign
  <2>4. CASE twin # NoId
    BY <1>1, <2>2, <2>3, <2>4, ChangedWork
  <2>5. CASE twin = NoId
    <3>1. row.id \in Nat /\ row.id <= w.minted /\ w.minted <= w.minted
      BY <1>1
    <3>2. DOMAIN v = WorkFields /\ v.minted = w.minted /\ TableOK(v.entry, w.minted)
      BY <1>1, <1>2, <2>3, <2>5, <3>1, InsertKeeps
    <3>. QED BY <1>1, <3>2 DEF WorkOK
  <2>. QED BY <2>4, <2>5
<1>. QED BY <1>3, <1>4, <1>5

LEMMA ImportKeeps ==
    ASSUME NEW first, WorkOK(first), NEW rows, RowsOK(rows, first.minted), NEW p, NEW oldest \in BOOLEAN,
           NEW work, work = Import(first, rows, p, oldest)
    PROVE  WorkOK(work) /\ first.minted <= work.minted
<1>1. PICK list : list = SetToSeq(rows)
  OBVIOUS
<1>2. Len(list) \in Nat /\ \A n \in 1 .. Len(list) : list[n] \in rows
  BY <1>1, ListIs DEF RowsOK
<1>3. PICK w : /\ w = [n \in 0 .. Len(list) |-> IF n = 0 THEN first ELSE ImportRow(w[n - 1], list[n], p, oldest)]
               /\ work = w[Len(list)]
  BY <1>1, <1>2, ImportIs
<1>4. PICK bad : bad = {n \in 0 .. Len(list) : ~(WorkOK(w[n]) /\ first.minted <= w[n].minted)}
  OBVIOUS
<1>5. first.minted \in Nat
  BY DEF WorkOK
<1>6. 0 \notin bad
  <2>1. w[0] = first
    BY <1>2, <1>3
  <2>. QED BY <1>4, <1>5, <2>1
<1>7. ASSUME NEW n \in bad, \A k \in bad : n <= k PROVE FALSE
  <2>1. n \in 1 .. Len(list)
    BY <1>2, <1>4, <1>6
  <2>2. n - 1 \in 0 .. Len(list) /\ ~(n <= n - 1)
    BY <1>2, <2>1
  <2>3. WorkOK(w[n - 1]) /\ first.minted <= w[n - 1].minted /\ w[n - 1].minted \in Nat
    BY <1>4, <1>7, <2>2 DEF WorkOK
  <2>4. w[n] = ImportRow(w[n - 1], list[n], p, oldest)
    BY <1>2, <1>3, <2>1
  <2>5. list[n].id \in 0 .. w[n - 1].minted
    <3>1. list[n].id \in 0 .. first.minted
      BY <1>2, <2>1 DEF RowsOK
    <3>. QED BY <1>5, <2>3, <3>1
  <2>6. WorkOK(w[n]) /\ w[n - 1].minted <= w[n].minted
    BY <2>3, <2>4, <2>5, ImportRowKeeps
  <2>7. w[n].minted \in Nat
    BY <2>6 DEF WorkOK
  <2>. QED BY <1>4, <1>5, <2>3, <2>6, <2>7
<1>8. bad = {}
  <2>1. bad \subseteq Nat
    BY <1>4
  <2>. QED BY <1>7, <2>1, LeastExists
<1>9. Len(list) \notin bad /\ Len(list) \in 0 .. Len(list)
  BY <1>2, <1>8
<1>. QED BY <1>3, <1>4, <1>9

-----------------------------------------------------------------------------
(* The steps.                                                              *)

EntriesInv == minted \in Nat /\ TableOK(entry, minted)
CallsInv == curation = [s \in Curators |-> curation[s]] /\ trim = [s \in Curators |-> trim[s]]
FilesInv ==
    /\ file = [p \in Dirs |-> file[p]]
    /\ \A p \in Dirs : file[p] = Missing \/ RowsOK(file[p][1], minted)

KnowledgeInv == EntriesInv /\ CallsInv
FileInv == KnowledgeInv /\ FilesInv

LEMMA WorkIs ==
    ASSUME EntriesInv
    PROVE  WorkOK(Work) /\ Work.entry = entry /\ Work.minted = minted
BY DEF EntriesInv, WorkOK, Work, WorkFields

LEMMA SweepWithin ==
    ASSUME NEW e, NEW n, TableOK(e, n), NEW p, NEW embedded, NEW oldest \in BOOLEAN
    PROVE  \A i \in Duplicates(e, p, embedded, oldest) : i \in Rows(e) /\ e[i].owner = p
<1>1. \A i \in Rows(e) : e[i].conf \in Confs
  BY RowsOf
<1>2. ASSUME NEW i \in Duplicates(e, p, embedded, oldest) PROVE i \in Visible(e, p, FALSE)
  BY <1>1, SweepKeeps
<1>. QED BY <1>2 DEF Visible

\* What the curator of a session does to the table.
LEMMA CurateApplyKeeps ==
    ASSUME EntriesInv, NEW s \in Curators, CurateApply(s)
    PROVE  EntriesInv' /\ minted <= minted' /\ Spared(entry, entry', ProjectOf[s])
<1>1. PICK p : p = ProjectOf[s]
  OBVIOUS
<1>2. PICK ops \in Answers, oldest \in BOOLEAN, embedded \in SUBSET Live :
        LET work == ApplyOps(ops, p, FALSE, oldest)
            gone == IF work.created THEN Duplicates(work.entry, p, embedded, oldest) ELSE {}
        IN  entry' = Without(work.entry, gone) /\ minted' = work.minted
  BY <1>1 DEF CurateApply
<1>3. PICK work : work = ApplyOps(ops, p, FALSE, oldest)
  OBVIOUS
<1>4. PICK gone : gone = IF work.created THEN Duplicates(work.entry, p, embedded, oldest) ELSE {}
  OBVIOUS
<1>5. entry' = Without(work.entry, gone) /\ minted' = work.minted
  BY <1>2, <1>3, <1>4
<1>6. WorkOK(work) /\ minted <= work.minted /\ Spared(entry, work.entry, p)
  BY <1>3, ApplyOpsKeep DEF EntriesInv
<1>7. TableOK(work.entry, work.minted) /\ work.minted \in Nat
  BY <1>6 DEF WorkOK
<1>8. \A i \in gone : work.entry[i].owner = p
  BY <1>4, <1>7, SweepWithin
<1>9. PICK f : f = Without(work.entry, gone)
  OBVIOUS
<1>10. TableOK(f, work.minted) /\ Rows(f) = Rows(work.entry) \ gone /\ \A i \in Rows(f) : f[i] = work.entry[i]
  BY <1>7, <1>9, WithoutKeeps
<1>11. Spared(entry, f, p)
  BY <1>6, <1>8, <1>10 DEF Spared
<1>. QED BY <1>1, <1>5, <1>6, <1>7, <1>9, <1>10, <1>11 DEF EntriesInv

LEMMA ConsolidateApplyKeeps ==
    ASSUME EntriesInv, NEW s \in Curators, ConsolidateApply(s)
    PROVE  EntriesInv' /\ minted <= minted' /\ Spared(entry, entry', ProjectOf[s])
<1>1. PICK ops \in Answers, oldest \in BOOLEAN :
        LET work == ApplyOps(ops, ProjectOf[s], TRUE, oldest)
        IN  entry' = work.entry /\ minted' = work.minted
  BY DEF ConsolidateApply
<1>2. PICK work : work = ApplyOps(ops, ProjectOf[s], TRUE, oldest)
  OBVIOUS
<1>3. WorkOK(work) /\ minted <= work.minted /\ Spared(entry, work.entry, ProjectOf[s])
  BY <1>2, ApplyOpsKeep DEF EntriesInv
<1>. QED BY <1>1, <1>2, <1>3 DEF EntriesInv, WorkOK

LEMMA ExtractPatternKeeps ==
    ASSUME EntriesInv, NEW p, ExtractPattern(p)
    PROVE  EntriesInv' /\ minted <= minted'
<1>1. PICK new \in Patterns, oldest \in BOOLEAN :
        LET work == Create(Work, [owner |-> p, cross |-> FALSE, title |-> new.title,
                                  content |-> new.content, conf |-> new.conf], oldest)
        IN  entry' = work.entry /\ minted' = work.minted
  BY DEF ExtractPattern
<1>2. PICK r : r = [owner |-> p, cross |-> FALSE, title |-> new.title, content |-> new.content, conf |-> new.conf]
  OBVIOUS
<1>3. PICK work : work = Create(Work, r, oldest)
  OBVIOUS
<1>4. r.conf \in Confs \cup {Keep}
  BY <1>2, AnswersAssumption
<1>5. WorkOK(work) /\ work.minted \in {minted, minted + 1}
  BY <1>3, <1>4, WorkIs, CreateKeeps
<1>. QED BY <1>1, <1>2, <1>3, <1>5 DEF EntriesInv, WorkOK

LEMMA CleanDeadRefsKeeps ==
    ASSUME EntriesInv, CleanDeadRefs
    PROVE  EntriesInv' /\ minted' = minted
<1>1. PICK e : e = entry
  OBVIOUS
<1>2. PICK f : f = [i \in Ids |-> IF i \notin Rows(e) THEN e[i]
                                  ELSE [e[i] EXCEPT !.content = Stripped(e[i].content, {x[2] : x \in {y \in Orphans : y[1] = i}})]]
  OBVIOUS
<1>3. entry' = f /\ minted' = minted
  BY <1>1, <1>2 DEF CleanDeadRefs, Live
<1>4. TableOK(e, minted) /\ minted \in Nat
  BY <1>1 DEF EntriesInv
<1>5. ASSUME NEW i \in Ids PROVE f[i] = NoEntry \/ (EntryOK(f[i]) /\ i <= minted)
  <2>1. CASE i \notin Rows(e)
    BY <1>2, <1>4, <2>1 DEF TableOK
  <2>2. CASE i \in Rows(e)
    <3>1. PICK c : c = Stripped(e[i].content, {x[2] : x \in {y \in Orphans : y[1] = i}})
      OBVIOUS
    <3>2. f[i] = [e[i] EXCEPT !.content = c]
      BY <1>2, <2>2, <3>1
    <3>3. EntryOK(e[i]) /\ i <= minted
      BY <1>4, <2>2, RowsOf
    <3>. QED BY <3>2, <3>3 DEF EntryOK, EntryFields
  <2>. QED BY <2>1, <2>2
<1>6. TableOK(f, minted)
  BY <1>2, <1>5 DEF TableOK
<1>. QED BY <1>3, <1>4, <1>6 DEF EntriesInv

LEMMA RestartKeeps ==
    ASSUME EntriesInv, ProcessRestarts
    PROVE  EntriesInv' /\ minted' = minted /\ Rows(entry') = Rows(entry)
<1>1. PICK e : e = entry
  OBVIOUS
<1>2. PICK f : f = PruneOversized(e)
  OBVIOUS
<1>3. entry' = f /\ minted' = minted
  BY <1>1, <1>2 DEF ProcessRestarts
<1>4. TableOK(e, minted) /\ minted \in Nat
  BY <1>1 DEF EntriesInv
<1>5. ASSUME NEW i \in Ids
      PROVE  /\ f[i] = NoEntry \/ (EntryOK(f[i]) /\ i <= minted)
             /\ f[i] = NoEntry <=> e[i] = NoEntry
  <2>1. f[i] = e[i] \/ (i \in Rows(e) /\ f[i] = [e[i] EXCEPT !.conf = 0])
    BY <1>2 DEF PruneOversized
  <2>2. CASE f[i] = e[i]
    BY <1>4, <2>2 DEF TableOK
  <2>3. CASE i \in Rows(e) /\ f[i] = [e[i] EXCEPT !.conf = 0]
    <3>1. EntryOK(e[i]) /\ i <= minted /\ e[i] # NoEntry
      BY <1>4, <2>3, RowsOf DEF Rows
    <3>2. DOMAIN f[i] = EntryFields /\ f[i].conf = 0
      BY <2>3, <3>1 DEF EntryOK, EntryFields
    <3>. QED BY <3>1, <3>2, FilledIn DEF EntryOK, Confs
  <2>. QED BY <2>1, <2>2, <2>3
<1>6. f = [i \in Ids |-> f[i]]
  BY <1>2 DEF PruneOversized
<1>7. TableOK(f, minted) /\ Rows(f) = Rows(e)
  BY <1>5, <1>6 DEF TableOK, Rows
<1>. QED BY <1>1, <1>3, <1>4, <1>7 DEF EntriesInv

LEMMA KnowledgeSteps ==
    ASSUME KnowledgeInv, [NextKnowledge]_knowledgeVars
    PROVE  KnowledgeInv' /\ minted <= minted'
<1>1. EntriesInv /\ CallsInv /\ minted \in Nat
  BY DEF KnowledgeInv, EntriesInv
<1>2. CASE UNCHANGED knowledgeVars
  BY <1>1, <1>2 DEF KnowledgeInv, EntriesInv, CallsInv, knowledgeVars
<1>3. ASSUME NEW s \in Curators, CurateApply(s) PROVE KnowledgeInv' /\ minted <= minted'
  <2>1. CallsInv'
    BY <1>1, <1>3 DEF CurateApply, CallsInv
  <2>. QED BY <1>1, <1>3, <2>1, CurateApplyKeeps DEF KnowledgeInv
<1>4. ASSUME NEW s \in Curators, ConsolidateApply(s) PROVE KnowledgeInv' /\ minted <= minted'
  <2>1. CallsInv'
    BY <1>1, <1>4 DEF ConsolidateApply, CallsInv
  <2>. QED BY <1>1, <1>4, <2>1, ConsolidateApplyKeeps DEF KnowledgeInv
<1>5. ASSUME NEW s \in Curators, CurateRead(s) \/ ConsolidateRead(s) \/ CallFails(s) PROVE KnowledgeInv' /\ minted <= minted'
  <2>1. CallsInv'
    BY <1>1, <1>5 DEF CurateRead, ConsolidateRead, CallFails, CallsInv
  <2>2. UNCHANGED store
    BY <1>5 DEF CurateRead, ConsolidateRead, CallFails
  <2>. QED BY <1>1, <2>1, <2>2 DEF KnowledgeInv, EntriesInv, store
<1>6. ASSUME NEW p \in Projects, ExtractPattern(p) PROVE KnowledgeInv' /\ minted <= minted'
  <2>1. CallsInv'
    BY <1>1, <1>6 DEF ExtractPattern, CallsInv
  <2>. QED BY <1>1, <1>6, <2>1, ExtractPatternKeeps DEF KnowledgeInv
<1>7. ASSUME NEW i \in Ids, DeleteKnowledge(i) PROVE KnowledgeInv' /\ minted <= minted'
  <2>1. CallsInv' /\ minted' = minted /\ entry' = Without(entry, {i})
    BY <1>1, <1>7 DEF DeleteKnowledge, CallsInv
  <2>2. TableOK(Without(entry, {i}), minted)
    BY <1>1, WithoutKeeps DEF EntriesInv
  <2>. QED BY <1>1, <2>1, <2>2 DEF KnowledgeInv, EntriesInv
<1>8. CASE CleanDeadRefs
  <2>1. CallsInv'
    BY <1>1, <1>8 DEF CleanDeadRefs, CallsInv
  <2>. QED BY <1>1, <1>8, <2>1, CleanDeadRefsKeeps DEF KnowledgeInv
<1>9. CASE ProcessRestarts
  <2>1. CallsInv'
    BY <1>1, <1>9 DEF ProcessRestarts, CallsInv
  <2>. QED BY <1>1, <1>9, <2>1, RestartKeeps DEF KnowledgeInv
<1>. QED BY <1>2, <1>3, <1>4, <1>5, <1>6, <1>7, <1>8, <1>9 DEF NextKnowledge

LEMMA SectionOK ==
    ASSUME NEW e, NEW n \in Nat, TableOK(e, n), NEW p
    PROVE  RowsOK(Section(e, p)[1], n)
<1>1. PICK V : V = Visible(e, p, FALSE)
  OBVIOUS
<1>2. V \in SUBSET Ids /\ V \subseteq Rows(e)
  BY <1>1 DEF Visible, Rows
<1>3. IsFiniteSet(V)
  <2>1. IsFiniteSet(Ids)
    BY KnowledgeAssumption, FS_Interval DEF Ids
  <2>. QED BY <1>2, <2>1, FS_Subset
<1>4. PICK f : f = [i \in V |-> RowOf(e, i)]
  OBVIOUS
<1>5. PICK T : T = {RowOf(e, i) : i \in V}
  OBVIOUS
<1>6. f \in Surjection(V, T)
  BY <1>4, <1>5 DEF Surjection
<1>7. IsFiniteSet(T)
  BY <1>3, <1>6, FS_Surjection
<1>8. \A i \in V : "id" \in DOMAIN RowOf(e, i) /\ RowOf(e, i).id = i /\ i \in 0 .. n
  BY <1>2, RowsOf DEF RowOf, Ids
<1>9. Section(e, p)[1] = T
  BY <1>1, <1>5 DEF Section, FileOf
<1>. QED BY <1>5, <1>7, <1>8, <1>9 DEF RowsOK

\* A file of rows with ids given out stays one when more are.
LEMMA FilesGrow ==
    ASSUME FilesInv, minted \in Nat, minted' \in Nat, minted <= minted', UNCHANGED file
    PROVE  FilesInv'
<1>1. \A rows : RowsOK(rows, minted) => RowsOK(rows, minted')
  BY DEF RowsOK
<1>. QED BY <1>1 DEF FilesInv

LEMMA FileWritten ==
    ASSUME FilesInv, minted \in Nat, minted' \in Nat, minted <= minted', file' = [q \in Dirs |-> file'[q]],
           \A q \in Dirs : file'[q] = file[q] \/ file'[q] = Missing \/ RowsOK(file'[q][1], minted')
    PROVE  FilesInv'
<1>1. \A rows : RowsOK(rows, minted) => RowsOK(rows, minted')
  BY DEF RowsOK
<1>2. ASSUME NEW q \in Dirs PROVE file'[q] = Missing \/ RowsOK(file'[q][1], minted')
  BY <1>1 DEF FilesInv
<1>. QED BY <1>2 DEF FilesInv

LEMMA ExportKeeps ==
    ASSUME FilesInv, minted \in Nat, minted' = minted, NEW p \in Dirs,
           NEW e, TableOK(e, minted), ExportLoreFile(e, p)
    PROVE  FilesInv'
<1>1. CASE UNCHANGED file
  BY <1>1, FilesGrow
<1>2. CASE file' = [file EXCEPT ![p] = Section(e, p)]
  <2>1. file' = [q \in Dirs |-> file'[q]] /\ \A q \in Dirs : file'[q] = IF q = p THEN Section(e, p) ELSE file[q]
    BY <1>2 DEF FilesInv
  <2>2. RowsOK(Section(e, p)[1], minted)
    BY SectionOK
  <2>. QED BY <2>1, <2>2, FileWritten
<1>. QED BY <1>1, <1>2 DEF ExportLoreFile

LEMMA TryImportKeeps ==
    ASSUME FileInv, NEW p \in Dirs, TryImport(p)
    PROVE  FileInv'
<1>1. UNCHANGED <<file, curation, trim>> /\ file[p] # Missing
  BY DEF TryImport, Processed, Unseen
<1>2. EntriesInv /\ CallsInv /\ FilesInv /\ minted \in Nat
  BY DEF FileInv, KnowledgeInv, EntriesInv
<1>3. EntriesInv' /\ minted <= minted'
  <2>1. CASE UNCHANGED <<entry, minted>>
    BY <1>2, <2>1 DEF EntriesInv
  <2>2. CASE \E oldest \in BOOLEAN : LET work == Import(Work, file[p][1], p, oldest)
                                     IN  entry' = work.entry /\ minted' = work.minted
    <3>1. PICK oldest \in BOOLEAN : LET work == Import(Work, file[p][1], p, oldest)
                                    IN  entry' = work.entry /\ minted' = work.minted
      BY <2>2
    <3>2. PICK work : work = Import(Work, file[p][1], p, oldest)
      OBVIOUS
    <3>3. RowsOK(file[p][1], Work.minted) /\ WorkOK(Work) /\ Work.minted = minted
      BY <1>1, <1>2, WorkIs DEF FilesInv
    <3>4. WorkOK(work) /\ minted <= work.minted
      BY <3>2, <3>3, ImportKeeps
    <3>. QED BY <3>1, <3>2, <3>4 DEF EntriesInv, WorkOK
  <2>. QED BY <2>1, <2>2 DEF TryImport
<1>4. CallsInv'
  BY <1>1, <1>2 DEF CallsInv
<1>5. FilesInv'
  BY <1>1, <1>2, <1>3, FilesGrow DEF EntriesInv
<1>. QED BY <1>3, <1>4, <1>5 DEF FileInv, KnowledgeInv

LEMMA ClearProjectKeeps ==
    ASSUME FileInv, NEW p \in Dirs, ClearProject(p)
    PROVE  FileInv'
<1>1. PICK gone : entry' = Without(entry, gone)
  BY DEF ClearProject
<1>2. UNCHANGED <<minted, curation, trim>> /\ ExportLoreFile(entry', p)
  BY DEF ClearProject
<1>3. PICK f : f = Without(entry, gone)
  OBVIOUS
<1>4. TableOK(entry, minted) /\ CallsInv /\ FilesInv /\ minted \in Nat
  BY DEF FileInv, KnowledgeInv, EntriesInv
<1>5. TableOK(f, minted)
  BY <1>3, <1>4, WithoutKeeps
<1>6. FilesInv'
  BY <1>1, <1>2, <1>3, <1>4, <1>5, ExportKeeps
<1>. QED BY <1>1, <1>2, <1>3, <1>4, <1>5, <1>6 DEF FileInv, KnowledgeInv, EntriesInv, CallsInv

LEMMA EditedOK ==
    ASSUME NEW n, NEW rows, RowsOK(rows, n), NEW new \in Edited(rows), n \in Nat
    PROVE  RowsOK(new, n)
<1>1. \A row \in HandWritten : "id" \in DOMAIN row /\ row.id = 0
  BY HandWrittenAssumption DEF NoId
<1>2. IsFiniteSet(rows) /\ \A row \in rows : "id" \in DOMAIN row /\ row.id \in 0 .. n
  BY DEF RowsOK
<1>3. ASSUME NEW row \in rows, new = rows \ {row} PROVE RowsOK(new, n)
  BY <1>2, <1>3, FS_RemoveElement DEF RowsOK
<1>4. ASSUME NEW row \in rows, NEW c, new = (rows \ {row}) \cup {[row EXCEPT !.content = c]} PROVE RowsOK(new, n)
  <2>1. PICK x : x = [row EXCEPT !.content = c]
    OBVIOUS
  <2>2. "id" \in DOMAIN x /\ x.id \in 0 .. n
    BY <1>2, <2>1
  <2>3. IsFiniteSet(rows \ {row})
    BY <1>2, FS_RemoveElement
  <2>4. IsFiniteSet((rows \ {row}) \cup {x})
    BY <2>3, FS_AddElement
  <2>. QED BY <1>2, <1>4, <2>1, <2>2, <2>4 DEF RowsOK
<1>5. ASSUME NEW row \in HandWritten, new = rows \cup {row} PROVE RowsOK(new, n)
  BY <1>1, <1>2, <1>5, FS_AddElement DEF RowsOK
<1>. QED BY <1>3, <1>4, <1>5 DEF Edited

LEMMA EditKeeps ==
    ASSUME FileInv, NEW p \in Dirs, Edit(p)
    PROVE  FileInv'
<1>1. UNCHANGED <<entry, curation, trim>>
  BY DEF Edit
<1>2. TableOK(entry, minted) /\ CallsInv /\ FilesInv /\ minted \in Nat
  BY DEF FileInv, KnowledgeInv, EntriesInv
<1>3. CASE UNCHANGED minted /\ file[p] # Missing /\ \E rows \in Edited(file[p][1]) : file' = [file EXCEPT ![p] = FileOf(rows)]
  <2>1. PICK rows \in Edited(file[p][1]) : file' = [file EXCEPT ![p] = FileOf(rows)]
    BY <1>3
  <2>2. RowsOK(rows, minted) /\ FileOf(rows)[1] = rows
    BY <1>2, <1>3, EditedOK DEF FilesInv, FileOf
  <2>3. file' = [q \in Dirs |-> file'[q]] /\ \A q \in Dirs : file'[q] = IF q = p THEN FileOf(rows) ELSE file[q]
    BY <1>2, <2>1 DEF FilesInv
  <2>4. FilesInv'
    BY <1>2, <1>3, <2>2, <2>3, FileWritten
  <2>. QED BY <1>1, <1>2, <1>3, <2>4 DEF FileInv, KnowledgeInv, EntriesInv, CallsInv
<1>4. CASE /\ minted' = minted + 1
           /\ \E row \in HandWritten :
                file' = [file EXCEPT ![p] = FileOf((IF file[p] = Missing THEN {} ELSE file[p][1])
                                                     \cup {[row EXCEPT !.id = minted + 1]})]
  <2>1. PICK row \in HandWritten :
          file' = [file EXCEPT ![p] = FileOf((IF file[p] = Missing THEN {} ELSE file[p][1])
                                               \cup {[row EXCEPT !.id = minted + 1]})]
    BY <1>4
  <2>2. PICK x : x = [row EXCEPT !.id = minted + 1]
    OBVIOUS
  <2>3. PICK old : old = IF file[p] = Missing THEN {} ELSE file[p][1]
    OBVIOUS
  <2>4. "id" \in DOMAIN x /\ x.id = minted + 1
    BY <2>2, HandWrittenAssumption
  <2>5. RowsOK(old, minted)
    BY <1>2, <2>3, FS_EmptySet DEF FilesInv, RowsOK
  <2>6. RowsOK(old \cup {x}, minted + 1)
    <3>1. IsFiniteSet(old \cup {x})
      BY <2>5, FS_AddElement DEF RowsOK
    <3>2. ASSUME NEW r \in old PROVE "id" \in DOMAIN r /\ r.id \in 0 .. minted + 1
      BY <1>2, <2>5 DEF RowsOK
    <3>. QED BY <1>2, <2>4, <3>1, <3>2 DEF RowsOK
  <2>7. PICK y : y = FileOf(old \cup {x})
    OBVIOUS
  <2>8. y[1] = old \cup {x} /\ file' = [file EXCEPT ![p] = y]
    BY <2>1, <2>2, <2>3, <2>7 DEF FileOf
  <2>9. file' = [q \in Dirs |-> file'[q]] /\ \A q \in Dirs : file'[q] = IF q = p THEN y ELSE file[q]
    BY <1>2, <2>8 DEF FilesInv
  <2>10. RowsOK(y[1], minted') /\ minted' \in Nat /\ minted <= minted'
    BY <1>2, <1>4, <2>6, <2>8
  <2>11. FilesInv'
    BY <1>2, <2>9, <2>10, FileWritten
  <2>12. TableOK(entry, minted + 1)
    <3>1. ASSUME NEW i \in Ids PROVE entry[i] = NoEntry \/ (EntryOK(entry[i]) /\ i <= minted + 1)
      BY <1>2 DEF TableOK, Ids
    <3>. QED BY <1>2, <3>1 DEF TableOK
  <2>. QED BY <1>1, <1>2, <1>4, <2>11, <2>12 DEF FileInv, KnowledgeInv, EntriesInv, CallsInv
<1>. QED BY <1>3, <1>4 DEF Edit

LEMMA DeleteFileKeeps ==
    ASSUME FileInv, NEW p \in Dirs, DeleteFile(p)
    PROVE  FileInv'
<1>1. UNCHANGED knowledgeVars /\ file' = [file EXCEPT ![p] = Missing]
  BY DEF DeleteFile
<1>2. KnowledgeInv' /\ minted' = minted /\ minted \in Nat /\ FilesInv
  BY <1>1, KnowledgeSteps DEF FileInv, KnowledgeInv, EntriesInv, knowledgeVars
<1>3. file' = [q \in Dirs |-> file'[q]] /\ \A q \in Dirs : file'[q] = IF q = p THEN Missing ELSE file[q]
  BY <1>1, <1>2 DEF FilesInv
<1>4. FilesInv'
  BY <1>2, <1>3, FileWritten
<1>. QED BY <1>2, <1>4 DEF FileInv

LEMMA FileSteps ==
    ASSUME FileInv, [NextFile]_allVars
    PROVE  FileInv'
<1>1. CASE UNCHANGED file /\ [NextKnowledge]_knowledgeVars
  <2>1. KnowledgeInv' /\ minted <= minted' /\ minted \in Nat /\ minted' \in Nat
    BY <1>1, KnowledgeSteps DEF FileInv, KnowledgeInv, EntriesInv
  <2>. QED BY <1>1, <2>1, FilesGrow DEF FileInv
<1>2. ASSUME NEW p \in Dirs, ExportKnowledge(p) PROVE FileInv'
  <2>1. UNCHANGED knowledgeVars /\ ExportLoreFile(entry, p)
    BY <1>2 DEF ExportKnowledge
  <2>2. KnowledgeInv' /\ minted' = minted /\ minted \in Nat /\ FilesInv /\ TableOK(entry, minted)
    BY <2>1, KnowledgeSteps DEF FileInv, KnowledgeInv, EntriesInv, knowledgeVars
  <2>. QED BY <2>1, <2>2, ExportKeeps DEF FileInv
<1>. QED BY <1>1, <1>2, TryImportKeeps, ClearProjectKeeps, EditKeeps, DeleteFileKeeps DEF NextFile, allVars, fileVars

LEMMA FileStarts == InitFile => FileInv
<1>. SUFFICES ASSUME InitFile PROVE FileInv
  OBVIOUS
<1>1. EntriesInv
  BY DEF InitFile, InitKnowledge, EntriesInv, TableOK
<1>2. CallsInv /\ FilesInv
  BY DEF InitFile, InitKnowledge, CallsInv, FilesInv
<1>. QED BY <1>1, <1>2 DEF FileInv, KnowledgeInv

\* Whatever answers, edits and imports left of the table, the sweep keeps one
\* entry of each group it merges, and none it is surer of is lost.
THEOREM SweepKeepsOneAlways == FileSpec => []SweepKeepsOne
<1>1. FileInv => SweepKeepsOne
  <2>. SUFFICES ASSUME FileInv, NEW p \in Projects, NEW embedded \in SUBSET Live, NEW oldest \in BOOLEAN,
                       NEW i \in Duplicates(entry, p, embedded, oldest)
                PROVE  Outlived(entry, Visible(entry, p, FALSE), Duplicates(entry, p, embedded, oldest), embedded, i)
    BY DEF SweepKeepsOne, Outlived
  <2>1. \A k \in Rows(entry) : entry[k].conf \in Confs
    BY RowsOf DEF FileInv, KnowledgeInv, EntriesInv
  <2>. QED BY <2>1, SweepKeeps
<1>. QED BY <1>1, FileStarts, FileSteps, PTL DEF FileSpec

\* No curator deletes an entry of another project, even when the model names
\* it or the answer comes after other sessions changed the table.
THEOREM ForeignSpared == FileSpec => ForeignNotDeleted
<1>. DEFINE Harmless == \A i \in Gone : \/ entry[i].owner = NoProject
                                        \/ \E s \in Curators : ProjectOf[s] = entry[i].owner /\ Works(s)
                                        \/ \A s \in Curators : ~Works(s)
<1>1. FileInv /\ [NextFile]_allVars => [Harmless]_knowledgeVars
  <2>. SUFFICES ASSUME FileInv, [NextFile]_allVars PROVE Harmless
    OBVIOUS
  <2>1. EntriesInv /\ CallsInv /\ minted \in Nat /\ TableOK(entry, minted)
    BY DEF FileInv, KnowledgeInv, EntriesInv
  <2>2. ASSUME NEW s \in Curators, CurateApply(s) \/ ConsolidateApply(s) PROVE Harmless
    <3>1. Works(s)
      BY <2>1, <2>2 DEF CurateApply, ConsolidateApply, CallsInv, Works
    <3>2. Spared(entry, entry', ProjectOf[s])
      BY <2>1, <2>2, CurateApplyKeeps, ConsolidateApplyKeeps
    <3>3. \A i \in Gone : i \in Rows(entry) /\ i \notin Rows(entry')
      BY DEF Gone, Live
    <3>. QED BY <3>1, <3>2, <3>3 DEF Spared
  <2>3. CASE Gone = {}
    BY <2>3
  <2>4. CASE UNCHANGED <<curation, trim>>
    BY <2>4 DEF Works
  <2>5. CASE UNCHANGED entry
    BY <2>3, <2>5 DEF Gone, Live
  <2>6. CASE ProcessRestarts
    BY <2>1, <2>3, <2>6, RestartKeeps DEF Gone, Live
  <2>7. CASE NextKnowledge
    <3>1. ASSUME NEW s \in Curators, CurateRead(s) \/ ConsolidateRead(s) \/ CallFails(s) PROVE Harmless
      BY <2>5, <3>1 DEF CurateRead, ConsolidateRead, CallFails, store
    <3>2. ASSUME NEW p \in Projects, ExtractPattern(p) PROVE Harmless
      BY <2>4, <3>2 DEF ExtractPattern
    <3>3. ASSUME NEW i \in Ids, DeleteKnowledge(i) PROVE Harmless
      BY <2>4, <3>3 DEF DeleteKnowledge
    <3>4. CASE CleanDeadRefs
      BY <2>4, <3>4 DEF CleanDeadRefs
    <3>. QED BY <2>2, <2>6, <2>7, <3>1, <3>2, <3>3, <3>4 DEF NextKnowledge
  <2>8. ASSUME NEW p \in Dirs, ExportKnowledge(p) \/ TryImport(p) \/ ClearProject(p) \/ Edit(p) \/ DeleteFile(p) PROVE Harmless
    BY <2>4, <2>8 DEF ExportKnowledge, TryImport, Processed, ClearProject, Edit, DeleteFile, knowledgeVars
  <2>9. CASE UNCHANGED allVars
    BY <2>4, <2>9 DEF allVars, knowledgeVars
  <2>. QED BY <2>7, <2>8, <2>9 DEF NextFile
<1>. QED BY <1>1, FileStarts, FileSteps, PTL DEF FileSpec, ForeignNotDeleted

=============================================================================
