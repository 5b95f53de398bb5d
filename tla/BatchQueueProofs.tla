-------------------------- MODULE BatchQueueProofs --------------------------
(* Theorems about BatchQueue, for every value of its constants. *)
EXTENDS BatchQueue, FiniteSetTheorems, TLAPS

-----------------------------------------------------------------------------
(* The inductive invariant.                                                *)

\* Where a call that waits is: NothingLost says that it is somewhere.
Placed(p) ==
    \/ p \in queue \cup direct
    \/ \E t \in Tasks : p \in Held(t)
    \/ \E b \in inflight : p \in requests[b]

\* What is known of every variable that the rest speaks of.
Types ==
    /\ promise \in [Prompts -> {"none", "pending", "text", "null"}]
    /\ task \in [Tasks -> Task]
    /\ requests \in [Batches -> SUBSET Prompts]
    /\ inflight \subseteq Batches
    /\ queue \subseteq Prompts

\* What a task holds follows from where it is: flush has nobody to answer while
\* it submits, nothing to submit while it falls back, and so on.  No call is in
\* two parts of it.
Shape(t) ==
    /\ task[t].left \cap (task[t].items \cup task[t].rest \cup task[t].running) = {}
    /\ task[t].items \cap (task[t].rest \cup task[t].running) = {}
    /\ task[t].rest \cap task[t].running = {}
    /\ task[t].pc = "submitting" => task[t].rest = {} /\ task[t].running = {}
    /\ task[t].pc = "refused" => task[t].items = {}
    /\ task[t].pc \in {"expired", "draining"} => task[t].items = {} /\ task[t].left = {}
    /\ task[t].pc = "polling" => Held(t) = {} /\ task[t].bid \in Batches

\* The task of shutdown runs only after shutdown, and does nothing else.
DrainInv ==
    /\ task[Drain].pc \in {"idle", "draining"}
    /\ ~down => task[Drain] = Idle

\* Whatever is disabled was written to kv_meta.
Recorded == disabled \subseteq saved

IInv == Types /\ (\A t \in Tasks : Shape(t)) /\ DrainInv /\ Recorded /\ NothingLost

-----------------------------------------------------------------------------
(* The helpers.                                                            *)

Pcs == {"idle", "splitting", "submitting", "refused", "polling", "expired", "draining"}

\* The state of one task: when its helpers replace the record, nothing is lost.
Holds(t, pc, S) ==
    /\ task' \in [Tasks -> Task]
    /\ \A u \in Tasks : u # t => task'[u] = task[u]
    /\ task'[t].pc \in pc
    /\ Held(t)' = S
    /\ Shape(t)'

LEMMA BecomeOnly ==
    ASSUME Types, NEW t \in Tasks, NEW record \in Task, Become(t, record)
    PROVE  /\ task' \in [Tasks -> Task]
           /\ \A u \in Tasks : u # t => task'[u] = task[u]
           /\ task'[t] = record
BY DEF Types, Become

LEMMA IdleType == Idle \in Task /\ Idle.pc = "idle"
                  /\ Idle.left = {} /\ Idle.items = {} /\ Idle.rest = {} /\ Idle.running = {}
BY DEF Idle, Task

LEMMA IdleHolds ==
    ASSUME Types, NEW t \in Tasks, Become(t, Idle)
    PROVE  Holds(t, {"idle"}, {})
BY IdleType, BecomeOnly DEF Holds, Held, Shape

LEMMA ChunkPart ==
    ASSUME NEW S, NEW chunk \in Chunks(S)
    PROVE  chunk \subseteq S
BY DEF Chunks

\* A fallback takes the whole of its items, chunk by chunk.
LEMMA FallbackHolds ==
    ASSUME Types, NEW t \in Tasks, NEW pc \in {"refused", "expired", "draining"},
           NEW S \in SUBSET Prompts, NEW left \in SUBSET Prompts, S \cap left = {},
           pc = "refused" \/ left = {}, Fallback(t, pc, S, left)
    PROVE  Holds(t, {pc}, S \cup left)
<1>1. PICK chunk \in Chunks(S) :
          Become(t, [Idle EXCEPT !.pc = pc, !.left = left, !.rest = S \ chunk, !.running = chunk])
  BY DEF Fallback
<1>2. chunk \subseteq S
  BY ChunkPart
<1>. DEFINE record == [Idle EXCEPT !.pc = pc, !.left = left, !.rest = S \ chunk, !.running = chunk]
<1>3. /\ record.pc = pc /\ record.left = left /\ record.items = {}
      /\ record.rest = S \ chunk /\ record.running = chunk /\ record \in Task
  BY <1>2 DEF Idle, Task
<1>. HIDE DEF record
<1>4. /\ task' \in [Tasks -> Task] /\ task'[t] = record
      /\ \A u \in Tasks : u # t => task'[u] = task[u]
  BY <1>1, <1>3, BecomeOnly DEF record
<1>. QED BY <1>2, <1>3, <1>4 DEF Holds, Held, Shape

\* The loop of flush loses none of the groups it was given.
LEMMA FlushOnHolds ==
    ASSUME Types, NEW f \in Tasks, NEW left \in SUBSET Prompts, FlushOn(f, left)
    PROVE  Holds(f, {"idle", "submitting", "splitting"}, left)
<1>1. CASE left = {}
  BY <1>1, IdleHolds DEF FlushOn, Holds
<1>2. CASE left # {}
  <2>1. PICK p \in left :
            LET group == {q \in left : GroupOf[q] = GroupOf[p]}
                barred == {q \in group : SessionOf[q] \in disabled}
            IN  IF barred = {}
                THEN Become(f, [Idle EXCEPT !.pc = "submitting", !.left = left \ group, !.items = group])
                ELSE \E chunk \in Chunks(barred) :
                         Become(f, [Idle EXCEPT !.pc = "splitting", !.left = left \ group,
                                        !.items = group \ barred,
                                        !.rest = barred \ chunk, !.running = chunk])
    BY <1>2 DEF FlushOn
  <2>. DEFINE group == {q \in left : GroupOf[q] = GroupOf[p]}
              barred == {q \in group : SessionOf[q] \in disabled}
  <2>2. group \subseteq left /\ barred \subseteq group
    OBVIOUS
  <2>3. CASE barred = {}
    <3>. DEFINE record == [Idle EXCEPT !.pc = "submitting", !.left = left \ group, !.items = group]
    <3>1. Become(f, record)
      BY <2>1, <2>3
    <3>. HIDE DEF group, barred
    <3>2. /\ record.pc = "submitting" /\ record.left = left \ group /\ record.items = group
          /\ record.rest = {} /\ record.running = {} /\ record \in Task
      BY <2>2 DEF Idle, Task
    <3>. HIDE DEF record
    <3>. QED BY <2>2, <3>1, <3>2, BecomeOnly DEF Holds, Held, Shape
  <2>4. CASE barred # {}
    <3>1. PICK chunk \in Chunks(barred) :
              Become(f, [Idle EXCEPT !.pc = "splitting", !.left = left \ group, !.items = group \ barred,
                                     !.rest = barred \ chunk, !.running = chunk])
      BY <2>1, <2>4
    <3>. DEFINE record == [Idle EXCEPT !.pc = "splitting", !.left = left \ group, !.items = group \ barred,
                                       !.rest = barred \ chunk, !.running = chunk]
    <3>. HIDE DEF group, barred
    <3>2. chunk \subseteq barred
      BY ChunkPart
    <3>3. /\ record.pc = "splitting" /\ record.left = left \ group /\ record.items = group \ barred
          /\ record.rest = barred \ chunk /\ record.running = chunk /\ record \in Task
      BY <2>2, <3>2 DEF Idle, Task
    <3>4. Become(f, record)
      BY <3>1
    <3>. HIDE DEF record
    <3>. QED BY <2>2, <3>2, <3>3, <3>4, BecomeOnly DEF Holds, Held, Shape
  <2>. QED BY <2>3, <2>4
<1>. QED BY <1>1, <1>2

\* Calls that are settled wait no more, the others as before.
LEMMA SettleDone ==
    ASSUME Types, NEW S, NEW T, Settle(S, T)
    PROVE  /\ promise' \in [Prompts -> {"none", "pending", "text", "null"}]
           /\ \A p \in Prompts : promise'[p] = "pending" => promise[p] = "pending" /\ p \notin S
BY DEF Types, Settle

LEMMA HeldType ==
    ASSUME Types, NEW t \in Tasks
    PROVE  /\ task[t] \in Task
           /\ {task[t].left, task[t].items, task[t].rest, task[t].running} \subseteq SUBSET Prompts
BY DEF Types, Task

LEMMA OwnTasks == Drain \in Tasks /\ Drain \notin Flushes \cup Polls /\ Flushes \cup Polls \subseteq Tasks
BY BatchAssumption DEF Tasks

-----------------------------------------------------------------------------
(* Steps.                                                                  *)

\* A call that waits stays in a place when each place it may be in keeps it or
\* hands it on.
LEMMA StaysPlaced ==
    ASSUME NothingLost, NEW t \in Tasks, NEW p \in Prompts, promise[p] = "pending",
           \A u \in Tasks : u # t => task'[u] = task[u],
           p \in queue \cup direct => Placed(p)',
           p \in Held(t) => Placed(p)',
           \A b \in inflight : p \in requests[b] => Placed(p)'
    PROVE  Placed(p)'
<1>1. CASE \E u \in Tasks : p \in Held(u)
  <2>1. PICK u \in Tasks : p \in Held(u)
    BY <1>1
  <2>2. CASE u # t
    BY <2>1, <2>2 DEF Held, Placed
  <2>. QED BY <2>1, <2>2
<1>. QED BY <1>1 DEF NothingLost

\* The invariant after a step of one task other than Drain, of which is known
\* where it goes and that it holds at least what is not settled.
LEMMA TaskStep ==
    ASSUME IInv, NEW t \in Tasks, t # Drain, NEW pc, NEW S, Holds(t, pc, S),
           promise' \in [Prompts -> {"none", "pending", "text", "null"}],
           requests' \in [Batches -> SUBSET Prompts],
           inflight' \subseteq Batches, queue' \subseteq Prompts,
           down' = down, disabled' \subseteq saved',
           \A p \in Prompts : promise'[p] = "pending" => Placed(p)'
    PROVE  IInv'
<1>1. Types'
  BY DEF Types, Holds
<1>2. \A u \in Tasks : Shape(u)'
  BY DEF IInv, Holds, Shape, Held
<1>3. DrainInv'
  BY OwnTasks DEF IInv, Holds, DrainInv
<1>4. NothingLost'
  BY DEF NothingLost, Placed
<1>. QED BY <1>1, <1>2, <1>3, <1>4 DEF IInv, Recorded

\* The same for a step that changes no task.
LEMMA NoTaskStep ==
    ASSUME IInv, task' = task,
           promise' \in [Prompts -> {"none", "pending", "text", "null"}],
           requests' \in [Batches -> SUBSET Prompts],
           inflight' \subseteq Batches, queue' \subseteq Prompts,
           down' = down, disabled' \subseteq saved',
           \A p \in Prompts : promise'[p] = "pending" => Placed(p)'
    PROVE  IInv'
<1>1. Types'
  BY DEF IInv, Types
<1>2. \A u \in Tasks : Shape(u)'
  BY DEF IInv, Shape, Held
<1>3. DrainInv'
  BY DEF IInv, DrainInv
<1>4. NothingLost'
  BY DEF NothingLost, Placed
<1>. QED BY <1>1, <1>2, <1>3, <1>4 DEF IInv, Recorded

LEMMA InitInv == Init => IInv
<1>. SUFFICES ASSUME Init PROVE IInv
  OBVIOUS
<1>1. Types
  BY IdleType DEF Init, Types
<1>2. \A t \in Tasks : Shape(t)
  BY IdleType DEF Init, Shape
<1>3. DrainInv
  BY IdleType, OwnTasks DEF Init, DrainInv
<1>4. Recorded /\ NothingLost
  BY DEF Init, Recorded, NothingLost
<1>. QED BY <1>1, <1>2, <1>3, <1>4 DEF IInv

LEMMA PromptInv ==
    ASSUME IInv, NEW p \in Prompts, PromptDirect(p) \/ Enqueue(p)
    PROVE  IInv'
<1>1. promise' = [promise EXCEPT ![p] = "pending"]
  BY DEF PromptDirect, Enqueue
<1>2. promise' \in [Prompts -> {"none", "pending", "text", "null"}]
  BY <1>1 DEF IInv, Types
<1>3. \A q \in Prompts : promise'[q] = "pending" => q = p \/ promise[q] = "pending"
  BY <1>1 DEF IInv, Types
<1>4. CASE PromptDirect(p)
  <2>1. \A q \in Prompts : promise'[q] = "pending" => Placed(q)'
    BY <1>3, <1>4 DEF PromptDirect, batchVars, IInv, NothingLost, Placed, Held
  <2>. QED BY <1>2, <1>4, <2>1, NoTaskStep DEF PromptDirect, batchVars, sessionVars, IInv, Types, Recorded
<1>5. CASE Enqueue(p) /\ queue' = queue \cup {p} /\ task' = task
  <2>1. \A q \in Prompts : promise'[q] = "pending" => Placed(q)'
    BY <1>3, <1>5 DEF Enqueue, batchVars, IInv, NothingLost, Placed, Held
  <2>. QED BY <1>2, <1>5, <2>1, NoTaskStep DEF Enqueue, batchVars, sessionVars, IInv, Types, Recorded
<1>6. CASE Enqueue(p) /\ queue' = {} /\ \E f \in Flushes : task[f] = Idle /\ FlushOn(f, queue \cup {p})
  <2>1. PICK f \in Flushes : task[f] = Idle /\ FlushOn(f, queue \cup {p})
    BY <1>6
  <2>2. f \in Tasks /\ f # Drain /\ queue \cup {p} \in SUBSET Prompts
    BY OwnTasks DEF IInv, Types
  <2>3. Holds(f, {"idle", "submitting", "splitting"}, queue \cup {p})
    BY <2>1, <2>2, FlushOnHolds DEF IInv
  <2>4. Held(f) = {}
    BY <2>1, IdleType DEF Held
  <2>5. ASSUME NEW q \in Prompts, promise'[q] = "pending" PROVE Placed(q)'
    <3>1. CASE q \in queue \cup {p}
      BY <2>2, <2>3, <3>1 DEF Holds, Placed
    <3>2. CASE q # p
      <4>1. promise[q] = "pending"
        BY <1>3, <2>5, <3>2
      <4>2. q \in direct => Placed(q)'
        BY <1>6 DEF Enqueue, Placed
      <4>3. \A b \in inflight : q \in requests[b] => Placed(q)'
        BY <1>6 DEF Enqueue, batchVars, Placed
      <4>. QED BY <2>2, <2>3, <2>4, <3>1, <4>1, <4>2, <4>3, StaysPlaced DEF IInv, Holds
    <3>. QED BY <3>1, <3>2
  <2>. QED BY <1>2, <1>6, <2>2, <2>3, <2>5, TaskStep DEF Enqueue, batchVars, sessionVars, IInv, Types, Recorded
<1>. QED BY <1>4, <1>5, <1>6 DEF Enqueue

LEMMA DirectAnswerInv ==
    ASSUME IInv, NEW p \in Prompts, DirectAnswer(p)
    PROVE  IInv'
<1>1. PICK T \in SUBSET {p} : Settle({p}, T)
  BY DEF DirectAnswer
<1>2. /\ promise' \in [Prompts -> {"none", "pending", "text", "null"}]
      /\ \A q \in Prompts : promise'[q] = "pending" => promise[q] = "pending" /\ q \notin {p}
  BY <1>1, SettleDone DEF IInv
<1>3. \A q \in Prompts : promise'[q] = "pending" => Placed(q)'
  BY <1>2 DEF DirectAnswer, batchVars, IInv, NothingLost, Placed, Held
<1>. QED BY <1>2, <1>3, NoTaskStep DEF DirectAnswer, batchVars, sessionVars, IInv, Types, Recorded

LEMMA TimerFlushInv ==
    ASSUME IInv, NEW f \in Flushes, TimerFlush(f)
    PROVE  IInv'
<1>1. f \in Tasks /\ f # Drain /\ queue \in SUBSET Prompts
  BY OwnTasks DEF IInv, Types
<1>2. Holds(f, {"idle", "submitting", "splitting"}, queue)
  BY <1>1, FlushOnHolds DEF TimerFlush, IInv
<1>3. Held(f) = {}
  BY IdleType DEF TimerFlush, Held
<1>4. ASSUME NEW q \in Prompts, promise'[q] = "pending" PROVE Placed(q)'
  <2>1. q \in queue => Placed(q)'
    BY <1>1, <1>2 DEF Holds, Placed
  <2>2. q \in direct => Placed(q)'
    BY DEF TimerFlush, Placed
  <2>3. \A b \in inflight : q \in requests[b] => Placed(q)'
    BY DEF TimerFlush, batchVars, Placed
  <2>. QED BY <1>1, <1>2, <1>3, <1>4, <2>1, <2>2, <2>3, StaysPlaced DEF IInv, Holds, TimerFlush
<1>. QED BY <1>1, <1>2, <1>4, TaskStep DEF TimerFlush, batchVars, sessionVars, IInv, Types, Recorded

\* Shutdown, drains and restarts apart, a task that goes on with what it held.
LEMMA GoesOn ==
    ASSUME IInv, NEW t \in Tasks, t # Drain, NEW pc, NEW S, Holds(t, pc, S), Held(t) \subseteq S,
           UNCHANGED <<promise, queue, direct, batchVars, sessionVars, down>>
    PROVE  IInv'
<1>1. ASSUME NEW q \in Prompts, promise'[q] = "pending" PROVE Placed(q)'
  <2>1. q \in Held(t) => Placed(q)'
    BY DEF Holds, Placed
  <2>2. q \in queue \cup direct => Placed(q)'
    BY DEF Placed
  <2>3. \A b \in inflight : q \in requests[b] => Placed(q)'
    BY DEF batchVars, Placed
  <2>. QED BY <1>1, <2>1, <2>2, <2>3, StaysPlaced DEF IInv, Holds
<1>. QED BY <1>1, TaskStep DEF batchVars, sessionVars, IInv, Types, Recorded

LEMMA SubmitAcceptedInv ==
    ASSUME IInv, NEW f \in Flushes, NEW b \in Batches, SubmitAccepted(f, b)
    PROVE  IInv'
<1>1. f \in Tasks /\ f # Drain
  BY OwnTasks
<1>2. Shape(f) /\ Types
  BY <1>1 DEF IInv
<1>3. Holds(f, {"idle", "submitting", "splitting"}, task[f].left)
  BY <1>1, <1>2, HeldType, FlushOnHolds DEF SubmitAccepted
<1>4. Held(f) = task[f].left \cup task[f].items
  BY <1>2 DEF SubmitAccepted, Shape, Held
<1>5. requests' \in [Batches -> SUBSET Prompts] /\ requests'[b] = task[f].items
  BY <1>1, <1>2, HeldType DEF SubmitAccepted, Types
<1>6. ASSUME NEW q \in Prompts, promise'[q] = "pending" PROVE Placed(q)'
  <2>1. q \in Held(f) => Placed(q)'
    BY <1>1, <1>3, <1>4, <1>5 DEF SubmitAccepted, Holds, Placed
  <2>2. q \in queue \cup direct => Placed(q)'
    BY DEF SubmitAccepted, Placed
  <2>3. \A c \in inflight : q \in requests[c] => Placed(q)'
    BY <1>2 DEF SubmitAccepted, Fresh, Placed, Types
  <2>. QED BY <1>1, <1>3, <1>6, <2>1, <2>2, <2>3, StaysPlaced DEF IInv, Holds, SubmitAccepted
<1>. QED BY <1>1, <1>2, <1>3, <1>5, <1>6, TaskStep DEF SubmitAccepted, sessionVars, IInv, Types, Recorded

LEMMA SubmitRefusedInv ==
    ASSUME IInv, NEW f \in Flushes, NEW auth \in BOOLEAN, SubmitRefused(f, auth)
    PROVE  IInv'
<1>1. f \in Tasks /\ f # Drain
  BY OwnTasks
<1>2. Shape(f) /\ Types
  BY <1>1 DEF IInv
<1>a. task[f].items \cap task[f].left = {}
  BY <1>2 DEF Shape
<1>3. Holds(f, {"refused"}, task[f].items \cup task[f].left)
  BY <1>1, <1>2, <1>a, HeldType, FallbackHolds DEF SubmitRefused
<1>4. Held(f) = task[f].items \cup task[f].left
  BY <1>2 DEF SubmitRefused, Shape, Held
<1>5. disabled' \subseteq saved'
  BY DEF SubmitRefused, IInv, Recorded
<1>6. ASSUME NEW q \in Prompts, promise'[q] = "pending" PROVE Placed(q)'
  <2>1. q \in Held(f) => Placed(q)'
    BY <1>1, <1>3, <1>4 DEF Holds, Placed
  <2>2. q \in queue \cup direct => Placed(q)'
    BY DEF SubmitRefused, Placed
  <2>3. \A c \in inflight : q \in requests[c] => Placed(q)'
    BY DEF SubmitRefused, batchVars, Placed
  <2>. QED BY <1>1, <1>3, <1>6, <2>1, <2>2, <2>3, StaysPlaced DEF IInv, Holds, SubmitRefused
<1>. QED BY <1>1, <1>2, <1>3, <1>5, <1>6, TaskStep DEF SubmitRefused, batchVars, IInv, Types

\* One answer of a fallback, which may be the drain's.
LEMMA FallbackAnswerInv ==
    ASSUME IInv, NEW t \in Tasks, NEW p \in Prompts, FallbackAnswer(t, p)
    PROVE  IInv'
<1>. DEFINE running == task[t].running \ {p}
            record == [task[t] EXCEPT !.running = running]
<1>1. Types /\ Shape(t)
  BY DEF IInv
<1>2. /\ record \in Task /\ record.pc = task[t].pc /\ record.left = task[t].left
      /\ record.items = task[t].items /\ record.rest = task[t].rest /\ record.running = running
      /\ record.bid = task[t].bid
  BY <1>1, HeldType DEF Task
<1>3. /\ task' \in [Tasks -> Task] /\ task'[t] = record
      /\ \A u \in Tasks : u # t => task'[u] = task[u]
  BY <1>1, <1>2, BecomeOnly DEF FallbackAnswer
<1>4. PICK T \in SUBSET {p} : Settle({p}, T)
  BY DEF FallbackAnswer
<1>5. /\ promise' \in [Prompts -> {"none", "pending", "text", "null"}]
      /\ \A q \in Prompts : promise'[q] = "pending" => promise[q] = "pending" /\ q \notin {p}
  BY <1>1, <1>4, SettleDone
<1>. HIDE DEF record
<1>6. Types'
  BY <1>1, <1>3, <1>5 DEF FallbackAnswer, batchVars, Types
<1>7. \A u \in Tasks : Shape(u)'
  <2>1. Shape(t)'
    BY <1>1, <1>2, <1>3 DEF Shape, Held, FallbackAnswer
  <2>. QED BY <1>3, <2>1 DEF IInv, Shape, Held
<1>8. DrainInv'
  <2>1. t = Drain => down
    BY IdleType DEF FallbackAnswer, IInv, DrainInv
  <2>. QED BY <1>2, <1>3, <2>1, OwnTasks DEF FallbackAnswer, IInv, DrainInv
<1>9. Held(t) \subseteq Held(t)' \cup {p}
  BY <1>2, <1>3 DEF Held
<1>10. ASSUME NEW q \in Prompts, promise'[q] = "pending" PROVE Placed(q)'
  <2>1. promise[q] = "pending" /\ q # p
    BY <1>5, <1>10
  <2>2. q \in Held(t) => Placed(q)'
    BY <1>9, <2>1 DEF Placed
  <2>3. q \in queue \cup direct => Placed(q)'
    BY DEF FallbackAnswer, Placed
  <2>4. \A b \in inflight : q \in requests[b] => Placed(q)'
    BY DEF FallbackAnswer, batchVars, Placed
  <2>. QED BY <1>3, <2>1, <2>2, <2>3, <2>4, StaysPlaced DEF IInv
<1>11. NothingLost'
  BY <1>10 DEF NothingLost, Placed
<1>. QED BY <1>6, <1>7, <1>8, <1>11 DEF IInv, Recorded, FallbackAnswer, sessionVars

\* The next chunk of a fallback, which may be the drain's.
LEMMA FallbackNextInv ==
    ASSUME IInv, NEW t \in Tasks, FallbackNext(t)
    PROVE  IInv'
<1>1. Types /\ Shape(t)
  BY DEF IInv
<1>2. PICK chunk \in Chunks(task[t].rest) :
          Become(t, [task[t] EXCEPT !.rest = task[t].rest \ chunk, !.running = chunk])
  BY DEF FallbackNext
<1>3. chunk \subseteq task[t].rest
  BY ChunkPart
<1>. DEFINE rest == task[t].rest \ chunk
            record == [task[t] EXCEPT !.rest = rest, !.running = chunk]
<1>4. /\ record \in Task /\ record.pc = task[t].pc /\ record.left = task[t].left
      /\ record.items = task[t].items /\ record.rest = rest /\ record.running = chunk
      /\ record.bid = task[t].bid
  BY <1>1, <1>3, HeldType DEF Task
<1>5. /\ task' \in [Tasks -> Task] /\ task'[t] = record
      /\ \A u \in Tasks : u # t => task'[u] = task[u]
  BY <1>1, <1>2, <1>4, BecomeOnly
<1>. HIDE DEF record
<1>6. Types'
  BY <1>1, <1>5 DEF FallbackNext, batchVars, Types
<1>7. \A u \in Tasks : Shape(u)'
  <2>1. Shape(t)'
    BY <1>1, <1>3, <1>4, <1>5 DEF Shape, Held, FallbackNext
  <2>. QED BY <1>5, <2>1 DEF IInv, Shape, Held
<1>8. DrainInv'
  <2>1. t = Drain => down
    BY IdleType DEF FallbackNext, IInv, DrainInv
  <2>. QED BY <1>4, <1>5, <2>1, OwnTasks DEF FallbackNext, IInv, DrainInv
<1>9. Held(t) \subseteq Held(t)'
  BY <1>3, <1>4, <1>5 DEF Held, FallbackNext
<1>10. ASSUME NEW q \in Prompts, promise'[q] = "pending" PROVE Placed(q)'
  <2>1. q \in Held(t) => Placed(q)'
    BY <1>9 DEF Placed
  <2>2. q \in queue \cup direct => Placed(q)'
    BY DEF FallbackNext, Placed
  <2>3. \A b \in inflight : q \in requests[b] => Placed(q)'
    BY DEF FallbackNext, batchVars, Placed
  <2>. QED BY <1>5, <1>10, <2>1, <2>2, <2>3, StaysPlaced DEF IInv, FallbackNext
<1>11. NothingLost'
  BY <1>10 DEF NothingLost, Placed
<1>. QED BY <1>6, <1>7, <1>8, <1>11 DEF IInv, Recorded, FallbackNext, sessionVars

\* The other ends of an await in flush and pollBatch.
LEMMA DoneInv ==
    ASSUME IInv, NEW t \in Tasks, SplitDone(t) \/ RefusedDone(t) \/ ExpiredDone(t)
    PROVE  IInv'
<1>1. t # Drain /\ Types /\ Shape(t)
  BY DEF SplitDone, RefusedDone, ExpiredDone, FallbackOver, IInv, DrainInv
<1>2. UNCHANGED <<promise, queue, direct, batchVars, sessionVars, down>>
  BY DEF SplitDone, RefusedDone, ExpiredDone
<1>3. task[t].left \in SUBSET Prompts
  BY <1>1, HeldType
<1>4. CASE (SplitDone(t) /\ task[t].items = {}) \/ RefusedDone(t)
  <2>1. Held(t) = task[t].left /\ FlushOn(t, task[t].left)
    BY <1>1, <1>4 DEF SplitDone, RefusedDone, FallbackOver, Held, Shape
  <2>2. Holds(t, {"idle", "submitting", "splitting"}, task[t].left)
    BY <1>1, <1>3, <2>1, FlushOnHolds
  <2>. QED BY <1>1, <1>2, <2>1, <2>2, GoesOn
<1>5. CASE SplitDone(t) /\ task[t].items # {}
  <2>. DEFINE record == [task[t] EXCEPT !.pc = "submitting"]
  <2>1. /\ record \in Task /\ record.pc = "submitting" /\ record.left = task[t].left
        /\ record.items = task[t].items /\ record.rest = task[t].rest /\ record.running = task[t].running
    BY <1>1, HeldType DEF Task
  <2>2. Become(t, record) /\ FallbackOver(t, "splitting")
    BY <1>5 DEF SplitDone
  <2>. HIDE DEF record
  <2>3. /\ task' \in [Tasks -> Task] /\ task'[t] = record
        /\ \A u \in Tasks : u # t => task'[u] = task[u]
    BY <1>1, <2>1, <2>2, BecomeOnly
  <2>4. Holds(t, {"submitting"}, Held(t))
    BY <1>1, <2>1, <2>2, <2>3 DEF Holds, Held, Shape, FallbackOver
  <2>. QED BY <1>1, <1>2, <2>4, GoesOn
<1>6. CASE ExpiredDone(t)
  <2>1. Holds(t, {"idle"}, {})
    BY <1>1, <1>6, IdleHolds DEF ExpiredDone
  <2>2. Held(t) = {}
    BY <1>1, <1>6 DEF ExpiredDone, FallbackOver, Shape, Held
  <2>. QED BY <1>1, <1>2, <2>1, <2>2, GoesOn
<1>. QED BY <1>4, <1>5, <1>6

LEMMA PollTickInv ==
    ASSUME IInv, NEW k \in Polls, NEW b \in Batches, PollTick(k, b)
    PROVE  IInv'
<1>1. k \in Tasks /\ k # Drain /\ Types
  BY OwnTasks DEF IInv
<1>2. Held(k) = {}
  BY IdleType DEF PollTick, Held
<1>3. requests[b] \in SUBSET Prompts
  BY <1>1 DEF Types
<1>4. CASE b \in aged
  <2>1. Holds(k, {"expired"}, requests[b] \cup {})
    BY <1>1, <1>3, <1>4, FallbackHolds DEF PollTick
  <2>2. ASSUME NEW q \in Prompts, promise'[q] = "pending" PROVE Placed(q)'
    <3>1. q \in requests[b] => Placed(q)'
      BY <1>1, <2>1 DEF Holds, Placed
    <3>2. q \in queue \cup direct => Placed(q)'
      BY DEF PollTick, Placed
    <3>3. \A c \in inflight : q \in requests[c] => Placed(q)'
      BY <1>4, <3>1 DEF PollTick, Placed
    <3>. QED BY <1>1, <1>2, <2>1, <2>2, <3>2, <3>3, StaysPlaced DEF IInv, Holds, PollTick
  <2>. QED BY <1>1, <1>4, <2>1, <2>2, TaskStep DEF PollTick, sessionVars, IInv, Types, Recorded
<1>5. CASE b \notin aged
  <2>. DEFINE record == [Idle EXCEPT !.pc = "polling", !.bid = b]
  <2>1. /\ record \in Task /\ record.pc = "polling" /\ record.bid = b
        /\ record.left = {} /\ record.items = {} /\ record.rest = {} /\ record.running = {}
    BY DEF Idle, Task
  <2>2. Become(k, record)
    BY <1>5 DEF PollTick
  <2>. HIDE DEF record
  <2>3. Holds(k, {"polling"}, {})
    BY <1>1, <2>1, <2>2, BecomeOnly DEF Holds, Held, Shape
  <2>. QED BY <1>1, <1>2, <1>5, <2>3, GoesOn DEF PollTick, batchVars
<1>. QED BY <1>4, <1>5

LEMMA PollAnswerInv ==
    ASSUME IInv, NEW k \in Polls, PollAnswer(k)
    PROVE  IInv'
<1>1. k \in Tasks /\ k # Drain /\ Types /\ Shape(k)
  BY OwnTasks DEF IInv
<1>. DEFINE b == task[k].bid
<1>2. Held(k) = {} /\ b \in Batches /\ requests[b] \in SUBSET Prompts
  BY <1>1 DEF PollAnswer, PollPending, PollFailed, PollDone, Shape, Types
<1>3. CASE PollPending(k)
  BY <1>1, <1>2, <1>3, IdleHolds, GoesOn DEF PollPending
<1>4. CASE PollFailed(k)
  <2>1. Holds(k, {"expired"}, requests[b] \cup {})
    BY <1>1, <1>2, <1>4, FallbackHolds DEF PollFailed
  <2>2. ASSUME NEW q \in Prompts, promise'[q] = "pending" PROVE Placed(q)'
    <3>1. q \in requests[b] => Placed(q)'
      BY <1>1, <2>1 DEF Holds, Placed
    <3>2. q \in queue \cup direct => Placed(q)'
      BY <1>4 DEF PollFailed, Placed
    <3>3. \A c \in inflight : q \in requests[c] => Placed(q)'
      BY <1>4, <3>1 DEF PollFailed, Placed
    <3>. QED BY <1>1, <1>2, <1>4, <2>1, <2>2, <3>2, <3>3, StaysPlaced DEF IInv, Holds, PollFailed
  <2>. QED BY <1>1, <1>4, <2>1, <2>2, TaskStep DEF PollFailed, sessionVars, IInv, Types, Recorded
<1>5. CASE PollDone(k)
  <2>1. PICK R \in SUBSET requests[b] : /\ requests' = [requests EXCEPT ![b] = @ \ R]
                                       /\ \E T \in SUBSET R : Settle(requests[b], T)
    BY <1>5 DEF PollDone
  <2>2. /\ promise' \in [Prompts -> {"none", "pending", "text", "null"}]
        /\ \A q \in Prompts : promise'[q] = "pending" => promise[q] = "pending" /\ q \notin requests[b]
    BY <1>1, <2>1, SettleDone
  <2>3. requests' \in [Batches -> SUBSET Prompts] /\ \A c \in Batches : c # b => requests'[c] = requests[c]
    BY <1>1, <2>1 DEF Types
  <2>4. Holds(k, {"idle"}, {})
    BY <1>1, <1>5, IdleHolds DEF PollDone
  <2>5. inflight' = inflight \ {b} /\ inflight \subseteq Batches
    BY <1>1, <1>5 DEF PollDone, Types
  <2>6. ASSUME NEW q \in Prompts, promise'[q] = "pending" PROVE Placed(q)'
    <3>1. promise[q] = "pending" /\ q \notin requests[b]
      BY <2>2, <2>6
    <3>2. q \in queue \cup direct => Placed(q)'
      BY <1>5 DEF PollDone, Placed
    <3>3. \A c \in inflight : q \in requests[c] => Placed(q)'
      BY <2>3, <2>5, <3>1 DEF Placed
    <3>. QED BY <1>1, <1>2, <2>4, <3>1, <3>2, <3>3, StaysPlaced DEF IInv, Holds
  <2>. QED BY <1>1, <1>5, <2>2, <2>3, <2>4, <2>5, <2>6, TaskStep DEF PollDone, sessionVars, IInv, Types, Recorded
<1>. QED BY <1>3, <1>4, <1>5 DEF PollAnswer

\* The batches in flight are settled, so that nothing has to be kept of them.
LEMMA AbandonDone ==
    ASSUME Types, Abandon
    PROVE  /\ promise' \in [Prompts -> {"none", "pending", "text", "null"}]
           /\ inflight' = {}
           /\ \A p \in Prompts : promise'[p] = "pending" =>
                  promise[p] = "pending" /\ \A b \in inflight : p \notin requests[b]
BY SettleDone DEF Abandon

LEMMA ShutdownInv ==
    ASSUME IInv, Shutdown
    PROVE  IInv'
<1>1. Types /\ Drain \in Tasks /\ task[Drain] = Idle
  BY OwnTasks DEF IInv, DrainInv, Shutdown
<1>2. Held(Drain) = {}
  BY <1>1, IdleType DEF Held
<1>3. CASE queue = {}
  <2>1. Abandon /\ task' = task
    BY <1>3 DEF Shutdown
  <2>2. ASSUME NEW q \in Prompts, promise'[q] = "pending" PROVE Placed(q)'
    <3>1. promise[q] = "pending" /\ \A b \in inflight : q \notin requests[b]
      BY <1>1, <2>1, <2>2, AbandonDone
    <3>. QED BY <1>3, <2>1, <3>1 DEF Shutdown, IInv, NothingLost, Placed, Held
  <2>3. Types'
    BY <1>1, <2>1, AbandonDone DEF Shutdown, Types
  <2>4. \A u \in Tasks : Shape(u)'
    BY <2>1 DEF IInv, Shape, Held
  <2>5. DrainInv'
    BY <2>1 DEF Shutdown, IInv, DrainInv
  <2>6. NothingLost'
    BY <2>2 DEF NothingLost, Placed
  <2>. QED BY <2>3, <2>4, <2>5, <2>6 DEF IInv, Recorded, Shutdown, sessionVars
<1>4. CASE queue # {}
  <2>1. Fallback(Drain, "draining", queue, {}) /\ UNCHANGED <<promise, inflight>>
    BY <1>4 DEF Shutdown
  <2>2. Holds(Drain, {"draining"}, queue \cup {})
    BY <1>1, <2>1, FallbackHolds DEF Types
  <2>3. ASSUME NEW q \in Prompts, promise'[q] = "pending" PROVE Placed(q)'
    <3>1. q \in queue \cup direct => Placed(q)'
      BY <1>1, <2>2 DEF Shutdown, Holds, Placed
    <3>2. \A b \in inflight : q \in requests[b] => Placed(q)'
      BY <2>1 DEF Shutdown, Placed
    <3>. QED BY <1>1, <1>2, <2>1, <2>2, <2>3, <3>1, <3>2, StaysPlaced DEF IInv, Holds
  <2>4. Types'
    BY <1>1, <2>1, <2>2 DEF Shutdown, Types, Holds
  <2>5. \A u \in Tasks : Shape(u)'
    BY <2>2 DEF IInv, Holds, Shape, Held
  <2>6. DrainInv'
    BY <2>2 DEF Shutdown, Holds, DrainInv
  <2>7. NothingLost'
    BY <2>3 DEF NothingLost, Placed
  <2>. QED BY <2>4, <2>5, <2>6, <2>7 DEF IInv, Recorded, Shutdown, sessionVars
<1>. QED BY <1>3, <1>4

LEMMA DrainDoneInv ==
    ASSUME IInv, DrainDone
    PROVE  IInv'
<1>1. Types /\ Drain \in Tasks /\ Shape(Drain)
  BY OwnTasks DEF IInv
<1>2. Held(Drain) = {}
  BY <1>1 DEF DrainDone, FallbackOver, Shape, Held
<1>3. Holds(Drain, {"idle"}, {})
  BY <1>1, IdleHolds DEF DrainDone
<1>4. ASSUME NEW q \in Prompts, promise'[q] = "pending" PROVE Placed(q)'
  <2>1. promise[q] = "pending" /\ \A b \in inflight : q \notin requests[b]
    BY <1>1, <1>4, AbandonDone DEF DrainDone
  <2>2. q \in queue \cup direct => Placed(q)'
    BY DEF DrainDone, Placed
  <2>. QED BY <1>1, <1>2, <1>3, <2>1, <2>2, StaysPlaced DEF IInv, Holds
<1>5. Types'
  BY <1>1, <1>3, AbandonDone DEF DrainDone, Types, Holds
<1>6. \A u \in Tasks : Shape(u)'
  BY <1>3 DEF IInv, Holds, Shape, Held
<1>7. DrainInv'
  BY <1>1, IdleType, BecomeOnly DEF DrainDone, DrainInv
<1>8. NothingLost'
  BY <1>4 DEF NothingLost, Placed
<1>. QED BY <1>5, <1>6, <1>7, <1>8 DEF IInv, Recorded, DrainDone, sessionVars

LEMMA RestartInv ==
    ASSUME IInv, Restart
    PROVE  IInv'
<1>1. Types'
  BY IdleType DEF Restart, IInv, Types
<1>2. \A t \in Tasks : Shape(t)'
  BY IdleType DEF Restart, Shape
<1>3. DrainInv'
  BY IdleType, OwnTasks DEF Restart, DrainInv
<1>4. Recorded' /\ NothingLost'
  BY DEF Restart, Recorded, NothingLost, IInv, Types
<1>. QED BY <1>1, <1>2, <1>3, <1>4 DEF IInv

\* Every action keeps the invariant.
LEMMA NextInv == IInv /\ [Next]_vars => IInv'
<1>. SUFFICES ASSUME IInv, [Next]_vars PROVE IInv'
  OBVIOUS
<1>1. ASSUME NEW b \in Batches, Age(b) PROVE IInv'
  <2>1. \A q \in Prompts : promise'[q] = "pending" => Placed(q)'
    BY <1>1 DEF Age, IInv, NothingLost, Placed, Held
  <2>. QED BY <1>1, <2>1, NoTaskStep DEF Age, sessionVars, IInv, Types, Recorded
<1>2. CASE UNCHANGED vars
  <2>1. \A q \in Prompts : promise'[q] = "pending" => Placed(q)'
    BY <1>2 DEF vars, IInv, NothingLost, Placed, Held
  <2>. QED BY <1>2, <2>1, NoTaskStep DEF vars, IInv, Types, Recorded
<1>3. ASSUME NEW t \in Tasks, GoOn(t) PROVE IInv'
  BY <1>3, FallbackNextInv, DoneInv, DrainDoneInv DEF GoOn
<1>4. ASSUME NEW f \in Flushes, TimerFlush(f) \/ SubmitAnswer(f) PROVE IInv'
  BY <1>4, TimerFlushInv, SubmitAcceptedInv, SubmitRefusedInv DEF SubmitAnswer
<1>. QED
  BY <1>1, <1>2, <1>3, <1>4, PromptInv, DirectAnswerInv, FallbackAnswerInv,
     PollTickInv, PollAnswerInv, ShutdownInv, RestartInv
  DEF Next

-----------------------------------------------------------------------------
(* The results.                                                            *)

THEOREM Invariance == Spec => []IInv
BY InitInv, NextInv, PTL DEF Spec

\* No promise that createBatchLLMClient returned is orphaned, whatever flushes,
\* polls, fallbacks and a shutdown interleave.
THEOREM NothingIsLost == Spec => []NothingLost
<1>1. IInv => NothingLost
  BY DEF IInv
<1>. QED BY <1>1, Invariance, PTL

\* A session that lost its batch access never has it back: a new process reads
\* from kv_meta all that was disabled before.
THEOREM StaysDisabled == Spec => DisabledForGood
<1>1. IInv /\ [Next]_vars => [disabled \subseteq disabled']_vars
  <2>. SUFFICES ASSUME IInv, Next PROVE disabled \subseteq disabled'
    BY DEF vars
  <2>1. CASE Restart
    BY <2>1 DEF Restart, IInv, Recorded
  <2>2. ASSUME NEW f \in Flushes, NEW auth \in BOOLEAN, SubmitRefused(f, auth)
        PROVE  disabled \subseteq disabled'
    BY <2>2 DEF SubmitRefused
  <2>3. CASE UNCHANGED disabled
    BY <2>3
  <2>. QED
    BY <2>1, <2>2, <2>3
    DEF Next, sessionVars, PromptDirect, Enqueue, DirectAnswer, TimerFlush, SubmitAnswer, SubmitAccepted,
        PollTick, PollAnswer, PollPending, PollFailed, PollDone, FallbackAnswer, GoOn, FallbackNext,
        SplitDone, RefusedDone, ExpiredDone, DrainDone, Age, Shutdown
<1>. QED BY <1>1, Invariance, PTL DEF Spec, DisabledForGood

-----------------------------------------------------------------------------
(* The queue implements the service it promises.                           *)

\* Settling some calls, of which none may wait, is a step of the service.
LEMMA SettleStep ==
    ASSUME Types, NEW S \in SUBSET Prompts, NEW T, Settle(S, T)
    PROVE  [Service!Next]_promise
<1>. DEFINE done == {p \in S : promise[p] = "pending"}
            a == [p \in done |-> IF p \in T THEN "text" ELSE "null"]
<1>1. promise' = [p \in Prompts |-> IF p \in done THEN a[p] ELSE promise[p]]
  <2>1. promise' = [p \in Prompts |-> IF p \in S /\ promise[p] = "pending"
                                      THEN IF p \in T THEN "text" ELSE "null"
                                      ELSE promise[p]]
    BY DEF Settle
  <2>2. \A p \in Prompts : (IF p \in S /\ promise[p] = "pending"
                            THEN IF p \in T THEN "text" ELSE "null"
                            ELSE promise[p])
                           = (IF p \in done THEN a[p] ELSE promise[p])
    OBVIOUS
  <2>. HIDE DEF done, a
  <2>. QED BY <2>1, <2>2
<1>2. CASE done = {}
  <2>1. promise' = promise
    BY <1>1, <1>2 DEF Types
  <2>. QED BY <2>1
<1>3. CASE done # {}
  <2>1. done \subseteq Service!Waiting /\ done \in SUBSET Prompts
    BY DEF Service!Waiting
  <2>2. a \in [done -> Service!Answers]
    BY DEF Service!Answers
  <2>. HIDE DEF done, a
  <2>3. Service!Settle(done)
    BY <1>1, <1>3, <2>1, <2>2 DEF Service!Settle
  <2>. QED BY <2>1, <2>3 DEF Service!Next
<1>. QED BY <1>2, <1>3

\* Every step of the queue is a step of the service, or does not concern it.
LEMMA ServiceStep == IInv /\ [Next]_vars => [Service!Next]_promise
<1>. SUFFICES ASSUME IInv, [Next]_vars PROVE [Service!Next]_promise
  OBVIOUS
<1>0. Types
  BY DEF IInv
<1>1. ASSUME NEW p \in Prompts, PromptDirect(p) \/ Enqueue(p) PROVE Service!Ask(p)
  BY <1>1 DEF PromptDirect, Enqueue, Service!Ask
<1>2. ASSUME NEW p \in Prompts, DirectAnswer(p) PROVE [Service!Next]_promise
  BY <1>0, <1>2, SettleStep DEF DirectAnswer
<1>3. ASSUME NEW t \in Tasks, NEW p \in Prompts, FallbackAnswer(t, p) PROVE [Service!Next]_promise
  BY <1>0, <1>3, SettleStep DEF FallbackAnswer
<1>4. ASSUME NEW k \in Polls, PollDone(k) PROVE [Service!Next]_promise
  <2>1. k \in Tasks /\ requests[task[k].bid] \in SUBSET Prompts
    BY <1>0, <1>4, OwnTasks DEF PollDone, IInv, Shape, Types
  <2>2. PICK T : Settle(requests[task[k].bid], T)
    BY <1>4 DEF PollDone
  <2>. QED BY <1>0, <2>1, <2>2, SettleStep
<1>5. ASSUME Abandon PROVE [Service!Next]_promise
  <2>1. UNION {requests[b] : b \in inflight} \in SUBSET Prompts
    BY <1>0 DEF Types
  <2>. QED BY <1>0, <1>5, <2>1, SettleStep DEF Abandon
<1>6. ASSUME Restart PROVE Service!Lose
  <2>1. \A p \in Prompts : promise[p] = "pending" <=> p \in Service!Waiting
    BY DEF Service!Waiting
  <2>. QED BY <1>6, <2>1 DEF Restart, Service!Lose
<1>7. CASE UNCHANGED promise
  BY <1>7
<1>. QED
  BY <1>1, <1>2, <1>3, <1>4, <1>5, <1>6, <1>7
  DEF Next, vars, batchVars, sessionVars, TimerFlush, SubmitAnswer, SubmitAccepted, SubmitRefused,
      PollTick, PollAnswer, PollPending, PollFailed, GoOn, FallbackNext, SplitDone, RefusedDone,
      ExpiredDone, DrainDone, Age, Shutdown, Service!Next

\* The safety part of ImplementsService: each call gets at most one answer, a text
\* or null, and waits until it has it or its process ends.
THEOREM Refinement == Spec => Service!Safe
<1>1. Init => Service!Init
  BY DEF Init, Service!Init
<1>. QED BY <1>1, ServiceStep, Invariance, PTL DEF Spec, Service!Safe

-----------------------------------------------------------------------------
(* A call is in one place.                                                 *)

\* fallbackAll of an expired batch may run beside a poll of the same batch: what it
\* holds counts for nothing.
Owns(t, p) == task[t].pc # "expired" /\ p \in Held(t)

\* Where call p is, before shutdown.  A settled call is in no place that counts and a
\* new one in none at all; the queue, the direct client, the tasks and the batches
\* exclude each other, and a batch that is polled excludes even an expired one's
\* fallback.  A batch that is polled no more may still hold its requests.
Sole(p) ==
    /\ promise[p] # "pending" =>
           /\ p \notin queue \cup direct
           /\ \A t \in Tasks : ~Owns(t, p)
           /\ \A b \in inflight : p \notin requests[b]
    /\ promise[p] = "none" \/ p \in queue \cup direct =>
           /\ \A t \in Tasks : p \notin Held(t)
           /\ \A b \in Batches : p \notin requests[b]
    /\ p \in queue => p \notin direct
    /\ \A t \in Tasks : Owns(t, p) =>
           /\ \A u \in Tasks : p \in Held(u) => u = t
           /\ \A b \in Batches : p \notin requests[b]
    /\ \A b, c \in Batches : p \in requests[b] /\ p \in requests[c] => b = c
    /\ \A t \in Tasks, b \in inflight : p \in Held(t) => p \notin requests[b]

SoleInv == ~down => \A p \in Prompts : Sole(p)

\* A task that holds what it held, or what was handed to it by name: the other tasks
\* hold what they held.
LEMMA OthersHold ==
    ASSUME NEW t, NEW pc, NEW S, Holds(t, pc, S), NEW u \in Tasks, u # t
    PROVE  Held(u)' = Held(u) /\ task'[u].pc = task[u].pc
BY DEF Holds, Held

LEMMA PromptSole ==
    ASSUME IInv, SoleInv, NEW p \in Prompts, PromptDirect(p) \/ Enqueue(p)
    PROVE  SoleInv'
<1>1. promise' = [promise EXCEPT ![p] = "pending"] /\ promise[p] = "none" /\ down' = down
  BY DEF PromptDirect, Enqueue
<1>2. promise \in [Prompts -> {"none", "pending", "text", "null"}] /\ inflight \subseteq Batches
  BY DEF IInv, Types
<1>3. /\ \A q \in Prompts : q # p => promise'[q] = promise[q]
      /\ promise'[p] = "pending"
  BY <1>1, <1>2
<1>. SUFFICES ASSUME ~down, NEW q \in Prompts PROVE Sole(q)'
  BY <1>1 DEF SoleInv
<1>4. Sole(q) /\ Sole(p)
  BY DEF SoleInv
<1>5. UNCHANGED <<inflight, requests>>
  BY DEF PromptDirect, Enqueue, batchVars
<1>6. CASE /\ UNCHANGED task
           /\ \/ queue' = queue \cup {p} /\ UNCHANGED direct
              \/ direct' = direct \cup {p} /\ UNCHANGED queue
  <2>1. \A t : Held(t)' = Held(t) /\ (Owns(t, q)' <=> Owns(t, q))
    BY <1>6 DEF Held, Owns
  <2>. QED BY <1>1, <1>2, <1>3, <1>4, <1>5, <1>6, <2>1 DEF Sole, Held, Owns
<1>7. CASE Enqueue(p) /\ queue' = {} /\ \E f \in Flushes : task[f] = Idle /\ FlushOn(f, queue \cup {p})
  <2>1. PICK f \in Flushes : task[f] = Idle /\ FlushOn(f, queue \cup {p})
    BY <1>7
  <2>2. f \in Tasks /\ f # Drain /\ queue \cup {p} \in SUBSET Prompts
    BY OwnTasks DEF IInv, Types
  <2>3. Holds(f, {"idle", "submitting", "splitting"}, queue \cup {p})
    BY <2>1, <2>2, FlushOnHolds DEF IInv
  <2>4. Held(f) = {} /\ direct' = direct
    BY <1>7, <2>1, IdleType DEF Held, Enqueue
  <2>. QED BY <1>1, <1>2, <1>3, <1>4, <1>5, <1>7, <2>2, <2>3, <2>4, OthersHold DEF Sole, Owns, Holds, Held
<1>. QED BY <1>6, <1>7 DEF PromptDirect, Enqueue

LEMMA SettleOnly ==
    ASSUME Types, NEW S, NEW T, Settle(S, T)
    PROVE  \A p \in Prompts :
               /\ p \notin S => promise'[p] = promise[p]
               /\ p \in S => promise'[p] # "pending"
               /\ promise'[p] = "none" => promise[p] = "none"
BY DEF Types, Settle

LEMMA DirectAnswerSole ==
    ASSUME IInv, SoleInv, NEW p \in Prompts, DirectAnswer(p)
    PROVE  SoleInv'
<1>1. PICK T \in SUBSET {p} : Settle({p}, T)
  BY DEF DirectAnswer
<1>2. \A q \in Prompts :
      /\ q \notin {p} => promise'[q] = promise[q]
      /\ promise'[q] = "none" => promise[q] = "none"
  BY <1>1, SettleOnly DEF IInv
<1>. SUFFICES ASSUME ~down, NEW q \in Prompts PROVE Sole(q)'
  BY DEF SoleInv, DirectAnswer
<1>3. Sole(q) /\ Sole(p) /\ inflight \subseteq Batches
  BY DEF SoleInv, IInv, Types
<1>4. p \in direct /\ direct' = direct \ {p} /\ UNCHANGED <<queue, task, requests, inflight>>
  BY DEF DirectAnswer, batchVars
<1>5. CASE q = p
  <2>1. promise[p] = "pending" /\ promise'[p] # "none"
    BY <1>2, <1>3, <1>4 DEF Sole
  <2>2. \A t \in Tasks : p \notin Held(t) /\ ~Owns(t, p)
    BY <1>3, <1>4 DEF Sole, Owns
  <2>. QED BY <1>3, <1>4, <1>5, <2>1, <2>2 DEF Sole, Owns, Held
<1>6. CASE q # p
  <2>1. promise'[q] = promise[q] /\ (q \in direct' <=> q \in direct)
    BY <1>2, <1>4, <1>6
  <2>. QED BY <1>3, <1>4, <2>1 DEF Sole, Owns, Held
<1>. QED BY <1>5, <1>6

\* flush takes the whole queue.
LEMMA TimerFlushSole ==
    ASSUME IInv, SoleInv, NEW f \in Flushes, TimerFlush(f)
    PROVE  SoleInv'
<1>1. f \in Tasks /\ queue \in SUBSET Prompts /\ inflight \subseteq Batches
  BY OwnTasks DEF IInv, Types
<1>2. Holds(f, {"idle", "submitting", "splitting"}, queue)
  BY <1>1, FlushOnHolds DEF TimerFlush, IInv
<1>3. Held(f) = {}
  BY IdleType DEF TimerFlush, Held
<1>. SUFFICES ASSUME ~down, NEW q \in Prompts PROVE Sole(q)'
  BY DEF SoleInv, TimerFlush
<1>4. Sole(q)
  BY DEF SoleInv
<1>. QED BY <1>1, <1>2, <1>3, <1>4, OthersHold DEF TimerFlush, batchVars, Sole, Owns, Holds, Held

\* What f submitted is now the batch's.
LEMMA SubmitAcceptedSole ==
    ASSUME IInv, SoleInv, NEW f \in Flushes, NEW b \in Batches, SubmitAccepted(f, b)
    PROVE  SoleInv'
<1>1. f \in Tasks /\ Types /\ Shape(f)
  BY OwnTasks DEF IInv
<1>2. Holds(f, {"idle", "submitting", "splitting"}, task[f].left)
  BY <1>1, HeldType, FlushOnHolds DEF SubmitAccepted
<1>3. /\ Held(f) = task[f].left \cup task[f].items
      /\ task[f].left \cap task[f].items = {}
      /\ task[f].pc = "submitting"
  BY <1>1 DEF SubmitAccepted, Shape, Held
<1>4. /\ requests'[b] = task[f].items /\ requests[b] = {} /\ inflight' = inflight \cup {b}
      /\ \A c \in Batches : c # b => requests'[c] = requests[c]
      /\ inflight \subseteq Batches
  BY <1>1 DEF SubmitAccepted, Fresh, Types
<1>. SUFFICES ASSUME ~down, NEW q \in Prompts PROVE Sole(q)'
  BY DEF SoleInv, SubmitAccepted
<1>5. Sole(q)
  BY DEF SoleInv
<1>. QED BY <1>1, <1>2, <1>3, <1>4, <1>5, OthersHold DEF SubmitAccepted, Sole, Owns, Holds, Held

\* A step of a task that only moves what it holds, and settles none of it.
LEMMA KeepsSole ==
    ASSUME IInv, SoleInv, NEW t \in Tasks, NEW pc, NEW S, Holds(t, pc, S),
           UNCHANGED <<promise, queue, direct, batchVars, down>>,
           S = Held(t), S = {} \/ (task'[t].pc = "expired" <=> task[t].pc = "expired")
    PROVE  SoleInv'
<1>1. inflight \subseteq Batches
  BY DEF IInv, Types
<1>. SUFFICES ASSUME ~down, NEW q \in Prompts PROVE Sole(q)'
  BY DEF SoleInv
<1>2. Sole(q)
  BY DEF SoleInv
<1>. QED BY <1>1, <1>2, OthersHold DEF batchVars, Sole, Owns, Holds, Held

LEMMA SubmitRefusedSole ==
    ASSUME IInv, SoleInv, NEW f \in Flushes, NEW auth \in BOOLEAN, SubmitRefused(f, auth)
    PROVE  SoleInv'
<1>1. f \in Tasks /\ Shape(f) /\ Types
  BY OwnTasks DEF IInv
<1>2. task[f].items \cap task[f].left = {} /\ Held(f) = task[f].items \cup task[f].left
  BY <1>1 DEF SubmitRefused, Shape, Held
<1>3. Holds(f, {"refused"}, Held(f))
  BY <1>1, <1>2, HeldType, FallbackHolds DEF SubmitRefused
<1>4. task'[f].pc # "expired"
  BY <1>3 DEF Holds
<1>. QED BY <1>1, <1>3, <1>4, KeepsSole DEF SubmitRefused

\* The inner client answers one call of a fallback, which is then nowhere, but perhaps
\* in another fallback of the same batch.
LEMMA FallbackAnswerSole ==
    ASSUME IInv, SoleInv, NEW t \in Tasks, NEW p \in Prompts, FallbackAnswer(t, p)
    PROVE  SoleInv'
<1>1. Types /\ Shape(t) /\ inflight \subseteq Batches
  BY DEF IInv, Types
<1>2. PICK T \in SUBSET {p} : Settle({p}, T)
  BY DEF FallbackAnswer
<1>3. \A q \in Prompts :
      /\ q \notin {p} => promise'[q] = promise[q]
      /\ promise'[q] = "none" => promise[q] = "none"
  BY <1>1, <1>2, SettleOnly
<1>. DEFINE record == [task[t] EXCEPT !.running = @ \ {p}]
<1>4. /\ record \in Task /\ record.pc = task[t].pc /\ record.left = task[t].left
      /\ record.items = task[t].items /\ record.rest = task[t].rest /\ record.running = task[t].running \ {p}
  BY <1>1, HeldType DEF Task
<1>5. Become(t, record) /\ p \in task[t].running
  BY DEF FallbackAnswer
<1>. HIDE DEF record
<1>6. /\ task'[t] = record
      /\ \A u \in Tasks : u # t => task'[u] = task[u]
  BY <1>1, <1>4, <1>5, BecomeOnly
<1>7. /\ Held(t)' = Held(t) \ {p} /\ task'[t].pc = task[t].pc /\ p \in Held(t)
      /\ \A u \in Tasks : u # t => Held(u)' = Held(u) /\ task'[u].pc = task[u].pc
  BY <1>1, <1>4, <1>5, <1>6 DEF Held, Shape
<1>8. UNCHANGED <<queue, direct, inflight, requests>>
  BY DEF FallbackAnswer, batchVars
<1>. SUFFICES ASSUME ~down, NEW q \in Prompts PROVE Sole(q)'
  BY DEF SoleInv, FallbackAnswer
<1>9. Sole(q) /\ Sole(p)
  BY DEF SoleInv
<1>10. CASE q = p
  <2>1. promise[p] # "none" /\ promise'[p] # "none" /\ p \notin queue \cup direct
    BY <1>3, <1>7, <1>9 DEF Sole
  <2>2. \A u \in Tasks : ~Owns(u, p)'
    BY <1>7, <1>9 DEF Sole, Owns, Held
  <2>. QED BY <1>1, <1>7, <1>8, <1>9, <1>10, <2>1, <2>2 DEF Sole, Owns, Held
<1>11. CASE q # p
  <2>1. promise'[q] = promise[q]
    BY <1>3, <1>11
  <2>2. \A u \in Tasks : (q \in Held(u)' <=> q \in Held(u)) /\ task'[u].pc = task[u].pc
    BY <1>7, <1>11
  <2>. QED BY <1>1, <1>8, <1>9, <2>1, <2>2 DEF Sole, Owns
<1>. QED BY <1>10, <1>11

LEMMA FallbackNextSole ==
    ASSUME IInv, SoleInv, NEW t \in Tasks, FallbackNext(t)
    PROVE  SoleInv'
<1>1. Types /\ Shape(t)
  BY DEF IInv
<1>2. PICK chunk \in Chunks(task[t].rest) :
          Become(t, [task[t] EXCEPT !.rest = task[t].rest \ chunk, !.running = chunk])
  BY DEF FallbackNext
<1>3. chunk \subseteq task[t].rest
  BY ChunkPart
<1>. DEFINE rest == task[t].rest \ chunk
            record == [task[t] EXCEPT !.rest = rest, !.running = chunk]
<1>4. /\ record \in Task /\ record.pc = task[t].pc /\ record.left = task[t].left
      /\ record.items = task[t].items /\ record.rest = rest /\ record.running = chunk
      /\ record.bid = task[t].bid
  BY <1>1, <1>3, HeldType DEF Task
<1>5. /\ task' \in [Tasks -> Task] /\ task'[t] = record
      /\ \A u \in Tasks : u # t => task'[u] = task[u]
  BY <1>1, <1>2, <1>4, BecomeOnly
<1>. HIDE DEF record
<1>6. Shape(t)' /\ Held(t)' = Held(t)
  BY <1>1, <1>3, <1>4, <1>5 DEF Shape, Held, FallbackNext
<1>7. Holds(t, {task[t].pc}, Held(t))
  BY <1>4, <1>5, <1>6 DEF Holds
<1>. QED BY <1>4, <1>5, <1>7, KeepsSole DEF FallbackNext

LEMMA DoneSole ==
    ASSUME IInv, SoleInv, NEW t \in Tasks, SplitDone(t) \/ RefusedDone(t) \/ ExpiredDone(t)
    PROVE  SoleInv'
<1>1. t # Drain /\ Types /\ Shape(t)
  BY DEF SplitDone, RefusedDone, ExpiredDone, FallbackOver, IInv, DrainInv
<1>2. UNCHANGED <<promise, queue, direct, batchVars, sessionVars, down>>
  BY DEF SplitDone, RefusedDone, ExpiredDone
<1>3. task[t].left \in SUBSET Prompts
  BY <1>1, HeldType
<1>4. CASE (SplitDone(t) /\ task[t].items = {}) \/ RefusedDone(t)
  <2>1. Held(t) = task[t].left /\ FlushOn(t, task[t].left) /\ task[t].pc # "expired"
    BY <1>1, <1>4 DEF SplitDone, RefusedDone, FallbackOver, Held, Shape
  <2>2. Holds(t, {"idle", "submitting", "splitting"}, Held(t))
    BY <1>1, <1>3, <2>1, FlushOnHolds
  <2>3. task'[t].pc # "expired"
    BY <2>2 DEF Holds
  <2>. QED BY <1>2, <2>1, <2>2, <2>3, KeepsSole
<1>5. CASE SplitDone(t) /\ task[t].items # {}
  <2>. DEFINE record == [task[t] EXCEPT !.pc = "submitting"]
  <2>1. /\ record \in Task /\ record.pc = "submitting" /\ record.left = task[t].left
        /\ record.items = task[t].items /\ record.rest = task[t].rest /\ record.running = task[t].running
    BY <1>1, HeldType DEF Task
  <2>2. Become(t, record) /\ FallbackOver(t, "splitting")
    BY <1>5 DEF SplitDone
  <2>. HIDE DEF record
  <2>3. /\ task' \in [Tasks -> Task] /\ task'[t] = record
        /\ \A u \in Tasks : u # t => task'[u] = task[u]
    BY <1>1, <2>1, <2>2, BecomeOnly
  <2>4. Holds(t, {"submitting"}, Held(t)) /\ task[t].pc # "expired" /\ task'[t].pc # "expired"
    BY <1>1, <2>1, <2>2, <2>3 DEF Holds, Held, Shape, FallbackOver
  <2>. QED BY <1>2, <2>4, KeepsSole
<1>6. CASE ExpiredDone(t)
  <2>1. Holds(t, {"idle"}, {})
    BY <1>1, <1>6, IdleHolds DEF ExpiredDone
  <2>2. Held(t) = {}
    BY <1>1, <1>6 DEF ExpiredDone, FallbackOver, Shape, Held
  <2>. QED BY <1>2, <2>1, <2>2, KeepsSole
<1>. QED BY <1>4, <1>5, <1>6

\* A batch that is polled no more goes to a fallback that does not count.
LEMMA ExpiredSole ==
    ASSUME IInv, SoleInv, NEW k \in Tasks, NEW b \in Batches, Held(k) = {},
           NEW S, S = requests[b], Holds(k, {"expired"}, S), inflight' = inflight \ {b},
           UNCHANGED <<promise, queue, direct, requests, down>>
    PROVE  SoleInv'
<1>1. /\ Held(k)' = S /\ task'[k].pc = "expired"
      /\ \A u \in Tasks : u # k => Held(u)' = Held(u) /\ task'[u].pc = task[u].pc
  BY OthersHold DEF Holds
<1>2. inflight \subseteq Batches
  BY DEF IInv, Types
<1>. SUFFICES ASSUME ~down, NEW q \in Prompts PROVE Sole(q)'
  BY DEF SoleInv
<1>3. Sole(q)
  BY DEF SoleInv
<1>4. \A u \in Tasks : Owns(u, q)' => Owns(u, q) /\ u # k
  BY <1>1 DEF Owns
<1>5. \A u \in Tasks : u # k /\ q \in Held(u)' => q \in Held(u)
  BY <1>1
<1>6. CASE q \in S
  <2>1. promise[q] # "none" /\ q \notin queue \cup direct /\ \A u \in Tasks : ~Owns(u, q)
    BY <1>3, <1>6 DEF Sole
  <2>2. \A c \in Batches : c # b => q \notin requests[c]
    BY <1>3, <1>6 DEF Sole
  <2>. QED BY <1>2, <1>3, <1>4, <2>1, <2>2 DEF Sole
<1>7. CASE q \notin S
  <2>1. \A u \in Tasks : q \in Held(u)' => q \in Held(u)
    BY <1>1, <1>5, <1>7
  <2>. QED BY <1>2, <1>3, <1>4, <2>1 DEF Sole
<1>. QED BY <1>6, <1>7

LEMMA PollTickSole ==
    ASSUME IInv, SoleInv, NEW k \in Polls, NEW b \in Batches, PollTick(k, b)
    PROVE  SoleInv'
<1>1. k \in Tasks /\ Types /\ inflight \subseteq Batches
  BY OwnTasks DEF IInv, Types
<1>2. Held(k) = {}
  BY IdleType DEF PollTick, Held
<1>3. requests[b] \in SUBSET Prompts
  BY <1>1 DEF Types
<1>4. CASE b \in aged
  <2>. PICK S : S = requests[b]
    OBVIOUS
  <2>1. Holds(k, {"expired"}, S \cup {})
    BY <1>1, <1>3, <1>4, FallbackHolds DEF PollTick
  <2>2. inflight' = inflight \ {b} /\ UNCHANGED <<promise, queue, direct, requests, down>>
    BY <1>4 DEF PollTick
  <2>. QED BY <1>1, <1>2, <2>1, <2>2, ExpiredSole
<1>5. CASE b \notin aged
  <2>. DEFINE record == [Idle EXCEPT !.pc = "polling", !.bid = b]
  <2>1. /\ record \in Task /\ record.pc = "polling" /\ record.bid = b
        /\ record.left = {} /\ record.items = {} /\ record.rest = {} /\ record.running = {}
    BY DEF Idle, Task
  <2>2. Become(k, record)
    BY <1>5 DEF PollTick
  <2>. HIDE DEF record
  <2>3. Holds(k, {"polling"}, {})
    BY <1>1, <2>1, <2>2, BecomeOnly DEF Holds, Held, Shape
  <2>. QED BY <1>1, <1>2, <1>5, <2>3, KeepsSole DEF PollTick, batchVars
<1>. QED BY <1>4, <1>5

\* A batch that failed as well; one that ended is settled as a whole, and whoever
\* holds its requests in a fallback of an expired batch settles nothing any more.
LEMMA PollAnswerSole ==
    ASSUME IInv, SoleInv, NEW k \in Polls, PollAnswer(k)
    PROVE  SoleInv'
<1>1. k \in Tasks /\ Types /\ Shape(k) /\ inflight \subseteq Batches
  BY OwnTasks DEF IInv, Types
<1>. DEFINE b == task[k].bid
<1>2. Held(k) = {} /\ b \in Batches /\ requests[b] \in SUBSET Prompts
  BY <1>1 DEF PollAnswer, PollPending, PollFailed, PollDone, Shape, Types
<1>3. CASE PollPending(k)
  BY <1>1, <1>2, <1>3, IdleHolds, KeepsSole DEF PollPending
<1>4. CASE PollFailed(k)
  <2>. PICK c, S : c = b /\ S = requests[b]
    OBVIOUS
  <2>1. Holds(k, {"expired"}, S \cup {})
    BY <1>1, <1>2, <1>4, FallbackHolds DEF PollFailed
  <2>2. inflight' = inflight \ {c} /\ UNCHANGED <<promise, queue, direct, requests, down>>
    BY <1>4 DEF PollFailed
  <2>. QED BY <1>1, <1>2, <2>1, <2>2, ExpiredSole
<1>5. CASE PollDone(k)
  <2>1. PICK R \in SUBSET requests[b] : /\ requests' = [requests EXCEPT ![b] = @ \ R]
                                       /\ \E T \in SUBSET R : Settle(requests[b], T)
    BY <1>5 DEF PollDone
  <2>2. \A q \in Prompts :
            /\ q \notin requests[b] => promise'[q] = promise[q]
            /\ q \in requests[b] => promise'[q] # "pending"
            /\ promise'[q] = "none" => promise[q] = "none"
    BY <1>1, <2>1, SettleOnly
  <2>3. /\ \A c \in Batches : c # b => requests'[c] = requests[c]
        /\ requests'[b] = requests[b] \ R
    BY <1>1, <1>2, <2>1 DEF Types
  <2>4. Holds(k, {"idle"}, {})
    BY <1>1, <1>5, IdleHolds DEF PollDone
  <2>5. /\ Held(k)' = {} /\ \A u \in Tasks : u # k => Held(u)' = Held(u) /\ task'[u].pc = task[u].pc
    BY <2>4, OthersHold DEF Holds
  <2>6. inflight' = inflight \ {b} /\ UNCHANGED <<queue, direct, down>>
    BY <1>5 DEF PollDone
  <2>. SUFFICES ASSUME ~down, NEW q \in Prompts PROVE Sole(q)'
    BY <2>6 DEF SoleInv
  <2>7. Sole(q)
    BY DEF SoleInv
  <2>8. \A u \in Tasks : (q \in Held(u)' => q \in Held(u)) /\ (Owns(u, q)' => Owns(u, q))
    BY <1>2, <2>5 DEF Owns
  <2>9. CASE q \in requests[b]
    <3>1. q \notin queue \cup direct /\ promise'[q] # "none" /\ \A u \in Tasks : ~Owns(u, q)
      BY <1>2, <2>2, <2>7, <2>9 DEF Sole
    <3>2. \A c \in Batches : c # b => q \notin requests[c]
      BY <1>2, <2>7, <2>9 DEF Sole
    <3>. QED BY <1>1, <1>2, <2>2, <2>3, <2>6, <2>8, <2>9, <3>1, <3>2 DEF Sole
  <2>10. CASE q \notin requests[b]
    <3>1. promise'[q] = promise[q] /\ \A c \in Batches : q \in requests'[c] <=> q \in requests[c]
      BY <2>2, <2>3, <2>10
    <3>. QED BY <1>1, <2>6, <2>7, <2>8, <3>1 DEF Sole
  <2>. QED BY <2>9, <2>10
<1>. QED BY <1>3, <1>4, <1>5 DEF PollAnswer

\* A new process has nothing anywhere.
LEMMA RestartSole ==
    ASSUME Restart
    PROVE  SoleInv'
BY IdleType DEF Restart, SoleInv, Sole, Owns, Held

LEMMA NextSole == IInv /\ SoleInv /\ [Next]_vars => SoleInv'
<1>. SUFFICES ASSUME IInv, SoleInv, [Next]_vars PROVE SoleInv'
  OBVIOUS
<1>1. CASE UNCHANGED <<promise, queue, direct, task, inflight, requests, down>>
  BY <1>1 DEF SoleInv, Sole, Owns, Held
<1>2. ASSUME Shutdown \/ DrainDone PROVE SoleInv'
  <2>1. down'
    BY <1>2, IdleType DEF Shutdown, DrainDone, FallbackOver, IInv, DrainInv
  <2>. QED BY <2>1 DEF SoleInv
<1>3. ASSUME NEW t \in Tasks, GoOn(t) PROVE SoleInv'
  BY <1>2, <1>3, FallbackNextSole, DoneSole DEF GoOn
<1>4. ASSUME NEW f \in Flushes, TimerFlush(f) \/ SubmitAnswer(f) PROVE SoleInv'
  BY <1>4, TimerFlushSole, SubmitAcceptedSole, SubmitRefusedSole DEF SubmitAnswer
<1>. QED
  BY <1>1, <1>2, <1>3, <1>4, PromptSole, DirectAnswerSole, FallbackAnswerSole,
     PollTickSole, PollAnswerSole, RestartSole
  DEF Next, vars, Age

\* Counted as OnePlace counts: at most one task, batch or list, and none of a call
\* that has its answer.
LEMMA AtMostOne ==
    ASSUME NEW S, \A x, y \in S : x = y
    PROVE  /\ Cardinality(S) \in {0, 1}
           /\ Cardinality(S) = 1 => S # {}
           /\ S = {} => Cardinality(S) = 0
<1>1. CASE S = {}
  BY <1>1, FS_EmptySet
<1>2. CASE S # {}
  <2>1. PICK x : S = {x}
    BY <1>2
  <2>. QED BY <2>1, FS_Singleton
<1>. QED BY <1>1, <1>2

LEMMA Counted ==
    ASSUME IInv, SoleInv
    PROVE  OnePlace
<1>. SUFFICES ASSUME ~down, NEW p \in Prompts
              PROVE  LET holders == {t \in Tasks : task[t].pc # "expired" /\ p \in Held(t)}
                         batches == {b \in inflight : p \in requests[b]}
                         waits   == {S \in {queue, direct} : p \in S}
                     IN  Cardinality(holders) + Cardinality(batches) + Cardinality(waits)
                             <= IF promise[p] = "pending" THEN 1 ELSE 0
  BY DEF OnePlace
<1>. DEFINE holders == {t \in Tasks : task[t].pc # "expired" /\ p \in Held(t)}
            batches == {b \in inflight : p \in requests[b]}
            waits   == {S \in {queue, direct} : p \in S}
<1>1. Sole(p) /\ inflight \subseteq Batches
  BY DEF SoleInv, IInv, Types
<1>2. \A x, y \in holders : x = y
  BY <1>1 DEF Sole, Owns
<1>3. \A x, y \in batches : x = y
  BY <1>1 DEF Sole
<1>4. \A x, y \in waits : x = y
  BY <1>1 DEF Sole
<1>5. /\ holders # {} => batches = {} /\ waits = {}
      /\ batches # {} => waits = {}
      /\ promise[p] # "pending" => holders = {} /\ batches = {} /\ waits = {}
  BY <1>1 DEF Sole, Owns
<1>. HIDE DEF holders, batches, waits
<1>6. Cardinality(holders) \in {0, 1} /\ (Cardinality(holders) = 1 => holders # {})
  BY <1>2, AtMostOne
<1>7. Cardinality(batches) \in {0, 1} /\ (Cardinality(batches) = 1 => batches # {})
  BY <1>3, AtMostOne
<1>8. Cardinality(waits) \in {0, 1} /\ (Cardinality(waits) = 1 => waits # {})
  BY <1>4, AtMostOne
<1>9. Cardinality(holders) + Cardinality(batches) + Cardinality(waits)
          <= IF promise[p] = "pending" THEN 1 ELSE 0
  BY <1>5, <1>6, <1>7, <1>8
<1>. QED BY <1>9 DEF holders, batches, waits

\* Until shutdown a call is computed once: it waits in one list, is in the hands of
\* one flush or in one batch that is polled, and in none when it has its answer.
THEOREM IsInOnePlace == Spec => []OnePlace
<1>1. Init => SoleInv
  BY IdleType DEF Init, SoleInv, Sole, Owns, Held
<1>2. Spec => []SoleInv
  BY <1>1, NextSole, Invariance, PTL DEF Spec
<1>. QED BY <1>2, Invariance, Counted, PTL

=============================================================================
