-------------------------- MODULE CacheWarmerProofs --------------------------
(***************************************************************************)
(* Proofs about CacheWarmer, for any sessions, prices and limits: the hit  *)
(* rate is one of real hits, a tripped breaker stays tripped, and between  *)
(* two answers a session pays for a bounded number of warm-ups.            *)
(***************************************************************************)
EXTENDS CacheWarmer, TLAPS

(* ------------------------------ The types ------------------------------ *)

WarmupRecord == [lastWarmupAt : Nat, count : Nat, total : Nat, hits : Nat, disabled : BOOLEAN, forced : BOOLEAN]
SessionRecord ==
    [loaded : BOOLEAN, last : Nat, body : BOOLEAN, large : BOOLEAN, tool : BOOLEAN, warmup : WarmupRecord, dirty : BOOLEAN]

TypeInv ==
    /\ now \in Nat
    /\ state \in [Sessions -> SessionRecord]
    /\ flight \subseteq Sessions
    /\ breaker \in [failures : Nat, tripped : BOOLEAN, loaded : BOOLEAN]
    /\ table \in [warmup : [Sessions -> WarmupRecord], failures : Nat, tripped : BOOLEAN]
    /\ history \in [spent : [Sessions -> Nat], begun : [Sessions -> Nat], stopped : SUBSET Sessions, tripped : BOOLEAN]

\* A session's record when it is touched has the type of a session's record.
LEMMA TouchedType ==
  ASSUME TypeInv, NEW s \in Sessions
  PROVE  Touched(s) \in SessionRecord /\ Touched(s).warmup \in {state[s].warmup, table.warmup[s]}
<1>1. CASE state[s].loaded
  BY <1>1 DEF Touched, TypeInv, SessionRecord
<1>2. CASE ~state[s].loaded
  <2>1. table.warmup[s] \in WarmupRecord
    BY DEF TypeInv
  <2> QED
    BY <1>2, <2>1 DEF Touched, TypeInv, SessionRecord, NotLoaded, NoWarmup
<1> QED
  BY <1>1, <1>2

\* The breaker's record, loaded and after a result.
LEMMA BreakerType ==
  ASSUME TypeInv, NEW outcome
  PROVE  /\ EnsureLoaded(breaker) \in [failures : Nat, tripped : BOOLEAN, loaded : BOOLEAN]
         /\ Checked(EnsureLoaded(breaker), outcome) \in [failures : Nat, tripped : BOOLEAN, loaded : BOOLEAN]
<1> DEFINE B == [failures : Nat, tripped : BOOLEAN, loaded : BOOLEAN]
<1>1. EnsureLoaded(breaker) \in B
  BY DEF EnsureLoaded, TypeInv
<1>2. ASSUME NEW b \in B PROVE Checked(b, outcome) \in B
  <2> DEFINE n == b.failures + 1
             t == b.failures + 1 >= CIRCUIT_BREAKER_MAX_FAILURES
  <2>1. t \in BOOLEAN /\ n \in Nat /\ 0 \in Nat
    BY LimitAssumption
  <2>2. [b EXCEPT !.failures = n, !.tripped = t] \in B /\ [b EXCEPT !.failures = 0] \in B
    <3> HIDE DEF n, t
    <3> QED
      BY <2>1
  <2> QED
    BY <2>2 DEF Checked
<1> QED
  BY <1>1, <1>2

\* The warm-up state after an answered turn: a hit uses up the warm-up.
LEMMA ResumedBacked ==
  ASSUME NEW w \in WarmupRecord, now \in Nat
  PROVE  Resumed(w) \in WarmupRecord /\ (IsBacked(w) => IsBacked(Resumed(w)))
<1> DEFINE hits  == IF IsHit(w) THEN w.hits + 1 ELSE w.hits
           count == IF w.forced THEN w.count ELSE 0
<1>1. /\ w.lastWarmupAt \in Nat /\ w.count \in Nat /\ w.total \in Nat /\ w.hits \in Nat
      /\ w.disabled \in BOOLEAN /\ w.forced \in BOOLEAN
  BY DEF WarmupRecord
<1>2. hits \in Nat /\ count \in Nat /\ 0 \in Nat /\ FALSE \in BOOLEAN
  BY <1>1
<1>3. Resumed(w) = [w EXCEPT !.lastWarmupAt = 0, !.hits = hits, !.disabled = FALSE, !.count = count]
  BY DEF Resumed
<1>4. Resumed(w) \in WarmupRecord
  <2> HIDE DEF hits, count
  <2> QED
    BY <1>2, <1>3 DEF WarmupRecord
<1>5. Resumed(w).lastWarmupAt = 0 /\ Resumed(w).hits = hits /\ Resumed(w).total = w.total
  <2> HIDE DEF hits, count
  <2> QED
    BY <1>3 DEF WarmupRecord
<1>6. ASSUME IsBacked(w) PROVE IsBacked(Resumed(w))
  BY <1>1, <1>5, <1>6 DEF IsBacked, IsHit
<1> QED
  BY <1>4, <1>6

(* -------------------- Hits, the breaker and the stop -------------------- *)

\* Once tripped, the breaker is tripped in memory, or not loaded and tripped in the table.
BreakerInv ==
    /\ breaker.tripped => table.tripped
    /\ history.tripped => table.tripped /\ (breaker.loaded => breaker.tripped)

\* A stopped session either has nothing to replay or is disabled and not kept warm.
StopInv ==
    \A s \in history.stopped : state[s].body => state[s].warmup.disabled /\ ~state[s].warmup.forced

IInv == TypeInv /\ HitsBacked /\ BreakerInv /\ StopInv

LEMMA InitInv == Init => IInv
<1> SUFFICES ASSUME Init PROVE IInv
  OBVIOUS
<1>1. NoWarmup \in WarmupRecord /\ IsBacked(NoWarmup)
  BY DEF NoWarmup, WarmupRecord, IsBacked
<1>2. NotLoaded \in SessionRecord /\ NotLoaded.warmup = NoWarmup
  BY <1>1 DEF NotLoaded, SessionRecord
<1>3. TypeInv
  BY <1>1, <1>2 DEF Init, TypeInv, FreshBreaker
<1>4. HitsBacked
  BY <1>1, <1>2 DEF Init, HitsBacked
<1>5. BreakerInv
  BY DEF Init, BreakerInv, FreshBreaker
<1>6. StopInv
  BY DEF Init, StopInv
<1> QED
  BY <1>3, <1>4, <1>5, <1>6 DEF IInv

\* Whichever path decides, a session that is disabled and not kept warm is not warmed.
LEMMA StoppedIsCold ==
  ASSUME NEW s \in history.stopped, NEW t, NEW isWorth, StopInv
  PROVE  ~ShouldWarm(state[s], t, isWorth)
BY DEF StopInv, ShouldWarm, IsEligible, KeepsWarm, WarmsToolCall, InToolCall, Commits, Continues, IsConsidered

\* A poll reads the breaker, saves changed sessions and marks others; it warms
\* nothing once the breaker has tripped, and no stopped session.
LEMMA PollInv ==
  IInv /\ Poll => IInv' /\ (history.tripped => flight' = flight) /\ \A s \in history.stopped : s \in flight' => s \in flight
<1> SUFFICES ASSUME IInv, Poll
             PROVE  IInv' /\ (history.tripped => flight' = flight)
                          /\ \A s \in history.stopped : s \in flight' => s \in flight
  OBVIOUS
<1> USE DEF IInv
<1>1. UNCHANGED <<turn, made, history>> /\ breaker' = EnsureLoaded(breaker) /\ now' \in Nat
  BY DEF Poll, TypeInv
<1>2. breaker' \in [failures : Nat, tripped : BOOLEAN, loaded : BOOLEAN]
  BY <1>1, BreakerType
<1>3. (history.tripped => breaker'.tripped) /\ (breaker'.tripped => table.tripped)
  BY <1>1 DEF BreakerInv, EnsureLoaded
<1>4. CASE breaker'.tripped
  <2>1. UNCHANGED <<state, flight, table>>
    BY <1>4 DEF Poll
  <2> QED
    BY <1>1, <1>2, <1>3, <2>1 DEF TypeInv, HitsBacked, BreakerInv, StopInv, IsBacked
<1>5. CASE ~breaker'.tripped
  <2>1. PICK isWorth, isLow \in [Sessions -> BOOLEAN] :
          LET warmed == {s \in Sessions \ flight : ShouldWarm(state[s], now + 1, isWorth[s])}
              dead   == {s \in Sessions \ flight : IsEligible(state[s], now + 1) /\
                            MarksDead(state[s], now + 1, isWorth[s], isLow[s])}
              marked == [s \in Sessions |-> IF s \in dead THEN [state[s] EXCEPT !.warmup.disabled = TRUE] ELSE state[s]]
          IN  /\ flight' = flight \cup warmed
              /\ table' = Flushed(marked)
              /\ state' = [s \in Sessions |-> [marked[s] EXCEPT !.dirty = FALSE]]
    BY <1>5 DEF Poll
  <2> DEFINE dead   == {s \in Sessions \ flight : IsEligible(state[s], now + 1) /\
                            MarksDead(state[s], now + 1, isWorth[s], isLow[s])}
             marked == [s \in Sessions |-> IF s \in dead THEN [state[s] EXCEPT !.warmup.disabled = TRUE] ELSE state[s]]
  <2>2. flight' \subseteq Sessions
    BY <2>1 DEF TypeInv
  <2>3. ASSUME NEW s \in Sessions
        PROVE  /\ marked[s] \in SessionRecord /\ IsBacked(marked[s].warmup) /\ marked[s].body = state[s].body
               /\ marked[s].warmup.forced = state[s].warmup.forced
               /\ state[s].warmup.disabled => marked[s].warmup.disabled
    <3>1. state[s] \in SessionRecord /\ IsBacked(state[s].warmup)
      BY DEF TypeInv, HitsBacked
    <3>2. CASE s \notin dead
      BY <3>1, <3>2
    <3>3. CASE s \in dead
      <4>1. marked[s] = [state[s] EXCEPT !.warmup.disabled = TRUE]
        BY <3>3
      <4> QED
        BY <3>1, <4>1 DEF SessionRecord, WarmupRecord, IsBacked
    <3> QED
      BY <3>2, <3>3
  <2> HIDE DEF dead, marked
  <2>4. table' = Flushed(marked) /\ state' = [s \in Sessions |-> [marked[s] EXCEPT !.dirty = FALSE]]
    BY <2>1 DEF dead, marked
  <2>5. state' \in [Sessions -> SessionRecord]
    BY <2>3, <2>4 DEF SessionRecord
  <2>6. /\ table' \in [warmup : [Sessions -> WarmupRecord], failures : Nat, tripped : BOOLEAN]
        /\ table'.tripped = table.tripped
        /\ \A s \in Sessions : table'.warmup[s] \in {marked[s].warmup, table.warmup[s]}
    BY <2>3, <2>4 DEF Flushed, TypeInv, SessionRecord
  <2>7. HitsBacked'
    <3> SUFFICES ASSUME NEW s \in Sessions PROVE IsBacked(state'[s].warmup) /\ IsBacked(table'.warmup[s])
      BY DEF HitsBacked, IsBacked
    <3>1. state'[s].warmup = marked[s].warmup
      BY <2>3, <2>4 DEF SessionRecord
    <3> QED
      BY <2>3, <2>6, <3>1 DEF HitsBacked
  <2>8. ~history.tripped
    BY <1>3, <1>5
  <2>9. StopInv'
    <3> SUFFICES ASSUME NEW s \in history.stopped, state'[s].body
                 PROVE  state'[s].warmup.disabled /\ ~state'[s].warmup.forced
      BY <1>1 DEF StopInv
    <3>1. s \in Sessions
      BY DEF TypeInv
    <3>2. state'[s].body = marked[s].body /\ state'[s].warmup = marked[s].warmup
      BY <2>3, <2>4, <3>1 DEF SessionRecord
    <3> QED
      BY <2>3, <3>1, <3>2 DEF StopInv
  <2>10. \A s \in history.stopped : s \in flight' => s \in flight
    BY <2>1, StoppedIsCold
  <2>11. TypeInv'
    BY <1>1, <1>2, <2>2, <2>5, <2>6 DEF TypeInv
  <2>12. BreakerInv'
    BY <1>1, <1>5, <2>8 DEF BreakerInv
  <2> QED
    BY <2>7, <2>8, <2>9, <2>10, <2>11, <2>12
<1> QED
  BY <1>4, <1>5

\* What the actions other than Poll and Restart share: one session's record
\* changes, and nothing is warmed.
OneSession(s) ==
    /\ now' = now /\ flight' \subseteq flight
    /\ \A t \in Sessions \ {s} : state'[t] = state[t]
    /\ \E r \in SessionRecord : state' = [state EXCEPT ![s] = r]
    /\ IsBacked(state'[s].warmup)
    /\ history' \in [spent : [Sessions -> Nat], begun : [Sessions -> Nat], stopped : SUBSET Sessions, tripped : BOOLEAN]
    /\ history'.stopped \subseteq history.stopped \cup {s}
    /\ s \in history'.stopped /\ state'[s].body => state'[s].warmup.disabled /\ ~state'[s].warmup.forced

\* Such a step keeps the invariant if it leaves the breaker alone.
LEMMA OneSessionInv ==
  ASSUME IInv, NEW s \in Sessions, OneSession(s), UNCHANGED <<breaker, table>>, history'.tripped = history.tripped
  PROVE  IInv'
<1>1. TypeInv'
  BY DEF IInv, TypeInv, OneSession
<1>2. HitsBacked'
  <2> SUFFICES ASSUME NEW t \in Sessions PROVE IsBacked(state'[t].warmup) /\ IsBacked(table.warmup[t])
    BY DEF HitsBacked, IsBacked
  <2>1. CASE t = s
    BY <2>1 DEF OneSession, IInv, HitsBacked
  <2>2. CASE t # s
    BY <2>2 DEF OneSession, IInv, HitsBacked
  <2> QED
    BY <2>1, <2>2
<1>3. BreakerInv'
  BY DEF IInv, BreakerInv
<1>4. StopInv'
  BY DEF OneSession, IInv, StopInv, TypeInv
<1> QED
  BY <1>1, <1>2, <1>3, <1>4 DEF IInv

\* A warm-up that was answered counts one more warm-up, and so backs one more
\* hit; a breaker that trips is saved at once.
LEMMA WarmupAnsweredInv ==
  ASSUME IInv, NEW s \in Sessions, WarmupAnswered(s)
  PROVE  IInv' /\ flight' \subseteq flight
<1>1. UNCHANGED <<now, turn, made>> /\ flight' \subseteq flight
  BY DEF WarmupAnswered
<1>2. state[s] \in SessionRecord /\ IsBacked(state[s].warmup)
  BY DEF IInv, TypeInv, HitsBacked
<1>3. PICK outcome \in {"read", "write", "neither", "refused"} :
        IF outcome = "refused" THEN UNCHANGED <<state, breaker, table, history>>
        ELSE LET b == EnsureLoaded(breaker) IN
             /\ state' = [state EXCEPT ![s].warmup.lastWarmupAt = now, ![s].warmup.count = @ + 1, ![s].warmup.total = @ + 1]
             /\ breaker' = Checked(b, outcome)
             /\ table' = IF b.tripped \/ outcome = "neither" THEN table ELSE Saved(Checked(b, outcome))
             /\ history' = [history EXCEPT !.spent[s] = @ + 1, !.tripped = @ \/ breaker'.tripped]
  BY DEF WarmupAnswered
<1>4. CASE outcome = "refused"
  BY <1>1, <1>3, <1>4 DEF IInv, TypeInv, HitsBacked, BreakerInv, StopInv, IsBacked
<1>5. CASE outcome # "refused"
  <2> DEFINE w == [state[s].warmup EXCEPT !.lastWarmupAt = now, !.count = @ + 1, !.total = @ + 1]
             r == [state[s] EXCEPT !.warmup = w]
             b == EnsureLoaded(breaker)
  <2>1. w \in WarmupRecord /\ IsBacked(w) /\ w.disabled = state[s].warmup.disabled /\ w.forced = state[s].warmup.forced
    <3> DEFINE c == state[s].warmup.count + 1
               n == state[s].warmup.total + 1
    <3>1. state[s].warmup \in WarmupRecord /\ c \in Nat /\ n \in Nat /\ now \in Nat
      BY <1>2 DEF SessionRecord, WarmupRecord, IInv, TypeInv
    <3>2. w = [state[s].warmup EXCEPT !.lastWarmupAt = now, !.count = c, !.total = n]
      OBVIOUS
    <3>3. w \in WarmupRecord /\ w.disabled = state[s].warmup.disabled /\ w.forced = state[s].warmup.forced
      <4> HIDE DEF c, n, w
      <4> QED
        BY <3>1, <3>2 DEF WarmupRecord
    <3>4. w.lastWarmupAt = now /\ w.hits = state[s].warmup.hits /\ w.total = n
      <4> HIDE DEF c, n, w
      <4> QED
        BY <3>1, <3>2 DEF WarmupRecord
    <3>5. IsBacked(w)
      <4> HIDE DEF w
      <4> QED
        BY <1>2, <3>1, <3>4 DEF IsBacked, WarmupRecord
    <3> QED
      BY <3>3, <3>5
  <2>2. state' = [state EXCEPT ![s] = r]
    BY <1>2, <1>3, <1>5 DEF SessionRecord, WarmupRecord, IInv, TypeInv
  <2>3. r \in SessionRecord /\ r.warmup = w /\ r.body = state[s].body
    <3> HIDE DEF w
    <3> QED
      BY <1>2, <2>1 DEF SessionRecord
  <2>4. state' \in [Sessions -> SessionRecord] /\ \A t \in Sessions : state'[t] = IF t = s THEN r ELSE state[t]
    <3> HIDE DEF r
    <3> QED
      BY <2>2, <2>3 DEF IInv, TypeInv
  <2>5. /\ b \in [failures : Nat, tripped : BOOLEAN, loaded : BOOLEAN]
        /\ breaker' \in [failures : Nat, tripped : BOOLEAN, loaded : BOOLEAN]
    BY <1>3, <1>5, BreakerType DEF IInv
  <2>6. /\ table' \in [warmup : [Sessions -> WarmupRecord], failures : Nat, tripped : BOOLEAN]
        /\ table'.warmup = table.warmup
        /\ table'.tripped = IF b.tripped \/ outcome = "neither" THEN table.tripped ELSE breaker'.tripped
    <3>1. breaker' = Checked(b, outcome)
      BY <1>3, <1>5
    <3>2. table' = IF b.tripped \/ outcome = "neither" THEN table ELSE Saved(breaker')
      BY <1>3, <1>5
    <3> HIDE DEF b
    <3> QED
      BY <2>5, <3>2 DEF Saved, IInv, TypeInv
  <2>7. /\ history' = [history EXCEPT !.spent[s] = @ + 1, !.tripped = @ \/ breaker'.tripped]
        /\ history' \in [spent : [Sessions -> Nat], begun : [Sessions -> Nat], stopped : SUBSET Sessions, tripped : BOOLEAN]
        /\ history'.stopped = history.stopped /\ history'.tripped = (history.tripped \/ breaker'.tripped)
    <3> DEFINE e == history.spent[s] + 1
               u == history.tripped \/ breaker'.tripped
    <3>1. history' = [history EXCEPT !.spent[s] = e, !.tripped = u]
      BY <1>3, <1>5
    <3>2. e \in Nat /\ u \in BOOLEAN
      BY <2>5 DEF IInv, TypeInv
    <3>3. /\ history' \in [spent : [Sessions -> Nat], begun : [Sessions -> Nat], stopped : SUBSET Sessions, tripped : BOOLEAN]
          /\ history'.stopped = history.stopped /\ history'.tripped = u
      <4> HIDE DEF e, u
      <4> QED
        BY <3>1, <3>2 DEF IInv, TypeInv
    <3> QED
      BY <1>3, <1>5, <3>3
  <2>8. BreakerInv'
    <3>1. (history.tripped => b.tripped) /\ (b.tripped => table.tripped)
      BY DEF EnsureLoaded, IInv, BreakerInv
    <3>2. b.tripped \/ outcome = "neither" => breaker' = b
      BY <1>3, <1>5 DEF Checked
    <3> HIDE DEF b
    <3> QED
      BY <2>5, <2>6, <2>7, <3>1, <3>2 DEF BreakerInv, IInv, TypeInv
  <2>9. HitsBacked'
    <3> SUFFICES ASSUME NEW t \in Sessions PROVE IsBacked(state'[t].warmup) /\ IsBacked(table'.warmup[t])
      BY DEF HitsBacked, IsBacked
    <3> HIDE DEF r, w
    <3> QED
      BY <2>1, <2>3, <2>4, <2>6 DEF IInv, HitsBacked
  <2>10. StopInv'
    <3> HIDE DEF r, w
    <3> QED
      BY <2>1, <2>3, <2>4, <2>7 DEF IInv, StopInv, TypeInv
  <2> QED
    BY <1>1, <2>4, <2>5, <2>6, <2>7, <2>8, <2>9, <2>10 DEF IInv, TypeInv
<1> QED
  BY <1>1, <1>4, <1>5

\* A touched session keeps its warm-up state, or gets the saved one and no body.
LEMMA TurnBeginsInv ==
  ASSUME IInv, NEW s \in Sessions, TurnBegins(s)
  PROVE  IInv' /\ flight' = flight
<1>1. Touched(s) \in SessionRecord /\ Touched(s).warmup \in {state[s].warmup, table.warmup[s]}
  BY TouchedType DEF IInv
<1>2. Touched(s).body => state[s].body /\ Touched(s).warmup = state[s].warmup
  BY DEF Touched, NotLoaded, IInv, TypeInv, SessionRecord
<1>3. state' = [state EXCEPT ![s] = Touched(s)] /\ UNCHANGED <<now, flight, breaker, table>>
  BY DEF TurnBegins
<1>4. state'[s] = Touched(s) /\ \A t \in Sessions \ {s} : state'[t] = state[t]
  BY <1>3 DEF IInv, TypeInv
<1>5. /\ history' \in [spent : [Sessions -> Nat], begun : [Sessions -> Nat], stopped : SUBSET Sessions, tripped : BOOLEAN]
      /\ history'.stopped = history.stopped /\ history'.tripped = history.tripped
  BY DEF TurnBegins, IInv, TypeInv
<1>6. OneSession(s)
  BY <1>1, <1>2, <1>3, <1>4, <1>5 DEF OneSession, IInv, HitsBacked, StopInv
<1> QED
  BY <1>3, <1>5, <1>6, OneSessionInv

\* An answered turn uses up the warm-up before it and ends the stop.
LEMMA TurnAnsweredInv ==
  ASSUME IInv, NEW s \in Sessions, TurnAnswered(s)
  PROVE  IInv' /\ flight' = flight
<1>1. PICK isTool, isLarge \in BOOLEAN :
        state' = [state EXCEPT ![s] = [@ EXCEPT !.body = TRUE, !.large = isLarge, !.tool = isTool,
                                                !.warmup = Resumed(state[s].warmup), !.dirty = TRUE]]
  BY DEF TurnAnswered
<1> DEFINE w == Resumed(state[s].warmup)
           r == [state[s] EXCEPT !.body = TRUE, !.large = isLarge, !.tool = isTool, !.warmup = w, !.dirty = TRUE]
<1>2. state[s].warmup \in WarmupRecord /\ IsBacked(state[s].warmup)
  BY DEF IInv, TypeInv, SessionRecord, HitsBacked
<1>3. w \in WarmupRecord /\ IsBacked(w)
  BY <1>2, ResumedBacked DEF IInv, TypeInv
<1>4. r \in SessionRecord /\ r.warmup = w
  <2> HIDE DEF w
  <2> QED
    BY <1>3 DEF SessionRecord, IInv, TypeInv
<1>5. state' = [state EXCEPT ![s] = r]
  BY <1>1
<1>6. UNCHANGED <<now, flight, breaker, table>> /\ history' = [history EXCEPT !.spent[s] = 0, !.begun[s] = 0, !.stopped = @ \ {s}]
  BY DEF TurnAnswered
<1>7. /\ history' \in [spent : [Sessions -> Nat], begun : [Sessions -> Nat], stopped : SUBSET Sessions, tripped : BOOLEAN]
      /\ history'.stopped = history.stopped \ {s} /\ history'.tripped = history.tripped
  BY <1>6 DEF IInv, TypeInv
<1>8. OneSession(s)
  <2> HIDE DEF r, w
  <2> QED
    BY <1>3, <1>4, <1>5, <1>6, <1>7 DEF OneSession, IInv, TypeInv
<1> QED
  BY <1>6, <1>7, <1>8, OneSessionInv

\* A compaction drops the body, of a touched session or of a known one.
LEMMA CompactionInv ==
  ASSUME IInv, NEW s \in Sessions, Compaction(s)
  PROVE  IInv' /\ flight' = flight
<1>1. Touched(s) \in SessionRecord /\ Touched(s).warmup \in {state[s].warmup, table.warmup[s]}
  BY TouchedType DEF IInv
<1>2. UNCHANGED <<now, flight, breaker, table>>
  BY DEF Compaction
<1>3. PICK x \in {Touched(s), state[s]} : state' = [state EXCEPT ![s] = [x EXCEPT !.body = FALSE]]
  <2>1. CASE state' = [state EXCEPT ![s] = [Touched(s) EXCEPT !.body = FALSE]]
    BY <2>1
  <2>2. CASE state' = [state EXCEPT ![s].body = FALSE]
    BY <2>2 DEF IInv, TypeInv
  <2> QED
    BY <2>1, <2>2 DEF Compaction
<1>4. x \in SessionRecord /\ IsBacked(x.warmup)
  BY <1>1 DEF IInv, TypeInv, HitsBacked
<1>5. [x EXCEPT !.body = FALSE] \in SessionRecord /\ [x EXCEPT !.body = FALSE].warmup = x.warmup /\ ~[x EXCEPT !.body = FALSE].body
  BY <1>4 DEF SessionRecord
<1>6. /\ history' \in [spent : [Sessions -> Nat], begun : [Sessions -> Nat], stopped : SUBSET Sessions, tripped : BOOLEAN]
      /\ history'.stopped = history.stopped /\ history'.tripped = history.tripped
  BY DEF Compaction, IInv, TypeInv
<1>7. OneSession(s)
  BY <1>2, <1>3, <1>4, <1>5, <1>6 DEF OneSession, IInv, TypeInv
<1> QED
  BY <1>2, <1>6, <1>7, OneSessionInv

\* A command sets both flags and nothing else: "stop" disables and no longer keeps.
LEMMA WarmCommandInv ==
  ASSUME IInv, NEW s \in Sessions, WarmCommand(s)
  PROVE  IInv' /\ flight' = flight
<1>1. UNCHANGED <<now, flight, breaker, table>>
  BY DEF WarmCommand
<1>2. PICK command \in {"stop", "keep", "auto"} :
        /\ state' = [state EXCEPT ![s].warmup.disabled = command = "stop", ![s].warmup.forced = command = "keep"]
        /\ history' = [history EXCEPT !.stopped = IF command = "stop" THEN @ \cup {s} ELSE @ \ {s}]
  BY DEF WarmCommand
<1> DEFINE w == [state[s].warmup EXCEPT !.disabled = command = "stop", !.forced = command = "keep"]
           r == [state[s] EXCEPT !.warmup = w]
<1>3. w \in WarmupRecord /\ IsBacked(w) /\ w.disabled = (command = "stop") /\ w.forced = (command = "keep")
  BY DEF IInv, TypeInv, HitsBacked, SessionRecord, WarmupRecord, IsBacked
<1>4. r \in SessionRecord /\ r.warmup = w
  <2> HIDE DEF w
  <2> QED
    BY <1>3 DEF SessionRecord, IInv, TypeInv
<1>5. state' = [state EXCEPT ![s] = r]
  BY <1>2 DEF IInv, TypeInv, SessionRecord, WarmupRecord
<1>6. /\ history' \in [spent : [Sessions -> Nat], begun : [Sessions -> Nat], stopped : SUBSET Sessions, tripped : BOOLEAN]
      /\ history'.stopped = (IF command = "stop" THEN history.stopped \cup {s} ELSE history.stopped \ {s})
      /\ history'.tripped = history.tripped
  BY <1>2 DEF IInv, TypeInv
<1>7. OneSession(s)
  <2> HIDE DEF r, w
  <2> QED
    BY <1>1, <1>3, <1>4, <1>5, <1>6 DEF OneSession, IInv, TypeInv
<1> QED
  BY <1>1, <1>6, <1>7, OneSessionInv

\* A restart forgets what is not in the table, the breaker's flag too.
LEMMA RestartInv == IInv /\ Restart => IInv' /\ flight' = {}
<1> SUFFICES ASSUME IInv, Restart PROVE IInv' /\ flight' = {}
  OBVIOUS
<1>1. NoWarmup \in WarmupRecord /\ IsBacked(NoWarmup)
  BY DEF NoWarmup, WarmupRecord, IsBacked
<1>2. NotLoaded \in SessionRecord /\ NotLoaded.warmup = NoWarmup /\ ~NotLoaded.body
  BY <1>1 DEF NotLoaded, SessionRecord
<1> QED
  BY <1>1, <1>2 DEF Restart, IInv, TypeInv, HitsBacked, BreakerInv, StopInv, FreshBreaker, IsBacked

\* Every step: the invariant holds after it, and what it warms.
LEMMA NextInv ==
  IInv /\ [Next]_vars =>
    /\ IInv'
    /\ history.tripped => flight' \subseteq flight
    /\ \A s \in history.stopped : s \in flight' => s \in flight
<1> SUFFICES ASSUME IInv, [Next]_vars
             PROVE  /\ IInv'
                    /\ history.tripped => flight' \subseteq flight
                    /\ \A s \in history.stopped : s \in flight' => s \in flight
  OBVIOUS
<1>1. CASE Poll
  BY <1>1, PollInv
<1>2. CASE \E s \in Sessions :
             WarmupAnswered(s) \/ TurnBegins(s) \/ TurnAnswered(s) \/ TurnFails(s) \/ Compaction(s) \/ WarmCommand(s)
  <2>1. PICK s \in Sessions :
          WarmupAnswered(s) \/ TurnBegins(s) \/ TurnAnswered(s) \/ TurnFails(s) \/ Compaction(s) \/ WarmCommand(s)
    BY <1>2
  <2>2. CASE TurnFails(s)
    BY <2>2 DEF TurnFails, IInv, TypeInv, HitsBacked, BreakerInv, StopInv, IsBacked
  <2> QED
    BY <2>1, <2>2, WarmupAnsweredInv, TurnBeginsInv, TurnAnsweredInv, CompactionInv, WarmCommandInv
<1>3. CASE Restart
  BY <1>3, RestartInv
<1>4. CASE UNCHANGED vars
  BY <1>4 DEF vars, IInv, TypeInv, HitsBacked, BreakerInv, StopInv, IsBacked
<1> QED
  BY <1>1, <1>2, <1>3, <1>4 DEF Next

\* The hit rate the profitability check uses is one of real hits: a warm-up
\* counts for one hit at most, in memory and in the table, for any interleaving
\* of warm-ups, turns, commands and restarts.
THEOREM HitsAreBacked == Spec => []HitsBacked
<1>1. IInv => HitsBacked
  BY DEF IInv
<1>2. IInv /\ [Next]_vars => IInv'
  BY NextInv
<1> QED
  BY InitInv, <1>1, <1>2, PTL DEF Spec

\* Once the breaker has tripped no warm-up is sent, by this process or a later one.
THEOREM TrippedBreakerStays == Spec => BreakerStays
<1>1. IInv /\ [Next]_vars => [history.tripped => flight' \subseteq flight]_vars
  <2> SUFFICES ASSUME IInv, [Next]_vars PROVE (history.tripped => flight' \subseteq flight)
    OBVIOUS
  <2> QED
    BY NextInv
<1>2. IInv /\ [Next]_vars => IInv'
  BY NextInv
<1> QED
  BY InitInv, <1>1, <1>2, PTL DEF Spec, BreakerStays

\* A stopped session stays cold until its next answered turn.
THEOREM StopIsHeld == Spec => StopHolds
<1>1. IInv /\ [Next]_vars => [\A s \in history.stopped : s \in flight' => s \in flight]_vars
  <2> SUFFICES ASSUME IInv, [Next]_vars PROVE \A s \in history.stopped : s \in flight' => s \in flight
    OBVIOUS
  <2> QED
    BY NextInv
<1>2. IInv /\ [Next]_vars => IInv'
  BY NextInv
<1> QED
  BY InitInv, <1>1, <1>2, PTL DEF Spec, StopHolds

(* ------------------------- The price of a break ------------------------ *)

InFlight(s) == IF s \in flight THEN 1 ELSE 0
Paid(s) == history.spent[s]
Allowed(s) == MaxCycles + history.begun[s]

\* A warm-up was sent, and answered, so late in the first window that the cooldown
\* covers the rest of it.
IsUsedUp(x) == x.warmup.lastWarmupAt # 0 /\ x.warmup.lastWarmupAt - x.last >= TTL - Margin

\* What session s has paid for, and what it may still pay for without a look at the
\* count: the one in the first window after each request, and before it the one that
\* was on its way when the request came.
Pace(s) ==
    /\ state[s].last <= now /\ (s \in flight => state[s].loaded)
    /\ Paid(s) + InFlight(s) <= Allowed(s)
    /\ state[s].body \/ s \in flight => Paid(s) <= state[s].warmup.count
    /\ state[s].body /\ s \notin flight /\ ~IsUsedUp(state[s]) => Paid(s) + 1 <= Allowed(s)
    /\ s \in flight /\ now - state[s].last < TTL - Margin => Paid(s) + 2 <= Allowed(s)

PaceInv == now >= 1 /\ \A s \in Sessions : Pace(s)

\* The margin is the last part of the lifetime: it is not reached earlier.
LEMMA MarginIsLate ==
  ASSUME NEW e \in Nat, e % TTL >= TTL - Margin
  PROVE  e >= TTL - Margin
<1>1. CASE e >= TTL
  BY <1>1, TimeAssumption
<1>2. CASE e < TTL
  <2>1. e % TTL = e
    BY <1>2, TimeAssumption
  <2> QED
    BY <2>1
<1> QED
  BY <1>1, <1>2, TimeAssumption

\* Whichever path decides, there is room for the warm-up and it is late in a window.
LEMMA WarmsWithRoom ==
  ASSUME TypeInv, 2 * Margin <= TTL, NEW s \in Sessions, Pace(s), s \notin flight,
         NEW isWorth, ShouldWarm(state[s], now + 1, isWorth)
  PROVE  /\ state[s].loaded /\ state[s].body /\ Paid(s) + 1 <= Allowed(s)
         /\ now + 1 - state[s].last >= TTL - Margin
<1> PICK x \in SessionRecord, t \in Nat : x = state[s] /\ t = now + 1
  BY DEF TypeInv
<1>1. /\ x.last \in Nat /\ x.warmup.lastWarmupAt \in Nat /\ x.warmup.count \in Nat
      /\ now \in Nat /\ history.spent[s] \in Nat /\ history.begun[s] \in Nat
      /\ MaxCycles \in Nat /\ TTL \in Nat /\ Margin \in Nat /\ Margin <= TTL
  BY LimitAssumption, TimeAssumption DEF TypeInv, SessionRecord, WarmupRecord
<1>2. x.loaded /\ x.body /\ ~CoolsDown(x, t) /\ InMargin(x, t)
      /\ (x.warmup.count < MaxCycles \/ InFirstWindow(x, t))
  BY DEF ShouldWarm, IsEligible, KeepsWarm, WarmsToolCall, Commits, Continues, HasCycles
<1>3. t - x.last \in Nat
  BY <1>1 DEF Pace
<1>4. t - x.last >= TTL - Margin
  BY <1>2, <1>3, MarginIsLate DEF InMargin, Elapsed
<1>5. CASE x.warmup.count < MaxCycles
  BY <1>1, <1>2, <1>4, <1>5 DEF Pace, Paid, Allowed
<1>6. CASE InFirstWindow(x, t)
  <2>1. ~IsUsedUp(x)
    BY <1>1, <1>2, <1>6 DEF IsUsedUp, CoolsDown, InFirstWindow, Elapsed
  <2> QED
    BY <1>1, <1>2, <1>4, <2>1 DEF Pace, IsUsedUp, Paid, Allowed
<1> QED
  BY <1>2, <1>5, <1>6

LEMMA PaceInit == 2 * Margin <= TTL /\ MaxCycles >= 2 /\ Init => PaceInv
BY LimitAssumption, TimeAssumption DEF Init, PaceInv, Pace, Paid, Allowed, InFlight, NotLoaded, NoWarmup

\* What Pace reads of a session other than the one a step is about.
Alike(t) ==
    /\ now' = now /\ state'[t] = state[t]
    /\ (t \in flight' <=> t \in flight)
    /\ history'.spent[t] = history.spent[t] /\ history'.begun[t] = history.begun[t]

LEMMA PaceKept ==
  ASSUME NEW t \in Sessions, Pace(t), Alike(t)
  PROVE  Pace(t)'
BY DEF Pace, Alike, Paid, Allowed, InFlight, IsUsedUp

\* A poll marks some sessions and warms others, those that have room for it.
LEMMA PollPace ==
  ASSUME IInv, PaceInv, 2 * Margin <= TTL, Poll
  PROVE  PaceInv'
<1>1. UNCHANGED history /\ now' = now + 1 /\ now \in Nat /\ now >= 1
  BY DEF Poll, IInv, TypeInv, PaceInv
<1> SUFFICES ASSUME NEW s \in Sessions PROVE Pace(s)'
  BY <1>1 DEF PaceInv
<1>2. Pace(s) /\ TypeInv
  BY DEF PaceInv, IInv
<1>3. /\ state[s].last \in Nat /\ state[s].warmup.lastWarmupAt \in Nat /\ state[s].warmup.count \in Nat
      /\ history.spent[s] \in Nat /\ history.begun[s] \in Nat
      /\ MaxCycles \in Nat /\ TTL \in Nat /\ Margin \in Nat
  BY <1>2, LimitAssumption, TimeAssumption DEF TypeInv, SessionRecord, WarmupRecord
<1>4. CASE UNCHANGED <<state, flight>>
  BY <1>1, <1>2, <1>3, <1>4 DEF Pace, Paid, Allowed, InFlight, IsUsedUp
<1>5. CASE ~UNCHANGED <<state, flight>>
  <2>1. PICK isWorth, isLow \in [Sessions -> BOOLEAN] :
          LET warmed == {t \in Sessions \ flight : ShouldWarm(state[t], now + 1, isWorth[t])}
              dead   == {t \in Sessions \ flight : IsEligible(state[t], now + 1) /\
                            MarksDead(state[t], now + 1, isWorth[t], isLow[t])}
              marked == [t \in Sessions |-> IF t \in dead THEN [state[t] EXCEPT !.warmup.disabled = TRUE] ELSE state[t]]
          IN  /\ flight' = flight \cup warmed
              /\ table' = Flushed(marked)
              /\ state' = [t \in Sessions |-> [marked[t] EXCEPT !.dirty = FALSE]]
    BY <1>5 DEF Poll
  <2> DEFINE dead   == {t \in Sessions \ flight : IsEligible(state[t], now + 1) /\
                            MarksDead(state[t], now + 1, isWorth[t], isLow[t])}
             marked == [t \in Sessions |-> IF t \in dead THEN [state[t] EXCEPT !.warmup.disabled = TRUE] ELSE state[t]]
  <2>2. s \in flight' => s \in flight \/ ShouldWarm(state[s], now + 1, isWorth[s])
    BY <2>1
  <2>3. s \in flight => s \in flight'
    BY <2>1
  <2>4. /\ state'[s].loaded = state[s].loaded
        /\ state'[s].last = state[s].last /\ state'[s].body = state[s].body
        /\ state'[s].warmup.count = state[s].warmup.count
        /\ state'[s].warmup.lastWarmupAt = state[s].warmup.lastWarmupAt
    <3>1. state[s] \in SessionRecord
      BY <1>2 DEF TypeInv
    <3>2. marked[s] \in {state[s], [state[s] EXCEPT !.warmup.disabled = TRUE]}
      OBVIOUS
    <3> HIDE DEF dead, marked
    <3>3. state'[s] = [marked[s] EXCEPT !.dirty = FALSE]
      BY <2>1 DEF dead, marked
    <3> QED
      BY <3>1, <3>2, <3>3 DEF SessionRecord, WarmupRecord
  <2>5. CASE s \in flight' /\ s \notin flight
    <3>1. /\ state[s].loaded /\ state[s].body /\ history.spent[s] + 1 <= MaxCycles + history.begun[s]
          /\ now + 1 - state[s].last >= TTL - Margin
      BY <1>2, <2>2, <2>5, WarmsWithRoom DEF Paid, Allowed
    <3> QED
      BY <1>1, <1>2, <1>3, <2>4, <2>5, <3>1 DEF Pace, Paid, Allowed, InFlight, IsUsedUp
  <2>6. CASE s \in flight' <=> s \in flight
    BY <1>1, <1>2, <1>3, <2>4, <2>6 DEF Pace, Paid, Allowed, InFlight, IsUsedUp
  <2> QED
    BY <2>3, <2>5, <2>6
<1> QED
  BY <1>4, <1>5

\* One session's record and account change, of which the step says enough to keep
\* its pace.
LEMMA OnePace ==
  ASSUME PaceInv, NEW s \in Sessions, now' = now, Pace(s)', \A t \in Sessions \ {s} : Alike(t)
  PROVE  PaceInv'
BY PaceKept DEF PaceInv

\* A warm-up that was answered is paid, whatever happened to its session meanwhile.
LEMMA WarmupAnsweredPace ==
  ASSUME IInv, PaceInv, NEW s \in Sessions, WarmupAnswered(s)
  PROVE  PaceInv'
<1> USE DEF IInv
<1>1. /\ now' = now /\ now \in Nat /\ now >= 1 /\ Pace(s) /\ s \in flight /\ flight' = flight \ {s}
      /\ state \in [Sessions -> SessionRecord]
  BY DEF WarmupAnswered, TypeInv, PaceInv
<1>2. /\ state[s].last \in Nat /\ state[s].warmup.lastWarmupAt \in Nat /\ state[s].warmup.count \in Nat
      /\ history.spent[s] \in Nat /\ history.begun[s] \in Nat
      /\ MaxCycles \in Nat /\ TTL \in Nat /\ Margin \in Nat
  BY LimitAssumption, TimeAssumption DEF TypeInv, SessionRecord, WarmupRecord
<1>3. CASE UNCHANGED <<state, history>>
  <2>1. Pace(s)'
    BY <1>1, <1>2, <1>3 DEF Pace, Paid, Allowed, InFlight, IsUsedUp
  <2>2. \A t \in Sessions \ {s} : Alike(t)
    BY <1>1, <1>3 DEF Alike
  <2> QED
    BY <1>1, <2>1, <2>2, OnePace
<1>4. CASE \E trips : /\ state' = [state EXCEPT ![s].warmup.lastWarmupAt = now, ![s].warmup.count = @ + 1, ![s].warmup.total = @ + 1]
                      /\ history' = [history EXCEPT !.spent[s] = @ + 1, !.tripped = trips]
  <2> DEFINE c == state[s].warmup.count + 1
             w == [state[s].warmup EXCEPT !.lastWarmupAt = now, !.count = c, !.total = @ + 1]
             r == [state[s] EXCEPT !.warmup = w]
  <2>1. state' = [state EXCEPT ![s] = r]
    BY <1>1, <1>4 DEF SessionRecord, WarmupRecord
  <2>2. w.lastWarmupAt = now /\ w.count = c
    <3> HIDE DEF c
    <3> QED
      BY <1>1 DEF SessionRecord, WarmupRecord
  <2>3. r.loaded = state[s].loaded /\ r.last = state[s].last /\ r.body = state[s].body /\ r.warmup = w
    <3> HIDE DEF w
    <3> QED
      BY <1>1 DEF SessionRecord
  <2>4. /\ history'.spent[s] = history.spent[s] + 1 /\ history'.begun = history.begun
        /\ \A t \in Sessions \ {s} : history'.spent[t] = history.spent[t]
    BY <1>4 DEF TypeInv
  <2>5. state'[s] = r /\ \A t \in Sessions \ {s} : state'[t] = state[t]
    <3> HIDE DEF r
    <3> QED
      BY <1>1, <2>1
  <2> HIDE DEF r, w
  <2>6. Pace(s)'
    BY <1>1, <1>2, <2>2, <2>3, <2>4, <2>5 DEF Pace, Paid, Allowed, InFlight, IsUsedUp
  <2>7. \A t \in Sessions \ {s} : Alike(t)
    BY <1>1, <2>4, <2>5 DEF Alike
  <2> QED
    BY <1>1, <2>6, <2>7, OnePace
<1> QED
  BY <1>3, <1>4 DEF WarmupAnswered

\* A request opens a new first window, and allows one more warm-up.
LEMMA TouchedPace ==
  ASSUME IInv, PaceInv, NEW s \in Sessions, NEW x \in {Touched(s), [Touched(s) EXCEPT !.body = FALSE]},
         state' = [state EXCEPT ![s] = x], history' = [history EXCEPT !.begun[s] = @ + 1],
         UNCHANGED <<now, flight>>
  PROVE  PaceInv'
<1> USE DEF IInv
<1>1. now \in Nat /\ now >= 1 /\ Pace(s) /\ state \in [Sessions -> SessionRecord]
  BY DEF TypeInv, PaceInv
<1>2. /\ state[s].last \in Nat /\ state[s].warmup.lastWarmupAt \in Nat /\ state[s].warmup.count \in Nat
      /\ history.spent[s] \in Nat /\ history.begun[s] \in Nat
      /\ MaxCycles \in Nat /\ TTL \in Nat /\ Margin \in Nat
  BY LimitAssumption, TimeAssumption DEF TypeInv, SessionRecord, WarmupRecord
<1>3. /\ Touched(s) \in SessionRecord /\ Touched(s).last = now /\ Touched(s).loaded
      /\ state[s].loaded => Touched(s).warmup = state[s].warmup /\ Touched(s).body = state[s].body
      /\ ~state[s].loaded => ~Touched(s).body
  BY <1>1, TouchedType DEF Touched, NotLoaded, SessionRecord
<1>4. x.loaded /\ x.last = now /\ x.warmup = Touched(s).warmup /\ (x.body => Touched(s).body)
  BY <1>3 DEF SessionRecord
<1>5. /\ history'.begun[s] = history.begun[s] + 1 /\ history'.spent = history.spent
      /\ \A t \in Sessions \ {s} : history'.begun[t] = history.begun[t]
  BY DEF TypeInv
<1>6. state'[s] = x /\ \A t \in Sessions \ {s} : state'[t] = state[t]
  BY <1>1
<1>7. s \in flight => state[s].loaded
  BY <1>1 DEF Pace
<1>8. Pace(s)'
  BY <1>1, <1>2, <1>3, <1>4, <1>5, <1>6, <1>7 DEF Pace, Paid, Allowed, InFlight, IsUsedUp
<1>9. \A t \in Sessions \ {s} : Alike(t)
  BY <1>5, <1>6 DEF Alike
<1> QED
  BY <1>8, <1>9, OnePace

\* An answer closes the account.  The warm-up that is on its way counts for the next
\* break, and may be followed by one in that break's first window: hence two.
LEMMA TurnAnsweredPace ==
  ASSUME IInv, PaceInv, MaxCycles >= 2, NEW s \in Sessions, TurnAnswered(s)
  PROVE  PaceInv'
<1> USE DEF IInv
<1>1. /\ UNCHANGED <<now, flight>> /\ now \in Nat /\ now >= 1 /\ Pace(s)
      /\ state \in [Sessions -> SessionRecord]
      /\ history' = [history EXCEPT !.spent[s] = 0, !.begun[s] = 0, !.stopped = @ \ {s}]
  BY DEF TurnAnswered, TypeInv, PaceInv
<1>2. PICK isTool, isLarge \in BOOLEAN :
        state' = [state EXCEPT ![s] = [@ EXCEPT !.body = TRUE, !.large = isLarge, !.tool = isTool,
                                                !.warmup = Resumed(state[s].warmup), !.dirty = TRUE]]
  BY DEF TurnAnswered
<1> DEFINE w == Resumed(state[s].warmup)
           r == [state[s] EXCEPT !.body = TRUE, !.large = isLarge, !.tool = isTool, !.warmup = w, !.dirty = TRUE]
<1>3. w \in WarmupRecord
  BY <1>1, ResumedBacked DEF SessionRecord
<1>4. r.loaded = state[s].loaded /\ r.last = state[s].last /\ r.warmup = w
  <2> HIDE DEF w
  <2> QED
    BY <1>1 DEF SessionRecord
<1>5. /\ history'.spent[s] = 0 /\ history'.begun[s] = 0
      /\ \A t \in Sessions \ {s} : history'.spent[t] = history.spent[t] /\ history'.begun[t] = history.begun[t]
  BY <1>1 DEF TypeInv
<1>6. state' = [state EXCEPT ![s] = r]
  BY <1>2
<1>7. w.count \in Nat /\ MaxCycles \in Nat /\ TTL \in Nat /\ Margin \in Nat /\ state[s].last \in Nat
  BY <1>1, <1>3, LimitAssumption, TimeAssumption DEF WarmupRecord, SessionRecord
<1> HIDE DEF r, w
<1>8. state'[s] = r /\ \A t \in Sessions \ {s} : state'[t] = state[t]
  BY <1>1, <1>6
<1>9. Pace(s)'
  BY <1>1, <1>4, <1>5, <1>7, <1>8 DEF Pace, Paid, Allowed, InFlight, IsUsedUp
<1>10. \A t \in Sessions \ {s} : Alike(t)
  BY <1>1, <1>5, <1>8 DEF Alike
<1> QED
  BY <1>1, <1>9, <1>10, OnePace

\* A compaction takes the body away, with or without a request that moves the clock.
LEMMA CompactionPace ==
  ASSUME IInv, PaceInv, NEW s \in Sessions, Compaction(s)
  PROVE  PaceInv'
<1>1. UNCHANGED <<now, flight>> /\ state \in [Sessions -> SessionRecord] /\ Pace(s)
  BY DEF Compaction, IInv, TypeInv, PaceInv
<1>2. CASE /\ state' = [state EXCEPT ![s] = [Touched(s) EXCEPT !.body = FALSE]]
           /\ history' = [history EXCEPT !.begun[s] = @ + 1]
  BY <1>1, <1>2, TouchedPace
<1>3. CASE state' = [state EXCEPT ![s].body = FALSE] /\ UNCHANGED history
  <2>1. /\ state'[s] = [state[s] EXCEPT !.body = FALSE]
        /\ \A t \in Sessions \ {s} : state'[t] = state[t]
    BY <1>1, <1>3
  <2>2. /\ state'[s].loaded = state[s].loaded /\ state'[s].last = state[s].last
        /\ state'[s].warmup = state[s].warmup /\ ~state'[s].body
    BY <1>1, <2>1 DEF SessionRecord
  <2>3. Pace(s)'
    BY <1>1, <1>3, <2>2 DEF Pace, Paid, Allowed, InFlight, IsUsedUp
  <2>4. \A t \in Sessions \ {s} : Alike(t)
    BY <1>1, <1>3, <2>1 DEF Alike
  <2> QED
    BY <1>1, <2>3, <2>4, OnePace
<1> QED
  BY <1>2, <1>3 DEF Compaction

\* A command moves no clock and counts nothing.
LEMMA WarmCommandPace ==
  ASSUME IInv, PaceInv, NEW s \in Sessions, WarmCommand(s)
  PROVE  PaceInv'
<1>1. /\ UNCHANGED <<now, flight>> /\ state \in [Sessions -> SessionRecord] /\ Pace(s)
      /\ UNCHANGED <<history.spent, history.begun>>
  BY DEF WarmCommand, IInv, TypeInv, PaceInv
<1>2. PICK command :
        state' = [state EXCEPT ![s].warmup.disabled = command = "stop", ![s].warmup.forced = command = "keep"]
  BY DEF WarmCommand
<1> DEFINE w == [state[s].warmup EXCEPT !.disabled = command = "stop", !.forced = command = "keep"]
<1>3. /\ state'[s] = [state[s] EXCEPT !.warmup = w] /\ \A t \in Sessions \ {s} : state'[t] = state[t]
  BY <1>1, <1>2 DEF SessionRecord, WarmupRecord
<1>4. w.count = state[s].warmup.count /\ w.lastWarmupAt = state[s].warmup.lastWarmupAt
  BY <1>1 DEF SessionRecord, WarmupRecord
<1> HIDE DEF w
<1>5. /\ state'[s].loaded = state[s].loaded /\ state'[s].last = state[s].last
      /\ state'[s].warmup = w /\ state'[s].body = state[s].body
  BY <1>1, <1>3 DEF SessionRecord
<1>6. Pace(s)'
  BY <1>1, <1>4, <1>5 DEF Pace, Paid, Allowed, InFlight, IsUsedUp
<1>7. \A t \in Sessions \ {s} : Alike(t)
  BY <1>1, <1>3 DEF Alike
<1> QED
  BY <1>1, <1>6, <1>7, OnePace

LEMMA PaceNext ==
  ASSUME 2 * Margin <= TTL, MaxCycles >= 2, IInv, PaceInv, [Next]_vars
  PROVE  PaceInv'
<1>1. ASSUME NEW s \in Sessions, TurnBegins(s) PROVE PaceInv'
  BY <1>1, TouchedPace DEF TurnBegins
<1>2. CASE Restart
  <2>1. /\ now' = now /\ UNCHANGED history /\ flight' = {}
        /\ \A s \in Sessions : state'[s].last = 0 /\ ~state'[s].body
    BY <1>2 DEF Restart, NotLoaded
  <2>2. now \in Nat /\ MaxCycles \in Nat /\ \A s \in Sessions : history.spent[s] \in Nat /\ history.begun[s] \in Nat
    BY LimitAssumption DEF IInv, TypeInv
  <2> QED
    BY <2>1, <2>2 DEF PaceInv, Pace, Paid, Allowed, InFlight
<1>3. CASE UNCHANGED <<now, state, flight, history>>
  BY <1>3 DEF PaceInv, Pace, Paid, Allowed, InFlight, IsUsedUp
<1> QED
  BY <1>1, <1>2, <1>3, PollPace, WarmupAnsweredPace, TurnAnsweredPace, CompactionPace, WarmCommandPace
  DEF Next, vars, TurnFails

\* Between two answered turns a session pays for no more than MaxCycles warm-ups and
\* one for each request that moved its clock.  buildAnthropicProfile's margins are far
\* less than half of the lifetime; that two cycles are profitable is a matter of
\* prices, and with one the bound is missed by one (a warm-up that answers late, then
\* one in the first window, which does not look at the count).
THEOREM CyclesAreBounded ==
  ASSUME 2 * Margin <= TTL, MaxCycles >= 2
  PROVE  Spec => []CyclesBounded
<1>1. Init => PaceInv
  BY PaceInit
<1>2. IInv /\ PaceInv /\ [Next]_vars => PaceInv'
  BY PaceNext
<1>3. IInv /\ PaceInv => CyclesBounded
  <2> SUFFICES ASSUME IInv, PaceInv, NEW s \in Sessions PROVE history.spent[s] <= MaxCycles + history.begun[s]
    BY DEF CyclesBounded
  <2>1. history.spent[s] \in Nat /\ history.begun[s] \in Nat /\ MaxCycles \in Nat
    BY LimitAssumption DEF IInv, TypeInv
  <2> QED
    BY <2>1 DEF PaceInv, Pace, Paid, Allowed, InFlight
<1>4. IInv /\ [Next]_vars => IInv'
  BY NextInv
<1> QED
  BY InitInv, <1>1, <1>2, <1>3, <1>4, PTL DEF Spec

=============================================================================
