--------------------------- MODULE GradientProofs ---------------------------
(* Theorems about Gradient and GradientHistory, for every value of their    *)
(* constants.  Five inductive invariants, each resting on those before it:  *)
(*   ForceInv   the forced layer in memory is the one on disk,              *)
(*              THEOREM ForcedHonoured;                                     *)
(*   PrefixInv  what the prefix cache holds is what its count and last row  *)
(*              stand for, THEOREM PrefixComplete;                          *)
(*   TypedInv   the quantities a turn computes with are numbers, and its    *)
(*              conversation is well formed;                                *)
(*   HistInv    what a session remembers of its last window and answer,     *)
(*              against the history, THEOREMs GrowingTurn and NoBouncing;   *)
(*   FitsInv    what a compressed request weighs, THEOREM WindowsFit.       *)
EXTENDS GradientHistory, FiniteSetTheorems, SequenceTheorems, TLAPS

-----------------------------------------------------------------------------
(* The inductive invariant: the forced layer in memory is the one on disk.  *)

\* A session's state was read from the table and is written through to it.
InStep(s) == "force" \in DOMAIN ses[s] /\ ses[s].force = saved[s].force

OnDisk(s) == "force" \in DOMAIN saved[s] /\ saved[s].force \in {0, 2}

Shaped(r) ==
    /\ {"pc", "s", "layer"} \subseteq DOMAIN req[r]
    /\ req[r].s \in Sessions

ForceInv ==
    /\ ses = [s \in Sessions |-> ses[s]]
    /\ saved = [s \in Sessions |-> saved[s]]
    /\ req = [r \in Requests |-> req[r]]
    /\ \A s \in Sessions : OnDisk(s) /\ (ses[s] = NoState \/ InStep(s))
    /\ \A r \in Requests : Shaped(r) /\ (Active(r) => InStep(req[r].s))

-----------------------------------------------------------------------------
(* The layer a request is given.                                           *)

LEMMA MaxOfThree ==
    ASSUME NEW a \in Int, NEW b \in Int, NEW c \in Int
    PROVE  Max({a, b, c}) \in Int /\ Max({a, b, c}) >= a
<1>1. PICK x \in {a, b, c} : \A y \in {a, b, c} : x >= y
  <2>1. CASE a >= b /\ a >= c
    BY <2>1
  <2>2. CASE b >= a /\ b >= c
    BY <2>2
  <2>3. CASE c >= a /\ c >= b
    BY <2>3
  <2>. QED BY <2>1, <2>2, <2>3
<1>2. Max({a, b, c}) \in {a, b, c} /\ \A y \in {a, b, c} : Max({a, b, c}) >= y
  BY <1>1 DEF Max
<1>. QED BY <1>2

LEMMA MinOfLayers ==
    ASSUME NEW S \in SUBSET (1 .. 4), 4 \in S
    PROVE  Min(S) \in S
<1>1. \E x \in S : \A y \in S : x =< y
  <2>1. CASE 1 \in S
    BY <2>1
  <2>2. CASE 1 \notin S /\ 2 \in S
    BY <2>2
  <2>3. CASE 1 \notin S /\ 2 \notin S /\ 3 \in S
    BY <2>3
  <2>4. CASE 1 \notin S /\ 2 \notin S /\ 3 \notin S
    BY <2>4
  <2>. QED BY <2>1, <2>2, <2>3, <2>4
<1>. QED BY <1>1 DEF Min

\* A request that was forced to a layer is given that layer or a higher one.
LEMMA LayerAtLeastForced ==
    ASSUME NEW st, NEW c, NEW d, NEW n, st.force \in {0, 2}
    PROVE  LayerFor(st, c, d, n) \in 0 .. 4 /\ LayerFor(st, c, d, n) >= st.force
<1>1. StickyLayer(st, c) \in 0 .. 3
  BY DEF StickyLayer
<1>2. MinLayer(st, c) \in Int /\ MinLayer(st, c) >= st.force
  <2>. DEFINE idle == IF st.compact THEN 1 ELSE 0
  <2>1. idle \in Int /\ st.force \in Int /\ StickyLayer(st, c) \in Int
    BY <1>1
  <2>2. MinLayer(st, c) = Max({st.force, StickyLayer(st, c), idle})
    BY DEF MinLayer
  <2>. HIDE DEF idle
  <2>. QED BY <2>1, <2>2, MaxOfThree
<1>3. CASE PassesThrough(st, c)
  BY <1>2, <1>3 DEF PassesThrough, LayerFor
<1>4. CASE ~PassesThrough(st, c)
  <2>. DEFINE fitting == {layer \in 1 .. 3 : layer >= MinLayer(st, c) /\ StageFits(st, d, layer, n)}
  <2>1. LayerFor(st, c, d, n) = Min({4} \cup fitting)
    BY <1>4 DEF LayerFor
  <2>2. Min({4} \cup fitting) \in {4} \cup fitting
    BY MinOfLayers
  <2>. QED BY <1>2, <2>1, <2>2
<1>. QED BY <1>3, <1>4

-----------------------------------------------------------------------------
(* Every step keeps the invariant, and only a transform spends a force.     *)

\* What a step does to the forced layers: it keeps them, or it is a transform
\* at that layer or above.
Spends ==
    \A s \in Sessions :
        saved[s].force > saved'[s].force =>
           \E r \in Requests : req[r].pc = "ltm" /\ Sent(r)' /\ req[r].s = s
                               /\ req'[r].layer >= saved[s].force

LEMMA InitForce == Init => ForceInv
<1>. SUFFICES ASSUME Init PROVE ForceInv
  OBVIOUS
<1>1. \A s \in Sessions : OnDisk(s) /\ ses[s] = NoState
  BY DEF Init, OnDisk
<1>2. \A r \in Requests : Shaped(r) /\ ~Active(r)
  <2>1. {"pc", "s", "layer"} \subseteq DOMAIN NoRequest /\ NoRequest.pc = "idle"
    BY DEF NoRequest
  <2>2. Sessions # {} => NoRequest.s \in Sessions
    BY DEF NoRequest
  <2>. QED BY <2>1, <2>2, GradientAssumption DEF Init, Shaped, Active
<1>. QED BY <1>1, <1>2 DEF Init, ForceInv

\* A step that leaves the forced layers of the table alone spends none.
LEMMA NothingSpent ==
    ASSUME ForceInv, \A s \in Sessions : saved'[s].force = saved[s].force
    PROVE  Spends
<1>1. \A s \in Sessions : ~(saved[s].force > saved'[s].force)
  BY DEF ForceInv, OnDisk
<1>. QED BY <1>1 DEF Spends

LEMMA ArriveKeeps ==
    ASSUME ForceInv, NEW r \in Requests, NEW s \in Sessions, NEW m, NEW c, NEW warm,
           Arrive(r, s, m, c, warm)
    PROVE  ForceInv' /\ Spends
<1>. DEFINE st == GetSessionState(s)
            next == IF st.at # "old" THEN st
                    ELSE [st EXCEPT !.snapshot = NoSnapshot, !.prefix = NoPrefix,
                                    !.pin = NoPin, !.compact = ~warm]
            asked == [NoRequest EXCEPT !.pc = "ltm", !.s = s, !.m = m, !.conv = c]
<1>1. "force" \in DOMAIN st /\ st.force = saved[s].force
  <2>1. CASE ses[s] # NoState
    BY <2>1 DEF ForceInv, InStep, GetSessionState
  <2>2. CASE ses[s] = NoState
    BY <2>2 DEF GetSessionState, FreshState
  <2>. QED BY <2>1, <2>2
<1>. HIDE DEF st
<1>2. "force" \in DOMAIN next /\ next.force = saved[s].force
  BY <1>1
<1>3. ses' = [ses EXCEPT ![s] = next]
  BY DEF Arrive, st
<1>. HIDE DEF next
<1>4. {"pc", "s", "layer"} \subseteq DOMAIN asked /\ asked.s = s
  BY DEF NoRequest
<1>5. req' = [req EXCEPT ![r] = asked] /\ saved' = saved
  BY DEF Arrive
<1>. HIDE DEF asked
<1>6. \A t \in Sessions : OnDisk(t)' /\ (ses[t] = NoState \/ InStep(t))'
  BY <1>2, <1>3, <1>5 DEF ForceInv, OnDisk, InStep
<1>7. \A q \in Requests : Shaped(q)' /\ (Active(q) => InStep(req[q].s))'
  BY <1>2, <1>3, <1>4, <1>5 DEF ForceInv, Shaped, Active, InStep
<1>8. Spends
  BY <1>5, NothingSpent
<1>. QED BY <1>3, <1>5, <1>6, <1>7, <1>8 DEF ForceInv

\* What a conversation is cut to at a layer.
StartAt(st, c, layer, n) ==
    IF layer = 0 THEN 1
    ELSE WindowStart(st, IF layer = 4 THEN c ELSE DeduplicateToolOutputs(c), layer, n)

\* The state a transform starts from, and what it decides.
TurnState(r, ltm)    == [ses[req[r].s] EXCEPT !.ltm = ltm]
TurnSnapshot(r, ltm) == SnapshotFor(TurnState(r, ltm), req[r].s, req[r].conv)
TurnRows(r, ltm)     == Len(TurnSnapshot(r, ltm).rows)
TurnLayer(r, ltm) ==
    LayerFor(TurnState(r, ltm), req[r].conv, DeduplicateToolOutputs(req[r].conv), TurnRows(r, ltm))
TurnFirst(r, ltm) == StartAt(TurnState(r, ltm), req[r].conv, TurnLayer(r, ltm), TurnRows(r, ltm))
TurnShown(r, ltm) == IF TurnLayer(r, ltm) = 0 THEN 0 ELSE RowsShown(TurnLayer(r, ltm), TurnRows(r, ltm))
TurnEdited(r, ltm) ==
    IF TurnLayer(r, ltm) \in 1 .. 3
    THEN Repeated(req[r].conv, CurrentTurnStart(req[r].conv)) \cup Stripped(req[r].conv, TurnLayer(r, ltm))
    ELSE {}
TurnTokens(r, ltm) ==
    IF TurnLayer(r, ltm) = 0 THEN PassedTokens(TurnState(r, ltm), req[r].conv)
    ELSE PrefixTokens(TurnShown(r, ltm))
         + Tokens(IF TurnLayer(r, ltm) = 4 THEN req[r].conv ELSE DeduplicateToolOutputs(req[r].conv),
                  TurnFirst(r, ltm))

\* What a transform writes to the session ("new") and to the request ("sent").
LEMMA TransformWrites ==
    ASSUME NEW r \in Requests, NEW ltm, Transform(r, ltm)
    PROVE  \E new, sent :
              /\ ses' = [ses EXCEPT ![req[r].s] = new] /\ req' = [req EXCEPT ![r] = sent]
              /\ DOMAIN new = DOMAIN ses[req[r].s] /\ DOMAIN sent = DOMAIN req[r]
              /\ "force" \in DOMAIN new => new.force = 0
              /\ "snapshot" \in DOMAIN new =>
                    new.snapshot = IF TurnLayer(r, ltm) = 0 THEN ses[req[r].s].snapshot
                                   ELSE TurnSnapshot(r, ltm)
              /\ "prefix" \in DOMAIN new =>
                    new.prefix = IF TurnLayer(r, ltm) = 0 THEN ses[req[r].s].prefix
                                 ELSE PrefixFor(TurnState(r, ltm), TurnSnapshot(r, ltm).rows)
              /\ "pin" \in DOMAIN new =>
                    new.pin = PinFor(TurnState(r, ltm), DeduplicateToolOutputs(req[r].conv),
                                     TurnLayer(r, ltm), TurnRows(r, ltm), TurnFirst(r, ltm))
              /\ "pc" \in DOMAIN sent => sent.pc = IF TurnLayer(r, ltm) = 4 THEN "refresh" ELSE "waiting"
              /\ "s" \in DOMAIN sent => sent.s = req[r].s
              /\ "conv" \in DOMAIN sent => sent.conv = req[r].conv
              /\ "layer" \in DOMAIN sent => sent.layer = TurnLayer(r, ltm)
              /\ "first" \in DOMAIN sent => sent.first = TurnFirst(r, ltm)
              /\ "rewritten" \in DOMAIN sent =>
                    sent.rewritten = {i \in TurnEdited(r, ltm) : i >= TurnFirst(r, ltm)}
              /\ "layer" \in DOMAIN new => new.layer = TurnLayer(r, ltm)
              /\ "ltm" \in DOMAIN new => new.ltm = ltm
              /\ "estimate" \in DOMAIN new => new.estimate = TurnTokens(r, ltm)
              /\ "sent" \in DOMAIN new =>
                    new.sent = Len(req[r].conv) - TurnFirst(r, ltm) + 1
                               + (IF TurnShown(r, ltm) > 0 THEN 2 ELSE 0)
              /\ \A f \in {"known", "knownLtm", "count"} : f \in DOMAIN new => new[f] = ses[req[r].s][f]
              /\ "m" \in DOMAIN sent => sent.m = req[r].m
              /\ "tokens" \in DOMAIN sent => sent.tokens = TurnTokens(r, ltm)
              /\ "calibrated" \in DOMAIN sent => sent.calibrated = Calibrated(TurnState(r, ltm))
              /\ "input" \in DOMAIN sent =>
                    sent.input = PrefixTokens(TurnShown(r, ltm))
                                 + Tokens(Annotated(req[r].conv, TurnEdited(r, ltm)), TurnFirst(r, ltm))
<1>. DEFINE s      == req[r].s
            c      == req[r].conv
            st     == TurnState(r, ltm)
            d      == DeduplicateToolOutputs(c)
            snap   == TurnSnapshot(r, ltm)
            n      == TurnRows(r, ltm)
            layer  == TurnLayer(r, ltm)
            first  == TurnFirst(r, ltm)
            shown  == TurnShown(r, ltm)
            edited == TurnEdited(r, ltm)
            tokens == TurnTokens(r, ltm)
            window == MessageIds(c, first)
            size   == Len(c) - first + 1 + (IF shown > 0 THEN 2 ELSE 0)
            kept   == IF layer = 0 THEN st.snapshot ELSE snap
            prefix == IF layer = 0 THEN st.prefix ELSE PrefixFor(st, snap.rows)
            pin    == PinFor(st, d, layer, n, first)
            new    == [st EXCEPT !.force = 0, !.compact = FALSE, !.layer = layer,
                                 !.window = window, !.sent = size, !.estimate = tokens,
                                 !.at = "recent", !.snapshot = kept, !.prefix = prefix,
                                 !.pin = pin]
            pc     == IF layer = 4 THEN "refresh" ELSE "waiting"
            behind == shown > 0
            marked == {i \in edited : i >= first}
            input  == PrefixTokens(shown) + Tokens(Annotated(c, edited), first)
            sure   == Calibrated(st)
            sent   == [req[r] EXCEPT !.pc = pc, !.layer = layer, !.first = first,
                                     !.prefixed = behind, !.rewritten = marked,
                                     !.tokens = tokens, !.input = input, !.calibrated = sure]
<1>1. ses' = [ses EXCEPT ![s] = new]
  BY Zenon DEF Transform, TurnState, TurnSnapshot, TurnRows, TurnLayer, TurnFirst, TurnShown, TurnEdited, TurnTokens, StartAt
<1>2. req' = [req EXCEPT ![r] = sent]
  BY Zenon DEF Transform, TurnState, TurnSnapshot, TurnRows, TurnLayer, TurnFirst, TurnShown, TurnEdited, TurnTokens, StartAt
<1>3. DOMAIN st = DOMAIN ses[s] /\ ("ltm" \in DOMAIN st => st.ltm = ltm) /\ \A f \in DOMAIN ses[s] : f # "ltm" => st[f] = ses[s][f]
  BY DEF TurnState
<1>4. kept = IF layer = 0 THEN st.snapshot ELSE snap
  OBVIOUS
<1>5. prefix = IF layer = 0 THEN st.prefix ELSE PrefixFor(st, snap.rows)
  OBVIOUS
<1>6. marked = {i \in edited : i >= first} /\ pin = PinFor(st, d, layer, n, first)
  OBVIOUS
<1>. HIDE DEF st, window, size, tokens, kept, prefix, pin, layer, pc, first, behind, marked, input, sure, edited, d, n, snap
<1>7. /\ DOMAIN new = DOMAIN st
      /\ "force" \in DOMAIN new => new.force = 0
      /\ "snapshot" \in DOMAIN new => new.snapshot = kept
      /\ "prefix" \in DOMAIN new => new.prefix = prefix
      /\ "pin" \in DOMAIN new => new.pin = pin
      /\ "layer" \in DOMAIN new => new.layer = layer
      /\ "estimate" \in DOMAIN new => new.estimate = tokens
      /\ "sent" \in DOMAIN new => new.sent = size
      /\ \A f \in {"known", "knownLtm", "count", "ltm"} : f \in DOMAIN new => new[f] = st[f]
  OBVIOUS
<1>8. /\ DOMAIN sent = DOMAIN req[r]
      /\ "pc" \in DOMAIN sent => sent.pc = pc
      /\ "s" \in DOMAIN sent => sent.s = s
      /\ "conv" \in DOMAIN sent => sent.conv = c
      /\ "layer" \in DOMAIN sent => sent.layer = layer
      /\ "first" \in DOMAIN sent => sent.first = first
      /\ "rewritten" \in DOMAIN sent => sent.rewritten = marked
      /\ "m" \in DOMAIN sent => sent.m = req[r].m
      /\ "tokens" \in DOMAIN sent => sent.tokens = tokens
      /\ "calibrated" \in DOMAIN sent => sent.calibrated = sure
      /\ "input" \in DOMAIN sent => sent.input = input
  OBVIOUS
<1>. HIDE DEF new, sent
<1>9. "snapshot" \in DOMAIN new => kept = IF layer = 0 THEN ses[s].snapshot ELSE snap
  BY <1>3, <1>4, <1>7
<1>10. "prefix" \in DOMAIN new => prefix = IF layer = 0 THEN ses[s].prefix ELSE PrefixFor(st, snap.rows)
  BY <1>3, <1>5, <1>7
<1>11. /\ "ltm" \in DOMAIN new => new.ltm = ltm
       /\ \A f \in {"known", "knownLtm", "count"} : f \in DOMAIN new => new[f] = ses[s][f]
  BY <1>3, <1>7
<1>12. WITNESS new, sent
<1>. QED
  BY <1>1, <1>2, <1>3, <1>6, <1>7, <1>8, <1>9, <1>10, <1>11
     DEF st, d, layer, n, snap, first, pc, edited, tokens, size, input, sure, shown

LEMMA TransformKeeps ==
    ASSUME ForceInv, NEW r \in Requests, NEW ltm, Transform(r, ltm)
    PROVE  ForceInv' /\ Spends
<1>. DEFINE s     == req[r].s
            layer == TurnLayer(r, ltm)
<1>1. s \in Sessions /\ InStep(s) /\ req[r].pc = "ltm"
  BY DEF ForceInv, Transform, Shaped, Active
<1>2. layer \in 0 .. 4 /\ layer >= saved[s].force
  <2>1. TurnState(r, ltm).force = saved[s].force /\ saved[s].force \in {0, 2}
    BY <1>1 DEF InStep, ForceInv, OnDisk, TurnState
  <2>. QED BY <2>1, LayerAtLeastForced DEF TurnLayer
<1>. HIDE DEF layer
<1>3. PICK new, sent :
        /\ ses' = [ses EXCEPT ![s] = new] /\ req' = [req EXCEPT ![r] = sent]
        /\ DOMAIN new = DOMAIN ses[s] /\ DOMAIN sent = DOMAIN req[r]
        /\ "force" \in DOMAIN new => new.force = 0
        /\ "pc" \in DOMAIN sent => sent.pc = IF layer = 4 THEN "refresh" ELSE "waiting"
        /\ "s" \in DOMAIN sent => sent.s = s
        /\ "layer" \in DOMAIN sent => sent.layer = layer
  BY TransformWrites DEF layer
<1>4. "force" \in DOMAIN new /\ new.force = 0
  BY <1>1, <1>3 DEF InStep
<1>5. /\ {"pc", "s", "layer"} \subseteq DOMAIN sent
      /\ sent.pc \in {"refresh", "waiting"} /\ sent.s = s /\ sent.layer = layer
  BY <1>3 DEF ForceInv, Shaped
<1>6. saved' = [saved EXCEPT ![s].force = 0]
  BY DEF Transform
<1>7. \A t \in Sessions : OnDisk(t)' /\ (t # s => saved'[t] = saved[t])
  BY <1>1, <1>6 DEF ForceInv, OnDisk
<1>8. saved'[s].force = 0
  BY <1>1, <1>6 DEF ForceInv, OnDisk
<1>9. \A t \in Sessions : (ses[t] = NoState \/ InStep(t))'
  BY <1>1, <1>3, <1>4, <1>7, <1>8 DEF ForceInv, InStep
<1>10. \A q \in Requests : Shaped(q)' /\ (Active(q) => InStep(req[q].s))'
  BY <1>1, <1>3, <1>4, <1>5, <1>7, <1>8 DEF ForceInv, Shaped, Active, InStep
<1>11. Spends
  <2>1. req[r].pc = "ltm" /\ Sent(r)' /\ req[r].s = s /\ req'[r].layer >= saved[s].force
    BY <1>1, <1>2, <1>3, <1>5 DEF ForceInv, Sent
  <2>2. \A t \in Sessions : t # s => saved'[t].force = saved[t].force /\ saved[t].force \in {0, 2}
    BY <1>7 DEF ForceInv, OnDisk
  <2>. QED BY <2>1, <2>2 DEF Spends
<1>. QED BY <1>3, <1>6, <1>7, <1>9, <1>10, <1>11 DEF ForceInv

\* A step of the distillations, and a stuttering step.
LEMMA OtherKeeps ==
    ASSUME ForceInv, UNCHANGED <<ses, saved, req>>
    PROVE  ForceInv' /\ Spends
<1>1. ForceInv'
  BY DEF ForceInv, OnDisk, InStep, Shaped, Active
<1>2. Spends
  BY NothingSpent
<1>. QED BY <1>1, <1>2

LEMMA RefreshKeeps ==
    ASSUME ForceInv, NEW r \in Requests, NEW ltm, RefreshLtm(r, ltm)
    PROVE  ForceInv' /\ Spends
<1>. DEFINE s == req[r].s
            new == [ses[s] EXCEPT !.ltm = ltm]
            sent == [req[r] EXCEPT !.pc = "waiting"]
<1>1. s \in Sessions /\ InStep(s) /\ Shaped(r)
  BY DEF ForceInv, RefreshLtm, Shaped, Active
<1>2. "force" \in DOMAIN new /\ new.force = saved[s].force
  BY <1>1 DEF InStep
<1>3. {"pc", "s", "layer"} \subseteq DOMAIN sent /\ sent.s = s
  BY <1>1 DEF Shaped
<1>4. ses' = [ses EXCEPT ![s] = new] /\ req' = [req EXCEPT ![r] = sent] /\ saved' = saved
  BY DEF RefreshLtm, ForceInv
<1>. HIDE DEF new, sent
<1>5. \A t \in Sessions : OnDisk(t)' /\ (ses[t] = NoState \/ InStep(t))'
  BY <1>2, <1>4 DEF ForceInv, OnDisk, InStep
<1>6. \A q \in Requests : Shaped(q)' /\ (Active(q) => InStep(req[q].s))'
  BY <1>1, <1>2, <1>3, <1>4 DEF ForceInv, Shaped, Active, InStep
<1>7. Spends
  BY <1>4, NothingSpent
<1>. QED BY <1>4, <1>5, <1>6, <1>7 DEF ForceInv

\* An answer and an upstream error put the request's record back.
LEMMA RequestEnds ==
    {"pc", "s", "layer"} \subseteq DOMAIN NoRequest /\ NoRequest.pc = "idle"
    /\ NoRequest.s \in Sessions
<1>1. {"pc", "s", "layer"} \subseteq DOMAIN NoRequest /\ NoRequest.pc = "idle"
  BY DEF NoRequest
<1>2. NoRequest.s \in Sessions
  BY GradientAssumption DEF NoRequest
<1>. QED BY <1>1, <1>2

LEMMA AnswerKeeps ==
    ASSUME ForceInv, NEW r \in Requests, NEW reply, NEW extra, NEW calls, NEW bust,
           Answer(r, reply, extra, calls, bust)
    PROVE  ForceInv' /\ Spends
<1>. DEFINE s == req[r].s
            actual == calls * (req[r].input + ses[s].ltm + extra)
            new == RecordCacheUsage(Calibrate(ses[s], actual), bust)
<1>1. s \in Sessions /\ InStep(s)
  BY DEF ForceInv, Answer, Shaped, Active
<1>2. ses' = [ses EXCEPT ![s] = new]
  BY Zenon DEF Answer
<1>3. req' = [req EXCEPT ![r] = NoRequest] /\ saved' = saved
  BY DEF Answer
<1>. HIDE DEF actual
<1>4. "force" \in DOMAIN new /\ new.force = saved[s].force
  <2>. DEFINE told == [ses[s] EXCEPT !.known = actual, !.knownLtm = ses[s].ltm,
                                     !.count = ses[s].sent]
              busts == IF bust THEN Min({told.busts + 1, BustLimit}) ELSE 0
  <2>1. new = [told EXCEPT !.busts = busts]
    BY DEF RecordCacheUsage, Calibrate
  <2>2. "force" \in DOMAIN told /\ told.force = saved[s].force
    BY <1>1 DEF InStep
  <2>. HIDE DEF told, busts, new
  <2>. QED BY <2>1, <2>2
<1>. HIDE DEF new
<1>5. \A t \in Sessions : OnDisk(t)' /\ (ses[t] = NoState \/ InStep(t))'
  BY <1>1, <1>2, <1>3, <1>4 DEF ForceInv, OnDisk, InStep
<1>6. \A q \in Requests : Shaped(q)' /\ (Active(q) => InStep(req[q].s))'
  BY <1>1, <1>2, <1>3, <1>4, RequestEnds DEF ForceInv, Shaped, Active, InStep
<1>7. Spends
  BY <1>3, NothingSpent
<1>. QED BY <1>2, <1>3, <1>5, <1>6, <1>7 DEF ForceInv

LEMMA FailKeeps ==
    ASSUME ForceInv, NEW r \in Requests, Fail(r)
    PROVE  ForceInv' /\ Spends
<1>1. req' = [req EXCEPT ![r] = NoRequest] /\ ses' = ses /\ saved' = saved
  BY DEF Fail
<1>2. \A q \in Requests : Shaped(q)' /\ (Active(q) => InStep(req[q].s))'
  BY <1>1, RequestEnds DEF ForceInv, Shaped, Active, InStep
<1>3. \A t \in Sessions : OnDisk(t)' /\ (ses[t] = NoState \/ InStep(t))'
  BY <1>1 DEF ForceInv, OnDisk, InStep
<1>4. Spends
  BY <1>1, NothingSpent
<1>. QED BY <1>1, <1>2, <1>3, <1>4 DEF ForceInv

LEMMA OverflowKeeps ==
    ASSUME ForceInv, NEW r \in Requests, Overflow(r)
    PROVE  ForceInv' /\ Spends
<1>. DEFINE s == req[r].s
<1>1. s \in Sessions /\ InStep(s)
  BY DEF ForceInv, Overflow, Shaped, Active
<1>2. /\ ses' = [ses EXCEPT ![s].force = 2] /\ saved' = [saved EXCEPT ![s].force = 2]
      /\ req' = [req EXCEPT ![r] = NoRequest]
  BY DEF Overflow
<1>. HIDE DEF s
<1>3. \A t \in Sessions : OnDisk(t)' /\ (ses[t] = NoState \/ InStep(t))'
  BY <1>1, <1>2 DEF ForceInv, OnDisk, InStep
<1>4. \A q \in Requests : Shaped(q)' /\ (Active(q) => InStep(req[q].s))'
  BY <1>1, <1>2, RequestEnds DEF ForceInv, Shaped, Active, InStep, OnDisk
<1>5. Spends
  BY <1>1, <1>2 DEF Spends, ForceInv, OnDisk
<1>. QED BY <1>2, <1>3, <1>4, <1>5 DEF ForceInv

\* The flush writes the calibration and leaves the forced layer of the table.
LEMMA TickKeeps ==
    ASSUME ForceInv, Tick
    PROVE  ForceInv' /\ Spends
<1>1. /\ saved' = [s \in Sessions |-> IF s \in dirty THEN SavedGradient(s) ELSE saved[s]]
      /\ ses' = ses /\ req' = req
  BY DEF Tick
<1>2. \A s \in Sessions : "force" \in DOMAIN saved'[s] /\ saved'[s].force = saved[s].force
  <2>1. ASSUME NEW s \in Sessions
        PROVE  /\ "force" \in DOMAIN SavedGradient(s)
               /\ SavedGradient(s).force = saved[s].force
    BY DEF SavedGradient, ForceInv, OnDisk
  <2>. QED BY <1>1, <2>1 DEF ForceInv, OnDisk
<1>3. \A t \in Sessions : OnDisk(t)' /\ (ses[t] = NoState \/ InStep(t))'
  BY <1>1, <1>2 DEF ForceInv, OnDisk, InStep
<1>4. \A q \in Requests : Shaped(q)' /\ (Active(q) => InStep(req[q].s))'
  BY <1>1, <1>2 DEF ForceInv, Shaped, Active, InStep
<1>5. Spends
  BY <1>2, NothingSpent
<1>6. saved' = [s \in Sessions |-> saved'[s]]
  BY <1>1
<1>. QED BY <1>1, <1>3, <1>4, <1>5, <1>6 DEF ForceInv

LEMMA IdleKeeps ==
    ASSUME ForceInv, NEW s \in Sessions, IdleTime(s)
    PROVE  ForceInv' /\ Spends
<1>. DEFINE aged == [saved[s] EXCEPT !.at = Aged(saved[s].at)]
            old  == [ses[s] EXCEPT !.at = "old"]
<1>1. "force" \in DOMAIN aged /\ aged.force = saved[s].force /\ saved' = [saved EXCEPT ![s] = aged]
  BY DEF IdleTime, ForceInv, OnDisk
<1>2. /\ ses' = ses \/ (ses[s] # NoState /\ ses' = [ses EXCEPT ![s] = old])
      /\ req' = req
  BY DEF IdleTime
<1>3. ses[s] # NoState => "force" \in DOMAIN old /\ old.force = saved[s].force
  BY DEF ForceInv, InStep
<1>. HIDE DEF aged, old
<1>5. \A t \in Sessions : OnDisk(t)' /\ saved'[t].force = saved[t].force
  BY <1>1 DEF ForceInv, OnDisk
<1>6. \A t \in Sessions : (ses[t] = NoState \/ InStep(t))'
  BY <1>2, <1>3, <1>5 DEF ForceInv, InStep
<1>8. \A q \in Requests : Shaped(q)' /\ (Active(q) => InStep(req[q].s))'
  BY <1>2, <1>3, <1>5 DEF ForceInv, Shaped, Active, InStep
<1>9. Spends
  BY <1>5, NothingSpent
<1>. QED BY <1>1, <1>2, <1>5, <1>6, <1>8, <1>9 DEF ForceInv

LEMMA RestartKeeps ==
    ASSUME ForceInv, Restart
    PROVE  ForceInv' /\ Spends
<1>1. /\ ses' = [s \in Sessions |-> NoState] /\ saved' = saved
      /\ req' = [r \in Requests |-> NoRequest]
  BY DEF Restart
<1>2. \A t \in Sessions : OnDisk(t)' /\ ses'[t] = NoState
  BY <1>1 DEF ForceInv, OnDisk
<1>3. \A q \in Requests : Shaped(q)' /\ ~Active(q)'
  BY <1>1, RequestEnds DEF Shaped, Active
<1>4. Spends
  BY <1>1, NothingSpent
<1>. QED BY <1>1, <1>2, <1>3, <1>4 DEF ForceInv

LEMMA StepKeeps == ForceInv /\ [Next]_vars => ForceInv' /\ Spends
<1>. SUFFICES ASSUME ForceInv, [Next]_vars PROVE ForceInv' /\ Spends
  OBVIOUS
<1>1. CASE \E r \in Requests, s \in Sessions, m \in Models, warm \in BOOLEAN :
              \E c \in Incoming(s) : Arrive(r, s, m, c, warm)
  BY <1>1, ArriveKeeps
<1>2. CASE \E r \in Requests, ltm \in LtmSizes : Transform(r, ltm)
  BY <1>2, TransformKeeps
<1>3. CASE \E r \in Requests, ltm \in LtmSizes : RefreshLtm(r, ltm)
  BY <1>3, RefreshKeeps
<1>4. CASE \E r \in Requests, reply \in Replies, extra \in Extras, n \in Calls, bust \in BOOLEAN :
              Answer(r, reply, extra, n, bust)
  BY <1>4, AnswerKeeps
<1>5. CASE \E r \in Requests : Fail(r)
  BY <1>5, FailKeeps
<1>6. CASE \E r \in Requests : Overflow(r)
  BY <1>6, OverflowKeeps
<1>7. CASE \E s \in Sessions : IdleTime(s)
  BY <1>7, IdleKeeps
<1>8. CASE \/ \E s \in Sessions : Distil(s) \/ Consolidate(s)
           \/ \E s \in Sessions, i \in 1 .. MaxRows : DeleteRow(s, i)
           \/ UNCHANGED vars
  <2>1. UNCHANGED <<ses, saved, req>>
    BY <1>8 DEF Distil, Consolidate, DeleteRow, vars
  <2>. QED BY <2>1, OtherKeeps
<1>9. CASE Tick
  BY <1>9, TickKeeps
<1>10. CASE Restart
  BY <1>10, RestartKeeps
<1>. QED BY <1>1, <1>2, <1>3, <1>4, <1>5, <1>6, <1>7, <1>8, <1>9, <1>10 DEF Next

\* The layer forced on a session after an overflow outlives restarts and
\* flushes and is spent only by a transform at that layer or above
\* (setForceMinLayer, saveForceMinLayer, transform).
THEOREM ForcedHonoured == Spec => ForcedIsHonoured
<1>1. ForceInv /\ [Next]_vars =>
         [\A s \in Sessions :
            saved[s].force > saved'[s].force =>
               \E r \in Requests : req[r].pc = "ltm" /\ Sent(r)' /\ req[r].s = s
                                   /\ req'[r].layer >= saved[s].force]_vars
  BY StepKeeps DEF Spends
<1>. QED BY <1>1, InitForce, StepKeeps, PTL DEF Spec, ForcedIsHonoured

-----------------------------------------------------------------------------
(* What is left of a list.                                                 *)

DataRow == [id : Nat, meta : BOOLEAN]

\* The ids of a list of distillations grow, up to the last one made.
Rising(list, top) ==
    /\ list \in Seq(DataRow)
    /\ \A i \in 1 .. Len(list) : list[i].id \in 1 .. top
    /\ \A i, j \in 1 .. Len(list) : i < j => list[i].id < list[j].id

IdSet(list) == {list[i].id : i \in 1 .. Len(list)}

\* RemoveAll keeps the order: it is the list along an increasing enumeration of
\* the positions that are kept.
LEMMA KeptInOrder ==
    ASSUME NEW list \in Seq(DataRow), NEW positions
    PROVE  LET kept == 1 .. Len(list) \ positions
           IN  \E m \in Nat : \E g \in [1 .. m -> kept] :
                  /\ RemoveAll(list, positions) = [k \in 1 .. m |-> list[g[k]]]
                  /\ \A k, l \in 1 .. m : k < l => g[k] < g[l]
                  /\ \A i \in kept : \E k \in 1 .. m : g[k] = i
                  /\ m = Cardinality(kept)
<1>. DEFINE kept == 1 .. Len(list) \ positions
            upto(i) == {j \in kept : j <= i}
            m == Cardinality(kept)
            f == [i \in kept |-> Cardinality(upto(i))]
            g == [k \in 1 .. m |-> CHOOSE i \in kept : Cardinality(upto(i)) = k]
<1>1. Len(list) \in Nat
  OBVIOUS
<1>2. IsFiniteSet(kept) /\ m \in Nat
  <2>1. kept \in SUBSET (1 .. Len(list)) /\ IsFiniteSet(1 .. Len(list))
    BY <1>1, FS_Interval
  <2>2. IsFiniteSet(kept)
    BY <2>1, FS_Subset
  <2>. QED BY <2>2, FS_CardinalityType
<1>3. \A i \in kept : upto(i) \subseteq kept /\ IsFiniteSet(upto(i)) /\ Cardinality(upto(i)) \in 1 .. m
  <2>. SUFFICES ASSUME NEW i \in kept
                PROVE  upto(i) \subseteq kept /\ IsFiniteSet(upto(i)) /\ Cardinality(upto(i)) \in 1 .. m
    OBVIOUS
  <2>1. upto(i) \subseteq kept /\ upto(i) # {}
    <3>1. i \in upto(i)
      BY <1>1
    <3>. QED BY <3>1
  <2>2. IsFiniteSet(upto(i)) /\ Cardinality(upto(i)) <= m
    BY <1>2, <2>1, FS_Subset
  <2>3. Cardinality(upto(i)) \in Nat /\ Cardinality(upto(i)) # 0
    BY <2>1, <2>2, FS_CardinalityType, FS_EmptySet
  <2>. HIDE DEF upto, m
  <2>. QED BY <1>2, <2>1, <2>2, <2>3
<1>4. \A i, j \in kept : i < j => f[i] < f[j]
  <2>. SUFFICES ASSUME NEW i \in kept, NEW j \in kept, i < j PROVE f[i] < f[j]
    OBVIOUS
  <2>1. upto(i) \subseteq upto(j) /\ upto(i) # upto(j)
    <3>1. j \in upto(j) /\ j \notin upto(i)
      BY <1>1
    <3>2. upto(i) \subseteq upto(j)
      BY <1>1
    <3>. QED BY <3>1, <3>2
  <2>2. Cardinality(upto(i)) <= Cardinality(upto(j)) /\ Cardinality(upto(i)) # Cardinality(upto(j))
    <3>. HIDE DEF upto
    <3>. QED BY <1>3, <2>1, FS_Subset
  <2>. HIDE DEF upto, m
  <2>. QED BY <1>2, <1>3, <2>2
<1>5. f \in Injection(kept, 1 .. m)
  <2>1. f \in [kept -> 1 .. m]
    <3>. HIDE DEF upto, m, kept
    <3>. QED BY <1>3
  <2>2. \A i, j \in kept : f[i] = f[j] => i = j
    <3>. HIDE DEF f
    <3>1. \A i \in kept : i \in Nat /\ f[i] \in Nat
      BY <1>1, <1>2, <2>1
    <3>. HIDE DEF kept
    <3>. QED BY <1>4, <3>1
  <2>. HIDE DEF f, m, kept
  <2>. QED BY <2>1, <2>2 DEF Injection, IsInjective
<1>6. f \in Surjection(kept, 1 .. m)
  <2>1. IsFiniteSet(1 .. m) /\ Cardinality(1 .. m) = m
    BY <1>2, FS_Interval
  <2>. HIDE DEF f, kept
  <2>. QED BY <1>5, <2>1, FS_Injection
<1>7. \A k \in 1 .. m : g[k] \in kept /\ f[g[k]] = k
  <2>. SUFFICES ASSUME NEW k \in 1 .. m PROVE g[k] \in kept /\ f[g[k]] = k
    OBVIOUS
  <2>1. \E i \in kept : f[i] = k
    <3>. HIDE DEF f, kept, m
    <3>. QED BY <1>6 DEF Surjection
  <2>2. \E i \in kept : Cardinality(upto(i)) = k
    <3>. HIDE DEF upto, kept, m
    <3>. QED BY <2>1
  <2>. HIDE DEF upto, kept, m
  <2>. QED BY <2>2
<1>8. \A i \in kept : i \in Nat /\ f[i] \in 1 .. m /\ g[f[i]] = i
  <2>. SUFFICES ASSUME NEW i \in kept PROVE i \in Nat /\ f[i] \in 1 .. m /\ g[f[i]] = i
    OBVIOUS
  <2>1. i \in Nat
    BY <1>1
  <2>. HIDE DEF f, g, kept, m
  <2>2. f[i] \in 1 .. m
    BY <1>5 DEF Injection
  <2>3. g[f[i]] \in kept /\ f[g[f[i]]] = f[i]
    BY <1>7, <2>2
  <2>. QED BY <1>5, <2>1, <2>2, <2>3 DEF Injection, IsInjective
<1>9. \A k, l \in 1 .. m : k < l => g[k] < g[l]
  <2>1. \A i \in kept : i \in Nat
    BY <1>1
  <2>. HIDE DEF f, g, kept
  <2>. SUFFICES ASSUME NEW k \in 1 .. m, NEW l \in 1 .. m, k < l PROVE g[k] < g[l]
    OBVIOUS
  <2>2. g[k] \in kept /\ g[l] \in kept /\ f[g[k]] = k /\ f[g[l]] = l
    BY <1>7
  <2>3. ~(g[l] < g[k]) /\ g[l] # g[k]
    BY <1>2, <1>4, <2>2
  <2>. HIDE DEF m
  <2>. QED BY <2>1, <2>2, <2>3
<1>10. RemoveAll(list, positions) = [k \in 1 .. m |-> list[g[k]]]
  BY DEF RemoveAll
<1>11. g \in [1 .. m -> kept]
  <2>. HIDE DEF kept, m, upto, f
  <2>. QED BY <1>7
<1>. HIDE DEF f, g, m
<1>12. \A i \in kept : \E k \in 1 .. m : g[k] = i
  BY <1>8
<1>. QED BY <1>2, <1>9, <1>10, <1>11, <1>12 DEF m

LEMMA KeptRises ==
    ASSUME NEW top \in Nat, NEW list, Rising(list, top), NEW positions
    PROVE  /\ Rising(RemoveAll(list, positions), top)
           /\ IdSet(RemoveAll(list, positions)) \subseteq IdSet(list)
<1>. DEFINE kept == 1 .. Len(list) \ positions
<1>1. list \in Seq(DataRow) /\ Len(list) \in Nat
  BY DEF Rising
<1>2. PICK m \in Nat : \E g \in [1 .. m -> kept] :
         /\ RemoveAll(list, positions) = [k \in 1 .. m |-> list[g[k]]]
         /\ \A k, l \in 1 .. m : k < l => g[k] < g[l]
         /\ \A i \in kept : \E k \in 1 .. m : g[k] = i
         /\ m = Cardinality(kept)
  BY <1>1, KeptInOrder
<1>3. PICK g \in [1 .. m -> kept] :
         /\ RemoveAll(list, positions) = [k \in 1 .. m |-> list[g[k]]]
         /\ \A k, l \in 1 .. m : k < l => g[k] < g[l]
  BY <1>2
<1>4. PICK left : left = RemoveAll(list, positions)
  OBVIOUS
<1>5. \A k \in 1 .. m : g[k] \in 1 .. Len(list) /\ left[k] = list[g[k]] /\ left[k] \in DataRow
  BY <1>1, <1>3, <1>4
<1>6. left = [k \in 1 .. m |-> left[k]]
  BY <1>3, <1>4
<1>7. left \in Seq(DataRow) /\ Len(left) = m
  BY <1>5, <1>6, SeqDef, LenProperties
<1>8. Rising(left, top)
  <2>1. \A k \in 1 .. m : left[k].id \in 1 .. top
    BY <1>5 DEF Rising
  <2>2. \A k, l \in 1 .. m : k < l => left[k].id < left[l].id
    <3>. SUFFICES ASSUME NEW k \in 1 .. m, NEW l \in 1 .. m, k < l PROVE left[k].id < left[l].id
      OBVIOUS
    <3>1. g[k] < g[l]
      BY <1>3
    <3>. QED BY <1>5, <3>1 DEF Rising
  <2>. QED BY <1>7, <2>1, <2>2 DEF Rising
<1>9. IdSet(left) \subseteq IdSet(list)
  BY <1>5, <1>7 DEF IdSet
<1>. QED BY <1>4, <1>8, <1>9

LEMMA KeptIds ==
    ASSUME NEW list \in Seq(DataRow), NEW positions
    PROVE  /\ Ids(RemoveAll(list, positions)) \in Seq(Nat)
           /\ Len(Ids(RemoveAll(list, positions))) = Cardinality(1 .. Len(list) \ positions)
           /\ Range(Ids(RemoveAll(list, positions))) = {list[i].id : i \in 1 .. Len(list) \ positions}
<1>. DEFINE kept == 1 .. Len(list) \ positions
<1>1. Len(list) \in Nat
  OBVIOUS
<1>2. PICK m \in Nat : \E g \in [1 .. m -> kept] :
         /\ RemoveAll(list, positions) = [k \in 1 .. m |-> list[g[k]]]
         /\ \A k, l \in 1 .. m : k < l => g[k] < g[l]
         /\ \A i \in kept : \E k \in 1 .. m : g[k] = i
         /\ m = Cardinality(kept)
  BY KeptInOrder
<1>3. PICK g \in [1 .. m -> kept] :
         /\ RemoveAll(list, positions) = [k \in 1 .. m |-> list[g[k]]]
         /\ \A i \in kept : \E k \in 1 .. m : g[k] = i
         /\ m = Cardinality(kept)
  BY <1>2
<1>4. PICK left : left = RemoveAll(list, positions)
  OBVIOUS
<1>5. \A k \in 1 .. m : g[k] \in 1 .. Len(list) /\ left[k] = list[g[k]] /\ left[k] \in DataRow
  <2>1. \A k \in 1 .. m : g[k] \in kept /\ left[k] = list[g[k]]
    BY <1>3, <1>4
  <2>2. \A i \in kept : i \in 1 .. Len(list) /\ list[i] \in DataRow
    BY <1>1
  <2>. QED BY <2>1, <2>2
<1>6. left = [k \in 1 .. m |-> left[k]]
  BY <1>3, <1>4
<1>7. left \in Seq(DataRow) /\ Len(left) = m
  BY <1>5, <1>6, SeqDef, LenProperties
<1>8. PICK text : text = Ids(left)
  OBVIOUS
<1>9. text = [k \in 1 .. m |-> left[k].id]
  BY <1>7, <1>8 DEF Ids
<1>10. \A k \in 1 .. m : text[k] = list[g[k]].id /\ text[k] \in Nat
  BY <1>5, <1>9 DEF DataRow
<1>11. text \in [1 .. m -> Nat]
  BY <1>9, <1>10
<1>12. text \in Seq(Nat) /\ Len(text) = m
  BY <1>11, SeqDef, LenProperties
<1>13. Range(text) = {list[i].id : i \in kept}
  <2>1. DOMAIN text = 1 .. m
    BY <1>9
  <2>2. \A x \in Range(text) : x \in {list[i].id : i \in kept}
    <3>. SUFFICES ASSUME NEW k \in 1 .. m PROVE text[k] \in {list[i].id : i \in kept}
      BY <2>1 DEF Range
    <3>1. g[k] \in kept /\ text[k] = list[g[k]].id
      BY <1>3, <1>10
    <3>. QED BY <3>1
  <2>3. ASSUME NEW i \in kept PROVE list[i].id \in Range(text)
    <3>1. PICK k \in 1 .. m : g[k] = i
      BY <1>3
    <3>. QED BY <1>10, <2>1, <3>1 DEF Range
  <2>. QED BY <2>2, <2>3
<1>. QED BY <1>3, <1>4, <1>8, <1>12, <1>13

\* A concatenation holds what its parts hold.
LEMMA BothParts ==
    ASSUME NEW a \in Seq(Nat), NEW b \in Seq(Nat)
    PROVE  a \o b \in Seq(Nat) /\ Len(a \o b) = Len(a) + Len(b) /\ Range(a \o b) = Range(a) \cup Range(b)
<1>1. /\ a \o b \in Seq(Nat) /\ Len(a \o b) = Len(a) + Len(b)
      /\ \A i \in 1 .. Len(a) + Len(b) :
            (a \o b)[i] = IF i <= Len(a) THEN a[i] ELSE b[i - Len(a)]
  BY ConcatProperties
<1>2. PICK w : w = a \o b
  OBVIOUS
<1>3. Len(a) \in Nat /\ Len(b) \in Nat
  OBVIOUS
<1>4. /\ DOMAIN a = 1 .. Len(a) /\ DOMAIN b = 1 .. Len(b) /\ DOMAIN w = 1 .. Len(a) + Len(b)
  BY <1>1, <1>2, LenProperties
<1>5. Range(w) \subseteq Range(a) \cup Range(b)
  <2>. SUFFICES ASSUME NEW i \in 1 .. Len(a) + Len(b) PROVE w[i] \in Range(a) \cup Range(b)
    BY <1>4 DEF Range
  <2>1. CASE i <= Len(a)
    <3>1. i \in 1 .. Len(a) /\ w[i] = a[i]
      BY <1>1, <1>2, <1>3, <2>1
    <3>. QED BY <1>4, <3>1 DEF Range
  <2>2. CASE ~(i <= Len(a))
    <3>1. i - Len(a) \in 1 .. Len(b) /\ w[i] = b[i - Len(a)]
      BY <1>1, <1>2, <1>3, <2>2
    <3>. QED BY <1>4, <3>1 DEF Range
  <2>. QED BY <2>1, <2>2
<1>6. Range(a) \subseteq Range(w)
  <2>. SUFFICES ASSUME NEW i \in 1 .. Len(a) PROVE a[i] \in Range(w)
    BY <1>4 DEF Range
  <2>1. i \in 1 .. Len(a) + Len(b) /\ w[i] = a[i]
    BY <1>1, <1>2, <1>3
  <2>. QED BY <1>4, <2>1 DEF Range
<1>7. Range(b) \subseteq Range(w)
  <2>. SUFFICES ASSUME NEW i \in 1 .. Len(b) PROVE b[i] \in Range(w)
    BY <1>4 DEF Range
  <2>1. i + Len(a) \in 1 .. Len(a) + Len(b) /\ ~(i + Len(a) <= Len(a)) /\ i + Len(a) - Len(a) = i
    BY <1>3
  <2>2. w[i + Len(a)] = b[i]
    BY <1>1, <1>2, <2>1
  <2>. QED BY <1>4, <2>1, <2>2 DEF Range
<1>. QED BY <1>1, <1>2, <1>5, <1>6, <1>7

\* The text of a list has each of its rows once, in another order.
LEMMA WholeText ==
    ASSUME NEW list \in Seq(DataRow)
    PROVE  /\ FormatDistillations(list) \in Seq(Nat)
           /\ Len(FormatDistillations(list)) = Len(list)
           /\ Range(FormatDistillations(list)) = IdSet(list)
<1>. DEFINE all == 1 .. Len(list)
            metas == {i \in all : list[i].meta}
            a == Ids(RemoveAll(list, all \ metas))
            b == Ids(RemoveAll(list, metas))
<1>1. Len(list) \in Nat /\ IsFiniteSet(all) /\ Cardinality(all) = Len(list)
  <2>1. Len(list) \in Nat
    OBVIOUS
  <2>. QED BY <2>1, FS_Interval
<1>2. metas \subseteq all /\ all \ (all \ metas) = metas
  OBVIOUS
<1>3. /\ a \in Seq(Nat) /\ Len(a) = Cardinality(metas) /\ Range(a) = {list[i].id : i \in metas}
  <2>1. /\ a \in Seq(Nat) /\ Len(a) = Cardinality(all \ (all \ metas))
        /\ Range(a) = {list[i].id : i \in all \ (all \ metas)}
    BY KeptIds
  <2>. HIDE DEF all, metas, a
  <2>. QED BY <1>2, <2>1
<1>4. /\ b \in Seq(Nat) /\ Len(b) = Cardinality(all \ metas) /\ Range(b) = {list[i].id : i \in all \ metas}
  BY KeptIds
<1>5. FormatDistillations(list) = a \o b
  BY DEF FormatDistillations
<1>6. Cardinality(metas) + Cardinality(all \ metas) = Len(list)
  <2>. HIDE DEF all, metas
  <2>1. all \cap metas = metas
    BY <1>2
  <2>2. Cardinality(all \ metas) = Cardinality(all) - Cardinality(metas)
    <3>1. IsFiniteSet(all)
      BY <1>1
    <3>2. Cardinality(all \ metas) = Cardinality(all) - Cardinality(all \cap metas)
      BY ONLY <3>1, FS_Difference
    <3>. QED BY <2>1, <3>2
  <2>3. Cardinality(metas) \in Nat
    BY <1>1, <1>2, FS_Subset, FS_CardinalityType
  <2>. QED BY <1>1, <2>2, <2>3
<1>7. {list[i].id : i \in metas} \cup {list[i].id : i \in all \ metas} = IdSet(list)
  BY DEF IdSet
<1>. HIDE DEF a, b, all, metas
<1>. QED BY <1>3, <1>4, <1>5, <1>6, <1>7, BothParts

-----------------------------------------------------------------------------
(* The cached prefix stands for the rows of its snapshot.                  *)

\* No row that is left is older than the snapshot's last and missing from it.
Covers(list, row) ==
    \A i \in 1 .. Len(row), j \in 1 .. Len(list) : row[i].id <= list[j].id => row[i].id \in IdSet(list)

Stands(prefix, list) ==
    /\ Len(list) > 0
    /\ prefix.count = Len(list) /\ prefix.last = list[Len(list)].id
    /\ prefix.text \in Seq(Nat) /\ Len(prefix.text) = Len(list) /\ Range(prefix.text) = IdSet(list)

Caches(st, row, top) ==
    /\ {"snapshot", "prefix"} \subseteq DOMAIN st
    /\ st.snapshot # NoSnapshot \/ st.prefix # NoPrefix =>
          Rising(st.snapshot.rows, top) /\ Covers(st.snapshot.rows, row)
    /\ st.prefix # NoPrefix => Stands(st.prefix, st.snapshot.rows)

\* The ids of the first n rows are as many as the rows.
FirstIds(list, n) == {list[i].id : i \in 1 .. n}

LEMMA IdsCounted ==
    ASSUME NEW top \in Nat, NEW list, Rising(list, top), NEW n \in 0 .. Len(list)
    PROVE  IsFiniteSet(FirstIds(list, n)) /\ Cardinality(FirstIds(list, n)) = n
<1>. DEFINE T == FirstIds(list, n)
            f == [i \in 1 .. n |-> list[i].id]
<1>1. Len(list) \in Nat /\ n \in Nat
  BY DEF Rising
<1>2. \A i, j \in 1 .. n : i # j => f[i] # f[j]
  <2>1. ASSUME NEW i \in 1 .. n, NEW j \in 1 .. n, i < j
        PROVE  list[i].id # list[j].id
    <3>1. i \in 1 .. Len(list) /\ j \in 1 .. Len(list)
      BY <1>1
    <3>2. list[i].id < list[j].id /\ list[i].id \in 1 .. top /\ list[j].id \in 1 .. top
      BY <2>1, <3>1 DEF Rising
    <3>. QED BY <3>2
  <2>. QED BY <1>1, <2>1
<1>3. f \in [1 .. n -> T] /\ \A x \in T : \E i \in 1 .. n : f[i] = x
  BY DEF FirstIds
<1>. HIDE DEF T, f
<1>4. f \in Bijection(1 .. n, T)
  BY <1>2, <1>3 DEF Bijection, Injection, Surjection, IsInjective
<1>5. ExistsBijection(1 .. n, T)
  BY <1>4 DEF ExistsBijection
<1>6. IsFiniteSet(1 .. n) /\ Cardinality(1 .. n) = n
  BY <1>1, FS_Interval
<1>. QED BY <1>5, <1>6, FS_Bijection DEF T

\* The count and the last id are enough: the rows before them are those that the
\* text was made of.
LEMMA ValidPrefix ==
    ASSUME NEW top \in Nat, NEW old, NEW list, Rising(old, top), Rising(list, top), Covers(old, list),
           Len(old) > 0, Len(old) <= Len(list), list[Len(old)].id = old[Len(old)].id
    PROVE  {list[i].id : i \in 1 .. Len(old)} = IdSet(old)
<1>1. Len(old) \in Nat /\ Len(list) \in Nat
  BY DEF Rising
<1>2. PICK n \in Nat : n = Len(old)
  BY <1>1
<1>. DEFINE T == FirstIds(list, n)
<1>3. IsFiniteSet(T) /\ Cardinality(T) = n
  <2>1. n \in 0 .. Len(list)
    BY <1>1, <1>2
  <2>. QED BY ONLY <2>1, Rising(list, top), top \in Nat, IdsCounted
<1>4. IsFiniteSet(IdSet(old)) /\ Cardinality(IdSet(old)) = n
  <2>1. n \in 0 .. Len(old)
    BY <1>1, <1>2
  <2>2. IsFiniteSet(FirstIds(old, n)) /\ Cardinality(FirstIds(old, n)) = n
    BY ONLY <2>1, Rising(old, top), top \in Nat, IdsCounted
  <2>3. IdSet(old) = FirstIds(old, n)
    BY <1>2 DEF IdSet, FirstIds
  <2>. QED BY <2>2, <2>3
<1>5. T \subseteq IdSet(old)
  <2>. SUFFICES ASSUME NEW i \in 1 .. n PROVE list[i].id \in IdSet(old)
    BY DEF FirstIds
  <2>1. n \in 1 .. Len(old) /\ n \in 1 .. Len(list) /\ i \in 1 .. Len(list)
    BY <1>1, <1>2
  <2>2. list[i].id <= list[n].id
    <3>1. i < n => list[i].id < list[n].id
      BY <2>1 DEF Rising
    <3>2. list[i].id \in 1 .. top /\ list[n].id \in 1 .. top
      BY <2>1 DEF Rising
    <3>. QED BY <1>2, <3>1, <3>2
  <2>3. list[i].id <= old[n].id
    BY <1>2, <2>2
  <2>. QED BY <2>1, <2>3 DEF Covers
<1>6. T = IdSet(old)
  <2>. HIDE DEF T
  <2>. QED BY <1>3, <1>4, <1>5, FS_Subset
<1>. QED BY <1>2, <1>6 DEF FirstIds

LEMMA CoversItself ==
    ASSUME NEW list PROVE Covers(list, list)
BY DEF Covers, IdSet

\* The rows after the cached ones.
LEMMA Remainder ==
    ASSUME NEW list \in Seq(DataRow), NEW n \in 0 .. Len(list)
    PROVE  /\ SubSeq(list, n + 1, Len(list)) \in Seq(DataRow)
           /\ Len(SubSeq(list, n + 1, Len(list))) = Len(list) - n
           /\ IdSet(SubSeq(list, n + 1, Len(list))) = {list[i].id : i \in n + 1 .. Len(list)}
<1>1. Len(list) \in Nat /\ n \in Nat /\ n <= Len(list) /\ n + 1 \in 1 .. Len(list) + 1
  OBVIOUS
<1>2. PICK left : left = SubSeq(list, n + 1, Len(list))
  OBVIOUS
<1>3. CASE n = Len(list)
  <2>1. left = << >>
    BY <1>1, <1>2, <1>3, SubSeqProperties
  <2>. QED BY <1>1, <1>2, <1>3, <2>1 DEF IdSet
<1>4. CASE n < Len(list)
  <2>1. /\ left \in Seq(DataRow) /\ Len(left) = Len(list) - n
        /\ \A i \in 1 .. Len(list) - n : left[i] = list[n + i]
    <3>1. n + 1 \in 1 .. Len(list) /\ Len(list) \in n + 1 .. Len(list)
      BY <1>1, <1>4
    <3>2. \A i \in 1 .. Len(list) - n : (n + 1) + i - 1 = n + i
      BY <1>1
    <3>. QED BY <1>1, <1>2, <3>1, <3>2, SubSeqProperties
  <2>2. \A i \in 1 .. Len(list) - n : n + i \in n + 1 .. Len(list)
    BY <1>1
  <2>3. \A i \in n + 1 .. Len(list) : i - n \in 1 .. Len(list) - n /\ n + (i - n) = i
    BY <1>1
  <2>4. IdSet(left) \subseteq {list[i].id : i \in n + 1 .. Len(list)}
    BY <2>1, <2>2 DEF IdSet
  <2>5. {list[i].id : i \in n + 1 .. Len(list)} \subseteq IdSet(left)
    <3>. SUFFICES ASSUME NEW i \in n + 1 .. Len(list) PROVE list[i].id \in IdSet(left)
      OBVIOUS
    <3>1. left[i - n] = list[i] /\ i - n \in 1 .. Len(left)
      BY <2>1, <2>3
    <3>. QED BY <3>1 DEF IdSet
  <2>. QED BY <1>2, <2>1, <2>4, <2>5
<1>. QED BY <1>1, <1>3, <1>4

\* What distilledPrefixCached returns stands for the list it was given.
LEMMA PrefixStands ==
    ASSUME NEW top \in Nat, NEW st, NEW row, NEW list, Rising(list, top), Caches(st, row, top),
           list = row \/ (list = st.snapshot.rows /\ st.snapshot # NoSnapshot),
           PrefixFor(st, list) # NoPrefix
    PROVE  Stands(PrefixFor(st, list), list)
<1>. DEFINE size  == Len(list)
            valid == /\ st.prefix # NoPrefix /\ st.prefix.count <= size
                     /\ list[st.prefix.count].id = st.prefix.last
            rest  == FormatDistillations(SubSeq(list, st.prefix.count + 1, size))
            text  == IF valid THEN st.prefix.text \o rest ELSE FormatDistillations(list)
<1>1. list \in Seq(DataRow) /\ size \in Nat
  BY DEF Rising
<1>2. size # 0 /\ PrefixFor(st, list) = [last |-> list[size].id, count |-> size, text |-> text]
  BY DEF PrefixFor
<1>3. text \in Seq(Nat) /\ Len(text) = size /\ Range(text) = IdSet(list)
  <2>1. CASE ~valid
    BY <1>1, <2>1, WholeText
  <2>2. CASE valid
    <3>1. PICK old : old = st.snapshot.rows
      OBVIOUS
    <3>2. Rising(old, top) /\ Covers(old, row) /\ Stands(st.prefix, old)
      BY <2>2, <3>1 DEF Caches
    <3>3. PICK n \in Nat : n = Len(old) /\ n > 0 /\ n <= size /\ st.prefix.count = n
      BY <2>2, <3>2 DEF Stands, Rising
    <3>4. list[n].id = old[n].id
      BY <2>2, <3>2, <3>3 DEF Stands
    <3>5. Covers(old, list)
      BY <3>1, <3>2, CoversItself
    <3>6. {list[i].id : i \in 1 .. n} = IdSet(old)
      BY <3>2, <3>3, <3>4, <3>5, ValidPrefix
    <3>7. PICK left : left = SubSeq(list, n + 1, size)
      OBVIOUS
    <3>8. n \in 0 .. size
      BY <1>1, <3>3
    <3>9. /\ left \in Seq(DataRow) /\ Len(left) = size - n
          /\ IdSet(left) = {list[i].id : i \in n + 1 .. size}
      BY <1>1, <3>7, <3>8, Remainder
    <3>10. /\ FormatDistillations(left) \in Seq(Nat) /\ Len(FormatDistillations(left)) = size - n
           /\ Range(FormatDistillations(left)) = {list[i].id : i \in n + 1 .. size}
      BY <3>9, WholeText
    <3>11. PICK a : a = st.prefix.text
      OBVIOUS
    <3>12. a \in Seq(Nat) /\ Len(a) = n /\ Range(a) = {list[i].id : i \in 1 .. n}
      BY <3>2, <3>3, <3>6, <3>11 DEF Stands
    <3>13. PICK b : b = FormatDistillations(left)
      OBVIOUS
    <3>14. text = a \o b
      BY <2>2, <3>3, <3>7, <3>11, <3>13
    <3>15. a \o b \in Seq(Nat) /\ Len(a \o b) = size /\ Range(a \o b) = Range(a) \cup Range(b)
      <4>1. b \in Seq(Nat) /\ Len(b) = size - n /\ n + (size - n) = size
        BY <1>1, <3>3, <3>10, <3>13
      <4>2. a \o b \in Seq(Nat) /\ Len(a \o b) = Len(a) + Len(b) /\ Range(a \o b) = Range(a) \cup Range(b)
        BY <3>12, <4>1, BothParts
      <4>. QED BY <3>12, <4>1, <4>2
    <3>16. Range(a) \cup Range(b) = IdSet(list)
      <4>1. 1 .. size = (1 .. n) \cup (n + 1 .. size)
        BY <1>1, <3>8
      <4>. QED BY <3>10, <3>12, <3>13, <4>1 DEF IdSet
    <3>. QED BY <3>14, <3>15, <3>16
  <2>. QED BY <2>1, <2>2
<1>. HIDE DEF text
<1>. QED BY <1>1, <1>2, <1>3 DEF Stands

-----------------------------------------------------------------------------
(* The caches of every session, kept by every step.                        *)

RowsRise == made \in Nat /\ rows = [s \in Sessions |-> rows[s]] /\ \A s \in Sessions : Rising(rows[s], made)

Cached(s) == Caches(ses[s], rows[s], made)

PrefixInv ==
    /\ RowsRise
    /\ \A s \in Sessions : ses[s] = NoState \/ Cached(s)
    /\ \A r \in Requests : Active(r) => Cached(req[r].s)

\* A state with the same caches.
LEMMA SameCaches ==
    ASSUME NEW st, NEW row, NEW top, Caches(st, row, top), NEW new,
           {"snapshot", "prefix"} \subseteq DOMAIN new,
           new.snapshot = st.snapshot, new.prefix = st.prefix
    PROVE  Caches(new, row, top)
BY DEF Caches

\* A new session, or one that was idle for long.
LEMMA NoCaches ==
    ASSUME NEW row, NEW top, NEW new, {"snapshot", "prefix"} \subseteq DOMAIN new,
           new.snapshot = NoSnapshot, new.prefix = NoPrefix
    PROVE  Caches(new, row, top)
BY DEF Caches

\* A step that changes the state of one session, or of none.
LEMMA OneStateMoves ==
    ASSUME ForceInv, PrefixInv, rows' = rows, made' = made,
           NEW s \in Sessions, NEW new, ses' = [ses EXCEPT ![s] = new], Caches(new, rows[s], made),
           \A q \in Requests : Active(q)' => req'[q].s = s \/ (Active(q) /\ req'[q].s = req[q].s)
    PROVE  PrefixInv'
<1>1. ses'[s] = new /\ \A t \in Sessions : t # s => ses'[t] = ses[t]
  BY DEF ForceInv
<1>2. Cached(s)' /\ \A t \in Sessions : t # s => (Cached(t)' <=> Cached(t))
  BY <1>1 DEF Cached
<1>3. \A t \in Sessions : (ses[t] = NoState \/ Cached(t))'
  BY <1>1, <1>2 DEF PrefixInv
<1>4. \A q \in Requests : (Active(q) => Cached(req[q].s))'
  <2>. SUFFICES ASSUME NEW q \in Requests, Active(q)'
                PROVE  Caches(ses'[req'[q].s], rows'[req'[q].s], made')
    BY DEF Cached
  <2>1. CASE req'[q].s = s
    BY <1>1, <2>1
  <2>2. CASE req'[q].s # s
    <3>1. Active(q) /\ req'[q].s = req[q].s /\ req[q].s \in Sessions
      BY <2>2 DEF ForceInv, Shaped
    <3>2. Caches(ses[req[q].s], rows[req[q].s], made)
      BY <3>1 DEF PrefixInv, Cached
    <3>. QED BY <1>1, <2>2, <3>1, <3>2
  <2>. QED BY <2>1, <2>2
<1>. QED BY <1>3, <1>4 DEF PrefixInv, RowsRise

LEMMA NoStateMoves ==
    ASSUME ForceInv, PrefixInv, rows' = rows, made' = made, ses' = ses,
           \A q \in Requests : Active(q)' => Active(q) /\ req'[q].s = req[q].s
    PROVE  PrefixInv'
<1>1. \A t \in Sessions : Cached(t)' <=> Cached(t)
  BY DEF Cached
<1>2. \A q \in Requests : (Active(q) => Cached(req[q].s))'
  BY <1>1 DEF PrefixInv, ForceInv, Shaped
<1>. QED BY <1>1, <1>2 DEF PrefixInv, RowsRise

LEMMA ArrivePrefix ==
    ASSUME ForceInv, PrefixInv, NEW r \in Requests, NEW s \in Sessions, NEW m, NEW c, NEW warm,
           Arrive(r, s, m, c, warm)
    PROVE  PrefixInv'
<1>. DEFINE st == GetSessionState(s)
            new == IF st.at # "old" THEN st
                   ELSE [st EXCEPT !.snapshot = NoSnapshot, !.prefix = NoPrefix,
                                   !.pin = NoPin, !.compact = ~warm]
            asked == [NoRequest EXCEPT !.pc = "ltm", !.s = s, !.m = m, !.conv = c]
<1>1. Caches(st, rows[s], made)
  <2>1. CASE ses[s] # NoState
    BY <2>1 DEF PrefixInv, Cached, GetSessionState
  <2>2. CASE ses[s] = NoState
    <3>1. {"snapshot", "prefix"} \subseteq DOMAIN st /\ st.snapshot = NoSnapshot /\ st.prefix = NoPrefix
      BY <2>2 DEF GetSessionState, FreshState
    <3>. HIDE DEF st
    <3>. QED BY <3>1, NoCaches
  <2>. QED BY <2>1, <2>2
<1>. HIDE DEF st
<1>2. Caches(new, rows[s], made)
  <2>1. CASE st.at # "old"
    BY <1>1, <2>1
  <2>2. CASE st.at = "old"
    <3>1. {"snapshot", "prefix"} \subseteq DOMAIN st
      BY <1>1 DEF Caches
    <3>2. {"snapshot", "prefix"} \subseteq DOMAIN new /\ new.snapshot = NoSnapshot /\ new.prefix = NoPrefix
      BY <2>2, <3>1
    <3>. HIDE DEF new
    <3>. QED BY <3>2, NoCaches
  <2>. QED BY <2>1, <2>2
<1>3. ses' = [ses EXCEPT ![s] = new] /\ rows' = rows /\ made' = made
  BY DEF Arrive, st
<1>. HIDE DEF new
<1>4. req' = [req EXCEPT ![r] = asked] /\ asked.s = s
  BY DEF Arrive, NoRequest
<1>. HIDE DEF asked
<1>5. \A q \in Requests : Active(q)' => req'[q].s = s \/ (Active(q) /\ req'[q].s = req[q].s)
  BY <1>4 DEF ForceInv, Active
<1>. QED BY <1>2, <1>3, <1>5, OneStateMoves

LEMMA TransformPrefix ==
    ASSUME ForceInv, PrefixInv, NEW r \in Requests, NEW ltm, Transform(r, ltm)
    PROVE  PrefixInv'
<1>. DEFINE s     == req[r].s
            st    == TurnState(r, ltm)
            snap  == TurnSnapshot(r, ltm)
            layer == TurnLayer(r, ltm)
<1>1. s \in Sessions /\ Active(r) /\ "s" \in DOMAIN req[r] /\ Cached(s)
  BY DEF ForceInv, PrefixInv, Transform, Shaped, Active
<1>2. PICK new, sent :
        /\ ses' = [ses EXCEPT ![s] = new] /\ req' = [req EXCEPT ![r] = sent]
        /\ DOMAIN new = DOMAIN ses[s] /\ DOMAIN sent = DOMAIN req[r]
        /\ "snapshot" \in DOMAIN new => new.snapshot = IF layer = 0 THEN ses[s].snapshot ELSE snap
        /\ "prefix" \in DOMAIN new => new.prefix = IF layer = 0 THEN ses[s].prefix ELSE PrefixFor(st, snap.rows)
        /\ "s" \in DOMAIN sent => sent.s = s
  BY TransformWrites
<1>3. {"snapshot", "prefix"} \subseteq DOMAIN ses[s]
  BY <1>1 DEF Cached, Caches
<1>4. /\ {"snapshot", "prefix"} \subseteq DOMAIN st
      /\ st.snapshot = ses[s].snapshot /\ st.prefix = ses[s].prefix
  BY <1>3 DEF TurnState
<1>5. Caches(st, rows[s], made)
  BY <1>1, <1>4, SameCaches DEF Cached
<1>6. snap.rows = rows[s] \/ (snap.rows = st.snapshot.rows /\ st.snapshot # NoSnapshot)
  BY DEF TurnSnapshot, SnapshotFor
<1>. HIDE DEF st, snap, layer
<1>7. Rising(snap.rows, made) /\ Covers(snap.rows, rows[s])
  <2>1. CASE snap.rows = rows[s]
    BY <1>1, <2>1, CoversItself DEF PrefixInv, RowsRise
  <2>2. CASE snap.rows = st.snapshot.rows /\ st.snapshot # NoSnapshot
    BY <1>5, <2>2 DEF Caches
  <2>. QED BY <1>6, <2>1, <2>2
<1>8. Caches(new, rows[s], made)
  <2>1. CASE layer = 0
    BY <1>1, <1>2, <1>3, <2>1, SameCaches DEF Cached
  <2>2. CASE layer # 0
    <3>1. new.snapshot = snap /\ new.prefix = PrefixFor(st, snap.rows)
      BY <1>2, <1>3, <2>2
    <3>2. made \in Nat
      BY DEF PrefixInv, RowsRise
    <3>3. new.prefix # NoPrefix => Stands(new.prefix, snap.rows)
      BY <1>5, <1>6, <1>7, <3>1, <3>2, PrefixStands
    <3>. QED BY <1>2, <1>3, <1>7, <3>1, <3>3 DEF Caches
  <2>. QED BY <2>1, <2>2
<1>9. \A q \in Requests : Active(q)' => req'[q].s = s \/ (Active(q) /\ req'[q].s = req[q].s)
  BY <1>1, <1>2 DEF ForceInv, Active
<1>10. rows' = rows /\ made' = made
  BY DEF Transform
<1>. QED BY <1>1, <1>2, <1>8, <1>9, <1>10, OneStateMoves

LEMMA RefreshPrefix ==
    ASSUME ForceInv, PrefixInv, NEW r \in Requests, NEW ltm, RefreshLtm(r, ltm)
    PROVE  PrefixInv'
<1>. DEFINE s == req[r].s
            new == [ses[s] EXCEPT !.ltm = ltm]
            sent == [req[r] EXCEPT !.pc = "waiting"]
<1>1. s \in Sessions /\ Active(r) /\ "s" \in DOMAIN req[r] /\ Cached(s)
  BY DEF ForceInv, PrefixInv, RefreshLtm, Shaped, Active
<1>2. {"snapshot", "prefix"} \subseteq DOMAIN new /\ new.snapshot = ses[s].snapshot /\ new.prefix = ses[s].prefix
  BY <1>1 DEF Cached, Caches
<1>3. sent.s = s
  BY <1>1
<1>4. /\ ses' = [ses EXCEPT ![s] = new] /\ req' = [req EXCEPT ![r] = sent]
      /\ rows' = rows /\ made' = made
  BY DEF RefreshLtm, ForceInv
<1>. HIDE DEF new, sent
<1>5. Caches(new, rows[s], made)
  BY <1>1, <1>2, SameCaches DEF Cached
<1>6. \A q \in Requests : Active(q)' => req'[q].s = s \/ (Active(q) /\ req'[q].s = req[q].s)
  BY <1>1, <1>3, <1>4 DEF ForceInv, Active
<1>. QED BY <1>1, <1>4, <1>5, <1>6, OneStateMoves

LEMMA AnswerPrefix ==
    ASSUME ForceInv, PrefixInv, NEW r \in Requests, NEW reply, NEW extra, NEW calls, NEW bust,
           Answer(r, reply, extra, calls, bust)
    PROVE  PrefixInv'
<1>. DEFINE s == req[r].s
            actual == calls * (req[r].input + ses[s].ltm + extra)
            new == RecordCacheUsage(Calibrate(ses[s], actual), bust)
<1>1. s \in Sessions /\ Active(r) /\ Cached(s)
  BY DEF ForceInv, PrefixInv, Answer, Shaped, Active
<1>2. ses' = [ses EXCEPT ![s] = new]
  BY Zenon DEF Answer
<1>3. req' = [req EXCEPT ![r] = NoRequest] /\ rows' = rows /\ made' = made
  BY DEF Answer
<1>. HIDE DEF actual
<1>4. {"snapshot", "prefix"} \subseteq DOMAIN new /\ new.snapshot = ses[s].snapshot /\ new.prefix = ses[s].prefix
  <2>. DEFINE told == [ses[s] EXCEPT !.known = actual, !.knownLtm = ses[s].ltm,
                                     !.count = ses[s].sent]
              busts == IF bust THEN Min({told.busts + 1, BustLimit}) ELSE 0
  <2>1. new = [told EXCEPT !.busts = busts]
    BY DEF RecordCacheUsage, Calibrate
  <2>2. /\ {"snapshot", "prefix"} \subseteq DOMAIN told
        /\ told.snapshot = ses[s].snapshot /\ told.prefix = ses[s].prefix
    BY <1>1 DEF Cached, Caches
  <2>. HIDE DEF told, busts, new
  <2>. QED BY <2>1, <2>2
<1>. HIDE DEF new
<1>5. Caches(new, rows[s], made)
  BY <1>1, <1>4, SameCaches DEF Cached
<1>6. \A q \in Requests : Active(q)' => req'[q].s = s \/ (Active(q) /\ req'[q].s = req[q].s)
  BY <1>3, RequestEnds DEF ForceInv, Active
<1>. QED BY <1>1, <1>2, <1>3, <1>5, <1>6, OneStateMoves

LEMMA OverflowPrefix ==
    ASSUME ForceInv, PrefixInv, NEW r \in Requests, Overflow(r)
    PROVE  PrefixInv'
<1>. DEFINE s == req[r].s
            new == [ses[s] EXCEPT !.force = 2]
<1>1. s \in Sessions /\ Cached(s)
  BY DEF ForceInv, PrefixInv, Overflow, Shaped, Active
<1>2. {"snapshot", "prefix"} \subseteq DOMAIN new /\ new.snapshot = ses[s].snapshot /\ new.prefix = ses[s].prefix
  BY <1>1 DEF Cached, Caches
<1>3. /\ ses' = [ses EXCEPT ![s] = new] /\ req' = [req EXCEPT ![r] = NoRequest]
      /\ rows' = rows /\ made' = made
  BY DEF Overflow, ForceInv
<1>. HIDE DEF new
<1>4. Caches(new, rows[s], made)
  BY <1>1, <1>2, SameCaches DEF Cached
<1>5. \A q \in Requests : Active(q)' => req'[q].s = s \/ (Active(q) /\ req'[q].s = req[q].s)
  BY <1>3, RequestEnds DEF ForceInv, Active
<1>. QED BY <1>1, <1>3, <1>4, <1>5, OneStateMoves

LEMMA IdlePrefix ==
    ASSUME ForceInv, PrefixInv, NEW s \in Sessions, IdleTime(s)
    PROVE  PrefixInv'
<1>. DEFINE new == [ses[s] EXCEPT !.at = "old"]
<1>1. rows' = rows /\ made' = made /\ req' = req
  BY DEF IdleTime
<1>2. \A q \in Requests : Active(q)' => Active(q) /\ req'[q].s = req[q].s
  BY <1>1 DEF Active
<1>3. CASE ses[s] = NoState
  <2>1. ses' = ses
    BY <1>3 DEF IdleTime
  <2>. QED BY <1>1, <1>2, <2>1, NoStateMoves
<1>4. CASE ses[s] # NoState
  <2>1. ses' = [ses EXCEPT ![s] = new]
    BY <1>4 DEF IdleTime, ForceInv
  <2>2. Cached(s)
    BY <1>4 DEF PrefixInv
  <2>3. {"snapshot", "prefix"} \subseteq DOMAIN new /\ new.snapshot = ses[s].snapshot /\ new.prefix = ses[s].prefix
    BY <2>2 DEF Cached, Caches
  <2>. HIDE DEF new
  <2>4. Caches(new, rows[s], made)
    BY <2>2, <2>3, SameCaches DEF Cached
  <2>. QED BY <1>1, <1>2, <2>1, <2>4, OneStateMoves
<1>. QED BY <1>3, <1>4

LEMMA RestartPrefix ==
    ASSUME ForceInv, PrefixInv, Restart
    PROVE  PrefixInv'
<1>1. /\ ses' = [s \in Sessions |-> NoState] /\ req' = [r \in Requests |-> NoRequest]
      /\ rows' = rows /\ made' = made
  BY DEF Restart
<1>2. \A q \in Requests : ~Active(q)'
  BY <1>1, RequestEnds DEF Active
<1>. QED BY <1>1, <1>2 DEF PrefixInv, RowsRise

\* A step of the distillations: what is left, and at most a row behind the rest.
LEMMA RowsMove ==
    ASSUME ForceInv, PrefixInv, UNCHANGED <<ses, req>>, NEW s \in Sessions, NEW row,
           rows' = [rows EXCEPT ![s] = row], made' \in Nat, made <= made', Rising(row, made'),
           \A x \in IdSet(row) : x \in IdSet(rows[s]) \/ x > made
    PROVE  PrefixInv'
<1>1. rows'[s] = row /\ (\A t \in Sessions : t # s => rows'[t] = rows[t]) /\ made \in Nat
  BY DEF PrefixInv, RowsRise
<1>2. ASSUME NEW list, Rising(list, made) PROVE Rising(list, made')
  <2>1. \A x \in 1 .. made : x \in 1 .. made'
    BY <1>1
  <2>. QED BY <1>2, <2>1 DEF Rising
<1>3. ASSUME NEW list, Rising(list, made), Covers(list, rows[s]) PROVE Covers(list, row)
  <2>. SUFFICES ASSUME NEW i \in 1 .. Len(row), NEW j \in 1 .. Len(list), row[i].id <= list[j].id
                PROVE  row[i].id \in IdSet(list)
    BY DEF Covers
  <2>1. row[i].id \in IdSet(row)
    BY DEF IdSet
  <2>2. list[j].id \in 1 .. made /\ row[i].id \in 1 .. made'
    BY <1>3 DEF Rising
  <2>3. row[i].id \in IdSet(rows[s])
    BY <1>1, <2>1, <2>2
  <2>4. PICK k \in 1 .. Len(rows[s]) : rows[s][k].id = row[i].id
    BY <2>3 DEF IdSet
  <2>5. rows[s][k].id <= list[j].id
    BY <2>4
  <2>. QED BY <1>3, <2>4, <2>5 DEF Covers
<1>4. \A t \in Sessions : Cached(t) => Cached(t)'
  BY <1>1, <1>2, <1>3 DEF Cached, Caches
<1>5. \A t \in Sessions : Rising(rows'[t], made')
  BY <1>1, <1>2 DEF PrefixInv, RowsRise
<1>6. rows' = [t \in Sessions |-> rows'[t]]
  BY DEF PrefixInv, RowsRise
<1>7. \A q \in Requests : (Active(q) => Cached(req[q].s))'
  BY <1>4 DEF PrefixInv, ForceInv, Shaped, Active
<1>. QED BY <1>4, <1>5, <1>6, <1>7 DEF PrefixInv, RowsRise

LEMMA AppendRises ==
    ASSUME NEW top \in Nat, NEW list, Rising(list, top), NEW meta \in BOOLEAN
    PROVE  LET row == Append(list, [id |-> top + 1, meta |-> meta])
           IN  Rising(row, top + 1) /\ IdSet(row) = IdSet(list) \cup {top + 1}
<1>. DEFINE new == [id |-> top + 1, meta |-> meta]
            row == Append(list, new)
<1>1. new \in DataRow /\ new.id = top + 1
  BY DEF DataRow
<1>. HIDE DEF new
<1>2. list \in Seq(DataRow) /\ Len(list) \in Nat
  BY DEF Rising
<1>3. /\ row \in Seq(DataRow) /\ Len(row) = Len(list) + 1
      /\ \A i \in 1 .. Len(list) : row[i] = list[i]
      /\ row[Len(list) + 1] = new
  BY <1>1, <1>2, AppendProperties
<1>. HIDE DEF row
<1>4. \A i \in 1 .. Len(row) : i = Len(list) + 1 \/ i \in 1 .. Len(list)
  BY <1>2, <1>3
<1>5. \A i \in 1 .. Len(list) : list[i].id \in 1 .. top
  BY DEF Rising
<1>6. \A i \in 1 .. Len(row) : row[i].id \in 1 .. top + 1
  BY <1>1, <1>3, <1>4, <1>5
<1>7. \A i, j \in 1 .. Len(row) : i < j => row[i].id < row[j].id
  <2>. SUFFICES ASSUME NEW i \in 1 .. Len(row), NEW j \in 1 .. Len(row), i < j
                PROVE  row[i].id < row[j].id
    OBVIOUS
  <2>1. i \in 1 .. Len(list)
    BY <1>2, <1>3
  <2>2. CASE j \in 1 .. Len(list)
    BY <1>3, <2>1, <2>2 DEF Rising
  <2>3. CASE j = Len(list) + 1
    BY <1>1, <1>3, <1>5, <2>1, <2>3
  <2>. QED BY <1>4, <2>2, <2>3
<1>8. IdSet(row) = IdSet(list) \cup {top + 1}
  <2>1. IdSet(row) \subseteq IdSet(list) \cup {top + 1}
    BY <1>1, <1>3, <1>4 DEF IdSet
  <2>2. top + 1 \in IdSet(row)
    <3>1. Len(list) + 1 \in 1 .. Len(row)
      BY <1>2, <1>3
    <3>. QED BY <1>1, <1>3, <3>1 DEF IdSet
  <2>3. IdSet(list) \subseteq IdSet(row)
    <3>1. \A i \in 1 .. Len(list) : i \in 1 .. Len(row) /\ row[i].id = list[i].id
      BY <1>2, <1>3
    <3>. QED BY <3>1 DEF IdSet
  <2>. QED BY <2>1, <2>2, <2>3
<1>9. Rising(row, top + 1)
  BY <1>3, <1>6, <1>7 DEF Rising
<1>. QED BY <1>8, <1>9 DEF row, new

LEMMA DistilPrefix ==
    ASSUME ForceInv, PrefixInv, NEW s \in Sessions, Distil(s)
    PROVE  PrefixInv'
<1>. DEFINE row == Append(rows[s], [id |-> made + 1, meta |-> FALSE])
<1>1. made \in Nat /\ Rising(rows[s], made)
  BY DEF PrefixInv, RowsRise
<1>2. Rising(row, made + 1) /\ IdSet(row) = IdSet(rows[s]) \cup {made + 1}
  BY <1>1, AppendRises
<1>3. rows' = [rows EXCEPT ![s] = row] /\ made' = made + 1 /\ UNCHANGED <<ses, req>>
  BY DEF Distil, NewRow
<1>. HIDE DEF row
<1>4. \A x \in IdSet(row) : x \in IdSet(rows[s]) \/ x > made
  BY <1>1, <1>2
<1>5. made' \in Nat /\ made <= made' /\ Rising(row, made')
  BY <1>1, <1>2, <1>3
<1>. QED BY <1>3, <1>4, <1>5, RowsMove

LEMMA ConsolidatePrefix ==
    ASSUME ForceInv, PrefixInv, NEW s \in Sessions, Consolidate(s)
    PROVE  PrefixInv'
<1>. DEFINE gen0   == {i \in 1 .. Len(rows[s]) : ~rows[s][i].meta}
            enough == Cardinality(gen0) >= RecentKept
            merged == {i \in gen0 : enough => Cardinality({j \in gen0 : j > i}) >= RecentKept}
            left   == RemoveAll(rows[s], merged)
            row    == Append(left, [id |-> made + 1, meta |-> TRUE])
<1>1. made \in Nat /\ Rising(rows[s], made)
  BY DEF PrefixInv, RowsRise
<1>2. rows' = [rows EXCEPT ![s] = row] /\ made' = made + 1 /\ UNCHANGED <<ses, req>>
  BY DEF Consolidate, NewRow
<1>. HIDE DEF merged
<1>3. Rising(left, made) /\ IdSet(left) \subseteq IdSet(rows[s])
  BY <1>1, KeptRises
<1>. HIDE DEF left
<1>4. Rising(row, made + 1) /\ IdSet(row) = IdSet(left) \cup {made + 1}
  BY <1>1, <1>3, AppendRises
<1>. HIDE DEF row
<1>5. \A x \in IdSet(row) : x \in IdSet(rows[s]) \/ x > made
  BY <1>1, <1>3, <1>4
<1>6. made' \in Nat /\ made <= made' /\ Rising(row, made')
  BY <1>1, <1>2, <1>4
<1>. QED BY <1>2, <1>5, <1>6, RowsMove

LEMMA DeletePrefix ==
    ASSUME ForceInv, PrefixInv, NEW s \in Sessions, NEW i, DeleteRow(s, i)
    PROVE  PrefixInv'
<1>. DEFINE row == RemoveAll(rows[s], {i})
<1>1. made \in Nat /\ Rising(rows[s], made)
  BY DEF PrefixInv, RowsRise
<1>2. Rising(row, made) /\ IdSet(row) \subseteq IdSet(rows[s])
  BY <1>1, KeptRises
<1>3. rows' = [rows EXCEPT ![s] = row] /\ made' = made /\ UNCHANGED <<ses, req>>
  BY DEF DeleteRow
<1>. HIDE DEF row
<1>4. \A x \in IdSet(row) : x \in IdSet(rows[s]) \/ x > made
  BY <1>2
<1>5. made' \in Nat /\ made <= made' /\ Rising(row, made')
  BY <1>1, <1>2, <1>3
<1>. QED BY <1>3, <1>4, <1>5, RowsMove

LEMMA InitPrefix == Init => PrefixInv
<1>. SUFFICES ASSUME Init PROVE PrefixInv
  OBVIOUS
<1>1. made = 0 /\ rows = [s \in Sessions |-> <<>>] /\ \A s \in Sessions : ses[s] = NoState
  BY DEF Init
<1>2. Rising(<<>>, 0)
  BY DEF Rising
<1>3. \A r \in Requests : ~Active(r)
  BY RequestEnds DEF Init, Active
<1>. QED BY <1>1, <1>2, <1>3 DEF PrefixInv, RowsRise

LEMMA StepPrefix == ForceInv /\ PrefixInv /\ [Next]_vars => PrefixInv'
<1>. SUFFICES ASSUME ForceInv, PrefixInv, [Next]_vars PROVE PrefixInv'
  OBVIOUS
<1>1. CASE \E r \in Requests, s \in Sessions, m \in Models, warm \in BOOLEAN :
              \E c \in Incoming(s) : Arrive(r, s, m, c, warm)
  BY <1>1, ArrivePrefix
<1>2. CASE \E r \in Requests, ltm \in LtmSizes : Transform(r, ltm)
  BY <1>2, TransformPrefix
<1>3. CASE \E r \in Requests, ltm \in LtmSizes : RefreshLtm(r, ltm)
  BY <1>3, RefreshPrefix
<1>4. CASE \E r \in Requests, reply \in Replies, extra \in Extras, n \in Calls, bust \in BOOLEAN :
              Answer(r, reply, extra, n, bust)
  BY <1>4, AnswerPrefix
<1>5. CASE \E r \in Requests : Fail(r)
  <2>1. PICK r \in Requests : req' = [req EXCEPT ![r] = NoRequest]
    BY <1>5 DEF Fail
  <2>2. ses' = ses /\ rows' = rows /\ made' = made
    BY <1>5 DEF Fail
  <2>3. \A q \in Requests : Active(q)' => Active(q) /\ req'[q].s = req[q].s
    BY <2>1, RequestEnds DEF ForceInv, Active
  <2>. QED BY <2>2, <2>3, NoStateMoves
<1>6. CASE \E r \in Requests : Overflow(r)
  BY <1>6, OverflowPrefix
<1>7. CASE \E s \in Sessions : IdleTime(s)
  BY <1>7, IdlePrefix
<1>8. CASE \E s \in Sessions : Distil(s)
  BY <1>8, DistilPrefix
<1>9. CASE \E s \in Sessions : Consolidate(s)
  BY <1>9, ConsolidatePrefix
<1>10. CASE \E s \in Sessions, i \in 1 .. MaxRows : DeleteRow(s, i)
  BY <1>10, DeletePrefix
<1>11. CASE Tick \/ UNCHANGED vars
  <2>1. UNCHANGED <<ses, rows, made, req>>
    BY <1>11 DEF Tick, vars
  <2>. QED BY <2>1, NoStateMoves DEF Active
<1>12. CASE Restart
  BY <1>12, RestartPrefix
<1>. QED
  BY <1>1, <1>2, <1>3, <1>4, <1>5, <1>6, <1>7, <1>8, <1>9, <1>10, <1>11, <1>12 DEF Next

SameIds(text, list) ==
    /\ Len(text) = Len(list)
    /\ {text[i] : i \in 1 .. Len(text)} = {list[i] : i \in 1 .. Len(list)}

LEMMA PrefixInvariant == PrefixInv => PrefixMatchesRows
<1>. SUFFICES ASSUME PrefixInv, NEW s \in Sessions, ses[s] # NoState, ses[s].prefix # NoPrefix
              PROVE  SameIds(ses[s].prefix.text, Ids(ses[s].snapshot.rows))
  BY DEF PrefixMatchesRows, SameIds
<1>1. PICK old : old = ses[s].snapshot.rows
  OBVIOUS
<1>2. PICK text : text = ses[s].prefix.text
  OBVIOUS
<1>3. Cached(s)
  BY DEF PrefixInv
<1>4. Rising(old, made) /\ Stands(ses[s].prefix, old)
  BY <1>1, <1>3 DEF Cached, Caches
<1>5. text \in Seq(Nat) /\ Len(text) = Len(old) /\ Range(text) = IdSet(old) /\ Len(old) \in Nat
  BY <1>2, <1>4 DEF Stands, Rising
<1>6. PICK list : list = Ids(old)
  OBVIOUS
<1>7. list = [i \in 1 .. Len(old) |-> old[i].id]
  BY <1>6 DEF Ids
<1>8. \A i \in 1 .. Len(old) : old[i].id \in Nat
  BY <1>4 DEF Rising, DataRow
<1>9. list \in [1 .. Len(old) -> Nat]
  BY <1>7, <1>8
<1>10. Len(list) = Len(old)
  BY <1>5, <1>9, SeqDef, LenProperties
<1>11. {list[i] : i \in 1 .. Len(list)} = IdSet(old)
  BY <1>7, <1>10 DEF IdSet
<1>12. {text[i] : i \in 1 .. Len(text)} = Range(text)
  <2>1. DOMAIN text = 1 .. Len(text)
    BY <1>5
  <2>. QED BY <2>1 DEF Range
<1>13. Len(text) = Len(list) /\ {text[i] : i \in 1 .. Len(text)} = {list[i] : i \in 1 .. Len(list)}
  BY <1>5, <1>10, <1>11, <1>12
<1>14. SameIds(text, list)
  BY <1>13 DEF SameIds
<1>. QED BY ONLY <1>1, <1>2, <1>6, <1>14

\* The text that is cached for a session's prefix holds each row of its snapshot
\* exactly once, whatever was distilled, consolidated or deleted meanwhile, for
\* any number of sessions, requests and rows (distilledPrefixCached).
THEOREM PrefixComplete == Spec => []PrefixMatchesRows
<1>. QED BY InitForce, StepKeeps, InitPrefix, StepPrefix, PrefixInvariant, PTL DEF Spec

-----------------------------------------------------------------------------
(* Least and greatest numbers.                                             *)

LEMMA LeastOf ==
    ASSUME NEW T, T \subseteq Nat, T # {}
    PROVE  Min(T) \in T /\ \A y \in T : Min(T) <= y
<1>. DEFINE U == {1 .. n : n \in T}
<1>1. U \subseteq FiniteSubsetsOf(Nat) /\ U # {}
  <2>1. ASSUME NEW n \in T PROVE 1 .. n \subseteq Nat /\ IsFiniteSet(1 .. n)
    BY FS_Interval
  <2>2. PICK n \in T : TRUE
    OBVIOUS
  <2>3. 1 .. n \in U
    BY <2>2
  <2>. QED BY <2>1, <2>3 DEF FiniteSubsetsOf
<1>2. PICK u \in U : \A v \in U : ~(<<v, u>> \in StrictSubsetOrdering(Nat))
  <2>1. IsWellFoundedOn(StrictSubsetOrdering(Nat), FiniteSubsetsOf(Nat))
    BY FS_StrictSubsetOrderingWellFounded
  <2>. QED BY <1>1, <2>1, WFMin
<1>3. PICK x \in T : u = 1 .. x
  BY <1>2
<1>4. ASSUME NEW y \in T, y < x PROVE FALSE
  <2>1. x \in Nat /\ y \in Nat /\ x \in 1 .. x /\ x \notin 1 .. y
    BY <1>4
  <2>2. 1 .. y \subseteq 1 .. x /\ 1 .. y # 1 .. x /\ 1 .. y \subseteq Nat /\ 1 .. x \subseteq Nat
    BY <1>4, <2>1
  <2>3. <<1 .. y, 1 .. x>> \in StrictSubsetOrdering(Nat)
    BY <2>2 DEF StrictSubsetOrdering
  <2>. QED BY <1>2, <1>3, <2>3
<1>5. \E z \in T : \A y \in T : z <= y
  BY <1>4
<1>. QED BY <1>5 DEF Min

LEMMA GreatestOf ==
    ASSUME NEW m \in Nat, NEW T, T \subseteq 0 .. m, T # {}
    PROVE  Max(T) \in T /\ \A y \in T : Max(T) >= y
<1>. DEFINE U == {m - n : n \in T}
<1>1. U \subseteq Nat /\ U # {}
  <2>1. ASSUME NEW n \in T PROVE n \in 0 .. m /\ m - n \in Nat
    OBVIOUS
  <2>2. PICK n \in T : TRUE
    OBVIOUS
  <2>3. m - n \in U
    BY <2>2
  <2>. QED BY <2>1, <2>3
<1>2. Min(U) \in U /\ \A y \in U : Min(U) <= y
  BY <1>1, LeastOf
<1>3. PICK n \in T : Min(U) = m - n
  BY <1>2
<1>4. ASSUME NEW y \in T PROVE n >= y
  <2>1. m - y \in U /\ n \in 0 .. m /\ y \in 0 .. m
    OBVIOUS
  <2>2. m - n <= m - y
    BY <1>2, <1>3, <2>1
  <2>. QED BY <2>1, <2>2
<1>. QED BY <1>3, <1>4 DEF Max

\* Step by step up to a number.
LEMMA Ladder ==
    ASSUME NEW n \in Nat, NEW S, 0 \in S,
           \A k \in 0 .. n : k < n /\ k \in S => k + 1 \in S
    PROVE  n \in S
<1>. DEFINE T == (0 .. n) \ S
<1>1. CASE T = {}
  <2>1. n \in 0 .. n
    OBVIOUS
  <2>. QED BY <1>1, <2>1
<1>2. CASE T # {}
  <2>1. T \subseteq Nat
    OBVIOUS
  <2>2. Min(T) \in T /\ \A y \in T : Min(T) <= y
    BY <1>2, <2>1, LeastOf
  <2>3. PICK k \in 0 .. n : k \notin S /\ \A y \in T : k <= y
    BY <2>2
  <2>4. k # 0
    BY <2>3
  <2>5. k - 1 \in 0 .. n /\ k - 1 < n /\ (k - 1) + 1 = k /\ ~(k <= k - 1)
    BY <2>4
  <2>6. k - 1 \in S
    BY <2>3, <2>5
  <2>. QED BY <2>3, <2>5, <2>6
<1>. QED BY <1>1, <1>2

-----------------------------------------------------------------------------
(* Sums.                                                                   *)

\* SumFrom obeys its equation: a function that does is built from the end.
LEMMA SumExists ==
    ASSUME NEW n \in Nat, NEW sizes \in [1 .. n -> Nat]
    PROVE  \E f \in [1 .. n + 1 -> Nat] :
              \A i \in 1 .. n + 1 : f[i] = IF i > n THEN 0 ELSE sizes[i] + f[i + 1]
<1>. DEFINE Upto(k, f) == \A i \in 1 .. n + 1 : i >= n + 1 - k =>
                             f[i] = IF i > n THEN 0 ELSE sizes[i] + f[i + 1]
            F == [1 .. n + 1 -> Nat]
            S == {k \in 0 .. n : \E f \in F : Upto(k, f)}
<1>1. \E f \in F : Upto(0, f)
  <2>. DEFINE f == [i \in 1 .. n + 1 |-> 0]
  <2>1. f \in F
    OBVIOUS
  <2>2. Upto(0, f)
    OBVIOUS
  <2>. QED BY <2>1, <2>2
<1>2. ASSUME NEW k \in 0 .. n, k < n, NEW f \in F, Upto(k, f)
      PROVE  \E g \in F : Upto(k + 1, g)
  <2>. DEFINE j == n - k
              g == [f EXCEPT ![j] = sizes[j] + f[j + 1]]
  <2>1. j \in 1 .. n /\ j + 1 \in 1 .. n + 1 /\ n + 1 - (k + 1) = j
    BY <1>2
  <2>2. g \in F
    <3>1. sizes[j] \in Nat /\ f[j + 1] \in Nat
      BY <2>1
    <3>. QED BY <2>1, <3>1
  <2>3. Upto(k + 1, g)
    <3>. SUFFICES ASSUME NEW i \in 1 .. n + 1, i >= j
                  PROVE  g[i] = IF i > n THEN 0 ELSE sizes[i] + g[i + 1]
      BY <2>1
    <3>1. CASE i = j
      <4>1. g[i] = sizes[j] + f[j + 1] /\ g[j + 1] = f[j + 1] /\ ~(i > n)
        BY <2>1, <3>1
      <4>. QED BY <3>1, <4>1
    <3>2. CASE i > j
      <4>1. i >= n + 1 - k
        BY <2>1, <3>2
      <4>2. f[i] = IF i > n THEN 0 ELSE sizes[i] + f[i + 1]
        BY <1>2, <4>1
      <4>3. g[i] = f[i] /\ (i <= n => g[i + 1] = f[i + 1])
        BY <2>1, <3>2
      <4>. QED BY <4>2, <4>3
    <3>. QED BY <2>1, <3>1, <3>2
  <2>. QED BY <2>2, <2>3
<1>3. n \in S
  <2>. HIDE DEF Upto, F
  <2>1. 0 \in S
    BY <1>1
  <2>2. \A k \in 0 .. n : k < n /\ k \in S => k + 1 \in S
    <3>. SUFFICES ASSUME NEW k \in 0 .. n, k < n, k \in S PROVE k + 1 \in S
      OBVIOUS
    <3>1. k + 1 \in 0 .. n
      OBVIOUS
    <3>2. \E g \in F : Upto(k + 1, g)
      BY <1>2
    <3>. QED BY <3>1, <3>2
  <2>. HIDE DEF S
  <2>. QED BY <2>1, <2>2, Ladder
<1>4. \E f \in F : Upto(n, f)
  <2>. HIDE DEF Upto, F
  <2>. QED BY <1>3
<1>5. PICK f \in F : Upto(n, f)
  BY <1>4
<1>6. \A i \in 1 .. n + 1 : i >= n + 1 - n
  OBVIOUS
<1>. QED BY <1>5, <1>6

LEMMA SumEquation ==
    ASSUME NEW n \in Nat, NEW sizes \in [1 .. n -> Nat], Len(sizes) = n
    PROVE  /\ \A i \in 1 .. n + 1 : SumFrom(sizes, i) \in Nat
           /\ SumFrom(sizes, n + 1) = 0
           /\ \A i \in 1 .. n : SumFrom(sizes, i) = sizes[i] + SumFrom(sizes, i + 1)
<1>. DEFINE Sums(f) == f = [i \in 1 .. n + 1 |-> IF i > n THEN 0 ELSE sizes[i] + f[i + 1]]
            total == CHOOSE f : Sums(f)
<1>1. PICK f \in [1 .. n + 1 -> Nat] :
         \A i \in 1 .. n + 1 : f[i] = IF i > n THEN 0 ELSE sizes[i] + f[i + 1]
  BY SumExists
<1>2. Sums(f)
  BY <1>1
<1>3. Sums(total)
  <2>. HIDE DEF Sums
  <2>. QED BY <1>2
<1>4. \A i : SumFrom(sizes, i) = total[i]
  BY DEF SumFrom
<1>5. \A i \in 1 .. n + 1 : total[i] = IF i > n THEN 0 ELSE sizes[i] + total[i + 1]
  <2>. HIDE DEF total
  <2>. QED BY <1>3
<1>. HIDE DEF total
<1>6. PICK g : g = total
  OBVIOUS
<1>7. /\ g[n + 1] = 0
      /\ \A i \in 1 .. n : g[i] = sizes[i] + g[i + 1]
  <2>1. n + 1 \in 1 .. n + 1 /\ n + 1 > n /\ \A i \in 1 .. n : i \in 1 .. n + 1 /\ ~(i > n)
    OBVIOUS
  <2>. QED BY <1>5, <1>6, <2>1
<1>8. \A i \in 1 .. n + 1 : g[i] \in Nat
  <2>. DEFINE S == {k \in 0 .. n : g[n + 1 - k] \in Nat}
  <2>. SUFFICES ASSUME NEW i \in 1 .. n + 1 PROVE g[i] \in Nat
    OBVIOUS
  <2>1. 0 \in S
    BY <1>7
  <2>2. \A k \in 0 .. n : k < n /\ k \in S => k + 1 \in S
    <3>. SUFFICES ASSUME NEW k \in 0 .. n, k < n, g[n + 1 - k] \in Nat PROVE k + 1 \in S
      OBVIOUS
    <3>1. n - k \in 1 .. n /\ (n - k) + 1 = n + 1 - k /\ n + 1 - (k + 1) = n - k /\ k + 1 \in 0 .. n
      OBVIOUS
    <3>2. g[n - k] = sizes[n - k] + g[n + 1 - k] /\ sizes[n - k] \in Nat
      BY <1>7, <3>1
    <3>3. g[n + 1 - (k + 1)] \in Nat
      BY <3>1, <3>2
    <3>. QED BY <3>1, <3>3
  <2>3. \A j \in 0 .. n : j < n + 1 - i => j < n /\ j \in 0 .. n
    OBVIOUS
  <2>4. n + 1 - i \in Nat /\ n + 1 - i \in 0 .. n /\ n + 1 - (n + 1 - i) = i
        /\ \A k \in 0 .. (n + 1 - i) : k < n + 1 - i => k \in 0 .. n /\ k < n
    OBVIOUS
  <2>5. n + 1 - i \in S
    <3>. HIDE DEF S
    <3>. QED BY <2>1, <2>2, <2>4, Ladder
  <2>. QED BY <2>4, <2>5
<1>9. \A i : SumFrom(sizes, i) = g[i]
  BY <1>4, <1>6
<1>. QED BY <1>7, <1>8, <1>9

LEMMA SumFalls ==
    ASSUME NEW n \in Nat, NEW sizes \in [1 .. n -> Nat], Len(sizes) = n,
           NEW i \in 1 .. n + 1, NEW j \in 1 .. n + 1, i <= j
    PROVE  SumFrom(sizes, i) >= SumFrom(sizes, j)
<1>. DEFINE Sum(k) == SumFrom(sizes, k)
            S == {k \in 0 .. n : j - k >= 1 => Sum(j - k) >= Sum(j)}
<1>1. /\ \A k \in 1 .. n + 1 : Sum(k) \in Nat
      /\ \A k \in 1 .. n : Sum(k) = sizes[k] + Sum(k + 1)
  BY SumEquation
<1>. HIDE DEF Sum
<1>2. 0 \in S
  <2>1. j - 0 = j /\ 0 \in 0 .. n
    OBVIOUS
  <2>2. Sum(j) >= Sum(j)
    BY <1>1
  <2>. QED BY <2>1, <2>2
<1>3. \A k \in 0 .. n : k < n /\ k \in S => k + 1 \in S
  <2>. SUFFICES ASSUME NEW k \in 0 .. n, k < n, j - k >= 1 => Sum(j - k) >= Sum(j),
                       j - (k + 1) >= 1
                PROVE  Sum(j - (k + 1)) >= Sum(j)
    OBVIOUS
  <2>1. j - (k + 1) \in 1 .. n /\ (j - (k + 1)) + 1 = j - k /\ j - k >= 1 /\ j - k \in 1 .. n + 1
    OBVIOUS
  <2>2. PICK h \in 1 .. n : h = j - (k + 1) /\ h + 1 = j - k
    BY <2>1
  <2>3. Sum(h) = sizes[h] + Sum(h + 1) /\ sizes[h] \in Nat
    BY <1>1
  <2>4. Sum(h) \in Nat /\ Sum(h + 1) \in Nat /\ Sum(j) \in Nat
    BY <1>1
  <2>5. Sum(h + 1) >= Sum(j)
    BY <2>1, <2>2
  <2>6. Sum(h) >= Sum(j)
    BY <2>3, <2>4, <2>5
  <2>. QED BY <2>2, <2>6
<1>4. j - i \in Nat /\ j - i \in 0 .. n /\ j - (j - i) = i /\ i >= 1
      /\ \A k \in 0 .. (j - i) : k < j - i => k \in 0 .. n /\ k < n
  OBVIOUS
<1>5. j - i \in S
  <2>. HIDE DEF S
  <2>. QED BY <1>2, <1>3, <1>4, Ladder
<1>6. Sum(j - (j - i)) >= Sum(j)
  BY <1>4, <1>5
<1>. QED BY <1>4, <1>6 DEF Sum

\* A message list whose sizes count, and one that differs from another only in
\* the sizes and reads of its messages.
Sized(d) == Len(d) \in Nat /\ \A i \in 1 .. Len(d) : d[i].size \in Nat
SameKinds(c, d) == Len(d) = Len(c) /\ \A i \in 1 .. Len(c) : d[i].kind = c[i].kind

\* A conversation that waits for an answer.
Closed(c) == c \in Conversations /\ Len(c) >= 1 /\ c[Len(c)].kind = "user"

LEMMA TokensCount ==
    ASSUME NEW d, Sized(d)
    PROVE  /\ \A i \in 1 .. Len(d) + 1 : Tokens(d, i) \in Nat
           /\ \A i, j \in 1 .. Len(d) + 1 : i <= j => Tokens(d, i) >= Tokens(d, j)
<1>. DEFINE n == Len(d)
            sizes == [i \in 1 .. n |-> d[i].size]
<1>1. n \in Nat /\ sizes \in [1 .. n -> Nat] /\ Len(sizes) = n
  BY DEF Sized
<1>2. \A i : Tokens(d, i) = SumFrom(sizes, i)
  BY DEF Tokens
<1>. HIDE DEF sizes, n
<1>3. \A i \in 1 .. n + 1 : SumFrom(sizes, i) \in Nat
  BY <1>1, SumEquation
<1>4. \A i, j \in 1 .. n + 1 : i <= j => SumFrom(sizes, i) >= SumFrom(sizes, j)
  BY <1>1, SumFalls
<1>. QED BY <1>2, <1>3, <1>4 DEF n

LEMMA ConversationSized ==
    ASSUME NEW c \in Conversations
    PROVE  Sized(c) /\ SameKinds(c, c)
BY WindowAssumption DEF Conversations, Sized, SameKinds

LEMMA AnnotatedSized ==
    ASSUME NEW c \in Conversations, NEW which
    PROVE  Sized(Annotated(c, which)) /\ SameKinds(c, Annotated(c, which))
<1>. DEFINE d == Annotated(c, which)
<1>1. Len(c) \in Nat /\ Len(d) = Len(c)
  BY DEF Conversations, Annotated
<1>2. ASSUME NEW i \in 1 .. Len(c)
      PROVE  d[i].size \in Nat /\ d[i].kind = c[i].kind
  <2>1. c[i] \in Messages
    BY DEF Conversations
  <2>2. DOMAIN c[i] = {"kind", "size", "reads"} /\ c[i].size \in Nat /\ NoteSize \in Nat
    BY <2>1, WindowAssumption
  <2>3. d[i] = IF i \in which THEN [c[i] EXCEPT !.size = NoteSize, !.reads = NoRead] ELSE c[i]
    BY DEF Annotated
  <2>. QED BY <2>2, <2>3
<1>. HIDE DEF d
<1>3. Sized(d) /\ SameKinds(c, d)
  BY <1>1, <1>2 DEF Sized, SameKinds
<1>. QED BY <1>3 DEF d

LEMMA MaxOfTwo ==
    ASSUME NEW a \in Int, NEW b \in Int
    PROVE  Max({a, b}) \in {a, b} /\ Max({a, b}) >= a /\ Max({a, b}) >= b
<1>1. \E x \in {a, b} : \A y \in {a, b} : x >= y
  <2>1. CASE a >= b
    BY <2>1
  <2>2. CASE b >= a
    BY <2>2
  <2>. QED BY <2>1, <2>2
<1>. QED BY <1>1 DEF Max

LEMMA MinOfTwo ==
    ASSUME NEW a \in Int, NEW b \in Int
    PROVE  Min({a, b}) \in {a, b} /\ Min({a, b}) <= a /\ Min({a, b}) <= b
<1>1. \E x \in {a, b} : \A y \in {a, b} : x <= y
  <2>1. CASE a <= b
    BY <2>1
  <2>2. CASE b <= a
    BY <2>2
  <2>. QED BY <2>1, <2>2
<1>. QED BY <1>1 DEF Min

\* The current turn starts after the last text of the assistant.
LEMMA TurnStarts ==
    ASSUME NEW c, Closed(c), NEW d, SameKinds(c, d)
    PROVE  /\ CurrentTurnStart(d) \in 1 .. Len(c)
           /\ \A i \in 1 .. Len(c) : c[i].kind = "text" => i < CurrentTurnStart(d)
           /\ CurrentTurnStart(d) > 1 => c[CurrentTurnStart(d) - 1].kind = "text"
<1>. DEFINE n == Len(c)
            U == {i \in 1 .. n : c[i].kind = "user"}
            T == {0} \cup {i \in 1 .. n : c[i].kind = "text"}
<1>1. n \in Nat /\ n >= 1 /\ c[n].kind = "user"
  BY DEF Closed, Conversations
<1>2. LastUser(d) = n
  <2>1. {i \in 1 .. Len(d) : d[i].kind = "user"} = U
    BY DEF SameKinds
  <2>2. n \in U /\ U \subseteq 0 .. n
    BY <1>1
  <2>3. Max(U) \in U /\ \A y \in U : Max(U) >= y
    <3>. HIDE DEF U, n
    <3>. QED BY <1>1, <2>2, GreatestOf
  <2>4. Max(U) \in 1 .. n /\ Max(U) >= n
    BY <2>2, <2>3
  <2>5. Max(U) = n
    <3>. HIDE DEF U
    <3>. QED BY <1>1, <2>4
  <2>. QED BY <2>1, <2>5 DEF LastUser
<1>3. CurrentTurnStart(d) = Max(T) + 1
  <2>1. {i \in 1 .. n : d[i].kind = "text"} = {i \in 1 .. n : c[i].kind = "text"}
    BY DEF SameKinds
  <2>. QED BY <1>2, <2>1 DEF CurrentTurnStart
<1>4. Max(T) \in T /\ \A y \in T : Max(T) >= y
  <2>1. T \subseteq 0 .. n /\ T # {}
    BY <1>1
  <2>. HIDE DEF T, n
  <2>. QED BY <1>1, <2>1, GreatestOf
<1>5. PICK t \in T : t = Max(T)
  BY <1>4
<1>6. t \in 0 .. n /\ (t > 0 => c[t].kind = "text") /\ \A i \in 1 .. n : c[i].kind = "text" => i <= t
  BY <1>1, <1>4, <1>5
<1>7. t # n
  BY <1>1, <1>6
<1>8. CurrentTurnStart(d) = t + 1
  BY <1>3, <1>5
<1>. HIDE DEF T
<1>9. t + 1 \in 1 .. n /\ (t + 1) - 1 = t /\ (t + 1 > 1 => t > 0) /\ \A i \in 1 .. n : i <= t => i < t + 1
  BY <1>1, <1>6, <1>7
<1>. QED BY <1>6, <1>8, <1>9

LEMMA SameTurn ==
    ASSUME NEW c, Closed(c), NEW d, SameKinds(c, d)
    PROVE  CurrentTurnStart(d) = CurrentTurnStart(c)
<1>1. Len(c) \in Nat /\ Len(d) = Len(c)
  BY DEF Closed, Conversations, SameKinds
<1>2. LastUser(d) = LastUser(c)
  <2>1. {i \in 1 .. Len(d) : d[i].kind = "user"} = {i \in 1 .. Len(c) : c[i].kind = "user"}
    BY DEF SameKinds
  <2>. QED BY <2>1 DEF LastUser
<1>3. LastUser(c) \in 1 .. Len(c)
  <2>1. {i \in 1 .. Len(c) : c[i].kind = "user"} \subseteq 0 .. Len(c)
        /\ Len(c) \in {i \in 1 .. Len(c) : c[i].kind = "user"}
    BY <1>1 DEF Closed
  <2>2. LastUser(c) \in {i \in 1 .. Len(c) : c[i].kind = "user"}
    BY <1>1, <2>1, GreatestOf DEF LastUser
  <2>. QED BY <2>2
<1>4. {i \in 1 .. LastUser(c) : d[i].kind = "text"} = {i \in 1 .. LastUser(c) : c[i].kind = "text"}
  BY <1>1, <1>3 DEF SameKinds
<1>. QED BY <1>2, <1>4 DEF CurrentTurnStart

LEMMA FromUserStops ==
    ASSUME NEW d, NEW first \in Nat, NEW limit \in Nat, first <= limit, NEW prefixed
    PROVE  /\ FromUser(d, first, limit, prefixed) \in first .. limit
           /\ \A i \in first .. limit - 1 :
                 d[i].kind = "user" => FromUser(d, first, limit, prefixed) <= i
<1>. DEFINE T == {limit} \cup {i \in first .. limit - 1 : d[i].kind = "user"}
<1>1. CASE prefixed
  <2>1. T \subseteq Nat /\ T # {} /\ T \subseteq first .. limit
    OBVIOUS
  <2>2. Min(T) \in T /\ \A y \in T : Min(T) <= y
    <3>. HIDE DEF T
    <3>. QED BY <2>1, LeastOf
  <2>3. FromUser(d, first, limit, prefixed) = Min(T)
    BY <1>1 DEF FromUser
  <2>4. \A i \in first .. limit - 1 : d[i].kind = "user" => i \in T
    OBVIOUS
  <2>. HIDE DEF T
  <2>. QED BY <2>1, <2>2, <2>3, <2>4
<1>2. CASE ~prefixed
  BY <1>2 DEF FromUser
<1>. QED BY <1>1, <1>2

\* The oldest message from which a list fits a budget its end fits.
LEMMA FirstFit ==
    ASSUME NEW d, Sized(d), NEW turn \in 1 .. Len(d), NEW budget, Tokens(d, turn) <= budget
    PROVE  LET first == Min({i \in 1 .. turn : Tokens(d, i) <= budget})
           IN  first \in 1 .. turn /\ Tokens(d, first) <= budget
<1>. DEFINE T == {i \in 1 .. turn : Tokens(d, i) <= budget}
<1>1. Len(d) \in Nat
  BY DEF Sized
<1>2. T \subseteq Nat /\ turn \in T
  BY <1>1
<1>3. Min(T) \in T
  <2>. HIDE DEF T
  <2>. QED BY <1>2, LeastOf
<1>. QED BY <1>3

\* tryFit's window, when there is one, holds the turn and fits the budget.
LEMMA TryFitWithin ==
    ASSUME NEW c, Closed(c), NEW d, SameKinds(c, d), Sized(d),
           NEW budget \in Int, TurnFits(d, budget), NEW prefixed
    PROVE  /\ TryFit(d, budget, prefixed) \in 1 .. CurrentTurnStart(d)
           /\ Tokens(d, TryFit(d, budget, prefixed)) <= budget
<1>. DEFINE turn == CurrentTurnStart(d)
            least == Min({i \in 1 .. turn : Tokens(d, i) <= budget})
            first == TryFit(d, budget, prefixed)
<1>1. turn \in 1 .. Len(d) /\ Len(d) \in Nat
  BY TurnStarts DEF SameKinds, Sized
<1>2. least \in 1 .. turn /\ Tokens(d, least) <= budget
  <2>1. Tokens(d, turn) <= budget
    BY DEF TurnFits
  <2>. HIDE DEF turn
  <2>. QED BY <1>1, <2>1, FirstFit
<1>3. first = FromUser(d, least, turn, prefixed)
  BY DEF TryFit
<1>. HIDE DEF turn, least, first
<1>4. first \in least .. turn
  <2>1. least \in Nat /\ turn \in Nat /\ least <= turn
    BY <1>1, <1>2
  <2>. QED BY <1>3, <2>1, FromUserStops
<1>5. first \in 1 .. turn /\ least \in 1 .. Len(d) + 1 /\ first \in 1 .. Len(d) + 1 /\ least <= first
  BY <1>1, <1>2, <1>4
<1>6. Tokens(d, least) \in Nat /\ Tokens(d, first) \in Nat /\ Tokens(d, least) >= Tokens(d, first)
  BY <1>5, TokensCount
<1>7. Tokens(d, first) <= budget
  BY <1>2, <1>6
<1>. QED BY <1>5, <1>7 DEF turn, first

\* The emergency tail holds the turn whatever it weighs.
LEMMA EmergencyWithin ==
    ASSUME NEW c, Closed(c), NEW usable \in Nat, NEW prefixed
    PROVE  EmergencyStart(c, usable, prefixed) \in 1 .. CurrentTurnStart(c)
<1>. DEFINE turn == CurrentTurnStart(c)
            weight == Tokens(c, turn)
            budget == Max({TailBudget(usable), weight})
            least == Min({i \in 1 .. turn : Tokens(c, i) <= budget})
<1>1. c \in Conversations
  BY DEF Closed
<1>2. Sized(c) /\ SameKinds(c, c) /\ Len(c) \in Nat
  BY <1>1, ConversationSized DEF Sized
<1>3. turn \in 1 .. Len(c)
  BY <1>2, TurnStarts
<1>4. weight \in Nat
  <2>1. turn \in 1 .. Len(c) + 1
    BY <1>2, <1>3
  <2>. HIDE DEF turn
  <2>. QED BY <1>2, <2>1, TokensCount
<1>5. TailBudget(usable) \in Int
  <2>1. TailMost \in Int /\ TailLeast \in Int /\ usable \div 4 \in Int
    BY WindowAssumption
  <2>2. Min({TailMost, usable \div 4}) \in Int
    BY <2>1, MinOfTwo
  <2>3. Max({TailLeast, Min({TailMost, usable \div 4})}) \in Int
    BY <2>1, <2>2, MaxOfTwo
  <2>. QED BY <2>3 DEF TailBudget
<1>6. Tokens(c, turn) <= budget
  <2>1. weight \in Int
    BY <1>4
  <2>2. budget >= weight /\ budget \in {TailBudget(usable), weight}
    <3>. HIDE DEF weight
    <3>. QED BY <2>1, <1>5, MaxOfTwo
  <2>. HIDE DEF budget, turn
  <2>. QED BY <1>4, <1>5, <2>2
<1>. HIDE DEF budget
<1>7. least \in 1 .. turn
  <2>. HIDE DEF turn
  <2>. QED BY <1>2, <1>3, <1>6, FirstFit
<1>8. EmergencyStart(c, usable, prefixed) = FromUser(c, least, turn, prefixed)
  BY DEF EmergencyStart, budget
<1>. HIDE DEF turn, least
<1>9. least \in Nat /\ turn \in Nat /\ least <= turn
  BY <1>2, <1>3, <1>7
<1>10. FromUser(c, least, turn, prefixed) \in least .. turn
  BY <1>9, FromUserStops
<1>11. FromUser(c, least, turn, prefixed) \in 1 .. turn
  BY <1>7, <1>9, <1>10
<1>. QED BY <1>8, <1>11 DEF turn

PinTyped(pin) == pin.raw \in Nat /\ pin.total \in Nat /\ pin.budget \in Nat

LEMMA PinnedWithin ==
    ASSUME NEW d, Len(d) \in Nat, NEW pin, PinTyped(pin), NEW prefixed
    PROVE  PinnedStart(d, pin, prefixed) \in 1 .. Len(d) + 1
<1>. DEFINE added == IF Len(d) > pin.total THEN Len(d) - pin.total ELSE 0
            size  == pin.raw + added
            first == IF Len(d) > size THEN Len(d) - size + 1 ELSE 1
<1>1. first \in 1 .. Len(d) + 1
  BY DEF PinTyped
<1>2. PinnedStart(d, pin, prefixed) = FromUser(d, first, Len(d) + 1, prefixed)
  BY DEF PinnedStart
<1>. HIDE DEF first
<1>3. FromUser(d, first, Len(d) + 1, prefixed) \in first .. Len(d) + 1
  <2>1. first \in Nat /\ Len(d) + 1 \in Nat /\ first <= Len(d) + 1
    BY <1>1
  <2>. QED BY <2>1, FromUserStops
<1>. QED BY <1>1, <1>2, <1>3

\* A pin made in a conversation, at or before its current turn.
PinStands(pin, p) ==
    /\ Closed(p) /\ PinTyped(pin)
    /\ pin.total = Len(p) /\ pin.raw \in 1 .. pin.total
    /\ pin.total - pin.raw + 1 <= CurrentTurnStart(p)

\* The turn of a longer conversation starts no earlier.
LEMMA TurnAdvances ==
    ASSUME NEW p, Closed(p), NEW c, Closed(c), Extends(c, p)
    PROVE  CurrentTurnStart(p) <= CurrentTurnStart(c)
<1>1. SameKinds(p, p) /\ SameKinds(c, c)
  BY ConversationSized DEF Closed
<1>2. PICK t : t = CurrentTurnStart(p)
  OBVIOUS
<1>3. PICK u : u = CurrentTurnStart(c)
  OBVIOUS
<1>4. t \in 1 .. Len(p) /\ (t > 1 => p[t - 1].kind = "text")
  BY <1>1, <1>2, TurnStarts
<1>5. u \in 1 .. Len(c) /\ \A i \in 1 .. Len(c) : c[i].kind = "text" => i < u
  BY <1>1, <1>3, TurnStarts
<1>6. Len(p) \in Nat /\ Len(c) \in Nat
  BY DEF Closed, Conversations
<1>7. CASE t = 1
  BY <1>2, <1>3, <1>5, <1>6, <1>7
<1>8. CASE t > 1
  <2>1. t - 1 \in 1 .. Len(p) /\ t - 1 \in 1 .. Len(c)
    BY <1>4, <1>6, <1>8 DEF Extends
  <2>2. c[t - 1].kind = "text"
    BY <1>4, <1>8, <2>1 DEF Extends
  <2>3. t - 1 < u
    BY <1>5, <2>1, <2>2
  <2>. QED BY <1>2, <1>3, <1>4, <1>5, <1>6, <2>3
<1>. QED BY <1>4, <1>6, <1>7, <1>8

\* A window pinned in a conversation that has only grown holds its turn.
LEMMA PinHoldsTurn ==
    ASSUME NEW p, NEW pin, PinStands(pin, p), NEW c, Closed(c), Alternates(c), Extends(c, p),
           NEW d, SameKinds(c, d), NEW prefixed
    PROVE  PinnedStart(d, pin, prefixed) <= CurrentTurnStart(d)
<1>. DEFINE added == IF Len(d) > pin.total THEN Len(d) - pin.total ELSE 0
            size  == pin.raw + added
            first == IF Len(d) > size THEN Len(d) - size + 1 ELSE 1
<1>1. Len(p) \in Nat /\ Len(c) \in Nat /\ Len(d) = Len(c) /\ Len(p) <= Len(c)
  BY DEF PinStands, Closed, Conversations, SameKinds, Extends
<1>2. first = pin.total - pin.raw + 1 /\ first \in Nat
  BY <1>1 DEF PinStands, PinTyped
<1>3. PinnedStart(d, pin, prefixed) = FromUser(d, first, Len(d) + 1, prefixed)
  BY DEF PinnedStart
<1>. HIDE DEF first
<1>4. SameKinds(c, c) /\ SameKinds(p, p)
  BY ConversationSized DEF Closed, PinStands
<1>5. PICK t : t = CurrentTurnStart(d)
  OBVIOUS
<1>6. /\ t \in 1 .. Len(c) /\ (t > 1 => c[t - 1].kind = "text")
      /\ \A i \in 1 .. Len(c) : c[i].kind = "text" => i < t
  BY <1>5, TurnStarts
<1>7. first <= t
  <2>1. CurrentTurnStart(p) \in 1 .. Len(p) /\ CurrentTurnStart(c) \in 1 .. Len(c)
    BY <1>4, TurnStarts DEF PinStands
  <2>2. CurrentTurnStart(p) <= CurrentTurnStart(c)
    BY TurnAdvances DEF PinStands
  <2>3. PICK u : u = CurrentTurnStart(c)
    OBVIOUS
  <2>4. \A i \in 1 .. Len(c) : c[i].kind = "text" => i < u
    BY <1>4, <2>3, TurnStarts
  <2>5. u > 1 => c[u - 1].kind = "text"
    BY <1>4, <2>3, TurnStarts
  <2>6. u \in 1 .. Len(c)
    BY <2>1, <2>3
  <2>7. u <= t
    <3>1. CASE u > 1
      <4>1. u - 1 \in 1 .. Len(c)
        BY <1>1, <2>6, <3>1
      <4>2. u - 1 < t
        BY <1>6, <2>5, <3>1, <4>1
      <4>. QED BY <1>1, <1>6, <2>6, <4>2
    <3>. QED BY <1>1, <1>6, <2>6, <3>1
  <2>8. first <= CurrentTurnStart(p)
    BY <1>2 DEF PinStands
  <2>. QED BY <1>1, <1>2, <1>6, <2>1, <2>2, <2>3, <2>7, <2>8
<1>8. d[t].kind = "user"
  <2>1. CASE t = 1
    BY <1>6, <2>1 DEF Alternates, SameKinds
  <2>2. CASE t > 1
    <3>1. t - 1 \in 1 .. Len(c) - 1 /\ (t - 1) + 1 = t
      BY <1>1, <1>6, <2>2
    <3>2. c[t].kind = "user"
      BY <1>6, <2>2, <3>1 DEF Alternates
    <3>. QED BY <1>6, <3>2 DEF SameKinds
  <2>. QED BY <1>1, <1>6, <2>1, <2>2
<1>9. FromUser(d, first, Len(d) + 1, prefixed) <= t
  <2>1. first \in Nat /\ Len(d) + 1 \in Nat /\ first <= Len(d) + 1 /\ t \in first .. (Len(d) + 1) - 1
    BY <1>1, <1>2, <1>6, <1>7
  <2>. QED BY <1>8, <2>1, FromUserStops
<1>. QED BY <1>3, <1>5, <1>9

-----------------------------------------------------------------------------
(* Budgets.                                                                *)

StateFields == {"known", "knownLtm", "count", "sent", "layer", "force", "estimate", "ltm", "pin", "at",
                "compact"}

StateTyped(st) ==
    /\ StateFields \subseteq DOMAIN st
    /\ st.known \in Nat /\ st.knownLtm \in Nat /\ st.count \in Nat /\ st.sent \in Nat
    /\ st.estimate \in Nat /\ st.ltm \in Nat
    /\ st.force \in {0, 2} /\ st.layer \in Layers
    /\ st.pin = NoPin \/ PinTyped(st.pin)

Counted == overhead \in Nat \cup {NoOverhead}

LEMMA PercentOf ==
    ASSUME NEW n \in Nat, NEW pct \in {15, 20, 25, 40, 50, 55, 70}
    PROVE  Percent(n, pct) \in Nat /\ 100 * Percent(n, pct) <= n * pct
<1>1. CASE pct = 15
  BY <1>1 DEF Percent
<1>2. CASE pct = 20
  BY <1>2 DEF Percent
<1>3. CASE pct = 25
  BY <1>3 DEF Percent
<1>4. CASE pct = 40
  BY <1>4 DEF Percent
<1>5. CASE pct = 50
  BY <1>5 DEF Percent
<1>6. CASE pct = 55
  BY <1>6 DEF Percent
<1>7. CASE pct = 70
  BY <1>7 DEF Percent
<1>. QED BY <1>1, <1>2, <1>3, <1>4, <1>5, <1>6, <1>7

LEMMA UsableCounts ==
    ASSUME limits \in Models, Counted, NEW st, st.ltm \in Nat
    PROVE  MaxInput \in Nat /\ Usable(st) \in Nat /\ Usable(st) <= MaxInput /\ GetOverhead \in Nat
<1>1. MaxInput \in Nat
  BY GradientAssumption DEF MaxInput
<1>2. GetOverhead \in Nat
  BY GradientAssumption DEF GetOverhead, Counted
<1>. QED BY <1>1, <1>2 DEF Usable, NonNeg

LEMMA StageCounts ==
    ASSUME limits \in Models, Counted, NEW st, st.ltm \in Nat, NEW layer \in 1 .. 3
    PROVE  StageRaw(st, layer) \in Nat /\ RawBudget(st) \in Nat /\ StageDistilled(st, layer) \in Nat
<1>1. Usable(st) \in Nat
  BY UsableCounts
<1>2. RawBudget(st) \in Nat
  BY <1>1, PercentOf DEF RawBudget
<1>3. StageRaw(st, layer) \in Nat
  <2>1. CASE layer = 1
    BY <2>1, <1>2 DEF StageRaw
  <2>2. CASE layer = 2
    BY <2>2, <1>1, PercentOf DEF StageRaw
  <2>3. CASE layer = 3
    BY <2>3, <1>1, PercentOf DEF StageRaw
  <2>. QED BY <2>1, <2>2, <2>3
<1>4. StageDistilled(st, layer) \in Nat
  BY <1>1, PercentOf DEF StageDistilled, DistilledBudget
<1>. QED BY <1>2, <1>3, <1>4

LEMMA ShownCounts ==
    ASSUME NEW n \in Nat, NEW layer \in 1 .. 4
    PROVE  RowsShown(layer, n) \in Nat /\ RowsShown(layer, n) <= n /\ (n = 0 => RowsShown(layer, n) = 0)
<1>1. DistLimit \in Nat /\ EmergencyRows \in Nat
  BY GradientAssumption
<1>2. CASE layer \in {1, 2}
  BY <1>2 DEF RowsShown
<1>3. CASE layer = 3
  <2>1. Min({n, DistLimit}) \in {n, DistLimit} /\ Min({n, DistLimit}) <= n
    BY <1>1, MinOfTwo
  <2>2. RowsShown(layer, n) = Min({n, DistLimit})
    BY <1>3 DEF RowsShown
  <2>. QED BY <1>1, <2>1, <2>2
<1>4. CASE layer = 4
  <2>1. Min({n, EmergencyRows}) \in {n, EmergencyRows} /\ Min({n, EmergencyRows}) <= n
    BY <1>1, MinOfTwo
  <2>2. RowsShown(layer, n) = Min({n, EmergencyRows})
    BY <1>4 DEF RowsShown
  <2>. QED BY <1>1, <2>1, <2>2
<1>. QED BY <1>2, <1>3, <1>4

LEMMA PrefixCounts ==
    ASSUME NEW n \in Nat
    PROVE  PrefixTokens(n) \in Nat /\ (n = 0 => PrefixTokens(n) = 0)
<1>1. PrefixBase \in Nat /\ RowSize \in Nat
  BY GradientAssumption
<1>2. n * RowSize \in Nat
  BY <1>1
<1>. QED BY <1>1, <1>2 DEF PrefixTokens

LEMMA PassedCounts ==
    ASSUME limits \in Models, Counted, NEW st, StateTyped(st), NEW c \in Conversations
    PROVE  ExpectedInput(st, c) \in Int /\ PassedTokens(st, c) \in Nat
<1>1. GetOverhead \in Nat /\ st.known \in Nat /\ st.ltm \in Nat /\ st.knownLtm \in Nat
  BY UsableCounts DEF StateTyped
<1>2. Tokens(c, 1) \in Nat
  <2>1. Sized(c) /\ 1 \in 1 .. Len(c) + 1
    BY ConversationSized DEF Sized
  <2>. QED BY <2>1, TokensCount
<1>3. TokensOf(c, NewMessages(st, c)) \in Nat
  <2>. DEFINE new == NewMessages(st, c)
              n == Len(c)
              sizes == [i \in 1 .. n |-> IF i \in new THEN c[i].size ELSE 0]
  <2>1. Sized(c)
    BY ConversationSized
  <2>. HIDE DEF new
  <2>2. n \in Nat /\ sizes \in [1 .. n -> Nat] /\ Len(sizes) = n /\ 1 \in 1 .. n + 1
    BY <2>1 DEF Sized
  <2>3. TokensOf(c, new) = SumFrom(sizes, 1)
    BY DEF TokensOf
  <2>. HIDE DEF sizes, n
  <2>4. SumFrom(sizes, 1) \in Nat
    BY <2>2, SumEquation
  <2>. QED BY <2>3, <2>4 DEF new
<1>4. ExpectedInput(st, c) \in Int
  BY <1>1, <1>2, <1>3 DEF ExpectedInput
<1>5. PassedTokens(st, c) \in Nat
  BY <1>1, <1>4 DEF PassedTokens, NonNeg
<1>. QED BY <1>4, <1>5

\* A compressed layer is one whose stage fits; no layer is below the sticky one.
LEMMA LayerFits ==
    ASSUME NEW st, st.force \in {0, 2}, st.layer \in Layers, NEW c, NEW d, NEW n
    PROVE  LET layer == LayerFor(st, c, d, n)
           IN  /\ layer \in 0 .. 4
               /\ layer \in 1 .. 3 => StageFits(st, d, layer, n)
               /\ layer >= StickyLayer(st, c)
<1>1. StickyLayer(st, c) \in 0 .. 3
  BY DEF StickyLayer
<1>2. MinLayer(st, c) \in Int /\ MinLayer(st, c) >= StickyLayer(st, c)
  <2>. DEFINE idle == IF st.compact THEN 1 ELSE 0
  <2>1. idle \in Int /\ st.force \in Int /\ StickyLayer(st, c) \in Int
    BY <1>1
  <2>2. MinLayer(st, c) = Max({st.force, StickyLayer(st, c), idle})
    BY DEF MinLayer
  <2>3. {st.force, StickyLayer(st, c), idle} = {StickyLayer(st, c), st.force, idle}
    OBVIOUS
  <2>. HIDE DEF idle
  <2>. QED BY <2>1, <2>2, <2>3, MaxOfThree
<1>3. CASE PassesThrough(st, c)
  BY <1>1, <1>2, <1>3 DEF PassesThrough, LayerFor
<1>4. CASE ~PassesThrough(st, c)
  <2>. DEFINE fitting == {layer \in 1 .. 3 : layer >= MinLayer(st, c) /\ StageFits(st, d, layer, n)}
  <2>1. LayerFor(st, c, d, n) = Min({4} \cup fitting)
    BY <1>4 DEF LayerFor
  <2>2. Min({4} \cup fitting) \in {4} \cup fitting
    BY MinOfLayers
  <2>. QED BY <1>1, <1>2, <2>1, <2>2
<1>. QED BY <1>3, <1>4

LEMMA DeduplicatedSized ==
    ASSUME NEW c \in Conversations
    PROVE  Sized(DeduplicateToolOutputs(c)) /\ SameKinds(c, DeduplicateToolOutputs(c))
BY AnnotatedSized DEF DeduplicateToolOutputs

LEMMA StartWithin ==
    ASSUME limits \in Models, Counted, NEW st, StateTyped(st), NEW c, Closed(c), NEW n \in Nat,
           NEW layer \in 0 .. 4, layer = LayerFor(st, c, DeduplicateToolOutputs(c), n)
    PROVE  LET first == StartAt(st, c, layer, n)
               d     == DeduplicateToolOutputs(c)
           IN  /\ first \in 1 .. Len(c) + 1
               /\ layer \in 0 .. 4 /\ ~(layer \in 1 .. 3 /\ Pinned(st, d, layer, n))
                     => first \in 1 .. CurrentTurnStart(c)
               /\ layer \in 1 .. 3 /\ ~Pinned(st, d, layer, n)
                     => Tokens(d, first) <= StageRaw(st, layer)
<1>. DEFINE d == DeduplicateToolOutputs(c)
            first == StartAt(st, c, layer, n)
            behind == n > 0
<1>1. c \in Conversations /\ Len(c) \in Nat
  BY DEF Closed, Conversations
<1>2. Sized(d) /\ SameKinds(c, d) /\ SameKinds(c, c) /\ Len(d) = Len(c)
  BY <1>1, DeduplicatedSized, ConversationSized DEF SameKinds
<1>. HIDE DEF d
<1>3. CurrentTurnStart(c) \in 1 .. Len(c) /\ CurrentTurnStart(d) = CurrentTurnStart(c)
  <2>1. CurrentTurnStart(c) \in 1 .. Len(c)
    BY <1>2, TurnStarts
  <2>2. CurrentTurnStart(d) = CurrentTurnStart(c)
    BY <1>2, SameTurn
  <2>. QED BY <2>1, <2>2
<1>4. CASE layer = 0
  BY <1>1, <1>3, <1>4 DEF StartAt
<1>5. CASE layer = 4
  <2>1. first = EmergencyStart(c, Usable(st), behind)
    BY <1>5 DEF StartAt, WindowStart
  <2>2. Usable(st) \in Nat
    BY UsableCounts DEF StateTyped
  <2>. HIDE DEF first, behind
  <2>3. first \in 1 .. CurrentTurnStart(c)
    BY <2>1, <2>2, EmergencyWithin
  <2>4. first \in 1 .. Len(c) + 1
    BY <1>1, <1>3, <2>3
  <2>. QED BY <1>5, <2>3, <2>4 DEF first
<1>6. CASE layer \in 1 .. 3 /\ Pinned(st, d, layer, n)
  <2>1. layer = 1 /\ PinTyped(st.pin)
    BY <1>6 DEF Pinned, StateTyped
  <2>2. first = PinnedStart(d, st.pin, behind)
    BY <1>6, <2>1 DEF StartAt, WindowStart, d
  <2>. HIDE DEF first, behind
  <2>3. first \in 1 .. Len(c) + 1
    BY <1>1, <1>2, <2>1, <2>2, PinnedWithin
  <2>. QED BY <1>6, <2>1, <2>3 DEF first, d
<1>7. CASE layer \in 1 .. 3 /\ ~Pinned(st, d, layer, n)
  <2>1. layer # 0 /\ layer # 4
    BY <1>7
  <2>2. first = TryFit(d, StageRaw(st, layer), behind)
    BY <1>7, <2>1 DEF StartAt, WindowStart, d
  <2>3. StageFits(st, d, layer, n)
    <3>1. st.force \in {0, 2} /\ st.layer \in Layers
      BY DEF StateTyped
    <3>. QED BY <1>7, <3>1, LayerFits DEF d
  <2>4. TurnFits(d, StageRaw(st, layer))
    BY <1>7, <2>3 DEF StageFits, HasWindow
  <2>5. StageRaw(st, layer) \in Int
    <3>1. st.ltm \in Nat /\ layer \in 1 .. 3
      BY <1>7 DEF StateTyped
    <3>2. StageRaw(st, layer) \in Nat
      BY <3>1, StageCounts
    <3>. QED BY <3>2
  <2>. HIDE DEF first, behind
  <2>6. first \in 1 .. CurrentTurnStart(d) /\ Tokens(d, first) <= StageRaw(st, layer)
    BY <1>2, <2>2, <2>4, <2>5, TryFitWithin
  <2>7. first \in 1 .. Len(c) + 1 /\ first \in 1 .. CurrentTurnStart(c)
    BY <1>1, <1>3, <2>6
  <2>. QED BY <2>1, <2>6, <2>7 DEF first, d
<1>. QED BY <1>4, <1>5, <1>6, <1>7 DEF d

-----------------------------------------------------------------------------
(* What a turn decides.                                                    *)

RequestFields == {"pc", "s", "m", "conv", "layer", "first", "rewritten", "tokens", "input", "calibrated"}

RequestTyped(q) ==
    /\ RequestFields \subseteq DOMAIN q
    /\ q.s \in Sessions /\ q.m \in Models /\ q.input \in Nat
    /\ Closed(q.conv) /\ Alternates(q.conv)

SavedTyped(v) ==
    /\ {"force", "layer", "known", "at"} \subseteq DOMAIN v
    /\ v.layer \in Layers /\ v.known \in Nat

Talked(c) == c \in Conversations /\ (c # <<>> => Alternates(c))

TypedInv ==
    /\ Counted
    /\ conv = [s \in Sessions |-> conv[s]] /\ \A s \in Sessions : Talked(conv[s])
    /\ \A s \in Sessions : SavedTyped(saved[s]) /\ (ses[s] = NoState \/ StateTyped(ses[s]))
    /\ \A s \in dirty : s \in Sessions /\ StateTyped(ses[s])
    /\ \A r \in Requests :
          Active(r) => RequestTyped(req[r]) /\ StateTyped(ses[req[r].s]) /\ limits \in Models

LEMMA TurnBegins ==
    ASSUME PrefixInv, TypedInv, NEW r \in Requests, req[r].pc = "ltm", NEW ltm \in Nat
    PROVE  /\ req[r].s \in Sessions /\ Active(r) /\ limits \in Models /\ RequestTyped(req[r])
           /\ StateTyped(ses[req[r].s]) /\ StateTyped(TurnState(r, ltm))
           /\ Cached(req[r].s)
           /\ TurnRows(r, ltm) \in Nat
           /\ TurnLayer(r, ltm) \in 0 .. 4
           /\ TurnFirst(r, ltm) \in 1 .. Len(req[r].conv) + 1
           /\ TurnShown(r, ltm) \in Nat
           /\ TurnTokens(r, ltm) \in Nat
<1>. DEFINE s == req[r].s
            c == req[r].conv
            st == TurnState(r, ltm)
            n == TurnRows(r, ltm)
            layer == TurnLayer(r, ltm)
            first == TurnFirst(r, ltm)
            d == DeduplicateToolOutputs(c)
<1>1. /\ Active(r) /\ RequestTyped(req[r]) /\ StateTyped(ses[s]) /\ limits \in Models
      /\ Cached(s) /\ Counted
  BY DEF Active, TypedInv, PrefixInv
<1>2. s \in Sessions /\ Closed(c) /\ c \in Conversations /\ Len(c) \in Nat
  BY <1>1 DEF RequestTyped, Closed, Conversations
<1>3. /\ StateTyped(st) /\ st.ltm \in Nat
      /\ {"snapshot", "prefix"} \subseteq DOMAIN st /\ st.snapshot = ses[s].snapshot
  BY <1>1 DEF StateTyped, StateFields, TurnState, Cached, Caches
<1>4. n \in Nat
  <2>1. CASE TurnSnapshot(r, ltm).rows = rows[s]
    <3>1. Rising(rows[s], made)
      BY <1>2 DEF PrefixInv, RowsRise
    <3>. QED BY <2>1, <3>1 DEF TurnRows, Rising
  <2>2. CASE TurnSnapshot(r, ltm).rows = st.snapshot.rows /\ st.snapshot # NoSnapshot
    <3>1. Rising(ses[s].snapshot.rows, made)
      BY <1>1, <1>3, <2>2 DEF Cached, Caches
    <3>. QED BY <1>3, <2>2, <3>1 DEF TurnRows, Rising
  <2>3. TurnSnapshot(r, ltm).rows = rows[s] \/ (TurnSnapshot(r, ltm).rows = st.snapshot.rows /\ st.snapshot # NoSnapshot)
    BY DEF TurnSnapshot, SnapshotFor
  <2>. QED BY <2>1, <2>2, <2>3
<1>5. layer = LayerFor(st, c, d, n) /\ first = StartAt(st, c, layer, n)
  BY DEF TurnLayer, TurnFirst
<1>. HIDE DEF st, n, layer, first, c
<1>6. layer \in 0 .. 4
  <2>1. st.force \in {0, 2} /\ st.layer \in Layers
    BY <1>3 DEF StateTyped
  <2>. QED BY <1>5, <2>1, LayerFits
<1>7. first \in 1 .. Len(c) + 1
  BY <1>1, <1>2, <1>3, <1>4, <1>5, <1>6, StartWithin
<1>8. TurnShown(r, ltm) \in Nat
  <2>1. CASE layer = 0
    BY <2>1 DEF TurnShown, layer
  <2>2. CASE layer # 0
    <3>1. RowsShown(layer, n) \in Nat
      BY <1>4, <1>6, <2>2, ShownCounts
    <3>. QED BY <2>2, <3>1 DEF TurnShown, layer, n
  <2>. QED BY <2>1, <2>2
<1>9. TurnTokens(r, ltm) \in Nat
  <2>1. CASE layer = 0
    <3>1. PassedTokens(st, c) \in Nat
      BY <1>1, <1>2, <1>3, PassedCounts
    <3>. QED BY <2>1, <3>1 DEF TurnTokens, layer, st, c
  <2>2. CASE layer # 0
    <3>. DEFINE e == IF layer = 4 THEN c ELSE d
    <3>1. Sized(e) /\ Len(e) = Len(c)
      BY <1>2, ConversationSized, DeduplicatedSized DEF SameKinds
    <3>. HIDE DEF e
    <3>2. Tokens(e, first) \in Nat
      BY <1>7, <3>1, TokensCount
    <3>3. PrefixTokens(TurnShown(r, ltm)) \in Nat
      BY <1>8, PrefixCounts
    <3>4. TurnTokens(r, ltm) = PrefixTokens(TurnShown(r, ltm)) + Tokens(e, first)
      BY <2>2 DEF TurnTokens, layer, first, e, c
    <3>. QED BY <3>2, <3>3, <3>4
  <2>. QED BY <2>1, <2>2
<1>. QED BY <1>1, <1>2, <1>3, <1>4, <1>6, <1>7, <1>8, <1>9 DEF st, n, layer, first, c

-----------------------------------------------------------------------------
(* Every step keeps the types.                                             *)

\* A step that changes one session's state at most.
LEMMA OneTyped ==
    ASSUME ForceInv, ForceInv', TypedInv, NEW s \in Sessions, NEW new, StateTyped(new),
           ses' = [ses EXCEPT ![s] = new],
           Counted', conv' = [t \in Sessions |-> conv'[t]], \A t \in Sessions : Talked(conv'[t]),
           \A t \in Sessions : SavedTyped(saved'[t]),
           dirty' \subseteq dirty \cup {s},
           \A q \in Requests : Active(q)' =>
              /\ limits' \in Models
              /\ \/ RequestTyped(req'[q]) /\ req'[q].s = s
                 \/ Active(q) /\ req'[q] = req[q]
    PROVE  TypedInv'
<1>1. ses'[s] = new /\ \A t \in Sessions : t # s => ses'[t] = ses[t]
  BY DEF ForceInv
<1>2. \A t \in Sessions : ses'[t] = NoState \/ StateTyped(ses'[t])
  BY <1>1 DEF TypedInv
<1>3. \A t \in dirty' : t \in Sessions /\ StateTyped(ses'[t])
  BY <1>1 DEF TypedInv
<1>4. ASSUME NEW q \in Requests, Active(q)'
      PROVE  RequestTyped(req'[q]) /\ StateTyped(ses'[req'[q].s]) /\ limits' \in Models
  <2>1. CASE RequestTyped(req'[q]) /\ req'[q].s = s
    BY <1>1, <1>4, <2>1
  <2>2. CASE Active(q) /\ req'[q] = req[q]
    <3>1. RequestTyped(req[q]) /\ StateTyped(ses[req[q].s])
      BY <2>2 DEF TypedInv
    <3>2. req[q].s \in Sessions
      BY <3>1 DEF RequestTyped
    <3>. QED BY <1>1, <1>4, <2>2, <3>1, <3>2
  <2>. QED BY <1>4, <2>1, <2>2
<1>5. \A q \in Requests :
         (Active(q) => RequestTyped(req[q]) /\ StateTyped(ses[req[q].s]) /\ limits \in Models)'
  <2>. SUFFICES ASSUME NEW q \in Requests, Active(q)'
                PROVE  RequestTyped(req'[q]) /\ StateTyped(ses'[req'[q].s]) /\ limits' \in Models
    BY DEF RequestTyped, StateTyped, PinTyped, Closed, Alternates
  <2>. QED BY <1>4
<1>6. \A t \in Sessions : SavedTyped(saved'[t]) /\ (ses'[t] = NoState \/ StateTyped(ses'[t]))
  BY <1>2
<1>7. (\A t \in Sessions : Talked(conv[t]) /\ SavedTyped(saved[t]) /\ (ses[t] = NoState \/ StateTyped(ses[t])))'
  BY <1>6 DEF Talked, SavedTyped, StateTyped, PinTyped, Alternates
<1>8. (\A t \in dirty : t \in Sessions /\ StateTyped(ses[t]))'
  BY <1>3 DEF StateTyped, PinTyped
<1>. QED BY <1>5, <1>7, <1>8 DEF TypedInv

\* A step that changes none.
LEMMA NoneTyped ==
    ASSUME ForceInv, TypedInv, ses' = ses, Counted', conv' = conv, dirty' \subseteq dirty,
           \A t \in Sessions : SavedTyped(saved'[t]),
           \A q \in Requests : Active(q)' => Active(q) /\ req'[q] = req[q] /\ limits' = limits
    PROVE  TypedInv'
<1>1. \A q \in Requests :
         (Active(q) => RequestTyped(req[q]) /\ StateTyped(ses[req[q].s]) /\ limits \in Models)'
  <2>. SUFFICES ASSUME NEW q \in Requests, Active(q)'
                PROVE  RequestTyped(req'[q]) /\ StateTyped(ses'[req'[q].s]) /\ limits' \in Models
    BY DEF RequestTyped, StateTyped, PinTyped, Closed, Alternates
  <2>. QED BY DEF TypedInv
<1>2. (\A t \in Sessions : Talked(conv[t]) /\ SavedTyped(saved[t]) /\ (ses[t] = NoState \/ StateTyped(ses[t])))'
  <2>. SUFFICES ASSUME NEW t \in Sessions
                PROVE Talked(conv'[t]) /\ SavedTyped(saved'[t]) /\ (ses'[t] = NoState \/ StateTyped(ses'[t]))
    BY DEF Talked, SavedTyped, StateTyped, PinTyped, Alternates
  <2>. QED BY DEF TypedInv
<1>3. (\A t \in dirty : t \in Sessions /\ StateTyped(ses[t]))'
  <2>. SUFFICES ASSUME NEW t \in dirty' PROVE t \in Sessions /\ StateTyped(ses'[t])
    BY DEF StateTyped, PinTyped
  <2>. QED BY DEF TypedInv
<1>. QED BY <1>1, <1>2, <1>3 DEF TypedInv

LEMMA LastAsked ==
    ASSUME NEW c, Talked(c), c # <<>>, NEW m \in Messages,
           Last(c).kind = "text" => m.kind = "user"
    PROVE  /\ Append(c, m) \in Conversations /\ Alternates(Append(c, m))
           /\ Len(Append(c, m)) = Len(c) + 1 /\ Append(c, m)[Len(c) + 1] = m
           /\ \A i \in 1 .. Len(c) : Append(c, m)[i] = c[i]
<1>. DEFINE d == Append(c, m)
<1>1. c \in Seq(Messages) /\ Len(c) \in Nat /\ Len(c) >= 1
  BY DEF Talked, Conversations
<1>2. d \in Seq(Messages) /\ Len(d) = Len(c) + 1 /\ d[Len(c) + 1] = m /\ \A i \in 1 .. Len(c) : d[i] = c[i]
  BY <1>1, AppendProperties
<1>. HIDE DEF d
<1>3. d[1].kind = "user"
  BY <1>1, <1>2 DEF Talked, Alternates
<1>4. ASSUME NEW i \in 1 .. Len(d) - 1, d[i].kind = "text" PROVE d[i + 1].kind = "user"
  <2>1. CASE i = Len(c)
    BY <1>1, <1>2, <1>4, <2>1 DEF Last
  <2>2. CASE i # Len(c)
    <3>1. i \in 1 .. Len(c) - 1 /\ i \in 1 .. Len(c) /\ i + 1 \in 1 .. Len(c)
      BY <1>1, <1>2, <2>2
    <3>. QED BY <1>2, <1>4, <3>1 DEF Talked, Alternates
  <2>. QED BY <2>1, <2>2
<1>. QED BY <1>2, <1>3, <1>4 DEF Alternates, Conversations, d

LEMMA IncomingClosed ==
    ASSUME NEW s, Talked(conv[s]), NEW c \in Incoming(s)
    PROVE  Closed(c) /\ Alternates(c) /\ Talked(c)
<1>1. CASE c \in Openings
  <2>1. c \in Conversations /\ c # <<>> /\ Alternates(c) /\ Last(c).kind = "user"
    BY <1>1, GradientAssumption
  <2>. QED BY <2>1 DEF Closed, Talked, Conversations, Last
<1>2. CASE conv[s] # <<>> /\ Last(conv[s]).kind = "user" /\ c = conv[s]
  BY <1>2 DEF Closed, Talked, Conversations, Last
<1>3. CASE conv[s] # <<>> /\ \E a \in Asks : c = Append(conv[s], a)
  <2>1. PICK a \in Messages : a.kind = "user" /\ c = Append(conv[s], a)
    BY <1>3 DEF Asks
  <2>2. /\ c \in Conversations /\ Alternates(c) /\ Len(c) = Len(conv[s]) + 1
        /\ c[Len(conv[s]) + 1] = a
    BY <1>3, <2>1, LastAsked
  <2>3. Len(conv[s]) \in Nat
    BY DEF Talked, Conversations
  <2>. QED BY <2>1, <2>2, <2>3 DEF Closed, Talked
<1>. QED BY <1>1, <1>2, <1>3 DEF Incoming

LEMMA FreshTyped ==
    ASSUME NEW s, ForceInv, TypedInv, s \in Sessions
    PROVE  StateTyped(GetSessionState(s))
<1>1. CASE ses[s] # NoState
  BY <1>1 DEF TypedInv, GetSessionState
<1>2. CASE ses[s] = NoState
  <2>1. saved[s].force \in {0, 2} /\ saved[s].layer \in Layers /\ saved[s].known \in Nat
    BY DEF TypedInv, SavedTyped, ForceInv, OnDisk
  <2>2. GetSessionState(s) =
           LET forced == [FreshState EXCEPT !.force = saved[s].force]
           IN  IF saved[s].at = "never" THEN forced
               ELSE [forced EXCEPT !.layer = saved[s].layer, !.known = saved[s].known, !.at = saved[s].at]
    BY <1>2 DEF GetSessionState
  <2>. DEFINE v == saved[s]
              forced == [FreshState EXCEPT !.force = v.force]
  <2>3. StateFields \subseteq DOMAIN forced /\ forced.known = 0 /\ forced.knownLtm = 0
        /\ forced.count = 0 /\ forced.sent = 0 /\ forced.estimate = 0 /\ forced.ltm = 0
        /\ forced.force = v.force /\ forced.layer = 0 /\ forced.pin = NoPin
    BY DEF FreshState, StateFields
  <2>. HIDE DEF forced
  <2>4. StateTyped(forced)
    BY <2>1, <2>3 DEF StateTyped, Layers
  <2>5. StateTyped([forced EXCEPT !.layer = v.layer, !.known = v.known, !.at = v.at])
    BY <2>1, <2>4 DEF StateTyped, StateFields
  <2>. QED BY <2>2, <2>4, <2>5 DEF forced
<1>. QED BY <1>1, <1>2

LEMMA ArriveTyped ==
    ASSUME ForceInv, TypedInv, NEW r \in Requests, NEW s \in Sessions, NEW m \in Models, NEW c, NEW warm,
           Arrive(r, s, m, c, warm)
    PROVE  TypedInv'
<1>. DEFINE st == GetSessionState(s)
            new == IF st.at # "old" THEN st
                   ELSE [st EXCEPT !.snapshot = NoSnapshot, !.prefix = NoPrefix,
                                   !.pin = NoPin, !.compact = ~warm]
            asked == [NoRequest EXCEPT !.pc = "ltm", !.s = s, !.m = m, !.conv = c]
<1>0. ForceInv'
  BY ArriveKeeps
<1>1. StateTyped(st)
  BY FreshTyped
<1>. HIDE DEF st
<1>2. StateTyped(new)
  BY <1>1 DEF StateTyped, StateFields
<1>3. /\ ses' = [ses EXCEPT ![s] = new] /\ req' = [req EXCEPT ![r] = asked]
      /\ conv' = [conv EXCEPT ![s] = c] /\ limits' = m /\ c \in Incoming(s)
      /\ UNCHANGED <<overhead, dirty, saved>>
  BY DEF Arrive, st
<1>. HIDE DEF new
<1>4. Closed(c) /\ Alternates(c) /\ Talked(c)
  BY <1>3, IncomingClosed DEF TypedInv
<1>5. RequestTyped(asked) /\ asked.s = s
  BY <1>4 DEF RequestTyped, RequestFields, NoRequest
<1>. HIDE DEF asked
<1>6. Counted' /\ \A t \in Sessions : SavedTyped(saved'[t])
  BY <1>3 DEF TypedInv, Counted
<1>7. conv' = [t \in Sessions |-> conv'[t]] /\ \A t \in Sessions : Talked(conv'[t])
  <2>1. \A t \in Sessions : conv'[t] = IF t = s THEN c ELSE conv[t]
    BY <1>3 DEF TypedInv
  <2>2. conv' = [t \in Sessions |-> conv'[t]]
    BY <1>3 DEF TypedInv
  <2>. QED BY <1>4, <2>1, <2>2 DEF TypedInv
<1>8. \A q \in Requests : Active(q)' =>
         /\ limits' \in Models
         /\ \/ RequestTyped(req'[q]) /\ req'[q].s = s
            \/ Active(q) /\ req'[q] = req[q]
  BY <1>3, <1>5 DEF ForceInv, Active
<1>. QED BY <1>0, <1>2, <1>3, <1>6, <1>7, <1>8, OneTyped

LEMMA TransformTyped ==
    ASSUME ForceInv, PrefixInv, TypedInv, NEW r \in Requests, NEW ltm \in LtmSizes, Transform(r, ltm)
    PROVE  TypedInv'
<1>. DEFINE s     == req[r].s
            c     == req[r].conv
            st    == TurnState(r, ltm)
            layer == TurnLayer(r, ltm)
            first == TurnFirst(r, ltm)
            shown == TurnShown(r, ltm)
            d     == DeduplicateToolOutputs(c)
<1>0. ForceInv' /\ req[r].pc = "ltm" /\ ltm \in Nat
  BY TransformKeeps, GradientAssumption DEF Transform
<1>1. /\ s \in Sessions /\ Active(r) /\ limits \in Models /\ RequestTyped(req[r])
      /\ StateTyped(ses[s]) /\ StateTyped(st) /\ layer \in 0 .. 4
      /\ first \in 1 .. Len(c) + 1 /\ shown \in Nat /\ TurnTokens(r, ltm) \in Nat
      /\ TurnRows(r, ltm) \in Nat
  BY <1>0, TurnBegins
<1>2. PICK new, sent :
        /\ ses' = [ses EXCEPT ![s] = new] /\ req' = [req EXCEPT ![r] = sent]
        /\ DOMAIN new = DOMAIN ses[s] /\ DOMAIN sent = DOMAIN req[r]
        /\ "force" \in DOMAIN new => new.force = 0
        /\ "pin" \in DOMAIN new => new.pin = PinFor(st, d, layer, TurnRows(r, ltm), first)
        /\ "s" \in DOMAIN sent => sent.s = s
        /\ "conv" \in DOMAIN sent => sent.conv = c
        /\ "layer" \in DOMAIN new => new.layer = layer
        /\ "ltm" \in DOMAIN new => new.ltm = ltm
        /\ "estimate" \in DOMAIN new => new.estimate = TurnTokens(r, ltm)
        /\ "sent" \in DOMAIN new => new.sent = Len(c) - first + 1 + (IF shown > 0 THEN 2 ELSE 0)
        /\ \A f \in {"known", "knownLtm", "count"} : f \in DOMAIN new => new[f] = ses[s][f]
        /\ "m" \in DOMAIN sent => sent.m = req[r].m
        /\ "input" \in DOMAIN sent =>
              sent.input = PrefixTokens(shown) + Tokens(Annotated(c, TurnEdited(r, ltm)), first)
  BY TransformWrites
<1>3. c \in Conversations /\ Len(c) \in Nat
  BY <1>1 DEF RequestTyped, Closed, Conversations
<1>4. PrefixTokens(shown) + Tokens(Annotated(c, TurnEdited(r, ltm)), first) \in Nat
  <2>. DEFINE e == Annotated(c, TurnEdited(r, ltm))
  <2>1. Sized(e) /\ Len(e) = Len(c)
    BY <1>3, AnnotatedSized DEF SameKinds
  <2>. HIDE DEF e, first, shown, c
  <2>2. Tokens(e, first) \in Nat
    BY <1>1, <2>1, TokensCount
  <2>3. PrefixTokens(shown) \in Nat
    BY <1>1, PrefixCounts
  <2>. QED BY <2>2, <2>3 DEF e
<1>5. PinFor(st, d, layer, TurnRows(r, ltm), first) = NoPin
      \/ PinTyped(PinFor(st, d, layer, TurnRows(r, ltm), first))
  <2>1. Len(d) = Len(c)
    BY <1>3, DeduplicatedSized DEF SameKinds
  <2>2. RawBudget(st) \in Nat
    <3>1. st.ltm \in Nat /\ Counted
      BY <1>1 DEF StateTyped, TypedInv
    <3>2. 1 \in 1 .. 3
      OBVIOUS
    <3>. HIDE DEF st
    <3>. QED BY <1>1, <3>1, <3>2, StageCounts
  <2>. HIDE DEF st, d, layer, first, c
  <2>3. Len(d) - first + 1 \in Nat
    BY <1>1, <1>3, <2>1
  <2>4. PinTyped([raw |-> Len(d) - first + 1, total |-> Len(d), budget |-> RawBudget(st)])
    BY <1>3, <2>1, <2>2, <2>3 DEF PinTyped
  <2>5. st.pin = NoPin \/ PinTyped(st.pin)
    BY <1>1 DEF StateTyped
  <2>. QED BY <1>1, <2>4, <2>5 DEF PinFor
<1>. HIDE DEF st, d, layer, first, shown
<1>6. StateTyped(new)
  <2>1. StateFields \subseteq DOMAIN new
    BY <1>1, <1>2 DEF StateTyped
  <2>2. new.known = ses[s].known /\ new.knownLtm = ses[s].knownLtm /\ new.count = ses[s].count
    BY <1>2, <2>1 DEF StateFields
  <2>3. new.sent = Len(c) - first + 1 + (IF shown > 0 THEN 2 ELSE 0)
    BY <1>2, <2>1 DEF StateFields
  <2>4. new.sent \in Nat
    <3>1. Len(c) \in Nat /\ first \in 1 .. Len(c) + 1
      BY <1>1, <1>3
    <3>. HIDE DEF c
    <3>2. Len(c) - first + 1 \in Nat /\ Len(c) - first + 1 + 2 \in Nat
      BY <3>1
    <3>. QED BY <2>3, <3>2
  <2>5. /\ new.estimate \in Nat /\ new.ltm \in Nat /\ new.force = 0 /\ new.layer \in Layers
        /\ new.pin = NoPin \/ PinTyped(new.pin)
    BY <1>0, <1>1, <1>2, <1>5, <2>1 DEF StateFields, Layers
  <2>. QED BY <1>1, <2>1, <2>2, <2>4, <2>5 DEF StateTyped
<1>7. RequestTyped(sent) /\ sent.s = s
  <2>1. RequestFields \subseteq DOMAIN sent
    BY <1>1, <1>2 DEF RequestTyped
  <2>2. sent.s = s /\ sent.conv = c /\ sent.m = req[r].m /\ sent.input \in Nat
    BY <1>2, <1>4, <2>1 DEF RequestFields
  <2>. QED BY <1>1, <2>1, <2>2 DEF RequestTyped
<1>8. UNCHANGED <<limits, overhead, dirty, conv>> /\ saved' = [saved EXCEPT ![s].force = 0]
  BY DEF Transform
<1>9. \A t \in Sessions : SavedTyped(saved'[t])
  BY <1>1, <1>8 DEF TypedInv, SavedTyped, ForceInv
<1>10. Counted' /\ conv' = [t \in Sessions |-> conv'[t]] /\ \A t \in Sessions : Talked(conv'[t])
  BY <1>8 DEF TypedInv, Counted
<1>11. \A q \in Requests : Active(q)' =>
         /\ limits' \in Models
         /\ \/ RequestTyped(req'[q]) /\ req'[q].s = s
            \/ Active(q) /\ req'[q] = req[q]
  BY <1>1, <1>2, <1>7, <1>8 DEF ForceInv, Active
<1>. QED BY <1>0, <1>1, <1>2, <1>6, <1>8, <1>9, <1>10, <1>11, OneTyped

LEMMA RefreshTyped ==
    ASSUME ForceInv, TypedInv, NEW r \in Requests, NEW ltm \in LtmSizes, RefreshLtm(r, ltm)
    PROVE  TypedInv'
<1>. DEFINE s == req[r].s
            new == [ses[s] EXCEPT !.ltm = ltm]
            sent == [req[r] EXCEPT !.pc = "waiting"]
<1>0. ForceInv' /\ ltm \in Nat
  BY RefreshKeeps, GradientAssumption
<1>1. Active(r) /\ RequestTyped(req[r]) /\ StateTyped(ses[s]) /\ limits \in Models /\ s \in Sessions
  BY DEF TypedInv, RefreshLtm, Active, RequestTyped
<1>2. StateTyped(new)
  BY <1>0, <1>1 DEF StateTyped, StateFields
<1>3. RequestTyped(sent) /\ sent.s = s
  BY <1>1 DEF RequestTyped, RequestFields
<1>4. /\ ses' = [ses EXCEPT ![s] = new] /\ req' = [req EXCEPT ![r] = sent]
      /\ UNCHANGED <<limits, overhead, dirty, saved, conv>>
  BY DEF RefreshLtm, ForceInv
<1>. HIDE DEF new, sent
<1>5. Counted' /\ conv' = [t \in Sessions |-> conv'[t]] /\ \A t \in Sessions : Talked(conv'[t])
  BY <1>4 DEF TypedInv, Counted
<1>6. \A t \in Sessions : SavedTyped(saved'[t])
  BY <1>4 DEF TypedInv
<1>7. \A q \in Requests : Active(q)' =>
         /\ limits' \in Models
         /\ \/ RequestTyped(req'[q]) /\ req'[q].s = s
            \/ Active(q) /\ req'[q] = req[q]
  BY <1>1, <1>3, <1>4 DEF ForceInv, Active
<1>. QED BY <1>0, <1>1, <1>2, <1>4, <1>5, <1>6, <1>7, OneTyped

LEMMA AnswerTyped ==
    ASSUME ForceInv, TypedInv, NEW r \in Requests, NEW reply \in Replies, NEW extra \in Extras,
           NEW calls \in Calls, NEW bust, Answer(r, reply, extra, calls, bust)
    PROVE  TypedInv'
<1>. DEFINE s == req[r].s
            actual == calls * (req[r].input + ses[s].ltm + extra)
            above  == NonNeg(actual - ses[s].estimate)
            new == RecordCacheUsage(Calibrate(ses[s], actual), bust)
<1>0. ForceInv'
  BY AnswerKeeps
<1>1. Active(r) /\ RequestTyped(req[r]) /\ StateTyped(ses[s]) /\ limits \in Models /\ s \in Sessions
  BY DEF TypedInv, Answer, Active, RequestTyped
<1>2. actual \in Nat
  <2>1. PICK k \in Nat : k = calls
    BY GradientAssumption
  <2>2. PICK sum \in Nat : sum = req[r].input + ses[s].ltm + extra
    <3>1. req[r].input \in Nat /\ ses[s].ltm \in Nat
      BY <1>1 DEF RequestTyped, StateTyped
    <3>2. extra \in Nat
      BY GradientAssumption
    <3>. QED BY <3>1, <3>2
  <2>3. k * sum \in Nat
    OBVIOUS
  <2>. QED BY <2>1, <2>2, <2>3
<1>3. /\ ses' = [ses EXCEPT ![s] = new]
      /\ overhead' = IF ses[s].estimate = 0 THEN overhead
                     ELSE IF overhead = NoOverhead THEN above ELSE Blend(overhead, above)
  BY Zenon DEF Answer
<1>4. /\ req' = [req EXCEPT ![r] = NoRequest] /\ saved' = saved /\ limits' = limits
      /\ dirty' = dirty \cup {s}
      /\ conv' = IF conv[s] = req[r].conv THEN [conv EXCEPT ![s] = Append(@, reply)] ELSE conv
  BY DEF Answer
<1>. HIDE DEF actual
<1>5. StateTyped(new)
  <2>. DEFINE given == [ses[s] EXCEPT !.known = actual, !.knownLtm = ses[s].ltm, !.count = ses[s].sent]
              busts == IF bust THEN Min({given.busts + 1, BustLimit}) ELSE 0
  <2>1. new = [given EXCEPT !.busts = busts]
    BY DEF RecordCacheUsage, Calibrate
  <2>2. StateTyped(given)
    BY <1>1, <1>2 DEF StateTyped, StateFields
  <2>. HIDE DEF given, busts, new
  <2>. QED BY <2>1, <2>2 DEF StateTyped, StateFields
<1>6. Counted'
  <2>1. above \in Nat
    BY <1>1, <1>2 DEF NonNeg, StateTyped
  <2>. HIDE DEF above
  <2>2. overhead # NoOverhead => overhead \in Nat /\ Blend(overhead, above) \in Nat
    BY <2>1 DEF TypedInv, Counted, Blend
  <2>. QED BY <1>3, <2>1, <2>2 DEF TypedInv, Counted
<1>. HIDE DEF new
<1>7. conv' = [t \in Sessions |-> conv'[t]] /\ \A t \in Sessions : Talked(conv'[t])
  <2>1. CASE conv[s] # req[r].conv
    BY <1>4, <2>1 DEF TypedInv
  <2>2. CASE conv[s] = req[r].conv
    <3>. DEFINE c == conv[s]
    <3>1. Talked(c) /\ c # <<>> /\ Last(c).kind = "user"
      BY <1>1, <2>2 DEF TypedInv, RequestTyped, Closed, Last
    <3>2. reply \in Messages
      BY GradientAssumption
    <3>3. Append(c, reply) \in Conversations /\ Alternates(Append(c, reply))
      BY <3>1, <3>2, LastAsked
    <3>4. conv' = [conv EXCEPT ![s] = Append(c, reply)]
      BY <1>4, <2>2
    <3>. HIDE DEF c
    <3>5. \A t \in Sessions : conv'[t] = IF t = s THEN Append(c, reply) ELSE conv[t]
      BY <3>4 DEF TypedInv
    <3>6. conv' = [t \in Sessions |-> conv'[t]]
      BY <3>4 DEF TypedInv
    <3>. QED BY <3>3, <3>5, <3>6 DEF TypedInv, Talked
  <2>. QED BY <2>1, <2>2
<1>8. \A t \in Sessions : SavedTyped(saved'[t])
  BY <1>4 DEF TypedInv
<1>9. \A q \in Requests : Active(q)' =>
         /\ limits' \in Models
         /\ \/ RequestTyped(req'[q]) /\ req'[q].s = s
            \/ Active(q) /\ req'[q] = req[q]
  BY <1>1, <1>4, RequestEnds DEF ForceInv, Active
<1>10. dirty' \subseteq dirty \cup {s}
  BY <1>4
<1>. QED BY <1>0, <1>1, <1>3, <1>5, <1>6, <1>7, <1>8, <1>9, <1>10, OneTyped

LEMMA OverflowTyped ==
    ASSUME ForceInv, TypedInv, NEW r \in Requests, Overflow(r)
    PROVE  TypedInv'
<1>. DEFINE s == req[r].s
            new == [ses[s] EXCEPT !.force = 2]
<1>0. ForceInv'
  BY OverflowKeeps
<1>1. Active(r) /\ RequestTyped(req[r]) /\ StateTyped(ses[s]) /\ limits \in Models /\ s \in Sessions
  BY DEF TypedInv, Overflow, Active, RequestTyped
<1>2. StateTyped(new)
  BY <1>1 DEF StateTyped, StateFields
<1>3. /\ ses' = [ses EXCEPT ![s] = new] /\ req' = [req EXCEPT ![r] = NoRequest]
      /\ saved' = [saved EXCEPT ![s].force = 2]
      /\ UNCHANGED <<limits, overhead, dirty, conv>>
  BY DEF Overflow, ForceInv
<1>. HIDE DEF new
<1>4. Counted' /\ conv' = [t \in Sessions |-> conv'[t]] /\ \A t \in Sessions : Talked(conv'[t])
  BY <1>3 DEF TypedInv, Counted
<1>5. \A t \in Sessions : SavedTyped(saved'[t])
  BY <1>1, <1>3 DEF TypedInv, SavedTyped, ForceInv
<1>6. \A q \in Requests : Active(q)' =>
         /\ limits' \in Models
         /\ \/ RequestTyped(req'[q]) /\ req'[q].s = s
            \/ Active(q) /\ req'[q] = req[q]
  BY <1>1, <1>3, RequestEnds DEF ForceInv, Active
<1>. QED BY <1>0, <1>1, <1>2, <1>3, <1>4, <1>5, <1>6, OneTyped

LEMMA IdleTyped ==
    ASSUME ForceInv, TypedInv, NEW s \in Sessions, IdleTime(s)
    PROVE  TypedInv'
<1>. DEFINE new == [ses[s] EXCEPT !.at = "old"]
            aged == [saved[s] EXCEPT !.at = Aged(saved[s].at)]
<1>0. ForceInv'
  BY IdleKeeps
<1>1. /\ saved' = [saved EXCEPT ![s] = aged] /\ aged.layer = saved[s].layer /\ aged.known = saved[s].known
      /\ DOMAIN aged = DOMAIN saved[s]
  BY DEF IdleTime, TypedInv, SavedTyped, ForceInv
<1>. HIDE DEF aged
<1>2. \A t \in Sessions : SavedTyped(saved'[t])
  BY <1>1 DEF TypedInv, SavedTyped, ForceInv
<1>3. UNCHANGED <<limits, overhead, dirty, conv, req>>
  BY DEF IdleTime
<1>4. Counted' /\ conv' = [t \in Sessions |-> conv'[t]] /\ \A t \in Sessions : Talked(conv'[t])
  BY <1>3 DEF TypedInv, Counted
<1>5. \A q \in Requests : Active(q)' =>
         limits' = limits /\ limits' \in Models /\ Active(q) /\ req'[q] = req[q]
  BY <1>3 DEF Active, TypedInv
<1>6. CASE ses[s] = NoState
  <2>1. ses' = ses
    BY <1>6 DEF IdleTime
  <2>. QED BY <1>2, <1>3, <1>4, <1>5, <2>1, NoneTyped
<1>7. CASE ses[s] # NoState
  <2>1. ses' = [ses EXCEPT ![s] = new]
    BY <1>7 DEF IdleTime, ForceInv
  <2>2. StateTyped(ses[s])
    BY <1>7 DEF TypedInv
  <2>3. StateTyped(new)
    BY <2>2 DEF StateTyped, StateFields
  <2>. HIDE DEF new
  <2>4. dirty' \subseteq dirty \cup {s}
    BY <1>3
  <2>. QED BY <1>0, <1>2, <1>4, <1>5, <2>1, <2>3, <2>4, OneTyped
<1>. QED BY <1>6, <1>7

LEMMA TickTyped ==
    ASSUME ForceInv, TypedInv, Tick
    PROVE  TypedInv'
<1>1. /\ saved' = [s \in Sessions |-> IF s \in dirty THEN SavedGradient(s) ELSE saved[s]]
      /\ UNCHANGED <<limits, overhead, conv, ses, req>> /\ dirty' = {}
  BY DEF Tick
<1>2. ASSUME NEW s \in Sessions PROVE SavedTyped(saved'[s])
  <2>1. CASE s \in dirty
    <3>1. StateTyped(ses[s]) /\ SavedTyped(saved[s])
      BY <2>1 DEF TypedInv
    <3>2. SavedTyped(SavedGradient(s))
      BY <3>1 DEF SavedGradient, SavedTyped, StateTyped
    <3>. QED BY <1>1, <2>1, <3>2
  <2>2. CASE s \notin dirty
    BY <1>1, <2>2 DEF TypedInv
  <2>. QED BY <2>1, <2>2
<1>3. Counted'
  BY <1>1 DEF TypedInv, Counted
<1>4. \A q \in Requests : Active(q)' => Active(q) /\ req'[q] = req[q] /\ limits' = limits
  BY <1>1 DEF Active
<1>. QED BY <1>1, <1>2, <1>3, <1>4, NoneTyped

LEMMA OtherTyped ==
    ASSUME ForceInv, TypedInv, UNCHANGED <<limits, overhead, conv, ses, saved, dirty>>,
           \A q \in Requests : Active(q)' => Active(q) /\ req'[q] = req[q]
    PROVE  TypedInv'
<1>1. Counted' /\ \A t \in Sessions : SavedTyped(saved'[t])
  BY DEF TypedInv, Counted
<1>. QED BY <1>1, NoneTyped

LEMMA RestartTyped ==
    ASSUME ForceInv, TypedInv, Restart
    PROVE  TypedInv'
<1>1. /\ ses' = [s \in Sessions |-> NoState] /\ req' = [r \in Requests |-> NoRequest]
      /\ dirty' = {} /\ overhead' = NoOverhead /\ UNCHANGED <<saved, conv>>
  BY DEF Restart
<1>2. \A q \in Requests : ~Active(q)'
  BY <1>1, RequestEnds DEF Active
<1>3. Counted'
  BY <1>1 DEF Counted
<1>4. (\A t \in Sessions : Talked(conv[t]) /\ SavedTyped(saved[t]) /\ (ses[t] = NoState \/ StateTyped(ses[t])))'
  <2>. SUFFICES ASSUME NEW t \in Sessions
                PROVE Talked(conv'[t]) /\ SavedTyped(saved'[t]) /\ ses'[t] = NoState
    BY DEF Talked, SavedTyped, StateTyped, PinTyped, Alternates
  <2>. QED BY <1>1 DEF TypedInv
<1>. QED BY <1>1, <1>2, <1>3, <1>4 DEF TypedInv

LEMMA InitTyped == Init => TypedInv
<1>. SUFFICES ASSUME Init PROVE TypedInv
  OBVIOUS
<1>1. /\ overhead = NoOverhead /\ dirty = {} /\ conv = [s \in Sessions |-> <<>>]
      /\ \A s \in Sessions : ses[s] = NoState
  BY DEF Init
<1>2. \A s \in Sessions : SavedTyped(saved[s])
  <2>1. \A s \in Sessions : saved[s] = [force |-> 0, layer |-> 0, known |-> 0, at |-> "never"]
    BY DEF Init
  <2>. QED BY <2>1 DEF SavedTyped, Layers
<1>3. \A q \in Requests : ~Active(q)
  BY RequestEnds DEF Active, Init
<1>4. Talked(<<>>)
  BY DEF Talked, Conversations
<1>. QED BY <1>1, <1>2, <1>3, <1>4 DEF TypedInv, Counted

LEMMA StepTyped == ForceInv /\ PrefixInv /\ TypedInv /\ [Next]_vars => TypedInv'
<1>. SUFFICES ASSUME ForceInv, PrefixInv, TypedInv, [Next]_vars PROVE TypedInv'
  OBVIOUS
<1>1. CASE \E r \in Requests, s \in Sessions, m \in Models, warm \in BOOLEAN :
              \E c \in Incoming(s) : Arrive(r, s, m, c, warm)
  BY <1>1, ArriveTyped
<1>2. CASE \E r \in Requests, ltm \in LtmSizes : Transform(r, ltm)
  BY <1>2, TransformTyped
<1>3. CASE \E r \in Requests, ltm \in LtmSizes : RefreshLtm(r, ltm)
  BY <1>3, RefreshTyped
<1>4. CASE \E r \in Requests, reply \in Replies, extra \in Extras, n \in Calls, bust \in BOOLEAN :
              Answer(r, reply, extra, n, bust)
  BY <1>4, AnswerTyped
<1>5. CASE \E r \in Requests : Fail(r)
  <2>1. PICK r \in Requests : req' = [req EXCEPT ![r] = NoRequest]
    BY <1>5 DEF Fail
  <2>2. UNCHANGED <<limits, overhead, conv, ses, saved, dirty>>
    BY <1>5 DEF Fail
  <2>3. \A q \in Requests : Active(q)' => Active(q) /\ req'[q] = req[q]
    BY <2>1, RequestEnds DEF ForceInv, Active
  <2>. QED BY <2>2, <2>3, OtherTyped
<1>6. CASE \E r \in Requests : Overflow(r)
  BY <1>6, OverflowTyped
<1>7. CASE \E s \in Sessions : IdleTime(s)
  BY <1>7, IdleTyped
<1>8. CASE \/ \E s \in Sessions : Distil(s) \/ Consolidate(s)
           \/ \E s \in Sessions, i \in 1 .. MaxRows : DeleteRow(s, i)
           \/ UNCHANGED vars
  <2>1. UNCHANGED <<limits, overhead, conv, ses, saved, dirty, req>>
    BY <1>8 DEF Distil, Consolidate, DeleteRow, vars
  <2>2. \A q \in Requests : Active(q)' => Active(q) /\ req'[q] = req[q]
    BY <2>1 DEF Active
  <2>. QED BY <2>1, <2>2, OtherTyped
<1>9. CASE Tick
  BY <1>9, TickTyped
<1>10. CASE Restart
  BY <1>10, RestartTyped
<1>. QED BY <1>1, <1>2, <1>3, <1>4, <1>5, <1>6, <1>7, <1>8, <1>9, <1>10 DEF Next

-----------------------------------------------------------------------------
(* The history of a session.                                               *)

\* What a session remembers of its last window and of its last answer is no
\* longer than the conversations they were given in, and a window that was
\* pinned in a conversation that has only grown is at or before its turn.
Tracks(st, past, last) ==
    /\ st.sent <= Len(past.last) + 2
    /\ last # <<>> => st.count <= Len(last) + 2
    /\ past.straight /\ st.pin # NoPin => PinStands(st.pin, past.conv)

Tracked(s) == Tracks(ses[s], trail[s], answered[s])

HistInv ==
    /\ \A s \in Sessions : Len(trail[s].last) \in Nat /\ Len(answered[s]) \in Nat
    /\ \A s \in Sessions : ses[s] = NoState \/ Tracked(s)
    /\ \A r \in Requests : Active(r) => Tracked(req[r].s)

\* Which step a request's change of phase is.
LEMMA WhichStep ==
    ASSUME ForceInv, PrefixInv, TypedInv, [Next]_vars, NEW q \in Requests
    PROVE  /\ Transforming(q) => \E ltm \in LtmSizes : Transform(q, ltm)
           /\ Answering(q) =>
                 \E reply \in Replies, extra \in Extras, n \in Calls, bust \in BOOLEAN :
                    Answer(q, reply, extra, n, bust)
<1>. DEFINE Quiet == ~Transforming(q) /\ ~Answering(q)
<1>1. req'[q] = req[q] => Quiet
  BY DEF Transforming, Answering, Sent
<1>2. CASE \E r \in Requests, s \in Sessions, m \in Models, warm \in BOOLEAN :
              \E c \in Incoming(s) : Arrive(r, s, m, c, warm)
  <2>1. PICK r \in Requests : req[r].pc = "idle" /\ \A p \in Requests : p # r => req'[p] = req[p]
    BY <1>2 DEF Arrive, Active, ForceInv
  <2>. QED BY <1>1, <2>1 DEF Transforming, Answering
<1>3. CASE \E r \in Requests, ltm \in LtmSizes : Transform(r, ltm)
  <2>1. PICK r \in Requests, ltm \in LtmSizes : Transform(r, ltm)
    BY <1>3
  <2>2. req[r].pc = "ltm" /\ \A p \in Requests : p # r => req'[p] = req[p]
    BY <2>1 DEF Transform, ForceInv
  <2>3. CASE q = r
    BY <2>1, <2>2, <2>3 DEF Answering
  <2>. QED BY <1>1, <2>2, <2>3
<1>4. CASE \E r \in Requests, ltm \in LtmSizes : RefreshLtm(r, ltm)
  <2>1. PICK r \in Requests : req[r].pc = "refresh" /\ \A p \in Requests : p # r => req'[p] = req[p]
    BY <1>4 DEF RefreshLtm, ForceInv
  <2>. QED BY <1>1, <2>1 DEF Transforming, Answering
<1>5. CASE \E r \in Requests, reply \in Replies, extra \in Extras, n \in Calls, bust \in BOOLEAN :
              Answer(r, reply, extra, n, bust)
  <2>1. PICK r \in Requests, reply \in Replies, extra \in Extras, n \in Calls, bust \in BOOLEAN :
           Answer(r, reply, extra, n, bust)
    BY <1>5
  <2>2. req[r].pc = "waiting" /\ \A p \in Requests : p # r => req'[p] = req[p]
    BY <2>1 DEF Answer, ForceInv
  <2>3. CASE q = r
    BY <2>1, <2>2, <2>3 DEF Transforming
  <2>. QED BY <1>1, <2>2, <2>3
<1>6. CASE \E r \in Requests : Fail(r)
  <2>1. PICK r \in Requests : /\ req[r].pc = "waiting" /\ ses' = ses
                              /\ \A p \in Requests : p # r => req'[p] = req[p]
    BY <1>6 DEF Fail, ForceInv
  <2>2. CASE q = r
    BY <2>1, <2>2 DEF Transforming, Answering
  <2>. QED BY <1>1, <2>1, <2>2
<1>7. CASE \E r \in Requests : Overflow(r)
  <2>1. PICK r \in Requests : Overflow(r)
    BY <1>7
  <2>2. /\ req[r].pc = "waiting" /\ \A p \in Requests : p # r => req'[p] = req[p]
        /\ ses' = [ses EXCEPT ![req[r].s].force = 2]
    BY <2>1 DEF Overflow, ForceInv
  <2>3. StateTyped(ses[req[r].s]) /\ req[r].s \in Sessions
    BY <2>2 DEF TypedInv, Active, RequestTyped
  <2>4. ses'[req[r].s].known = ses[req[r].s].known /\ ses'[req[r].s].count = ses[req[r].s].count
    BY <2>2, <2>3 DEF StateTyped, StateFields, ForceInv
  <2>5. CASE q = r
    BY <2>2, <2>4, <2>5 DEF Transforming, Answering
  <2>. QED BY <1>1, <2>2, <2>5
<1>8. CASE \/ \E s \in Sessions : IdleTime(s) \/ Distil(s) \/ Consolidate(s)
           \/ \E s \in Sessions, i \in 1 .. MaxRows : DeleteRow(s, i)
           \/ Tick \/ UNCHANGED vars
  <2>1. req' = req
    BY <1>8 DEF IdleTime, Distil, Consolidate, DeleteRow, Tick, vars
  <2>. QED BY <1>1, <2>1
<1>9. CASE Restart
  <2>1. req'[q].pc = "idle" /\ dirty' = {}
    BY <1>9, RequestEnds DEF Restart
  <2>. QED BY <2>1 DEF Transforming, Answering, Sent
<1>. QED BY <1>2, <1>3, <1>4, <1>5, <1>6, <1>7, <1>8, <1>9 DEF Next

\* A transform is one request's.
LEMMA TransformAlone ==
    ASSUME ForceInv, PrefixInv, TypedInv, NEW r \in Requests, NEW ltm \in LtmSizes, Transform(r, ltm)
    PROVE  /\ Transforming(r)
           /\ \A q \in Requests : q # r => ~Transforming(q)
           /\ \A q \in Requests : ~Answering(q)
<1>1. req[r].pc = "ltm" /\ \A p \in Requests : p # r => req'[p] = req[p]
  BY DEF Transform, ForceInv
<1>2. RequestTyped(req[r]) /\ TurnLayer(r, ltm) \in 0 .. 4
  <2>1. ltm \in Nat
    BY GradientAssumption
  <2>. QED BY <1>1, <2>1, TurnBegins
<1>3. PICK sent : /\ req' = [req EXCEPT ![r] = sent] /\ DOMAIN sent = DOMAIN req[r]
                  /\ "pc" \in DOMAIN sent => sent.pc = IF TurnLayer(r, ltm) = 4 THEN "refresh" ELSE "waiting"
  BY TransformWrites
<1>4. req'[r].pc \in {"refresh", "waiting"}
  BY <1>2, <1>3 DEF RequestTyped, RequestFields, ForceInv
<1>5. \A q \in Requests : q # r => ~Transforming(q) /\ ~Answering(q)
  BY <1>1 DEF Transforming, Answering, Sent
<1>. QED BY <1>1, <1>4, <1>5 DEF Transforming, Answering, Sent

LEMMA TrailStays ==
    ASSUME HistoryNext, NEW s \in Sessions, \A q \in Requests : req[q].s = s => ~Transforming(q)
    PROVE  trail'[s] = trail[s]
<1>1. {r \in Requests : req[r].s = s /\ Transforming(r)} = {}
  OBVIOUS
<1>. QED BY <1>1 DEF HistoryNext

LEMMA AnsweredStays ==
    ASSUME HistoryNext, NEW s \in Sessions, \A q \in Requests : req[q].s = s => ~Answering(q)
    PROVE  answered'[s] = answered[s]
<1>1. {r \in Requests : req[r].s = s /\ Answering(r)} = {}
  OBVIOUS
<1>. QED BY <1>1 DEF HistoryNext

LEMMA TrailMoves ==
    ASSUME HistoryNext, NEW r \in Requests, NEW s \in Sessions, req[r].s = s, Transforming(r),
           \A q \in Requests : q # r => ~Transforming(q)
    PROVE  trail'[s] = [conv |-> IF ses'[s].pin = ses[s].pin THEN trail[s].conv ELSE req[r].conv,
                        straight |-> Straight(s, req[r].conv), last |-> req[r].conv]
<1>. DEFINE mine == {q \in Requests : req[q].s = s /\ Transforming(q)}
<1>1. mine = {r}
  OBVIOUS
<1>2. mine # {} /\ (CHOOSE q \in mine : TRUE) = r
  <2>. HIDE DEF mine
  <2>. QED BY <1>1
<1>3. trail'[s] = IF mine = {} THEN trail[s]
                  ELSE LET c == req[CHOOSE q \in mine : TRUE].conv
                       IN  [conv |-> IF ses'[s].pin = ses[s].pin THEN trail[s].conv ELSE c,
                            straight |-> Straight(s, c), last |-> c]
  BY DEF HistoryNext
<1>. HIDE DEF mine
<1>. QED BY <1>2, <1>3

LEMMA AnsweredMoves ==
    ASSUME HistoryNext, NEW r \in Requests, NEW s \in Sessions, req[r].s = s, Answering(r),
           \A q \in Requests : q # r => ~Answering(q)
    PROVE  answered'[s] = IF req[r].conv = trail[s].last THEN req[r].conv ELSE <<>>
<1>. DEFINE mine == {q \in Requests : req[q].s = s /\ Answering(q)}
<1>1. mine = {r}
  OBVIOUS
<1>2. mine # {} /\ (CHOOSE q \in mine : TRUE) = r
  <2>. HIDE DEF mine
  <2>. QED BY <1>1
<1>3. answered'[s] = IF mine = {} THEN answered[s]
                     ELSE LET c == req[CHOOSE q \in mine : TRUE].conv
                          IN  IF c = trail[s].last THEN c ELSE <<>>
  BY DEF HistoryNext
<1>. HIDE DEF mine
<1>. QED BY <1>2, <1>3

\* In a conversation that has only grown the window holds the turn.
LEMMA StartHoldsTurn ==
    ASSUME PrefixInv, TypedInv, HistInv, NEW r \in Requests, req[r].pc = "ltm", NEW ltm \in Nat,
           Straight(req[r].s, req[r].conv)
    PROVE  TurnFirst(r, ltm) \in 1 .. CurrentTurnStart(req[r].conv)
<1>. DEFINE s == req[r].s
            c == req[r].conv
            st == TurnState(r, ltm)
            n == TurnRows(r, ltm)
            layer == TurnLayer(r, ltm)
            first == TurnFirst(r, ltm)
            d == DeduplicateToolOutputs(c)
            behind == n > 0
<1>1. /\ s \in Sessions /\ Active(r) /\ limits \in Models /\ RequestTyped(req[r]) /\ Counted
      /\ StateTyped(ses[s]) /\ StateTyped(st) /\ n \in Nat /\ layer \in 0 .. 4
      /\ first \in 1 .. Len(c) + 1
  BY TurnBegins DEF TypedInv
<1>2. Closed(c) /\ Alternates(c) /\ c \in Conversations
  BY <1>1 DEF RequestTyped, Closed
<1>3. st.pin = ses[s].pin
  BY <1>1 DEF TurnState, StateTyped, StateFields
<1>4. layer = LayerFor(st, c, d, n) /\ first = StartAt(st, c, layer, n)
  BY DEF TurnLayer, TurnFirst
<1>5. Tracked(s)
  BY <1>1 DEF HistInv
<1>6. SameKinds(c, d)
  BY <1>2, DeduplicatedSized
<1>. HIDE DEF st, n, layer, first, c
<1>7. CASE layer \in 1 .. 3 /\ Pinned(st, d, layer, n)
  <2>1. layer = 1 /\ st.pin # NoPin
    BY <1>7 DEF Pinned
  <2>2. first = PinnedStart(d, st.pin, behind)
    BY <1>4, <1>7, <2>1 DEF StartAt, WindowStart
  <2>3. trail[s].straight /\ Extends(c, trail[s].conv)
    BY <1>3, <2>1 DEF Straight, c
  <2>4. PinStands(st.pin, trail[s].conv)
    BY <1>3, <1>5, <2>1, <2>3 DEF Tracked, Tracks
  <2>. HIDE DEF d, behind
  <2>5. PinnedStart(d, st.pin, behind) <= CurrentTurnStart(d)
    BY <1>2, <1>6, <2>3, <2>4, PinHoldsTurn
  <2>6. CurrentTurnStart(d) = CurrentTurnStart(c)
    BY <1>2, <1>6, SameTurn
  <2>7. first <= CurrentTurnStart(c)
    BY <2>2, <2>5, <2>6
  <2>8. CurrentTurnStart(c) \in 1 .. Len(c) /\ Len(c) \in Nat
    <3>1. SameKinds(c, c)
      BY <1>2, ConversationSized
    <3>. QED BY <1>2, <3>1, TurnStarts DEF Conversations
  <2>9. first \in 1 .. CurrentTurnStart(c)
    BY <1>1, <2>7, <2>8
  <2>. QED BY <2>9 DEF first, c
<1>8. CASE ~(layer \in 1 .. 3 /\ Pinned(st, d, layer, n))
  <2>1. first \in 1 .. CurrentTurnStart(c)
    BY <1>1, <1>2, <1>4, <1>8, StartWithin
  <2>. QED BY <2>1 DEF first, c
<1>. QED BY <1>7, <1>8

LEMMA TransformHistory ==
    ASSUME ForceInv, PrefixInv, TypedInv, HistInv, HistoryNext,
           NEW r \in Requests, NEW ltm \in LtmSizes, Transform(r, ltm)
    PROVE  /\ Tracks(ses'[req[r].s], trail'[req[r].s], answered'[req[r].s])
           /\ Len(trail'[req[r].s].last) \in Nat
           /\ trail'[req[r].s].straight =>
                 /\ req'[r].first <= CurrentTurnStart(req'[r].conv)
                 /\ \A i \in req'[r].rewritten : i < CurrentTurnStart(req'[r].conv)
<1>. DEFINE s     == req[r].s
            c     == req[r].conv
            st    == TurnState(r, ltm)
            n     == TurnRows(r, ltm)
            layer == TurnLayer(r, ltm)
            first == TurnFirst(r, ltm)
            shown == TurnShown(r, ltm)
            d     == DeduplicateToolOutputs(c)
            turn  == CurrentTurnStart(c)
            pin   == PinFor(st, d, layer, n, first)
            size  == Len(c) - first + 1 + (IF shown > 0 THEN 2 ELSE 0)
<1>0. ltm \in Nat /\ req[r].pc = "ltm"
  BY GradientAssumption DEF Transform
<1>1. /\ s \in Sessions /\ Active(r) /\ limits \in Models /\ RequestTyped(req[r]) /\ Counted
      /\ StateTyped(ses[s]) /\ StateTyped(st) /\ n \in Nat /\ layer \in 0 .. 4
      /\ first \in 1 .. Len(c) + 1 /\ shown \in Nat
  BY <1>0, TurnBegins DEF TypedInv
<1>2. Closed(c) /\ Alternates(c) /\ c \in Conversations /\ Len(c) \in Nat
  BY <1>1 DEF RequestTyped, Closed, Conversations
<1>3. st.pin = ses[s].pin
  BY <1>1 DEF TurnState, StateTyped, StateFields
<1>4. PICK new, sent :
        /\ ses' = [ses EXCEPT ![s] = new] /\ req' = [req EXCEPT ![r] = sent]
        /\ DOMAIN new = DOMAIN ses[s] /\ DOMAIN sent = DOMAIN req[r]
        /\ "pin" \in DOMAIN new => new.pin = pin
        /\ "conv" \in DOMAIN sent => sent.conv = c
        /\ "first" \in DOMAIN sent => sent.first = first
        /\ "rewritten" \in DOMAIN sent => sent.rewritten = {i \in TurnEdited(r, ltm) : i >= first}
        /\ "sent" \in DOMAIN new => new.sent = size
        /\ \A f \in {"known", "knownLtm", "count"} : f \in DOMAIN new => new[f] = ses[s][f]
  BY TransformWrites
<1>5. /\ ses'[s] = new /\ new.pin = pin /\ new.sent = size /\ new.count = ses[s].count
      /\ req'[r].conv = c /\ req'[r].first = first
      /\ req'[r].rewritten = {i \in TurnEdited(r, ltm) : i >= first}
  <2>1. StateFields \subseteq DOMAIN new /\ RequestFields \subseteq DOMAIN sent
    BY <1>1, <1>4 DEF StateTyped, RequestTyped
  <2>2. ses'[s] = new /\ req'[r] = sent
    BY <1>1, <1>4 DEF ForceInv
  <2>. HIDE DEF c, first, pin, size
  <2>. QED BY <1>4, <2>1, <2>2 DEF StateFields, RequestFields
<1>6. /\ trail'[s].conv = IF pin = ses[s].pin THEN trail[s].conv ELSE c
      /\ trail'[s].straight = Straight(s, c) /\ trail'[s].last = c
  <2>1. trail'[s] = [conv |-> IF ses'[s].pin = ses[s].pin THEN trail[s].conv ELSE c,
                     straight |-> Straight(s, c), last |-> c]
    BY <1>1, TrailMoves, TransformAlone
  <2>. HIDE DEF c, pin
  <2>. QED BY <1>5, <2>1
<1>7. answered'[s] = answered[s]
  BY <1>1, AnsweredStays, TransformAlone
<1>8. Tracked(s) /\ Len(answered[s]) \in Nat
  BY <1>1 DEF HistInv
<1>9. size <= Len(c) + 2
  <2>. HIDE DEF c, first, shown
  <2>. QED BY <1>1, <1>2
<1>10. ASSUME Straight(s, c) PROVE first \in 1 .. turn
  <2>. QED BY <1>0, <1>10, StartHoldsTurn
<1>11. turn \in 1 .. Len(c)
  <2>1. SameKinds(c, c)
    BY <1>2, ConversationSized
  <2>. QED BY <1>2, <2>1, TurnStarts
<1>12. ASSUME Straight(s, c), pin # NoPin PROVE PinStands(pin, trail'[s].conv)
  <2>1. CASE pin = ses[s].pin
    <3>1. trail[s].straight
      BY <1>12, <2>1 DEF Straight
    <3>. QED BY <1>6, <1>8, <1>12, <2>1, <3>1 DEF Tracked, Tracks
  <2>2. CASE pin # ses[s].pin
    <3>1. Len(d) = Len(c)
      BY <1>2, DeduplicatedSized DEF SameKinds
    <3>2. pin = [raw |-> Len(d) - first + 1, total |-> Len(d), budget |-> RawBudget(st)]
      <4>. HIDE DEF st, d, layer, first, n
      <4>. QED BY <1>1, <1>3, <1>12, <2>2 DEF PinFor
    <3>3. RawBudget(st) \in Nat
      <4>1. st.ltm \in Nat
        BY <1>1 DEF StateTyped
      <4>2. 1 \in 1 .. 3
        OBVIOUS
      <4>. HIDE DEF st
      <4>. QED BY <1>1, <4>1, <4>2, StageCounts
    <3>4. trail'[s].conv = c
      BY <1>6, <2>2
    <3>. HIDE DEF pin, c, first, turn, d, st
    <3>5. first \in 1 .. turn /\ turn \in 1 .. Len(c) /\ Len(c) \in Nat
      BY <1>2, <1>10, <1>11, <1>12
    <3>6. /\ pin.raw = Len(c) - first + 1 /\ pin.total = Len(c) /\ pin.budget \in Nat
      BY <3>1, <3>2, <3>3
    <3>7. pin.raw \in 1 .. pin.total /\ pin.total - pin.raw + 1 = first
      BY <3>5, <3>6
    <3>8. pin.total - pin.raw + 1 <= turn
      BY <3>5, <3>7
    <3>9. PinTyped(pin)
      BY <3>5, <3>6, <3>7 DEF PinTyped
    <3>. QED BY <1>2, <3>4, <3>6, <3>7, <3>8, <3>9 DEF PinStands, turn
  <2>. QED BY <2>1, <2>2
<1>13. ASSUME NEW i \in TurnEdited(r, ltm) PROVE i < turn
  <2>1. i \in 1 .. turn - 1
    BY DEF TurnEdited, Repeated, Stripped
  <2>. QED BY <1>11, <2>1
<1>. HIDE DEF c, first, pin, size, turn
<1>14. Tracks(ses'[s], trail'[s], answered'[s])
  <2>1. answered'[s] # <<>> => ses'[s].count <= Len(answered'[s]) + 2
    BY <1>5, <1>7, <1>8 DEF Tracked, Tracks
  <2>2. ses'[s].sent <= Len(trail'[s].last) + 2
    BY <1>5, <1>6, <1>9
  <2>3. trail'[s].straight /\ ses'[s].pin # NoPin => PinStands(ses'[s].pin, trail'[s].conv)
    BY <1>5, <1>6, <1>12
  <2>. QED BY <2>1, <2>2, <2>3 DEF Tracks
<1>15. ASSUME trail'[s].straight
       PROVE  /\ req'[r].first <= CurrentTurnStart(req'[r].conv)
              /\ \A i \in req'[r].rewritten : i < CurrentTurnStart(req'[r].conv)
  <2>1. first \in 1 .. turn /\ CurrentTurnStart(req'[r].conv) = turn
    BY <1>5, <1>6, <1>10, <1>15 DEF turn
  <2>2. first <= turn
    BY <1>11, <2>1
  <2>. QED BY <1>5, <1>13, <2>1, <2>2
<1>. QED BY <1>2, <1>6, <1>14, <1>15

\* A step that changes the state and the history of one session at most.
LEMMA OneTracks ==
    ASSUME ForceInv, HistInv, NEW s \in Sessions, NEW new, ses' = [ses EXCEPT ![s] = new],
           Tracks(new, trail'[s], answered'[s]),
           Len(trail'[s].last) \in Nat, Len(answered'[s]) \in Nat,
           \A t \in Sessions : t # s => trail'[t] = trail[t] /\ answered'[t] = answered[t],
           \A q \in Requests : Active(q)' => req'[q].s = s \/ (Active(q) /\ req'[q].s = req[q].s)
    PROVE  HistInv'
<1>1. ses'[s] = new /\ \A t \in Sessions : t # s => ses'[t] = ses[t]
  BY DEF ForceInv
<1>2. Tracked(s)' /\ \A t \in Sessions : t # s => (Tracked(t)' <=> Tracked(t))
  BY <1>1 DEF Tracked
<1>3. \A t \in Sessions : (ses[t] = NoState \/ Tracked(t))'
  BY <1>1, <1>2 DEF HistInv
<1>4. \A q \in Requests : (Active(q) => Tracked(req[q].s))'
  <2>. SUFFICES ASSUME NEW q \in Requests, Active(q)'
                PROVE  Tracks(ses'[req'[q].s], trail'[req'[q].s], answered'[req'[q].s])
    BY DEF Tracked
  <2>1. CASE req'[q].s = s
    BY <1>1, <2>1
  <2>2. CASE req'[q].s # s
    <3>1. Active(q) /\ req'[q].s = req[q].s /\ req[q].s \in Sessions
      BY <2>2 DEF ForceInv, Shaped
    <3>2. Tracks(ses[req[q].s], trail[req[q].s], answered[req[q].s])
      BY <3>1 DEF HistInv, Tracked
    <3>. QED BY <1>1, <2>2, <3>1, <3>2
  <2>. QED BY <2>1, <2>2
<1>5. (\A t \in Sessions : Len(trail[t].last) \in Nat /\ Len(answered[t]) \in Nat)'
  BY DEF HistInv
<1>. QED BY <1>3, <1>4, <1>5 DEF HistInv

LEMMA NoneTracks ==
    ASSUME ForceInv, HistInv, ses' = ses,
           \A t \in Sessions : trail'[t] = trail[t] /\ answered'[t] = answered[t],
           \A q \in Requests : Active(q)' => Active(q) /\ req'[q].s = req[q].s
    PROVE  HistInv'
<1>1. \A t \in Sessions : Tracked(t)' <=> Tracked(t)
  BY DEF Tracked
<1>2. \A q \in Requests : (Active(q) => Tracked(req[q].s))'
  BY <1>1 DEF HistInv, ForceInv, Shaped
<1>3. (\A t \in Sessions : Len(trail[t].last) \in Nat /\ Len(answered[t]) \in Nat)'
  BY DEF HistInv
<1>. QED BY <1>1, <1>2, <1>3 DEF HistInv

\* A state with the same counts and the same pin, or none.
LEMMA SameTracks ==
    ASSUME NEW st, NEW past, NEW last, Tracks(st, past, last), NEW new,
           new.sent = st.sent, new.count = st.count, new.pin = st.pin \/ new.pin = NoPin
    PROVE  Tracks(new, past, last)
BY DEF Tracks

LEMMA QuietHistory ==
    ASSUME HistoryNext, \A q \in Requests : ~Transforming(q) /\ ~Answering(q)
    PROVE  \A t \in Sessions : trail'[t] = trail[t] /\ answered'[t] = answered[t]
BY TrailStays, AnsweredStays

LEMMA ArriveHistory ==
    ASSUME ForceInv, PrefixInv, TypedInv, HistInv, HistoryNext, NEW r \in Requests, NEW s \in Sessions,
           NEW m \in Models, NEW c, NEW warm, Arrive(r, s, m, c, warm)
    PROVE  HistInv'
<1>. DEFINE st == GetSessionState(s)
            new == IF st.at # "old" THEN st
                   ELSE [st EXCEPT !.snapshot = NoSnapshot, !.prefix = NoPrefix,
                                   !.pin = NoPin, !.compact = ~warm]
            asked == [NoRequest EXCEPT !.pc = "ltm", !.s = s, !.m = m, !.conv = c]
<1>1. req[r].pc = "idle" /\ \A q \in Requests : q # r => req'[q] = req[q]
  BY DEF Arrive, Active, ForceInv
<1>2. \A q \in Requests : ~Transforming(q) /\ ~Answering(q)
  BY <1>1 DEF Transforming, Answering, Sent
<1>3. \A t \in Sessions : trail'[t] = trail[t] /\ answered'[t] = answered[t]
  BY <1>2, QuietHistory
<1>4. Tracks(st, trail[s], answered[s])
  <2>1. CASE ses[s] # NoState
    BY <2>1 DEF HistInv, Tracked, GetSessionState
  <2>2. CASE ses[s] = NoState
    <3>1. st.sent = 0 /\ st.count = 0 /\ st.pin = NoPin
      BY <2>2 DEF GetSessionState, FreshState
    <3>2. Len(trail[s].last) \in Nat /\ Len(answered[s]) \in Nat
      BY DEF HistInv
    <3>. HIDE DEF st
    <3>. QED BY <3>1, <3>2 DEF Tracks
  <2>. QED BY <2>1, <2>2
<1>5. StateTyped(st)
  BY FreshTyped
<1>. HIDE DEF st
<1>6. new.sent = st.sent /\ new.count = st.count /\ (new.pin = st.pin \/ new.pin = NoPin)
  BY <1>5 DEF StateTyped, StateFields
<1>7. ses' = [ses EXCEPT ![s] = new] /\ req' = [req EXCEPT ![r] = asked] /\ asked.s = s
  BY DEF Arrive, st, NoRequest
<1>. HIDE DEF new, asked
<1>8. Tracks(new, trail'[s], answered'[s])
  BY <1>3, <1>4, <1>6, SameTracks
<1>9. Len(trail'[s].last) \in Nat /\ Len(answered'[s]) \in Nat
  BY <1>3 DEF HistInv
<1>10. \A q \in Requests : Active(q)' => req'[q].s = s \/ (Active(q) /\ req'[q].s = req[q].s)
  BY <1>7 DEF ForceInv, Active
<1>. QED BY <1>3, <1>7, <1>8, <1>9, <1>10, OneTracks

\* A step that changes neither the counts nor the pin.
LEMMA LightHistory ==
    ASSUME ForceInv, TypedInv, HistInv, HistoryNext, NEW s \in Sessions,
           NEW new, ses' = [ses EXCEPT ![s] = new], Tracked(s),
           new.sent = ses[s].sent, new.count = ses[s].count, new.pin = ses[s].pin,
           \A q \in Requests : ~Transforming(q) /\ ~Answering(q),
           \A q \in Requests : Active(q)' => Active(q) /\ req'[q].s = req[q].s
    PROVE  HistInv'
<1>1. \A t \in Sessions : trail'[t] = trail[t] /\ answered'[t] = answered[t]
  BY QuietHistory
<1>2. Tracks(ses[s], trail[s], answered[s])
  BY DEF Tracked
<1>3. Tracks(new, trail'[s], answered'[s])
  BY <1>1, <1>2, SameTracks
<1>4. Len(trail'[s].last) \in Nat /\ Len(answered'[s]) \in Nat
  BY <1>1 DEF HistInv
<1>. QED BY <1>1, <1>3, <1>4, OneTracks

LEMMA RefreshHistory ==
    ASSUME ForceInv, TypedInv, HistInv, HistoryNext, NEW r \in Requests, NEW ltm, RefreshLtm(r, ltm)
    PROVE  HistInv'
<1>. DEFINE s == req[r].s
            new == [ses[s] EXCEPT !.ltm = ltm]
            sent == [req[r] EXCEPT !.pc = "waiting"]
<1>1. /\ Active(r) /\ RequestTyped(req[r]) /\ StateTyped(ses[s]) /\ s \in Sessions /\ Tracked(s)
      /\ req[r].pc = "refresh"
  BY DEF TypedInv, HistInv, RefreshLtm, Active, RequestTyped
<1>2. new.sent = ses[s].sent /\ new.count = ses[s].count /\ new.pin = ses[s].pin
  BY <1>1 DEF StateTyped, StateFields
<1>3. sent.s = s
  BY <1>1 DEF RequestTyped, RequestFields
<1>4. ses' = [ses EXCEPT ![s] = new] /\ req' = [req EXCEPT ![r] = sent]
  BY DEF RefreshLtm, ForceInv
<1>. HIDE DEF new, sent
<1>5. \A q \in Requests : q # r => req'[q] = req[q]
  BY <1>4 DEF ForceInv
<1>6. \A q \in Requests : ~Transforming(q) /\ ~Answering(q)
  BY <1>1, <1>5 DEF Transforming, Answering, Sent
<1>7. \A q \in Requests : Active(q)' => Active(q) /\ req'[q].s = req[q].s
  BY <1>1, <1>3, <1>4 DEF ForceInv, Active
<1>. QED BY <1>1, <1>2, <1>4, <1>6, <1>7, LightHistory

LEMMA OverflowHistory ==
    ASSUME ForceInv, PrefixInv, TypedInv, HistInv, HistoryNext, NEW r \in Requests, Overflow(r),
           \A q \in Requests : ~Transforming(q) /\ ~Answering(q)
    PROVE  HistInv'
<1>. DEFINE s == req[r].s
            new == [ses[s] EXCEPT !.force = 2]
<1>1. Active(r) /\ StateTyped(ses[s]) /\ s \in Sessions /\ Tracked(s)
  BY DEF TypedInv, HistInv, Overflow, Active, RequestTyped
<1>2. new.sent = ses[s].sent /\ new.count = ses[s].count /\ new.pin = ses[s].pin
  BY <1>1 DEF StateTyped, StateFields
<1>3. ses' = [ses EXCEPT ![s] = new] /\ req' = [req EXCEPT ![r] = NoRequest]
  BY DEF Overflow, ForceInv
<1>. HIDE DEF new
<1>4. \A q \in Requests : Active(q)' => Active(q) /\ req'[q].s = req[q].s
  BY <1>3, RequestEnds DEF ForceInv, Active
<1>. QED BY <1>1, <1>2, <1>3, <1>4, LightHistory

LEMMA IdleHistory ==
    ASSUME ForceInv, TypedInv, HistInv, HistoryNext, NEW s \in Sessions, IdleTime(s),
           \A q \in Requests : ~Transforming(q) /\ ~Answering(q)
    PROVE  HistInv'
<1>. DEFINE new == [ses[s] EXCEPT !.at = "old"]
<1>1. \A q \in Requests : Active(q)' => Active(q) /\ req'[q].s = req[q].s
  BY DEF IdleTime, Active
<1>2. CASE ses[s] = NoState
  <2>1. ses' = ses
    BY <1>2 DEF IdleTime
  <2>. QED BY <1>1, <2>1, NoneTracks, QuietHistory
<1>3. CASE ses[s] # NoState
  <2>1. ses' = [ses EXCEPT ![s] = new]
    BY <1>3 DEF IdleTime, ForceInv
  <2>2. StateTyped(ses[s]) /\ Tracked(s)
    BY <1>3 DEF TypedInv, HistInv
  <2>3. new.sent = ses[s].sent /\ new.count = ses[s].count /\ new.pin = ses[s].pin
    BY <2>2 DEF StateTyped, StateFields
  <2>. HIDE DEF new
  <2>. QED BY <1>1, <2>1, <2>2, <2>3, LightHistory
<1>. QED BY <1>2, <1>3

LEMMA AnswerHistory ==
    ASSUME ForceInv, PrefixInv, TypedInv, HistInv, HistoryNext, NEW r \in Requests, NEW reply,
           NEW extra, NEW calls, NEW bust, Answer(r, reply, extra, calls, bust)
    PROVE  HistInv'
<1>. DEFINE s == req[r].s
            c == req[r].conv
            actual == calls * (req[r].input + ses[s].ltm + extra)
            new == RecordCacheUsage(Calibrate(ses[s], actual), bust)
<1>1. /\ Active(r) /\ RequestTyped(req[r]) /\ StateTyped(ses[s]) /\ s \in Sessions /\ Tracked(s)
      /\ req[r].pc = "waiting"
  BY DEF TypedInv, HistInv, Answer, Active, RequestTyped
<1>2. ses' = [ses EXCEPT ![s] = new]
  BY Zenon DEF Answer
<1>3. req' = [req EXCEPT ![r] = NoRequest] /\ dirty' = dirty \cup {s}
  BY DEF Answer
<1>. HIDE DEF actual
<1>4. new.sent = ses[s].sent /\ new.count = ses[s].sent /\ new.pin = ses[s].pin
  <2>. DEFINE given == [ses[s] EXCEPT !.known = actual, !.knownLtm = ses[s].ltm, !.count = ses[s].sent]
              busts == IF bust THEN Min({given.busts + 1, BustLimit}) ELSE 0
  <2>1. new = [given EXCEPT !.busts = busts]
    BY DEF RecordCacheUsage, Calibrate
  <2>2. /\ given.sent = ses[s].sent /\ given.count = ses[s].sent /\ given.pin = ses[s].pin
        /\ StateFields \subseteq DOMAIN given
    BY <1>1 DEF StateTyped, StateFields
  <2>. HIDE DEF given, busts, new
  <2>. QED BY <2>1, <2>2 DEF StateFields
<1>. HIDE DEF new
<1>5. \A q \in Requests : q # r => req'[q] = req[q]
  BY <1>3 DEF ForceInv
<1>6. \A q \in Requests : ~Transforming(q) /\ (q # r => ~Answering(q))
  BY <1>1, <1>5 DEF Transforming, Answering, Sent
<1>7. \A t \in Sessions : trail'[t] = trail[t] /\ (t # s => answered'[t] = answered[t])
  BY <1>6, TrailStays, AnsweredStays
<1>8. Len(trail[s].last) \in Nat /\ Len(answered[s]) \in Nat /\ Len(c) \in Nat /\ Len(<<>>) = 0
  BY <1>1 DEF HistInv, RequestTyped, Closed, Conversations
<1>9. CASE Answering(r)
  <2>1. answered'[s] = IF c = trail[s].last THEN c ELSE <<>>
    BY <1>1, <1>6, <1>9, AnsweredMoves
  <2>2. Len(answered'[s]) \in Nat
    BY <1>8, <2>1
  <2>3. new.count <= Len(trail[s].last) + 2 /\ new.sent <= Len(trail[s].last) + 2
    BY <1>1, <1>4 DEF Tracked, Tracks
  <2>4. Tracks(new, trail'[s], answered'[s])
    BY <1>1, <1>4, <1>7, <2>1, <2>3 DEF Tracked, Tracks
  <2>5. \A q \in Requests : Active(q)' => req'[q].s = s \/ (Active(q) /\ req'[q].s = req[q].s)
    BY <1>3, RequestEnds DEF ForceInv, Active
  <2>. QED BY <1>1, <1>2, <1>7, <1>8, <2>2, <2>4, <2>5, OneTracks
<1>10. CASE ~Answering(r)
  <2>1. ses'[s] = new /\ req'[r].pc = "idle" /\ s \in dirty'
    BY <1>1, <1>2, <1>3, RequestEnds DEF ForceInv
  <2>2. new.count = ses[s].count
    BY <1>1, <1>10, <2>1 DEF Answering
  <2>3. \A q \in Requests : ~Transforming(q) /\ ~Answering(q)
    BY <1>6, <1>10
  <2>4. \A q \in Requests : Active(q)' => Active(q) /\ req'[q].s = req[q].s
    BY <1>3, RequestEnds DEF ForceInv, Active
  <2>. QED BY <1>1, <1>2, <1>4, <2>2, <2>3, <2>4, LightHistory
<1>. QED BY <1>9, <1>10

LEMMA RestartHistory ==
    ASSUME ForceInv, HistInv, HistoryNext, Restart, \A q \in Requests : ~Transforming(q) /\ ~Answering(q)
    PROVE  HistInv'
<1>1. ses' = [s \in Sessions |-> NoState] /\ req' = [r \in Requests |-> NoRequest]
  BY DEF Restart
<1>2. \A q \in Requests : ~Active(q)'
  BY <1>1, RequestEnds DEF Active
<1>3. \A t \in Sessions : trail'[t] = trail[t] /\ answered'[t] = answered[t]
  BY QuietHistory
<1>4. (\A t \in Sessions : Len(trail[t].last) \in Nat /\ Len(answered[t]) \in Nat)'
  BY <1>3 DEF HistInv
<1>. QED BY <1>1, <1>2, <1>4 DEF HistInv

LEMMA InitHistory == HistoryInit => HistInv
<1>. SUFFICES ASSUME HistoryInit PROVE HistInv
  OBVIOUS
<1>1. /\ \A s \in Sessions : ses[s] = NoState /\ answered[s] = <<>>
      /\ \A s \in Sessions : trail[s] = [conv |-> <<>>, straight |-> TRUE, last |-> <<>>]
  BY DEF HistoryInit, Init
<1>2. \A q \in Requests : ~Active(q)
  BY RequestEnds DEF Active, HistoryInit, Init
<1>3. \A s \in Sessions : Len(trail[s].last) \in Nat /\ Len(answered[s]) \in Nat
  BY <1>1
<1>. QED BY <1>1, <1>2, <1>3 DEF HistInv

LEMMA TransformOne ==
    ASSUME NEW r \in Requests, NEW ltm, Transform(r, ltm)
    PROVE  \E new, sent : /\ ses' = [ses EXCEPT ![req[r].s] = new] /\ req' = [req EXCEPT ![r] = sent]
                          /\ DOMAIN sent = DOMAIN req[r]
                          /\ "s" \in DOMAIN sent => sent.s = req[r].s
<1>. DEFINE s == req[r].s
<1>1. PICK new, sent :
        /\ ses' = [ses EXCEPT ![s] = new] /\ req' = [req EXCEPT ![r] = sent]
        /\ DOMAIN new = DOMAIN ses[s] /\ DOMAIN sent = DOMAIN req[r]
        /\ "s" \in DOMAIN sent => sent.s = s
  BY TransformWrites
<1>. QED BY <1>1

LEMMA StepHistory ==
    ASSUME ForceInv, PrefixInv, TypedInv, HistInv, [HistoryNext]_historyVars
    PROVE  HistInv'
<1>1. CASE UNCHANGED historyVars
  <2>1. ses' = ses /\ req' = req /\ trail' = trail /\ answered' = answered
    BY <1>1 DEF historyVars, vars
  <2>. QED BY <2>1, NoneTracks DEF Active
<1>2. CASE HistoryNext
  <2>. USE <1>2
  <2>0. Next
    BY DEF HistoryNext
  <2>1. ASSUME NEW r \in Requests, NEW ltm \in LtmSizes, Transform(r, ltm) PROVE HistInv'
    <3>. DEFINE s == req[r].s
    <3>0. ltm \in Nat /\ req[r].pc = "ltm"
      BY <2>1, GradientAssumption DEF Transform
    <3>1. s \in Sessions /\ RequestTyped(req[r])
      BY <3>0, TurnBegins
    <3>2. /\ Tracks(ses'[s], trail'[s], answered'[s]) /\ Len(trail'[s].last) \in Nat
      BY <2>1, TransformHistory
    <3>3. /\ \A q \in Requests : q # r => ~Transforming(q)
          /\ \A q \in Requests : ~Answering(q)
      BY <2>1, TransformAlone
    <3>4. \A t \in Sessions : answered'[t] = answered[t] /\ (t # s => trail'[t] = trail[t])
      BY <3>3, TrailStays, AnsweredStays
    <3>5. PICK new, sent : /\ ses' = [ses EXCEPT ![s] = new] /\ req' = [req EXCEPT ![r] = sent]
                           /\ DOMAIN sent = DOMAIN req[r]
                           /\ "s" \in DOMAIN sent => sent.s = s
      BY <2>1, TransformOne
    <3>6. ses'[s] = new /\ sent.s = s
      BY <3>1, <3>5 DEF ForceInv, RequestTyped, RequestFields
    <3>7. Tracks(new, trail'[s], answered'[s])
      BY <3>2, <3>6
    <3>8. \A q \in Requests : Active(q)' => req'[q].s = s \/ (Active(q) /\ req'[q].s = req[q].s)
      BY <3>5, <3>6 DEF ForceInv, Active
    <3>9. Len(answered'[s]) \in Nat
      BY <3>1, <3>4 DEF HistInv
    <3>. QED BY <3>1, <3>2, <3>4, <3>5, <3>7, <3>8, <3>9, OneTracks
  <2>2. ASSUME NEW r \in Requests, NEW s \in Sessions, NEW m \in Models, NEW warm \in BOOLEAN,
               NEW c \in Incoming(s), Arrive(r, s, m, c, warm)
        PROVE  HistInv'
    BY <2>2, ArriveHistory
  <2>3. ASSUME NEW r \in Requests, NEW ltm \in LtmSizes, RefreshLtm(r, ltm) PROVE HistInv'
    BY <2>3, RefreshHistory
  <2>4. ASSUME NEW r \in Requests, NEW reply \in Replies, NEW extra \in Extras, NEW n \in Calls,
               NEW bust \in BOOLEAN, Answer(r, reply, extra, n, bust)
        PROVE  HistInv'
    BY <2>4, AnswerHistory
  <2>5. CASE \/ \E r \in Requests : Fail(r) \/ Overflow(r)
             \/ \E s \in Sessions : IdleTime(s) \/ Distil(s) \/ Consolidate(s)
             \/ \E s \in Sessions, i \in 1 .. MaxRows : DeleteRow(s, i)
             \/ Tick \/ Restart
    <3>1. \A q \in Requests : ~Transforming(q) /\ ~Answering(q)
      <4>. SUFFICES ASSUME NEW q \in Requests, Transforming(q) \/ Answering(q) PROVE FALSE
        OBVIOUS
      <4>1. CASE \E r \in Requests : Fail(r) \/ Overflow(r)
        <5>1. PICK r \in Requests : Fail(r) \/ Overflow(r)
          BY <4>1
        <5>2. req[r].pc = "waiting" /\ req' = [req EXCEPT ![r] = NoRequest]
          BY <5>1 DEF Fail, Overflow
        <5>3. \A p \in Requests : p # r => req'[p] = req[p]
          BY <5>2 DEF ForceInv
        <5>4. q = r /\ Answering(r)
          BY <5>2, <5>3 DEF Transforming, Answering, Sent
        <5>5. ses' # ses
          BY <5>4 DEF Answering
        <5>6. ses' = [ses EXCEPT ![req[r].s].force = 2]
          BY <5>1, <5>5 DEF Fail, Overflow
        <5>7. StateTyped(ses[req[r].s]) /\ req[r].s \in Sessions
          BY <5>2 DEF TypedInv, Active, RequestTyped
        <5>8. ses'[req[r].s].known = ses[req[r].s].known /\ ses'[req[r].s].count = ses[req[r].s].count
          BY <5>6, <5>7 DEF StateTyped, StateFields, ForceInv
        <5>. QED BY <5>4, <5>8 DEF Answering
      <4>2. CASE \/ \E s \in Sessions : IdleTime(s) \/ Distil(s) \/ Consolidate(s)
                 \/ \E s \in Sessions, i \in 1 .. MaxRows : DeleteRow(s, i)
                 \/ Tick
        <5>1. req' = req
          BY <4>2 DEF IdleTime, Distil, Consolidate, DeleteRow, Tick
        <5>. QED BY <5>1 DEF Transforming, Answering, Sent
      <4>3. CASE Restart
        <5>1. req'[q].pc = "idle" /\ dirty' = {}
          BY <4>3, RequestEnds DEF Restart
        <5>. QED BY <5>1 DEF Transforming, Answering, Sent
      <4>. QED BY <2>5, <4>1, <4>2, <4>3
    <3>2. \A t \in Sessions : trail'[t] = trail[t] /\ answered'[t] = answered[t]
      BY <3>1, QuietHistory
    <3>3. CASE \E r \in Requests : Fail(r)
      <4>1. PICK r \in Requests : req' = [req EXCEPT ![r] = NoRequest] /\ ses' = ses
        BY <3>3 DEF Fail
      <4>2. \A q \in Requests : Active(q)' => Active(q) /\ req'[q].s = req[q].s
        BY <4>1, RequestEnds DEF ForceInv, Active
      <4>. QED BY <3>2, <4>1, <4>2, NoneTracks
    <3>4. CASE \E r \in Requests : Overflow(r)
      BY <3>1, <3>4, OverflowHistory
    <3>5. CASE \E s \in Sessions : IdleTime(s)
      BY <3>1, <3>5, IdleHistory
    <3>6. CASE \/ \E s \in Sessions : Distil(s) \/ Consolidate(s)
               \/ \E s \in Sessions, i \in 1 .. MaxRows : DeleteRow(s, i)
               \/ Tick
      <4>1. ses' = ses /\ req' = req
        BY <3>6 DEF Distil, Consolidate, DeleteRow, Tick
      <4>. QED BY <3>2, <4>1, NoneTracks DEF Active
    <3>7. CASE Restart
      BY <3>1, <3>7, RestartHistory
    <3>. QED BY <2>5, <3>3, <3>4, <3>5, <3>6, <3>7
  <2>. QED BY <2>0, <2>1, <2>2, <2>3, <2>4, <2>5 DEF Next
<1>. QED BY <1>1, <1>2

\* The action formulas of the two history properties.
HoldsTurn ==
    \A r \in Requests : Transforming(r) /\ trail'[req[r].s].straight => TurnIntact(r)'

StaysUp ==
    \A r \in Requests :
        LET s == req[r].s
        IN  /\ Transforming(r) /\ ses[s].known > 0 /\ ses[s].layer \in 1 .. 3
            /\ answered[s] # <<>> /\ Len(req[r].conv) > Len(answered[s]) + 1
            /\ Extends(req[r].conv, answered[s])
            => ses'[s].layer >= ses[s].layer

LEMMA StepHolds ==
    ASSUME ForceInv, PrefixInv, TypedInv, HistInv, HistoryNext
    PROVE  HoldsTurn
<1>. SUFFICES ASSUME NEW r \in Requests, Transforming(r), trail'[req[r].s].straight
              PROVE  TurnIntact(r)'
  BY DEF HoldsTurn
<1>1. PICK ltm \in LtmSizes : Transform(r, ltm)
  BY WhichStep DEF HistoryNext
<1>2. /\ req'[r].first <= CurrentTurnStart(req'[r].conv)
      /\ \A i \in req'[r].rewritten : i < CurrentTurnStart(req'[r].conv)
  BY <1>1, TransformHistory
<1>. QED BY <1>2 DEF TurnIntact

LEMMA StepStays ==
    ASSUME ForceInv, PrefixInv, TypedInv, HistInv, HistoryNext
    PROVE  StaysUp
<1>. SUFFICES ASSUME NEW r \in Requests, Transforming(r),
                     ses[req[r].s].known > 0, ses[req[r].s].layer \in 1 .. 3, answered[req[r].s] # <<>>,
                     Len(req[r].conv) > Len(answered[req[r].s]) + 1
              PROVE  ses'[req[r].s].layer >= ses[req[r].s].layer
  BY DEF StaysUp
<1>. DEFINE s == req[r].s
            c == req[r].conv
<1>1. PICK ltm \in LtmSizes : Transform(r, ltm)
  BY WhichStep DEF HistoryNext
<1>. DEFINE st == TurnState(r, ltm)
            layer == TurnLayer(r, ltm)
<1>2. ltm \in Nat /\ req[r].pc = "ltm"
  BY <1>1, GradientAssumption DEF Transform
<1>3. /\ s \in Sessions /\ Active(r) /\ RequestTyped(req[r]) /\ StateTyped(ses[s]) /\ StateTyped(st)
      /\ layer \in 0 .. 4
  BY <1>2, TurnBegins
<1>4. st.known = ses[s].known /\ st.layer = ses[s].layer /\ st.count = ses[s].count
  BY <1>3 DEF TurnState, StateTyped, StateFields
<1>5. Len(c) >= st.count
  <2>1. Tracks(ses[s], trail[s], answered[s]) /\ Len(answered[s]) \in Nat
    BY <1>3 DEF HistInv, Tracked
  <2>2. ses[s].count <= Len(answered[s]) + 2 /\ ses[s].count \in Nat
    BY <1>3, <2>1 DEF Tracks, StateTyped
  <2>3. Len(c) \in Nat
    BY <1>3 DEF RequestTyped, Closed, Conversations
  <2>. QED BY <1>4, <2>1, <2>2, <2>3
<1>6. StickyLayer(st, c) = ses[s].layer
  <2>. HIDE DEF st
  <2>. QED BY <1>4, <1>5 DEF StickyLayer, Calibrated
<1>7. layer >= StickyLayer(st, c)
  <2>1. st.force \in {0, 2} /\ st.layer \in Layers
    BY <1>3 DEF StateTyped
  <2>2. layer = LayerFor(st, c, DeduplicateToolOutputs(c), TurnRows(r, ltm))
    BY DEF TurnLayer
  <2>. HIDE DEF st, layer, c
  <2>. QED BY <2>1, <2>2, LayerFits
<1>8. PICK new : /\ ses' = [ses EXCEPT ![s] = new] /\ DOMAIN new = DOMAIN ses[s]
                 /\ "layer" \in DOMAIN new => new.layer = layer
  BY <1>1, TransformWrites
<1>9. ses'[s].layer = layer
  BY <1>3, <1>8 DEF ForceInv, StateTyped, StateFields
<1>. QED BY <1>6, <1>7, <1>9

HistoryInv == ForceInv /\ PrefixInv /\ TypedInv /\ HistInv

LEMMA HistoryInvariant == HistorySpec => []HistoryInv
<1>1. HistoryInit => HistoryInv
  BY InitForce, InitPrefix, InitTyped, InitHistory DEF HistoryInit, HistoryInv
<1>2. [HistoryNext]_historyVars => [Next]_vars
  BY DEF HistoryNext, historyVars
<1>3. HistoryInv /\ [HistoryNext]_historyVars => HistoryInv'
  BY <1>2, StepKeeps, StepPrefix, StepTyped, StepHistory DEF HistoryInv
<1>. QED BY <1>1, <1>3, PTL DEF HistorySpec

\* In a conversation that has only grown since its window was pinned, every
\* window a request is given holds the turn in progress, and none of the turn's
\* outputs is rewritten (tryFit, tryFitStable, the emergency tail of layer 4).
THEOREM GrowingTurn == HistorySpec => GrowingTurnIntact
<1>1. HistoryInv /\ [HistoryNext]_historyVars =>
         [\A r \in Requests : Transforming(r) /\ trail'[req[r].s].straight => TurnIntact(r)']_historyVars
  BY StepHolds DEF HistoryInv, HoldsTurn
<1>. QED BY <1>1, HistoryInvariant, PTL DEF HistorySpec, GrowingTurnIntact

\* A conversation that goes on after an answer is not sent at a lower layer
\* than the one before it (the sticky-layer guard of transformInner).
THEOREM NoBouncing == HistorySpec => NoBounce
<1>1. HistoryInv /\ [HistoryNext]_historyVars =>
         [\A r \in Requests :
             LET s == req[r].s
             IN  /\ Transforming(r) /\ ses[s].known > 0 /\ ses[s].layer \in 1 .. 3
                 /\ answered[s] # <<>> /\ Len(req[r].conv) > Len(answered[s]) + 1
                 /\ Extends(req[r].conv, answered[s])
                 => ses'[s].layer >= ses[s].layer]_historyVars
  BY StepStays DEF HistoryInv, StaysUp
<1>. QED BY <1>1, HistoryInvariant, PTL DEF HistorySpec, NoBounce

-----------------------------------------------------------------------------
(* What a compressed request weighs, when every model has the same limit.  *)

OneLimit == \A m, n \in Models : Pricing[m].max = Pricing[n].max
Limit == Pricing[CHOOSE m \in Models : TRUE].max

\* A pinned window was made within the raw budget of layer 1.
PinSmall(st) == st.pin = NoPin \/ 100 * st.pin.budget <= 40 * Limit

\* WindowFits, of one request.
Fits(q) ==
    q.pc \in {"refresh", "waiting"} /\ q.layer \in 1 .. 3 =>
        LET limit == Pricing[q.m].max
        IN  IF q.calibrated THEN q.tokens <= limit ELSE 3 * q.tokens <= 2 * limit

FitsInv ==
    /\ \A s \in Sessions : ses[s] = NoState \/ PinSmall(ses[s])
    /\ \A r \in Requests : Fits(req[r]) /\ (Active(r) => PinSmall(ses[req[r].s]))

LEMMA LimitIs ==
    ASSUME OneLimit, NEW m \in Models
    PROVE  Pricing[m].max = Limit /\ Limit \in Nat
<1>1. (CHOOSE n \in Models : TRUE) \in Models
  BY GradientAssumption
<1>. QED BY <1>1, GradientAssumption DEF OneLimit, Limit

LEMMA RawShare ==
    ASSUME OneLimit, limits \in Models, Counted, NEW st, st.ltm \in Nat
    PROVE  /\ Usable(st) \in Nat /\ Usable(st) <= Limit /\ MaxInput = Limit /\ Limit \in Nat
           /\ RawBudget(st) \in Nat /\ 100 * RawBudget(st) <= 40 * Limit
           /\ DistilledBudget(st) \in Nat /\ 100 * DistilledBudget(st) <= 25 * Limit
<1>1. Usable(st) \in Nat /\ Usable(st) <= Limit /\ MaxInput = Limit /\ Limit \in Nat
  BY UsableCounts, LimitIs DEF MaxInput
<1>2. DistilledBudget(st) \in Nat /\ 100 * DistilledBudget(st) <= Usable(st) * 25
  BY <1>1, PercentOf DEF DistilledBudget
<1>3. CASE st.compact
  <2>1. RawBudget(st) \in Nat /\ 100 * RawBudget(st) <= Usable(st) * 20
    BY <1>1, <1>3, PercentOf DEF RawBudget
  <2>. QED BY <1>1, <1>2, <2>1
<1>4. CASE ~st.compact
  <2>1. RawBudget(st) \in Nat /\ 100 * RawBudget(st) <= Usable(st) * 40
    BY <1>1, <1>4, PercentOf DEF RawBudget
  <2>. QED BY <1>1, <1>2, <2>1
<1>. QED BY <1>3, <1>4

\* Each layer's shares: prefix and window together are within the limit.
LEMMA StageShare ==
    ASSUME OneLimit, limits \in Models, Counted, NEW st, st.ltm \in Nat, NEW layer \in 1 .. 3
    PROVE  /\ StageRaw(st, layer) \in Nat /\ StageDistilled(st, layer) \in Nat
           /\ StageRaw(st, layer) + StageDistilled(st, layer) <= Limit
<1>1. /\ Usable(st) \in Nat /\ Usable(st) <= Limit /\ Limit \in Nat
      /\ RawBudget(st) \in Nat /\ 100 * RawBudget(st) <= 40 * Limit
      /\ DistilledBudget(st) \in Nat /\ 100 * DistilledBudget(st) <= 25 * Limit
  BY RawShare
<1>2. CASE layer = 1
  <2>1. StageRaw(st, layer) = RawBudget(st) /\ StageDistilled(st, layer) = DistilledBudget(st)
    BY <1>2 DEF StageRaw, StageDistilled
  <2>. QED BY <1>1, <2>1
<1>3. CASE layer = 2
  <2>1. StageRaw(st, layer) = Percent(Usable(st), 50) /\ StageDistilled(st, layer) = DistilledBudget(st)
    BY <1>3 DEF StageRaw, StageDistilled
  <2>2. Percent(Usable(st), 50) \in Nat /\ 100 * Percent(Usable(st), 50) <= Usable(st) * 50
    BY <1>1, PercentOf
  <2>. QED BY <1>1, <2>1, <2>2
<1>4. CASE layer = 3
  <2>1. StageRaw(st, layer) = Percent(Usable(st), 55) /\ StageDistilled(st, layer) = Percent(Usable(st), 15)
    BY <1>4 DEF StageRaw, StageDistilled
  <2>2. Percent(Usable(st), 55) \in Nat /\ 100 * Percent(Usable(st), 55) <= Usable(st) * 55
    BY <1>1, PercentOf
  <2>3. Percent(Usable(st), 15) \in Nat /\ 100 * Percent(Usable(st), 15) <= Usable(st) * 15
    BY <1>1, PercentOf
  <2>. QED BY <1>1, <2>1, <2>2, <2>3
<1>. QED BY <1>2, <1>3, <1>4

LEMMA PinShare ==
    ASSUME NEW limit \in Nat, NEW old \in Nat, NEW now \in Nat, NEW weight \in Nat,
           100 * old <= 40 * limit, 100 * now <= 40 * limit, WithinMargin(weight, Max({old, now}))
    PROVE  100 * weight <= 46 * limit
<1>1. PICK most \in Nat : most = Max({old, now}) /\ 100 * most <= 40 * limit
  <2>1. old \in Int /\ now \in Int
    OBVIOUS
  <2>2. Max({old, now}) \in {old, now}
    BY <2>1, MaxOfTwo
  <2>3. Max({old, now}) = old \/ Max({old, now}) = now
    BY <2>2
  <2>. QED BY <2>3
<1>2. 100 * weight <= 115 * most
  BY <1>1 DEF WithinMargin
<1>. QED BY <1>1, <1>2

LEMMA WindowWeighs ==
    ASSUME OneLimit, limits \in Models, Counted, NEW st, StateTyped(st), PinSmall(st),
           NEW c, Closed(c), NEW n \in Nat, NEW layer \in 1 .. 3,
           layer = LayerFor(st, c, DeduplicateToolOutputs(c), n)
    PROVE  LET weight == PrefixTokens(RowsShown(layer, n))
                         + Tokens(DeduplicateToolOutputs(c), StartAt(st, c, layer, n))
           IN  IF Calibrated(st) THEN weight <= Limit ELSE 3 * weight <= 2 * Limit
<1>. DEFINE d == DeduplicateToolOutputs(c)
            first == StartAt(st, c, layer, n)
            raw == Tokens(d, first)
            prefix == PrefixTokens(RowsShown(layer, n))
<1>1. st.ltm \in Nat /\ st.force \in {0, 2} /\ st.layer \in Layers
  BY DEF StateTyped
<1>2. /\ Limit \in Nat /\ MaxInput = Limit
      /\ RawBudget(st) \in Nat /\ 100 * RawBudget(st) <= 40 * Limit
      /\ DistilledBudget(st) \in Nat /\ 100 * DistilledBudget(st) <= 25 * Limit
  BY <1>1, RawShare
<1>3. /\ StageRaw(st, layer) \in Nat /\ StageDistilled(st, layer) \in Nat
      /\ StageRaw(st, layer) + StageDistilled(st, layer) <= Limit
  BY <1>1, StageShare
<1>4. StageFits(st, d, layer, n)
  BY <1>1, LayerFits
<1>5. layer # 0 /\ layer # 4 /\ layer \in 0 .. 4 /\ layer \in 1 .. 4
  OBVIOUS
<1>6. first \in 1 .. Len(c) + 1
  BY <1>5, StartWithin
<1>7. Sized(d) /\ Len(d) = Len(c)
  BY DeduplicatedSized DEF SameKinds, Closed
<1>. HIDE DEF first, d
<1>8. raw \in Nat
  BY <1>6, <1>7, TokensCount
<1>9. RowsShown(layer, n) \in Nat /\ (n = 0 => RowsShown(layer, n) = 0)
  BY <1>5, ShownCounts
<1>10. prefix \in Nat /\ prefix <= StageDistilled(st, layer)
  <2>1. prefix \in Nat /\ (RowsShown(layer, n) = 0 => prefix = 0)
    BY <1>9, PrefixCounts
  <2>2. n = 0 \/ prefix <= StageDistilled(st, layer)
    BY <1>4 DEF StageFits, HasWindow
  <2>. HIDE DEF prefix
  <2>. QED BY <1>3, <1>9, <2>1, <2>2
<1>11. WindowTokens(st, d, layer, n) = prefix + raw
  BY <1>5 DEF WindowTokens, StartAt, first, d
<1>. HIDE DEF prefix, raw
<1>12. CASE ~Calibrated(st)
  <2>1. WithSafety(st, WindowTokens(st, d, layer, n)) <= MaxInput
    BY <1>4, <1>12 DEF StageFits
  <2>2. (3 * (prefix + raw) + 1) \div 2 <= Limit
    BY <1>2, <1>11, <1>12, <2>1 DEF WithSafety
  <2>3. 3 * (prefix + raw) <= 2 * Limit
    BY <1>2, <1>8, <1>10, <2>2
  <2>. QED BY <1>12, <2>3 DEF prefix, raw, d, first
<1>13. CASE Calibrated(st) /\ ~Pinned(st, d, layer, n)
  <2>1. raw <= StageRaw(st, layer)
    BY <1>5, <1>13, StartWithin DEF raw, d, first
  <2>2. prefix + raw <= Limit
    BY <1>2, <1>3, <1>8, <1>10, <2>1
  <2>. QED BY <1>13, <2>2 DEF prefix, raw, d, first
<1>14. CASE Calibrated(st) /\ Pinned(st, d, layer, n)
  <2>1. layer = 1 /\ PinTyped(st.pin) /\ 100 * st.pin.budget <= 40 * Limit
    BY <1>14 DEF Pinned, StateTyped, PinSmall
  <2>2. first = PinnedStart(d, st.pin, n > 0)
    BY <1>5, <1>14 DEF first, d, StartAt, WindowStart
  <2>3. WithinMargin(raw, Max({st.pin.budget, RawBudget(st)}))
    BY <1>14, <2>2 DEF Pinned, PinFits, raw
  <2>4. st.pin.budget \in Nat
    BY <2>1 DEF PinTyped
  <2>5. 100 * raw <= 46 * Limit
    BY <1>2, <1>8, <2>1, <2>3, <2>4, PinShare
  <2>6. StageDistilled(st, layer) = DistilledBudget(st)
    BY <2>1 DEF StageDistilled
  <2>7. prefix + raw <= Limit
    BY <1>2, <1>3, <1>8, <1>10, <2>5, <2>6
  <2>. QED BY <1>14, <2>7 DEF prefix, raw, d, first
<1>. QED BY <1>12, <1>13, <1>14

\* A step that changes one session's state at most.
LEMMA OneFits ==
    ASSUME ForceInv, FitsInv, NEW s \in Sessions, NEW new, PinSmall(new), ses' = [ses EXCEPT ![s] = new],
           \A q \in Requests :
              /\ Fits(req'[q])
              /\ Active(q)' => req'[q].s = s \/ (Active(q) /\ req'[q].s = req[q].s)
    PROVE  FitsInv'
<1>1. ses'[s] = new /\ \A t \in Sessions : t # s => ses'[t] = ses[t]
  BY DEF ForceInv
<1>2. (\A t \in Sessions : ses[t] = NoState \/ PinSmall(ses[t]))'
  <2>. SUFFICES ASSUME NEW t \in Sessions PROVE ses'[t] = NoState \/ PinSmall(ses'[t])
    BY DEF PinSmall, Limit
  <2>. QED BY <1>1 DEF FitsInv
<1>3. (\A q \in Requests : Fits(req[q]) /\ (Active(q) => PinSmall(ses[req[q].s])))'
  <2>. SUFFICES ASSUME NEW q \in Requests
                PROVE  Fits(req'[q]) /\ (Active(q)' => PinSmall(ses'[req'[q].s]))
    BY DEF PinSmall, Limit, Fits
  <2>1. ASSUME Active(q)' PROVE PinSmall(ses'[req'[q].s])
    <3>1. CASE req'[q].s = s
      BY <1>1, <3>1
    <3>2. CASE req'[q].s # s
      <4>1. Active(q) /\ req'[q].s = req[q].s /\ req[q].s \in Sessions
        BY <2>1, <3>2 DEF ForceInv, Shaped
      <4>2. PinSmall(ses[req[q].s])
        BY <4>1 DEF FitsInv
      <4>. QED BY <1>1, <3>2, <4>1, <4>2
    <3>. QED BY <3>1, <3>2
  <2>. QED BY <2>1
<1>. QED BY <1>2, <1>3 DEF FitsInv

LEMMA NoneFits ==
    ASSUME ForceInv, FitsInv, ses' = ses,
           \A q \in Requests : Fits(req'[q]) /\ (Active(q)' => Active(q) /\ req'[q].s = req[q].s)
    PROVE  FitsInv'
<1>1. (\A t \in Sessions : ses[t] = NoState \/ PinSmall(ses[t]))'
  <2>. SUFFICES ASSUME NEW t \in Sessions PROVE ses'[t] = NoState \/ PinSmall(ses'[t])
    BY DEF PinSmall, Limit
  <2>. QED BY DEF FitsInv
<1>2. (\A q \in Requests : Fits(req[q]) /\ (Active(q) => PinSmall(ses[req[q].s])))'
  <2>. SUFFICES ASSUME NEW q \in Requests
                PROVE  Fits(req'[q]) /\ (Active(q)' => PinSmall(ses'[req'[q].s]))
    BY DEF PinSmall, Limit, Fits
  <2>. QED BY DEF FitsInv
<1>. QED BY <1>1, <1>2 DEF FitsInv

LEMMA NoRequestFits == Fits(NoRequest)
BY RequestEnds DEF Fits

LEMMA TransformFits ==
    ASSUME OneLimit, ForceInv, PrefixInv, TypedInv, FitsInv,
           NEW r \in Requests, NEW ltm \in LtmSizes, Transform(r, ltm)
    PROVE  FitsInv'
<1>. DEFINE s     == req[r].s
            c     == req[r].conv
            st    == TurnState(r, ltm)
            n     == TurnRows(r, ltm)
            layer == TurnLayer(r, ltm)
            first == TurnFirst(r, ltm)
            d     == DeduplicateToolOutputs(c)
            pin   == PinFor(st, d, layer, n, first)
<1>0. ltm \in Nat /\ req[r].pc = "ltm"
  BY GradientAssumption DEF Transform
<1>1. /\ s \in Sessions /\ Active(r) /\ limits \in Models /\ RequestTyped(req[r]) /\ Counted
      /\ StateTyped(ses[s]) /\ StateTyped(st) /\ n \in Nat /\ layer \in 0 .. 4
  BY <1>0, TurnBegins DEF TypedInv
<1>2. Closed(c) /\ req[r].m \in Models /\ st.ltm \in Nat
  BY <1>1 DEF RequestTyped, StateTyped
<1>3. st.pin = ses[s].pin /\ PinSmall(ses[s])
  BY <1>1 DEF TurnState, StateTyped, StateFields, FitsInv
<1>4. PICK new, sent :
        /\ ses' = [ses EXCEPT ![s] = new] /\ req' = [req EXCEPT ![r] = sent]
        /\ DOMAIN new = DOMAIN ses[s] /\ DOMAIN sent = DOMAIN req[r]
        /\ "pin" \in DOMAIN new => new.pin = pin
        /\ "s" \in DOMAIN sent => sent.s = s
        /\ "layer" \in DOMAIN sent => sent.layer = layer
        /\ "m" \in DOMAIN sent => sent.m = req[r].m
        /\ "tokens" \in DOMAIN sent => sent.tokens = TurnTokens(r, ltm)
        /\ "calibrated" \in DOMAIN sent => sent.calibrated = Calibrated(st)
  BY TransformWrites
<1>5. /\ new.pin = pin /\ sent.s = s /\ sent.layer = layer /\ sent.m = req[r].m
      /\ sent.tokens = TurnTokens(r, ltm) /\ sent.calibrated = Calibrated(st)
  <2>1. StateFields \subseteq DOMAIN new /\ RequestFields \subseteq DOMAIN sent
    BY <1>1, <1>4 DEF StateTyped, RequestTyped
  <2>. HIDE DEF c, first, pin, layer, st
  <2>. QED BY <1>4, <2>1 DEF StateFields, RequestFields
<1>6. PinSmall(new)
  <2>1. RawBudget(st) \in Nat /\ 100 * RawBudget(st) <= 40 * Limit
    <3>. HIDE DEF st
    <3>. QED BY <1>1, <1>2, RawShare
  <2>2. pin = NoPin \/ pin = st.pin
        \/ pin = [raw |-> Len(d) - first + 1, total |-> Len(d), budget |-> RawBudget(st)]
    <3>. HIDE DEF st, d, layer, first, n
    <3>. QED BY <1>1 DEF PinFor
  <2>. HIDE DEF pin, st, d, first
  <2>3. pin = NoPin \/ pin = ses[s].pin \/ pin.budget = RawBudget(st)
    BY <1>3, <2>2
  <2>. QED BY <1>3, <1>5, <2>1, <2>3 DEF PinSmall
<1>7. Fits(sent)
  <2>. SUFFICES ASSUME layer \in 1 .. 3
                PROVE  LET limit == Pricing[sent.m].max
                       IN  IF sent.calibrated THEN sent.tokens <= limit ELSE 3 * sent.tokens <= 2 * limit
    BY <1>5 DEF Fits
  <2>. DEFINE weight == PrefixTokens(RowsShown(layer, n)) + Tokens(d, first)
  <2>1. layer # 0 /\ layer # 4
    OBVIOUS
  <2>2. TurnTokens(r, ltm) = weight
    BY <2>1 DEF TurnTokens, TurnShown
  <2>3. layer = LayerFor(st, c, d, n) /\ first = StartAt(st, c, layer, n)
    BY DEF TurnLayer, TurnFirst
  <2>4. PinSmall(st)
    BY <1>3 DEF PinSmall
  <2>5. IF Calibrated(st) THEN weight <= Limit ELSE 3 * weight <= 2 * Limit
    <3>. HIDE DEF st, c, layer, n, first
    <3>. QED BY <1>1, <1>2, <2>3, <2>4, WindowWeighs
  <2>6. Pricing[sent.m].max = Limit
    BY <1>2, <1>5, LimitIs
  <2>. HIDE DEF weight, st
  <2>. QED BY <1>5, <2>2, <2>5, <2>6
<1>8. \A q \in Requests : Fits(req'[q])
  BY <1>4, <1>7 DEF ForceInv, FitsInv
<1>9. \A q \in Requests : Active(q)' => req'[q].s = s \/ (Active(q) /\ req'[q].s = req[q].s)
  BY <1>4, <1>5 DEF ForceInv, Active
<1>. QED BY <1>1, <1>4, <1>6, <1>8, <1>9, OneFits

LEMMA ArriveFits ==
    ASSUME ForceInv, TypedInv, FitsInv, NEW r \in Requests, NEW s \in Sessions,
           NEW m, NEW c, NEW warm, Arrive(r, s, m, c, warm)
    PROVE  FitsInv'
<1>. DEFINE st == GetSessionState(s)
            new == IF st.at # "old" THEN st
                   ELSE [st EXCEPT !.snapshot = NoSnapshot, !.prefix = NoPrefix,
                                   !.pin = NoPin, !.compact = ~warm]
            asked == [NoRequest EXCEPT !.pc = "ltm", !.s = s, !.m = m, !.conv = c]
<1>1. PinSmall(st)
  <2>1. CASE ses[s] # NoState
    BY <2>1 DEF FitsInv, GetSessionState
  <2>2. CASE ses[s] = NoState
    <3>1. st.pin = NoPin
      BY <2>2 DEF GetSessionState, FreshState
    <3>. QED BY <3>1 DEF PinSmall
  <2>. QED BY <2>1, <2>2
<1>2. StateTyped(st)
  BY FreshTyped
<1>. HIDE DEF st
<1>3. new.pin = st.pin \/ new.pin = NoPin
  BY <1>2 DEF StateTyped, StateFields
<1>4. ses' = [ses EXCEPT ![s] = new] /\ req' = [req EXCEPT ![r] = asked]
      /\ asked.s = s /\ asked.pc = "ltm"
  BY DEF Arrive, st, NoRequest
<1>. HIDE DEF new, asked
<1>5. PinSmall(new) /\ Fits(asked)
  BY <1>1, <1>3, <1>4 DEF PinSmall, Fits
<1>6. \A q \in Requests : Fits(req'[q])
  BY <1>4, <1>5 DEF ForceInv, FitsInv
<1>7. \A q \in Requests : Active(q)' => req'[q].s = s \/ (Active(q) /\ req'[q].s = req[q].s)
  BY <1>4 DEF ForceInv, Active
<1>. QED BY <1>4, <1>5, <1>6, <1>7, OneFits

LEMMA RefreshFits ==
    ASSUME ForceInv, TypedInv, FitsInv, NEW r \in Requests, NEW ltm, RefreshLtm(r, ltm)
    PROVE  FitsInv'
<1>. DEFINE s == req[r].s
            new == [ses[s] EXCEPT !.ltm = ltm]
            sent == [req[r] EXCEPT !.pc = "waiting"]
<1>1. /\ Active(r) /\ RequestTyped(req[r]) /\ StateTyped(ses[s]) /\ s \in Sessions
      /\ req[r].pc = "refresh" /\ PinSmall(ses[s]) /\ Fits(req[r])
  BY DEF TypedInv, FitsInv, RefreshLtm, Active, RequestTyped
<1>2. new.pin = ses[s].pin
  BY <1>1 DEF StateTyped, StateFields
<1>3. /\ sent.s = s /\ sent.layer = req[r].layer /\ sent.m = req[r].m
      /\ sent.tokens = req[r].tokens /\ sent.calibrated = req[r].calibrated
  BY <1>1 DEF RequestTyped, RequestFields
<1>4. ses' = [ses EXCEPT ![s] = new] /\ req' = [req EXCEPT ![r] = sent]
  BY DEF RefreshLtm, ForceInv
<1>. HIDE DEF new, sent
<1>5. PinSmall(new) /\ Fits(sent)
  BY <1>1, <1>2, <1>3 DEF PinSmall, Fits
<1>6. \A q \in Requests : Fits(req'[q])
  BY <1>4, <1>5 DEF ForceInv, FitsInv
<1>7. \A q \in Requests : Active(q)' => req'[q].s = s \/ (Active(q) /\ req'[q].s = req[q].s)
  BY <1>3, <1>4 DEF ForceInv, Active
<1>. QED BY <1>1, <1>4, <1>5, <1>6, <1>7, OneFits

\* A request ends; the pin of its session stays.
LEMMA EndFits ==
    ASSUME ForceInv, FitsInv, NEW r \in Requests, Active(r), req' = [req EXCEPT ![r] = NoRequest],
           NEW new, ses' = [ses EXCEPT ![req[r].s] = new], new.pin = ses[req[r].s].pin
    PROVE  FitsInv'
<1>1. req[r].s \in Sessions /\ PinSmall(ses[req[r].s])
  BY DEF ForceInv, Shaped, FitsInv
<1>2. PinSmall(new)
  BY <1>1 DEF PinSmall
<1>3. \A q \in Requests : Fits(req'[q])
  BY NoRequestFits DEF ForceInv, FitsInv
<1>4. \A q \in Requests : Active(q)' => Active(q) /\ req'[q].s = req[q].s
  BY RequestEnds DEF ForceInv, Active
<1>. QED BY <1>1, <1>2, <1>3, <1>4, OneFits

LEMMA AnswerFits ==
    ASSUME ForceInv, TypedInv, FitsInv, NEW r \in Requests, NEW reply,
           NEW extra, NEW calls, NEW bust, Answer(r, reply, extra, calls, bust)
    PROVE  FitsInv'
<1>. DEFINE s == req[r].s
            actual == calls * (req[r].input + ses[s].ltm + extra)
            new == RecordCacheUsage(Calibrate(ses[s], actual), bust)
<1>1. Active(r) /\ StateTyped(ses[s])
  BY DEF TypedInv, Answer, Active
<1>2. ses' = [ses EXCEPT ![s] = new]
  BY Zenon DEF Answer
<1>3. req' = [req EXCEPT ![r] = NoRequest]
  BY DEF Answer
<1>. HIDE DEF actual
<1>4. new.pin = ses[s].pin
  <2>. DEFINE given == [ses[s] EXCEPT !.known = actual, !.knownLtm = ses[s].ltm, !.count = ses[s].sent]
              busts == IF bust THEN Min({given.busts + 1, BustLimit}) ELSE 0
  <2>1. new = [given EXCEPT !.busts = busts]
    BY DEF RecordCacheUsage, Calibrate
  <2>2. given.pin = ses[s].pin /\ StateFields \subseteq DOMAIN given
    BY <1>1 DEF StateTyped, StateFields
  <2>. HIDE DEF given, busts, new
  <2>. QED BY <2>1, <2>2 DEF StateFields
<1>. HIDE DEF new
<1>. QED BY <1>1, <1>2, <1>3, <1>4, EndFits

LEMMA StepFits ==
    ASSUME OneLimit, ForceInv, PrefixInv, TypedInv, FitsInv, [Next]_vars
    PROVE  FitsInv'
<1>1. CASE \E r \in Requests, s \in Sessions, m \in Models, warm \in BOOLEAN :
              \E c \in Incoming(s) : Arrive(r, s, m, c, warm)
  BY <1>1, ArriveFits
<1>2. CASE \E r \in Requests, ltm \in LtmSizes : Transform(r, ltm)
  BY <1>2, TransformFits
<1>3. CASE \E r \in Requests, ltm \in LtmSizes : RefreshLtm(r, ltm)
  BY <1>3, RefreshFits
<1>4. CASE \E r \in Requests, reply \in Replies, extra \in Extras, n \in Calls, bust \in BOOLEAN :
              Answer(r, reply, extra, n, bust)
  BY <1>4, AnswerFits
<1>5. CASE \E r \in Requests : Fail(r)
  <2>1. PICK r \in Requests : req' = [req EXCEPT ![r] = NoRequest] /\ ses' = ses
    BY <1>5 DEF Fail
  <2>2. \A q \in Requests : Fits(req'[q]) /\ (Active(q)' => Active(q) /\ req'[q].s = req[q].s)
    BY <2>1, RequestEnds, NoRequestFits DEF ForceInv, FitsInv, Active
  <2>. QED BY <2>1, <2>2, NoneFits
<1>6. CASE \E r \in Requests : Overflow(r)
  <2>1. PICK r \in Requests : Overflow(r)
    BY <1>6
  <2>. DEFINE new == [ses[req[r].s] EXCEPT !.force = 2]
  <2>2. Active(r) /\ req' = [req EXCEPT ![r] = NoRequest] /\ ses' = [ses EXCEPT ![req[r].s] = new]
    BY <2>1 DEF Overflow, Active, ForceInv
  <2>3. StateTyped(ses[req[r].s])
    BY <2>2 DEF TypedInv
  <2>4. new.pin = ses[req[r].s].pin
    BY <2>3 DEF StateTyped, StateFields
  <2>. HIDE DEF new
  <2>. QED BY <2>2, <2>4, EndFits
<1>7. CASE \E s \in Sessions : IdleTime(s)
  <2>1. PICK s \in Sessions : IdleTime(s)
    BY <1>7
  <2>. DEFINE new == [ses[s] EXCEPT !.at = "old"]
  <2>2. req' = req /\ \A q \in Requests : Fits(req'[q]) /\ (Active(q)' => Active(q) /\ req'[q].s = req[q].s)
    BY <2>1 DEF IdleTime, Active, FitsInv
  <2>3. CASE ses[s] = NoState
    BY <2>1, <2>2, <2>3, NoneFits DEF IdleTime
  <2>4. CASE ses[s] # NoState
    <3>1. ses' = [ses EXCEPT ![s] = new]
      BY <2>1, <2>4 DEF IdleTime, ForceInv
    <3>2. StateTyped(ses[s]) /\ PinSmall(ses[s])
      BY <2>4 DEF TypedInv, FitsInv
    <3>3. new.pin = ses[s].pin
      BY <3>2 DEF StateTyped, StateFields
    <3>. HIDE DEF new
    <3>4. PinSmall(new)
      BY <3>2, <3>3 DEF PinSmall
    <3>. QED BY <2>2, <3>1, <3>4, OneFits
  <2>. QED BY <2>3, <2>4
<1>8. CASE \/ \E s \in Sessions : Distil(s) \/ Consolidate(s)
           \/ \E s \in Sessions, i \in 1 .. MaxRows : DeleteRow(s, i)
           \/ Tick \/ UNCHANGED vars
  <2>1. ses' = ses /\ req' = req
    BY <1>8 DEF Distil, Consolidate, DeleteRow, Tick, vars
  <2>. QED BY <2>1, NoneFits DEF Active, FitsInv
<1>9. CASE Restart
  <2>1. ses' = [s \in Sessions |-> NoState] /\ req' = [q \in Requests |-> NoRequest]
    BY <1>9 DEF Restart
  <2>2. \A q \in Requests : ~Active(q)' /\ Fits(req'[q])
    BY <2>1, RequestEnds, NoRequestFits DEF Active
  <2>3. (\A q \in Requests : Fits(req[q]) /\ (Active(q) => PinSmall(ses[req[q].s])))'
    BY <2>2 DEF Fits
  <2>. QED BY <2>1, <2>3 DEF FitsInv
<1>. QED BY <1>1, <1>2, <1>3, <1>4, <1>5, <1>6, <1>7, <1>8, <1>9 DEF Next

LEMMA InitFits == Init => FitsInv
<1>. SUFFICES ASSUME Init PROVE FitsInv
  OBVIOUS
<1>1. \A r \in Requests : req[r] = NoRequest
  BY DEF Init
<1>2. \A s \in Sessions : ses[s] = NoState
  BY DEF Init
<1>. QED BY <1>1, <1>2, RequestEnds, NoRequestFits DEF FitsInv, Active

LEMMA FitsAll == FitsInv => WindowFits
BY DEF FitsInv, Fits, WindowFits, Sent

\* When the models of a session share an input limit, the estimate of every
\* request that is compressed up to layer 3 is within it, with the safety margin
\* when nothing has calibrated it (tryFit, tryFitStable, transformInner).
THEOREM WindowsFit == ASSUME OneLimit PROVE Spec => []WindowFits
<1>1. Init => ForceInv /\ PrefixInv /\ TypedInv /\ FitsInv
  BY InitForce, InitPrefix, InitTyped, InitFits
<1>2. ForceInv /\ PrefixInv /\ TypedInv /\ FitsInv /\ [Next]_vars
         => (ForceInv /\ PrefixInv /\ TypedInv /\ FitsInv)'
  BY StepKeeps, StepPrefix, StepTyped, StepFits
<1>. QED BY <1>1, <1>2, FitsAll, PTL DEF Spec

=============================================================================
