------------------------------ MODULE Gradient ------------------------------
(***************************************************************************)
(* The gradient: what part of a conversation a request carries, decided    *)
(* from the calibration of the session's last answers (gradient.ts), and   *)
(* the turn of pipeline.ts around it: model limits, idle resume, the await *)
(* of long-term memory, the transform, the answer, the 30 s flush.         *)
(*                                                                         *)
(* Token counts are scaled; percentages are those of the code.             *)
(***************************************************************************)
EXTENDS Window

CONSTANTS
    Sessions, Requests, Models,
    Pricing,      \* Pricing[m]: [max, cap, write, read] of a model: its input limit,
                  \* layer-0 cap and cache prices, 0 where there is none
    CapFixed,     \* whether budget.maxLayer0Tokens is set, and caps every model
    FirstTurnOverhead, \* FIRST_TURN_OVERHEAD
    PrefixBase, RowSize, \* tokens of a distilled prefix, and of a row in it
    DistLimit,    \* the rows layer 3 keeps
    EmergencyRows, \* the rows layer 4 keeps
    BustLimit,    \* busts in a row after which nothing is compressed any more
    RecentKept,   \* recentSegmentsToKeep
    FirstMerge,   \* the segments a session's first consolidation takes
    LtmSizes,     \* tokens of long-term memory a turn may inject
    Extras,       \* what an answer counts beyond the estimate
    Calls,        \* API calls one answer may add up: recall follow-ups
    HostForces,   \* whether the host calls setForceMinLayer on an overflow
    Replies,      \* the messages of an assistant's answer
    Openings,     \* what a client may send first, or in place of what it sent
    MaxMessages, MaxRows, MaxTurns, \* bounds: conversation length, distillations, requests
    NoState, NoOverhead, NoSnapshot, NoPrefix, NoPin, NoModel

Layers == 0 .. 4

Last(list) == list[Len(list)]

Asks == {m \in Messages : m.kind = "user"}

\* Roles alternate: a user message is first, and one follows an assistant's text.
Alternates(c) ==
    /\ c[1].kind = "user"
    /\ \A i \in 1 .. Len(c) - 1 : c[i].kind = "text" => c[i + 1].kind = "user"

ASSUME GradientAssumption ==
    /\ \A m \in Models :
          /\ Pricing[m].max \in Nat \ {0}
          /\ {Pricing[m].cap, Pricing[m].write, Pricing[m].read} \subseteq Nat
    /\ {FirstTurnOverhead, PrefixBase, RowSize, RecentKept} \subseteq Nat
    /\ {DistLimit, EmergencyRows, BustLimit, FirstMerge, MaxMessages, MaxRows, MaxTurns} \subseteq Nat \ {0}
    /\ LtmSizes \subseteq Nat /\ Extras \subseteq Nat /\ Calls \subseteq Nat \ {0}
    /\ Replies \subseteq Messages \ Asks
    /\ \A c \in Openings : c \in Conversations \ {<<>>} /\ Alternates(c) /\ Last(c).kind = "user"
    /\ HostForces \in BOOLEAN /\ CapFixed \in BOOLEAN /\ Models # {} /\ Sessions # {}
    /\ NoModel \notin Models /\ NoOverhead \notin Nat

VARIABLES
    limits,    \* the model contextLimit and outputReserved were last set for
    costs,     \* the models the layer-0 cap and the cache prices were last set for
    overhead,  \* calibratedOverhead
    ses,       \* sessionStates
    urgent,    \* urgentDistillationMap
    dirty,     \* sessions whose state the next tick saves
    saved,     \* the gradient's columns of session_state
    rows,      \* the distillations in the prefix, oldest first
    made,      \* distillations made so far
    conv,      \* the client's side of the conversation
    req,       \* what each request is doing
    turns      \* requests received so far

vars == <<limits, costs, overhead, ses, urgent, dirty, saved, rows, made, conv, req, turns>>

-----------------------------------------------------------------------------

Times == {"never", "recent", "old"}  \* lastTurnAt; old: longer ago than the idle threshold

FreshState ==
    [known |-> 0, knownLtm |-> 0, count |-> 0, sent |-> 0, layer |-> 0, window |-> {},
     force |-> 0, estimate |-> 0, ltm |-> 0, snapshot |-> NoSnapshot, prefix |-> NoPrefix,
     pin |-> NoPin, at |-> "never", compact |-> FALSE, busts |-> 0]

\* Mutant: a restart forgets the forced layer.
Bug_GetSessionState(s) ==
    IF ses[s] # NoState THEN ses[s]
    ELSE IF saved[s].at = "never" THEN FreshState
    ELSE [FreshState EXCEPT !.layer = saved[s].layer, !.known = saved[s].known, !.at = saved[s].at]

\* getSessionState: the calibration comes back whole or not at all.
GetSessionState(s) ==
    IF ses[s] # NoState THEN ses[s]
    ELSE LET forced == [FreshState EXCEPT !.force = saved[s].force]
         IN  IF saved[s].at = "never" THEN forced
             ELSE [forced EXCEPT !.layer = saved[s].layer, !.known = saved[s].known,
                                 !.at = saved[s].at]

NoRequest == [pc |-> "idle", s |-> CHOOSE s \in Sessions : TRUE, m |-> CHOOSE m \in Models : TRUE,
              conv |-> <<>>, layer |-> 0, first |-> 1, prefixed |-> FALSE, rewritten |-> {},
              tokens |-> 0, input |-> 0, calibrated |-> FALSE]

Active(r) == req[r].pc # "idle"

NoCosts == [cap |-> NoModel, prices |-> NoModel]

Init ==
    /\ limits = NoModel /\ costs = NoCosts /\ overhead = NoOverhead
    /\ ses = [s \in Sessions |-> NoState]
    /\ urgent = {} /\ dirty = {}
    /\ saved = [s \in Sessions |-> [force |-> 0, layer |-> 0, known |-> 0, at |-> "never"]]
    /\ rows = [s \in Sessions |-> <<>>] /\ made = 0
    /\ conv = [s \in Sessions |-> <<>>]
    /\ req = [r \in Requests |-> NoRequest] /\ turns = 0

-----------------------------------------------------------------------------
(* Budgets.  "st" is a session's state, "c" the conversation of a request. *)

RemoveAll(list, positions) ==
    LET kept == 1 .. Len(list) \ positions
    IN  [k \in 1 .. Cardinality(kept) |->
            list[CHOOSE i \in kept : Cardinality({j \in kept : j <= i}) = k]]

NonNeg(n) == IF n < 0 THEN 0 ELSE n
Percent(n, pct) == (n * pct) \div 100

MaxInput == Pricing[limits].max
GetOverhead == IF overhead = NoOverhead THEN FirstTurnOverhead ELSE overhead
Usable(st) == NonNeg(MaxInput - GetOverhead - st.ltm)

DistilledBudget(st) == Percent(Usable(st), 25)
RawBudget(st) == Percent(Usable(st), IF st.compact THEN 20 ELSE 40)

StageRaw(st, layer) ==
    CASE layer = 1 -> RawBudget(st)
      [] layer = 2 -> Percent(Usable(st), 50)
      [] layer = 3 -> Percent(Usable(st), 55)
StageDistilled(st, layer) == IF layer = 3 THEN Percent(Usable(st), 15) ELSE DistilledBudget(st)

Calibrated(st) == st.known > 0

\* UNCALIBRATED_SAFETY is 1.5.
WithSafety(st, tokens) == IF Calibrated(st) THEN tokens ELSE (3 * tokens + 1) \div 2

\* Messages the last window did not hold; by position when no window is known,
\* where slice(-0) takes them all.
NewMessages(st, c) ==
    IF st.window # {} THEN {i \in 1 .. Len(c) : MessageId(c, i) \notin st.window}
    ELSE IF Len(c) > st.count THEN st.count + 1 .. Len(c) ELSE 1 .. Len(c)

ExpectedInput(st, c) ==
    IF Calibrated(st)
    THEN st.known + TokensOf(c, NewMessages(st, c)) + st.ltm - st.knownLtm
    ELSE Tokens(c, 1) + GetOverhead + st.ltm

PassedTokens(st, c) ==
    NonNeg(ExpectedInput(st, c) - (IF Calibrated(st) THEN st.ltm - st.knownLtm ELSE GetOverhead + st.ltm))

-----------------------------------------------------------------------------
(* The layer. *)

\* Mutant: any compressed layer will do.
Bug_StickyLayer(st, c) ==
    IF Calibrated(st) /\ st.layer \in 1 .. 3 /\ Len(c) >= st.count THEN 1 ELSE 0

\* No lower than the last compressed layer until the conversation is shorter
\* than the last window.
StickyLayer(st, c) ==
    IF Calibrated(st) /\ st.layer \in 1 .. 3 /\ Len(c) >= st.count THEN st.layer ELSE 0

MinLayer(st, c) == Max({st.force, StickyLayer(st, c), IF st.compact THEN 1 ELSE 0})

Layer0Ceiling(st) ==
    LET cap     == IF costs.cap = NoModel THEN 0 ELSE Pricing[costs.cap].cap
        ceiling == IF cap > 0 THEN Min({MaxInput, cap}) ELSE MaxInput
    IN  IF ~Calibrated(st) /\ ceiling < MaxInput THEN Percent(ceiling, 70) ELSE ceiling

ShouldCompress(st, input) ==
    /\ st.busts < BustLimit
    /\ costs.prices # NoModel
    /\ 100 * (DistilledBudget(st) + RawBudget(st)) * Pricing[costs.prices].write
          < 85 * input * Pricing[costs.prices].read

PassesThrough(st, c) ==
    LET input == WithSafety(st, ExpectedInput(st, c))
    IN  /\ MinLayer(st, c) = 0
        /\ \/ input <= Layer0Ceiling(st)
           \/ input <= MaxInput /\ ~ShouldCompress(st, input)

-----------------------------------------------------------------------------
(* The distilled prefix. *)

\* loadDistillationsCached: the rows are read again when the last user message
\* is another one.
SnapshotFor(st, s, c) ==
    LET user == MessageId(c, LastUser(c))
    IN  IF st.snapshot # NoSnapshot /\ st.snapshot.user = user
        THEN st.snapshot ELSE [user |-> user, rows |-> rows[s]]

Ids(list) == [i \in 1 .. Len(list) |-> list[i].id]

\* Summaries of earlier work come first.
FormatDistillations(list) ==
    LET metas == {i \in 1 .. Len(list) : list[i].meta}
    IN  Ids(RemoveAll(list, 1 .. Len(list) \ metas)) \o Ids(RemoveAll(list, metas))

\* Mutant: the cached text is kept as long as the rows are no fewer.
Bug_PrefixFor(st, list) ==
    LET size == Len(list)
        text == IF st.prefix # NoPrefix /\ st.prefix.count <= size
                THEN st.prefix.text \o FormatDistillations(SubSeq(list, st.prefix.count + 1, size))
                ELSE FormatDistillations(list)
    IN  IF size = 0 THEN NoPrefix
        ELSE [last |-> list[size].id, count |-> size, text |-> text]

\* distilledPrefixCached: text that only grows while the rows do.
PrefixFor(st, list) ==
    LET size  == Len(list)
        valid == /\ st.prefix # NoPrefix /\ st.prefix.count <= size
                 /\ list[st.prefix.count].id = st.prefix.last
        text  == IF valid
                 THEN st.prefix.text \o FormatDistillations(SubSeq(list, st.prefix.count + 1, size))
                 ELSE FormatDistillations(list)
    IN  IF size = 0 THEN NoPrefix
        ELSE [last |-> list[size].id, count |-> size, text |-> text]

PrefixTokens(n) == IF n = 0 THEN 0 ELSE PrefixBase + n * RowSize
RowsShown(layer, n) ==
    CASE layer \in {1, 2} -> n
      [] layer = 3 -> Min({n, DistLimit})
      [] layer = 4 -> Min({n, EmergencyRows})

-----------------------------------------------------------------------------
(* COMPRESSION_STAGES.  "d" is the conversation with repeated outputs       *)
(* annotated, "n" the number of distillations.                             *)

Pinned(st, d, layer, n) ==
    layer = 1 /\ st.pin # NoPin /\ PinFits(d, st.pin, RawBudget(st), n > 0)

HasWindow(st, d, layer, n) ==
    /\ n = 0 \/ PrefixTokens(RowsShown(layer, n)) <= StageDistilled(st, layer)
    /\ Pinned(st, d, layer, n) \/ TurnFits(d, StageRaw(st, layer))

WindowStart(st, d, layer, n) ==
    IF layer = 4 THEN EmergencyStart(d, Usable(st), n > 0)
    ELSE IF Pinned(st, d, layer, n) THEN PinnedStart(d, st.pin, n > 0)
    ELSE TryFit(d, StageRaw(st, layer), n > 0)

WindowTokens(st, d, layer, n) ==
    PrefixTokens(RowsShown(layer, n)) + Tokens(d, WindowStart(st, d, layer, n))

StageFits(st, d, layer, n) ==
    /\ HasWindow(st, d, layer, n)
    /\ Calibrated(st) \/ WithSafety(st, WindowTokens(st, d, layer, n)) <= MaxInput

LayerFor(st, c, d, n) ==
    IF PassesThrough(st, c) THEN 0
    ELSE LET least == MinLayer(st, c)
         IN  Min({4} \cup {layer \in least .. 3 : layer > 0 /\ StageFits(st, d, layer, n)})

\* Mutant: the current turn is stripped like the rest.
Bug_Stripped(c, layer) ==
    {i \in 1 .. Len(c) : c[i].kind = "tool" /\ (layer = 3 \/ (layer = 2 /\ Len(c) - i >= 4))}

\* Layer 2 strips the tool outputs before the last two turns, layer 3 all of
\* them; never those of the current turn.
Stripped(c, layer) ==
    {i \in 1 .. CurrentTurnStart(c) - 1 :
        c[i].kind = "tool" /\ (layer = 3 \/ (layer = 2 /\ Len(c) - i >= 4))}

PinFor(st, d, layer, n, first) ==
    CASE layer = 0 -> st.pin
      [] layer = 1 -> IF /\ Pinned(st, d, layer, n)
                         /\ WithinMargin(Tokens(d, first), st.pin.budget)
                      THEN st.pin
                      ELSE [raw |-> Len(d) - first + 1, total |-> Len(d), budget |-> RawBudget(st)]
      [] OTHER -> NoPin

-----------------------------------------------------------------------------
(* The steps of a turn. *)

\* Each is set where it is known, and otherwise stays that of an earlier model.
Capped(m) == CapFixed \/ Pricing[m].read > 0
Priced(m) == Pricing[m].write > 0 /\ Pricing[m].read > 0

\* The next exchange, a retry, or an opening: a new conversation, one resumed
\* from elsewhere, what a client's own compaction or rewind left.
Incoming(s) ==
    Openings \cup
    (IF conv[s] = <<>> THEN {}
     ELSE IF Last(conv[s]).kind = "user" THEN {conv[s]}
     ELSE {Append(conv[s], a) : a \in Asks})

\* Model limits and prices are set, and a session whose prompt cache is cold
\* loses its caches; it is compacted unless the cache warmer kept it warm.
Arrive(r, s, m, c, warm) ==
    /\ ~Active(r) /\ turns < MaxTurns
    /\ turns' = turns + 1
    /\ c \in Incoming(s) /\ Len(c) <= MaxMessages
    /\ LET st == GetSessionState(s)
       IN  ses' = [ses EXCEPT ![s] =
                      IF st.at # "old" THEN st
                      ELSE [st EXCEPT !.snapshot = NoSnapshot, !.prefix = NoPrefix,
                                      !.pin = NoPin, !.compact = ~warm]]
    /\ conv' = [conv EXCEPT ![s] = c]
    /\ limits' = m
    /\ costs' = [cap    |-> IF Capped(m) THEN m ELSE costs.cap,
                 prices |-> IF Priced(m) THEN m ELSE costs.prices]
    /\ req' = [req EXCEPT ![r] = [NoRequest EXCEPT !.pc = "ltm", !.s = s, !.m = m, !.conv = c]]
    /\ UNCHANGED <<overhead, urgent, dirty, saved, rows, made>>

\* After the await of long-term memory: setLtmTokens and transform.
Transform(r, ltm) ==
    LET s      == req[r].s
        c      == req[r].conv
        st     == [ses[s] EXCEPT !.ltm = ltm]
        d      == DeduplicateToolOutputs(c)
        snap   == SnapshotFor(st, s, c)
        n      == Len(snap.rows)
        layer  == LayerFor(st, c, d, n)
        first  == IF layer = 0 THEN 1 ELSE WindowStart(st, IF layer = 4 THEN c ELSE d, layer, n)
        shown  == IF layer = 0 THEN 0 ELSE RowsShown(layer, n)
        edited == IF layer \in 1 .. 3 THEN Repeated(c, CurrentTurnStart(c)) \cup Stripped(c, layer)
                  ELSE {}
        tokens == IF layer = 0 THEN PassedTokens(st, c)
                  ELSE PrefixTokens(shown) + Tokens(IF layer = 4 THEN c ELSE d, first)
    IN  /\ req[r].pc = "ltm"
        /\ req' = [req EXCEPT ![r] =
                      [req[r] EXCEPT !.pc = IF layer = 4 THEN "refresh" ELSE "waiting",
                          !.layer = layer, !.first = first, !.prefixed = shown > 0,
                          !.rewritten = {i \in edited : i >= first}, !.tokens = tokens,
                          !.input = PrefixTokens(shown) + Tokens(Annotated(c, edited), first),
                          !.calibrated = Calibrated(st)]]
        /\ ses' = [ses EXCEPT ![s] =
                      [st EXCEPT !.force = 0, !.compact = FALSE, !.layer = layer,
                                 !.window = MessageIds(c, first),
                                 !.sent = Len(c) - first + 1 + (IF shown > 0 THEN 2 ELSE 0),
                                 !.estimate = tokens, !.at = "recent",
                                 !.snapshot = IF layer = 0 THEN st.snapshot ELSE snap,
                                 !.prefix = IF layer = 0 THEN st.prefix ELSE PrefixFor(st, snap.rows),
                                 !.pin = PinFor(st, d, layer, n, first)]]
        /\ saved' = [saved EXCEPT ![s].force = 0]
        /\ urgent' = IF layer > 1 \/ (layer = 1 /\ n = 0) THEN urgent \cup {s} ELSE urgent
        /\ UNCHANGED <<limits, costs, overhead, dirty, rows, made, conv, turns>>

\* Layer 4 scores long-term memory once more and counts its tokens again.
RefreshLtm(r, ltm) ==
    /\ req[r].pc = "refresh"
    /\ req' = [req EXCEPT ![r].pc = "waiting"]
    /\ ses' = [ses EXCEPT ![req[r].s].ltm = ltm]
    /\ UNCHANGED <<limits, costs, overhead, urgent, dirty, saved, rows, made, conv, turns>>

\* Math.round(0.7 * old + 0.3 * new)
Blend(old, new) == (7 * old + 3 * new + 5) \div 10

Calibrate(st, actual) ==
    [st EXCEPT !.known = actual, !.knownLtm = st.ltm, !.count = st.sent]

RecordCacheUsage(st, bust) ==
    [st EXCEPT !.busts = IF bust THEN Min({st.busts + 1, BustLimit}) ELSE 0]

\* postResponse: the usage of "calls" API calls, added up.  A client that has
\* sent something else meanwhile drops the reply.
Answer(r, reply, extra, calls, bust) ==
    LET s      == req[r].s
        actual == calls * (req[r].input + ses[s].ltm + extra)
        above  == NonNeg(actual - ses[s].estimate)
    IN  /\ req[r].pc = "waiting"
        /\ ses' = [ses EXCEPT ![s] = RecordCacheUsage(Calibrate(ses[s], actual), bust)]
        /\ overhead' = IF ses[s].estimate = 0 THEN overhead
                       ELSE IF overhead = NoOverhead THEN above ELSE Blend(overhead, above)
        /\ conv' = IF conv[s] = req[r].conv THEN [conv EXCEPT ![s] = Append(@, reply)] ELSE conv
        /\ dirty' = dirty \cup {s}
        /\ urgent' = urgent \ {s}
        /\ req' = [req EXCEPT ![r] = NoRequest]
        /\ UNCHANGED <<limits, costs, saved, rows, made, turns>>

\* An upstream error is handed to the client and changes nothing.
Fail(r) ==
    /\ req[r].pc = "waiting"
    /\ req' = [req EXCEPT ![r] = NoRequest]
    /\ UNCHANGED <<limits, costs, overhead, ses, urgent, dirty, saved, rows, made, conv, turns>>

\* setForceMinLayer(2), as a host calls it on "prompt is too long".
Overflow(r) ==
    LET s == req[r].s
    IN  /\ HostForces /\ req[r].pc = "waiting"
        /\ ses' = [ses EXCEPT ![s].force = 2]
        /\ saved' = [saved EXCEPT ![s].force = 2]
        /\ req' = [req EXCEPT ![r] = NoRequest]
        /\ UNCHANGED <<limits, costs, overhead, urgent, dirty, rows, made, conv, turns>>

-----------------------------------------------------------------------------
(* The timer, time, restarts and the distillations. *)

SavedGradient(s) ==
    [saved[s] EXCEPT !.layer = ses[s].layer, !.known = ses[s].known, !.at = ses[s].at]

Tick ==
    /\ dirty # {}
    /\ saved' = [s \in Sessions |-> IF s \in dirty THEN SavedGradient(s) ELSE saved[s]]
    /\ dirty' = {}
    /\ UNCHANGED <<limits, costs, overhead, ses, urgent, rows, made, conv, req, turns>>

Aged(at) == IF at = "recent" THEN "old" ELSE at

IdleTime(s) ==
    /\ IF ses[s] = NoState THEN saved[s].at = "recent" ELSE ses[s].at = "recent"
    /\ ses' = IF ses[s] = NoState THEN ses ELSE [ses EXCEPT ![s].at = "old"]
    /\ saved' = [saved EXCEPT ![s].at = Aged(@)]
    /\ UNCHANGED <<limits, costs, overhead, urgent, dirty, rows, made, conv, req, turns>>

Restart ==
    /\ limits' = NoModel /\ costs' = NoCosts /\ overhead' = NoOverhead
    /\ ses' = [s \in Sessions |-> NoState]
    /\ urgent' = {} /\ dirty' = {}
    /\ req' = [r \in Requests |-> NoRequest]
    /\ UNCHANGED <<saved, rows, made, conv, turns>>

NewRow(meta) == [id |-> made + 1, meta |-> meta]

Distil(s) ==
    /\ made < MaxRows
    /\ made' = made + 1
    /\ rows' = [rows EXCEPT ![s] = Append(@, NewRow(FALSE))]
    /\ UNCHANGED <<limits, costs, overhead, ses, urgent, dirty, saved, conv, req, turns>>

\* metaDistill: all but the latest segments give way to one summary; a first
\* summary takes several of them.
Consolidate(s) ==
    LET gen0   == {i \in 1 .. Len(rows[s]) : ~rows[s][i].meta}
        first  == gen0 = 1 .. Len(rows[s])
        enough == Cardinality(gen0) >= RecentKept
        merged == {i \in gen0 : enough => Cardinality({j \in gen0 : j > i}) >= RecentKept}
    IN  /\ made < MaxRows
        /\ Cardinality(merged) >= IF first THEN FirstMerge ELSE 1
        /\ made' = made + 1
        /\ rows' = [rows EXCEPT ![s] = Append(RemoveAll(@, merged), NewRow(TRUE))]
        /\ UNCHANGED <<limits, costs, overhead, ses, urgent, dirty, saved, conv, req, turns>>

\* deleteDistillation, for the dashboard.
DeleteRow(s, i) ==
    /\ i \in 1 .. Len(rows[s])
    /\ rows' = [rows EXCEPT ![s] = RemoveAll(@, {i})]
    /\ UNCHANGED <<limits, costs, overhead, ses, urgent, dirty, saved, made, conv, req, turns>>

Next ==
    \/ \E r \in Requests :
          \/ \E s \in Sessions, m \in Models, warm \in BOOLEAN : \E c \in Incoming(s) :
                Arrive(r, s, m, c, warm)
          \/ \E ltm \in LtmSizes : Transform(r, ltm) \/ RefreshLtm(r, ltm)
          \/ \E reply \in Replies, extra \in Extras, n \in Calls, bust \in BOOLEAN :
                Answer(r, reply, extra, n, bust)
          \/ Fail(r) \/ Overflow(r)
    \/ \E s \in Sessions : IdleTime(s) \/ Distil(s) \/ Consolidate(s)
    \/ \E s \in Sessions, i \in 1 .. MaxRows : DeleteRow(s, i)
    \/ Tick \/ Restart

Spec == Init /\ [][Next]_vars

-----------------------------------------------------------------------------
(* Properties. *)

SessionState ==
    [known : Nat, knownLtm : Nat, count : Nat, sent : Nat, layer : Layers,
     window : SUBSET (Nat \X Messages), force : {0, 2}, estimate : Nat, ltm : Nat,
     snapshot : {NoSnapshot} \cup [user : Nat \X Messages, rows : Seq([id : 1 .. made, meta : BOOLEAN])],
     prefix : {NoPrefix} \cup [last : 1 .. made, count : Nat, text : Seq(1 .. made)],
     pin : {NoPin} \cup [raw : Nat, total : Nat, budget : Nat],
     at : Times, compact : BOOLEAN, busts : 0 .. BustLimit]

\* The state every module of the gateway reads: calibration and window of each
\* session, what the table holds of it, and the requests in progress.
TypeOK ==
    /\ limits \in Models \cup {NoModel} /\ costs \in [cap : Models \cup {NoModel}, prices : Models \cup {NoModel}]
    /\ overhead \in Nat \cup {NoOverhead}
    /\ \A s \in Sessions : ses[s] # NoState => ses[s] \in SessionState
    /\ urgent \subseteq Sessions /\ dirty \subseteq Sessions
    /\ saved \in [Sessions -> [force : {0, 2}, layer : Layers, known : Nat, at : Times]]
    /\ made \in 0 .. MaxRows /\ turns \in 0 .. MaxTurns
    /\ \A s \in Sessions : rows[s] \in Seq([id : 1 .. made, meta : BOOLEAN])
    /\ \A s \in Sessions : conv[s] \in Conversations
    /\ \A r \in Requests :
          /\ req[r].pc \in {"idle", "ltm", "refresh", "waiting"}
          /\ Active(r) => req[r].conv # <<>> /\ Last(req[r].conv).kind = "user"

Sent(r) == req[r].pc \in {"refresh", "waiting"}

\* A compressed request fits the model it is sent to, though overhead and calibration
\* have moved since its window was pinned: up to layer 3 the estimate is within the
\* input limit, with the safety margin when nothing has calibrated it
\* (transformInner).  It is false when the input limit itself moves, with the model.
WindowFits ==
    \A r \in Requests :
        Sent(r) /\ req[r].layer \in 1 .. 3 =>
            LET limit == Pricing[req[r].m].max
            IN  IF req[r].calibrated THEN req[r].tokens <= limit
                ELSE 3 * req[r].tokens <= 2 * limit

\* The turn in progress is never evicted and none of its outputs is rewritten:
\* the model would call the same tools again, for ever.
TurnIntact(r) ==
    LET turn == CurrentTurnStart(req[r].conv)
    IN  req[r].first <= turn /\ \A i \in req[r].rewritten : i < turn

CurrentTurnIntact == \A r \in Requests : Sent(r) => TurnIntact(r)

\* The prefix that grows by appending holds each row of the snapshot it stands
\* for exactly once, through consolidations and deletions (distilledPrefixCached).
PrefixMatchesRows ==
    \A s \in Sessions :
        ses[s] # NoState /\ ses[s].prefix # NoPrefix =>
            LET text == ses[s].prefix.text
                list == Ids(ses[s].snapshot.rows)
            IN  /\ Len(text) = Len(list)
                /\ {text[i] : i \in 1 .. Len(text)} = {list[i] : i \in 1 .. Len(list)}

\* setForceMinLayer's promise: the escalation survives restarts and is spent by
\* a transform at that layer or above, never lost.
ForcedIsHonoured ==
    [][\A s \in Sessions :
          saved[s].force > saved'[s].force =>
             \E r \in Requests : req[r].pc = "ltm" /\ Sent(r)' /\ req[r].s = s
                                 /\ req'[r].layer >= saved[s].force]_vars
=============================================================================
