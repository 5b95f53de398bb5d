--------------------------- MODULE SessionIdentity ---------------------------
(***************************************************************************)
(* Which session a request belongs to (gateway session.ts, and             *)
(* identifySession and its callers in pipeline.ts): by a known header, by  *)
(* a lower-priority known header, by the rotation of a known header, by a  *)
(* learned header, or by the fingerprint of the first message.             *)
(*                                                                         *)
(* A request goes through the steps between the awaits of the handler; two *)
(* requests interleave there.  A process keeps sessions, header index and  *)
(* learned values in memory, the table session_state survives a restart.   *)
(*                                                                         *)
(* A header value is a pair of its owner and a generation, 0 when a        *)
(* request lacks the header.  One header, x-client-id, stands for those    *)
(* that may be learned.                                                    *)
(***************************************************************************)
EXTENDS Integers, Sequences, FiniteSets, FiniteSetsExt

CONSTANTS
    Convs,          \* conversations of clients
    Requests,       \* bound: requests in progress at a time
    KnownHeaders,   \* KNOWN_SESSION_HEADERS, by priority
    Sends,          \* the known headers a conversation's client sends
    Adds,           \* the ones a later version of the client sends as well
    Volatile,       \* the ones with a new value after a restart of the client
    FirstMessage,   \* fingerprint of a conversation: first user message and credential
    ClientId,       \* the other id-like header a client sends, or NoId
    ParentOf,       \* the conversation whose sub-agent this one is, or NoConv
    LEARNING_THRESHOLD, MESSAGE_COUNT_PROXIMITY_THRESHOLD,
    MaxSent,        \* bound: requests of a conversation
    MaxGeneration,  \* bound: values of a header
    MaxChanges,     \* bound: restarts and upgrades of a client between two requests
    MaxPeriods      \* bound: restarts of the gateway, and days

NoConv == "none"
NoId   == "none"
NoValue == <<"none", 0>>
NoKey   == <<"none", NoValue>>

Key(name, v) == <<name, v>>
Names == {KnownHeaders[i] : i \in DOMAIN KnownHeaders}

ASSUME ConvsAssumption ==
    /\ NoConv \notin Convs
    /\ Sends \in [Convs -> SUBSET Names] /\ Adds \in [Convs -> SUBSET Names]
    /\ ParentOf \in [Convs -> Convs \cup {NoConv}]
    /\ MaxSent \in [Convs -> Nat]
    /\ \A c \in Convs : FirstMessage[c] # NoId
ASSUME HeadersAssumption == KnownHeaders \in Seq(STRING) /\ Names \cap {"x-client-id", "none"} = {}
ASSUME ThresholdAssumption == LEARNING_THRESHOLD \in Nat \ {0} /\ MESSAGE_COUNT_PROXIMITY_THRESHOLD \in Nat

VARIABLES
    client,      \* what each client sends next: header generations, requests so far
    initialized, \* initIfNeeded has run
    index,       \* headerSessionIndex
    sessions,    \* the sessions in memory, by session id
    rows,        \* the table session_state
    values,      \* globalHeaderValues of x-client-id
    stale,       \* sessions without a request for ROTATION_MAX_AGE_MS
    request,     \* the requests in progress
    used,        \* history: the sessions of a conversation's requests, each with its period
    made         \* history: session ids made, and periods: a day or a restart ends one

vars == <<client, initialized, index, sessions, rows, values, stale, request, used, made>>

-----------------------------------------------------------------------------

Idle == [pc |-> "idle", conv |-> NoConv, headers |-> [n \in Names |-> NoValue], parent |-> NoValue, count |-> 0,
         sid |-> 0, isNew |-> FALSE]

Untracked == [fingerprint |-> NoId, count |-> 0, key |-> NoKey, isSubagent |-> FALSE, parent |-> 0,
              candidate |-> NoValue]

Init ==
    /\ client = [c \in Convs |-> [gen |-> [n \in Names |-> IF n \in Sends[c] THEN 1 ELSE 0], sent |-> 0, changes |-> 0]]
    /\ initialized = FALSE
    /\ index = [k \in {} |-> 0]
    /\ sessions = [s \in {} |-> Untracked]
    /\ rows = [s \in {} |-> Untracked]
    /\ values = {}
    /\ stale = {}
    /\ request = [r \in Requests |-> Idle]
    /\ used = [c \in Convs |-> {}]
    /\ made = [sids |-> 0, periods |-> 1]

\* A map after a set, and after those of another map.
Put(f, x, v) == [y \in DOMAIN f \cup {x} |-> IF y = x THEN v ELSE f[y]]
Merged(f, g) == [y \in DOMAIN f \cup DOMAIN g |-> IF y \in DOMAIN f THEN f[y] ELSE g[y]]

Row(s) == IF s \in DOMAIN rows THEN rows[s] ELSE Untracked

\* The header index kept in the table.
\* A bug: a session is only found by its header once it is loaded again.
Bug_StoredIndex == [k \in {} |-> 0]

StoredIndex ==
    LET ss == {s \in DOMAIN rows : rows[s].key # NoKey}
    IN  [k \in {rows[s].key : s \in ss} |-> CHOOSE s \in ss : rows[s].key = k]

-----------------------------------------------------------------------------
(* Requests *)

HeadersOf(c) == [n \in Names |-> IF client[c].gen[n] = 0 THEN NoValue ELSE <<c, client[c].gen[n]>>]

Carried(h) == {i \in DOMAIN KnownHeaders : h[KnownHeaders[i]] # NoValue}
HasKnown(h) == Carried(h) # {}
Primary(h) == KnownHeaders[Min(Carried(h))]
PrimaryKey(h) == Key(Primary(h), h[Primary(h)])

\* x-parent-session-id: the id under which the client knows the parent.
ParentValue(c) ==
    IF ParentOf[c] = NoConv \/ ~HasKnown(HeadersOf(ParentOf[c])) THEN NoValue
    ELSE HeadersOf(ParentOf[c])[Primary(HeadersOf(ParentOf[c]))]

\* A request arrives; the first one of a process restores the header index.
\* A sub-agent is started by a turn of its parent.
Arrives(r, c) ==
    /\ request[r].pc = "idle"
    /\ client[c].sent < MaxSent[c]
    /\ ParentOf[c] # NoConv => client[ParentOf[c]].sent > 0
    /\ client' = [client EXCEPT ![c].sent = @ + 1, ![c].changes = 0]
    /\ initialized' = TRUE
    /\ index' = IF initialized THEN index ELSE Merged(StoredIndex, index)
    /\ request' = [request EXCEPT ![r] =
           [Idle EXCEPT !.pc = "identify", !.conv = c, !.headers = HeadersOf(c), !.parent = ParentValue(c),
                        !.count = client[c].sent + 1]]
    /\ UNCHANGED <<sessions, rows, values, stale, used, made>>

Identified(r, s, isNew) == request' = [request EXCEPT ![r].pc = "attach", ![r].sid = s, ![r].isNew = isNew]

\* Tier 1
ByKnownHeader(r) ==
    LET h == request[r].headers IN
    /\ request[r].pc = "identify" /\ HasKnown(h)
    /\ PrimaryKey(h) \in DOMAIN index
    /\ Identified(r, index[PrimaryKey(h)], FALSE)
    /\ UNCHANGED <<client, initialized, index, sessions, rows, values, stale, used, made>>

\* Tier 1a: the first other known header that is indexed.
Fallbacks(h) ==
    {i \in Carried(h) : KnownHeaders[i] # Primary(h) /\ Key(KnownHeaders[i], h[KnownHeaders[i]]) \in DOMAIN index}

\* The session is filed under the new key, in the table and in memory.
Refile(s, key) ==
    /\ rows' = Put(rows, s, [Row(s) EXCEPT !.key = key])
    /\ sessions' = IF s \in DOMAIN sessions THEN [sessions EXCEPT ![s].key = key] ELSE sessions

ByOtherHeader(r) ==
    LET h    == request[r].headers
        name == KnownHeaders[Min(Fallbacks(h))]
        s    == index[Key(name, h[name])]
    IN  /\ request[r].pc = "identify" /\ HasKnown(h)
        /\ PrimaryKey(h) \notin DOMAIN index /\ Fallbacks(h) # {}
        /\ index' = Put(index, PrimaryKey(h), s)
        /\ Refile(s, PrimaryKey(h))
        /\ Identified(r, s, FALSE)
        /\ UNCHANGED <<client, initialized, values, stale, used, made>>

\* Tier 1b: the keys of the same header with a session that may have moved on.
MayRotate(s) ==
    /\ s \notin stale
    /\ IF s \in DOMAIN sessions THEN ~sessions[s].isSubagent ELSE s \in DOMAIN rows /\ ~rows[s].isSubagent

\* A bug: any header's session will do.
Bug_Predecessors(h) == {k \in DOMAIN index : MayRotate(index[k])}

Predecessors(h) == {k \in DOMAIN index : k[1] = Primary(h) /\ MayRotate(index[k])}

IsUnfiled(r) ==
    LET h == request[r].headers
    IN  request[r].pc = "identify" /\ HasKnown(h) /\ PrimaryKey(h) \notin DOMAIN index /\ Fallbacks(h) = {}

ByRotation(r) ==
    LET h == request[r].headers
        k == CHOOSE x \in Predecessors(h) : TRUE
    IN  /\ IsUnfiled(r)
        /\ Cardinality(Predecessors(h)) = 1
        /\ index' = Put([x \in DOMAIN index \ {k} |-> index[x]], PrimaryKey(h), index[k])
        /\ Refile(index[k], PrimaryKey(h))
        /\ Identified(r, index[k], FALSE)
        /\ UNCHANGED <<client, initialized, values, stale, used, made>>

\* A new session; its key is indexed at once, and only in memory.
\* A bug: the key is left to the session's first turn.
Bug_ByNewHeader(r) ==
    /\ IsUnfiled(r)
    /\ Cardinality(Predecessors(request[r].headers)) # 1
    /\ made' = [made EXCEPT !.sids = @ + 1]
    /\ Identified(r, made.sids + 1, TRUE)
    /\ UNCHANGED <<client, initialized, index, sessions, rows, values, stale, used>>

ByNewHeader(r) ==
    LET h == request[r].headers IN
    /\ IsUnfiled(r)
    /\ Cardinality(Predecessors(h)) # 1
    /\ made' = [made EXCEPT !.sids = @ + 1]
    /\ index' = Put(index, PrimaryKey(h), made.sids + 1)
    /\ Identified(r, made.sids + 1, TRUE)
    /\ UNCHANGED <<client, initialized, sessions, rows, values, stale, used>>

\* Tier 2
ClientKey(c) == Key("x-client-id", IF ClientId[c] = NoId THEN NoValue ELSE <<ClientId[c], 1>>)
CarriesKey(r, k) ==
    /\ k # NoKey /\ k[2] # NoValue
    /\ IF k[1] \in Names THEN request[r].headers[k[1]] = k[2] ELSE ClientKey(request[r].conv) = k

LearnedBy(r) == {s \in DOMAIN sessions : CarriesKey(r, sessions[s].key)}

ByLearnedHeader(r) ==
    /\ request[r].pc = "identify" /\ ~HasKnown(request[r].headers)
    /\ \E s \in LearnedBy(r) : Identified(r, s, FALSE)
    /\ UNCHANGED <<client, initialized, index, sessions, rows, values, stale, used, made>>

\* Tier 3: the fingerprint is computed, asynchronously.
FingerprintStarts(r) ==
    /\ request[r].pc = "identify" /\ ~HasKnown(request[r].headers) /\ LearnedBy(r) = {}
    /\ request' = [request EXCEPT ![r].pc = "match"]
    /\ UNCHANGED <<client, initialized, index, sessions, rows, values, stale, used, made>>

-----------------------------------------------------------------------------
(* Fingerprints and learned headers *)

\* learnHeaders: a value seen LEARNING_THRESHOLD times in a row in the session,
\* of a header that has more than one value overall.
Learned(s, c) ==
    LET v == ClientKey(c)[2]
        x == sessions[s].candidate
    IN  IF v = NoValue THEN NoValue ELSE IF x[1] = v[1] THEN <<v[1], x[2] + 1>> ELSE v

NextValues(c) == IF ClientId[c] = NoId THEN values ELSE values \cup {ClientId[c]}
Promotes(s, c) == Learned(s, c)[2] >= LEARNING_THRESHOLD /\ Cardinality(NextValues(c)) > 1

Distance(r, s) == request[r].count - sessions[s].count
Near(r) ==
    {s \in DOMAIN sessions :
        /\ sessions[s].fingerprint = FirstMessage[request[r].conv]
        /\ Distance(r, s) >= -MESSAGE_COUNT_PROXIMITY_THRESHOLD}
Magnitude(d) == IF d < 0 THEN -d ELSE d
Nearest(r) == {s \in Near(r) : \A t \in Near(r) : Magnitude(Distance(r, s)) <= Magnitude(Distance(r, t))}

ByFingerprint(r) ==
    LET c == request[r].conv IN
    /\ request[r].pc = "match"
    /\ \E s \in Nearest(r) :
           /\ Identified(r, s, FALSE)
           /\ IF sessions[s].key # NoKey THEN UNCHANGED <<index, sessions, rows, values>>
              ELSE /\ values' = NextValues(c)
                   /\ IF Promotes(s, c)
                      THEN /\ sessions' = [sessions EXCEPT ![s].candidate = Learned(s, c), ![s].key = ClientKey(c)]
                           /\ index' = Put(index, ClientKey(c), s)
                           /\ rows' = Put(rows, s, [Row(s) EXCEPT !.key = ClientKey(c)])
                      ELSE /\ sessions' = [sessions EXCEPT ![s].candidate = Learned(s, c)]
                           /\ UNCHANGED <<index, rows>>
    /\ UNCHANGED <<client, initialized, stale, used, made>>

ByNewFingerprint(r) ==
    /\ request[r].pc = "match" /\ Near(r) = {}
    /\ made' = [made EXCEPT !.sids = @ + 1]
    /\ Identified(r, made.sids + 1, TRUE)
    /\ UNCHANGED <<client, initialized, index, sessions, rows, values, stale, used>>

-----------------------------------------------------------------------------
(* The head of the turn *)

\* getOrCreateSession: from memory, or what the table has of it.
Loaded(s) == IF s \in DOMAIN sessions THEN sessions[s] ELSE [Row(s) EXCEPT !.candidate = NoValue]
Reindexed(s) == IF s \notin DOMAIN sessions /\ Row(s).key # NoKey THEN Put(index, Row(s).key, s) ELSE index

\* The parent's session, under whatever header it is indexed.
Parents(s, v) == {Reindexed(s)[k] : k \in {x \in DOMAIN Reindexed(s) : x[2] = v}}

\* What the request's parent header makes of a session; 0: not resolved yet.
MarkSubagent(x, parent) == [x EXCEPT !.isSubagent = TRUE, !.parent = IF parent = 0 THEN @ ELSE parent]
NeedsParent(r, x) == request[r].parent # NoValue /\ (~x.isSubagent \/ x.parent = 0)

Counted(x, r) == [x EXCEPT !.count = request[r].count]

\* The state is loaded, marked as a sub-agent's, and counted unless it is new.
Attach(r) ==
    LET s     == request[r].sid
        found == Parents(s, request[r].parent)
    IN  /\ request[r].pc = "attach"
        /\ index' = Reindexed(s)
        /\ \E p \in IF found = {} THEN {0} ELSE found :
              LET mark(x) == IF NeedsParent(r, Loaded(s)) THEN MarkSubagent(x, p) ELSE x
                  done(x) == IF request[r].isNew THEN x ELSE Counted(x, r)
              IN  /\ sessions' = Put(sessions, s, done(mark(Loaded(s))))
                  /\ rows' = IF request[r].isNew /\ ~NeedsParent(r, Loaded(s)) THEN rows
                             ELSE Put(rows, s, done(mark(Row(s))))
        /\ stale' = stale \ {s}
        /\ used' = [used EXCEPT ![request[r].conv] = @ \cup {<<made.periods, s>>}]
        /\ request' = [request EXCEPT ![r] = IF @.isNew THEN [@ EXCEPT !.pc = "seed"] ELSE Idle]
        /\ UNCHANGED <<client, initialized, values, made>>

\* A new session gets its fingerprint, after another await, and its first
\* candidate for a learned header.
Seed(r) ==
    LET s == request[r].sid
        c == request[r].conv
    IN  /\ request[r].pc = "seed"
        /\ sessions' = [sessions EXCEPT ![s] = [Counted(@, r) EXCEPT
               !.fingerprint = FirstMessage[c],
               !.candidate = IF sessions[s].key = NoKey THEN Learned(s, c) ELSE @]]
        /\ values' = IF sessions[s].key = NoKey THEN NextValues(c) ELSE values
        /\ rows' = Put(rows, s, [Counted(Row(s), r) EXCEPT !.fingerprint = FirstMessage[c]])
        /\ request' = [request EXCEPT ![r] = Idle]
        /\ UNCHANGED <<client, initialized, index, stale, used, made>>

-----------------------------------------------------------------------------
(* Clients, time and restarts *)

InProgress(c) == \E r \in Requests : request[r].conv = c

\* A client restarts and gives its volatile headers new values.
ClientRestarts(c) ==
    /\ ~InProgress(c) /\ client[c].changes < MaxChanges
    /\ Sends[c] \cap Volatile # {}
    /\ \A n \in Sends[c] \cap Volatile : client[c].gen[n] < MaxGeneration
    /\ client' = [client EXCEPT ![c].gen = [n \in Names |-> IF n \in Sends[c] \cap Volatile THEN @[n] + 1 ELSE @[n]],
                                  ![c].changes = @ + 1]
    /\ UNCHANGED <<initialized, index, sessions, rows, values, stale, request, used, made>>

\* A client is upgraded and sends more headers.
ClientUpgraded(c) ==
    /\ ~InProgress(c) /\ client[c].changes < MaxChanges
    /\ \E n \in Adds[c] : client[c].gen[n] = 0
    /\ client' = [client EXCEPT ![c].gen = [n \in Names |-> IF n \in Adds[c] /\ @[n] = 0 THEN 1 ELSE @[n]],
                                  ![c].changes = @ + 1]
    /\ UNCHANGED <<initialized, index, sessions, rows, values, stale, request, used, made>>

DayPasses ==
    /\ made.periods < MaxPeriods
    /\ stale # DOMAIN sessions \cup DOMAIN rows
    /\ \A r \in Requests : request[r].pc = "idle"
    /\ stale' = DOMAIN sessions \cup DOMAIN rows
    /\ made' = [made EXCEPT !.periods = @ + 1]
    /\ UNCHANGED <<client, initialized, index, sessions, rows, values, request, used>>

\* The gateway restarts; requests in progress are lost.
Restart ==
    /\ initialized
    /\ made.periods < MaxPeriods
    /\ made' = [made EXCEPT !.periods = @ + 1]
    /\ initialized' = FALSE
    /\ index' = [k \in {} |-> 0]
    /\ sessions' = [s \in {} |-> Untracked]
    /\ values' = {}
    /\ request' = [r \in Requests |-> Idle]
    /\ UNCHANGED <<client, rows, stale, used>>

Next ==
    \/ \E r \in Requests :
         \/ \E c \in Convs : Arrives(r, c)
         \/ ByKnownHeader(r) \/ ByOtherHeader(r) \/ ByRotation(r) \/ ByNewHeader(r)
         \/ ByLearnedHeader(r) \/ FingerprintStarts(r) \/ ByFingerprint(r) \/ ByNewFingerprint(r)
         \/ Attach(r) \/ Seed(r)
    \/ \E c \in Convs : ClientRestarts(c) \/ ClientUpgraded(c)
    \/ DayPasses
    \/ Restart

Spec == Init /\ [][Next]_vars

-----------------------------------------------------------------------------
(* Properties *)

TypeOK ==
    /\ \A k \in DOMAIN index : index[k] \in 1..made.sids
    /\ DOMAIN sessions \cup DOMAIN rows \subseteq 1..made.sids
    /\ \A r \in Requests : request[r].pc \in {"idle", "identify", "match", "attach", "seed"}
    /\ \A c \in Convs : client[c].sent \in 0..MaxSent[c]

SessionsOf(c, period) == {u[2] : u \in {x \in used[c] : x[1] = period}}
MayShareHeader(c, d) == (Sends[c] \cup Adds[c]) \cap (Sends[d] \cup Adds[d]) # {}

\* What brings two conversations into one session.
Meets(c, d) ==
    \/ MayShareHeader(c, d)
    \/ FirstMessage[c] = FirstMessage[d]
    \/ ClientId[c] # NoId /\ ClientId[c] = ClientId[d]

Alone(c) == Sends[c] # {} /\ ParentOf[c] = NoConv /\ \A d \in Convs \ {c} : ~Meets(c, d)

\* A conversation whose client sends a known header, and that meets no other
\* one, has one session as long as the gateway runs: through overlapping first
\* requests, restarts of the client within a day, and an upgrade that adds a
\* header, one of them between two requests.
OneSession == \A c \in Convs : Alone(c) => Cardinality(SessionsOf(c, made.periods)) <= 1

\* Conversations meet in one session only through headers they both send, a
\* common first message or a common client id, or through others that do: a
\* group that meets no conversation outside has its sessions for itself.
Closed(G) == \A c \in G, d \in Convs : Meets(c, d) => d \in G
Apart ==
    \A G \in SUBSET Convs : Closed(G) =>
        \A c \in G, d \in Convs \ G : {u[2] : u \in used[c]} \cap {u[2] : u \in used[d]} = {}

\* A key in the table is found again after a restart: what was migrated or
\* rotated leads to its session, what was learned to one that has learned it.
StoredKeysLead ==
    initialized => \A s \in DOMAIN rows : rows[s].key # NoKey =>
        /\ rows[s].key \in DOMAIN index
        /\ rows[s].key[1] \in Names => index[rows[s].key] = s

\* A learned key, too, leads to the one session that has it.
LearnedKeysLead ==
    initialized => \A s \in DOMAIN rows : rows[s].key # NoKey => index[rows[s].key] = s

\* A conversation that is the only one to send its headers, and whose values
\* have not changed, has the same session after a restart of the gateway.
ResumesAfterRestart ==
    \A c \in Convs : Alone(c) /\ Sends[c] \cap Volatile = {} => Cardinality({u[2] : u \in used[c]}) <= 1

\* A sub-agent has a session of its own.
SubagentApart ==
    \A c \in Convs : ParentOf[c] # NoConv => {u[2] : u \in used[c]} \cap {u[2] : u \in used[ParentOf[c]]} = {}
=============================================================================
