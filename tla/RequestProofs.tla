--------------------------- MODULE RequestProofs ---------------------------
(***************************************************************************)
(* Theorems about a request, for every value of the constants: the session *)
(* it is led to (SessionIdentity) and the blocks its client is shown       *)
(* (RecallTurn).                                                           *)
(***************************************************************************)
EXTENDS SessionIdentity, RecallTurn, FiniteSetTheorems, WellFoundedInduction, TLAPS

-----------------------------------------------------------------------------
(* Types.                                                                  *)

TrackFields == {"fingerprint", "count", "key", "isSubagent", "parent", "candidate"}
RequestFields == {"pc", "conv", "headers", "parent", "count", "sid", "isNew"}

\* The headers a conversation's client may send.
Carries(c) == Sends[c] \cup Adds[c]

\* Whose key it is: a value of a known header, or the id of a client that first
\* came without known headers.
IsKnown(k, c) == \E n \in Carries(c), g \in Nat \ {0} : k = Key(n, <<c, g>>)
IsLearned(k, c) == Sends[c] = {} /\ ClientId[c] # NoId /\ k = ClientKey(c)
KeyOf(k, c) == IsKnown(k, c) \/ IsLearned(k, c)
Fileable(k) == \E c \in Convs : KeyOf(k, c)

ClientTyped(c, x) ==
    /\ DOMAIN x = {"gen", "sent", "changes"} /\ x.sent \in 0 .. MaxSent[c] /\ x.changes \in Nat
    /\ x.gen \in [Names -> Nat]
    /\ \A n \in Names : x.gen[n] # 0 => n \in Carries(c)
    /\ \A n \in Sends[c] : x.gen[n] # 0

ClientsTyped ==
    /\ client = [c \in Convs |-> client[c]]
    /\ \A c \in Convs : ClientTyped(c, client[c])

IndexTyped == \A k \in DOMAIN index : index[k] \in 1 .. made.sids /\ Fileable(k)

TrackTyped(x) == DOMAIN x = TrackFields /\ (x.key = NoKey \/ Fileable(x.key))
TableTyped(f) == \A s \in DOMAIN f : s \in 1 .. made.sids /\ TrackTyped(f[s])

Busy(q) ==
    /\ q.pc \in {"identify", "match", "attach", "seed"}
    /\ q.conv \in Convs /\ q.headers = HeadersOf(q.conv)
    /\ q.pc = "match" => ~HasKnown(q.headers)
    /\ q.pc \in {"attach", "seed"} => q.sid \in 1 .. made.sids
    /\ q.pc = "seed" => q.sid \in DOMAIN sessions

RequestTyped(q) == DOMAIN q = RequestFields /\ (q = Idle \/ Busy(q))

UsedTyped == \A c \in Convs : \A u \in used[c] : u[1] \in 1 .. made.periods /\ u[2] \in 1 .. made.sids

TypeInv ==
    /\ made \in [sids : Nat, periods : Nat \ {0}]
    /\ initialized \in BOOLEAN
    /\ ClientsTyped /\ IndexTyped /\ TableTyped(sessions) /\ TableTyped(rows)
    /\ request = [r \in Requests |-> request[r]]
    /\ \A r \in Requests : RequestTyped(request[r])
    /\ used = [c \in Convs |-> used[c]] /\ UsedTyped

-----------------------------------------------------------------------------
(* Keys and headers.                                                       *)

LEMMA LeastOf ==
    ASSUME NEW T, T \subseteq Nat, T # {}
    PROVE  Min(T) \in T /\ \A y \in T : Min(T) <= y
<1>. DEFINE U == {1 .. n : n \in T}
<1>1. U \subseteq FiniteSubsetsOf(Nat) /\ U # {}
  <2>1. ASSUME NEW n \in T PROVE 1 .. n \subseteq Nat /\ IsFiniteSet(1 .. n)
    BY FS_Interval
  <2>2. PICK n \in T : TRUE
    OBVIOUS
  <2>3. 1 .. n \in U
    BY <2>2
  <2>. QED BY <2>1, <2>3 DEF FiniteSubsetsOf
<1>2. PICK u \in U : \A v \in U : ~(<<v, u>> \in StrictSubsetOrdering(Nat))
  <2>1. IsWellFoundedOn(StrictSubsetOrdering(Nat), FiniteSubsetsOf(Nat))
    BY FS_StrictSubsetOrderingWellFounded
  <2>. QED BY <1>1, <2>1, WFMin
<1>3. PICK x \in T : u = 1 .. x
  BY <1>2
<1>4. ASSUME NEW y \in T, y < x PROVE FALSE
  <2>1. x \in Nat /\ y \in Nat /\ x \in 1 .. x /\ x \notin 1 .. y
    BY <1>4
  <2>2. 1 .. y \subseteq 1 .. x /\ 1 .. y # 1 .. x /\ 1 .. y \subseteq Nat /\ 1 .. x \subseteq Nat
    BY <1>4, <2>1
  <2>3. <<1 .. y, 1 .. x>> \in StrictSubsetOrdering(Nat)
    BY <2>2 DEF StrictSubsetOrdering
  <2>. QED BY <1>2, <1>3, <2>3
<1>5. \E z \in T : \A y \in T : z <= y
  BY <1>4
<1>. QED BY <1>5 DEF Min

LEMMA CarriedIn ==
    ASSUME NEW h
    PROVE  Carried(h) \subseteq DOMAIN KnownHeaders /\ Carried(h) \subseteq Nat
<1>1. DOMAIN KnownHeaders \subseteq Nat
  BY HeadersAssumption
<1>. QED BY <1>1 DEF Carried

\* The primary header is one the request carries.
LEMMA PrimaryCarried ==
    ASSUME NEW h, HasKnown(h)
    PROVE  Primary(h) \in Names /\ h[Primary(h)] # NoValue
<1>1. Min(Carried(h)) \in Carried(h)
  BY CarriedIn, LeastOf DEF HasKnown
<1>. QED BY <1>1, CarriedIn DEF Carried, Primary, Names

\* A value that a client sends is its own.
LEMMA OwnHeader ==
    ASSUME ClientsTyped, NEW c \in Convs, NEW n \in Names, HeadersOf(c)[n] # NoValue
    PROVE  /\ n \in Carries(c) /\ client[c].gen[n] \in Nat \ {0}
           /\ HeadersOf(c)[n] = <<c, client[c].gen[n]>>
           /\ IsKnown(Key(n, HeadersOf(c)[n]), c)
<1>1. client[c].gen[n] \in Nat
  BY DEF ClientsTyped, ClientTyped
<1>2. client[c].gen[n] # 0 /\ HeadersOf(c)[n] = <<c, client[c].gen[n]>>
  BY DEF HeadersOf
<1>3. n \in Carries(c)
  BY <1>2 DEF ClientsTyped, ClientTyped
<1>. QED BY <1>1, <1>2, <1>3 DEF IsKnown

LEMMA PrimaryKnown ==
    ASSUME ClientsTyped, NEW c \in Convs, HasKnown(HeadersOf(c))
    PROVE  IsKnown(PrimaryKey(HeadersOf(c)), c) /\ Fileable(PrimaryKey(HeadersOf(c)))
<1>1. IsKnown(PrimaryKey(HeadersOf(c)), c)
  BY PrimaryCarried, OwnHeader DEF PrimaryKey
<1>. QED BY <1>1 DEF Fileable, KeyOf

\* A client that always sends a known header has one.
LEMMA SendsKnown ==
    ASSUME ClientsTyped, NEW c \in Convs, Sends[c] # {}
    PROVE  HasKnown(HeadersOf(c))
<1>1. PICK n \in Sends[c] : TRUE
  OBVIOUS
<1>2. n \in Names /\ client[c].gen[n] # 0
  BY <1>1, ConvsAssumption DEF ClientsTyped, ClientTyped
<1>3. HeadersOf(c)[n] # NoValue
  <2>1. HeadersOf(c)[n] = <<c, client[c].gen[n]>>
    BY <1>2 DEF HeadersOf
  <2>. QED BY <1>2, <2>1 DEF NoValue
<1>4. PICK i \in DOMAIN KnownHeaders : KnownHeaders[i] = n
  BY <1>2 DEF Names
<1>. QED BY <1>3, <1>4 DEF HasKnown, Carried

\* Known keys, learned keys and no key are told apart by the header's name.
LEMMA KeyNames ==
    ASSUME NEW c \in Convs, NEW k
    PROVE  /\ IsKnown(k, c) => k[1] \in Names /\ k[1] \in Carries(c) /\ k[2] # NoValue /\ k # NoKey
           /\ IsLearned(k, c) => k[1] \notin Names /\ k[2] # NoValue /\ k # NoKey
<1>1. NoConv # c /\ Carries(c) \subseteq Names
  BY ConvsAssumption DEF Carries
<1>2. ASSUME IsKnown(k, c) PROVE k[1] \in Names /\ k[1] \in Carries(c) /\ k[2] # NoValue /\ k # NoKey
  <2>1. PICK n \in Carries(c), g \in Nat \ {0} : k = <<n, <<c, g>>>>
    BY <1>2 DEF IsKnown, Key
  <2>2. k[1] = n /\ k[2] = <<c, g>> /\ k[2] # NoValue
    BY <2>1 DEF NoValue
  <2>. QED BY <1>1, <2>1, <2>2 DEF NoKey
<1>3. ASSUME IsLearned(k, c) PROVE k[1] \notin Names /\ k[2] # NoValue /\ k # NoKey
  <2>1. k = <<"x-client-id", <<ClientId[c], 1>>>>
    BY <1>3 DEF IsLearned, ClientKey, Key
  <2>2. k[1] = "x-client-id" /\ k[2] = <<ClientId[c], 1>> /\ k[2] # NoValue
    BY <2>1 DEF NoValue
  <2>. QED BY <2>1, <2>2, HeadersAssumption DEF NoKey
<1>. QED BY <1>2, <1>3

\* A known key has one owner.
LEMMA OneOwner ==
    ASSUME NEW c, NEW d, NEW k, IsKnown(k, c), IsKnown(k, d)
    PROVE  c = d
BY DEF IsKnown, Key

-----------------------------------------------------------------------------
(* Each step keeps the types.                                              *)

\* A step of one request.
LEMMA RequestMoves ==
    ASSUME TypeInv, NEW r \in Requests, NEW q, RequestTyped(q)', request' = [request EXCEPT ![r] = q],
           \A c \in Convs : HeadersOf(c)' = HeadersOf(c),
           made'.sids \in Nat, made.sids <= made'.sids, DOMAIN sessions \subseteq DOMAIN sessions'
    PROVE  request' = [t \in Requests |-> request'[t]] /\ \A t \in Requests : RequestTyped(request[t])'
<1>1. request' = [t \in Requests |-> IF t = r THEN q ELSE request[t]]
  BY DEF TypeInv
<1>2. ASSUME NEW t \in Requests PROVE RequestTyped(request[t])'
  <2>1. CASE t = r
    BY <1>1, <2>1
  <2>2. CASE t # r
    <3>1. request'[t] = request[t] /\ RequestTyped(request[t])
      BY <1>1, <2>2 DEF TypeInv
    <3>2. PICK x : x = request[t]
      OBVIOUS
    <3>3. RequestTyped(x) /\ request'[t] = x
      BY <3>1, <3>2
    <3>4. Busy(x) => Busy(x)'
      <4>1. made.sids \in Nat
        BY DEF TypeInv
      <4>. QED BY <4>1 DEF Busy
    <3>. QED BY <3>3, <3>4 DEF RequestTyped
  <2>. QED BY <2>1, <2>2
<1>. QED BY <1>1, <1>2

LEMMA ClientMoves ==
    ASSUME ClientsTyped, NEW c \in Convs, NEW new, ClientTyped(c, new), client' = [client EXCEPT ![c] = new]
    PROVE  ClientsTyped'
<1>1. client' = [d \in Convs |-> IF d = c THEN new ELSE client[d]]
  BY DEF ClientsTyped
<1>. QED BY <1>1 DEF ClientsTyped, ClientTyped, Carries

LEMMA HeadersStay ==
    ASSUME client' = client
    PROVE  \A c \in Convs : HeadersOf(c)' = HeadersOf(c)
BY DEF HeadersOf

\* What a request under way is.
LEMMA RequestIs ==
    ASSUME TypeInv, NEW r \in Requests, request[r].pc # "idle"
    PROVE  Busy(request[r]) /\ DOMAIN request[r] = RequestFields /\ request[r] # Idle
<1>1. RequestTyped(request[r])
  BY DEF TypeInv
<1>2. request[r] # Idle
  BY DEF Idle
<1>. QED BY <1>1, <1>2 DEF RequestTyped

LEMMA IdentifiedTyped ==
    ASSUME TypeInv, NEW r \in Requests, request[r].pc # "idle", NEW s, NEW b, Identified(r, s, b),
           client' = client, made'.sids \in Nat, made.sids <= made'.sids, s \in 1 .. made'.sids,
           DOMAIN sessions \subseteq DOMAIN sessions'
    PROVE  request' = [t \in Requests |-> request'[t]] /\ \A t \in Requests : RequestTyped(request[t])'
<1>1. PICK q : q = [request[r] EXCEPT !.pc = "attach", !.sid = s, !.isNew = b]
  OBVIOUS
<1>2. /\ DOMAIN q = RequestFields /\ q.pc = "attach" /\ q.sid = s
      /\ q.conv = request[r].conv /\ q.headers = request[r].headers
  BY <1>1, RequestIs DEF RequestFields
<1>3. request' = [request EXCEPT ![r] = q]
  BY <1>1 DEF Identified
<1>4. RequestTyped(q)'
  <2>1. q.conv \in Convs /\ q.headers = HeadersOf(q.conv)
    BY <1>2, RequestIs DEF Busy
  <2>. QED BY <1>2, <2>1, HeadersStay DEF RequestTyped, Busy
<1>. QED BY <1>3, <1>4, HeadersStay, RequestMoves

LEMMA SessionsTyped ==
    ASSUME TypeInv
    PROVE  /\ made.sids \in Nat /\ made.periods \in Nat \ {0}
           /\ \A s \in DOMAIN sessions : s \in 1 .. made.sids /\ TrackTyped(sessions[s])
           /\ \A s \in DOMAIN rows : s \in 1 .. made.sids /\ TrackTyped(rows[s])
           /\ \A s : TrackTyped(Row(s)) /\ TrackTyped(Loaded(s))
<1>1. TrackTyped(Untracked)
  BY DEF TrackTyped, Untracked, TrackFields
<1>2. ASSUME NEW s PROVE TrackTyped(Row(s))
  BY <1>1 DEF Row, TypeInv, TableTyped
<1>3. ASSUME NEW s PROVE TrackTyped(Loaded(s))
  <2>1. CASE s \in DOMAIN sessions
    BY <2>1 DEF Loaded, TypeInv, TableTyped
  <2>2. CASE s \notin DOMAIN sessions
    <3>1. PICK x : x = Row(s)
      OBVIOUS
    <3>2. TrackTyped(x) /\ Loaded(s) = [x EXCEPT !.candidate = NoValue]
      BY <1>2, <2>2, <3>1 DEF Loaded
    <3>. QED BY <3>2 DEF TrackTyped, TrackFields
  <2>. QED BY <2>1, <2>2
<1>. QED BY <1>2, <1>3 DEF TypeInv, TableTyped

LEMMA ArrivesTyped ==
    ASSUME TypeInv, NEW r \in Requests, NEW c \in Convs, Arrives(r, c)
    PROVE  TypeInv'
<1>1. PICK q : q = [Idle EXCEPT !.pc = "identify", !.conv = c, !.headers = HeadersOf(c),
                                !.parent = ParentValue(c), !.count = client[c].sent + 1]
  OBVIOUS
<1>2. /\ DOMAIN q = RequestFields /\ q.pc = "identify" /\ q.conv = c /\ q.headers = HeadersOf(c)
  BY <1>1 DEF Idle, RequestFields
<1>3. request' = [request EXCEPT ![r] = q]
  BY <1>1 DEF Arrives
<1>4. client' = [client EXCEPT ![c].sent = @ + 1, ![c].changes = 0]
  BY DEF Arrives
<1>5. PICK new : new = [client[c] EXCEPT !.sent = @ + 1, !.changes = 0]
  OBVIOUS
<1>6. ClientTyped(c, client[c]) /\ client' = [client EXCEPT ![c] = new]
  BY <1>4, <1>5 DEF TypeInv, ClientsTyped
<1>7. ClientTyped(c, new) /\ new.gen = client[c].gen
  <2>1. PICK old : old = client[c]
    OBVIOUS
  <2>2. old.sent < MaxSent[c] /\ MaxSent[c] \in Nat
    BY <2>1, ConvsAssumption DEF Arrives
  <2>3. new = [old EXCEPT !.sent = @ + 1, !.changes = 0] /\ ClientTyped(c, old)
    BY <1>5, <1>6, <2>1
  <2>4. DOMAIN new = {"gen", "sent", "changes"}
        /\ new.gen = old.gen /\ new.sent = old.sent + 1 /\ new.changes = 0
    BY <2>3 DEF ClientTyped
  <2>5. new.sent \in 0 .. MaxSent[c]
    BY <2>2, <2>3, <2>4 DEF ClientTyped
  <2>6. ClientTyped(c, new)
    BY <2>3, <2>4, <2>5 DEF ClientTyped
  <2>. QED BY <2>1, <2>4, <2>6
<1>8. ClientsTyped' /\ \A d \in Convs : HeadersOf(d)' = HeadersOf(d)
  <2>1. \A d \in Convs : client'[d].gen = client[d].gen
    BY <1>6, <1>7 DEF TypeInv, ClientsTyped
  <2>2. ClientsTyped
    BY DEF TypeInv
  <2>3. ClientsTyped'
    BY <1>6, <1>7, <2>2, ClientMoves
  <2>. QED BY <2>1, <2>3 DEF HeadersOf
<1>9. /\ made' = made /\ sessions' = sessions /\ rows' = rows /\ used' = used
      /\ initialized' = TRUE /\ index' = IF initialized THEN index ELSE Merged(StoredIndex, index)
  BY DEF Arrives
<1>10. RequestTyped(q)'
  BY <1>2, <1>8 DEF RequestTyped, Busy
<1>11. request' = [t \in Requests |-> request'[t]] /\ \A t \in Requests : RequestTyped(request[t])'
  <2>1. made'.sids \in Nat /\ made.sids <= made'.sids /\ DOMAIN sessions \subseteq DOMAIN sessions'
    BY <1>9, SessionsTyped
  <2>. QED BY <1>3, <1>8, <1>10, <2>1, RequestMoves
<1>12. IndexTyped'
  <2>. SUFFICES ASSUME NEW k \in DOMAIN index' PROVE index'[k] \in 1 .. made.sids /\ Fileable(k)
    BY <1>9 DEF IndexTyped, Fileable, KeyOf, IsLearned, IsKnown, ClientKey
  <2>1. CASE k \in DOMAIN index /\ index'[k] = index[k]
    BY <2>1 DEF TypeInv, IndexTyped
  <2>2. CASE k \in DOMAIN StoredIndex /\ index'[k] = StoredIndex[k]
    <3>1. PICK s \in DOMAIN rows : rows[s].key # NoKey /\ rows[s].key = k
      BY <2>2 DEF StoredIndex
    <3>2. /\ StoredIndex[k] = CHOOSE t \in {x \in DOMAIN rows : rows[x].key # NoKey} : rows[t].key = k
          /\ Fileable(k)
      BY <2>2, <3>1, SessionsTyped DEF StoredIndex, TrackTyped
    <3>3. StoredIndex[k] \in DOMAIN rows
      BY <3>1, <3>2
    <3>. QED BY <2>2, <3>2, <3>3, SessionsTyped
  <2>3. CASE ~initialized
    <3>1. PICK f : f = StoredIndex
      OBVIOUS
    <3>2. index' = Merged(f, index)
      BY <1>9, <2>3, <3>1
    <3>3. CASE k \in DOMAIN f
      BY <2>2, <3>1, <3>2, <3>3 DEF Merged
    <3>4. CASE k \notin DOMAIN f
      <4>1. k \in DOMAIN index /\ index'[k] = index[k]
        BY <3>2, <3>4 DEF Merged
      <4>. QED BY <2>1, <4>1
    <3>. QED BY <3>3, <3>4
  <2>4. CASE initialized
    BY <1>9, <2>1, <2>4
  <2>. QED BY <2>3, <2>4
<1>13. TableTyped(sessions)' /\ TableTyped(rows)' /\ UsedTyped'
  BY <1>9 DEF TypeInv, TableTyped, UsedTyped
<1>. QED BY <1>8, <1>9, <1>11, <1>12, <1>13 DEF TypeInv

LEMMA TablesStay ==
    ASSUME TypeInv, made'.sids \in Nat, made.sids <= made'.sids
    PROVE  /\ index' = index => IndexTyped'
           /\ sessions' = sessions => TableTyped(sessions)'
           /\ rows' = rows => TableTyped(rows)'
<1>1. made.sids \in Nat
  BY SessionsTyped
<1>2. index' = index => IndexTyped'
  BY <1>1 DEF TypeInv, IndexTyped
<1>3. sessions' = sessions => TableTyped(sessions)'
  BY <1>1 DEF TypeInv, TableTyped
<1>4. rows' = rows => TableTyped(rows)'
  BY <1>1 DEF TypeInv, TableTyped
<1>. QED BY <1>2, <1>3, <1>4

\* A key that is set in the index, and a record in a table.
LEMMA PutTyped ==
    ASSUME TypeInv, made'.sids \in Nat, made.sids <= made'.sids, NEW s \in 1 .. made'.sids
    PROVE  /\ \A k : Fileable(k) /\ index' = Put(index, k, s) => IndexTyped'
           /\ \A x : TrackTyped(x) /\ sessions' = Put(sessions, s, x) => TableTyped(sessions)'
           /\ \A x : TrackTyped(x) /\ rows' = Put(rows, s, x) => TableTyped(rows)'
<1>1. made.sids \in Nat
  BY SessionsTyped
<1>2. ASSUME NEW k, Fileable(k), index' = Put(index, k, s) PROVE IndexTyped'
  BY <1>1, <1>2 DEF TypeInv, IndexTyped, Put
<1>3. ASSUME NEW x, TrackTyped(x), sessions' = Put(sessions, s, x) PROVE TableTyped(sessions)'
  BY <1>1, <1>3 DEF TypeInv, TableTyped, Put
<1>4. ASSUME NEW x, TrackTyped(x), rows' = Put(rows, s, x) PROVE TableTyped(rows)'
  BY <1>1, <1>4 DEF TypeInv, TableTyped, Put
<1>. QED BY <1>2, <1>3, <1>4

\* A step that identifies a request's session.
LEMMA IdentifyTyped ==
    ASSUME TypeInv, NEW r \in Requests, request[r].pc # "idle", NEW s, NEW b, Identified(r, s, b),
           client' = client, initialized' = initialized, used' = used,
           made' \in [sids : Nat, periods : Nat \ {0}], made.sids <= made'.sids, made'.periods = made.periods,
           s \in 1 .. made'.sids, DOMAIN sessions \subseteq DOMAIN sessions',
           IndexTyped', TableTyped(sessions)', TableTyped(rows)'
    PROVE  TypeInv'
<1>1. made.sids \in Nat /\ made'.sids \in Nat /\ made.periods \in Nat
  BY SessionsTyped
<1>2. request' = [t \in Requests |-> request'[t]] /\ \A t \in Requests : RequestTyped(request[t])'
  BY <1>1, IdentifiedTyped
<1>3. ClientsTyped'
  BY DEF TypeInv, ClientsTyped, ClientTyped, Carries
<1>4. UsedTyped'
  BY <1>1 DEF TypeInv, UsedTyped
<1>. QED BY <1>2, <1>3, <1>4 DEF TypeInv

LEMMA ByKnownHeaderTyped ==
    ASSUME TypeInv, NEW r \in Requests, ByKnownHeader(r)
    PROVE  TypeInv'
<1>1. PICK s : s = index[PrimaryKey(request[r].headers)]
  OBVIOUS
<1>2. /\ request[r].pc = "identify" /\ Identified(r, s, FALSE) /\ s \in 1 .. made.sids
      /\ UNCHANGED <<client, initialized, index, sessions, rows, values, stale, used, made>>
  BY <1>1 DEF ByKnownHeader, TypeInv, IndexTyped
<1>3. /\ made.sids \in Nat /\ made'.sids \in Nat /\ made.sids <= made'.sids /\ made'.sids = made.sids
      /\ made' \in [sids : Nat, periods : Nat \ {0}] /\ made'.periods = made.periods
      /\ client' = client /\ initialized' = initialized /\ used' = used
  BY <1>2 DEF TypeInv
<1>4. IndexTyped' /\ TableTyped(sessions)' /\ TableTyped(rows)' /\ DOMAIN sessions \subseteq DOMAIN sessions'
  BY <1>2, <1>3, TablesStay
<1>. QED BY <1>2, <1>3, <1>4, IdentifyTyped

\* The headers a request under way carries are its client's.
LEMMA HeadersKnown ==
    ASSUME TypeInv, NEW r \in Requests, request[r].pc # "idle", HasKnown(request[r].headers)
    PROVE  /\ IsKnown(PrimaryKey(request[r].headers), request[r].conv)
           /\ Fileable(PrimaryKey(request[r].headers)) /\ PrimaryKey(request[r].headers) # NoKey
<1>1. request[r].conv \in Convs /\ request[r].headers = HeadersOf(request[r].conv) /\ ClientsTyped
  BY RequestIs DEF Busy, TypeInv
<1>2. /\ IsKnown(PrimaryKey(request[r].headers), request[r].conv)
      /\ Fileable(PrimaryKey(request[r].headers))
  BY <1>1, PrimaryKnown
<1>. QED BY <1>1, <1>2, KeyNames

LEMMA RefileTyped ==
    ASSUME TypeInv, made'.sids \in Nat, made.sids <= made'.sids, NEW s \in 1 .. made.sids,
           NEW k, Fileable(k), Refile(s, k)
    PROVE  /\ TableTyped(rows)' /\ TableTyped(sessions)' /\ DOMAIN sessions' = DOMAIN sessions
<1>1. PICK x : x = Row(s)
  OBVIOUS
<1>2. TrackTyped(x) /\ made.sids \in Nat /\ s \in 1 .. made'.sids
  BY <1>1, SessionsTyped
<1>3. PICK y : y = [x EXCEPT !.key = k]
  OBVIOUS
<1>4. TrackTyped(y) /\ rows' = Put(rows, s, y)
  BY <1>1, <1>2, <1>3 DEF Refile, TrackTyped, TrackFields
<1>5. TableTyped(rows)'
  BY <1>2, <1>4, PutTyped
<1>6. CASE s \notin DOMAIN sessions
  <2>1. sessions' = sessions
    BY <1>6 DEF Refile
  <2>. QED BY <1>5, <2>1, TablesStay
<1>7. CASE s \in DOMAIN sessions
  <2>1. PICK z : z = sessions[s]
    OBVIOUS
  <2>2. sessions' = [sessions EXCEPT ![s] = [z EXCEPT !.key = k]] /\ TrackTyped(z)
    BY <1>7, <2>1, SessionsTyped DEF Refile
  <2>3. TrackTyped([z EXCEPT !.key = k])
    BY <2>2 DEF TrackTyped, TrackFields
  <2>4. TableTyped(sessions)'
    BY <1>2, <2>2, <2>3 DEF TypeInv, TableTyped
  <2>. QED BY <1>5, <2>2, <2>4
<1>. QED BY <1>6, <1>7

\* The fallback is a header the request carries, and it is indexed.
LEMMA FallbackIndexed ==
    ASSUME NEW h, Fallbacks(h) # {}
    PROVE  LET name == KnownHeaders[Min(Fallbacks(h))]
           IN  /\ name \in Names /\ h[name] # NoValue /\ name # Primary(h)
               /\ Key(name, h[name]) \in DOMAIN index
<1>1. Fallbacks(h) \subseteq Nat /\ Fallbacks(h) \subseteq Carried(h)
  BY CarriedIn DEF Fallbacks
<1>2. Min(Fallbacks(h)) \in Fallbacks(h)
  BY <1>1, LeastOf
<1>3. PICK i : i = Min(Fallbacks(h))
  OBVIOUS
<1>4. i \in Fallbacks(h)
  BY <1>2, <1>3
<1>. QED BY <1>3, <1>4 DEF Fallbacks, Carried, Names

LEMMA ByOtherHeaderTyped ==
    ASSUME TypeInv, NEW r \in Requests, ByOtherHeader(r)
    PROVE  TypeInv'
<1>1. PICK h : h = request[r].headers
  OBVIOUS
<1>2. PICK name : name = KnownHeaders[Min(Fallbacks(h))]
  OBVIOUS
<1>3. PICK s : s = index[Key(name, h[name])]
  OBVIOUS
<1>4. /\ request[r].pc = "identify" /\ HasKnown(h) /\ Fallbacks(h) # {}
      /\ index' = Put(index, PrimaryKey(h), s) /\ Refile(s, PrimaryKey(h)) /\ Identified(r, s, FALSE)
      /\ UNCHANGED <<client, initialized, values, stale, used, made>>
  BY <1>1, <1>2, <1>3 DEF ByOtherHeader
<1>5. /\ made.sids \in Nat /\ made'.sids \in Nat /\ made.sids <= made'.sids /\ made'.sids = made.sids
      /\ made' \in [sids : Nat, periods : Nat \ {0}] /\ made'.periods = made.periods
      /\ client' = client /\ initialized' = initialized /\ used' = used
  BY <1>4 DEF TypeInv
<1>6. s \in 1 .. made.sids
  BY <1>2, <1>3, <1>4, FallbackIndexed DEF TypeInv, IndexTyped
<1>7. Fileable(PrimaryKey(h))
  BY <1>1, <1>4, HeadersKnown
<1>8. IndexTyped' /\ TableTyped(sessions)' /\ TableTyped(rows)' /\ DOMAIN sessions' = DOMAIN sessions
  BY <1>4, <1>5, <1>6, <1>7, PutTyped, RefileTyped
<1>. QED BY <1>4, <1>5, <1>6, <1>8, IdentifyTyped

LEMMA ByRotationTyped ==
    ASSUME TypeInv, NEW r \in Requests, ByRotation(r)
    PROVE  TypeInv'
<1>1. PICK h : h = request[r].headers
  OBVIOUS
<1>2. PICK k : k = CHOOSE x \in Predecessors(h) : TRUE
  OBVIOUS
<1>3. PICK s : s = index[k]
  OBVIOUS
<1>4. /\ request[r].pc = "identify" /\ HasKnown(h) /\ Cardinality(Predecessors(h)) = 1
      /\ index' = Put([x \in DOMAIN index \ {k} |-> index[x]], PrimaryKey(h), s)
      /\ Refile(s, PrimaryKey(h)) /\ Identified(r, s, FALSE)
      /\ UNCHANGED <<client, initialized, values, stale, used, made>>
  BY <1>1, <1>2, <1>3 DEF ByRotation, IsUnfiled
<1>5. /\ made.sids \in Nat /\ made'.sids \in Nat /\ made.sids <= made'.sids /\ made'.sids = made.sids
      /\ made' \in [sids : Nat, periods : Nat \ {0}] /\ made'.periods = made.periods
      /\ client' = client /\ initialized' = initialized /\ used' = used
  BY <1>4 DEF TypeInv
<1>6. k \in Predecessors(h)
  BY <1>2, <1>4, FS_EmptySet
<1>7. s \in 1 .. made.sids
  BY <1>3, <1>6 DEF Predecessors, TypeInv, IndexTyped
<1>8. Fileable(PrimaryKey(h))
  BY <1>1, <1>4, HeadersKnown
<1>9. IndexTyped'
  BY <1>4, <1>5, <1>7, <1>8 DEF Put, TypeInv, IndexTyped
<1>10. TableTyped(sessions)' /\ TableTyped(rows)' /\ DOMAIN sessions' = DOMAIN sessions
  BY <1>4, <1>5, <1>7, <1>8, RefileTyped
<1>. QED BY <1>4, <1>5, <1>7, <1>9, <1>10, IdentifyTyped

LEMMA NewSession ==
    ASSUME TypeInv, made' = [made EXCEPT !.sids = @ + 1]
    PROVE  /\ made.sids \in Nat /\ made'.sids = made.sids + 1 /\ made'.sids \in Nat
           /\ made.sids <= made'.sids /\ made.sids + 1 \in 1 .. made'.sids
           /\ made' \in [sids : Nat, periods : Nat \ {0}] /\ made'.periods = made.periods
BY DEF TypeInv

LEMMA ByNewHeaderTyped ==
    ASSUME TypeInv, NEW r \in Requests, ByNewHeader(r)
    PROVE  TypeInv'
<1>1. PICK h : h = request[r].headers
  OBVIOUS
<1>2. /\ request[r].pc = "identify" /\ HasKnown(h) /\ made' = [made EXCEPT !.sids = @ + 1]
      /\ index' = Put(index, PrimaryKey(h), made.sids + 1) /\ Identified(r, made.sids + 1, TRUE)
      /\ client' = client /\ initialized' = initialized /\ used' = used
      /\ sessions' = sessions /\ rows' = rows
  BY <1>1 DEF ByNewHeader, IsUnfiled
<1>3. Fileable(PrimaryKey(h))
  BY <1>1, <1>2, HeadersKnown
<1>4. IndexTyped' /\ TableTyped(sessions)' /\ TableTyped(rows)' /\ DOMAIN sessions \subseteq DOMAIN sessions'
  BY <1>2, <1>3, NewSession, PutTyped, TablesStay
<1>. QED BY <1>2, <1>4, NewSession, IdentifyTyped

\* A step of a request that changes no table and no count.
LEMMA Unmoved ==
    ASSUME TypeInv, made' = made
    PROVE  /\ made.sids \in Nat /\ made'.sids \in Nat /\ made.sids <= made'.sids /\ made'.sids = made.sids
           /\ made' \in [sids : Nat, periods : Nat \ {0}] /\ made'.periods = made.periods
BY DEF TypeInv

LEMMA ByLearnedHeaderTyped ==
    ASSUME TypeInv, NEW r \in Requests, ByLearnedHeader(r)
    PROVE  TypeInv'
<1>1. PICK s \in LearnedBy(r) : Identified(r, s, FALSE)
  BY DEF ByLearnedHeader
<1>2. /\ request[r].pc = "identify" /\ s \in 1 .. made.sids
      /\ client' = client /\ initialized' = initialized /\ used' = used
      /\ index' = index /\ sessions' = sessions /\ rows' = rows /\ made' = made
  BY <1>1, SessionsTyped DEF ByLearnedHeader, LearnedBy
<1>3. IndexTyped' /\ TableTyped(sessions)' /\ TableTyped(rows)' /\ DOMAIN sessions \subseteq DOMAIN sessions'
  BY <1>2, Unmoved, TablesStay
<1>. QED BY <1>1, <1>2, <1>3, Unmoved, IdentifyTyped

LEMMA FingerprintStartsTyped ==
    ASSUME TypeInv, NEW r \in Requests, FingerprintStarts(r)
    PROVE  TypeInv'
<1>1. PICK q : q = [request[r] EXCEPT !.pc = "match"]
  OBVIOUS
<1>2. /\ request[r].pc = "identify" /\ ~HasKnown(request[r].headers)
      /\ client' = client /\ initialized' = initialized /\ used' = used
      /\ index' = index /\ sessions' = sessions /\ rows' = rows /\ made' = made
  BY DEF FingerprintStarts
<1>3. Busy(request[r]) /\ DOMAIN request[r] = RequestFields
  BY <1>2, RequestIs
<1>4. /\ DOMAIN q = RequestFields /\ q.pc = "match" /\ q.conv = request[r].conv
      /\ q.headers = request[r].headers
  BY <1>1, <1>3 DEF RequestFields
<1>5. request' = [request EXCEPT ![r] = q]
  BY <1>1 DEF FingerprintStarts
<1>6. RequestTyped(q)'
  <2>1. q.conv \in Convs /\ q.headers = HeadersOf(q.conv) /\ ~HasKnown(q.headers)
    BY <1>2, <1>3, <1>4 DEF Busy
  <2>2. HeadersOf(q.conv)' = HeadersOf(q.conv)
    BY <1>2, <2>1, HeadersStay
  <2>. QED BY <1>4, <2>1, <2>2 DEF RequestTyped, Busy, HasKnown, Carried
<1>7. IndexTyped' /\ TableTyped(sessions)' /\ TableTyped(rows)' /\ DOMAIN sessions \subseteq DOMAIN sessions'
  BY <1>2, Unmoved, TablesStay
<1>8. request' = [t \in Requests |-> request'[t]] /\ \A t \in Requests : RequestTyped(request[t])'
  BY <1>2, <1>5, <1>6, <1>7, Unmoved, HeadersStay, RequestMoves
<1>9. ClientsTyped' /\ UsedTyped'
  BY <1>2 DEF TypeInv, ClientsTyped, ClientTyped, Carries, UsedTyped
<1>. QED BY <1>2, <1>7, <1>8, <1>9 DEF TypeInv

\* Only a client that came without known headers has its session looked up.
LEMMA MatchLearns ==
    ASSUME TypeInv, NEW r \in Requests, request[r].pc = "match", ClientId[request[r].conv] # NoId
    PROVE  IsLearned(ClientKey(request[r].conv), request[r].conv) /\ Fileable(ClientKey(request[r].conv))
<1>1. request[r].conv \in Convs /\ ~HasKnown(HeadersOf(request[r].conv)) /\ ClientsTyped
  BY RequestIs DEF Busy, TypeInv
<1>2. Sends[request[r].conv] = {}
  BY <1>1, SendsKnown
<1>. QED BY <1>1, <1>2 DEF IsLearned, Fileable, KeyOf

LEMMA PromotesAnId ==
    ASSUME NEW s, NEW c, Promotes(s, c)
    PROVE  ClientId[c] # NoId
<1>. SUFFICES ASSUME ClientId[c] = NoId PROVE FALSE
  OBVIOUS
<1>1. ClientKey(c)[2] = NoValue
  BY DEF ClientKey, Key
<1>2. Learned(s, c) = NoValue
  BY <1>1 DEF Learned
<1>3. Learned(s, c)[2] = 0
  BY <1>2 DEF NoValue
<1>. QED BY <1>3, ThresholdAssumption DEF Promotes

LEMMA ByFingerprintTyped ==
    ASSUME TypeInv, NEW r \in Requests, ByFingerprint(r)
    PROVE  TypeInv'
<1>1. PICK c : c = request[r].conv
  OBVIOUS
<1>2. PICK s \in Nearest(r) :
         /\ Identified(r, s, FALSE)
         /\ \/ UNCHANGED <<index, sessions, rows>>
            \/ /\ Promotes(s, c)
               /\ sessions' = [sessions EXCEPT ![s].candidate = Learned(s, c), ![s].key = ClientKey(c)]
               /\ index' = Put(index, ClientKey(c), s)
               /\ rows' = Put(rows, s, [Row(s) EXCEPT !.key = ClientKey(c)])
            \/ /\ sessions' = [sessions EXCEPT ![s].candidate = Learned(s, c)]
               /\ UNCHANGED <<index, rows>>
  BY <1>1 DEF ByFingerprint
<1>3. /\ request[r].pc = "match"
      /\ client' = client /\ initialized' = initialized /\ used' = used /\ made' = made
  BY DEF ByFingerprint
<1>4. s \in DOMAIN sessions /\ s \in 1 .. made.sids /\ s \in 1 .. made'.sids /\ TrackTyped(sessions[s])
  BY <1>3, SessionsTyped DEF Nearest, Near
<1>5. IndexTyped' /\ TableTyped(sessions)' /\ TableTyped(rows)' /\ DOMAIN sessions \subseteq DOMAIN sessions'
  <2>1. CASE UNCHANGED <<index, sessions, rows>>
    BY <1>3, <2>1, Unmoved, TablesStay
  <2>2. CASE /\ sessions' = [sessions EXCEPT ![s].candidate = Learned(s, c)]
             /\ UNCHANGED <<index, rows>>
    <3>1. PICK x : x = [sessions[s] EXCEPT !.candidate = Learned(s, c)]
      OBVIOUS
    <3>2. TrackTyped(x) /\ sessions' = [sessions EXCEPT ![s] = x]
      BY <1>4, <2>2, <3>1 DEF TrackTyped, TrackFields
    <3>3. TableTyped(sessions)' /\ DOMAIN sessions \subseteq DOMAIN sessions'
      BY <1>3, <1>4, <3>2 DEF TypeInv, TableTyped
    <3>. QED BY <1>3, <2>2, <3>3, Unmoved, TablesStay
  <2>3. CASE /\ Promotes(s, c)
             /\ sessions' = [sessions EXCEPT ![s].candidate = Learned(s, c), ![s].key = ClientKey(c)]
             /\ index' = Put(index, ClientKey(c), s)
             /\ rows' = Put(rows, s, [Row(s) EXCEPT !.key = ClientKey(c)])
    <3>1. PICK x : x = [sessions[s] EXCEPT !.candidate = Learned(s, c), !.key = ClientKey(c)]
      OBVIOUS
    <3>2. PICK y : y = Row(s)
      OBVIOUS
    <3>3. Fileable(ClientKey(c)) /\ TrackTyped(y)
      BY <1>1, <1>3, <2>3, <3>2, PromotesAnId, MatchLearns, SessionsTyped
    <3>4. TrackTyped(x) /\ sessions' = [sessions EXCEPT ![s] = x]
      BY <1>4, <2>3, <3>1, <3>3 DEF TrackTyped, TrackFields
    <3>5. TrackTyped([y EXCEPT !.key = ClientKey(c)])
      BY <3>3 DEF TrackTyped, TrackFields
    <3>6. TableTyped(sessions)' /\ DOMAIN sessions \subseteq DOMAIN sessions'
      BY <1>3, <1>4, <3>4 DEF TypeInv, TableTyped
    <3>7. IndexTyped' /\ TableTyped(rows)'
      BY <1>3, <1>4, <2>3, <3>2, <3>3, <3>5, Unmoved, PutTyped
    <3>. QED BY <3>6, <3>7
  <2>. QED BY <1>2, <2>1, <2>2, <2>3
<1>. QED BY <1>2, <1>3, <1>4, <1>5, Unmoved, IdentifyTyped

LEMMA ByNewFingerprintTyped ==
    ASSUME TypeInv, NEW r \in Requests, ByNewFingerprint(r)
    PROVE  TypeInv'
<1>1. /\ request[r].pc = "match" /\ made' = [made EXCEPT !.sids = @ + 1]
      /\ Identified(r, made.sids + 1, TRUE)
      /\ client' = client /\ initialized' = initialized /\ used' = used
      /\ index' = index /\ sessions' = sessions /\ rows' = rows
  BY DEF ByNewFingerprint
<1>2. IndexTyped' /\ TableTyped(sessions)' /\ TableTyped(rows)' /\ DOMAIN sessions \subseteq DOMAIN sessions'
  BY <1>1, NewSession, TablesStay
<1>. QED BY <1>1, <1>2, NewSession, IdentifyTyped

\* What a step at the head of a turn leaves of a session's record.
Kept(x, y) ==
    /\ DOMAIN y = TrackFields /\ y.key = x.key /\ y.fingerprint = x.fingerprint /\ y.candidate = x.candidate

LEMMA MarksKeep ==
    ASSUME NEW x, DOMAIN x = TrackFields, NEW p, NEW r \in Requests
    PROVE  /\ Kept(x, x) /\ Kept(x, MarkSubagent(x, p)) /\ Kept(x, Counted(x, r))
           /\ Kept(x, Counted(MarkSubagent(x, p), r))
<1>1. Kept(x, x)
  BY DEF Kept
<1>2. PICK y : y = MarkSubagent(x, p)
  OBVIOUS
<1>3. Kept(x, y)
  BY <1>2 DEF MarkSubagent, Kept, TrackFields
<1>4. ASSUME NEW z, DOMAIN z = TrackFields PROVE Kept(z, Counted(z, r))
  BY <1>4 DEF Counted, Kept, TrackFields
<1>5. Kept(y, Counted(y, r))
  BY <1>3, <1>4 DEF Kept
<1>. QED BY <1>1, <1>2, <1>3, <1>4, <1>5 DEF Kept

\* The turn's head loads a session and saves it, or leaves a new one to memory.
LEMMA AttachIs ==
    ASSUME TypeInv, NEW r \in Requests, Attach(r)
    PROVE  /\ request[r].pc = "attach"
           /\ \E x : Kept(Loaded(request[r].sid), x) /\ sessions' = Put(sessions, request[r].sid, x)
                     /\ (request[r].parent = NoValue => x.isSubagent = Loaded(request[r].sid).isSubagent)
           /\ \/ rows' = rows
              \/ \E y : Kept(Row(request[r].sid), y) /\ rows' = Put(rows, request[r].sid, y)
                        /\ (request[r].parent = NoValue => y.isSubagent = Row(request[r].sid).isSubagent)
           /\ index' = Reindexed(request[r].sid) /\ stale' = stale \ {request[r].sid}
           /\ used' = [used EXCEPT ![request[r].conv] = @ \cup {<<made.periods, request[r].sid>>}]
           /\ request' = [request EXCEPT ![r] =
                  IF request[r].isNew THEN [request[r] EXCEPT !.pc = "seed"] ELSE Idle]
           /\ client' = client /\ initialized' = initialized /\ values' = values /\ made' = made
<1>1. PICK s : s = request[r].sid
  OBVIOUS
<1>2. PICK p : LET mark(x) == IF NeedsParent(r, Loaded(s)) THEN MarkSubagent(x, p) ELSE x
                   done(x) == IF request[r].isNew THEN x ELSE Counted(x, r)
               IN  /\ sessions' = Put(sessions, s, done(mark(Loaded(s))))
                   /\ rows' = IF request[r].isNew /\ ~NeedsParent(r, Loaded(s)) THEN rows
                              ELSE Put(rows, s, done(mark(Row(s))))
  BY <1>1, Zenon DEF Attach
<1>3. DOMAIN Loaded(s) = TrackFields /\ DOMAIN Row(s) = TrackFields
  BY SessionsTyped DEF TrackTyped
<1>. DEFINE Done(x) == LET m == IF NeedsParent(r, Loaded(s)) THEN MarkSubagent(x, p) ELSE x
                       IN  IF request[r].isNew THEN m ELSE Counted(m, r)
<1>4. ASSUME NEW x, DOMAIN x = TrackFields
      PROVE  Kept(x, Done(x)) /\ (request[r].parent = NoValue => Done(x).isSubagent = x.isSubagent)
  <2>1. Kept(x, Done(x))
    BY <1>4, MarksKeep
  <2>2. ASSUME request[r].parent = NoValue PROVE Done(x).isSubagent = x.isSubagent
    <3>1. ~NeedsParent(r, Loaded(s))
      BY <2>2 DEF NeedsParent
    <3>2. Counted(x, r).isSubagent = x.isSubagent
      BY <1>4 DEF Counted, TrackFields
    <3>. QED BY <3>1, <3>2
  <2>. QED BY <2>1, <2>2
<1>5. sessions' = Put(sessions, s, Done(Loaded(s)))
  BY <1>2
<1>6. rows' = rows \/ rows' = Put(rows, s, Done(Row(s)))
  BY <1>2
<1>7. PICK x : x = Done(Loaded(s))
  OBVIOUS
<1>8. PICK y : y = Done(Row(s))
  OBVIOUS
<1>9. /\ Kept(Loaded(s), x) /\ (request[r].parent = NoValue => x.isSubagent = Loaded(s).isSubagent)
      /\ Kept(Row(s), y) /\ (request[r].parent = NoValue => y.isSubagent = Row(s).isSubagent)
  BY <1>3, <1>4, <1>7, <1>8
<1>10. sessions' = Put(sessions, s, x) /\ (rows' = rows \/ rows' = Put(rows, s, y))
  BY <1>5, <1>6, <1>7, <1>8
<1>11. /\ request[r].pc = "attach" /\ index' = Reindexed(s) /\ stale' = stale \ {s}
       /\ used' = [used EXCEPT ![request[r].conv] = @ \cup {<<made.periods, s>>}]
       /\ request' = [request EXCEPT ![r] = IF request[r].isNew THEN [request[r] EXCEPT !.pc = "seed"] ELSE Idle]
       /\ client' = client /\ initialized' = initialized /\ values' = values /\ made' = made
  <2>1. request' = [request EXCEPT ![r] = IF @.isNew THEN [@ EXCEPT !.pc = "seed"] ELSE Idle]
    BY DEF Attach
  <2>. QED BY <1>1, <2>1 DEF Attach, TypeInv
<1>. QED BY <1>1, <1>9, <1>10, <1>11

\* Loading a session files it under the key of its row.
LEMMA ReindexedIs ==
    ASSUME NEW s
    PROVE  \/ Reindexed(s) = index
           \/ /\ s \notin DOMAIN sessions /\ Row(s).key # NoKey /\ s \in DOMAIN rows
              /\ Reindexed(s) = Put(index, Row(s).key, s)
<1>1. s \notin DOMAIN rows => Row(s).key = NoKey
  BY DEF Row, Untracked
<1>. QED BY <1>1 DEF Reindexed

LEMMA KeptTyped ==
    ASSUME NEW x, NEW y, TrackTyped(x), Kept(x, y)
    PROVE  TrackTyped(y)
BY DEF TrackTyped, Kept

LEMMA IdleTyped ==
    RequestTyped(Idle)'
BY DEF RequestTyped, Idle, RequestFields

LEMMA AttachTyped ==
    ASSUME TypeInv, NEW r \in Requests, Attach(r)
    PROVE  TypeInv'
<1>1. PICK s : s = request[r].sid
  OBVIOUS
<1>2. /\ request[r].pc = "attach" /\ index' = Reindexed(s)
      /\ used' = [used EXCEPT ![request[r].conv] = @ \cup {<<made.periods, s>>}]
      /\ client' = client /\ initialized' = initialized /\ made' = made
      /\ request' = [request EXCEPT ![r] = IF request[r].isNew THEN [request[r] EXCEPT !.pc = "seed"] ELSE Idle]
  BY <1>1, AttachIs
<1>3. PICK x : Kept(Loaded(s), x) /\ sessions' = Put(sessions, s, x)
  BY <1>1, AttachIs
<1>4. rows' = rows \/ \E y : Kept(Row(s), y) /\ rows' = Put(rows, s, y)
  BY <1>1, AttachIs
<1>5. Busy(request[r]) /\ DOMAIN request[r] = RequestFields /\ s \in 1 .. made.sids /\ s \in 1 .. made'.sids
  BY <1>1, <1>2, RequestIs DEF Busy
<1>6. TrackTyped(x) /\ \A y : Kept(Row(s), y) => TrackTyped(y)
  BY <1>3, SessionsTyped, KeptTyped
<1>7. TableTyped(sessions)' /\ TableTyped(rows)'
  <2>1. TableTyped(sessions)'
    BY <1>2, <1>3, <1>5, <1>6, Unmoved, PutTyped
  <2>2. CASE rows' = rows
    BY <1>2, <2>1, <2>2, Unmoved, TablesStay
  <2>3. ASSUME NEW y, Kept(Row(s), y), rows' = Put(rows, s, y) PROVE TableTyped(rows)'
    BY <1>2, <1>5, <1>6, <2>3, Unmoved, PutTyped
  <2>. QED BY <1>4, <2>1, <2>2, <2>3
<1>8. IndexTyped'
  <2>1. CASE index' = index
    BY <1>2, <2>1, Unmoved, TablesStay
  <2>2. CASE Row(s).key # NoKey /\ index' = Put(index, Row(s).key, s)
    <3>1. Fileable(Row(s).key)
      BY <2>2, SessionsTyped DEF TrackTyped
    <3>. QED BY <1>2, <1>5, <2>2, <3>1, Unmoved, PutTyped
  <2>. QED BY <1>2, <2>1, <2>2, ReindexedIs
<1>9. s \in DOMAIN sessions' /\ DOMAIN sessions \subseteq DOMAIN sessions'
  BY <1>3 DEF Put
<1>10. PICK q : q = [request[r] EXCEPT !.pc = "seed"]
  OBVIOUS
<1>11. DOMAIN q = RequestFields /\ q.pc = "seed" /\ q.conv = request[r].conv
       /\ q.headers = request[r].headers /\ q.sid = s
  BY <1>1, <1>5, <1>10 DEF RequestFields
<1>12. RequestTyped(q)'
  <2>1. q.conv \in Convs /\ q.headers = HeadersOf(q.conv)
    BY <1>5, <1>11 DEF Busy
  <2>2. HeadersOf(q.conv)' = HeadersOf(q.conv)
    BY <1>2, <2>1, HeadersStay
  <2>. QED BY <1>5, <1>9, <1>11, <2>1, <2>2 DEF RequestTyped, Busy
<1>13. PICK z : z = IF request[r].isNew THEN q ELSE Idle
  OBVIOUS
<1>14. RequestTyped(z)' /\ request' = [request EXCEPT ![r] = z]
  BY <1>2, <1>10, <1>12, <1>13, IdleTyped
<1>15. request' = [t \in Requests |-> request'[t]] /\ \A t \in Requests : RequestTyped(request[t])'
  BY <1>2, <1>9, <1>14, Unmoved, HeadersStay, RequestMoves
<1>16. UsedTyped' /\ used' = [c \in Convs |-> used'[c]]
  <2>1. used' = [c \in Convs |-> IF c = request[r].conv THEN used[c] \cup {<<made.periods, s>>} ELSE used[c]]
    BY <1>2 DEF TypeInv
  <2>2. made.periods \in 1 .. made.periods
    BY SessionsTyped
  <2>3. ASSUME NEW c \in Convs, NEW u \in used'[c] PROVE u[1] \in 1 .. made.periods /\ u[2] \in 1 .. made.sids
    <3>1. u \in used[c] \/ u = <<made.periods, s>>
      BY <2>1
    <3>. QED BY <1>5, <2>2, <3>1 DEF TypeInv, UsedTyped
  <2>. QED BY <1>2, <2>1, <2>3 DEF UsedTyped
<1>17. ClientsTyped'
  BY <1>2 DEF TypeInv, ClientsTyped, ClientTyped, Carries
<1>. QED BY <1>2, <1>7, <1>8, <1>15, <1>16, <1>17, Unmoved DEF TypeInv

\* A new session's first turn gives it the fingerprint of its conversation.
LEMMA SeedIs ==
    ASSUME TypeInv, NEW r \in Requests, Seed(r)
    PROVE  /\ request[r].pc = "seed" /\ request[r].sid \in DOMAIN sessions
           /\ \E x : /\ DOMAIN x = TrackFields /\ x.key = sessions[request[r].sid].key
                     /\ x.fingerprint = FirstMessage[request[r].conv]
                     /\ x.isSubagent = sessions[request[r].sid].isSubagent
                     /\ sessions' = [sessions EXCEPT ![request[r].sid] = x]
           /\ \E y : /\ DOMAIN y = TrackFields /\ y.key = Row(request[r].sid).key
                     /\ y.fingerprint = FirstMessage[request[r].conv]
                     /\ y.isSubagent = Row(request[r].sid).isSubagent
                     /\ rows' = Put(rows, request[r].sid, y)
           /\ request' = [request EXCEPT ![r] = Idle]
           /\ client' = client /\ initialized' = initialized /\ index' = index
           /\ stale' = stale /\ used' = used /\ made' = made
<1>1. PICK s : s = request[r].sid
  OBVIOUS
<1>2. request[r].pc = "seed" /\ s \in DOMAIN sessions
  BY <1>1, RequestIs DEF Seed, Busy
<1>3. PICK v : sessions' = [sessions EXCEPT ![s] = [Counted(@, r) EXCEPT
                  !.fingerprint = FirstMessage[request[r].conv], !.candidate = v]]
  BY <1>1, Zenon DEF Seed
<1>4. PICK x0 : x0 = sessions[s]
  OBVIOUS
<1>5. PICK y0 : y0 = Row(s)
  OBVIOUS
<1>6. DOMAIN x0 = TrackFields /\ DOMAIN y0 = TrackFields
  BY <1>2, <1>4, <1>5, SessionsTyped DEF TrackTyped
<1>7. PICK x : x = [Counted(x0, r) EXCEPT !.fingerprint = FirstMessage[request[r].conv], !.candidate = v]
  OBVIOUS
<1>8. PICK y : y = [Counted(y0, r) EXCEPT !.fingerprint = FirstMessage[request[r].conv]]
  OBVIOUS
<1>9. /\ DOMAIN x = TrackFields /\ x.key = x0.key /\ x.fingerprint = FirstMessage[request[r].conv]
      /\ x.isSubagent = x0.isSubagent
  BY <1>6, <1>7 DEF Counted, TrackFields
<1>10. /\ DOMAIN y = TrackFields /\ y.key = y0.key /\ y.fingerprint = FirstMessage[request[r].conv]
       /\ y.isSubagent = y0.isSubagent
  BY <1>6, <1>8 DEF Counted, TrackFields
<1>11. sessions' = [sessions EXCEPT ![s] = x] /\ rows' = Put(rows, s, y)
  BY <1>1, <1>2, <1>3, <1>4, <1>5, <1>7, <1>8 DEF Seed
<1>12. /\ request' = [request EXCEPT ![r] = Idle]
       /\ client' = client /\ initialized' = initialized /\ index' = index
       /\ stale' = stale /\ used' = used /\ made' = made
  BY DEF Seed
<1>. QED BY <1>1, <1>2, <1>4, <1>5, <1>9, <1>10, <1>11, <1>12

LEMMA SeedTyped ==
    ASSUME TypeInv, NEW r \in Requests, Seed(r)
    PROVE  TypeInv'
<1>1. PICK s : s = request[r].sid
  OBVIOUS
<1>2. /\ request[r].pc = "seed" /\ s \in DOMAIN sessions /\ request' = [request EXCEPT ![r] = Idle]
      /\ client' = client /\ initialized' = initialized /\ index' = index /\ used' = used /\ made' = made
  BY <1>1, SeedIs
<1>3. PICK x : DOMAIN x = TrackFields /\ x.key = sessions[s].key /\ sessions' = [sessions EXCEPT ![s] = x]
  BY <1>1, SeedIs
<1>4. PICK y : DOMAIN y = TrackFields /\ y.key = Row(s).key /\ rows' = Put(rows, s, y)
  BY <1>1, SeedIs
<1>5. s \in 1 .. made.sids /\ s \in 1 .. made'.sids /\ TrackTyped(sessions[s]) /\ TrackTyped(Row(s))
  BY <1>2, SessionsTyped
<1>6. TrackTyped(x) /\ TrackTyped(y)
  BY <1>3, <1>4, <1>5 DEF TrackTyped
<1>7. TableTyped(sessions)' /\ TableTyped(rows)' /\ IndexTyped' /\ DOMAIN sessions \subseteq DOMAIN sessions'
  <2>1. TableTyped(sessions)' /\ DOMAIN sessions \subseteq DOMAIN sessions'
    BY <1>2, <1>3, <1>5, <1>6 DEF TypeInv, TableTyped
  <2>2. TableTyped(rows)'
    BY <1>2, <1>4, <1>5, <1>6, Unmoved, PutTyped
  <2>. QED BY <1>2, <2>1, <2>2, Unmoved, TablesStay
<1>8. request' = [t \in Requests |-> request'[t]] /\ \A t \in Requests : RequestTyped(request[t])'
  BY <1>2, <1>7, IdleTyped, Unmoved, HeadersStay, RequestMoves
<1>9. ClientsTyped' /\ UsedTyped'
  BY <1>2 DEF TypeInv, ClientsTyped, ClientTyped, Carries, UsedTyped
<1>. QED BY <1>2, <1>7, <1>8, <1>9, Unmoved DEF TypeInv

\* Only a client without a request in progress changes its headers.
LEMMA ClientChanges ==
    ASSUME TypeInv, NEW c \in Convs, ~InProgress(c), NEW new, ClientTyped(c, new),
           client' = [client EXCEPT ![c] = new],
           UNCHANGED <<initialized, index, sessions, rows, values, stale, request, used, made>>
    PROVE  TypeInv'
<1>1. ClientsTyped' /\ \A d \in Convs \ {c} : client'[d] = client[d]
  <2>1. ClientsTyped
    BY DEF TypeInv
  <2>2. ClientsTyped'
    BY <2>1, ClientMoves
  <2>. QED BY <2>1, <2>2 DEF ClientsTyped
<1>2. \A d \in Convs \ {c} : HeadersOf(d)' = HeadersOf(d)
  BY <1>1 DEF HeadersOf
<1>3. ASSUME NEW t \in Requests PROVE RequestTyped(request[t])'
  <2>1. RequestTyped(request[t]) /\ request' = request /\ made' = made /\ sessions' = sessions
    BY DEF TypeInv
  <2>2. PICK q : q = request[t]
    OBVIOUS
  <2>3. RequestTyped(q) /\ q.conv # c
    BY <2>1, <2>2 DEF InProgress
  <2>4. Busy(q) => Busy(q)'
    BY <1>2, <2>1, <2>3 DEF Busy
  <2>. QED BY <2>1, <2>2, <2>3, <2>4 DEF RequestTyped
<1>4. IndexTyped' /\ TableTyped(sessions)' /\ TableTyped(rows)'
  <2>1. index' = index /\ sessions' = sessions /\ rows' = rows /\ made' = made
    OBVIOUS
  <2>. QED BY <2>1, Unmoved, TablesStay
<1>5. UsedTyped'
  BY DEF TypeInv, UsedTyped
<1>. QED BY <1>1, <1>3, <1>4, <1>5 DEF TypeInv

LEMMA ClientRestartsTyped ==
    ASSUME TypeInv, NEW c \in Convs, ClientRestarts(c)
    PROVE  TypeInv'
<1>1. PICK x : x = client[c]
  OBVIOUS
<1>2. PICK new : new = [x EXCEPT !.gen = [n \in Names |-> IF n \in Sends[c] \cap Volatile THEN @[n] + 1 ELSE @[n]],
                                 !.changes = @ + 1]
  OBVIOUS
<1>3. ClientTyped(c, x) /\ client' = [client EXCEPT ![c] = new]
  <2>1. ClientTyped(c, x)
    BY <1>1 DEF TypeInv, ClientsTyped
  <2>. QED BY <1>1, <1>2, <2>1 DEF ClientRestarts
<1>4. /\ DOMAIN new = {"gen", "sent", "changes"} /\ new.sent = x.sent /\ new.changes = x.changes + 1
      /\ new.gen = [n \in Names |-> IF n \in Sends[c] \cap Volatile THEN x.gen[n] + 1 ELSE x.gen[n]]
  BY <1>2, <1>3 DEF ClientTyped
<1>5. ClientTyped(c, new)
  BY <1>3, <1>4, ConvsAssumption DEF ClientTyped, Carries
<1>6. /\ ~InProgress(c)
      /\ UNCHANGED <<initialized, index, sessions, rows, values, stale, request, used, made>>
  BY DEF ClientRestarts
<1>. QED BY <1>3, <1>5, <1>6, ClientChanges

LEMMA ClientUpgradedTyped ==
    ASSUME TypeInv, NEW c \in Convs, ClientUpgraded(c)
    PROVE  TypeInv'
<1>1. PICK x : x = client[c]
  OBVIOUS
<1>2. PICK new : new = [x EXCEPT !.gen = [n \in Names |-> IF n \in Adds[c] /\ @[n] = 0 THEN 1 ELSE @[n]],
                                 !.changes = @ + 1]
  OBVIOUS
<1>3. ClientTyped(c, x) /\ client' = [client EXCEPT ![c] = new]
  <2>1. ClientTyped(c, x)
    BY <1>1 DEF TypeInv, ClientsTyped
  <2>. QED BY <1>1, <1>2, <2>1 DEF ClientUpgraded
<1>4. /\ DOMAIN new = {"gen", "sent", "changes"} /\ new.sent = x.sent /\ new.changes = x.changes + 1
      /\ new.gen = [n \in Names |-> IF n \in Adds[c] /\ x.gen[n] = 0 THEN 1 ELSE x.gen[n]]
  BY <1>2, <1>3 DEF ClientTyped
<1>5. ClientTyped(c, new)
  BY <1>3, <1>4, ConvsAssumption DEF ClientTyped, Carries
<1>6. /\ ~InProgress(c)
      /\ UNCHANGED <<initialized, index, sessions, rows, values, stale, request, used, made>>
  BY DEF ClientUpgraded
<1>. QED BY <1>3, <1>5, <1>6, ClientChanges

LEMMA NewPeriod ==
    ASSUME TypeInv, made' = [made EXCEPT !.periods = @ + 1], used' = used
    PROVE  /\ made' \in [sids : Nat, periods : Nat \ {0}] /\ made.sids \in Nat
           /\ made'.sids = made.sids /\ made'.periods = made.periods + 1 /\ UsedTyped'
<1>1. made.periods \in Nat /\ made.sids \in Nat /\ made'.sids = made.sids /\ made'.periods = made.periods + 1
      /\ made' \in [sids : Nat, periods : Nat \ {0}]
  BY DEF TypeInv
<1>2. UsedTyped'
  BY <1>1 DEF TypeInv, UsedTyped
<1>. QED BY <1>1, <1>2

LEMMA DayPassesTyped ==
    ASSUME TypeInv, DayPasses
    PROVE  TypeInv'
<1>1. /\ made' = [made EXCEPT !.periods = @ + 1] /\ used' = used /\ request' = request /\ client' = client
      /\ index' = index /\ sessions' = sessions /\ rows' = rows /\ initialized' = initialized
      /\ \A t \in Requests : request[t].pc = "idle"
  BY DEF DayPasses
<1>2. ASSUME NEW t \in Requests PROVE RequestTyped(request[t])'
  <2>1. request[t] = Idle
    BY <1>1 DEF TypeInv, RequestTyped, Busy
  <2>. QED BY <1>1, <2>1, IdleTyped
<1>3. IndexTyped' /\ TableTyped(sessions)' /\ TableTyped(rows)'
  BY <1>1, NewPeriod, TablesStay
<1>4. ClientsTyped'
  BY <1>1 DEF TypeInv, ClientsTyped, ClientTyped, Carries
<1>. QED BY <1>1, <1>2, <1>3, <1>4, NewPeriod DEF TypeInv

LEMMA RestartTyped ==
    ASSUME TypeInv, Restart
    PROVE  TypeInv'
<1>1. /\ made' = [made EXCEPT !.periods = @ + 1] /\ used' = used /\ client' = client /\ rows' = rows
      /\ index' = [k \in {} |-> 0] /\ sessions' = [s \in {} |-> Untracked] /\ initialized' = FALSE
      /\ request' = [t \in Requests |-> Idle]
  BY DEF Restart
<1>2. \A t \in Requests : RequestTyped(request[t])'
  BY <1>1, IdleTyped
<1>3. TableTyped(rows)'
  BY <1>1, NewPeriod, TablesStay
<1>4. IndexTyped' /\ TableTyped(sessions)'
  BY <1>1 DEF IndexTyped, TableTyped
<1>5. ClientsTyped'
  BY <1>1 DEF TypeInv, ClientsTyped, ClientTyped, Carries
<1>. QED BY <1>1, <1>2, <1>3, <1>4, <1>5, NewPeriod DEF TypeInv

LEMMA InitTyped ==
    ASSUME Init
    PROVE  TypeInv
<1>1. ClientsTyped
  <2>1. client = [c \in Convs |-> [gen |-> [n \in Names |-> IF n \in Sends[c] THEN 1 ELSE 0], sent |-> 0, changes |-> 0]]
    BY DEF Init
  <2>2. ASSUME NEW c \in Convs PROVE ClientTyped(c, client[c])
    <3>1. client[c] = [gen |-> [n \in Names |-> IF n \in Sends[c] THEN 1 ELSE 0], sent |-> 0, changes |-> 0]
      BY <2>1
    <3>. QED BY <3>1, ConvsAssumption DEF ClientTyped, Carries
  <2>. QED BY <2>1, <2>2 DEF ClientsTyped
<1>2. ASSUME NEW t \in Requests PROVE RequestTyped(request[t])
  BY DEF Init, RequestTyped, Idle, RequestFields
<1>3. IndexTyped /\ TableTyped(sessions) /\ TableTyped(rows) /\ UsedTyped
  BY DEF Init, IndexTyped, TableTyped, UsedTyped
<1>4. used = [c \in Convs |-> used[c]] /\ request = [r \in Requests |-> request[r]]
  BY DEF Init
<1>5. made \in [sids : Nat, periods : Nat \ {0}] /\ initialized \in BOOLEAN
  <2>1. made = [sids |-> 0, periods |-> 1] /\ initialized = FALSE
    BY DEF Init
  <2>2. made \in [sids : Nat, periods : Nat \ {0}]
    BY <2>1
  <2>3. initialized \in BOOLEAN
    BY <2>1, Zenon
  <2>. QED BY <2>2, <2>3
<1>. QED BY <1>1, <1>2, <1>3, <1>4, <1>5 DEF TypeInv

LEMMA StutterTyped ==
    ASSUME TypeInv, UNCHANGED vars
    PROVE  TypeInv'
<1>1. /\ client' = client /\ initialized' = initialized /\ index' = index /\ sessions' = sessions
      /\ rows' = rows /\ request' = request /\ used' = used /\ made' = made
  BY DEF vars
<1>2. ClientsTyped' /\ IndexTyped' /\ TableTyped(sessions)' /\ TableTyped(rows)' /\ UsedTyped'
  BY <1>1 DEF TypeInv, ClientsTyped, ClientTyped, Carries, IndexTyped, TableTyped, UsedTyped
<1>3. ASSUME NEW t \in Requests PROVE RequestTyped(request[t])'
  <2>1. PICK q : q = request[t]
    OBVIOUS
  <2>2. RequestTyped(q) /\ request'[t] = q
    BY <1>1, <2>1 DEF TypeInv
  <2>3. Busy(q) => Busy(q)'
    BY <1>1, HeadersStay DEF Busy
  <2>. QED BY <2>2, <2>3 DEF RequestTyped
<1>. QED BY <1>1, <1>2, <1>3 DEF TypeInv

LEMMA StepTyped ==
    ASSUME TypeInv, [Next]_vars
    PROVE  TypeInv'
<1>1. ASSUME NEW r \in Requests, NEW c \in Convs, Arrives(r, c) PROVE TypeInv'
  BY <1>1, ArrivesTyped
<1>2. ASSUME NEW r \in Requests,
             ByKnownHeader(r) \/ ByOtherHeader(r) \/ ByRotation(r) \/ ByNewHeader(r)
      PROVE  TypeInv'
  BY <1>2, ByKnownHeaderTyped, ByOtherHeaderTyped, ByRotationTyped, ByNewHeaderTyped
<1>3. ASSUME NEW r \in Requests,
             ByLearnedHeader(r) \/ FingerprintStarts(r) \/ ByFingerprint(r) \/ ByNewFingerprint(r)
      PROVE  TypeInv'
  BY <1>3, ByLearnedHeaderTyped, FingerprintStartsTyped, ByFingerprintTyped, ByNewFingerprintTyped
<1>4. ASSUME NEW r \in Requests, Attach(r) \/ Seed(r) PROVE TypeInv'
  BY <1>4, AttachTyped, SeedTyped
<1>5. ASSUME NEW c \in Convs, ClientRestarts(c) \/ ClientUpgraded(c) PROVE TypeInv'
  BY <1>5, ClientRestartsTyped, ClientUpgradedTyped
<1>. QED BY <1>1, <1>2, <1>3, <1>4, <1>5, DayPassesTyped, RestartTyped, StutterTyped DEF Next

THEOREM TypeCorrect == Spec => []TypeOK
<1>1. Init => TypeInv
  BY InitTyped
<1>2. TypeInv /\ [Next]_vars => TypeInv'
  BY StepTyped
<1>3. TypeInv => TypeOK
  <2>. SUFFICES ASSUME TypeInv PROVE TypeOK
    OBVIOUS
  <2>1. \A r \in Requests : request[r].pc \in {"idle", "identify", "match", "attach", "seed"}
    BY DEF TypeInv, RequestTyped, Busy, Idle
  <2>2. \A c \in Convs : client[c].sent \in 0 .. MaxSent[c]
    BY DEF TypeInv, ClientsTyped, ClientTyped
  <2>3. \A k \in DOMAIN index : index[k] \in 1 .. made.sids
    BY DEF TypeInv, IndexTyped
  <2>4. DOMAIN sessions \cup DOMAIN rows \subseteq 1 .. made.sids
    BY DEF TypeInv, TableTyped
  <2>. QED BY <2>1, <2>2, <2>3, <2>4 DEF TypeOK
<1>. QED BY <1>1, <1>2, <1>3, PTL DEF Spec

-----------------------------------------------------------------------------
(* The keys in the table lead to their sessions.                           *)

\* The keys of the table f are in the index g; one of a known header leads to
\* its row.
Leads(f, g) ==
    \A s \in DOMAIN f : f[s].key # NoKey =>
        f[s].key \in DOMAIN g /\ (f[s].key[1] \in Names => g[f[s].key] = s)

OneRow(f) == \A s, t \in DOMAIN f : f[s].key[1] \in Names /\ f[s].key = f[t].key => s = t

LeadInv ==
    /\ ~initialized => DOMAIN index = {} /\ \A r \in Requests : request[r].pc = "idle"
    /\ initialized => Leads(rows, index)
    /\ OneRow(rows)

LEMMA NoKeyIsNone ==
    NoKey[1] \notin Names
BY HeadersAssumption DEF NoKey

LEMMA LeadsIsOne ==
    ASSUME NEW f, NEW g, Leads(f, g)
    PROVE  OneRow(f)
BY NoKeyIsNone DEF Leads, OneRow

\* A session is filed under a key that was free, was its own, or is a learned one.
LEMMA FiledLeads ==
    ASSUME NEW f, NEW g, Leads(f, g), NEW s, NEW k, NEW y, y.key = k,
           k \in DOMAIN g => g[k] = s \/ k[1] \notin Names
    PROVE  Leads(Put(f, s, y), Put(g, k, s))
BY DEF Leads, Put

\* A row that keeps its key.
LEMMA SavedLeads ==
    ASSUME NEW f, NEW g, Leads(f, g), NEW s, NEW y, y.key = IF s \in DOMAIN f THEN f[s].key ELSE NoKey
    PROVE  Leads(Put(f, s, y), g)
BY DEF Leads, Put

\* A key that no row has, or only the session's.
LEMMA IndexedLeads ==
    ASSUME NEW f, NEW g, Leads(f, g), NEW s, NEW k, k \in DOMAIN g => g[k] = s \/ k[1] \notin Names
    PROVE  Leads(f, Put(g, k, s))
BY DEF Leads, Put

\* The index the table gives.
LEMMA StoredLeads ==
    ASSUME OneRow(rows)
    PROVE  Leads(rows, StoredIndex)
<1>. DEFINE T == {s \in DOMAIN rows : rows[s].key # NoKey}
<1>1. ASSUME NEW s \in DOMAIN rows, rows[s].key # NoKey
      PROVE  rows[s].key \in DOMAIN StoredIndex /\ (rows[s].key[1] \in Names => StoredIndex[rows[s].key] = s)
  <2>1. PICK k : k = rows[s].key
    OBVIOUS
  <2>2. s \in T /\ k \in DOMAIN StoredIndex /\ StoredIndex[k] = CHOOSE t \in T : rows[t].key = k
    BY <1>1, <2>1 DEF StoredIndex
  <2>3. StoredIndex[k] \in T /\ rows[StoredIndex[k]].key = k
    BY <2>1, <2>2
  <2>4. PICK t : t = StoredIndex[k]
    OBVIOUS
  <2>5. t \in DOMAIN rows /\ rows[t].key = k
    BY <2>3, <2>4
  <2>6. k[1] \in Names => t = s
    BY <2>1, <2>5 DEF OneRow
  <2>. QED BY <2>1, <2>2, <2>4, <2>6
<1>. QED BY <1>1 DEF Leads

LEMMA ArrivesLeads ==
    ASSUME LeadInv, NEW r, NEW c, Arrives(r, c)
    PROVE  LeadInv'
<1>1. rows' = rows /\ initialized' = TRUE /\ index' = IF initialized THEN index ELSE Merged(StoredIndex, index)
  BY DEF Arrives
<1>2. OneRow(rows)
  BY DEF LeadInv
<1>3. Leads(rows, index')
  <2>1. CASE initialized
    BY <1>1, <2>1 DEF LeadInv
  <2>2. CASE ~initialized
    <3>1. PICK f : f = StoredIndex
      OBVIOUS
    <3>2. Leads(rows, f)
      BY <1>2, <3>1, StoredLeads
    <3>3. index' = Merged(f, index)
      BY <1>1, <2>2, <3>1
    <3>. QED BY <3>2, <3>3 DEF Leads, Merged
  <2>. QED BY <2>1, <2>2
<1>4. Leads(rows, index)' /\ OneRow(rows)'
  BY <1>1, <1>2, <1>3 DEF Leads, OneRow
<1>. QED BY <1>1, <1>4 DEF LeadInv

\* Once requests are under way it is enough that the rows lead.
LEMMA LeadsEnough ==
    ASSUME LeadInv, NEW r \in Requests, request[r].pc # "idle", initialized' = initialized,
           Leads(rows, index) => Leads(rows', index')
    PROVE  LeadInv'
<1>1. initialized /\ Leads(rows, index)
  BY DEF LeadInv
<1>2. PICK f : f = rows'
  OBVIOUS
<1>3. PICK g : g = index'
  OBVIOUS
<1>4. Leads(f, g) /\ OneRow(f)
  BY <1>1, <1>2, <1>3, LeadsIsOne
<1>5. Leads(rows, index)' /\ OneRow(rows)'
  BY <1>2, <1>3, <1>4 DEF Leads, OneRow
<1>. QED BY <1>1, <1>5 DEF LeadInv

\* Filing a session writes the key into its row.
LEMMA RefileIs ==
    ASSUME TypeInv, NEW s, NEW k, Refile(s, k)
    PROVE  \E y : /\ DOMAIN y = TrackFields /\ y.key = k /\ y.fingerprint = Row(s).fingerprint
                  /\ y.isSubagent = Row(s).isSubagent /\ rows' = Put(rows, s, y)
<1>1. PICK x : x = Row(s)
  OBVIOUS
<1>2. PICK y : y = [x EXCEPT !.key = k]
  OBVIOUS
<1>3. DOMAIN x = TrackFields
  BY <1>1, SessionsTyped DEF TrackTyped
<1>4. rows' = Put(rows, s, y)
  BY <1>1, <1>2 DEF Refile
<1>5. DOMAIN y = TrackFields /\ y.key = k /\ y.fingerprint = x.fingerprint /\ y.isSubagent = x.isSubagent
  BY <1>2, <1>3 DEF TrackFields
<1>. QED BY <1>1, <1>4, <1>5

LEMMA ByOtherHeaderLeads ==
    ASSUME TypeInv, LeadInv, NEW r \in Requests, ByOtherHeader(r)
    PROVE  LeadInv'
<1>1. PICK k : k = PrimaryKey(request[r].headers)
  OBVIOUS
<1>2. PICK s : index' = Put(index, k, s) /\ Refile(s, k)
  BY <1>1 DEF ByOtherHeader
<1>3. k \notin DOMAIN index /\ initialized' = initialized /\ request[r].pc # "idle"
  BY <1>1 DEF ByOtherHeader
<1>4. PICK y : y.key = k /\ rows' = Put(rows, s, y)
  BY <1>2, RefileIs
<1>. QED BY <1>2, <1>3, <1>4, FiledLeads, LeadsEnough

LEMMA ByRotationLeads ==
    ASSUME TypeInv, LeadInv, NEW r \in Requests, ByRotation(r)
    PROVE  LeadInv'
<1>1. PICK h : h = request[r].headers
  OBVIOUS
<1>2. PICK old : old = CHOOSE x \in Predecessors(h) : TRUE
  OBVIOUS
<1>3. PICK k : k = PrimaryKey(h)
  OBVIOUS
<1>4. PICK s : s = index[old]
  OBVIOUS
<1>5. PICK g : g = [x \in DOMAIN index \ {old} |-> index[x]]
  OBVIOUS
<1>6. /\ index' = Put(g, k, s) /\ Refile(s, k) /\ Cardinality(Predecessors(h)) = 1 /\ HasKnown(h)
      /\ k \notin DOMAIN index /\ initialized' = initialized /\ request[r].pc # "idle"
  BY <1>1, <1>2, <1>3, <1>4, <1>5 DEF ByRotation, IsUnfiled
<1>7. old \in Predecessors(h)
  BY <1>2, <1>6, FS_EmptySet
<1>8. old \in DOMAIN index /\ old[1] \in Names
  BY <1>6, <1>7, PrimaryCarried DEF Predecessors
<1>9. PICK y : y.key = k /\ rows' = Put(rows, s, y)
  BY <1>6, RefileIs
<1>10. ASSUME Leads(rows, index) PROVE Leads(Put(rows, s, y), Put(g, k, s))
  <2>. SUFFICES ASSUME NEW t \in DOMAIN Put(rows, s, y), Put(rows, s, y)[t].key # NoKey
                PROVE  /\ Put(rows, s, y)[t].key \in DOMAIN Put(g, k, s)
                       /\ Put(rows, s, y)[t].key[1] \in Names => Put(g, k, s)[Put(rows, s, y)[t].key] = t
    BY DEF Leads
  <2>1. CASE t = s
    BY <1>9, <2>1 DEF Put
  <2>2. CASE t # s
    <3>1. t \in DOMAIN rows /\ Put(rows, s, y)[t] = rows[t]
      BY <2>2 DEF Put
    <3>2. PICK j : j = rows[t].key
      OBVIOUS
    <3>3. j \in DOMAIN index /\ (j[1] \in Names => index[j] = t) /\ j # old
      BY <1>4, <1>8, <1>10, <2>2, <3>1, <3>2 DEF Leads
    <3>4. j \in DOMAIN g /\ g[j] = index[j] /\ j # k
      BY <1>5, <1>6, <3>3
    <3>. QED BY <3>1, <3>2, <3>3, <3>4 DEF Put
  <2>. QED BY <2>1, <2>2
<1>. QED BY <1>6, <1>9, <1>10, LeadsEnough

LEMMA ByNewHeaderLeads ==
    ASSUME LeadInv, NEW r \in Requests, ByNewHeader(r)
    PROVE  LeadInv'
<1>1. PICK k : k = PrimaryKey(request[r].headers)
  OBVIOUS
<1>2. PICK s : index' = Put(index, k, s)
  BY <1>1 DEF ByNewHeader
<1>3. k \notin DOMAIN index /\ initialized' = initialized /\ request[r].pc # "idle" /\ rows' = rows
  BY <1>1 DEF ByNewHeader, IsUnfiled
<1>. QED BY <1>2, <1>3, IndexedLeads, LeadsEnough

LEMMA ByFingerprintLeads ==
    ASSUME TypeInv, LeadInv, NEW r \in Requests, ByFingerprint(r)
    PROVE  LeadInv'
<1>1. PICK c : c = request[r].conv
  OBVIOUS
<1>2. PICK s : \/ UNCHANGED <<index, rows>>
               \/ /\ Promotes(s, c) /\ index' = Put(index, ClientKey(c), s)
                  /\ rows' = Put(rows, s, [Row(s) EXCEPT !.key = ClientKey(c)])
  BY <1>1 DEF ByFingerprint
<1>3. initialized' = initialized /\ request[r].pc = "match"
  BY DEF ByFingerprint
<1>4. CASE UNCHANGED <<index, rows>>
  BY <1>3, <1>4, LeadsEnough
<1>5. CASE /\ Promotes(s, c) /\ index' = Put(index, ClientKey(c), s)
           /\ rows' = Put(rows, s, [Row(s) EXCEPT !.key = ClientKey(c)])
  <2>1. PICK k : k = ClientKey(c)
    OBVIOUS
  <2>2. IsLearned(k, c) /\ c \in Convs
    BY <1>1, <1>3, <1>5, <2>1, PromotesAnId, MatchLearns, RequestIs DEF Busy
  <2>3. k[1] \notin Names
    BY <2>2, KeyNames
  <2>4. PICK x : x = Row(s)
    OBVIOUS
  <2>5. PICK y : y = [x EXCEPT !.key = k]
    OBVIOUS
  <2>6. y.key = k
    BY <2>4, <2>5, SessionsTyped DEF TrackTyped, TrackFields
  <2>7. index' = Put(index, k, s) /\ rows' = Put(rows, s, y)
    BY <1>5, <2>1, <2>4, <2>5
  <2>. QED BY <1>3, <2>3, <2>6, <2>7, FiledLeads, LeadsEnough
<1>. QED BY <1>2, <1>4, <1>5

LEMMA AttachLeads ==
    ASSUME TypeInv, LeadInv, NEW r \in Requests, Attach(r)
    PROVE  LeadInv'
<1>1. PICK s : s = request[r].sid
  OBVIOUS
<1>2. request[r].pc = "attach" /\ initialized' = initialized /\ index' = Reindexed(s)
  BY <1>1, AttachIs
<1>3. rows' = rows \/ \E y : Kept(Row(s), y) /\ rows' = Put(rows, s, y)
  BY <1>1, AttachIs
<1>4. ASSUME Leads(rows, index) PROVE Leads(rows, index')
  <2>1. CASE index' = index
    BY <1>4, <2>1
  <2>2. CASE /\ Row(s).key # NoKey /\ s \in DOMAIN rows /\ index' = Put(index, Row(s).key, s)
    <3>1. PICK k : k = Row(s).key
      OBVIOUS
    <3>2. k = rows[s].key /\ (k[1] \in Names => index[k] = s)
      BY <1>4, <2>2, <3>1 DEF Row, Leads
    <3>. QED BY <1>4, <2>2, <3>1, <3>2, IndexedLeads
  <2>. QED BY <1>2, <2>1, <2>2, ReindexedIs
<1>5. ASSUME NEW y, Kept(Row(s), y), NEW g, Leads(rows, g) PROVE Leads(Put(rows, s, y), g)
  <2>1. y.key = IF s \in DOMAIN rows THEN rows[s].key ELSE NoKey
    BY <1>5 DEF Kept, Row, Untracked
  <2>. QED BY <1>5, <2>1, SavedLeads
<1>. QED BY <1>2, <1>3, <1>4, <1>5, LeadsEnough

LEMMA SeedLeads ==
    ASSUME TypeInv, LeadInv, NEW r \in Requests, Seed(r)
    PROVE  LeadInv'
<1>1. PICK s : s = request[r].sid
  OBVIOUS
<1>2. request[r].pc = "seed" /\ initialized' = initialized /\ index' = index
  BY <1>1, SeedIs
<1>3. PICK y : y.key = Row(s).key /\ rows' = Put(rows, s, y)
  BY <1>1, SeedIs
<1>4. y.key = IF s \in DOMAIN rows THEN rows[s].key ELSE NoKey
  BY <1>3 DEF Row, Untracked
<1>. QED BY <1>2, <1>3, <1>4, SavedLeads, LeadsEnough

\* The steps that leave index and table alone.
LEMMA StaysLeads ==
    ASSUME LeadInv, index' = index, rows' = rows, initialized' = initialized,
           request' = request \/ \E r \in Requests : request[r].pc # "idle"
    PROVE  LeadInv'
<1>1. CASE request' = request
  BY <1>1 DEF LeadInv, Leads, OneRow
<1>2. ASSUME NEW r \in Requests, request[r].pc # "idle" PROVE LeadInv'
  BY <1>2, LeadsEnough
<1>. QED BY <1>1, <1>2

LEMMA StepLeads ==
    ASSUME TypeInv, LeadInv, [Next]_vars
    PROVE  LeadInv'
<1>1. ASSUME NEW r \in Requests, NEW c \in Convs, Arrives(r, c) PROVE LeadInv'
  BY <1>1, ArrivesLeads
<1>2. ASSUME NEW r \in Requests,
             ByOtherHeader(r) \/ ByRotation(r) \/ ByNewHeader(r) \/ ByFingerprint(r) \/ Attach(r) \/ Seed(r)
      PROVE  LeadInv'
  BY <1>2, ByOtherHeaderLeads, ByRotationLeads, ByNewHeaderLeads, ByFingerprintLeads, AttachLeads, SeedLeads
<1>3. ASSUME NEW r \in Requests,
             ByKnownHeader(r) \/ ByLearnedHeader(r) \/ FingerprintStarts(r) \/ ByNewFingerprint(r)
      PROVE  LeadInv'
  <2>1. request[r].pc # "idle" /\ index' = index /\ rows' = rows /\ initialized' = initialized
    BY <1>3 DEF ByKnownHeader, ByLearnedHeader, FingerprintStarts, ByNewFingerprint
  <2>. QED BY <2>1, StaysLeads
<1>4. ASSUME NEW c \in Convs, ClientRestarts(c) \/ ClientUpgraded(c) PROVE LeadInv'
  BY <1>4, StaysLeads DEF ClientRestarts, ClientUpgraded
<1>5. CASE DayPasses
  BY <1>5, StaysLeads DEF DayPasses
<1>6. CASE Restart
  <2>1. /\ rows' = rows /\ initialized' = FALSE /\ index' = [k \in {} |-> 0]
        /\ request' = [r \in Requests |-> Idle]
    BY <1>6 DEF Restart
  <2>2. OneRow(rows)'
    BY <2>1 DEF LeadInv, OneRow
  <2>. QED BY <2>1, <2>2 DEF LeadInv, Idle
<1>7. CASE UNCHANGED vars
  BY <1>7, StaysLeads DEF vars
<1>. QED BY <1>1, <1>2, <1>3, <1>4, <1>5, <1>6, <1>7 DEF Next

LEMMA InitLeads ==
    ASSUME Init
    PROVE  LeadInv
BY DEF Init, LeadInv, OneRow, Idle

\* What the table has of a session's key is found after a restart.
THEOREM KeysFound == Spec => []StoredKeysLead
<1>1. Init => TypeInv /\ LeadInv
  BY InitTyped, InitLeads
<1>2. TypeInv /\ LeadInv /\ [Next]_vars => TypeInv' /\ LeadInv'
  BY StepTyped, StepLeads
<1>3. LeadInv => StoredKeysLead
  BY DEF LeadInv, Leads, StoredKeysLead
<1>. QED BY <1>1, <1>2, <1>3, PTL DEF Spec

-----------------------------------------------------------------------------
(* Conversations that never meet have no session in common.                *)

\* Everything that may lead a request of the conversation to the session.
UsedBy(s, c) == \E u \in used[c] : u[2] = s
Serves(s, c) == \E r \in Requests : request[r].pc \in {"attach", "seed"} /\ request[r].conv = c /\ request[r].sid = s
IndexedFor(s, c) == \E k \in DOMAIN index : index[k] = s /\ KeyOf(k, c)
Holds(f, s, c) == s \in DOMAIN f /\ (KeyOf(f[s].key, c) \/ f[s].fingerprint = FirstMessage[c])

Claims(s, c) == UsedBy(s, c) \/ Serves(s, c) \/ IndexedFor(s, c) \/ Holds(sessions, s, c) \/ Holds(rows, s, c)

ApartInv == \A G \in SUBSET Convs : Closed(G) =>
    \A s : \A c \in G, d \in Convs : Claims(s, c) /\ Claims(s, d) => d \in G

\* A step gives a session at most the claims of those that meet the request's
\* conversation, when that conversation meets one the session had.
NoNewClaims == \A s : \A x \in Convs : Claims(s, x)' => Claims(s, x)
Claimed(s, c) ==
    /\ \A t : \A x \in Convs : Claims(t, x)' => Claims(t, x) \/ (t = s /\ Meets(c, x))
    /\ \/ \A x \in Convs : ~Claims(s, x)
       \/ \E e \in Convs : Claims(s, e) /\ Meets(e, c)
LEMMA MeetsIs ==
    ASSUME NEW c \in Convs
    PROVE  Meets(c, c) /\ \A d \in Convs : Meets(c, d) => Meets(d, c)
BY DEF Meets, MayShareHeader

LEMMA ClaimedApart ==
    ASSUME ApartInv, NEW s, NEW c \in Convs, Claimed(s, c)
    PROVE  ApartInv'
<1>. SUFFICES ASSUME NEW G \in SUBSET Convs, Closed(G), NEW t, NEW a \in G, NEW b \in Convs, Claims(t, a)', Claims(t, b)'
              PROVE  b \in G
  BY DEF ApartInv, Closed, Meets, MayShareHeader
<1>1. a \in Convs
  OBVIOUS
<1>2. Claims(t, a) \/ (t = s /\ Meets(c, a))
  BY <1>1 DEF Claimed
<1>3. Claims(t, b) \/ (t = s /\ Meets(c, b))
  BY DEF Claimed
<1>4. CASE Claims(t, a) /\ Claims(t, b)
  BY <1>4 DEF ApartInv
<1>5. CASE t = s /\ Meets(c, a) /\ Meets(c, b)
  BY <1>1, <1>5, MeetsIs DEF Closed
<1>6. CASE t = s /\ Meets(c, a) /\ Claims(t, b)
  <2>1. PICK e \in Convs : Claims(s, e) /\ Meets(e, c)
    BY <1>6 DEF Claimed
  <2>2. c \in G
    BY <1>1, <1>6, MeetsIs DEF Closed
  <2>3. e \in G
    BY <2>1, <2>2, MeetsIs DEF Closed
  <2>. QED BY <1>6, <2>1, <2>3 DEF ApartInv
<1>7. CASE t = s /\ Claims(t, a) /\ Meets(c, b)
  <2>1. PICK e \in Convs : Claims(s, e) /\ Meets(e, c)
    BY <1>1, <1>7 DEF Claimed
  <2>2. e \in G
    BY <1>7, <2>1 DEF ApartInv
  <2>3. c \in G
    BY <2>1, <2>2 DEF Closed
  <2>. QED BY <1>7, <2>3 DEF Closed
<1>. QED BY <1>2, <1>3, <1>4, <1>5, <1>6, <1>7

LEMMA NoNewClaimsApart ==
    ASSUME ApartInv, NoNewClaims
    PROVE  ApartInv'
BY DEF ApartInv, NoNewClaims, Closed, Meets, MayShareHeader

\* A session id that was not made yet has no claims.
LEMMA NewUnclaimed ==
    ASSUME TypeInv
    PROVE  \A x \in Convs : ~Claims(made.sids + 1, x)
<1>1. made.sids \in Nat /\ made.sids + 1 \notin 1 .. made.sids
  BY SessionsTyped
<1>. SUFFICES ASSUME NEW x \in Convs PROVE ~Claims(made.sids + 1, x)
  OBVIOUS
<1>2. ~UsedBy(made.sids + 1, x)
  BY <1>1 DEF UsedBy, TypeInv, UsedTyped
<1>3. ~Serves(made.sids + 1, x)
  <2>1. \A r \in Requests : request[r].pc \in {"attach", "seed"} => request[r].sid \in 1 .. made.sids
    BY RequestIs DEF Busy
  <2>. QED BY <1>1, <2>1 DEF Serves
<1>4. ~IndexedFor(made.sids + 1, x)
  BY <1>1 DEF IndexedFor, TypeInv, IndexTyped
<1>5. ~Holds(sessions, made.sids + 1, x) /\ ~Holds(rows, made.sids + 1, x)
  BY <1>1 DEF Holds, TypeInv, TableTyped
<1>. QED BY <1>2, <1>3, <1>4, <1>5 DEF Claims

\* A request that is identified claims its session for its conversation.
LEMMA IdentifiedServes ==
    ASSUME TypeInv, NEW r \in Requests, request[r].pc # "idle", NEW s, NEW b, Identified(r, s, b)
    PROVE  \A t : \A x \in Convs : Serves(t, x)' => Serves(t, x) \/ (t = s /\ x = request[r].conv)
<1>1. PICK q : q = [request[r] EXCEPT !.pc = "attach", !.sid = s, !.isNew = b]
  OBVIOUS
<1>2. q.sid = s /\ q.conv = request[r].conv
  BY <1>1, RequestIs DEF RequestFields
<1>3. request' = [t \in Requests |-> IF t = r THEN q ELSE request[t]]
  BY <1>1 DEF Identified, TypeInv
<1>. QED BY <1>2, <1>3 DEF Serves

\* The owners of a key in the index or in a table, after it was set for one.
LEMMA KeyClaims ==
    ASSUME NEW k, NEW s
    PROVE  /\ index' = Put(index, k, s) =>
                 \A t : \A x \in Convs : IndexedFor(t, x)' => IndexedFor(t, x) \/ (t = s /\ KeyOf(k, x))
           /\ \A f, y, t : \A x \in Convs :
                 Holds(Put(f, s, y), t, x) =>
                    Holds(f, t, x) \/ (t = s /\ (KeyOf(y.key, x) \/ y.fingerprint = FirstMessage[x]))
<1>1. ASSUME index' = Put(index, k, s), NEW t, NEW x \in Convs, IndexedFor(t, x)'
      PROVE  IndexedFor(t, x) \/ (t = s /\ KeyOf(k, x))
  <2>1. PICK j \in DOMAIN index' : index'[j] = t /\ KeyOf(j, x)'
    BY <1>1 DEF IndexedFor
  <2>2. KeyOf(j, x)
    BY <2>1 DEF KeyOf, IsKnown, IsLearned, ClientKey
  <2>. QED BY <1>1, <2>1, <2>2 DEF IndexedFor, Put
<1>2. ASSUME NEW f, NEW y, NEW t, NEW x \in Convs, Holds(Put(f, s, y), t, x)
      PROVE  Holds(f, t, x) \/ (t = s /\ (KeyOf(y.key, x) \/ y.fingerprint = FirstMessage[x]))
  BY <1>2 DEF Holds, Put
<1>. QED BY <1>1, <1>2

\* What does not change gives no new claims.
LEMMA Unclaimed ==
    /\ used' = used => \A t : \A x \in Convs : UsedBy(t, x)' => UsedBy(t, x)
    /\ request' = request => \A t : \A x \in Convs : Serves(t, x)' => Serves(t, x)
    /\ index' = index => \A t : \A x \in Convs : IndexedFor(t, x)' => IndexedFor(t, x)
    /\ sessions' = sessions => \A t : \A x \in Convs : Holds(sessions, t, x)' => Holds(sessions, t, x)
    /\ rows' = rows => \A t : \A x \in Convs : Holds(rows, t, x)' => Holds(rows, t, x)
BY DEF UsedBy, Serves, IndexedFor, Holds, KeyOf, IsKnown, IsLearned, ClientKey

\* Known keys have one owner, learned ones the clients with that id.
LEMMA Owners ==
    ASSUME NEW c \in Convs, NEW x \in Convs, NEW k, KeyOf(k, x), KeyOf(k, c)
    PROVE  Meets(c, x)
<1>1. CASE IsKnown(k, c) /\ IsKnown(k, x)
  BY <1>1, OneOwner, MeetsIs
<1>2. CASE IsLearned(k, c) /\ IsLearned(k, x)
  <2>1. <<"x-client-id", <<ClientId[c], 1>>>> = <<"x-client-id", <<ClientId[x], 1>>>>
    BY <1>2 DEF IsLearned, ClientKey, Key
  <2>2. <<ClientId[c], 1>> = <<ClientId[x], 1>>
    BY <2>1
  <2>. QED BY <1>2, <2>2 DEF IsLearned, Meets
<1>. QED BY <1>1, <1>2, KeyNames DEF KeyOf

-----------------------------------------------------------------------------
(* The claims a step makes.                                                *)

\* A step that identifies a request and files nothing.
LEMMA IdentifiedClaims ==
    ASSUME TypeInv, NEW r \in Requests, request[r].pc # "idle", NEW s, NEW b, Identified(r, s, b),
           used' = used, index' = index, sessions' = sessions, rows' = rows,
           \/ \A x \in Convs : ~Claims(s, x)
           \/ \E e \in Convs : Claims(s, e) /\ Meets(e, request[r].conv)
    PROVE  Claimed(s, request[r].conv)
<1>1. \A t : \A x \in Convs : Serves(t, x)' => Serves(t, x) \/ (t = s /\ x = request[r].conv)
  BY IdentifiedServes
<1>2. Meets(request[r].conv, request[r].conv)
  BY RequestIs, MeetsIs DEF Busy
<1>. QED BY <1>1, <1>2, Unclaimed DEF Claimed, Claims

\* A step that files a session under a key of the request's conversation.
LEMMA FiledClaims ==
    ASSUME TypeInv, NEW r \in Requests, request[r].pc # "idle", NEW s, NEW b, Identified(r, s, b), used' = used,
           NEW k, KeyOf(k, request[r].conv),
           \A t : \A x \in Convs : IndexedFor(t, x)' => IndexedFor(t, x) \/ (t = s /\ KeyOf(k, x)),
           \A t : \A x \in Convs : Holds(sessions, t, x)' => Claims(t, x) \/ (t = s /\ KeyOf(k, x)),
           \A t : \A x \in Convs : Holds(rows, t, x)' => Claims(t, x) \/ (t = s /\ KeyOf(k, x)),
           \/ \A x \in Convs : ~Claims(s, x)
           \/ \E e \in Convs : Claims(s, e) /\ Meets(e, request[r].conv)
    PROVE  Claimed(s, request[r].conv)
<1>1. \A t : \A x \in Convs : Serves(t, x)' => Serves(t, x) \/ (t = s /\ x = request[r].conv)
  BY IdentifiedServes
<1>2. request[r].conv \in Convs
  BY RequestIs DEF Busy
<1>3. Meets(request[r].conv, request[r].conv) /\ \A x \in Convs : KeyOf(k, x) => Meets(request[r].conv, x)
  BY <1>2, MeetsIs, Owners
<1>. QED BY <1>1, <1>3, Unclaimed DEF Claimed, Claims

\* Filing a session adds the claims of the key to its records.
LEMMA RefileClaims ==
    ASSUME TypeInv, NEW s, NEW k, Refile(s, k)
    PROVE  /\ \A t : \A x \in Convs : Holds(sessions, t, x)' => Claims(t, x) \/ (t = s /\ KeyOf(k, x))
           /\ \A t : \A x \in Convs : Holds(rows, t, x)' => Claims(t, x) \/ (t = s /\ KeyOf(k, x))
<1>1. PICK y : y.key = k /\ y.fingerprint = Row(s).fingerprint /\ rows' = Put(rows, s, y)
  BY RefileIs
<1>2. ASSUME NEW t, NEW x \in Convs, Holds(rows, t, x)' PROVE Claims(t, x) \/ (t = s /\ KeyOf(k, x))
  <2>1. Holds(rows, t, x) \/ (t = s /\ (KeyOf(k, x) \/ Row(s).fingerprint = FirstMessage[x]))
    BY <1>1, <1>2, KeyClaims
  <2>2. Row(s).fingerprint = FirstMessage[x] => Holds(rows, s, x)
    BY ConvsAssumption DEF Row, Untracked, Holds
  <2>. QED BY <2>1, <2>2 DEF Claims
<1>3. ASSUME NEW t, NEW x \in Convs, Holds(sessions, t, x)' PROVE Claims(t, x) \/ (t = s /\ KeyOf(k, x))
  <2>1. CASE s \notin DOMAIN sessions
    <3>1. sessions' = sessions
      BY <2>1 DEF Refile
    <3>. QED BY <1>3, <3>1, Unclaimed DEF Claims
  <2>2. CASE s \in DOMAIN sessions
    <3>1. PICK z : z = sessions[s]
      OBVIOUS
    <3>2. PICK v : v = [z EXCEPT !.key = k]
      OBVIOUS
    <3>3. DOMAIN z = TrackFields /\ sessions' = [sessions EXCEPT ![s] = v]
      BY <2>2, <3>1, <3>2, SessionsTyped DEF TrackTyped, Refile
    <3>4. v.key = k /\ v.fingerprint = z.fingerprint
      BY <3>2, <3>3 DEF TrackFields
    <3>. QED BY <1>3, <2>2, <3>1, <3>3, <3>4 DEF Holds, Claims
  <2>. QED BY <2>1, <2>2
<1>. QED BY <1>2, <1>3

\* An indexed key claims its session for its owner.
LEMMA IndexClaims ==
    ASSUME NEW k \in DOMAIN index, NEW c, KeyOf(k, c)
    PROVE  Claims(index[k], c)
BY DEF Claims, IndexedFor

LEMMA ByKnownHeaderClaims ==
    ASSUME TypeInv, NEW r \in Requests, ByKnownHeader(r)
    PROVE  \E s, b : Identified(r, s, b) /\ Claimed(s, request[r].conv)
<1>1. PICK k : k = PrimaryKey(request[r].headers)
  OBVIOUS
<1>2. PICK s : s = index[k]
  OBVIOUS
<1>3. /\ request[r].pc = "identify" /\ HasKnown(request[r].headers) /\ k \in DOMAIN index /\ Identified(r, s, FALSE)
      /\ used' = used /\ index' = index /\ sessions' = sessions /\ rows' = rows
  BY <1>1, <1>2 DEF ByKnownHeader
<1>4. request[r].conv \in Convs /\ KeyOf(k, request[r].conv)
  BY <1>1, <1>3, HeadersKnown, RequestIs DEF Busy, KeyOf
<1>5. Claims(s, request[r].conv) /\ Meets(request[r].conv, request[r].conv)
  BY <1>2, <1>3, <1>4, IndexClaims, MeetsIs
<1>. QED BY <1>3, <1>4, <1>5, IdentifiedClaims

LEMMA ByOtherHeaderClaims ==
    ASSUME TypeInv, NEW r \in Requests, ByOtherHeader(r)
    PROVE  \E s, b : Identified(r, s, b) /\ Claimed(s, request[r].conv)
<1>1. PICK h : h = request[r].headers
  OBVIOUS
<1>2. PICK name : name = KnownHeaders[Min(Fallbacks(h))]
  OBVIOUS
<1>3. PICK s : s = index[Key(name, h[name])]
  OBVIOUS
<1>4. PICK k : k = PrimaryKey(h)
  OBVIOUS
<1>5. /\ request[r].pc = "identify" /\ HasKnown(h) /\ Fallbacks(h) # {}
      /\ index' = Put(index, k, s) /\ Refile(s, k) /\ Identified(r, s, FALSE) /\ used' = used
  BY <1>1, <1>2, <1>3, <1>4 DEF ByOtherHeader
<1>6. /\ request[r].conv \in Convs /\ h = HeadersOf(request[r].conv) /\ ClientsTyped
      /\ KeyOf(k, request[r].conv)
  BY <1>1, <1>4, <1>5, HeadersKnown, RequestIs DEF Busy, KeyOf, TypeInv
<1>7. name \in Names /\ h[name] # NoValue /\ Key(name, h[name]) \in DOMAIN index
  BY <1>2, <1>5, FallbackIndexed
<1>8. KeyOf(Key(name, h[name]), request[r].conv)
  BY <1>6, <1>7, OwnHeader DEF KeyOf
<1>9. Claims(s, request[r].conv) /\ Meets(request[r].conv, request[r].conv)
  BY <1>3, <1>6, <1>7, <1>8, IndexClaims, MeetsIs
<1>10. \A t : \A x \in Convs : IndexedFor(t, x)' => IndexedFor(t, x) \/ (t = s /\ KeyOf(k, x))
  BY <1>5, KeyClaims
<1>11. /\ \A t : \A x \in Convs : Holds(sessions, t, x)' => Claims(t, x) \/ (t = s /\ KeyOf(k, x))
       /\ \A t : \A x \in Convs : Holds(rows, t, x)' => Claims(t, x) \/ (t = s /\ KeyOf(k, x))
  BY <1>5, RefileClaims
<1>12. request[r].pc # "idle" /\ \E e \in Convs : Claims(s, e) /\ Meets(e, request[r].conv)
  BY <1>5, <1>6, <1>9
<1>13. Claimed(s, request[r].conv)
  BY <1>5, <1>6, <1>10, <1>11, <1>12, FiledClaims
<1>. QED BY <1>5, <1>13

LEMMA ByRotationClaims ==
    ASSUME TypeInv, NEW r \in Requests, ByRotation(r)
    PROVE  \E s, b : Identified(r, s, b) /\ Claimed(s, request[r].conv)
<1>1. PICK h : h = request[r].headers
  OBVIOUS
<1>2. PICK old : old = CHOOSE x \in Predecessors(h) : TRUE
  OBVIOUS
<1>3. PICK s : s = index[old]
  OBVIOUS
<1>4. PICK k : k = PrimaryKey(h)
  OBVIOUS
<1>5. /\ request[r].pc = "identify" /\ HasKnown(h) /\ Cardinality(Predecessors(h)) = 1
      /\ index' = Put([x \in DOMAIN index \ {old} |-> index[x]], k, s)
      /\ Refile(s, k) /\ Identified(r, s, FALSE) /\ used' = used
  BY <1>1, <1>2, <1>3, <1>4 DEF ByRotation, IsUnfiled
<1>6. old \in Predecessors(h)
  BY <1>2, <1>5, FS_EmptySet
<1>7. /\ request[r].conv \in Convs /\ IsKnown(k, request[r].conv) /\ KeyOf(k, request[r].conv)
  BY <1>1, <1>4, <1>5, HeadersKnown, RequestIs DEF Busy, KeyOf
<1>8. old \in DOMAIN index /\ old[1] = k[1] /\ k[1] \in Names /\ k[1] \in Carries(request[r].conv)
  BY <1>4, <1>6, <1>7, KeyNames DEF Predecessors, PrimaryKey, Key
<1>9. PICK e \in Convs : KeyOf(old, e)
  BY <1>8 DEF TypeInv, IndexTyped, Fileable
<1>10. old[1] \in Carries(e)
  BY <1>8, <1>9, KeyNames DEF KeyOf
<1>11. Claims(s, e) /\ Meets(e, request[r].conv)
  BY <1>3, <1>8, <1>9, <1>10, IndexClaims DEF Meets, MayShareHeader, Carries
<1>12. \A t : \A x \in Convs : IndexedFor(t, x)' => IndexedFor(t, x) \/ (t = s /\ KeyOf(k, x))
  <2>1. ASSUME NEW t, NEW x \in Convs, IndexedFor(t, x)' PROVE IndexedFor(t, x) \/ (t = s /\ KeyOf(k, x))
    <3>1. PICK j \in DOMAIN index' : index'[j] = t /\ KeyOf(j, x)'
      BY <2>1 DEF IndexedFor
    <3>2. KeyOf(j, x)
      BY <3>1 DEF KeyOf, IsKnown, IsLearned, ClientKey
    <3>3. CASE j = k
      BY <1>5, <3>1, <3>2, <3>3 DEF Put
    <3>4. CASE j # k
      <4>1. j \in DOMAIN index /\ index[j] = t
        BY <1>5, <3>1, <3>4 DEF Put
      <4>. QED BY <3>2, <4>1 DEF IndexedFor
    <3>. QED BY <3>3, <3>4
  <2>. QED BY <2>1
<1>13. Claimed(s, request[r].conv)
  BY <1>5, <1>7, <1>11, <1>12, RefileClaims, FiledClaims
<1>. QED BY <1>5, <1>13

LEMMA ByNewHeaderClaims ==
    ASSUME TypeInv, NEW r \in Requests, ByNewHeader(r)
    PROVE  \E s, b : Identified(r, s, b) /\ Claimed(s, request[r].conv)
<1>1. PICK k : k = PrimaryKey(request[r].headers)
  OBVIOUS
<1>2. PICK s : s = made.sids + 1
  OBVIOUS
<1>3. /\ request[r].pc = "identify" /\ HasKnown(request[r].headers)
      /\ index' = Put(index, k, s) /\ Identified(r, s, TRUE)
      /\ used' = used /\ sessions' = sessions /\ rows' = rows
  BY <1>1, <1>2 DEF ByNewHeader, IsUnfiled
<1>4. KeyOf(k, request[r].conv)
  BY <1>1, <1>3, HeadersKnown DEF KeyOf
<1>5. \A x \in Convs : ~Claims(s, x)
  BY <1>2, NewUnclaimed
<1>6. \A t : \A x \in Convs : IndexedFor(t, x)' => IndexedFor(t, x) \/ (t = s /\ KeyOf(k, x))
  BY <1>3, KeyClaims
<1>7. /\ \A t : \A x \in Convs : Holds(sessions, t, x)' => Claims(t, x) \/ (t = s /\ KeyOf(k, x))
      /\ \A t : \A x \in Convs : Holds(rows, t, x)' => Claims(t, x) \/ (t = s /\ KeyOf(k, x))
  BY <1>3, Unclaimed DEF Claims
<1>8. Claimed(s, request[r].conv)
  BY <1>3, <1>4, <1>5, <1>6, <1>7, FiledClaims
<1>. QED BY <1>3, <1>8

\* The request that a session has learned to recognise sends the id of one of its clients.
LEMMA LearnedMeets ==
    ASSUME TypeInv, NEW r \in Requests, request[r].pc # "idle", ~HasKnown(request[r].headers), NEW s \in LearnedBy(r)
    PROVE  \E e \in Convs : Claims(s, e) /\ Meets(e, request[r].conv)
<1>1. PICK k : k = sessions[s].key
  OBVIOUS
<1>2. PICK c : c = request[r].conv
  OBVIOUS
<1>3. s \in DOMAIN sessions /\ CarriesKey(r, k) /\ c \in Convs
  BY <1>1, <1>2, RequestIs DEF LearnedBy, Busy
<1>4. k[1] \notin Names
  <2>. SUFFICES ASSUME k[1] \in Names PROVE FALSE
    OBVIOUS
  <2>1. PICK i \in DOMAIN KnownHeaders : KnownHeaders[i] = k[1]
    BY DEF Names
  <2>2. request[r].headers[KnownHeaders[i]] # NoValue
    BY <1>3, <2>1 DEF CarriesKey
  <2>. QED BY <2>2 DEF HasKnown, Carried
<1>5. k # NoKey /\ k[2] # NoValue /\ ClientKey(c) = k
  BY <1>2, <1>3, <1>4 DEF CarriesKey
<1>6. PICK e \in Convs : KeyOf(k, e)
  BY <1>1, <1>3, <1>5, SessionsTyped DEF TrackTyped, Fileable
<1>7. IsLearned(k, e)
  BY <1>4, <1>6, KeyNames DEF KeyOf
<1>8. k = <<"x-client-id", <<ClientId[e], 1>>>> /\ ClientId[e] # NoId
  BY <1>7 DEF IsLearned, ClientKey, Key
<1>9. ClientId[c] # NoId
  BY <1>5 DEF ClientKey, Key
<1>10. k = <<"x-client-id", <<ClientId[c], 1>>>>
  BY <1>5, <1>9 DEF ClientKey, Key
<1>11. <<ClientId[c], 1>> = <<ClientId[e], 1>>
  BY <1>8, <1>10
<1>12. Meets(e, c)
  BY <1>9, <1>11 DEF Meets
<1>13. Claims(s, e)
  BY <1>1, <1>3, <1>6 DEF Claims, Holds
<1>. QED BY <1>2, <1>12, <1>13

LEMMA ByLearnedHeaderClaims ==
    ASSUME TypeInv, NEW r \in Requests, ByLearnedHeader(r)
    PROVE  \E s, b : Identified(r, s, b) /\ Claimed(s, request[r].conv)
<1>1. PICK s \in LearnedBy(r) : Identified(r, s, FALSE)
  BY DEF ByLearnedHeader
<1>2. /\ request[r].pc # "idle" /\ ~HasKnown(request[r].headers)
      /\ used' = used /\ index' = index /\ sessions' = sessions /\ rows' = rows
  BY DEF ByLearnedHeader
<1>3. \E e \in Convs : Claims(s, e) /\ Meets(e, request[r].conv)
  BY <1>2, LearnedMeets
<1>4. Claimed(s, request[r].conv)
  BY <1>1, <1>2, <1>3, IdentifiedClaims
<1>. QED BY <1>1, <1>4

LEMMA ByFingerprintClaims ==
    ASSUME TypeInv, NEW r \in Requests, ByFingerprint(r)
    PROVE  \E s, b : Identified(r, s, b) /\ Claimed(s, request[r].conv)
<1>1. PICK c : c = request[r].conv
  OBVIOUS
<1>2. PICK s \in Nearest(r) :
         /\ Identified(r, s, FALSE)
         /\ \/ UNCHANGED <<index, sessions, rows>>
            \/ /\ Promotes(s, c)
               /\ sessions' = [sessions EXCEPT ![s].candidate = Learned(s, c), ![s].key = ClientKey(c)]
               /\ index' = Put(index, ClientKey(c), s)
               /\ rows' = Put(rows, s, [Row(s) EXCEPT !.key = ClientKey(c)])
            \/ /\ sessions' = [sessions EXCEPT ![s].candidate = Learned(s, c)]
               /\ UNCHANGED <<index, rows>>
  BY <1>1 DEF ByFingerprint
<1>. SUFFICES Claimed(s, request[r].conv)
  BY <1>2
<1>3. request[r].pc = "match" /\ request[r].pc # "idle" /\ used' = used /\ c \in Convs
  BY <1>1, RequestIs DEF ByFingerprint, Busy
<1>4. s \in DOMAIN sessions /\ TrackTyped(sessions[s]) /\ sessions[s].fingerprint = FirstMessage[c]
  BY <1>1, SessionsTyped DEF Nearest, Near
<1>5. \E e \in Convs : Claims(s, e) /\ Meets(e, c)
  BY <1>3, <1>4, MeetsIs DEF Claims, Holds
<1>6. PICK z : z = sessions[s]
  OBVIOUS
<1>7. DOMAIN z = TrackFields
  BY <1>4, <1>6 DEF TrackTyped
<1>8. CASE UNCHANGED <<index, sessions, rows>>
  BY <1>1, <1>2, <1>3, <1>5, <1>8, IdentifiedClaims
<1>9. CASE sessions' = [sessions EXCEPT ![s].candidate = Learned(s, c)] /\ UNCHANGED <<index, rows>>
  <2>1. PICK v : v = [z EXCEPT !.candidate = Learned(s, c)]
    OBVIOUS
  <2>2. sessions' = [sessions EXCEPT ![s] = v] /\ v.key = z.key /\ v.fingerprint = z.fingerprint
    BY <1>4, <1>6, <1>7, <1>9, <2>1 DEF TrackFields
  <2>3. \A t : \A x \in Convs : Holds(sessions, t, x)' => Holds(sessions, t, x)
    BY <1>4, <1>6, <2>2 DEF Holds
  <2>4. \A t : \A x \in Convs : Serves(t, x)' => Serves(t, x) \/ (t = s /\ x = c)
    BY <1>1, <1>2, <1>3, IdentifiedServes
  <2>. QED BY <1>1, <1>3, <1>5, <1>9, <2>3, <2>4, MeetsIs, Unclaimed DEF Claimed, Claims
<1>10. CASE /\ Promotes(s, c)
            /\ sessions' = [sessions EXCEPT ![s].candidate = Learned(s, c), ![s].key = ClientKey(c)]
            /\ index' = Put(index, ClientKey(c), s)
            /\ rows' = Put(rows, s, [Row(s) EXCEPT !.key = ClientKey(c)])
  <2>1. PICK k : k = ClientKey(c)
    OBVIOUS
  <2>2. KeyOf(k, c)
    BY <1>1, <1>3, <1>10, <2>1, PromotesAnId, MatchLearns DEF KeyOf
  <2>3. PICK v : v = [z EXCEPT !.candidate = Learned(s, c), !.key = k]
    OBVIOUS
  <2>4. sessions' = [sessions EXCEPT ![s] = v] /\ v.key = k /\ v.fingerprint = z.fingerprint
    BY <1>4, <1>6, <1>7, <1>10, <2>1, <2>3 DEF TrackFields
  <2>5. \A t : \A x \in Convs : Holds(sessions, t, x)' => Claims(t, x) \/ (t = s /\ KeyOf(k, x))
    BY <1>4, <1>6, <2>4 DEF Holds, Claims
  <2>6. PICK x0 : x0 = Row(s)
    OBVIOUS
  <2>7. PICK y : y = [x0 EXCEPT !.key = k]
    OBVIOUS
  <2>8. y.key = k /\ y.fingerprint = x0.fingerprint /\ rows' = Put(rows, s, y)
    BY <1>10, <2>1, <2>6, <2>7, SessionsTyped DEF TrackTyped, TrackFields
  <2>9. \A t : \A x \in Convs : Holds(rows, t, x)' => Claims(t, x) \/ (t = s /\ KeyOf(k, x))
    <3>. SUFFICES ASSUME NEW t, NEW x \in Convs, Holds(rows, t, x)' PROVE Claims(t, x) \/ (t = s /\ KeyOf(k, x))
      OBVIOUS
    <3>0. Holds(Put(rows, s, y), t, x)
      BY <2>8 DEF Holds
    <3>1. Holds(rows, t, x) \/ (t = s /\ (KeyOf(y.key, x) \/ y.fingerprint = FirstMessage[x]))
      BY <3>0, KeyClaims
    <3>2. x0.fingerprint = FirstMessage[x] => Holds(rows, s, x)
      BY <2>6, ConvsAssumption DEF Row, Untracked, Holds
    <3>. QED BY <2>8, <3>1, <3>2 DEF Claims
  <2>10. \A t : \A x \in Convs : IndexedFor(t, x)' => IndexedFor(t, x) \/ (t = s /\ KeyOf(k, x))
    BY <1>10, <2>1, KeyClaims
  <2>11. KeyOf(k, request[r].conv) /\ \E e \in Convs : Claims(s, e) /\ Meets(e, request[r].conv)
    BY <1>1, <1>5, <2>2
  <2>. QED BY <1>2, <1>3, <2>5, <2>9, <2>10, <2>11, FiledClaims
<1>. QED BY <1>2, <1>8, <1>9, <1>10

LEMMA ByNewFingerprintClaims ==
    ASSUME TypeInv, NEW r \in Requests, ByNewFingerprint(r)
    PROVE  \E s, b : Identified(r, s, b) /\ Claimed(s, request[r].conv)
<1>1. PICK s : s = made.sids + 1
  OBVIOUS
<1>2. /\ request[r].pc # "idle" /\ Identified(r, s, TRUE)
      /\ used' = used /\ index' = index /\ sessions' = sessions /\ rows' = rows
  BY <1>1 DEF ByNewFingerprint
<1>3. \A x \in Convs : ~Claims(s, x)
  BY <1>1, NewUnclaimed
<1>4. Claimed(s, request[r].conv)
  BY <1>2, <1>3, IdentifiedClaims
<1>. QED BY <1>2, <1>4

\* A request that goes on, or ends, serves no other session.
LEMMA ServesOn ==
    ASSUME TypeInv, NEW r \in Requests, request[r].pc = "attach" \/ request[r].pc = "seed", NEW q,
           q = Idle \/ q = [request[r] EXCEPT !.pc = "seed"], request' = [request EXCEPT ![r] = q]
    PROVE  /\ \A t : \A x \in Convs : Serves(t, x)' => Serves(t, x)
           /\ Serves(request[r].sid, request[r].conv) /\ request[r].conv \in Convs
<1>1. Busy(request[r]) /\ DOMAIN request[r] = RequestFields
  BY RequestIs
<1>2. Idle.pc = "idle"
  BY DEF Idle
<1>3. q.pc = "idle" \/ (q.sid = request[r].sid /\ q.conv = request[r].conv)
  BY <1>1, <1>2 DEF RequestFields
<1>4. request' = [t \in Requests |-> IF t = r THEN q ELSE request[t]]
  BY DEF TypeInv
<1>5. \A t : \A x \in Convs : Serves(t, x)' => Serves(t, x)
  BY <1>3, <1>4 DEF Serves
<1>6. Serves(request[r].sid, request[r].conv) /\ request[r].conv \in Convs
  BY <1>1 DEF Serves, Busy
<1>. QED BY <1>5, <1>6

LEMMA AttachClaims ==
    ASSUME TypeInv, NEW r \in Requests, Attach(r)
    PROVE  Claimed(request[r].sid, request[r].conv)
<1>1. PICK s : s = request[r].sid
  OBVIOUS
<1>2. PICK c : c = request[r].conv
  OBVIOUS
<1>3. /\ request[r].pc = "attach" /\ index' = Reindexed(s)
      /\ used' = [used EXCEPT ![c] = @ \cup {<<made.periods, s>>}]
      /\ request' = [request EXCEPT ![r] = IF request[r].isNew THEN [request[r] EXCEPT !.pc = "seed"] ELSE Idle]
  BY <1>1, <1>2, AttachIs
<1>4. PICK v : Kept(Loaded(s), v) /\ sessions' = Put(sessions, s, v)
  BY <1>1, AttachIs
<1>5. rows' = rows \/ \E y : Kept(Row(s), y) /\ rows' = Put(rows, s, y)
  BY <1>1, AttachIs
<1>6. (\A t : \A x \in Convs : Serves(t, x)' => Serves(t, x)) /\ Serves(s, c) /\ c \in Convs
  <2>1. PICK q : q = IF request[r].isNew THEN [request[r] EXCEPT !.pc = "seed"] ELSE Idle
    OBVIOUS
  <2>2. q = Idle \/ q = [request[r] EXCEPT !.pc = "seed"]
    BY <2>1
  <2>. QED BY <1>1, <1>2, <1>3, <2>1, <2>2, ServesOn
<1>7. \A x \in Convs : (KeyOf(Row(s).key, x) \/ Row(s).fingerprint = FirstMessage[x]) => Holds(rows, s, x)
  BY KeyNames, ConvsAssumption DEF Row, Untracked, Holds, KeyOf
<1>8. \A x \in Convs : (KeyOf(Loaded(s).key, x) \/ Loaded(s).fingerprint = FirstMessage[x]) => Claims(s, x)
  <2>1. CASE s \in DOMAIN sessions
    BY <2>1 DEF Loaded, Claims, Holds
  <2>2. CASE s \notin DOMAIN sessions
    <3>1. PICK x0 : x0 = Row(s)
      OBVIOUS
    <3>2. Loaded(s) = [x0 EXCEPT !.candidate = NoValue] /\ DOMAIN x0 = TrackFields
      BY <2>2, <3>1, SessionsTyped DEF Loaded, TrackTyped
    <3>3. Loaded(s).key = x0.key /\ Loaded(s).fingerprint = x0.fingerprint
      BY <3>2 DEF TrackFields
    <3>. QED BY <1>7, <3>1, <3>3 DEF Claims
  <2>. QED BY <2>1, <2>2
<1>9. \A t : \A x \in Convs : Holds(sessions, t, x)' => Claims(t, x)
  <2>. SUFFICES ASSUME NEW t, NEW x \in Convs, Holds(sessions, t, x)' PROVE Claims(t, x)
    OBVIOUS
  <2>1. Holds(sessions, t, x) \/ (t = s /\ (KeyOf(v.key, x) \/ v.fingerprint = FirstMessage[x]))
    BY <1>4, KeyClaims
  <2>. QED BY <1>4, <1>8, <2>1 DEF Kept, Claims
<1>10. \A t : \A x \in Convs : Holds(rows, t, x)' => Claims(t, x)
  <2>. SUFFICES ASSUME NEW t, NEW x \in Convs, Holds(rows, t, x)' PROVE Claims(t, x)
    OBVIOUS
  <2>1. CASE rows' = rows
    BY <2>1, Unclaimed DEF Claims
  <2>2. ASSUME NEW y, Kept(Row(s), y), rows' = Put(rows, s, y) PROVE Claims(t, x)
    <3>0. Holds(Put(rows, s, y), t, x)
      BY <2>2 DEF Holds
    <3>1. Holds(rows, t, x) \/ (t = s /\ (KeyOf(y.key, x) \/ y.fingerprint = FirstMessage[x]))
      BY <3>0, KeyClaims
    <3>. QED BY <1>7, <2>2, <3>1 DEF Kept, Claims
  <2>. QED BY <1>5, <2>1, <2>2
<1>11. \A t : \A x \in Convs : IndexedFor(t, x)' => Claims(t, x)
  <2>1. CASE index' = index
    BY <2>1, Unclaimed DEF Claims
  <2>2. CASE index' = Put(index, Row(s).key, s)
    <3>1. \A t : \A x \in Convs : IndexedFor(t, x)' => IndexedFor(t, x) \/ (t = s /\ KeyOf(Row(s).key, x))
      BY <2>2, KeyClaims
    <3>. QED BY <1>7, <3>1 DEF Claims
  <2>. QED BY <1>3, <2>1, <2>2, ReindexedIs
<1>12. \A t : \A x \in Convs : UsedBy(t, x)' => UsedBy(t, x) \/ (t = s /\ x = c)
  <2>1. used' = [x \in Convs |-> IF x = c THEN used[x] \cup {<<made.periods, s>>} ELSE used[x]]
    BY <1>3 DEF TypeInv
  <2>. QED BY <2>1 DEF UsedBy
<1>13. Claimed(s, c)
  <2>1. Claims(s, c) /\ Meets(c, c)
    BY <1>6, MeetsIs DEF Claims
  <2>2. ASSUME NEW t, NEW x \in Convs, Claims(t, x)' PROVE Claims(t, x) \/ (t = s /\ Meets(c, x))
    BY <1>6, <1>9, <1>10, <1>11, <1>12, <2>1, <2>2 DEF Claims
  <2>. QED BY <1>6, <2>1, <2>2 DEF Claimed
<1>. QED BY <1>1, <1>2, <1>13

LEMMA SeedClaims ==
    ASSUME TypeInv, NEW r \in Requests, Seed(r)
    PROVE  Claimed(request[r].sid, request[r].conv)
<1>1. PICK s : s = request[r].sid
  OBVIOUS
<1>2. PICK c : c = request[r].conv
  OBVIOUS
<1>3. /\ request[r].pc = "seed" /\ index' = index /\ used' = used
      /\ request' = [request EXCEPT ![r] = Idle] /\ s \in DOMAIN sessions
  BY <1>1, SeedIs
<1>4. PICK v : v.key = sessions[s].key /\ v.fingerprint = FirstMessage[c] /\ sessions' = [sessions EXCEPT ![s] = v]
  BY <1>1, <1>2, SeedIs
<1>5. PICK y : y.key = Row(s).key /\ y.fingerprint = FirstMessage[c] /\ rows' = Put(rows, s, y)
  BY <1>1, <1>2, SeedIs
<1>6. (\A t : \A x \in Convs : Serves(t, x)' => Serves(t, x)) /\ Serves(s, c) /\ c \in Convs
  BY <1>1, <1>2, <1>3, ServesOn
<1>7. \A x \in Convs : KeyOf(Row(s).key, x) => Holds(rows, s, x)
  BY KeyNames DEF Row, Untracked, Holds, KeyOf
<1>8. \A t : \A x \in Convs : Holds(sessions, t, x)' => Holds(sessions, t, x) \/ (t = s /\ FirstMessage[c] = FirstMessage[x])
  BY <1>3, <1>4 DEF Holds
<1>9. \A t : \A x \in Convs : Holds(rows, t, x)' => Holds(rows, t, x) \/ (t = s /\ FirstMessage[c] = FirstMessage[x])
  <2>. SUFFICES ASSUME NEW t, NEW x \in Convs, Holds(rows, t, x)'
                PROVE  Holds(rows, t, x) \/ (t = s /\ FirstMessage[c] = FirstMessage[x])
    OBVIOUS
  <2>0. Holds(Put(rows, s, y), t, x)
    BY <1>5 DEF Holds
  <2>1. Holds(rows, t, x) \/ (t = s /\ (KeyOf(y.key, x) \/ y.fingerprint = FirstMessage[x]))
    BY <2>0, KeyClaims
  <2>. QED BY <1>5, <1>7, <2>1
<1>10. Claimed(s, c)
  <2>1. Claims(s, c) /\ Meets(c, c)
    BY <1>6, MeetsIs DEF Claims
  <2>2. ASSUME NEW t, NEW x \in Convs, Claims(t, x)' PROVE Claims(t, x) \/ (t = s /\ Meets(c, x))
    <3>1. \/ Claims(t, x)
          \/ t = s /\ FirstMessage[c] = FirstMessage[x]
      BY <1>3, <1>6, <1>8, <1>9, <2>2, Unclaimed DEF Claims
    <3>. QED BY <3>1 DEF Meets
  <2>. QED BY <1>6, <2>1, <2>2 DEF Claimed
<1>. QED BY <1>1, <1>2, <1>10

\* The first request of a process restores what the table has.
LEMMA ArrivesClaims ==
    ASSUME TypeInv, NEW r \in Requests, NEW c \in Convs, Arrives(r, c)
    PROVE  NoNewClaims
<1>1. /\ used' = used /\ sessions' = sessions /\ rows' = rows
      /\ index' = IF initialized THEN index ELSE Merged(StoredIndex, index)
  BY DEF Arrives
<1>2. \A t : \A x \in Convs : Serves(t, x)' => Serves(t, x)
  <2>1. PICK q : q = [Idle EXCEPT !.pc = "identify", !.conv = c, !.headers = HeadersOf(c),
                                  !.parent = ParentValue(c), !.count = client[c].sent + 1]
    OBVIOUS
  <2>2. q.pc = "identify"
    BY <2>1 DEF Idle
  <2>3. request' = [t \in Requests |-> IF t = r THEN q ELSE request[t]]
    BY <2>1 DEF Arrives, TypeInv
  <2>. QED BY <2>2, <2>3 DEF Serves
<1>3. \A t : \A x \in Convs : IndexedFor(t, x)' => Claims(t, x)
  <2>. SUFFICES ASSUME NEW t, NEW x \in Convs, IndexedFor(t, x)' PROVE Claims(t, x)
    OBVIOUS
  <2>1. PICK j \in DOMAIN index' : index'[j] = t /\ KeyOf(j, x)'
    BY DEF IndexedFor
  <2>2. KeyOf(j, x)
    BY <2>1 DEF KeyOf, IsKnown, IsLearned, ClientKey
  <2>3. CASE j \in DOMAIN index /\ index[j] = t
    BY <2>2, <2>3 DEF IndexedFor, Claims
  <2>4. CASE j \in DOMAIN StoredIndex /\ StoredIndex[j] = t
    <3>1. PICK u \in DOMAIN rows : rows[u].key # NoKey /\ rows[u].key = j
      BY <2>4 DEF StoredIndex
    <3>2. StoredIndex[j] = CHOOSE v \in {y \in DOMAIN rows : rows[y].key # NoKey} : rows[v].key = j
      BY <2>4 DEF StoredIndex
    <3>3. t \in DOMAIN rows /\ rows[t].key = j
      BY <2>4, <3>1, <3>2
    <3>. QED BY <2>2, <3>3 DEF Claims, Holds
  <2>5. PICK f : f = StoredIndex
    OBVIOUS
  <2>6. index' = index \/ index' = Merged(f, index)
    BY <1>1, <2>5
  <2>7. CASE index' = index
    BY <2>1, <2>3, <2>7
  <2>8. CASE index' = Merged(f, index)
    <3>1. (j \in DOMAIN f /\ f[j] = t) \/ (j \in DOMAIN index /\ index[j] = t)
      BY <2>1, <2>8 DEF Merged
    <3>. QED BY <2>3, <2>4, <2>5, <3>1
  <2>. QED BY <2>6, <2>7, <2>8
<1>. QED BY <1>1, <1>2, <1>3, Unclaimed DEF NoNewClaims, Claims

LEMMA StepClaims ==
    ASSUME TypeInv, [Next]_vars
    PROVE  NoNewClaims \/ \E s : \E c \in Convs : Claimed(s, c)
<1>1. ASSUME NEW r \in Requests, NEW c \in Convs, Arrives(r, c) PROVE NoNewClaims
  BY <1>1, ArrivesClaims
<1>2. ASSUME NEW r \in Requests,
             ByKnownHeader(r) \/ ByOtherHeader(r) \/ ByRotation(r) \/ ByNewHeader(r)
      PROVE  request[r].conv \in Convs /\ \E s : Claimed(s, request[r].conv)
  <2>1. request[r].conv \in Convs
    BY <1>2, RequestIs DEF Busy, ByKnownHeader, ByOtherHeader, ByRotation, ByNewHeader, IsUnfiled
  <2>. QED BY <1>2, <2>1, ByKnownHeaderClaims, ByOtherHeaderClaims, ByRotationClaims, ByNewHeaderClaims
<1>3. ASSUME NEW r \in Requests, ByLearnedHeader(r) \/ ByFingerprint(r) \/ ByNewFingerprint(r)
      PROVE  request[r].conv \in Convs /\ \E s : Claimed(s, request[r].conv)
  <2>1. request[r].conv \in Convs
    BY <1>3, RequestIs DEF Busy, ByLearnedHeader, ByFingerprint, ByNewFingerprint
  <2>. QED BY <1>3, <2>1, ByLearnedHeaderClaims, ByFingerprintClaims, ByNewFingerprintClaims
<1>4. ASSUME NEW r \in Requests, Attach(r) \/ Seed(r)
      PROVE  request[r].conv \in Convs /\ \E s : Claimed(s, request[r].conv)
  <2>1. request[r].conv \in Convs
    BY <1>4, RequestIs DEF Busy, Attach, Seed
  <2>. QED BY <1>4, <2>1, AttachClaims, SeedClaims
<1>5. ASSUME NEW r \in Requests, FingerprintStarts(r) PROVE NoNewClaims
  <2>1. PICK q : q = [request[r] EXCEPT !.pc = "match"]
    OBVIOUS
  <2>2. request[r].pc = "identify" /\ request' = [request EXCEPT ![r] = q]
        /\ used' = used /\ index' = index /\ sessions' = sessions /\ rows' = rows
    BY <1>5, <2>1 DEF FingerprintStarts
  <2>3. q.pc = "match"
    BY <2>1, <2>2, RequestIs DEF RequestFields
  <2>4. request' = [t \in Requests |-> IF t = r THEN q ELSE request[t]]
    BY <2>2 DEF TypeInv
  <2>5. \A t : \A x \in Convs : Serves(t, x)' => Serves(t, x)
    BY <2>3, <2>4 DEF Serves
  <2>. QED BY <2>2, <2>5, Unclaimed DEF NoNewClaims, Claims
<1>6. ASSUME used' = used, request' = request, index' = index, sessions' = sessions, rows' = rows
      PROVE  NoNewClaims
  BY <1>6, Unclaimed DEF NoNewClaims, Claims
<1>7. ASSUME NEW c \in Convs, ClientRestarts(c) \/ ClientUpgraded(c) PROVE NoNewClaims
  BY <1>6, <1>7 DEF ClientRestarts, ClientUpgraded
<1>8. CASE DayPasses
  BY <1>6, <1>8 DEF DayPasses
<1>9. CASE Restart
  <2>1. /\ used' = used /\ rows' = rows /\ index' = [k \in {} |-> 0] /\ sessions' = [s \in {} |-> Untracked]
        /\ request' = [r \in Requests |-> Idle]
    BY <1>9 DEF Restart
  <2>2. \A t : \A x \in Convs : ~Serves(t, x)' /\ ~IndexedFor(t, x)' /\ ~Holds(sessions, t, x)'
    BY <2>1 DEF Serves, IndexedFor, Holds, Idle
  <2>. QED BY <2>1, <2>2, Unclaimed DEF NoNewClaims, Claims
<1>10. CASE UNCHANGED vars
  BY <1>6, <1>10 DEF vars
<1>. QED BY <1>1, <1>2, <1>3, <1>4, <1>5, <1>7, <1>8, <1>9, <1>10 DEF Next

LEMMA StepApart ==
    ASSUME TypeInv, ApartInv, [Next]_vars
    PROVE  ApartInv'
BY StepClaims, ClaimedApart, NoNewClaimsApart

LEMMA InitApart ==
    ASSUME Init
    PROVE  ApartInv
<1>1. \A s : \A c \in Convs : ~Claims(s, c)
  BY DEF Init, Claims, UsedBy, Serves, IndexedFor, Holds, Idle
<1>. QED BY <1>1 DEF ApartInv

\* A group of conversations that meets none outside it has its sessions for itself.
THEOREM SessionsApart == Spec => []Apart
<1>1. Init => TypeInv /\ ApartInv
  BY InitTyped, InitApart
<1>2. TypeInv /\ ApartInv /\ [Next]_vars => TypeInv' /\ ApartInv'
  BY StepTyped, StepApart
<1>3. ApartInv => Apart
  <2>. SUFFICES ASSUME ApartInv, NEW G \in SUBSET Convs, Closed(G), NEW c \in G, NEW d \in Convs,
                       {u[2] : u \in used[c]} \cap {u[2] : u \in used[d]} # {}
                PROVE  d \in G
    BY DEF Apart
  <2>1. PICK s : UsedBy(s, c) /\ UsedBy(s, d)
    BY DEF UsedBy
  <2>2. Claims(s, c) /\ Claims(s, d)
    BY <2>1 DEF Claims
  <2>. QED BY <2>2 DEF ApartInv
<1>. QED BY <1>1, <1>2, <1>3, PTL DEF Spec

-----------------------------------------------------------------------------
(* A conversation that is alone has one session at a time.                 *)

\* At most one change of a client between two requests.
OneChange == MaxChanges \in {0, 1}

\* The key a request of the conversation comes with.
Pn(c) == Primary(HeadersOf(c))
Pk(c) == PrimaryKey(HeadersOf(c))

\* A key of the conversation is filed for the session, in the index or in the table.
Filed(k, s) == (k \in DOMAIN index /\ index[k] = s) \/ (s \in DOMAIN rows /\ rows[s].key = k)
Has(c, k, s) == IsKnown(k, c) /\ Filed(k, s)

\* What is filed for it: no key the client has not sent yet; while it leads
\* with a header it always sent, keys of that header only, one a session, of
\* which one is live; and the others are stale once the current one is filed.
KeysSent(c) == \A k, s : Has(c, k, s) => k[2][2] <= client[c].gen[k[1]]
KeysPrimary(c) == \A k, s : Has(c, k, s) /\ Pn(c) \in Sends[c] => k[1] = Pn(c)
KeysDistinct(c) == \A k, j, s : Has(c, k, s) /\ Has(c, j, s) /\ Pn(c) \in Sends[c] => k = j
OneLive(c) ==
    \A k, j, s, t : Has(c, k, s) /\ Has(c, j, t) /\ Pn(c) \in Sends[c] /\ s \notin stale /\ t \notin stale => k = j
OthersStale(c) ==
    \A k, s, t : Has(c, Pk(c), s) /\ Has(c, k, t) /\ Pn(c) \in Sends[c] /\ k # Pk(c) => t \in stale
UpgradedOnce(c) ==
    /\ (\E n \in Adds[c] \ Sends[c] : client[c].gen[n] # 0) => \A n \in Adds[c] : client[c].gen[n] # 0
    /\ \A n \in Names \ Sends[c] : client[c].gen[n] <= 1

KeyInv(c) ==
    KeysSent(c) /\ KeysPrimary(c) /\ KeysDistinct(c) /\ OneLive(c) /\ OthersStale(c) /\ UpgradedOnce(c)

\* Its sessions are no sub-agent's, and in memory while they are in use.
Unmarked(c) ==
    \A s : Claims(s, c) =>
        (s \in DOMAIN sessions => ~sessions[s].isSubagent) /\ (s \in DOMAIN rows => ~rows[s].isSubagent)
Parentless(c) == \A r \in Requests : request[r].conv = c => request[r].parent = NoValue
InUse(c) == \A s \in SessionsOf(c, made.periods) : s \in DOMAIN sessions /\ s \notin stale
Reaches(c) ==
    \A k \in DOMAIN index : IsKnown(k, c) =>
        \/ index[k] \in DOMAIN sessions \cup DOMAIN rows
        \/ \E r \in Requests : request[r].pc = "attach" /\ request[r].conv = c /\ request[r].sid = index[k]

\* The session its next request is led to: by its key, by another header, or by
\* the one predecessor.
LedByKey(c, s) == Pk(c) \in DOMAIN index /\ index[Pk(c)] = s
OtherName(h) == KnownHeaders[Min(Fallbacks(h))]
LedByOther(c, s) ==
    /\ Pk(c) \notin DOMAIN index /\ Fallbacks(HeadersOf(c)) # {}
    /\ index[Key(OtherName(HeadersOf(c)), HeadersOf(c)[OtherName(HeadersOf(c))])] = s
LedByRotation(c, s) ==
    /\ Pk(c) \notin DOMAIN index /\ Fallbacks(HeadersOf(c)) = {}
    /\ \E k : Predecessors(HeadersOf(c)) = {k} /\ index[k] = s
Led(c, s) == LedByKey(c, s) \/ LedByOther(c, s) \/ LedByRotation(c, s)

\* Its requests past identification, and the sessions it has in this period.
Past(r, c) == request[r].pc \in {"attach", "seed"} /\ request[r].conv = c
Present(c, s) == s \in SessionsOf(c, made.periods) \/ \E r \in Requests : Past(r, c) /\ request[r].sid = s

AllLed(c) == \A s : Present(c, s) => Led(c, s)
PastLed(c) == \A r \in Requests : Past(r, c) => LedByKey(c, request[r].sid)
Settled(c) ==
    \A s : /\ Present(c, s) /\ client[c].changes = 0
           /\ \A r \in Requests : request[r].conv = c => request[r].pc # "identify"
           => Pk(c) \in DOMAIN index

UseInv(c) ==
    Unmarked(c) /\ Parentless(c) /\ InUse(c) /\ Reaches(c) /\ AllLed(c) /\ PastLed(c) /\ Settled(c)

AloneInv == \A c \in Convs : Alone(c) => KeyInv(c) /\ UseInv(c)

-----------------------------------------------------------------------------
(* Keys of a conversation that is alone.                                   *)

LEMMA AloneIs ==
    ASSUME NEW c \in Convs, Alone(c)
    PROVE  /\ Sends[c] # {} /\ ParentOf[c] = NoConv
           /\ \A d \in Convs : Meets(c, d) \/ Meets(d, c) => d = c
BY MeetsIs DEF Alone

\* A key of one of its headers is its own.
LEMMA OwnKey ==
    ASSUME NEW c \in Convs, Alone(c), NEW k, Fileable(k), k[1] \in Carries(c)
    PROVE  IsKnown(k, c)
<1>1. PICK e \in Convs : KeyOf(k, e)
  BY DEF Fileable
<1>2. k[1] \in Names
  BY ConvsAssumption DEF Carries
<1>3. IsKnown(k, e) /\ k[1] \in Carries(e)
  BY <1>1, <1>2, KeyNames DEF KeyOf
<1>4. Meets(c, e)
  BY <1>3 DEF Meets, MayShareHeader, Carries
<1>. QED BY <1>3, <1>4, AloneIs

\* The key its requests come with.
LEMMA PkIs ==
    ASSUME TypeInv, NEW c \in Convs, Alone(c)
    PROVE  /\ HasKnown(HeadersOf(c)) /\ Pn(c) \in Names /\ Pn(c) \in Carries(c)
           /\ client[c].gen[Pn(c)] \in Nat \ {0} /\ Pk(c) = Key(Pn(c), <<c, client[c].gen[Pn(c)]>>)
           /\ IsKnown(Pk(c), c) /\ HeadersOf(c)[Pn(c)] = <<c, client[c].gen[Pn(c)]>>
<1>1. ClientsTyped /\ HasKnown(HeadersOf(c))
  BY AloneIs, SendsKnown DEF TypeInv
<1>2. Pn(c) \in Names /\ HeadersOf(c)[Pn(c)] # NoValue
  BY <1>1, PrimaryCarried DEF Pn
<1>3. Pk(c) = Key(Pn(c), HeadersOf(c)[Pn(c)])
  BY DEF Pk, Pn, PrimaryKey
<1>. QED BY <1>1, <1>2, <1>3, OwnHeader

LEMMA KnownIs ==
    ASSUME NEW c, NEW k, IsKnown(k, c)
    PROVE  /\ k[1] \in Carries(c) /\ k[2][1] = c /\ k[2][2] \in Nat \ {0} /\ k = Key(k[1], <<c, k[2][2]>>)
BY DEF IsKnown, Key

\* A key is filed for one session.
LEMMA FiledOnce ==
    ASSUME LeadInv, NEW c \in Convs, NEW k, NEW s, NEW t, Has(c, k, s), Has(c, k, t)
    PROVE  s = t
<1>1. k[1] \in Names /\ k # NoKey
  BY KeyNames DEF Has
<1>2. CASE initialized
  <2>1. \A u : Filed(k, u) => k \in DOMAIN index /\ index[k] = u
    BY <1>1, <1>2 DEF LeadInv, Leads, Filed
  <2>. QED BY <2>1 DEF Has
<1>3. CASE ~initialized
  <2>1. \A u : Filed(k, u) => u \in DOMAIN rows /\ rows[u].key = k
    BY <1>3 DEF LeadInv, Filed
  <2>. QED BY <1>1, <2>1 DEF Has, LeadInv, OneRow
<1>. QED BY <1>2, <1>3

\* While the gateway runs what is filed is indexed.
LEMMA FiledIndexed ==
    ASSUME LeadInv, initialized, NEW c \in Convs, NEW k, NEW s, Has(c, k, s)
    PROVE  k \in DOMAIN index /\ index[k] = s
<1>1. k[1] \in Names /\ k # NoKey
  BY KeyNames DEF Has
<1>. QED BY <1>1 DEF LeadInv, Leads, Has, Filed

LEMMA HasClaims ==
    ASSUME NEW c, NEW k, NEW s, Has(c, k, s)
    PROVE  Claims(s, c)
BY DEF Has, Filed, Claims, IndexedFor, Holds, KeyOf

\* Others have no part in its sessions.
LEMMA Foreign ==
    ASSUME ApartInv, NEW c \in Convs, Alone(c), NEW d \in Convs, d # c, NEW s
    PROVE  /\ ~(Claims(s, c) /\ Claims(s, d))
           /\ Claimed(s, d) => ~Claims(s, c)
<1>1. Closed({c})
  BY AloneIs DEF Closed
<1>2. \A e \in Convs : Claims(s, c) /\ Claims(s, e) => e = c
  <2>1. {c} \in SUBSET Convs
    OBVIOUS
  <2>. QED BY <1>1, <2>1 DEF ApartInv
<1>3. ASSUME Claimed(s, d), Claims(s, c) PROVE FALSE
  <2>1. PICK e \in Convs : Claims(s, e) /\ Meets(e, d)
    BY <1>3 DEF Claimed
  <2>2. e = c
    BY <1>2, <1>3, <2>1
  <2>. QED BY <2>1, <2>2, AloneIs
<1>. QED BY <1>2, <1>3

\* A request is led to one session.
LEMMA LedOnce ==
    ASSUME NEW c, NEW s, NEW t, Led(c, s), Led(c, t)
    PROVE  s = t
<1>1. ASSUME LedByRotation(c, s), LedByRotation(c, t) PROVE s = t
  BY <1>1 DEF LedByRotation
<1>2. ASSUME LedByOther(c, s), LedByOther(c, t) PROVE s = t
  BY <1>2 DEF LedByOther
<1>3. ASSUME LedByKey(c, s) PROVE LedByKey(c, t) /\ s = t
  BY <1>3 DEF LedByKey, LedByOther, LedByRotation, Led
<1>4. ASSUME LedByKey(c, t) PROVE LedByKey(c, s) /\ s = t
  BY <1>4 DEF LedByKey, LedByOther, LedByRotation, Led
<1>5. ~(LedByOther(c, s) /\ LedByRotation(c, t)) /\ ~(LedByOther(c, t) /\ LedByRotation(c, s))
  BY DEF LedByOther, LedByRotation
<1>. QED BY <1>1, <1>2, <1>3, <1>4, <1>5 DEF Led

\* The keys a rotation of its header is looked for among.
LEMMA PredecessorsIs ==
    ASSUME TypeInv, NEW c \in Convs, Alone(c), NEW k \in Predecessors(HeadersOf(c))
    PROVE  k \in DOMAIN index /\ k[1] = Pn(c) /\ IsKnown(k, c) /\ Has(c, k, index[k]) /\ MayRotate(index[k])
<1>1. k \in DOMAIN index /\ k[1] = Pn(c) /\ MayRotate(index[k])
  BY DEF Predecessors, Pn
<1>2. Fileable(k) /\ Pn(c) \in Carries(c)
  BY <1>1, PkIs DEF TypeInv, IndexTyped
<1>3. IsKnown(k, c)
  BY <1>1, <1>2, OwnKey
<1>. QED BY <1>1, <1>3 DEF Has, Filed

LEMMA FallbacksIs ==
    ASSUME TypeInv, NEW c \in Convs, Alone(c), Fallbacks(HeadersOf(c)) # {}
    PROVE  LET name == OtherName(HeadersOf(c))
               k    == Key(name, HeadersOf(c)[name])
           IN  /\ name \in Names /\ name # Pn(c) /\ k \in DOMAIN index /\ IsKnown(k, c) /\ Has(c, k, index[k])
               /\ client[c].gen[name] \in Nat \ {0} /\ HeadersOf(c)[name] = <<c, client[c].gen[name]>>
<1>1. PICK name : name = OtherName(HeadersOf(c))
  OBVIOUS
<1>2. /\ name \in Names /\ HeadersOf(c)[name] # NoValue /\ name # Pn(c)
      /\ Key(name, HeadersOf(c)[name]) \in DOMAIN index
  BY <1>1, FallbackIndexed DEF OtherName, Pn
<1>3. /\ IsKnown(Key(name, HeadersOf(c)[name]), c) /\ client[c].gen[name] \in Nat \ {0}
      /\ HeadersOf(c)[name] = <<c, client[c].gen[name]>>
  BY <1>2, OwnHeader DEF TypeInv
<1>. QED BY <1>1, <1>2, <1>3 DEF Has, Filed

-----------------------------------------------------------------------------
(* Steps that leave the conversation alone.                                *)

SameKeys(c) ==
    /\ \A k : IsKnown(k, c) =>
           /\ k \in DOMAIN index' <=> k \in DOMAIN index
           /\ k \in DOMAIN index => index'[k] = index[k]
    /\ \A k, s : IsKnown(k, c) =>
           (s \in DOMAIN rows' /\ rows'[s].key = k <=> s \in DOMAIN rows /\ rows[s].key = k)
SameSessions(c) ==
    /\ \A s : Claims(s, c)' => Claims(s, c)
    /\ \A s : Claims(s, c) =>
           /\ s \in stale' <=> s \in stale
           /\ s \in DOMAIN sessions' <=> s \in DOMAIN sessions
           /\ s \in DOMAIN rows' <=> s \in DOMAIN rows
           /\ s \in DOMAIN sessions => sessions'[s] = sessions[s]
           /\ s \in DOMAIN rows => rows'[s] = rows[s]
SameRequests(c) ==
    /\ \A t \in Requests : request'[t].conv = c \/ request[t].conv = c => request'[t] = request[t]
    /\ client'[c] = client[c] /\ used'[c] = used[c] /\ made'.periods = made.periods
Same(c) == SameKeys(c) /\ SameSessions(c) /\ SameRequests(c)

LEMMA SameHas ==
    ASSUME NEW c, SameKeys(c)
    PROVE  \A k, s : Has(c, k, s)' <=> Has(c, k, s)
<1>. SUFFICES ASSUME NEW k, NEW s, IsKnown(k, c) PROVE Filed(k, s)' <=> Filed(k, s)
  BY DEF Has, IsKnown, Carries
<1>1. (k \in DOMAIN index' /\ index'[k] = s) <=> (k \in DOMAIN index /\ index[k] = s)
  BY DEF SameKeys
<1>2. (s \in DOMAIN rows' /\ rows'[s].key = k) <=> (s \in DOMAIN rows /\ rows[s].key = k)
  BY DEF SameKeys
<1>. QED BY <1>1, <1>2 DEF Filed

LEMMA SameHeaders ==
    ASSUME NEW c, client'[c].gen = client[c].gen
    PROVE  HeadersOf(c)' = HeadersOf(c) /\ Pn(c)' = Pn(c) /\ Pk(c)' = Pk(c)
<1>1. HeadersOf(c)' = HeadersOf(c)
  BY DEF HeadersOf
<1>2. Carried(HeadersOf(c))' = Carried(HeadersOf(c))
  BY <1>1 DEF Carried
<1>3. Pn(c)' = Pn(c)
  BY <1>2 DEF Pn, Primary
<1>. QED BY <1>1, <1>3 DEF Pk, Pn, PrimaryKey

\* Nothing is filed anew, and nothing comes to life.
LEMMA KeptKeyInv ==
    ASSUME NEW c, KeyInv(c), client'[c].gen = client[c].gen,
           \A k, s : Has(c, k, s)' => Has(c, k, s) /\ (s \in stale => s \in stale')
    PROVE  KeyInv(c)'
<1>1. Pn(c)' = Pn(c) /\ Pk(c)' = Pk(c)
  BY SameHeaders
<1>2. KeysSent(c)'
  BY DEF KeyInv, KeysSent
<1>3. KeysPrimary(c)'
  BY <1>1 DEF KeyInv, KeysPrimary
<1>4. KeysDistinct(c)'
  BY <1>1 DEF KeyInv, KeysDistinct
<1>5. OneLive(c)'
  BY <1>1 DEF KeyInv, OneLive
<1>6. OthersStale(c)'
  BY <1>1 DEF KeyInv, OthersStale
<1>7. UpgradedOnce(c)'
  BY DEF KeyInv, UpgradedOnce
<1>. QED BY <1>2, <1>3, <1>4, <1>5, <1>6, <1>7 DEF KeyInv

LEMMA SameKeyInv ==
    ASSUME NEW c, KeyInv(c), SameKeys(c), client'[c].gen = client[c].gen,
           \A s : Claims(s, c) => (s \in stale' <=> s \in stale)
    PROVE  KeyInv(c)'
<1>1. \A k, s : Has(c, k, s)' => Has(c, k, s)
  BY SameHas
<1>2. \A k, s : Has(c, k, s) => (s \in stale' <=> s \in stale)
  BY HasClaims
<1>. QED BY <1>1, <1>2, KeptKeyInv

\* What leads its next request.
LEMMA SameFallbacks ==
    ASSUME TypeInv, NEW c \in Convs, Alone(c), SameKeys(c), client'[c].gen = client[c].gen
    PROVE  Fallbacks(HeadersOf(c))' = Fallbacks(HeadersOf(c))
<1>1. PICK h : h = HeadersOf(c)
  OBVIOUS
<1>2. HeadersOf(c)' = h /\ Pn(c)' = Pn(c) /\ Carried(HeadersOf(c))' = Carried(h)
  BY <1>1, SameHeaders DEF Carried
<1>3. \A i \in Carried(h) : IsKnown(Key(KnownHeaders[i], h[KnownHeaders[i]]), c)
  BY <1>1, OwnHeader DEF Carried, TypeInv, Names
<1>4. \A i \in Carried(h) : Key(KnownHeaders[i], h[KnownHeaders[i]]) \in DOMAIN index'
                            <=> Key(KnownHeaders[i], h[KnownHeaders[i]]) \in DOMAIN index
  BY <1>3 DEF SameKeys
<1>5. Fallbacks(h) = {i \in Carried(h) : KnownHeaders[i] # Pn(c)
                                         /\ Key(KnownHeaders[i], h[KnownHeaders[i]]) \in DOMAIN index}
  BY <1>1 DEF Fallbacks, Pn
<1>6. Fallbacks(HeadersOf(c))' = {i \in Carried(h) : KnownHeaders[i] # Pn(c)
                                         /\ Key(KnownHeaders[i], h[KnownHeaders[i]]) \in DOMAIN index'}
  BY <1>2 DEF Fallbacks, Pn
<1>. QED BY <1>1, <1>4, <1>5, <1>6

LEMMA SamePredecessors ==
    ASSUME TypeInv, TypeInv', NEW c \in Convs, Alone(c), SameKeys(c), SameSessions(c), client'[c].gen = client[c].gen
    PROVE  Predecessors(HeadersOf(c))' = Predecessors(HeadersOf(c))
<1>1. Pn(c)' = Pn(c)
  BY SameHeaders
<1>2. Predecessors(HeadersOf(c)) = {k \in DOMAIN index : k[1] = Pn(c) /\ MayRotate(index[k])}
  BY DEF Predecessors, Pn
<1>3. Predecessors(HeadersOf(c))' = {k \in DOMAIN index' : k[1] = Pn(c) /\ MayRotate(index[k])'}
  BY <1>1 DEF Predecessors, Pn
<1>4. ASSUME NEW k, k[1] = Pn(c)
      PROVE  (k \in DOMAIN index' /\ MayRotate(index[k])') <=> (k \in DOMAIN index /\ MayRotate(index[k]))
  <2>1. Pn(c) \in Carries(c)
    BY PkIs
  <2>2. k \in DOMAIN index => IsKnown(k, c)
    BY <1>4, <2>1, OwnKey DEF TypeInv, IndexTyped
  <2>3. k \in DOMAIN index' => IsKnown(k, c)
    <3>1. k \in DOMAIN index' => Fileable(k)'
      BY DEF TypeInv, IndexTyped
    <3>2. Fileable(k)' => Fileable(k)
      BY DEF Fileable, KeyOf, IsKnown, IsLearned, ClientKey
    <3>. QED BY <1>4, <2>1, <3>1, <3>2, OwnKey
  <2>4. CASE ~IsKnown(k, c)
    BY <2>2, <2>3, <2>4
  <2>5. CASE IsKnown(k, c)
    <3>1. (k \in DOMAIN index' <=> k \in DOMAIN index) /\ (k \in DOMAIN index => index'[k] = index[k])
      BY <2>5 DEF SameKeys
    <3>2. ASSUME k \in DOMAIN index PROVE MayRotate(index[k])' <=> MayRotate(index[k])
      <4>1. PICK s : s = index[k]
        OBVIOUS
      <4>2. Claims(s, c) /\ index'[k] = s
        BY <2>5, <3>1, <3>2, <4>1, IndexClaims DEF KeyOf
      <4>3. MayRotate(s)' <=> MayRotate(s)
        BY <4>2 DEF SameSessions, MayRotate
      <4>4. MayRotate(index[k])' <=> MayRotate(s)'
        BY <4>2 DEF MayRotate
      <4>. QED BY <4>1, <4>3, <4>4
    <3>. QED BY <3>1, <3>2
  <2>. QED BY <2>4, <2>5
<1>. QED BY <1>2, <1>3, <1>4

LEMMA SameLed ==
    ASSUME TypeInv, TypeInv', NEW c \in Convs, Alone(c), SameKeys(c), SameSessions(c), client'[c].gen = client[c].gen
    PROVE  \A s : (LedByKey(c, s)' <=> LedByKey(c, s)) /\ (Led(c, s) => Led(c, s)')
<1>1. PICK h : h = HeadersOf(c)
  OBVIOUS
<1>2. HeadersOf(c)' = h /\ Pk(c)' = Pk(c) /\ Fallbacks(HeadersOf(c))' = Fallbacks(h)
      /\ Predecessors(HeadersOf(c))' = Predecessors(h)
  BY <1>1, SameHeaders, SameFallbacks, SamePredecessors
<1>3. (Pk(c) \in DOMAIN index' <=> Pk(c) \in DOMAIN index) /\ (Pk(c) \in DOMAIN index => index'[Pk(c)] = index[Pk(c)])
  BY PkIs DEF SameKeys
<1>4. ASSUME NEW s PROVE LedByKey(c, s)' <=> LedByKey(c, s)
  BY <1>2, <1>3 DEF LedByKey
<1>5. ASSUME NEW s, LedByOther(c, s) PROVE LedByOther(c, s)'
  <2>1. Fallbacks(h) # {}
    BY <1>1, <1>5 DEF LedByOther
  <2>2. PICK name : name = OtherName(h)
    OBVIOUS
  <2>3. OtherName(HeadersOf(c))' = name
    BY <1>2, <2>2 DEF OtherName
  <2>4. Key(name, h[name]) \in DOMAIN index /\ IsKnown(Key(name, h[name]), c)
    BY <1>1, <2>1, <2>2, FallbacksIs
  <2>5. index'[Key(name, h[name])] = index[Key(name, h[name])]
    BY <2>4 DEF SameKeys
  <2>. QED BY <1>1, <1>2, <1>3, <1>5, <2>1, <2>2, <2>3, <2>5 DEF LedByOther
<1>6. ASSUME NEW s, LedByRotation(c, s) PROVE LedByRotation(c, s)'
  <2>1. PICK k : Predecessors(h) = {k} /\ index[k] = s
    BY <1>1, <1>6 DEF LedByRotation
  <2>2. k \in DOMAIN index /\ IsKnown(k, c)
    BY <1>1, <2>1, PredecessorsIs
  <2>3. index'[k] = s
    BY <2>1, <2>2 DEF SameKeys
  <2>. QED BY <1>1, <1>2, <1>3, <1>6, <2>1, <2>3 DEF LedByRotation
<1>. QED BY <1>4, <1>5, <1>6 DEF Led

LEMMA SamePresent ==
    ASSUME NEW c, SameRequests(c)
    PROVE  /\ \A r \in Requests : (Past(r, c)' <=> Past(r, c)) /\ (Past(r, c) => request'[r] = request[r])
           /\ \A s : Present(c, s)' <=> Present(c, s)
<1>1. \A r \in Requests : (Past(r, c)' <=> Past(r, c)) /\ (Past(r, c) => request'[r] = request[r])
  BY DEF SameRequests, Past
<1>2. SessionsOf(c, made.periods)' = SessionsOf(c, made.periods)
  BY DEF SameRequests, SessionsOf
<1>. QED BY <1>1, <1>2 DEF Present

\* What is in use has been used, and claims its sessions.
LEMMA PresentClaims ==
    ASSUME NEW c, NEW s, Present(c, s)
    PROVE  Claims(s, c)
BY DEF Present, SessionsOf, Past, Claims, UsedBy, Serves

LEMMA SameKeeps ==
    ASSUME TypeInv, TypeInv', NEW c \in Convs, Alone(c), KeyInv(c), UseInv(c), Same(c)
    PROVE  KeyInv(c)' /\ UseInv(c)'
<1>1. SameKeys(c) /\ SameSessions(c) /\ SameRequests(c) /\ client'[c].gen = client[c].gen
  BY DEF Same, SameRequests
<1>2. KeyInv(c)'
  BY <1>1, SameKeyInv DEF SameSessions
<1>3. Unmarked(c)'
  BY <1>1 DEF UseInv, Unmarked, SameSessions
<1>4. Parentless(c)'
  BY <1>1 DEF UseInv, Parentless, SameRequests
<1>5. SessionsOf(c, made.periods)' = SessionsOf(c, made.periods)
  BY <1>1 DEF SameRequests, SessionsOf
<1>6. InUse(c)'
  <2>1. \A s \in SessionsOf(c, made.periods) : Claims(s, c)
    BY PresentClaims DEF Present
  <2>. QED BY <1>1, <1>5, <2>1 DEF UseInv, InUse, SameSessions
<1>7. Reaches(c)'
  <2>. SUFFICES ASSUME NEW k \in DOMAIN index', IsKnown(k, c)
                PROVE  \/ index'[k] \in DOMAIN sessions' \cup DOMAIN rows'
                       \/ \E r \in Requests : request'[r].pc = "attach" /\ request'[r].conv = c /\ request'[r].sid = index'[k]
    BY DEF Reaches, IsKnown, Carries
  <2>1. k \in DOMAIN index /\ index'[k] = index[k]
    BY <1>1 DEF SameKeys
  <2>2. PICK s : s = index[k]
    OBVIOUS
  <2>3. Claims(s, c)
    BY <2>1, <2>2, IndexClaims DEF KeyOf
  <2>4. s \in DOMAIN sessions' \cup DOMAIN rows' <=> s \in DOMAIN sessions \cup DOMAIN rows
    BY <1>1, <2>3 DEF SameSessions
  <2>5. \A r \in Requests : request[r].conv = c => request'[r] = request[r]
    BY <1>1 DEF SameRequests
  <2>. QED BY <2>1, <2>2, <2>4, <2>5 DEF UseInv, Reaches
<1>8. AllLed(c)' /\ PastLed(c)'
  <2>1. \A s : (LedByKey(c, s)' <=> LedByKey(c, s)) /\ (Led(c, s) => Led(c, s)')
    BY <1>1, SameLed
  <2>2. AllLed(c)'
    BY <1>1, <2>1, SamePresent DEF UseInv, AllLed
  <2>3. ASSUME NEW r \in Requests, Past(r, c)' PROVE LedByKey(c, request[r].sid)'
    <3>1. Past(r, c) /\ request'[r] = request[r]
      BY <1>1, <2>3, SamePresent
    <3>2. PICK s : s = request[r].sid
      OBVIOUS
    <3>3. LedByKey(c, s)'
      BY <2>1, <3>1, <3>2 DEF UseInv, PastLed
    <3>. QED BY <3>1, <3>2, <3>3 DEF LedByKey
  <2>. QED BY <2>2, <2>3 DEF PastLed
<1>9. Settled(c)'
  <2>1. \A r \in Requests : request[r].conv = c => request'[r] = request[r]
    BY <1>1 DEF SameRequests
  <2>2. Pk(c)' = Pk(c) /\ (Pk(c) \in DOMAIN index' <=> Pk(c) \in DOMAIN index)
    BY <1>1, SameHeaders, PkIs DEF SameKeys
  <2>3. client'[c] = client[c]
    BY <1>1 DEF SameRequests
  <2>. QED BY <1>1, <2>1, <2>2, <2>3, SamePresent DEF UseInv, Settled
<1>. QED BY <1>2, <1>3, <1>4, <1>6, <1>7, <1>8, <1>9 DEF UseInv

-----------------------------------------------------------------------------
(* The requests of others.                                                 *)

\* Two maps that differ at most in one place.
Beside(f, g, s) == \A t : t # s => (t \in DOMAIN g <=> t \in DOMAIN f) /\ (t \in DOMAIN f => g[t] = f[t])

SameIndex(c) ==
    \A k : IsKnown(k, c) =>
        /\ k \in DOMAIN index' <=> k \in DOMAIN index
        /\ k \in DOMAIN index => index'[k] = index[k]

LEMMA BesideIs ==
    /\ \A f, s : Beside(f, f, s)
    /\ \A f, s, x : Beside(f, Put(f, s, x), s)
    /\ \A f, s, x : Beside(f, [f EXCEPT ![s] = x], s)
BY DEF Beside, Put

LEMMA ForeignStep ==
    ASSUME TypeInv, ApartInv, NEW c \in Convs, Alone(c), NEW r \in Requests, NEW d \in Convs, d # c,
           request[r].conv = d, NEW s, Claimed(s, d),
           NEW q, q.conv # c, request' = [request EXCEPT ![r] = q],
           client'[c] = client[c], used'[c] = used[c], made'.periods = made.periods,
           SameIndex(c), Beside(sessions, sessions', s), Beside(rows, rows', s),
           \A t : t # s => (t \in stale' <=> t \in stale)
    PROVE  Same(c)
<1>1. ~Claims(s, c)
  BY Foreign
<1>2. \A t : Claims(t, c)' => Claims(t, c)
  BY AloneIs DEF Claimed
<1>3. SameSessions(c)
  <2>1. \A t : Claims(t, c) => t # s
    BY <1>1
  <2>. QED BY <1>2, <2>1 DEF SameSessions, Beside
<1>4. SameRequests(c)
  <2>1. request' = [t \in Requests |-> IF t = r THEN q ELSE request[t]]
    BY DEF TypeInv
  <2>. QED BY <2>1 DEF SameRequests
<1>5. SameKeys(c)
  <2>1. ASSUME NEW k, NEW t, IsKnown(k, c)
        PROVE  t \in DOMAIN rows' /\ rows'[t].key = k <=> t \in DOMAIN rows /\ rows[t].key = k
    <3>1. CASE t # s
      BY <3>1 DEF Beside
    <3>2. CASE t = s
      <4>1. ~(t \in DOMAIN rows /\ rows[t].key = k)
        BY <1>1, <2>1, <3>2 DEF Claims, Holds, KeyOf
      <4>2. ~Claims(s, c)'
        BY <1>1, <1>2
      <4>3. ~Holds(rows, s, c)'
        BY <4>2 DEF Claims
      <4>4. ~(s \in DOMAIN rows' /\ rows'[s].key = k)
        <5>1. KeyOf(k, c)'
          BY <2>1 DEF KeyOf, IsKnown, Carries
        <5>. QED BY <4>3, <5>1 DEF Holds
      <4>. QED BY <3>2, <4>1, <4>4
    <3>. QED BY <3>1, <3>2
  <2>. QED BY <2>1 DEF SameKeys, SameIndex
<1>. QED BY <1>3, <1>4, <1>5 DEF Same

\* The index, after a key of another conversation was set or dropped.
LEMMA ForeignKey ==
    ASSUME NEW c, NEW k, ~IsKnown(k, c), NEW s
    PROVE  /\ index' = index => SameIndex(c)
           /\ index' = Put(index, k, s) => SameIndex(c)
           /\ \A j : ~IsKnown(j, c) /\ index' = Put([x \in DOMAIN index \ {j} |-> index[x]], k, s) => SameIndex(c)
BY DEF SameIndex, Put

LEMMA ForeignIdentified ==
    ASSUME TypeInv, ApartInv, NEW c \in Convs, Alone(c), NEW r \in Requests, request[r].pc # "idle",
           request[r].conv # c, NEW s, NEW b, Identified(r, s, b), Claimed(s, request[r].conv),
           client' = client, used' = used, made'.periods = made.periods, stale' = stale,
           SameIndex(c), Beside(sessions, sessions', s), Beside(rows, rows', s)
    PROVE  Same(c)
<1>1. PICK d : d = request[r].conv
  OBVIOUS
<1>2. PICK q : q = [request[r] EXCEPT !.pc = "attach", !.sid = s, !.isNew = b]
  OBVIOUS
<1>3. d \in Convs /\ d # c /\ q.conv = d
  BY <1>1, <1>2, RequestIs DEF Busy, RequestFields
<1>4. request' = [request EXCEPT ![r] = q]
  BY <1>2 DEF Identified
<1>5. Claimed(s, d) /\ request[r].conv = d /\ q.conv # c
  BY <1>1, <1>3
<1>6. client'[c] = client[c] /\ used'[c] = used[c] /\ \A t : t # s => (t \in stale' <=> t \in stale)
  OBVIOUS
<1>. QED BY <1>3, <1>4, <1>5, <1>6, ForeignStep

\* A step names the session it identifies.
LEMMA IdentifiedOne ==
    ASSUME TypeInv, NEW r \in Requests, request[r].pc # "idle", NEW s, NEW t, NEW a, NEW b,
           Identified(r, s, a), Identified(r, t, b)
    PROVE  s = t
<1>1. PICK p : p = [request[r] EXCEPT !.pc = "attach", !.sid = s, !.isNew = a]
  OBVIOUS
<1>2. PICK q : q = [request[r] EXCEPT !.pc = "attach", !.sid = t, !.isNew = b]
  OBVIOUS
<1>3. p.sid = s /\ q.sid = t
  BY <1>1, <1>2, RequestIs DEF RequestFields
<1>4. request' = [x \in Requests |-> IF x = r THEN p ELSE request[x]]
  BY <1>1 DEF Identified, TypeInv
<1>5. request' = [x \in Requests |-> IF x = r THEN q ELSE request[x]]
  BY <1>2 DEF Identified, TypeInv
<1>. QED BY <1>3, <1>4, <1>5

\* A known key of one conversation is none of another's.
LEMMA ForeignOwner ==
    ASSUME TypeInv, NEW c \in Convs, NEW r \in Requests, request[r].pc # "idle", request[r].conv # c
    PROVE  /\ HasKnown(request[r].headers) => ~IsKnown(PrimaryKey(request[r].headers), c)
           /\ ClientId[request[r].conv] # NoId => ~IsKnown(ClientKey(request[r].conv), c)
<1>1. HasKnown(request[r].headers) => ~IsKnown(PrimaryKey(request[r].headers), c)
  BY HeadersKnown, OneOwner
<1>2. ASSUME ClientId[request[r].conv] # NoId PROVE ~IsKnown(ClientKey(request[r].conv), c)
  <2>1. ClientKey(request[r].conv)[1] = "x-client-id"
    BY DEF ClientKey, Key
  <2>. QED BY <2>1, KeyNames, HeadersAssumption
<1>. QED BY <1>1, <1>2

LEMMA ForeignBy ==
    ASSUME TypeInv, ApartInv, NEW c \in Convs, Alone(c), NEW r \in Requests, request[r].pc # "idle",
           request[r].conv # c, NEW s, NEW b, Identified(r, s, b),
           \E t, a : Identified(r, t, a) /\ Claimed(t, request[r].conv),
           client' = client, used' = used, made'.periods = made.periods, stale' = stale,
           SameIndex(c), Beside(sessions, sessions', s), Beside(rows, rows', s)
    PROVE  Same(c)
<1>1. PICK t, a : Identified(r, t, a) /\ Claimed(t, request[r].conv)
  OBVIOUS
<1>2. t = s
  BY <1>1, IdentifiedOne
<1>3. Claimed(s, request[r].conv)
  BY <1>1, <1>2
<1>. QED BY <1>3, ForeignIdentified

LEMMA OtherKnownHeader ==
    ASSUME TypeInv, ApartInv, NEW c \in Convs, Alone(c), NEW r \in Requests, request[r].conv # c,
           ByKnownHeader(r) \/ ByLearnedHeader(r)
    PROVE  Same(c)
<1>1. \E s, b : Identified(r, s, b) /\ Claimed(s, request[r].conv)
  BY ByKnownHeaderClaims, ByLearnedHeaderClaims
<1>2. PICK s, b : Identified(r, s, b)
  BY <1>1
<1>3. /\ request[r].pc # "idle" /\ client' = client /\ used' = used /\ made' = made /\ stale' = stale
      /\ index' = index /\ sessions' = sessions /\ rows' = rows
  BY DEF ByKnownHeader, ByLearnedHeader
<1>4. SameIndex(c) /\ Beside(sessions, sessions', s) /\ Beside(rows, rows', s) /\ made'.periods = made.periods
  BY <1>3, BesideIs DEF SameIndex
<1>. QED BY <1>1, <1>2, <1>3, <1>4, ForeignBy

LEMMA RefileBeside ==
    ASSUME NEW s, NEW k, Refile(s, k)
    PROVE  Beside(sessions, sessions', s) /\ Beside(rows, rows', s)
BY DEF Refile, Beside, Put

LEMMA OtherOtherHeader ==
    ASSUME TypeInv, ApartInv, NEW c \in Convs, Alone(c), NEW r \in Requests, request[r].conv # c, ByOtherHeader(r)
    PROVE  Same(c)
<1>1. PICK h : h = request[r].headers
  OBVIOUS
<1>2. PICK s : s = index[Key(KnownHeaders[Min(Fallbacks(h))], h[KnownHeaders[Min(Fallbacks(h))]])]
  OBVIOUS
<1>3. /\ request[r].pc # "idle" /\ HasKnown(h)
      /\ index' = Put(index, PrimaryKey(h), s) /\ Refile(s, PrimaryKey(h)) /\ Identified(r, s, FALSE)
      /\ client' = client /\ used' = used /\ made' = made /\ stale' = stale
  BY <1>1, <1>2 DEF ByOtherHeader
<1>4. SameIndex(c)
  BY <1>1, <1>3, ForeignOwner, ForeignKey
<1>5. Beside(sessions, sessions', s) /\ Beside(rows, rows', s) /\ made'.periods = made.periods
  BY <1>3, RefileBeside
<1>. QED BY <1>3, <1>4, <1>5, ByOtherHeaderClaims, ForeignBy

\* What a step by rotation finds.
LEMMA RotationIs ==
    ASSUME TypeInv, NEW r \in Requests, ByRotation(r), NEW h, h = request[r].headers
    PROVE  \E k : /\ k \in Predecessors(h) /\ request[r].pc = "identify" /\ HasKnown(h) /\ IsUnfiled(r)
                  /\ index' = Put([x \in DOMAIN index \ {k} |-> index[x]], PrimaryKey(h), index[k])
                  /\ Refile(index[k], PrimaryKey(h)) /\ Identified(r, index[k], FALSE)
                  /\ UNCHANGED <<client, initialized, values, stale, used, made>>
<1>1. PICK k : k = CHOOSE x \in Predecessors(h) : TRUE
  OBVIOUS
<1>2. /\ IsUnfiled(r) /\ Cardinality(Predecessors(h)) = 1
      /\ index' = Put([x \in DOMAIN index \ {k} |-> index[x]], PrimaryKey(h), index[k])
      /\ Refile(index[k], PrimaryKey(h)) /\ Identified(r, index[k], FALSE)
      /\ UNCHANGED <<client, initialized, values, stale, used, made>>
  BY <1>1 DEF ByRotation
<1>3. k \in Predecessors(h)
  BY <1>1, <1>2, FS_EmptySet
<1>. QED BY <1>2, <1>3 DEF IsUnfiled

LEMMA OtherRotation ==
    ASSUME TypeInv, ApartInv, NEW c \in Convs, Alone(c), NEW r \in Requests, request[r].conv # c, ByRotation(r)
    PROVE  Same(c)
<1>1. PICK h : h = request[r].headers
  OBVIOUS
<1>2. PICK old \in Predecessors(h) :
         /\ request[r].pc = "identify" /\ HasKnown(h) /\ IsUnfiled(r)
         /\ index' = Put([x \in DOMAIN index \ {old} |-> index[x]], PrimaryKey(h), index[old])
         /\ Refile(index[old], PrimaryKey(h)) /\ Identified(r, index[old], FALSE)
         /\ UNCHANGED <<client, initialized, values, stale, used, made>>
  BY <1>1, RotationIs
<1>3. PICK s : s = index[old]
  OBVIOUS
<1>4. request[r].conv \in Convs /\ IsKnown(PrimaryKey(h), request[r].conv)
  BY <1>1, <1>2, HeadersKnown, RequestIs DEF Busy
<1>5. ~IsKnown(old, c)
  <2>1. old[1] = PrimaryKey(h)[1]
    BY <1>2 DEF Predecessors, PrimaryKey, Key
  <2>2. old[1] \in Carries(request[r].conv)
    BY <1>4, <2>1, KeyNames
  <2>3. IsKnown(old, c) => Meets(c, request[r].conv)
    BY <2>2, KeyNames DEF Meets, MayShareHeader, Carries
  <2>. QED BY <1>4, <2>3, AloneIs
<1>6. SameIndex(c)
  BY <1>1, <1>2, <1>3, <1>5, ForeignOwner, ForeignKey
<1>7. Refile(s, PrimaryKey(h)) /\ Identified(r, s, FALSE)
  BY <1>2, <1>3
<1>8. Beside(sessions, sessions', s) /\ Beside(rows, rows', s) /\ made'.periods = made.periods
  BY <1>2, <1>7, RefileBeside
<1>. QED BY <1>2, <1>6, <1>7, <1>8, ByRotationClaims, ForeignBy

LEMMA OtherNewSession ==
    ASSUME TypeInv, ApartInv, NEW c \in Convs, Alone(c), NEW r \in Requests, request[r].conv # c,
           ByNewHeader(r) \/ ByNewFingerprint(r)
    PROVE  Same(c)
<1>1. PICK s : s = made.sids + 1
  OBVIOUS
<1>2. /\ request[r].pc # "idle" /\ Identified(r, s, TRUE)
      /\ client' = client /\ used' = used /\ stale' = stale /\ sessions' = sessions /\ rows' = rows
      /\ made' = [made EXCEPT !.sids = @ + 1]
  BY <1>1 DEF ByNewHeader, ByNewFingerprint, IsUnfiled
<1>3. SameIndex(c)
  <2>1. CASE ByNewFingerprint(r)
    BY <2>1 DEF SameIndex, ByNewFingerprint
  <2>2. CASE ByNewHeader(r)
    <3>1. HasKnown(request[r].headers) /\ index' = Put(index, PrimaryKey(request[r].headers), s)
      BY <1>1, <2>2 DEF ByNewHeader, IsUnfiled
    <3>. QED BY <1>2, <3>1, ForeignOwner, ForeignKey
  <2>. QED BY <2>1, <2>2
<1>4. Beside(sessions, sessions', s) /\ Beside(rows, rows', s) /\ made'.periods = made.periods
  BY <1>2, BesideIs, NewSession
<1>5. \E t, a : Identified(r, t, a) /\ Claimed(t, request[r].conv)
  BY ByNewHeaderClaims, ByNewFingerprintClaims
<1>. QED BY <1>2, <1>3, <1>4, <1>5, ForeignBy

LEMMA OtherFingerprint ==
    ASSUME TypeInv, ApartInv, NEW c \in Convs, Alone(c), NEW r \in Requests, request[r].conv # c, ByFingerprint(r)
    PROVE  Same(c)
<1>1. PICK s \in Nearest(r) :
         /\ Identified(r, s, FALSE)
         /\ \/ UNCHANGED <<index, sessions, rows>>
            \/ /\ Promotes(s, request[r].conv)
               /\ sessions' = [sessions EXCEPT ![s].candidate = Learned(s, request[r].conv),
                                               ![s].key = ClientKey(request[r].conv)]
               /\ index' = Put(index, ClientKey(request[r].conv), s)
               /\ rows' = Put(rows, s, [Row(s) EXCEPT !.key = ClientKey(request[r].conv)])
            \/ /\ sessions' = [sessions EXCEPT ![s].candidate = Learned(s, request[r].conv)]
               /\ UNCHANGED <<index, rows>>
  BY DEF ByFingerprint
<1>2. /\ request[r].pc # "idle" /\ client' = client /\ used' = used /\ made' = made /\ stale' = stale
  BY DEF ByFingerprint
<1>3. SameIndex(c)
  BY <1>1, <1>2, PromotesAnId, ForeignOwner, ForeignKey DEF SameIndex
<1>4. Beside(sessions, sessions', s) /\ Beside(rows, rows', s) /\ made'.periods = made.periods
  BY <1>1, <1>2 DEF Beside, Put
<1>. QED BY <1>1, <1>2, <1>3, <1>4, ByFingerprintClaims, ForeignBy

LEMMA OtherFingerprintStarts ==
    ASSUME TypeInv, NEW c, NEW r \in Requests, request[r].conv # c, FingerprintStarts(r)
    PROVE  Same(c)
<1>1. PICK q : q = [request[r] EXCEPT !.pc = "match"]
  OBVIOUS
<1>2. /\ request' = [t \in Requests |-> IF t = r THEN q ELSE request[t]] /\ q.pc = "match" /\ q.conv # c
  BY <1>1, RequestIs DEF FingerprintStarts, TypeInv, RequestFields
<1>3. /\ client' = client /\ used' = used /\ made' = made /\ stale' = stale
      /\ index' = index /\ sessions' = sessions /\ rows' = rows
  BY DEF FingerprintStarts
<1>4. \A t : Serves(t, c)' => Serves(t, c)
  BY <1>2 DEF Serves
<1>5. \A t : Claims(t, c)' => Claims(t, c)
  <2>1. \A t : UsedBy(t, c)' => UsedBy(t, c)
    BY <1>3 DEF UsedBy
  <2>2. \A k : KeyOf(k, c)' <=> KeyOf(k, c)
    BY DEF KeyOf, IsKnown, IsLearned, ClientKey, Carries
  <2>3. \A t : IndexedFor(t, c)' => IndexedFor(t, c)
    BY <1>3, <2>2 DEF IndexedFor
  <2>4. \A t : (Holds(sessions, t, c)' => Holds(sessions, t, c)) /\ (Holds(rows, t, c)' => Holds(rows, t, c))
    BY <1>3, <2>2 DEF Holds
  <2>. QED BY <1>4, <2>1, <2>3, <2>4 DEF Claims
<1>6. SameKeys(c) /\ SameSessions(c)
  BY <1>3, <1>5 DEF SameKeys, SameSessions
<1>7. SameRequests(c)
  BY <1>2, <1>3 DEF SameRequests
<1>. QED BY <1>6, <1>7 DEF Same

LEMMA OtherAttach ==
    ASSUME TypeInv, ApartInv, NEW c \in Convs, Alone(c), NEW r \in Requests, request[r].conv # c, Attach(r)
    PROVE  Same(c)
<1>1. PICK s, d : s = request[r].sid /\ d = request[r].conv
  OBVIOUS
<1>2. PICK q : q = IF request[r].isNew THEN [request[r] EXCEPT !.pc = "seed"] ELSE Idle
  OBVIOUS
<1>3. /\ request[r].pc # "idle" /\ request' = [request EXCEPT ![r] = q]
      /\ index' = Reindexed(s) /\ stale' = stale \ {s}
      /\ used' = [used EXCEPT ![d] = @ \cup {<<made.periods, s>>}]
      /\ client' = client /\ made' = made
  BY <1>1, <1>2, AttachIs
<1>4. d \in Convs /\ d # c /\ Claimed(s, d)
  BY <1>1, <1>3, AttachClaims, RequestIs DEF Busy
<1>5. q.conv # c
  BY <1>1, <1>2, <1>3, <1>4, RequestIs, ConvsAssumption DEF RequestFields, Idle
<1>6. ~Claims(s, c)
  BY <1>4, Foreign
<1>7. SameIndex(c)
  <2>1. CASE Reindexed(s) = index
    BY <1>3, <2>1 DEF SameIndex
  <2>2. CASE s \in DOMAIN rows /\ Reindexed(s) = Put(index, Row(s).key, s)
    <3>1. ~IsKnown(Row(s).key, c)
      BY <1>6, <2>2 DEF Claims, Holds, KeyOf, Row
    <3>. QED BY <1>3, <2>2, <3>1, ForeignKey
  <2>. QED BY <2>1, <2>2, ReindexedIs
<1>8. Beside(sessions, sessions', s) /\ Beside(rows, rows', s)
  <2>1. \E x : sessions' = Put(sessions, s, x)
    BY <1>1, AttachIs
  <2>2. rows' = rows \/ \E y : rows' = Put(rows, s, y)
    BY <1>1, AttachIs
  <2>. QED BY <2>1, <2>2, BesideIs
<1>9. used'[c] = used[c] /\ \A t : t # s => (t \in stale' <=> t \in stale)
  BY <1>3, <1>4
<1>10. client'[c] = client[c] /\ made'.periods = made.periods /\ request[r].conv = d
  BY <1>1, <1>3
<1>. QED BY <1>3, <1>4, <1>5, <1>7, <1>8, <1>9, <1>10, ForeignStep

LEMMA OtherSeed ==
    ASSUME TypeInv, ApartInv, NEW c \in Convs, Alone(c), NEW r \in Requests, request[r].conv # c, Seed(r)
    PROVE  Same(c)
<1>1. PICK s, d : s = request[r].sid /\ d = request[r].conv
  OBVIOUS
<1>2. /\ request[r].pc # "idle" /\ request' = [request EXCEPT ![r] = Idle]
      /\ index' = index /\ stale' = stale /\ used' = used /\ client' = client /\ made' = made
  BY SeedIs
<1>3. d \in Convs /\ d # c /\ Claimed(s, d)
  BY <1>1, <1>2, SeedClaims, RequestIs DEF Busy
<1>4. Idle.conv # c /\ SameIndex(c)
  BY <1>2, ConvsAssumption DEF Idle, SameIndex
<1>5. Beside(sessions, sessions', s) /\ Beside(rows, rows', s)
  <2>1. \E x : sessions' = [sessions EXCEPT ![s] = x]
    BY <1>1, SeedIs
  <2>2. \E y : rows' = Put(rows, s, y)
    BY <1>1, SeedIs
  <2>3. Beside(sessions, sessions', s)
    BY <2>1 DEF Beside
  <2>4. Beside(rows, rows', s)
    BY <2>2, BesideIs
  <2>. QED BY <2>3, <2>4
<1>6. used'[c] = used[c] /\ \A t : t # s => (t \in stale' <=> t \in stale)
  BY <1>2
<1>7. client'[c] = client[c] /\ made'.periods = made.periods /\ request[r].conv = d
  BY <1>1, <1>2
<1>. QED BY <1>2, <1>3, <1>4, <1>5, <1>6, <1>7, ForeignStep

\* No request of it is concerned, and no session.
LEMMA Aside ==
    ASSUME NEW c, index' = index, sessions' = sessions, rows' = rows, stale' = stale, used' = used, made' = made,
           client'[c] = client[c],
           \A t \in Requests : request'[t].conv = c \/ request[t].conv = c => request'[t] = request[t]
    PROVE  Same(c)
<1>1. \A t : Serves(t, c)' => Serves(t, c)
  BY DEF Serves
<1>2. \A t : UsedBy(t, c)' => UsedBy(t, c)
  BY DEF UsedBy
<1>3. \A k : KeyOf(k, c)' <=> KeyOf(k, c)
  BY DEF KeyOf, IsKnown, IsLearned, ClientKey, Carries
<1>4. \A t : IndexedFor(t, c)' => IndexedFor(t, c)
  BY <1>3 DEF IndexedFor
<1>5. \A t : (Holds(sessions, t, c)' => Holds(sessions, t, c)) /\ (Holds(rows, t, c)' => Holds(rows, t, c))
  BY <1>3 DEF Holds
<1>6. \A t : Claims(t, c)' => Claims(t, c)
  BY <1>1, <1>2, <1>4, <1>5 DEF Claims
<1>7. SameKeys(c) /\ SameSessions(c)
  BY <1>6 DEF SameKeys, SameSessions
<1>8. SameRequests(c)
  BY DEF SameRequests
<1>. QED BY <1>7, <1>8 DEF Same

LEMMA OtherArrives ==
    ASSUME TypeInv, initialized, NEW c \in Convs, NEW r \in Requests, NEW d \in Convs, d # c, Arrives(r, d)
    PROVE  Same(c)
<1>1. PICK q : q = [Idle EXCEPT !.pc = "identify", !.conv = d, !.headers = HeadersOf(d),
                                !.parent = ParentValue(d), !.count = client[d].sent + 1]
  OBVIOUS
<1>2. request' = [t \in Requests |-> IF t = r THEN q ELSE request[t]] /\ q.conv # c
  BY <1>1 DEF Arrives, TypeInv, Idle
<1>3. request[r].conv # c
  <2>1. request[r] = Idle
    BY DEF Arrives, TypeInv, RequestTyped, Busy
  <2>. QED BY <2>1, ConvsAssumption DEF Idle
<1>4. /\ index' = index /\ sessions' = sessions /\ rows' = rows /\ stale' = stale /\ used' = used /\ made' = made
      /\ client'[c] = client[c]
  BY DEF Arrives, TypeInv, ClientsTyped
<1>. QED BY <1>2, <1>3, <1>4, Aside

LEMMA OtherClient ==
    ASSUME TypeInv, NEW c \in Convs, NEW d \in Convs, d # c, ClientRestarts(d) \/ ClientUpgraded(d)
    PROVE  Same(c)
<1>1. /\ index' = index /\ sessions' = sessions /\ rows' = rows /\ stale' = stale /\ used' = used /\ made' = made
      /\ request' = request /\ client'[c] = client[c]
  BY DEF ClientRestarts, ClientUpgraded, TypeInv, ClientsTyped
<1>. QED BY <1>1, Aside

LEMMA StutterSame ==
    ASSUME NEW c, UNCHANGED vars
    PROVE  Same(c)
<1>1. /\ index' = index /\ sessions' = sessions /\ rows' = rows /\ stale' = stale /\ used' = used /\ made' = made
      /\ request' = request /\ client'[c] = client[c]
  BY DEF vars
<1>. QED BY <1>1, Aside

\* A step of a request of another conversation.
LEMMA OtherStep ==
    ASSUME TypeInv, ApartInv, NEW c \in Convs, Alone(c), NEW r \in Requests, request[r].conv # c,
           \/ ByKnownHeader(r) \/ ByOtherHeader(r) \/ ByRotation(r) \/ ByNewHeader(r)
           \/ ByLearnedHeader(r) \/ FingerprintStarts(r) \/ ByFingerprint(r) \/ ByNewFingerprint(r)
           \/ Attach(r) \/ Seed(r)
    PROVE  Same(c)
BY OtherKnownHeader, OtherOtherHeader, OtherRotation, OtherNewSession, OtherFingerprint, OtherFingerprintStarts,
   OtherAttach, OtherSeed

-----------------------------------------------------------------------------
(* Its own requests.                                                       *)

\* Nothing of it is in use.
LEMMA AbsentUse ==
    ASSUME NEW c, \A s : ~Present(c, s)'
    PROVE  InUse(c)' /\ AllLed(c)' /\ PastLed(c)' /\ Settled(c)'
<1>1. \A s : s \notin SessionsOf(c, made.periods)'
  BY DEF Present
<1>2. \A r \in Requests : ~Past(r, c)'
  BY DEF Present
<1>. QED BY <1>1, <1>2 DEF InUse, AllLed, PastLed, Settled

\* All that is in use is the session its key leads to.
LEMMA OneUse ==
    ASSUME NEW c, NEW s, LedByKey(c, s)', \A t : Present(c, t)' => t = s
    PROVE  AllLed(c)' /\ PastLed(c)' /\ Settled(c)'
<1>1. \A t : Present(c, t)' => LedByKey(c, t)'
  OBVIOUS
<1>2. AllLed(c)'
  BY <1>1 DEF AllLed, Led
<1>3. PastLed(c)'
  <2>. SUFFICES ASSUME NEW r \in Requests, Past(r, c)' PROVE LedByKey(c, request[r].sid)'
    BY DEF PastLed
  <2>1. PICK t : t = request'[r].sid
    OBVIOUS
  <2>2. Present(c, t)'
    BY <2>1 DEF Present
  <2>3. LedByKey(c, t)'
    BY <1>1, <2>2
  <2>. QED BY <2>1, <2>3 DEF LedByKey
<1>4. Settled(c)'
  BY DEF Settled, LedByKey
<1>. QED BY <1>2, <1>3, <1>4

\* While the index is empty nothing is in use.
LEMMA NotStarted ==
    ASSUME LeadInv, ~initialized, NEW c, UseInv(c)
    PROVE  \A s : ~Present(c, s)
<1>. SUFFICES ASSUME NEW s, Led(c, s) PROVE FALSE
  BY DEF UseInv, AllLed
<1>1. DOMAIN index = {}
  BY DEF LeadInv
<1>2. ~LedByKey(c, s)
  BY <1>1 DEF LedByKey
<1>3. ~LedByOther(c, s)
  BY <1>1 DEF LedByOther, Fallbacks
<1>4. ~LedByRotation(c, s)
  BY <1>1 DEF LedByRotation, Predecessors
<1>. QED BY <1>2, <1>3, <1>4 DEF Led

\* The first request of a process, of whatever conversation, restores the index.
LEMMA FirstArrives ==
    ASSUME TypeInv, LeadInv, ~initialized, NEW c \in Convs, Alone(c), KeyInv(c), UseInv(c),
           NEW r \in Requests, NEW d \in Convs, Arrives(r, d)
    PROVE  KeyInv(c)' /\ UseInv(c)'
<1>1. PICK f : f = StoredIndex
  OBVIOUS
<1>2. PICK q : q = [Idle EXCEPT !.pc = "identify", !.conv = d, !.headers = HeadersOf(d),
                                !.parent = ParentValue(d), !.count = client[d].sent + 1]
  OBVIOUS
<1>3. /\ index' = Merged(f, index) /\ sessions' = sessions /\ rows' = rows /\ stale' = stale
      /\ used' = used /\ made' = made
  BY <1>1 DEF Arrives
<1>4. /\ request' = [t \in Requests |-> IF t = r THEN q ELSE request[t]]
      /\ q.pc = "identify" /\ q.conv = d /\ q.parent = ParentValue(d)
  BY <1>2 DEF Arrives, TypeInv, Idle
<1>5. DOMAIN index = {} /\ \A t \in Requests : request[t].pc = "idle"
  BY DEF LeadInv
<1>6. ASSUME NEW k \in DOMAIN index' PROVE index'[k] \in DOMAIN rows /\ rows[index'[k]].key = k
  <2>1. k \in DOMAIN f /\ index'[k] = f[k]
    BY <1>3, <1>5, <1>6 DEF Merged
  <2>2. PICK u \in DOMAIN rows : rows[u].key # NoKey /\ rows[u].key = k
    BY <1>1, <2>1 DEF StoredIndex
  <2>3. f[k] = CHOOSE v \in {y \in DOMAIN rows : rows[y].key # NoKey} : rows[v].key = k
    BY <1>1, <2>1 DEF StoredIndex
  <2>. QED BY <2>1, <2>2, <2>3
<1>7. client'[c].gen = client[c].gen
  BY DEF Arrives, TypeInv, ClientsTyped, ClientTyped
<1>8. KeyInv(c)'
  <2>1. \A k, s : Has(c, k, s)' => Has(c, k, s)
    BY <1>3, <1>6 DEF Has, Filed, IsKnown, Carries
  <2>. QED BY <1>3, <1>7, <2>1, KeptKeyInv
<1>9. Unmarked(c)'
  <2>1. \A s : Claims(s, c)' => Claims(s, c)
    BY ArrivesClaims DEF NoNewClaims
  <2>. QED BY <1>3, <2>1 DEF UseInv, Unmarked
<1>10. Parentless(c)'
  <2>1. d = c => q.parent = NoValue
    BY <1>4, AloneIs DEF ParentValue
  <2>. QED BY <1>4, <2>1 DEF UseInv, Parentless
<1>11. Reaches(c)'
  BY <1>3, <1>6 DEF Reaches
<1>12. \A s : ~Present(c, s)'
  <2>1. \A t \in Requests : ~Past(t, c)'
    BY <1>4, <1>5 DEF Past
  <2>2. \A s : s \notin SessionsOf(c, made.periods)
    BY NotStarted DEF Present
  <2>3. SessionsOf(c, made.periods)' = SessionsOf(c, made.periods)
    BY <1>3 DEF SessionsOf
  <2>. QED BY <2>1, <2>2, <2>3 DEF Present
<1>. QED BY <1>8, <1>9, <1>10, <1>11, <1>12, AbsentUse DEF UseInv

LEMMA OwnArrives ==
    ASSUME TypeInv, TypeInv', initialized, NEW c \in Convs, Alone(c), KeyInv(c), UseInv(c),
           NEW r \in Requests, Arrives(r, c)
    PROVE  KeyInv(c)' /\ UseInv(c)'
<1>1. PICK q : q = [Idle EXCEPT !.pc = "identify", !.conv = c, !.headers = HeadersOf(c),
                                !.parent = ParentValue(c), !.count = client[c].sent + 1]
  OBVIOUS
<1>2. /\ index' = index /\ sessions' = sessions /\ rows' = rows /\ stale' = stale
      /\ used' = used /\ made' = made /\ request[r].pc = "idle"
  BY DEF Arrives
<1>3. /\ request' = [t \in Requests |-> IF t = r THEN q ELSE request[t]]
      /\ q.pc = "identify" /\ q.conv = c /\ q.parent = ParentValue(c)
  BY <1>1 DEF Arrives, TypeInv, Idle
<1>4. client'[c].gen = client[c].gen
  BY DEF Arrives, TypeInv, ClientsTyped, ClientTyped
<1>5. SameKeys(c) /\ SameSessions(c)
  <2>1. \A s : Claims(s, c)' => Claims(s, c)
    BY ArrivesClaims DEF NoNewClaims
  <2>. QED BY <1>2, <2>1 DEF SameKeys, SameSessions
<1>6. KeyInv(c)'
  BY <1>2, <1>4, <1>5, SameKeyInv
<1>7. Unmarked(c)'
  BY <1>2, <1>5 DEF UseInv, Unmarked, SameSessions
<1>8. Parentless(c)'
  <2>1. q.parent = NoValue
    BY <1>3, AloneIs DEF ParentValue
  <2>. QED BY <1>3, <2>1 DEF UseInv, Parentless
<1>9. SessionsOf(c, made.periods)' = SessionsOf(c, made.periods)
  BY <1>2 DEF SessionsOf
<1>10. InUse(c)'
  BY <1>2, <1>9 DEF UseInv, InUse
<1>11. Reaches(c)'
  BY <1>2, <1>3 DEF UseInv, Reaches, IsKnown, Carries
<1>12. \A t \in Requests : Past(t, c)' => Past(t, c) /\ request'[t] = request[t]
  BY <1>3 DEF Past
<1>13. \A s : (LedByKey(c, s)' <=> LedByKey(c, s)) /\ (Led(c, s) => Led(c, s)')
  BY <1>4, <1>5, SameLed
<1>14. AllLed(c)'
  BY <1>9, <1>12, <1>13 DEF UseInv, AllLed, Present
<1>15. PastLed(c)'
  <2>. SUFFICES ASSUME NEW t \in Requests, Past(t, c)' PROVE LedByKey(c, request[t].sid)'
    BY DEF PastLed
  <2>1. PICK s : s = request[t].sid
    OBVIOUS
  <2>2. LedByKey(c, s)' /\ request'[t] = request[t]
    BY <1>12, <1>13, <2>1 DEF UseInv, PastLed
  <2>. QED BY <2>1, <2>2 DEF LedByKey
<1>16. Settled(c)'
  BY <1>3 DEF Settled
<1>. QED BY <1>6, <1>7, <1>8, <1>10, <1>11, <1>14, <1>15, <1>16 DEF UseInv

\* A request of its own was identified.
LEMMA OwnIdentified ==
    ASSUME TypeInv, NEW c \in Convs, Alone(c), UseInv(c),
           NEW r \in Requests, request[r].conv = c, request[r].pc = "identify",
           NEW s, NEW b, Identified(r, s, b), \E t, a : Identified(r, t, a) /\ Claimed(t, c),
           client' = client, used' = used, made'.periods = made.periods, stale' = stale,
           Claims(s, c) \/ s \notin DOMAIN sessions \cup DOMAIN rows,
           DOMAIN sessions' = DOMAIN sessions,
           \A t \in DOMAIN sessions : sessions'[t].isSubagent = sessions[t].isSubagent,
           DOMAIN rows \subseteq DOMAIN rows',
           \A t \in DOMAIN rows' : rows'[t].isSubagent = Row(t).isSubagent,
           \A k \in DOMAIN index' : (k \in DOMAIN index /\ index'[k] = index[k]) \/ index'[k] = s,
           LedByKey(c, s)', \A t : Present(c, t) => t = s
    PROVE  UseInv(c)'
<1>1. PICK q : q = [request[r] EXCEPT !.pc = "attach", !.sid = s, !.isNew = b]
  OBVIOUS
<1>2. /\ request' = [t \in Requests |-> IF t = r THEN q ELSE request[t]]
      /\ q.pc = "attach" /\ q.sid = s /\ q.conv = c /\ q.parent = request[r].parent
  BY <1>1, RequestIs DEF Identified, TypeInv, RequestFields
<1>3. \A t : Claims(t, c)' => Claims(t, c) \/ t = s
  <2>1. PICK t, a : Identified(r, t, a) /\ Claimed(t, c)
    OBVIOUS
  <2>2. t = s
    BY <2>1, IdentifiedOne
  <2>. QED BY <2>1, <2>2 DEF Claimed
<1>4. Unmarked(c)'
  <2>. SUFFICES ASSUME NEW t, Claims(t, c)'
                PROVE  /\ t \in DOMAIN sessions' => ~sessions'[t].isSubagent
                       /\ t \in DOMAIN rows' => ~rows'[t].isSubagent
    BY DEF Unmarked
  <2>1. /\ t \in DOMAIN sessions => ~sessions[t].isSubagent
        /\ t \in DOMAIN rows => ~rows[t].isSubagent
    BY <1>3 DEF UseInv, Unmarked
  <2>2. ~Row(t).isSubagent
    BY <2>1 DEF Row, Untracked
  <2>. QED BY <2>1, <2>2
<1>5. Parentless(c)'
  BY <1>2 DEF UseInv, Parentless
<1>6. SessionsOf(c, made.periods)' = SessionsOf(c, made.periods)
  BY DEF SessionsOf
<1>7. InUse(c)'
  BY <1>6 DEF UseInv, InUse
<1>8. Reaches(c)'
  <2>. SUFFICES ASSUME NEW k \in DOMAIN index', IsKnown(k, c)
                PROVE  \/ index'[k] \in DOMAIN sessions' \cup DOMAIN rows'
                       \/ \E t \in Requests : request'[t].pc = "attach" /\ request'[t].conv = c /\ request'[t].sid = index'[k]
    BY DEF Reaches, IsKnown, Carries
  <2>1. CASE index'[k] = s
    BY <1>2, <2>1
  <2>2. CASE k \in DOMAIN index /\ index'[k] = index[k]
    BY <1>2, <2>2 DEF UseInv, Reaches
  <2>. QED BY <2>1, <2>2
<1>9. \A t : Present(c, t)' => t = s
  BY <1>2, <1>6 DEF Present, Past
<1>. QED BY <1>4, <1>5, <1>7, <1>8, <1>9, OneUse DEF UseInv

\* The request comes with the client's key.
LEMMA OwnKeyIs ==
    ASSUME TypeInv, NEW c \in Convs, Alone(c), NEW r \in Requests, request[r].pc # "idle", request[r].conv = c
    PROVE  /\ request[r].headers = HeadersOf(c) /\ HasKnown(request[r].headers)
           /\ PrimaryKey(request[r].headers) = Pk(c)
BY PkIs, RequestIs DEF Busy, Pk

LEMMA OwnKnownHeader ==
    ASSUME TypeInv, NEW c \in Convs, Alone(c), KeyInv(c), UseInv(c),
           NEW r \in Requests, request[r].conv = c, ByKnownHeader(r)
    PROVE  KeyInv(c)' /\ UseInv(c)'
<1>1. PICK s : s = index[Pk(c)]
  OBVIOUS
<1>2. /\ request[r].pc = "identify" /\ Pk(c) \in DOMAIN index /\ Identified(r, s, FALSE)
      /\ index' = index /\ sessions' = sessions /\ rows' = rows /\ stale' = stale
      /\ client' = client /\ used' = used /\ made' = made
  BY <1>1, OwnKeyIs DEF ByKnownHeader
<1>3. LedByKey(c, s) /\ Claims(s, c)
  BY <1>1, <1>2, PkIs, IndexClaims DEF LedByKey, KeyOf
<1>4. KeyInv(c)'
  <2>1. \A k, t : Has(c, k, t)' => Has(c, k, t)
    BY <1>2 DEF Has, Filed, IsKnown, Carries
  <2>. QED BY <1>2, <2>1, KeptKeyInv
<1>5. LedByKey(c, s)'
  <2>1. Pk(c)' = Pk(c)
    BY <1>2, SameHeaders
  <2>. QED BY <1>2, <1>3, <2>1 DEF LedByKey
<1>6. \A t : Present(c, t) => t = s
  BY <1>3, LedOnce DEF UseInv, AllLed, Led
<1>7. \E t, a : Identified(r, t, a) /\ Claimed(t, c)
  BY ByKnownHeaderClaims
<1>8. \A t \in DOMAIN rows' : rows'[t].isSubagent = Row(t).isSubagent
  BY <1>2 DEF Row
<1>9. /\ made'.periods = made.periods /\ DOMAIN sessions' = DOMAIN sessions /\ DOMAIN rows \subseteq DOMAIN rows'
      /\ \A t \in DOMAIN sessions : sessions'[t].isSubagent = sessions[t].isSubagent
      /\ \A k \in DOMAIN index' : (k \in DOMAIN index /\ index'[k] = index[k]) \/ index'[k] = s
  BY <1>2
<1>. QED BY <1>2, <1>3, <1>4, <1>5, <1>6, <1>7, <1>8, <1>9, OwnIdentified

\* With a header it did not always send nothing more is claimed than that no
\* key was filed before it was sent.
LEMMA AddedPrimary ==
    ASSUME NEW c, Pn(c)' \notin Sends[c], KeysSent(c)', UpgradedOnce(c)'
    PROVE  KeyInv(c)'
BY DEF KeyInv, KeysPrimary, KeysDistinct, OneLive, OthersStale

\* A session is filed under the client's key.
LEMMA FiledHas ==
    ASSUME TypeInv, LeadInv, NEW c \in Convs, Alone(c), client' = client, NEW s,
           \A k \in DOMAIN index' : k = Pk(c) \/ (k \in DOMAIN index /\ index'[k] = index[k]),
           Pk(c) \in DOMAIN index' /\ index'[Pk(c)] = s,
           \A t \in DOMAIN rows' : (t = s /\ rows'[t].key = Pk(c)) \/ (t \in DOMAIN rows /\ rows'[t].key = rows[t].key),
           initialized, Pk(c) \notin DOMAIN index
    PROVE  /\ Pn(c)' = Pn(c) /\ Pk(c)' = Pk(c) /\ LedByKey(c, s)'
           /\ \A k, t : Has(c, k, t)' => Has(c, k, t) \/ (k = Pk(c) /\ t = s)
           /\ KeysSent(c) => KeysSent(c)'
<1>1. Pn(c)' = Pn(c) /\ Pk(c)' = Pk(c)
  BY SameHeaders
<1>2. LedByKey(c, s)'
  BY <1>1 DEF LedByKey
<1>3. \A t : ~Has(c, Pk(c), t)
  BY FiledIndexed
<1>4. \A k, t : Has(c, k, t)' => Has(c, k, t) \/ (k = Pk(c) /\ t = s)
  <2>. SUFFICES ASSUME NEW k, NEW t, Has(c, k, t)', ~(k = Pk(c) /\ t = s) PROVE Has(c, k, t)
    OBVIOUS
  <2>1. IsKnown(k, c) /\ ((k \in DOMAIN index' /\ index'[k] = t) \/ (t \in DOMAIN rows' /\ rows'[t].key = k))
    BY DEF Has, Filed, IsKnown, Carries
  <2>2. CASE k \in DOMAIN index' /\ index'[k] = t
    BY <2>1, <2>2 DEF Has, Filed
  <2>3. CASE t \in DOMAIN rows' /\ rows'[t].key = k
    BY <2>1, <2>3 DEF Has, Filed
  <2>. QED BY <2>1, <2>2, <2>3
<1>5. ASSUME KeysSent(c) PROVE KeysSent(c)'
  <2>. SUFFICES ASSUME NEW k, NEW t, Has(c, k, t)' PROVE k[2][2] <= client'[c].gen[k[1]]
    BY DEF KeysSent
  <2>1. CASE Has(c, k, t)
    BY <1>5, <2>1 DEF KeysSent
  <2>2. CASE k = Pk(c)
    <3>1. k[1] = Pn(c) /\ k[2][2] = client[c].gen[Pn(c)] /\ client[c].gen[Pn(c)] \in Nat
      BY <2>2, PkIs DEF Key
    <3>. QED BY <3>1
  <2>. QED BY <1>4, <2>1, <2>2
<1>. QED BY <1>1, <1>2, <1>4, <1>5

LEMMA RefileKeeps ==
    ASSUME TypeInv, NEW s, NEW k, Refile(s, k)
    PROVE  /\ DOMAIN sessions' = DOMAIN sessions
           /\ \A t \in DOMAIN sessions : sessions'[t].isSubagent = sessions[t].isSubagent
           /\ DOMAIN rows \subseteq DOMAIN rows'
           /\ \A t \in DOMAIN rows' : rows'[t].isSubagent = Row(t).isSubagent
           /\ \A t \in DOMAIN rows' :
                 (t = s /\ rows'[t].key = k) \/ (t # s /\ t \in DOMAIN rows /\ rows'[t].key = rows[t].key)
<1>1. PICK y : y.key = k /\ y.isSubagent = Row(s).isSubagent /\ rows' = Put(rows, s, y)
  BY RefileIs
<1>2. DOMAIN rows' = DOMAIN rows \cup {s} /\ \A t \in DOMAIN rows' : rows'[t] = IF t = s THEN y ELSE rows[t]
  BY <1>1 DEF Put
<1>3. \A t \in DOMAIN rows' : rows'[t].isSubagent = Row(t).isSubagent
  <2>. TAKE t \in DOMAIN rows'
  <2>1. CASE t = s
    BY <1>1, <1>2, <2>1
  <2>2. CASE t # s
    BY <1>2, <2>2 DEF Row
  <2>. QED BY <2>1, <2>2
<1>4. DOMAIN sessions' = DOMAIN sessions
  BY DEF Refile
<1>5. ASSUME NEW t \in DOMAIN sessions PROVE sessions'[t].isSubagent = sessions[t].isSubagent
  <2>1. PICK z : z = sessions[t]
    OBVIOUS
  <2>2. DOMAIN z = TrackFields
    BY <2>1, SessionsTyped DEF TrackTyped
  <2>3. sessions'[t] = z \/ sessions'[t] = [z EXCEPT !.key = k]
    BY <2>1 DEF Refile
  <2>. QED BY <2>1, <2>2, <2>3 DEF TrackFields
<1>. QED BY <1>1, <1>2, <1>3, <1>4, <1>5

LEMMA OwnOtherHeader ==
    ASSUME TypeInv, LeadInv, NEW c \in Convs, Alone(c), KeyInv(c), UseInv(c),
           NEW r \in Requests, request[r].conv = c, ByOtherHeader(r)
    PROVE  KeyInv(c)' /\ UseInv(c)'
<1>1. PICK h : h = HeadersOf(c)
  OBVIOUS
<1>2. PICK name : name = OtherName(h)
  OBVIOUS
<1>3. PICK k : k = Key(name, h[name])
  OBVIOUS
<1>4. PICK s : s = index[k]
  OBVIOUS
<1>5. request[r].pc = "identify" /\ request[r].pc # "idle" /\ initialized
  BY DEF ByOtherHeader, LeadInv
<1>6. request[r].headers = h /\ HasKnown(h) /\ PrimaryKey(h) = Pk(c)
  BY <1>1, <1>5, OwnKeyIs
<1>7. /\ Pk(c) \notin DOMAIN index /\ Fallbacks(h) # {}
      /\ index' = Put(index, Pk(c), s) /\ Refile(s, Pk(c)) /\ Identified(r, s, FALSE)
      /\ client' = client /\ used' = used /\ made' = made /\ stale' = stale
  BY <1>2, <1>3, <1>4, <1>6 DEF ByOtherHeader, OtherName
<1>8. name # Pn(c) /\ k \in DOMAIN index /\ IsKnown(k, c) /\ Has(c, k, s) /\ name \in Names
  BY <1>1, <1>2, <1>3, <1>4, <1>7, FallbacksIs
<1>9. Claims(s, c)
  BY <1>8, HasClaims
<1>10. LedByOther(c, s)
  BY <1>1, <1>2, <1>3, <1>4, <1>7 DEF LedByOther
<1>11. \A t : Present(c, t) => t = s
  BY <1>10, LedOnce DEF UseInv, AllLed, Led
<1>12. Pn(c) \notin Sends[c]
  <2>1. k[1] = name
    BY <1>3 DEF Key
  <2>. QED BY <1>8, <2>1 DEF KeyInv, KeysPrimary
<1>13. /\ DOMAIN sessions' = DOMAIN sessions
       /\ \A t \in DOMAIN sessions : sessions'[t].isSubagent = sessions[t].isSubagent
       /\ DOMAIN rows \subseteq DOMAIN rows'
       /\ \A t \in DOMAIN rows' : rows'[t].isSubagent = Row(t).isSubagent
       /\ \A t \in DOMAIN rows' :
             (t = s /\ rows'[t].key = Pk(c)) \/ (t \in DOMAIN rows /\ rows'[t].key = rows[t].key)
  BY <1>7, RefileKeeps
<1>14. /\ \A j \in DOMAIN index' : j = Pk(c) \/ (j \in DOMAIN index /\ index'[j] = index[j])
       /\ Pk(c) \in DOMAIN index' /\ index'[Pk(c)] = s
  BY <1>7 DEF Put
<1>15. /\ Pn(c)' = Pn(c) /\ LedByKey(c, s)' /\ (KeysSent(c) => KeysSent(c)')
  BY <1>5, <1>7, <1>13, <1>14, FiledHas
<1>16. KeyInv(c)'
  <2>1. KeysSent(c)' /\ UpgradedOnce(c)'
    BY <1>7, <1>15 DEF KeyInv, UpgradedOnce
  <2>. QED BY <1>12, <1>15, <2>1, AddedPrimary
<1>17. \E t, a : Identified(r, t, a) /\ Claimed(t, c)
  BY ByOtherHeaderClaims
<1>18. made'.periods = made.periods /\ \A j \in DOMAIN index' : (j \in DOMAIN index /\ index'[j] = index[j]) \/ index'[j] = s
  BY <1>7, <1>14
<1>19. UseInv(c)'
  BY <1>5, <1>7, <1>9, <1>11, <1>13, <1>15, <1>17, <1>18, OwnIdentified
<1>. QED BY <1>16, <1>19

LEMMA OwnRotation ==
    ASSUME TypeInv, LeadInv, NEW c \in Convs, Alone(c), KeyInv(c), UseInv(c),
           NEW r \in Requests, request[r].conv = c, ByRotation(r)
    PROVE  KeyInv(c)' /\ UseInv(c)'
<1>1. PICK h : h = HeadersOf(c)
  OBVIOUS
<1>2. request[r].pc = "identify" /\ request[r].pc # "idle" /\ initialized
  BY DEF ByRotation, IsUnfiled, LeadInv
<1>3. request[r].headers = h /\ HasKnown(h) /\ PrimaryKey(h) = Pk(c)
  BY <1>1, <1>2, OwnKeyIs
<1>4. PICK old \in Predecessors(h) :
         /\ index' = Put([x \in DOMAIN index \ {old} |-> index[x]], Pk(c), index[old])
         /\ Refile(index[old], Pk(c)) /\ Identified(r, index[old], FALSE)
         /\ UNCHANGED <<client, initialized, values, stale, used, made>>
  BY <1>3, RotationIs
<1>5. PICK s : s = index[old]
  OBVIOUS
<1>6. /\ Pk(c) \notin DOMAIN index /\ Fallbacks(h) = {} /\ Refile(s, Pk(c)) /\ Identified(r, s, FALSE)
  BY <1>3, <1>4, <1>5 DEF ByRotation, IsUnfiled
<1>7. old \in DOMAIN index /\ Has(c, old, s) /\ s \notin stale
  BY <1>1, <1>4, <1>5, PredecessorsIs DEF MayRotate
<1>8. Claims(s, c)
  BY <1>7, HasClaims
<1>9. \A t : Present(c, t) => t = s
  <2>. SUFFICES ASSUME NEW t, Present(c, t) PROVE t = s
    OBVIOUS
  <2>1. Led(c, t)
    BY DEF UseInv, AllLed
  <2>2. LedByRotation(c, t)
    BY <1>1, <1>6, <2>1 DEF Led, LedByKey, LedByOther
  <2>. QED BY <1>1, <1>4, <1>5, <2>2 DEF LedByRotation
<1>10. /\ DOMAIN sessions' = DOMAIN sessions
       /\ \A t \in DOMAIN sessions : sessions'[t].isSubagent = sessions[t].isSubagent
       /\ DOMAIN rows \subseteq DOMAIN rows'
       /\ \A t \in DOMAIN rows' : rows'[t].isSubagent = Row(t).isSubagent
       /\ \A t \in DOMAIN rows' :
             (t = s /\ rows'[t].key = Pk(c)) \/ (t # s /\ t \in DOMAIN rows /\ rows'[t].key = rows[t].key)
  BY <1>6, RefileKeeps
<1>11. /\ \A j \in DOMAIN index' : j = Pk(c) \/ (j # old /\ j \in DOMAIN index /\ index'[j] = index[j])
       /\ Pk(c) \in DOMAIN index' /\ index'[Pk(c)] = s
  BY <1>4, <1>5 DEF Put
<1>12. /\ Pn(c)' = Pn(c) /\ Pk(c)' = Pk(c) /\ LedByKey(c, s)' /\ (KeysSent(c) => KeysSent(c)')
       /\ \A k, t : Has(c, k, t)' => Has(c, k, t) \/ (k = Pk(c) /\ t = s)
  <2>1. /\ \A j \in DOMAIN index' : j = Pk(c) \/ (j \in DOMAIN index /\ index'[j] = index[j])
        /\ \A t \in DOMAIN rows' : (t = s /\ rows'[t].key = Pk(c)) \/ (t \in DOMAIN rows /\ rows'[t].key = rows[t].key)
    BY <1>10, <1>11
  <2>2. client' = client
    BY <1>4
  <2>. QED BY <1>2, <1>6, <1>11, <2>1, <2>2, FiledHas
<1>13. \A k, t : Has(c, k, t)' => (k = Pk(c) /\ t = s) \/ (Has(c, k, t) /\ k # old)
  <2>. SUFFICES ASSUME NEW t, Has(c, old, t)' PROVE old = Pk(c) /\ t = s
    BY <1>12
  <2>1. CASE old \in DOMAIN index' /\ index'[old] = t
    BY <1>6, <1>7, <1>11, <2>1
  <2>2. CASE t \in DOMAIN rows' /\ rows'[t].key = old
    <3>1. CASE t = s
      BY <1>10, <2>2, <3>1
    <3>2. CASE t # s
      <4>1. Has(c, old, t)
        BY <1>7, <1>10, <2>2, <3>2 DEF Has, Filed
      <4>. QED BY <1>7, <3>2, <4>1, FiledOnce
    <3>. QED BY <3>1, <3>2
  <2>. QED BY <2>1, <2>2 DEF Has, Filed
<1>14. KeyInv(c)'
  <2>1. KeysSent(c)' /\ UpgradedOnce(c)'
    BY <1>4, <1>12 DEF KeyInv, UpgradedOnce
  <2>2. CASE Pn(c) \notin Sends[c]
    BY <1>12, <2>1, <2>2, AddedPrimary
  <2>3. CASE Pn(c) \in Sends[c]
    <3>1. \A k, t : Has(c, k, t) /\ k # old => t \in stale /\ t # s /\ k[1] = Pn(c)
      BY <1>7, <2>3 DEF KeyInv, KeysPrimary, KeysDistinct, OneLive
    <3>2. Pk(c)[1] = Pn(c)
      BY PkIs DEF Key
    <3>3. stale' = stale
      BY <1>4
    <3>4. KeysPrimary(c)'
      BY <1>12, <1>13, <3>1, <3>2 DEF KeysPrimary
    <3>5. KeysDistinct(c)'
      BY <1>12, <1>13, <2>3, <3>1 DEF KeyInv, KeysDistinct
    <3>6. OneLive(c)'
      BY <1>13, <3>1, <3>3 DEF OneLive
    <3>7. OthersStale(c)'
      BY <1>12, <1>13, <3>1, <3>3 DEF OthersStale
    <3>. QED BY <2>1, <3>4, <3>5, <3>6, <3>7 DEF KeyInv
  <2>. QED BY <2>2, <2>3
<1>15. \E t, a : Identified(r, t, a) /\ Claimed(t, c)
  BY ByRotationClaims
<1>16. /\ made'.periods = made.periods /\ client' = client /\ used' = used /\ stale' = stale
       /\ \A j \in DOMAIN index' : (j \in DOMAIN index /\ index'[j] = index[j]) \/ index'[j] = s
  BY <1>4, <1>11
<1>17. UseInv(c)'
  BY <1>2, <1>6, <1>8, <1>9, <1>10, <1>12, <1>15, <1>16, OwnIdentified
<1>. QED BY <1>14, <1>17

\* What is filed for it, when neither its key nor a predecessor is, is stale.
LEMMA FiledStale ==
    ASSUME TypeInv, LeadInv, initialized, NEW c \in Convs, Alone(c), KeyInv(c), UseInv(c), Pn(c) \in Sends[c],
           Pk(c) \notin DOMAIN index, Predecessors(HeadersOf(c)) = {}, NEW k, NEW s, Has(c, k, s)
    PROVE  s \in stale
<1>1. k \in DOMAIN index /\ index[k] = s /\ IsKnown(k, c)
  BY FiledIndexed DEF Has
<1>2. k[1] = Pn(c)
  BY DEF KeyInv, KeysPrimary
<1>3. ~MayRotate(s)
  BY <1>1, <1>2 DEF Predecessors, Pn
<1>4. Claims(s, c)
  BY HasClaims
<1>5. /\ s \in DOMAIN sessions => ~sessions[s].isSubagent
      /\ s \in DOMAIN rows => ~rows[s].isSubagent
  BY <1>4 DEF UseInv, Unmarked
<1>6. ASSUME NEW r \in Requests, request[r].pc = "attach", request[r].conv = c, request[r].sid = s PROVE FALSE
  BY <1>6 DEF UseInv, PastLed, Past, LedByKey
<1>7. s \in DOMAIN sessions \cup DOMAIN rows
  BY <1>1, <1>6 DEF UseInv, Reaches
<1>. QED BY <1>3, <1>5, <1>7 DEF MayRotate

LEMMA OwnNewHeader ==
    ASSUME TypeInv, LeadInv, NEW c \in Convs, Alone(c), KeyInv(c), UseInv(c),
           NEW r \in Requests, request[r].conv = c, ByNewHeader(r)
    PROVE  KeyInv(c)' /\ UseInv(c)'
<1>1. PICK h : h = HeadersOf(c)
  OBVIOUS
<1>2. PICK s : s = made.sids + 1
  OBVIOUS
<1>3. request[r].pc = "identify" /\ request[r].pc # "idle" /\ initialized
  BY DEF ByNewHeader, IsUnfiled, LeadInv
<1>4. request[r].headers = h /\ HasKnown(h) /\ PrimaryKey(h) = Pk(c)
  BY <1>1, <1>3, OwnKeyIs
<1>5. /\ Pk(c) \notin DOMAIN index /\ Fallbacks(h) = {} /\ Cardinality(Predecessors(h)) # 1
      /\ index' = Put(index, Pk(c), s) /\ Identified(r, s, TRUE)
      /\ client' = client /\ sessions' = sessions /\ rows' = rows /\ stale' = stale /\ used' = used
      /\ made' = [made EXCEPT !.sids = @ + 1]
  BY <1>2, <1>4 DEF ByNewHeader, IsUnfiled
<1>6. \A k : Predecessors(h) # {k}
  BY <1>5, FS_Singleton
<1>7. \A t : ~Present(c, t)
  <2>. SUFFICES ASSUME NEW t, Present(c, t) PROVE FALSE
    OBVIOUS
  <2>1. Led(c, t)
    BY DEF UseInv, AllLed
  <2>. QED BY <1>1, <1>5, <1>6, <2>1 DEF Led, LedByKey, LedByOther, LedByRotation
<1>8. s \notin DOMAIN sessions \cup DOMAIN rows /\ ~Claims(s, c)
  <2>1. s \notin 1 .. made.sids
    BY <1>2, SessionsTyped
  <2>. QED BY <1>2, <2>1, SessionsTyped, NewUnclaimed
<1>9. /\ \A j \in DOMAIN index' : j = Pk(c) \/ (j \in DOMAIN index /\ index'[j] = index[j])
      /\ Pk(c) \in DOMAIN index' /\ index'[Pk(c)] = s
  BY <1>5 DEF Put
<1>10. /\ Pn(c)' = Pn(c) /\ Pk(c)' = Pk(c) /\ LedByKey(c, s)' /\ (KeysSent(c) => KeysSent(c)')
       /\ \A k, t : Has(c, k, t)' => Has(c, k, t) \/ (k = Pk(c) /\ t = s)
  <2>1. \A t \in DOMAIN rows' : (t = s /\ rows'[t].key = Pk(c)) \/ (t \in DOMAIN rows /\ rows'[t].key = rows[t].key)
    BY <1>5
  <2>. QED BY <1>3, <1>5, <1>9, <2>1, FiledHas
<1>11. KeyInv(c)'
  <2>1. KeysSent(c)' /\ UpgradedOnce(c)'
    BY <1>5, <1>10 DEF KeyInv, UpgradedOnce
  <2>2. CASE Pn(c) \notin Sends[c]
    BY <1>10, <2>1, <2>2, AddedPrimary
  <2>3. CASE Pn(c) \in Sends[c]
    <3>1. Predecessors(h) = {}
      <4>. SUFFICES ASSUME NEW k \in Predecessors(h) PROVE FALSE
        OBVIOUS
      <4>1. ASSUME NEW j \in Predecessors(h) PROVE j = k
        <5>1. Has(c, k, index[k]) /\ index[k] \notin stale /\ Has(c, j, index[j]) /\ index[j] \notin stale
          BY <1>1, PredecessorsIs DEF MayRotate
        <5>. QED BY <2>3, <5>1 DEF KeyInv, OneLive
      <4>2. Predecessors(h) = {k}
        BY <4>1
      <4>. QED BY <1>6, <4>2
    <3>2. \A k, t : Has(c, k, t) => t \in stale /\ t # s /\ k[1] = Pn(c)
      BY <1>1, <1>3, <1>5, <1>8, <2>3, <3>1, FiledStale, HasClaims DEF KeyInv, KeysPrimary
    <3>3. Pk(c)[1] = Pn(c)
      BY PkIs DEF Key
    <3>4. stale' = stale
      BY <1>5
    <3>5. KeysPrimary(c)'
      BY <1>10, <3>2, <3>3 DEF KeysPrimary
    <3>6. KeysDistinct(c)'
      BY <1>10, <2>3, <3>2 DEF KeyInv, KeysDistinct
    <3>7. OneLive(c)'
      BY <1>10, <3>2, <3>4 DEF OneLive
    <3>8. OthersStale(c)'
      BY <1>10, <3>2, <3>4 DEF OthersStale
    <3>. QED BY <2>1, <3>5, <3>6, <3>7, <3>8 DEF KeyInv
  <2>. QED BY <2>2, <2>3
<1>12. \E t, a : Identified(r, t, a) /\ Claimed(t, c)
  BY ByNewHeaderClaims
<1>13. /\ made'.periods = made.periods
       /\ \A j \in DOMAIN index' : (j \in DOMAIN index /\ index'[j] = index[j]) \/ index'[j] = s
       /\ \A t \in DOMAIN rows' : rows'[t].isSubagent = Row(t).isSubagent
       /\ \A t \in DOMAIN sessions : sessions'[t].isSubagent = sessions[t].isSubagent
       /\ DOMAIN sessions' = DOMAIN sessions /\ DOMAIN rows \subseteq DOMAIN rows'
  BY <1>5, <1>9, NewSession DEF Row
<1>14. UseInv(c)'
  <2>1. \A t : Present(c, t) => t = s
    BY <1>7
  <2>2. Claims(s, c) \/ s \notin DOMAIN sessions \cup DOMAIN rows
    BY <1>8
  <2>. QED BY <1>3, <1>5, <1>10, <1>12, <1>13, <2>1, <2>2, OwnIdentified
<1>. QED BY <1>11, <1>14

\* A request of its own that is identified is of the one session in use.
LEMMA OwnServed ==
    ASSUME NEW c, UseInv(c), NEW r \in Requests, Past(r, c)
    PROVE  /\ LedByKey(c, request[r].sid) /\ \A t : Present(c, t) => t = request[r].sid
           /\ Claims(request[r].sid, c)
<1>1. LedByKey(c, request[r].sid)
  BY DEF UseInv, PastLed
<1>2. \A t : Present(c, t) => t = request[r].sid
  BY <1>1, LedOnce DEF UseInv, AllLed, Led
<1>. QED BY <1>1, <1>2 DEF Past, Claims, Serves

LEMMA OwnSeed ==
    ASSUME TypeInv, NEW c \in Convs, Alone(c), KeyInv(c), UseInv(c),
           NEW r \in Requests, request[r].conv = c, Seed(r)
    PROVE  KeyInv(c)' /\ UseInv(c)'
<1>1. PICK s : s = request[r].sid
  OBVIOUS
<1>2. /\ request[r].pc = "seed" /\ request' = [request EXCEPT ![r] = Idle] /\ s \in DOMAIN sessions
      /\ index' = index /\ stale' = stale /\ used' = used /\ client' = client /\ made' = made
  BY <1>1, SeedIs
<1>3. PICK x : x.key = sessions[s].key /\ x.isSubagent = sessions[s].isSubagent /\ sessions' = [sessions EXCEPT ![s] = x]
  BY <1>1, SeedIs
<1>4. PICK y : y.key = Row(s).key /\ y.isSubagent = Row(s).isSubagent /\ rows' = Put(rows, s, y)
  BY <1>1, SeedIs
<1>5. LedByKey(c, s) /\ (\A t : Present(c, t) => t = s) /\ Claims(s, c)
  BY <1>1, <1>2, OwnServed DEF Past
<1>6. \A t : Claims(t, c)' => Claims(t, c)
  BY <1>1, <1>5, SeedClaims DEF Claimed
<1>7. /\ DOMAIN sessions' = DOMAIN sessions
      /\ \A t \in DOMAIN sessions : sessions'[t] = IF t = s THEN x ELSE sessions[t]
      /\ DOMAIN rows' = DOMAIN rows \cup {s} /\ \A t \in DOMAIN rows' : rows'[t] = IF t = s THEN y ELSE rows[t]
  BY <1>2, <1>3, <1>4 DEF Put
<1>8. KeyInv(c)'
  <2>. SUFFICES ASSUME NEW k, NEW t, Has(c, k, t)' PROVE Has(c, k, t)
    BY <1>2, KeptKeyInv
  <2>1. IsKnown(k, c) /\ ((k \in DOMAIN index /\ index[k] = t) \/ (t \in DOMAIN rows' /\ rows'[t].key = k))
    BY <1>2 DEF Has, Filed, IsKnown, Carries
  <2>2. t \in DOMAIN rows' /\ rows'[t].key = k => t \in DOMAIN rows /\ rows[t].key = k
    <3>1. k # NoKey
      BY <2>1, KeyNames
    <3>2. CASE t # s
      BY <1>7, <3>2
    <3>3. CASE t = s
      BY <1>4, <1>7, <3>1, <3>3 DEF Row, Untracked
    <3>. QED BY <3>2, <3>3
  <2>. QED BY <2>1, <2>2 DEF Has, Filed
<1>9. Unmarked(c)'
  <2>. SUFFICES ASSUME NEW t, Claims(t, c)'
                PROVE  /\ t \in DOMAIN sessions' => ~sessions'[t].isSubagent
                       /\ t \in DOMAIN rows' => ~rows'[t].isSubagent
    BY DEF Unmarked
  <2>1. /\ t \in DOMAIN sessions => ~sessions[t].isSubagent
        /\ t \in DOMAIN rows => ~rows[t].isSubagent
    BY <1>6 DEF UseInv, Unmarked
  <2>2. ~Row(t).isSubagent
    BY <2>1 DEF Row, Untracked
  <2>3. t \in DOMAIN sessions' => ~sessions'[t].isSubagent
    BY <1>3, <1>7, <2>1
  <2>4. t \in DOMAIN rows' => ~rows'[t].isSubagent
    BY <1>4, <1>7, <2>1, <2>2
  <2>. QED BY <2>3, <2>4
<1>10. request' = [t \in Requests |-> IF t = r THEN Idle ELSE request[t]] /\ Idle.pc = "idle" /\ Idle.conv # c
  BY <1>2, ConvsAssumption DEF TypeInv, Idle
<1>11. Parentless(c)'
  BY <1>10 DEF UseInv, Parentless
<1>12. SessionsOf(c, made.periods)' = SessionsOf(c, made.periods)
  BY <1>2 DEF SessionsOf
<1>13. InUse(c)'
  BY <1>2, <1>7, <1>12 DEF UseInv, InUse
<1>14. Reaches(c)'
  <2>. SUFFICES ASSUME NEW k \in DOMAIN index, IsKnown(k, c)
                PROVE  \/ index[k] \in DOMAIN sessions' \cup DOMAIN rows'
                       \/ \E t \in Requests : request'[t].pc = "attach" /\ request'[t].conv = c /\ request'[t].sid = index[k]
    BY <1>2 DEF Reaches, IsKnown, Carries
  <2>1. CASE index[k] \in DOMAIN sessions \cup DOMAIN rows
    BY <1>7, <2>1
  <2>2. ASSUME NEW t \in Requests, request[t].pc = "attach", request[t].conv = c, request[t].sid = index[k]
        PROVE  request'[t].pc = "attach" /\ request'[t].conv = c /\ request'[t].sid = index[k]
    BY <1>2, <1>10, <2>2
  <2>. QED BY <2>1, <2>2 DEF UseInv, Reaches
<1>15. \A t : Present(c, t)' => t = s
  BY <1>5, <1>10, <1>12 DEF Present, Past
<1>16. LedByKey(c, s)'
  <2>1. Pk(c)' = Pk(c)
    BY <1>2, SameHeaders
  <2>. QED BY <1>2, <1>5, <2>1 DEF LedByKey
<1>. QED BY <1>8, <1>9, <1>11, <1>13, <1>14, <1>15, <1>16, OneUse DEF UseInv

LEMMA OwnAttach ==
    ASSUME TypeInv, NEW c \in Convs, Alone(c), KeyInv(c), UseInv(c),
           NEW r \in Requests, request[r].conv = c, Attach(r)
    PROVE  KeyInv(c)' /\ UseInv(c)'
<1>1. PICK s : s = request[r].sid
  OBVIOUS
<1>2. PICK q : q = IF request[r].isNew THEN [request[r] EXCEPT !.pc = "seed"] ELSE Idle
  OBVIOUS
<1>3. /\ request[r].pc = "attach" /\ request' = [request EXCEPT ![r] = q]
      /\ index' = Reindexed(s) /\ stale' = stale \ {s}
      /\ used' = [used EXCEPT ![c] = @ \cup {<<made.periods, s>>}]
      /\ client' = client /\ made' = made
  BY <1>1, <1>2, AttachIs
<1>4. request[r].parent = NoValue
  BY DEF UseInv, Parentless
<1>5. PICK x : Kept(Loaded(s), x) /\ sessions' = Put(sessions, s, x) /\ x.isSubagent = Loaded(s).isSubagent
  BY <1>1, <1>4, AttachIs
<1>6. PICK y : /\ y.key = Row(s).key /\ y.isSubagent = Row(s).isSubagent
               /\ (rows' = rows \/ rows' = Put(rows, s, y))
  <2>1. CASE rows' = rows
    BY <2>1
  <2>2. CASE rows' # rows
    <3>1. PICK y : Kept(Row(s), y) /\ rows' = Put(rows, s, y) /\ y.isSubagent = Row(s).isSubagent
      BY <1>1, <1>4, <2>2, AttachIs
    <3>. QED BY <3>1 DEF Kept
  <2>. QED BY <2>1, <2>2
<1>7. LedByKey(c, s) /\ (\A t : Present(c, t) => t = s) /\ Claims(s, c)
  BY <1>1, <1>3, OwnServed DEF Past
<1>8. \A t : Claims(t, c)' => Claims(t, c)
  BY <1>1, <1>7, AttachClaims DEF Claimed
<1>9. /\ DOMAIN sessions' = DOMAIN sessions \cup {s}
      /\ \A t \in DOMAIN sessions' : sessions'[t] = IF t = s THEN x ELSE sessions[t]
      /\ DOMAIN rows \subseteq DOMAIN rows'
      /\ \A t \in DOMAIN rows' : (t = s /\ rows'[t] = y) \/ (t \in DOMAIN rows /\ rows'[t] = rows[t])
  BY <1>5, <1>6 DEF Put
<1>10. \A k \in DOMAIN index' :
          \/ k \in DOMAIN index /\ index'[k] = index[k]
          \/ s \in DOMAIN rows /\ rows[s].key = k /\ index'[k] = s
  <2>1. CASE Reindexed(s) = index
    BY <1>3, <2>1
  <2>2. CASE s \in DOMAIN rows /\ Reindexed(s) = Put(index, Row(s).key, s)
    BY <1>3, <2>2 DEF Put, Row
  <2>. QED BY <2>1, <2>2, ReindexedIs
<1>11. DOMAIN index \subseteq DOMAIN index'
  <2>1. index' = index \/ \E k : index' = Put(index, k, s)
    BY <1>3, ReindexedIs
  <2>. QED BY <2>1 DEF Put
<1>12. Pn(c)' = Pn(c) /\ Pk(c)' = Pk(c)
  BY <1>3, SameHeaders
<1>13. \A k, t : Has(c, k, t)' => Has(c, k, t)
  <2>. SUFFICES ASSUME NEW k, NEW t, Has(c, k, t)' PROVE Has(c, k, t)
    OBVIOUS
  <2>1. IsKnown(k, c) /\ ((k \in DOMAIN index' /\ index'[k] = t) \/ (t \in DOMAIN rows' /\ rows'[t].key = k))
    BY DEF Has, Filed, IsKnown, Carries
  <2>2. CASE k \in DOMAIN index' /\ index'[k] = t
    BY <1>10, <2>1, <2>2 DEF Has, Filed
  <2>3. CASE t \in DOMAIN rows' /\ rows'[t].key = k
    <3>1. k # NoKey
      BY <2>1, KeyNames
    <3>2. t \in DOMAIN rows /\ rows[t].key = k
      <4>1. CASE t = s /\ rows'[t] = y
        BY <1>6, <2>3, <3>1, <4>1 DEF Row, Untracked
      <4>. QED BY <1>9, <2>3, <4>1
    <3>. QED BY <2>1, <3>2 DEF Has, Filed
  <2>. QED BY <2>1, <2>2, <2>3
<1>14. KeyInv(c)'
  <2>1. KeysSent(c)' /\ UpgradedOnce(c)'
    BY <1>3, <1>13 DEF KeyInv, KeysSent, UpgradedOnce
  <2>2. CASE Pn(c) \notin Sends[c]
    BY <1>12, <2>1, <2>2, AddedPrimary
  <2>3. CASE Pn(c) \in Sends[c]
    <3>1. Has(c, Pk(c), s)
      BY <1>7, PkIs DEF LedByKey, Has, Filed
    <3>2. \A k, t : Has(c, k, t) /\ k # Pk(c) => t \in stale /\ t # s
      BY <2>3, <3>1 DEF KeyInv, OthersStale, KeysDistinct
    <3>3. \A k, t : Has(c, k, t) /\ k # Pk(c) => t \in stale'
      BY <1>3, <3>2
    <3>4. KeysPrimary(c)' /\ KeysDistinct(c)'
      BY <1>12, <1>13 DEF KeyInv, KeysPrimary, KeysDistinct
    <3>5. OneLive(c)'
      BY <1>13, <3>3 DEF OneLive
    <3>6. OthersStale(c)'
      BY <1>12, <1>13, <3>3 DEF OthersStale
    <3>. QED BY <2>1, <3>4, <3>5, <3>6 DEF KeyInv
  <2>. QED BY <2>2, <2>3
<1>15. Unmarked(c)'
  <2>. SUFFICES ASSUME NEW t, Claims(t, c)'
                PROVE  /\ t \in DOMAIN sessions' => ~sessions'[t].isSubagent
                       /\ t \in DOMAIN rows' => ~rows'[t].isSubagent
    BY DEF Unmarked
  <2>1. /\ t \in DOMAIN sessions => ~sessions[t].isSubagent
        /\ t \in DOMAIN rows => ~rows[t].isSubagent
    BY <1>8 DEF UseInv, Unmarked
  <2>2. ~Row(t).isSubagent
    BY <2>1 DEF Row, Untracked
  <2>3. ~Loaded(t).isSubagent
    <3>1. CASE t \in DOMAIN sessions
      BY <2>1, <3>1 DEF Loaded
    <3>2. CASE t \notin DOMAIN sessions
      <4>1. PICK z : z = Row(t)
        OBVIOUS
      <4>2. DOMAIN z = TrackFields /\ ~z.isSubagent
        BY <2>2, <4>1, SessionsTyped DEF TrackTyped
      <4>3. Loaded(t) = [z EXCEPT !.candidate = NoValue]
        BY <3>2, <4>1 DEF Loaded
      <4>. QED BY <4>2, <4>3 DEF TrackFields
    <3>. QED BY <3>1, <3>2
  <2>4. t \in DOMAIN sessions' => ~sessions'[t].isSubagent
    BY <1>5, <1>9, <2>1, <2>3
  <2>5. t \in DOMAIN rows' => ~rows'[t].isSubagent
    BY <1>6, <1>9, <2>1, <2>2
  <2>. QED BY <2>4, <2>5
<1>16. /\ request' = [t \in Requests |-> IF t = r THEN q ELSE request[t]]
       /\ q = Idle \/ (q.pc = "seed" /\ q.sid = s /\ q.parent = NoValue)
       /\ Idle.pc = "idle" /\ Idle.conv # c
  <2>1. request' = [t \in Requests |-> IF t = r THEN q ELSE request[t]]
    BY <1>3 DEF TypeInv
  <2>2. Idle.pc = "idle" /\ Idle.conv # c
    BY ConvsAssumption DEF Idle
  <2>3. PICK p : p = request[r]
    OBVIOUS
  <2>4. DOMAIN p = RequestFields /\ p.sid = s /\ p.parent = NoValue
    BY <1>1, <1>3, <1>4, <2>3, RequestIs
  <2>5. q = Idle \/ q = [p EXCEPT !.pc = "seed"]
    BY <1>2, <2>3
  <2>6. q = Idle \/ (q.pc = "seed" /\ q.sid = s /\ q.parent = NoValue)
    BY <2>4, <2>5 DEF RequestFields
  <2>. QED BY <2>1, <2>2, <2>6
<1>17. Parentless(c)'
  BY <1>16 DEF UseInv, Parentless
<1>18. \A t : t \in SessionsOf(c, made.periods)' => t \in SessionsOf(c, made.periods) \/ t = s
  <2>1. used'[c] = used[c] \cup {<<made.periods, s>>}
    BY <1>3 DEF TypeInv
  <2>. QED BY <1>3, <2>1 DEF SessionsOf
<1>19. InUse(c)'
  BY <1>3, <1>9, <1>18 DEF UseInv, InUse
<1>20. Reaches(c)'
  <2>. SUFFICES ASSUME NEW k \in DOMAIN index', IsKnown(k, c)
                PROVE  \/ index'[k] \in DOMAIN sessions' \cup DOMAIN rows'
                       \/ \E t \in Requests : request'[t].pc = "attach" /\ request'[t].conv = c /\ request'[t].sid = index'[k]
    BY DEF Reaches, IsKnown, Carries
  <2>1. CASE index'[k] = s
    BY <1>9, <2>1
  <2>2. CASE index'[k] # s
    <3>1. k \in DOMAIN index /\ index'[k] = index[k]
      BY <1>10, <2>2
    <3>2. CASE index[k] \in DOMAIN sessions \cup DOMAIN rows
      BY <1>9, <3>1, <3>2
    <3>3. ASSUME NEW t \in Requests, request[t].pc = "attach", request[t].conv = c, request[t].sid = index[k]
          PROVE  request'[t].pc = "attach" /\ request'[t].conv = c /\ request'[t].sid = index[k]
      BY <1>1, <1>16, <2>2, <3>1, <3>3
    <3>. QED BY <3>1, <3>2, <3>3 DEF UseInv, Reaches
  <2>. QED BY <2>1, <2>2
<1>21. \A t : Present(c, t)' => t = s
  <2>. SUFFICES ASSUME NEW t, Present(c, t)', t # s PROVE FALSE
    OBVIOUS
  <2>1. CASE t \in SessionsOf(c, made.periods)'
    BY <1>7, <1>18, <2>1 DEF Present
  <2>2. CASE \E p \in Requests : Past(p, c)' /\ request'[p].sid = t
    <3>1. PICK p \in Requests : Past(p, c)' /\ request'[p].sid = t
      BY <2>2
    <3>2. p # r
      BY <1>16, <3>1 DEF Past
    <3>3. Past(p, c) /\ request[p].sid = t
      BY <1>16, <3>1, <3>2 DEF Past
    <3>. QED BY <1>7, <3>3 DEF Present
  <2>. QED BY <2>1, <2>2 DEF Present
<1>22. LedByKey(c, s)'
  <2>1. Pk(c) \in DOMAIN index'
    BY <1>7, <1>11 DEF LedByKey
  <2>2. index'[Pk(c)] = s
    BY <1>7, <1>10, <2>1 DEF LedByKey
  <2>. QED BY <1>12, <2>1, <2>2 DEF LedByKey
<1>. QED BY <1>14, <1>15, <1>17, <1>19, <1>20, <1>21, <1>22, OneUse DEF UseInv

-----------------------------------------------------------------------------
(* Changes of its client.                                                  *)

LEMMA ClientStill ==
    ASSUME OneChange, TypeInv, NEW c \in Convs, Alone(c), UseInv(c), ~InProgress(c),
           client[c].changes < MaxChanges, client'[c].changes # 0,
           UNCHANGED <<initialized, index, sessions, rows, values, stale, request, used, made>>
    PROVE  /\ \A k, s : Has(c, k, s)' <=> Has(c, k, s)
           /\ \A s : Present(c, s)' => Present(c, s)
           /\ \A s : Present(c, s) => LedByKey(c, s) /\ MayRotate(s)
           /\ AllLed(c)' => UseInv(c)'
<1>1. client[c].changes = 0
  <2>1. client[c].changes \in Nat
    BY DEF TypeInv, ClientsTyped, ClientTyped
  <2>. QED BY <2>1 DEF OneChange
<1>2. \A t \in Requests : request[t].conv # c
  BY DEF InProgress
<1>3. \A k, s : Has(c, k, s)' <=> Has(c, k, s)
  BY DEF Has, Filed, IsKnown, Carries
<1>4. SessionsOf(c, made.periods)' = SessionsOf(c, made.periods)
  BY DEF SessionsOf
<1>5. \A s : Present(c, s)' => Present(c, s)
  BY <1>4 DEF Present, Past
<1>6. ASSUME NEW s, Present(c, s) PROVE LedByKey(c, s) /\ MayRotate(s)
  <2>1. Pk(c) \in DOMAIN index
    BY <1>1, <1>2, <1>6 DEF UseInv, Settled
  <2>2. Led(c, s)
    BY <1>6 DEF UseInv, AllLed
  <2>3. LedByKey(c, s)
    BY <2>1, <2>2 DEF Led, LedByOther, LedByRotation
  <2>4. s \in SessionsOf(c, made.periods)
    BY <1>2, <1>6 DEF Present, Past
  <2>5. s \in DOMAIN sessions /\ s \notin stale
    BY <2>4 DEF UseInv, InUse
  <2>6. ~sessions[s].isSubagent
    BY <1>6, <2>5, PresentClaims DEF UseInv, Unmarked
  <2>. QED BY <2>3, <2>5, <2>6 DEF MayRotate
<1>7. ASSUME AllLed(c)' PROVE UseInv(c)'
  <2>1. Unmarked(c)'
    <3>1. \A k : KeyOf(k, c)' <=> KeyOf(k, c)
      BY DEF KeyOf, IsKnown, IsLearned, ClientKey, Carries
    <3>2. \A t : IndexedFor(t, c)' => IndexedFor(t, c)
      BY <3>1 DEF IndexedFor
    <3>3. \A t : (Holds(sessions, t, c)' => Holds(sessions, t, c)) /\ (Holds(rows, t, c)' => Holds(rows, t, c))
      BY <3>1 DEF Holds
    <3>4. \A t : (UsedBy(t, c)' => UsedBy(t, c)) /\ (Serves(t, c)' => Serves(t, c))
      BY DEF UsedBy, Serves
    <3>5. \A t : Claims(t, c)' => Claims(t, c)
      BY <3>2, <3>3, <3>4 DEF Claims
    <3>. QED BY <3>5 DEF UseInv, Unmarked
  <2>2. Parentless(c)'
    BY DEF UseInv, Parentless
  <2>3. InUse(c)'
    BY <1>4 DEF UseInv, InUse
  <2>4. Reaches(c)'
    BY DEF UseInv, Reaches, IsKnown, Carries
  <2>5. PastLed(c)'
    BY <1>2 DEF PastLed, Past
  <2>6. Settled(c)'
    BY DEF Settled
  <2>. QED BY <1>7, <2>1, <2>2, <2>3, <2>4, <2>5, <2>6 DEF UseInv
<1>. QED BY <1>3, <1>5, <1>6, <1>7

\* The headers the client has a value for.
LEMMA CarriedIs ==
    ASSUME NEW c
    PROVE  /\ Carried(HeadersOf(c)) = {i \in DOMAIN KnownHeaders : client[c].gen[KnownHeaders[i]] # 0}
           /\ Carried(HeadersOf(c))' = {i \in DOMAIN KnownHeaders : client'[c].gen[KnownHeaders[i]] # 0}
<1>1. ASSUME NEW g, NEW h, h = [n \in Names |-> IF g[n] = 0 THEN NoValue ELSE <<c, g[n]>>]
      PROVE  Carried(h) = {i \in DOMAIN KnownHeaders : g[KnownHeaders[i]] # 0}
  <2>1. ASSUME NEW i \in DOMAIN KnownHeaders PROVE h[KnownHeaders[i]] # NoValue <=> g[KnownHeaders[i]] # 0
    <3>1. KnownHeaders[i] \in Names
      BY DEF Names
    <3>. QED BY <1>1, <3>1 DEF NoValue
  <2>. QED BY <2>1 DEF Carried
<1>2. Carried(HeadersOf(c)) = {i \in DOMAIN KnownHeaders : client[c].gen[KnownHeaders[i]] # 0}
  BY <1>1 DEF HeadersOf
<1>3. Carried(HeadersOf(c))' = {i \in DOMAIN KnownHeaders : client'[c].gen[KnownHeaders[i]] # 0}
  <2>1. PICK h : h = [n \in Names |-> IF client'[c].gen[n] = 0 THEN NoValue ELSE <<c, client'[c].gen[n]>>]
    OBVIOUS
  <2>2. Carried(HeadersOf(c))' = Carried(h)
    BY <2>1 DEF HeadersOf, Carried
  <2>3. Carried(h) = {i \in DOMAIN KnownHeaders : client'[c].gen[KnownHeaders[i]] # 0}
    BY <1>1, <2>1
  <2>. QED BY <2>2, <2>3
<1>. QED BY <1>2, <1>3

LEMMA PkNext ==
    ASSUME NEW c, Pn(c)' \in Names, client'[c].gen[Pn(c)'] # 0
    PROVE  Pk(c)' = Key(Pn(c)', <<c, client'[c].gen[Pn(c)']>>)
<1>1. PICK n : n = Pn(c)'
  OBVIOUS
<1>2. Pk(c)' = Key(n, HeadersOf(c)'[n])
  BY <1>1 DEF Pk, Pn, PrimaryKey
<1>3. HeadersOf(c)'[n] = <<c, client'[c].gen[n]>>
  BY <1>1 DEF HeadersOf
<1>. QED BY <1>1, <1>2, <1>3

LEMMA OwnRestarts ==
    ASSUME OneChange, TypeInv, TypeInv', NEW c \in Convs, Alone(c),
           KeyInv(c), UseInv(c), ClientRestarts(c)
    PROVE  KeyInv(c)' /\ UseInv(c)'
<1>1. PICK moved : moved = Sends[c] \cap Volatile
  OBVIOUS
<1>2. PICK g : g = client[c].gen
  OBVIOUS
<1>3. g \in [Names -> Nat] /\ Sends[c] \subseteq Names /\ (\A n \in Sends[c] : g[n] # 0) /\ moved \subseteq Sends[c]
  BY <1>1, <1>2, ConvsAssumption DEF TypeInv, ClientsTyped, ClientTyped
<1>4. /\ ~InProgress(c) /\ client[c].changes < MaxChanges
      /\ UNCHANGED <<initialized, index, sessions, rows, values, stale, request, used, made>>
  BY DEF ClientRestarts
<1>5. client'[c].gen = [n \in Names |-> IF n \in moved THEN g[n] + 1 ELSE g[n]] /\ client'[c].changes # 0
  <2>1. PICK v : v = client[c]
    OBVIOUS
  <2>2. PICK h : h = [n \in Names |-> IF n \in moved THEN v.gen[n] + 1 ELSE v.gen[n]]
    OBVIOUS
  <2>3. DOMAIN v = {"gen", "sent", "changes"} /\ v.changes \in Nat
    BY <2>1 DEF TypeInv, ClientsTyped, ClientTyped
  <2>4. PICK w : w = [v EXCEPT !.gen = h, !.changes = @ + 1]
    OBVIOUS
  <2>5. w.gen = h /\ w.changes = v.changes + 1
    BY <2>3, <2>4
  <2>6. client'[c] = w
    BY <1>1, <2>1, <2>2, <2>4 DEF ClientRestarts, TypeInv, ClientsTyped
  <2>. QED BY <1>2, <2>1, <2>2, <2>3, <2>5, <2>6
<1>6. \A n \in Names : client'[c].gen[n] \in Nat /\ g[n] <= client'[c].gen[n] /\ (client'[c].gen[n] = 0 <=> g[n] = 0)
  BY <1>3, <1>5
<1>7. /\ \A k, s : Has(c, k, s)' <=> Has(c, k, s)
      /\ \A s : Present(c, s)' => Present(c, s)
      /\ \A s : Present(c, s) => LedByKey(c, s) /\ MayRotate(s)
      /\ AllLed(c)' => UseInv(c)'
  BY <1>4, <1>5, ClientStill
<1>8. Pn(c)' = Pn(c) /\ Pn(c) \in Names /\ Pn(c) \in Carries(c)
  <2>1. Carried(HeadersOf(c)) = {i \in DOMAIN KnownHeaders : client[c].gen[KnownHeaders[i]] # 0}
    BY CarriedIs
  <2>2. Carried(HeadersOf(c))' = {i \in DOMAIN KnownHeaders : client'[c].gen[KnownHeaders[i]] # 0}
    BY CarriedIs
  <2>3. Carried(HeadersOf(c))' = Carried(HeadersOf(c))
    BY <1>2, <1>6, <2>1, <2>2 DEF Names
  <2>. QED BY <2>3, PkIs DEF Pn, Primary
<1>9. PICK p : p = Pn(c)
  OBVIOUS
<1>10. /\ p \in Names /\ g[p] # 0 /\ Pk(c) = Key(p, <<c, g[p]>>) /\ Pn(c)' = p
       /\ Pk(c)' = Key(p, <<c, client'[c].gen[p]>>)
  <2>1. g[p] # 0 /\ Pk(c) = Key(p, <<c, g[p]>>)
    BY <1>2, <1>9, PkIs
  <2>. QED BY <1>6, <1>8, <1>9, <2>1, PkNext
<1>11. \A s : p \in moved => ~Has(c, Pk(c)', s)
  <2>. SUFFICES ASSUME NEW s, p \in moved, NEW k, k = Pk(c)', Has(c, k, s) PROVE FALSE
    OBVIOUS
  <2>1. k[1] = p /\ k[2][2] = g[p] + 1 /\ g[p] \in Nat
    BY <1>3, <1>5, <1>10 DEF Key
  <2>2. k[2][2] <= g[p]
    BY <1>2, <2>1 DEF KeyInv, KeysSent
  <2>. QED BY <2>1, <2>2
<1>12. p \notin moved => Pk(c)' = Pk(c)
  BY <1>5, <1>10
<1>13. KeyInv(c)'
  <2>1. KeysSent(c)'
    <3>. SUFFICES ASSUME NEW k, NEW s, Has(c, k, s) PROVE k[2][2] <= client'[c].gen[k[1]]
      BY <1>7 DEF KeysSent
    <3>1. k[1] \in Names /\ k[2][2] \in Nat
      BY KnownIs, KeyNames DEF Has
    <3>2. k[2][2] <= g[k[1]] /\ g[k[1]] \in Nat
      BY <1>2, <1>3, <3>1 DEF KeyInv, KeysSent
    <3>3. g[k[1]] <= client'[c].gen[k[1]] /\ client'[c].gen[k[1]] \in Nat
      BY <1>6, <3>1
    <3>. QED BY <3>1, <3>2, <3>3
  <2>2. KeysPrimary(c)' /\ KeysDistinct(c)'
    BY <1>7, <1>8 DEF KeyInv, KeysPrimary, KeysDistinct
  <2>3. OneLive(c)'
    BY <1>4, <1>7, <1>8 DEF KeyInv, OneLive
  <2>4. OthersStale(c)'
    <3>1. CASE p \in moved
      BY <1>7, <1>11, <3>1 DEF OthersStale
    <3>2. CASE p \notin moved
      BY <1>4, <1>7, <1>8, <1>12, <3>2 DEF KeyInv, OthersStale
    <3>. QED BY <3>1, <3>2
  <2>5. UpgradedOnce(c)'
    <3>1. \A n \in Names \ Sends[c] : client'[c].gen[n] = g[n]
      BY <1>3, <1>5
    <3>2. Adds[c] \subseteq Names
      BY ConvsAssumption
    <3>3. UpgradedOnce(c)
      BY DEF KeyInv
    <3>4. \A n \in Names \ Sends[c] : client'[c].gen[n] <= 1
      BY <1>2, <3>1, <3>3 DEF UpgradedOnce
    <3>5. (\E n \in Adds[c] \ Sends[c] : client'[c].gen[n] # 0) => \A n \in Adds[c] : client'[c].gen[n] # 0
      BY <1>2, <1>6, <3>2, <3>3 DEF UpgradedOnce
    <3>. QED BY <3>4, <3>5 DEF UpgradedOnce
  <2>. QED BY <2>1, <2>2, <2>3, <2>4, <2>5 DEF KeyInv
<1>14. ASSUME NEW s, Present(c, s) PROVE Led(c, s)'
  <2>1. Pk(c) \in DOMAIN index /\ index[Pk(c)] = s /\ MayRotate(s)
    BY <1>7, <1>14 DEF LedByKey
  <2>2. CASE p \notin moved
    BY <1>4, <1>12, <2>1, <2>2 DEF Led, LedByKey
  <2>3. CASE p \in moved
    <3>1. Pk(c)' \notin DOMAIN index'
      <4>. SUFFICES ASSUME NEW k, k = Pk(c)', k \in DOMAIN index PROVE FALSE
        BY <1>4
      <4>1. g[p] + 1 \in Nat \ {0} /\ client'[c].gen[p] = g[p] + 1
        BY <1>3, <1>5, <1>10, <2>3
      <4>2. IsKnown(k, c)
        BY <1>8, <1>9, <1>10, <4>1 DEF IsKnown
      <4>3. Has(c, k, index[k])
        BY <4>2 DEF Has, Filed
      <4>. QED BY <1>11, <2>3, <4>3
    <3>2. Fallbacks(HeadersOf(c))' = {}
      <4>. SUFFICES ASSUME NEW i \in DOMAIN KnownHeaders, client'[c].gen[KnownHeaders[i]] # 0, KnownHeaders[i] # p,
                           Key(KnownHeaders[i], HeadersOf(c)'[KnownHeaders[i]]) \in DOMAIN index
                    PROVE  FALSE
        <5>1. Carried(HeadersOf(c))' = {i \in DOMAIN KnownHeaders : client'[c].gen[KnownHeaders[i]] # 0}
          BY CarriedIs
        <5>2. Fallbacks(HeadersOf(c))' =
                 {i \in Carried(HeadersOf(c))' :
                     KnownHeaders[i] # Pn(c)' /\ Key(KnownHeaders[i], HeadersOf(c)'[KnownHeaders[i]]) \in DOMAIN index'}
          BY DEF Fallbacks, Pn
        <5>. QED BY <1>4, <1>10, <5>1, <5>2
      <4>1. PICK n : n = KnownHeaders[i]
        OBVIOUS
      <4>2. PICK k : k = Key(n, HeadersOf(c)'[n])
        OBVIOUS
      <4>3. n \in Names /\ g[n] # 0 /\ client'[c].gen[n] \in Nat \ {0}
        BY <1>6, <4>1 DEF Names
      <4>4. n \in Carries(c)
        BY <1>2, <4>3 DEF TypeInv, ClientsTyped, ClientTyped
      <4>5. k = Key(n, <<c, client'[c].gen[n]>>)
        BY <4>2, <4>3 DEF HeadersOf
      <4>6. IsKnown(k, c) /\ k[1] = n
        BY <4>3, <4>4, <4>5 DEF IsKnown, Key
      <4>7. Has(c, k, index[k])
        BY <4>1, <4>2, <4>6 DEF Has, Filed
      <4>8. Pn(c) \in Sends[c]
        BY <1>3, <1>9, <2>3
      <4>. QED BY <1>9, <4>1, <4>6, <4>7, <4>8 DEF KeyInv, KeysPrimary
    <3>3. Predecessors(HeadersOf(c)) = {Pk(c)}
      <4>1. Pk(c)[1] = p /\ IsKnown(Pk(c), c)
        BY <1>9, <1>10, PkIs DEF Key
      <4>2. Pk(c) \in Predecessors(HeadersOf(c))
        BY <1>9, <2>1, <4>1 DEF Predecessors, Pn
      <4>3. ASSUME NEW k \in Predecessors(HeadersOf(c)) PROVE k = Pk(c)
        <5>1. Has(c, k, index[k]) /\ index[k] \notin stale
          BY PredecessorsIs DEF MayRotate
        <5>2. Has(c, Pk(c), s)
          BY <2>1, <4>1 DEF Has, Filed
        <5>3. Pn(c) \in Sends[c]
          BY <1>3, <1>9, <2>3
        <5>. QED BY <5>1, <5>2, <5>3 DEF KeyInv, OthersStale
      <4>. QED BY <4>2, <4>3
    <3>4. Predecessors(HeadersOf(c))' = Predecessors(HeadersOf(c))
      <4>1. Predecessors(HeadersOf(c)) = {k \in DOMAIN index : k[1] = Pn(c) /\ MayRotate(index[k])}
        BY DEF Predecessors, Pn
      <4>2. Predecessors(HeadersOf(c))' = {k \in DOMAIN index' : k[1] = Pn(c)' /\ MayRotate(index[k])'}
        BY DEF Predecessors, Pn
      <4>3. \A k : MayRotate(index[k])' <=> MayRotate(index[k])
        BY <1>4 DEF MayRotate
      <4>. QED BY <1>4, <1>8, <4>1, <4>2, <4>3
    <3>5. LedByRotation(c, s)'
      <4>1. Predecessors(HeadersOf(c))' = {Pk(c)} /\ index'[Pk(c)] = s
        BY <1>4, <2>1, <3>3, <3>4
      <4>. QED BY <3>1, <3>2, <4>1 DEF LedByRotation
    <3>. QED BY <3>5 DEF Led
  <2>. QED BY <2>2, <2>3
<1>15. AllLed(c)'
  BY <1>7, <1>14 DEF AllLed
<1>. QED BY <1>7, <1>13, <1>15

\* The first of two sets of headers, when the larger's is in the smaller.
LEMMA FirstOf ==
    ASSUME NEW T, NEW U, T \subseteq U, U \subseteq Nat, T # {}, Min(U) \in T
    PROVE  Min(T) = Min(U)
<1>1. Min(T) \in T /\ \A y \in T : Min(T) <= y
  BY LeastOf
<1>2. Min(U) \in U /\ \A y \in U : Min(U) <= y
  BY LeastOf
<1>3. Min(T) \in Nat /\ Min(U) \in Nat
  BY <1>1, <1>2
<1>4. Min(T) <= Min(U) /\ Min(U) <= Min(T)
  BY <1>1, <1>2
<1>. QED BY <1>3, <1>4

LEMMA OwnUpgraded ==
    ASSUME OneChange, TypeInv, NEW c \in Convs, Alone(c), KeyInv(c), UseInv(c), ClientUpgraded(c)
    PROVE  KeyInv(c)' /\ UseInv(c)'
<1>1. PICK g : g = client[c].gen
  OBVIOUS
<1>2. /\ g \in [Names -> Nat] /\ Sends[c] \subseteq Names /\ Adds[c] \subseteq Names
      /\ (\A n \in Sends[c] : g[n] # 0) /\ (\A n \in Names : g[n] # 0 => n \in Carries(c))
  BY <1>1, ConvsAssumption DEF TypeInv, ClientsTyped, ClientTyped
<1>3. /\ ~InProgress(c) /\ client[c].changes < MaxChanges /\ \E n \in Adds[c] : g[n] = 0
      /\ UNCHANGED <<initialized, index, sessions, rows, values, stale, request, used, made>>
  BY <1>1 DEF ClientUpgraded
<1>4. client'[c].gen = [n \in Names |-> IF n \in Adds[c] /\ g[n] = 0 THEN 1 ELSE g[n]] /\ client'[c].changes # 0
  <2>1. PICK v : v = client[c]
    OBVIOUS
  <2>2. PICK h : h = [n \in Names |-> IF n \in Adds[c] /\ v.gen[n] = 0 THEN 1 ELSE v.gen[n]]
    OBVIOUS
  <2>3. DOMAIN v = {"gen", "sent", "changes"} /\ v.changes \in Nat
    BY <2>1 DEF TypeInv, ClientsTyped, ClientTyped
  <2>4. PICK w : w = [v EXCEPT !.gen = h, !.changes = @ + 1]
    OBVIOUS
  <2>5. w.gen = h /\ w.changes = v.changes + 1
    BY <2>3, <2>4
  <2>6. client'[c] = w
    BY <2>1, <2>2, <2>4 DEF ClientUpgraded, TypeInv, ClientsTyped
  <2>. QED BY <1>1, <2>1, <2>2, <2>3, <2>5, <2>6
<1>5. \A n \in Names : n \notin Sends[c] => g[n] = 0
  <2>1. UpgradedOnce(c)
    BY DEF KeyInv
  <2>2. \A n \in Adds[c] \ Sends[c] : g[n] = 0
    BY <1>1, <1>3, <2>1 DEF UpgradedOnce
  <2>. QED BY <1>2, <2>2 DEF Carries
<1>6. \A n \in Names : client'[c].gen[n] \in Nat /\ g[n] <= client'[c].gen[n] /\ (n \in Sends[c] => client'[c].gen[n] = g[n])
  BY <1>2, <1>4
<1>7. /\ \A k, s : Has(c, k, s)' <=> Has(c, k, s)
      /\ \A s : Present(c, s)' => Present(c, s)
      /\ \A s : Present(c, s) => LedByKey(c, s) /\ MayRotate(s)
      /\ AllLed(c)' => UseInv(c)'
  BY <1>3, <1>4, ClientStill
<1>8. KeysSent(c)'
  <2>. SUFFICES ASSUME NEW k, NEW s, Has(c, k, s) PROVE k[2][2] <= client'[c].gen[k[1]]
    BY <1>7 DEF KeysSent
  <2>1. k[1] \in Names /\ k[2][2] \in Nat
    BY KnownIs, KeyNames DEF Has
  <2>2. k[2][2] <= g[k[1]] /\ g[k[1]] \in Nat
    BY <1>1, <1>2, <2>1 DEF KeyInv, KeysSent
  <2>3. g[k[1]] <= client'[c].gen[k[1]] /\ client'[c].gen[k[1]] \in Nat
    BY <1>6, <2>1
  <2>. QED BY <2>1, <2>2, <2>3
<1>9. UpgradedOnce(c)'
  <2>1. \A n \in Adds[c] : client'[c].gen[n] # 0
    BY <1>2, <1>4
  <2>2. \A n \in Names \ Sends[c] : client'[c].gen[n] <= 1
    BY <1>4, <1>5
  <2>. QED BY <2>1, <2>2 DEF UpgradedOnce
<1>10. PICK old : old = Carried(HeadersOf(c))
  OBVIOUS
<1>11. PICK new : new = Carried(HeadersOf(c))'
  OBVIOUS
<1>12. /\ old = {i \in DOMAIN KnownHeaders : g[KnownHeaders[i]] # 0}
       /\ new = {i \in DOMAIN KnownHeaders : client'[c].gen[KnownHeaders[i]] # 0}
  BY <1>1, <1>10, <1>11, CarriedIs
<1>13. /\ old \subseteq new /\ new \subseteq Nat /\ old # {} /\ Min(new) \in new /\ Min(old) \in old
       /\ Pn(c) = KnownHeaders[Min(old)] /\ Pn(c)' = KnownHeaders[Min(new)]
  <2>1. \A i \in DOMAIN KnownHeaders : KnownHeaders[i] \in Names
    BY DEF Names
  <2>2. old \subseteq new
    <3>. SUFFICES ASSUME NEW i \in DOMAIN KnownHeaders, g[KnownHeaders[i]] # 0 PROVE client'[c].gen[KnownHeaders[i]] # 0
      BY <1>12
    <3>1. KnownHeaders[i] \in Names
      BY <2>1
    <3>. QED BY <1>2, <1>4, <3>1
  <2>3. new \subseteq Nat
    <3>1. DOMAIN KnownHeaders \subseteq Nat
      BY HeadersAssumption
    <3>. QED BY <1>12, <3>1
  <2>4. old # {}
    BY <1>10, PkIs DEF HasKnown
  <2>5. Min(new) \in new /\ Min(old) \in old
    BY <2>2, <2>3, <2>4, LeastOf
  <2>. QED BY <1>10, <1>11, <2>2, <2>3, <2>4, <2>5 DEF Pn, Primary
<1>14. Pn(c) \in Sends[c] /\ Pn(c) \in Names
  BY <1>5, <1>12, <1>13 DEF Names
<1>15. Pn(c)' \in Names /\ client'[c].gen[Pn(c)'] # 0
  BY <1>12, <1>13 DEF Names
<1>16. Pn(c)' \in Sends[c] => Pn(c)' = Pn(c)
  <2>. SUFFICES ASSUME Pn(c)' \in Sends[c] PROVE Min(new) \in old
    BY <1>13, FirstOf
  <2>. QED BY <1>2, <1>12, <1>13
<1>17. Pn(c)' = Pn(c) => Pk(c)' = Pk(c)
  <2>1. Pk(c) = Key(Pn(c), <<c, g[Pn(c)]>>)
    BY <1>1, PkIs
  <2>2. Pn(c)' = Pn(c) => Pk(c)' = Key(Pn(c), <<c, client'[c].gen[Pn(c)]>>)
    BY <1>15, PkNext
  <2>. QED BY <1>6, <1>14, <2>1, <2>2
<1>18. KeyInv(c)'
  <2>1. CASE Pn(c)' \notin Sends[c]
    BY <1>8, <1>9, <2>1, AddedPrimary
  <2>2. CASE Pn(c)' \in Sends[c]
    <3>1. Pn(c)' = Pn(c) /\ Pk(c)' = Pk(c) /\ stale' = stale
      BY <1>3, <1>16, <1>17, <2>2
    <3>2. KeysPrimary(c)' /\ KeysDistinct(c)'
      BY <1>7, <3>1 DEF KeyInv, KeysPrimary, KeysDistinct
    <3>3. OneLive(c)' /\ OthersStale(c)'
      BY <1>7, <3>1 DEF KeyInv, OneLive, OthersStale
    <3>. QED BY <1>8, <1>9, <3>2, <3>3 DEF KeyInv
  <2>. QED BY <2>1, <2>2
<1>19. ASSUME NEW s, Present(c, s) PROVE Led(c, s)'
  <2>1. Pk(c) \in DOMAIN index /\ index[Pk(c)] = s /\ index' = index
    BY <1>3, <1>7, <1>19 DEF LedByKey
  <2>2. CASE Pn(c)' = Pn(c)
    BY <1>17, <2>1, <2>2 DEF Led, LedByKey
  <2>3. CASE Pn(c)' # Pn(c)
    <3>1. PICK n : n = Pn(c)'
      OBVIOUS
    <3>2. n \notin Sends[c] /\ n \in Names /\ client'[c].gen[n] # 0 /\ g[n] = 0
      BY <1>5, <1>15, <1>16, <2>3, <3>1
    <3>3. Pk(c)' = Key(n, <<c, 1>>) /\ n \in Carries(c)
      <4>1. Pk(c)' = Key(n, <<c, client'[c].gen[n]>>)
        BY <1>15, <3>1, PkNext
      <4>2. n \in Adds[c] /\ client'[c].gen[n] = 1
        BY <1>4, <3>2
      <4>. QED BY <4>1, <4>2 DEF Carries
    <3>4. Pk(c)' \notin DOMAIN index
      <4>. SUFFICES ASSUME Pk(c)' \in DOMAIN index PROVE FALSE
        OBVIOUS
      <4>1. PICK k : k = Pk(c)'
        OBVIOUS
      <4>2. k[1] = n /\ k[2][2] = 1 /\ IsKnown(k, c)
        BY <3>3, <4>1 DEF Key, IsKnown
      <4>3. Has(c, k, index[k])
        BY <4>1, <4>2 DEF Has, Filed
      <4>4. 1 <= g[n]
        BY <1>1, <4>2, <4>3 DEF KeyInv, KeysSent
      <4>. QED BY <3>2, <4>4
    <3>5. PICK h : h = HeadersOf(c)'
      OBVIOUS
    <3>6. \A j \in Names : client'[c].gen[j] # 0 => h[j] = <<c, client'[c].gen[j]>>
      BY <3>5 DEF HeadersOf
    <3>7. PICK F : F = Fallbacks(HeadersOf(c))'
      OBVIOUS
    <3>8. F = {i \in new : KnownHeaders[i] # n /\ Key(KnownHeaders[i], h[KnownHeaders[i]]) \in DOMAIN index}
      BY <1>11, <2>1, <3>1, <3>5, <3>7 DEF Fallbacks, Pn
    <3>9. Pk(c) = Key(Pn(c), h[Pn(c)])
      <4>1. Pk(c) = Key(Pn(c), <<c, g[Pn(c)]>>) /\ g[Pn(c)] # 0
        BY <1>1, PkIs
      <4>2. client'[c].gen[Pn(c)] = g[Pn(c)]
        BY <1>6, <1>14
      <4>. QED BY <1>14, <3>6, <4>1, <4>2
    <3>10. Min(old) \in F
      BY <1>13, <2>1, <2>3, <3>1, <3>8, <3>9
    <3>11. ASSUME NEW i \in F PROVE KnownHeaders[i] = Pn(c)
      <4>1. PICK j : j = KnownHeaders[i]
        OBVIOUS
      <4>2. j \in Names /\ client'[c].gen[j] # 0 /\ Key(j, h[j]) \in DOMAIN index
        BY <1>12, <3>8, <3>11, <4>1 DEF Names
      <4>3. j \in Carries(c) /\ client'[c].gen[j] \in Nat
        BY <1>2, <1>4, <1>6, <4>2 DEF Carries
      <4>4. PICK k : k = Key(j, h[j])
        OBVIOUS
      <4>5. k[1] = j /\ IsKnown(k, c)
        BY <3>6, <4>2, <4>3, <4>4 DEF IsKnown, Key
      <4>6. Has(c, k, index[k])
        BY <4>2, <4>4, <4>5 DEF Has, Filed
      <4>. QED BY <1>14, <4>1, <4>5, <4>6 DEF KeyInv, KeysPrimary
    <3>12. KnownHeaders[Min(F)] = Pn(c)
      <4>1. F \subseteq Nat /\ F # {}
        BY <1>13, <3>8, <3>10
      <4>. QED BY <3>11, <4>1, LeastOf
    <3>13. OtherName(HeadersOf(c))' = Pn(c)
      BY <3>7, <3>12 DEF OtherName
    <3>14. LedByOther(c, s)'
      <4>1. index'[Key(OtherName(HeadersOf(c))', h[OtherName(HeadersOf(c))'])] = s
        BY <2>1, <3>9, <3>13
      <4>2. Fallbacks(HeadersOf(c))' # {} /\ Pk(c)' \notin DOMAIN index'
        BY <2>1, <3>4, <3>7, <3>10
      <4>. QED BY <3>5, <4>1, <4>2 DEF LedByOther
    <3>. QED BY <3>14 DEF Led
  <2>. QED BY <2>2, <2>3
<1>20. AllLed(c)'
  BY <1>7, <1>19 DEF AllLed
<1>. QED BY <1>7, <1>18, <1>20

-----------------------------------------------------------------------------
(* Days and restarts of the gateway.                                       *)

\* Nothing is in use in a new period.
LEMMA NewPeriodAbsent ==
    ASSUME TypeInv, NEW c \in Convs, made' = [made EXCEPT !.periods = @ + 1], used' = used,
           \A r \in Requests : request'[r].pc = "idle"
    PROVE  InUse(c)' /\ AllLed(c)' /\ PastLed(c)' /\ Settled(c)'
<1>1. made.periods \in Nat /\ made'.periods = made.periods + 1
  BY DEF TypeInv
<1>2. \A u \in used[c] : u[1] # made'.periods
  <2>1. \A u \in used[c] : u[1] \in 1 .. made.periods
    BY DEF TypeInv, UsedTyped
  <2>. QED BY <1>1, <2>1
<1>3. \A s : s \notin SessionsOf(c, made.periods)'
  BY <1>2 DEF SessionsOf
<1>4. \A r \in Requests : ~Past(r, c)'
  BY DEF Past
<1>5. \A s : ~Present(c, s)'
  BY <1>3, <1>4 DEF Present
<1>. QED BY <1>5, AbsentUse

LEMMA AloneDayPasses ==
    ASSUME TypeInv, NEW c \in Convs, Alone(c), KeyInv(c), UseInv(c), DayPasses
    PROVE  KeyInv(c)' /\ UseInv(c)'
<1>1. /\ made' = [made EXCEPT !.periods = @ + 1] /\ used' = used /\ request' = request /\ client' = client
      /\ index' = index /\ sessions' = sessions /\ rows' = rows
      /\ stale' = DOMAIN sessions \cup DOMAIN rows
      /\ \A t \in Requests : request[t].pc = "idle"
  BY DEF DayPasses
<1>2. \A k, s : Has(c, k, s) => s \in DOMAIN sessions \cup DOMAIN rows
  <2>. SUFFICES ASSUME NEW k, NEW s, IsKnown(k, c), k \in DOMAIN index, index[k] = s
                PROVE  s \in DOMAIN sessions \cup DOMAIN rows
    BY DEF Has, Filed
  <2>. QED BY <1>1 DEF UseInv, Reaches
<1>3. KeyInv(c)'
  <2>1. \A k, s : Has(c, k, s)' => Has(c, k, s)
    BY <1>1 DEF Has, Filed, IsKnown, Carries
  <2>. QED BY <1>1, <1>2, <2>1, KeptKeyInv
<1>4. Unmarked(c)'
  <2>1. \A s : Claims(s, c)' => Claims(s, c)
    BY <1>1, Unclaimed DEF Claims
  <2>. QED BY <1>1, <2>1 DEF UseInv, Unmarked
<1>5. Parentless(c)' /\ Reaches(c)'
  BY <1>1 DEF UseInv, Parentless, Reaches, IsKnown, Carries
<1>. QED BY <1>1, <1>3, <1>4, <1>5, NewPeriodAbsent DEF UseInv

LEMMA AloneRestart ==
    ASSUME TypeInv, NEW c \in Convs, Alone(c), KeyInv(c), UseInv(c), Restart
    PROVE  KeyInv(c)' /\ UseInv(c)'
<1>1. /\ made' = [made EXCEPT !.periods = @ + 1] /\ used' = used /\ client' = client
      /\ index' = [k \in {} |-> 0] /\ sessions' = [s \in {} |-> Untracked] /\ rows' = rows /\ stale' = stale
      /\ request' = [t \in Requests |-> Idle]
  BY DEF Restart
<1>2. \A t \in Requests : request'[t].pc = "idle" /\ request'[t].parent = NoValue
  BY <1>1 DEF Idle
<1>3. KeyInv(c)'
  <2>1. \A k, s : Has(c, k, s)' => Has(c, k, s)
    BY <1>1 DEF Has, Filed, IsKnown, Carries
  <2>. QED BY <1>1, <2>1, KeptKeyInv
<1>4. Unmarked(c)'
  <2>1. \A s : ~Serves(s, c)' /\ ~IndexedFor(s, c)' /\ ~Holds(sessions, s, c)'
    BY <1>1, <1>2 DEF Serves, IndexedFor, Holds
  <2>2. \A s : Claims(s, c)' => Claims(s, c)
    BY <1>1, <2>1, Unclaimed DEF Claims
  <2>. QED BY <1>1, <2>2 DEF UseInv, Unmarked
<1>5. Parentless(c)' /\ Reaches(c)'
  BY <1>1, <1>2 DEF Parentless, Reaches
<1>. QED BY <1>1, <1>2, <1>3, <1>4, <1>5, NewPeriodAbsent DEF UseInv

-----------------------------------------------------------------------------
(* Every step.                                                             *)

\* A request of a conversation that is alone goes by its known header.
LEMMA OwnStep ==
    ASSUME TypeInv, LeadInv, NEW c \in Convs, Alone(c), KeyInv(c), UseInv(c),
           NEW r \in Requests, request[r].conv = c,
           \/ ByKnownHeader(r) \/ ByOtherHeader(r) \/ ByRotation(r) \/ ByNewHeader(r)
           \/ ByLearnedHeader(r) \/ FingerprintStarts(r) \/ ByFingerprint(r) \/ ByNewFingerprint(r)
           \/ Attach(r) \/ Seed(r)
    PROVE  KeyInv(c)' /\ UseInv(c)'
<1>1. request[r].pc # "idle"
  BY DEF ByKnownHeader, ByOtherHeader, ByRotation, ByNewHeader, IsUnfiled, ByLearnedHeader, FingerprintStarts,
         ByFingerprint, ByNewFingerprint, Attach, Seed
<1>2. HasKnown(request[r].headers)
  BY <1>1, OwnKeyIs
<1>3. request[r].pc # "match"
  BY <1>1, <1>2, RequestIs DEF Busy
<1>4. ~(ByLearnedHeader(r) \/ FingerprintStarts(r) \/ ByFingerprint(r) \/ ByNewFingerprint(r))
  BY <1>2, <1>3 DEF ByLearnedHeader, FingerprintStarts, ByFingerprint, ByNewFingerprint
<1>. QED BY <1>4, OwnKnownHeader, OwnOtherHeader, OwnRotation, OwnNewHeader, OwnAttach, OwnSeed

LEMMA StepOne ==
    ASSUME OneChange, TypeInv, TypeInv', LeadInv, ApartInv, [Next]_vars,
           NEW c \in Convs, Alone(c), KeyInv(c), UseInv(c)
    PROVE  KeyInv(c)' /\ UseInv(c)'
<1>1. ASSUME NEW r \in Requests, NEW d \in Convs, Arrives(r, d) PROVE KeyInv(c)' /\ UseInv(c)'
  <2>1. CASE ~initialized
    BY <1>1, <2>1, FirstArrives
  <2>2. CASE initialized /\ d = c
    BY <1>1, <2>2, OwnArrives
  <2>3. CASE initialized /\ d # c
    <3>1. Same(c)
      BY <1>1, <2>3, OtherArrives
    <3>. QED BY <3>1, SameKeeps
  <2>. QED BY <2>1, <2>2, <2>3
<1>2. ASSUME NEW r \in Requests,
             \/ ByKnownHeader(r) \/ ByOtherHeader(r) \/ ByRotation(r) \/ ByNewHeader(r)
             \/ ByLearnedHeader(r) \/ FingerprintStarts(r) \/ ByFingerprint(r) \/ ByNewFingerprint(r)
             \/ Attach(r) \/ Seed(r)
      PROVE  KeyInv(c)' /\ UseInv(c)'
  <2>1. CASE request[r].conv = c
    BY <1>2, <2>1, OwnStep
  <2>2. CASE request[r].conv # c
    <3>1. Same(c)
      BY <1>2, <2>2, OtherStep
    <3>. QED BY <3>1, SameKeeps
  <2>. QED BY <2>1, <2>2
<1>3. ASSUME NEW d \in Convs, ClientRestarts(d) \/ ClientUpgraded(d) PROVE KeyInv(c)' /\ UseInv(c)'
  <2>1. CASE d = c
    BY <1>3, <2>1, OwnRestarts, OwnUpgraded
  <2>2. CASE d # c
    <3>1. Same(c)
      BY <1>3, <2>2, OtherClient
    <3>. QED BY <3>1, SameKeeps
  <2>. QED BY <2>1, <2>2
<1>4. CASE DayPasses
  BY <1>4, AloneDayPasses
<1>5. CASE Restart
  BY <1>5, AloneRestart
<1>6. CASE UNCHANGED vars
  <2>1. Same(c)
    BY <1>6, StutterSame
  <2>. QED BY <2>1, SameKeeps
<1>. QED BY <1>1, <1>2, <1>3, <1>4, <1>5, <1>6 DEF Next

LEMMA StepAlone ==
    ASSUME OneChange, TypeInv, TypeInv', LeadInv, ApartInv, AloneInv, [Next]_vars
    PROVE  AloneInv'
<1>. SUFFICES ASSUME NEW c \in Convs, Alone(c) PROVE KeyInv(c)' /\ UseInv(c)'
  BY DEF AloneInv, Alone, Meets, MayShareHeader
<1>1. KeyInv(c) /\ UseInv(c)
  BY DEF AloneInv
<1>. QED BY <1>1, StepOne

LEMMA InitAlone ==
    ASSUME Init
    PROVE  AloneInv
<1>. SUFFICES ASSUME NEW c \in Convs PROVE KeyInv(c) /\ UseInv(c)
  BY DEF AloneInv
<1>1. /\ DOMAIN index = {} /\ DOMAIN sessions = {} /\ DOMAIN rows = {} /\ used[c] = {}
      /\ \A r \in Requests : request[r].pc = "idle" /\ request[r].parent = NoValue
  BY DEF Init, Idle
<1>2. \A n \in Names : client[c].gen[n] = IF n \in Sends[c] THEN 1 ELSE 0
  BY DEF Init
<1>3. \A k, s : ~Has(c, k, s)
  BY <1>1 DEF Has, Filed
<1>4. UpgradedOnce(c)
  <2>1. \A n \in Adds[c] \ Sends[c] : client[c].gen[n] = 0
    BY <1>2, ConvsAssumption
  <2>2. \A n \in Names \ Sends[c] : client[c].gen[n] = 0
    BY <1>2
  <2>. QED BY <2>1, <2>2 DEF UpgradedOnce
<1>5. KeyInv(c)
  BY <1>3, <1>4 DEF KeyInv, KeysSent, KeysPrimary, KeysDistinct, OneLive, OthersStale
<1>6. \A s : ~Present(c, s)
  BY <1>1 DEF Present, Past, SessionsOf
<1>7. Unmarked(c) /\ Parentless(c) /\ Reaches(c)
  BY <1>1 DEF Unmarked, Parentless, Reaches
<1>8. \A s : s \notin SessionsOf(c, made.periods)
  BY <1>6 DEF Present
<1>9. \A r \in Requests : ~Past(r, c)
  BY <1>6 DEF Present
<1>10. InUse(c) /\ AllLed(c) /\ PastLed(c) /\ Settled(c)
  BY <1>6, <1>8, <1>9 DEF InUse, AllLed, PastLed, Settled
<1>. QED BY <1>5, <1>7, <1>10 DEF UseInv

\* A conversation that is alone has one session in a period, if its client
\* changes at most once between two requests.
THEOREM OneSessionEach == OneChange => (Spec => []OneSession)
<1>. SUFFICES ASSUME OneChange PROVE Spec => []OneSession
  OBVIOUS
<1>1. Init => TypeInv /\ LeadInv /\ ApartInv /\ AloneInv
  BY InitTyped, InitLeads, InitApart, InitAlone
<1>2. TypeInv /\ LeadInv /\ ApartInv /\ AloneInv /\ [Next]_vars => (TypeInv /\ LeadInv /\ ApartInv /\ AloneInv)'
  BY StepTyped, StepLeads, StepApart, StepAlone
<1>3. AloneInv => OneSession
  <2>. SUFFICES ASSUME AloneInv, NEW c \in Convs, Alone(c)
                PROVE  Cardinality(SessionsOf(c, made.periods)) <= 1
    BY DEF OneSession
  <2>1. PICK S : S = SessionsOf(c, made.periods)
    OBVIOUS
  <2>2. \A s, t \in S : s = t
    <3>. SUFFICES ASSUME NEW s \in S, NEW t \in S PROVE s = t
      OBVIOUS
    <3>1. Led(c, s) /\ Led(c, t)
      BY <2>1 DEF AloneInv, UseInv, AllLed, Present
    <3>. QED BY <3>1, LedOnce
  <2>3. CASE S = {}
    <3>1. Cardinality({}) = 0
      BY FS_EmptySet
    <3>. QED BY <2>1, <2>3, <3>1
  <2>4. CASE S # {}
    <3>1. PICK s \in S : TRUE
      BY <2>4
    <3>2. S = {s}
      BY <2>2, <3>1
    <3>3. Cardinality({s}) = 1
      BY FS_Singleton
    <3>. QED BY <2>1, <3>2, <3>3
  <2>. QED BY <2>3, <2>4
<1>. QED BY <1>1, <1>2, <1>3, PTL DEF Spec

-----------------------------------------------------------------------------
(* The blocks a client is shown.                                           *)

TurnFields == {"phase", "stream", "provider", "warn", "warned", "evicted", "gone", "kept", "resp", "shown",
               "blocks", "suppressed", "offset", "depth", "recorded"}

IsSeq(s) == \E S : s \in Seq(S)
Numbered(s) == \A i \in DOMAIN s : s[i].index = i - 1

\* A due warning that was not shown in the first reply of a stream is not
\* shown in its continuations either.
Skipped(t) == Continued(t) /\ t.warn /\ ~t.warned

\* How many blocks the client has been shown.
Place(t) ==
    IF t.phase = "followUp" THEN t.offset
    ELSE t.blocks + (IF Continued(t) THEN t.offset ELSE IF t.warned THEN 1 ELSE 0)

StreamInv(t) ==
    /\ IsSeq(t.resp) /\ IsSeq(t.shown)
    /\ t.blocks \in Nat /\ t.suppressed \in Nat /\ t.offset \in Nat /\ t.depth \in Nat
    /\ Len(t.resp) = t.blocks + t.suppressed
    /\ t.warned => t.warn
    /\ t.phase = "followUp" => Continued(t)
    /\ ~Continued(t) => t.offset = 0
    /\ ~Continued(t) /\ t.warn /\ ~t.warned => Thoughts(t) = t.blocks
    /\ Skipped(t) \/ (Numbered(t.shown) /\ Len(t.shown) = Place(t))

Streaming(t) == t.phase \in {"reply", "recall", "followUp"} /\ Live(t)

Placed(t) == (t.warn /\ Live(t) /\ ~t.warned) \/ Numbered(t.shown)

TurnOK(t) == DOMAIN t = TurnFields /\ (Streaming(t) => StreamInv(t)) /\ Placed(t)
TurnInv == TurnOK(turn)

LEMMA AppendIs ==
    ASSUME NEW s, NEW x, IsSeq(s)
    PROVE  /\ IsSeq(Append(s, x)) /\ Len(s) \in Nat /\ DOMAIN s = 1 .. Len(s)
           /\ Len(Append(s, x)) = Len(s) + 1 /\ DOMAIN Append(s, x) = 1 .. Len(s) + 1
           /\ \A i \in 1 .. Len(s) : Append(s, x)[i] = s[i]
           /\ Append(s, x)[Len(s) + 1] = x
<1>1. PICK S : s \in Seq(S)
  BY DEF IsSeq
<1>2. PICK T : T = S \cup {x}
  OBVIOUS
<1>3. s \in Seq(T) /\ x \in T
  BY <1>1, <1>2
<1>4. Append(s, x) \in Seq(T)
  BY <1>3
<1>. QED BY <1>3, <1>4 DEF IsSeq

LEMMA AppendNumbered ==
    ASSUME NEW s, NEW b, IsSeq(s), Numbered(s)
    PROVE  Numbered(Append(s, Shown(Len(s), b)))
<1>1. PICK u : u = Append(s, Shown(Len(s), b))
  OBVIOUS
<1>2. /\ Len(s) \in Nat /\ DOMAIN s = 1 .. Len(s) /\ DOMAIN u = 1 .. Len(s) + 1
      /\ \A i \in 1 .. Len(s) : u[i] = s[i]
      /\ u[Len(s) + 1] = Shown(Len(s), b)
  BY <1>1, AppendIs
<1>3. u[Len(s) + 1].index = Len(s)
  BY <1>2 DEF Shown
<1>4. \A i \in 1 .. Len(s) : u[i].index = i - 1
  BY <1>2 DEF Numbered
<1>. QED BY <1>1, <1>2, <1>3, <1>4 DEF Numbered

\* One more block, one more thought if it is one.
LEMMA ThoughtsOn ==
    ASSUME NEW s, NEW b, IsSeq(s)
    PROVE  LET n == Cardinality({i \in DOMAIN s : s[i].type = "thinking"})
               m == Cardinality({i \in DOMAIN Append(s, b) : Append(s, b)[i].type = "thinking"})
           IN  n \in Nat /\ m = IF b.type = "thinking" THEN n + 1 ELSE n
<1>1. PICK u : u = Append(s, b)
  OBVIOUS
<1>2. PICK S : S = {i \in DOMAIN s : s[i].type = "thinking"}
  OBVIOUS
<1>3. PICK T : T = {i \in DOMAIN u : u[i].type = "thinking"}
  OBVIOUS
<1>4. PICK k : k = Len(s)
  OBVIOUS
<1>5. /\ k \in Nat /\ DOMAIN s = 1 .. k /\ DOMAIN u = 1 .. k + 1
      /\ \A i \in 1 .. k : u[i] = s[i]
      /\ u[k + 1] = b
  BY <1>1, <1>4, AppendIs
<1>6. IsFiniteSet(S) /\ Cardinality(S) \in Nat
  <2>1. IsFiniteSet(1 .. k)
    BY <1>5, FS_Interval
  <2>2. S \subseteq 1 .. k
    BY <1>2, <1>5
  <2>. QED BY <2>1, <2>2, FS_Subset, FS_CardinalityType
<1>7. CASE b.type = "thinking"
  <2>1. T = S \cup {k + 1} /\ k + 1 \notin S
    BY <1>2, <1>3, <1>5, <1>7
  <2>2. Cardinality(T) = Cardinality(S) + 1
    BY <1>6, <2>1, FS_AddElement
  <2>. QED BY <1>1, <1>2, <1>3, <1>6, <1>7, <2>2
<1>8. CASE b.type # "thinking"
  <2>1. T = S
    BY <1>2, <1>3, <1>5, <1>8
  <2>. QED BY <1>1, <1>2, <1>3, <1>6, <1>8, <2>1
<1>. QED BY <1>7, <1>8

-----------------------------------------------------------------------------
(* The steps of a stream.                                                  *)

LEMMA WarnedIs ==
    ASSUME NEW t, DOMAIN t = TurnFields
    PROVE  /\ DOMAIN Warned(t) = TurnFields /\ Warned(t).warned = TRUE
           /\ Warned(t).shown = Append(t.shown, Shown(Thoughts(t), Text(<<Warning>>)))
           /\ \A f \in TurnFields \ {"warned", "shown"} : Warned(t)[f] = t[f]
<1>1. PICK s : s = Append(t.shown, Shown(Thoughts(t), Text(<<Warning>>)))
  OBVIOUS
<1>2. Warned(t) = [t EXCEPT !.warned = TRUE, !.shown = s]
  BY <1>1 DEF Warned
<1>. QED BY <1>1, <1>2 DEF TurnFields

\* The warning takes the place behind the thoughts, which is the next one.
LEMMA WarnedKeeps ==
    ASSUME NEW t, DOMAIN t = TurnFields, StreamInv(t), t.phase = "reply", ~Continued(t), t.warn, ~t.warned
    PROVE  /\ DOMAIN Warned(t) = TurnFields /\ StreamInv(Warned(t)) /\ Numbered(Warned(t).shown)
           /\ Warned(t).phase = "reply" /\ Warned(t).warned = TRUE
<1>1. PICK w : w = Warned(t)
  OBVIOUS
<1>2. /\ DOMAIN w = TurnFields /\ w.warned = TRUE
      /\ w.shown = Append(t.shown, Shown(Thoughts(t), Text(<<Warning>>)))
      /\ w.phase = t.phase /\ w.warn = t.warn /\ w.resp = t.resp /\ w.blocks = t.blocks /\ w.depth = t.depth
      /\ w.suppressed = t.suppressed /\ w.offset = t.offset
  BY <1>1, WarnedIs DEF TurnFields
<1>3. Numbered(t.shown) /\ Len(t.shown) = t.blocks /\ Thoughts(t) = t.blocks /\ IsSeq(t.shown)
  BY DEF StreamInv, Skipped, Place
<1>4. Numbered(w.shown) /\ IsSeq(w.shown) /\ Len(w.shown) = t.blocks + 1
  BY <1>2, <1>3, AppendNumbered, AppendIs
<1>5. ~Continued(w) /\ Place(w) = t.blocks + 1
  BY <1>2 DEF Continued, Place
<1>6. StreamInv(w)
  BY <1>2, <1>4, <1>5 DEF StreamInv
<1>. QED BY <1>1, <1>2, <1>4, <1>6

\* A block is shown at the next place, or held back.
LEMMA ForwardKeeps ==
    ASSUME NEW t, NEW b, DOMAIN t = TurnFields, StreamInv(t), t.phase = "reply", IsRecall(b) \/ ~WarnsNow(t, b)
    PROVE  /\ DOMAIN Forward(t, b) = TurnFields /\ StreamInv(Forward(t, b))
           /\ \A f \in {"phase", "stream", "provider", "warn", "warned", "depth"} : Forward(t, b)[f] = t[f]
<1>1. PICK v : v = Forward(t, b)
  OBVIOUS
<1>2. PICK u : u = Append(t.resp, b)
  OBVIOUS
<1>3. IsSeq(u) /\ Len(u) = Len(t.resp) + 1 /\ Len(t.resp) \in Nat /\ IsSeq(t.resp)
  BY <1>2, AppendIs DEF StreamInv
<1>4. PICK n : n = Cardinality({i \in DOMAIN u : u[i].type = "thinking"})
  OBVIOUS
<1>5. Thoughts(t) \in Nat /\ n = IF b.type = "thinking" THEN Thoughts(t) + 1 ELSE Thoughts(t)
  BY <1>2, <1>3, <1>4, ThoughtsOn DEF Thoughts
<1>6. CASE IsRecall(b)
  <2>1. v = [[t EXCEPT !.suppressed = @ + 1] EXCEPT !.resp = Append(@, b)]
    BY <1>1, <1>6 DEF Forward, Accumulate
  <2>2. /\ DOMAIN v = TurnFields /\ v.suppressed = t.suppressed + 1 /\ v.resp = u
        /\ \A f \in TurnFields \ {"suppressed", "resp"} : v[f] = t[f]
    BY <1>2, <2>1 DEF TurnFields
  <2>3. /\ v.phase = t.phase /\ v.warn = t.warn /\ v.warned = t.warned /\ v.blocks = t.blocks /\ v.depth = t.depth
        /\ v.offset = t.offset /\ v.shown = t.shown /\ v.stream = t.stream /\ v.provider = t.provider
    BY <2>2 DEF TurnFields
  <2>4. Continued(v) <=> Continued(t)
    BY <2>3 DEF Continued
  <2>5. Thoughts(v) = Thoughts(t)
    BY <1>4, <1>5, <1>6, <2>2 DEF Thoughts, IsRecall
  <2>6. Place(v) = Place(t) /\ (Skipped(v) <=> Skipped(t))
    BY <2>3, <2>4 DEF Place, Skipped
  <2>7. StreamInv(v)
    BY <1>3, <2>2, <2>3, <2>4, <2>5, <2>6 DEF StreamInv
  <2>. QED BY <1>1, <2>2, <2>3, <2>7
<1>7. CASE ~IsRecall(b)
  <2>1. PICK s : s = Append(t.shown, Shown(IndexOf(t), b))
    OBVIOUS
  <2>2. v = [[t EXCEPT !.blocks = @ + 1, !.shown = s] EXCEPT !.resp = Append(@, b)]
    BY <1>1, <1>7, <2>1 DEF Forward, Accumulate
  <2>3. /\ DOMAIN v = TurnFields /\ v.blocks = t.blocks + 1 /\ v.shown = s /\ v.resp = u
        /\ \A f \in TurnFields \ {"blocks", "shown", "resp"} : v[f] = t[f]
    BY <1>2, <2>2 DEF TurnFields
  <2>4. /\ v.phase = t.phase /\ v.warn = t.warn /\ v.warned = t.warned /\ v.suppressed = t.suppressed
        /\ v.depth = t.depth /\ v.offset = t.offset /\ v.stream = t.stream /\ v.provider = t.provider
    BY <2>3 DEF TurnFields
  <2>5. Continued(v) <=> Continued(t)
    BY <2>4 DEF Continued
  <2>6. Place(v) = Place(t) + 1 /\ (Skipped(v) <=> Skipped(t)) /\ IndexOf(t) = Place(t)
    <3>1. t.blocks \in Nat /\ t.suppressed \in Nat /\ t.offset \in Nat /\ Len(t.resp) = t.blocks + t.suppressed
      BY DEF StreamInv
    <3>2. Place(v) = Place(t) + 1
      BY <2>3, <2>4, <2>5, <3>1 DEF Place
    <3>3. Skipped(v) <=> Skipped(t)
      BY <2>4, <2>5 DEF Skipped
    <3>4. ~Continued(t) => t.offset = 0
      BY DEF StreamInv
    <3>5. IndexOf(t) = Place(t)
      BY <3>1, <3>4 DEF IndexOf, Place
    <3>. QED BY <3>2, <3>3, <3>5
  <2>7. Skipped(v) \/ (Numbered(v.shown) /\ Len(v.shown) = Place(v))
    <3>. SUFFICES ASSUME ~Skipped(t) PROVE Numbered(s) /\ Len(s) = Place(t) + 1
      BY <2>3, <2>6
    <3>1. Numbered(t.shown) /\ Len(t.shown) = Place(t) /\ IsSeq(t.shown)
      BY DEF StreamInv
    <3>. QED BY <2>1, <2>6, <3>1, AppendNumbered, AppendIs
  <2>8. IsSeq(v.shown)
    BY <2>1, <2>3, AppendIs DEF StreamInv
  <2>9. ASSUME ~Continued(v), v.warn, ~v.warned PROVE Thoughts(v) = v.blocks
    <3>1. b.type = "thinking"
      BY <1>7, <2>4, <2>5, <2>9 DEF WarnsNow
    <3>2. Thoughts(t) = t.blocks
      BY <2>4, <2>5, <2>9 DEF StreamInv
    <3>. QED BY <1>4, <1>5, <2>3, <3>1, <3>2 DEF Thoughts
  <2>10. StreamInv(v)
    BY <1>3, <2>3, <2>4, <2>5, <2>7, <2>8, <2>9 DEF StreamInv
  <2>. QED BY <1>1, <2>3, <2>4, <2>10
<1>. QED BY <1>6, <1>7

-----------------------------------------------------------------------------
(* The steps of a turn.                                                    *)

LEMMA StreamPlaced ==
    ASSUME NEW t, StreamInv(t), Live(t)
    PROVE  Placed(t)
BY DEF StreamInv, Skipped, Placed

LEMMA RecordOK ==
    ASSUME NEW t, NEW content, DOMAIN t = TurnFields, Placed(t)
    PROVE  TurnOK(Record(t, content)) /\ TurnOK([t EXCEPT !.phase = "failed"])
<1>1. ASSUME NEW u, DOMAIN u = TurnFields, u.phase \in {"closed", "failed"}, u.shown = t.shown, u.warn = t.warn,
             u.warned = t.warned, u.stream = t.stream, u.provider = t.provider
      PROVE  TurnOK(u)
  BY <1>1 DEF TurnOK, Placed, Streaming, Live
<1>2. PICK u : u = Record(t, content)
  OBVIOUS
<1>3. /\ DOMAIN u = TurnFields /\ u.phase = "closed" /\ u.shown = t.shown /\ u.warn = t.warn
      /\ u.warned = t.warned /\ u.stream = t.stream /\ u.provider = t.provider
  BY <1>2 DEF Record, TurnFields
<1>4. PICK v : v = [t EXCEPT !.phase = "failed"]
  OBVIOUS
<1>5. /\ DOMAIN v = TurnFields /\ v.phase = "failed" /\ v.shown = t.shown /\ v.warn = t.warn
      /\ v.warned = t.warned /\ v.stream = t.stream /\ v.provider = t.provider
  BY <1>4 DEF TurnFields
<1>. QED BY <1>1, <1>2, <1>3, <1>4, <1>5

LEMMA ShowPlaced ==
    ASSUME NEW t, NEW content, DOMAIN t = TurnFields
    PROVE  DOMAIN Show(t, content) = TurnFields /\ Placed(Show(t, content))
<1>1. PICK full : full = IF t.warn THEN InjectContextWarning(content) ELSE content
  OBVIOUS
<1>2. PICK s : s = [k \in DOMAIN full |-> Shown(k - 1, full[k])]
  OBVIOUS
<1>3. Show(t, content) = [t EXCEPT !.shown = s]
  BY <1>1, <1>2 DEF Show
<1>4. DOMAIN Show(t, content) = TurnFields /\ Show(t, content).shown = s
  BY <1>3 DEF TurnFields
<1>5. Numbered(s)
  BY <1>2 DEF Numbered, Shown
<1>. QED BY <1>4, <1>5 DEF Placed

LEMMA NoTurnOK ==
    /\ TurnOK(NoTurn)
    /\ \A t : DOMAIN t = TurnFields
              /\ (\A f \in TurnFields \ {"phase", "stream", "provider", "warn", "evicted"} : t[f] = NoTurn[f])
              /\ t.phase = "reply"
              => TurnOK(t)
<1>1. NoTurn.shown = <<>> /\ NoTurn.phase = "idle" /\ DOMAIN NoTurn = TurnFields
  BY DEF NoTurn, TurnFields
<1>2. IsSeq(<<>>) /\ Numbered(<<>>) /\ Len(<<>>) = 0
  BY DEF IsSeq, Numbered
<1>3. TurnOK(NoTurn)
  BY <1>1, <1>2 DEF TurnOK, Placed, Streaming
<1>4. ASSUME NEW t, DOMAIN t = TurnFields, t.phase = "reply",
             \A f \in TurnFields \ {"phase", "stream", "provider", "warn", "evicted"} : t[f] = NoTurn[f]
      PROVE  TurnOK(t)
  <2>1. /\ t.resp = <<>> /\ t.shown = <<>> /\ t.blocks = 0 /\ t.suppressed = 0 /\ t.offset = 0 /\ t.depth = 0
        /\ t.warned = FALSE
    BY <1>4 DEF NoTurn, TurnFields
  <2>2. ~Continued(t)
    BY <2>1 DEF Continued
  <2>3. Thoughts(t) = 0
    <3>1. {i \in DOMAIN t.resp : t.resp[i].type = "thinking"} = {}
      BY <2>1
    <3>2. Cardinality({}) = 0
      BY FS_EmptySet
    <3>. QED BY <3>1, <3>2 DEF Thoughts
  <2>4. Place(t) = 0
    BY <1>4, <2>1, <2>2 DEF Place
  <2>5. StreamInv(t)
    BY <1>2, <1>4, <2>1, <2>2, <2>3, <2>4 DEF StreamInv
  <2>. QED BY <1>2, <1>4, <2>1, <2>5 DEF TurnOK, Placed
<1>. QED BY <1>3, <1>4

LEMMA TurnBeginsKeeps ==
    ASSUME TurnInv, NEW r \in RequestKinds, TurnBegins(r)
    PROVE  TurnInv'
<1>1. PICK e : turn' = [NoTurn EXCEPT !.phase = "reply", !.stream = r.stream, !.provider = r.provider,
                                      !.warn = r.warn, !.evicted = e]
  BY DEF TurnBegins
<1>2. PICK t : t = turn'
  OBVIOUS
<1>3. DOMAIN t = TurnFields /\ t.phase = "reply"
      /\ \A f \in TurnFields \ {"phase", "stream", "provider", "warn", "evicted"} : t[f] = NoTurn[f]
  BY <1>1, <1>2 DEF NoTurn, TurnFields
<1>4. TurnOK(t)
  BY <1>3, NoTurnOK
<1>. QED BY <1>2, <1>4 DEF TurnInv

LEMMA BlockArrivesKeeps ==
    ASSUME TurnInv, BlockArrives
    PROVE  TurnInv'
<1>1. PICK b : turn' = PassOn(turn, b) /\ turn.phase = "reply" /\ Live(turn)
  BY DEF BlockArrives
<1>2. PICK t : t = IF WarnsNow(turn, b) /\ ~IsRecall(b) THEN Warned(turn) ELSE turn
  OBVIOUS
<1>3. DOMAIN turn = TurnFields /\ StreamInv(turn)
  BY <1>1 DEF TurnInv, TurnOK, Streaming
<1>4. /\ DOMAIN t = TurnFields /\ StreamInv(t) /\ t.phase = "reply" /\ t.stream = turn.stream
      /\ t.provider = turn.provider /\ (IsRecall(b) \/ ~WarnsNow(t, b))
  <2>1. CASE WarnsNow(turn, b) /\ ~IsRecall(b)
    <3>1. turn.warn /\ ~Continued(turn) /\ ~turn.warned /\ t = Warned(turn)
      BY <1>2, <2>1 DEF WarnsNow
    <3>2. DOMAIN t = TurnFields /\ StreamInv(t) /\ t.phase = "reply" /\ t.warned = TRUE
      BY <1>1, <1>3, <3>1, WarnedKeeps
    <3>3. t.stream = turn.stream /\ t.provider = turn.provider
      BY <1>3, <3>1, WarnedIs DEF TurnFields
    <3>. QED BY <3>2, <3>3 DEF WarnsNow
  <2>2. CASE ~(WarnsNow(turn, b) /\ ~IsRecall(b))
    BY <1>1, <1>2, <1>3, <2>2
  <2>. QED BY <2>1, <2>2
<1>5. PICK v : v = Forward(t, b)
  OBVIOUS
<1>6. DOMAIN v = TurnFields /\ StreamInv(v) /\ v.phase = "reply" /\ v.stream = turn.stream /\ v.provider = turn.provider
  BY <1>4, <1>5, ForwardKeeps
<1>7. TurnOK(v)
  BY <1>1, <1>6, StreamPlaced DEF TurnOK, Live
<1>8. turn' = v
  BY <1>1, <1>2, <1>5 DEF PassOn
<1>. QED BY <1>7, <1>8 DEF TurnInv

LEMMA StreamEndsKeeps ==
    ASSUME TurnInv, StreamEnds
    PROVE  TurnInv'
<1>1. PICK t : t = turn
  OBVIOUS
<1>2. turn' = EndOfStream(t) /\ t.phase = "reply" /\ Live(t)
  BY <1>1 DEF StreamEnds
<1>3. DOMAIN t = TurnFields /\ StreamInv(t) /\ Placed(t)
  BY <1>1, <1>2 DEF TurnInv, TurnOK, Streaming
<1>4. PICK v : v = EndOfStream(t)
  OBVIOUS
<1>5. \/ v = [t EXCEPT !.phase = "recall"]
      \/ \E content : v = Record(t, content) \/ (v = Record(Ended(t), content) /\ ~Continued(t))
  BY <1>4 DEF EndOfStream
<1>6. CASE v = [t EXCEPT !.phase = "recall"]
  <2>1. DOMAIN v = TurnFields /\ v.phase = "recall" /\ \A f \in TurnFields \ {"phase"} : v[f] = t[f]
    BY <1>3, <1>6 DEF TurnFields
  <2>2. /\ v.warn = t.warn /\ v.warned = t.warned /\ v.blocks = t.blocks /\ v.suppressed = t.suppressed
        /\ v.depth = t.depth /\ v.offset = t.offset /\ v.stream = t.stream /\ v.provider = t.provider
        /\ v.resp = t.resp /\ v.shown = t.shown
    BY <2>1 DEF TurnFields
  <2>3. (Continued(v) <=> Continued(t)) /\ Thoughts(v) = Thoughts(t)
    BY <2>2 DEF Continued, Thoughts
  <2>4. Place(v) = Place(t) /\ (Skipped(v) <=> Skipped(t))
    BY <1>2, <2>1, <2>2, <2>3 DEF Place, Skipped
  <2>5. StreamInv(v)
    BY <1>3, <2>1, <2>2, <2>3, <2>4 DEF StreamInv
  <2>6. Placed(v)
    BY <1>2, <2>2, <2>5, StreamPlaced DEF Live
  <2>. QED BY <1>2, <1>4, <2>1, <2>5, <2>6 DEF TurnInv, TurnOK
<1>7. ASSUME NEW content, v = Record(t, content) PROVE TurnInv'
  BY <1>2, <1>3, <1>4, <1>7, RecordOK DEF TurnInv
<1>8. ASSUME NEW content, v = Record(Ended(t), content), ~Continued(t) PROVE TurnInv'
  <2>1. DOMAIN Ended(t) = TurnFields /\ Placed(Ended(t))
    <3>1. CASE t.warn /\ ~t.warned
      <4>1. Ended(t) = Warned(t)
        BY <1>8, <3>1 DEF Ended
      <4>2. DOMAIN Warned(t) = TurnFields /\ Numbered(Warned(t).shown)
        BY <1>2, <1>3, <1>8, <3>1, WarnedKeeps
      <4>. QED BY <4>1, <4>2 DEF Placed
    <3>2. CASE ~(t.warn /\ ~t.warned)
      BY <1>3, <3>2 DEF Ended
    <3>. QED BY <3>1, <3>2
  <2>. QED BY <1>2, <1>4, <1>8, <2>1, RecordOK DEF TurnInv
<1>. QED BY <1>5, <1>6, <1>7, <1>8

LEMMA HangsUpKeeps ==
    ASSUME TurnInv, ClientHangsUp
    PROVE  TurnInv'
<1>1. PICK t : t = turn
  OBVIOUS
<1>2. PICK v : v = [t EXCEPT !.gone = TRUE]
  OBVIOUS
<1>3. turn' = v /\ TurnOK(t) /\ DOMAIN t = TurnFields
  BY <1>1, <1>2 DEF ClientHangsUp, TurnInv, TurnOK
<1>4. DOMAIN v = TurnFields /\ \A f \in TurnFields \ {"gone"} : v[f] = t[f]
  BY <1>2, <1>3 DEF TurnFields
<1>5. /\ v.phase = t.phase /\ v.warn = t.warn /\ v.warned = t.warned /\ v.blocks = t.blocks
      /\ v.suppressed = t.suppressed /\ v.depth = t.depth /\ v.offset = t.offset
      /\ v.stream = t.stream /\ v.provider = t.provider /\ v.resp = t.resp /\ v.shown = t.shown
  BY <1>4 DEF TurnFields
<1>6. /\ Streaming(v) <=> Streaming(t)
      /\ Continued(v) <=> Continued(t)
      /\ Thoughts(v) = Thoughts(t)
  BY <1>5 DEF Streaming, Live, Continued, Thoughts
<1>7. Place(v) = Place(t) /\ (Skipped(v) <=> Skipped(t))
  BY <1>5, <1>6 DEF Place, Skipped
<1>8. StreamInv(t) => StreamInv(v)
  BY <1>5, <1>6, <1>7 DEF StreamInv
<1>9. Placed(v)
  BY <1>3, <1>5 DEF TurnOK, Placed, Live
<1>. QED BY <1>3, <1>4, <1>6, <1>8, <1>9 DEF TurnInv, TurnOK

\* A plain reply is shown as a whole.
LEMMA ReplyCompleteKeeps ==
    ASSUME TurnInv, ReplyComplete
    PROVE  TurnInv'
<1>1. PICK r \in Replies :
         LET reply   == [i \in DOMAIN r |-> BlockOf(r[i], count.made + i)]
             t       == [turn EXCEPT !.resp = Accumulated(turn.provider, reply)]
             content == IF Intercepts(t) THEN ReplaceRecallWithMarker(t.resp) ELSE t.resp
         IN  turn' = IF Intercepts(t) /\ HasRecall(t) /\ t.depth < MAX_RECALL_DEPTH
                     THEN [t EXCEPT !.phase = "recall"]
                     ELSE Record(Show(t, content), content)
  BY DEF ReplyComplete
<1>2. PICK t : t = [turn EXCEPT !.resp = Accumulated(turn.provider, [i \in DOMAIN r |-> BlockOf(r[i], count.made + i)])]
  OBVIOUS
<1>3. PICK content : content = IF Intercepts(t) THEN ReplaceRecallWithMarker(t.resp) ELSE t.resp
  OBVIOUS
<1>4. ~Live(turn) /\ DOMAIN turn = TurnFields /\ Placed(turn)
  BY DEF ReplyComplete, TurnInv, TurnOK
<1>5. /\ DOMAIN t = TurnFields /\ t.stream = turn.stream /\ t.provider = turn.provider
      /\ t.warn = turn.warn /\ t.warned = turn.warned /\ t.shown = turn.shown
  BY <1>2, <1>4 DEF TurnFields
<1>6. turn' = [t EXCEPT !.phase = "recall"] \/ turn' = Record(Show(t, content), content)
  BY <1>1, <1>2, <1>3
<1>7. CASE turn' = [t EXCEPT !.phase = "recall"]
  <2>1. PICK v : v = [t EXCEPT !.phase = "recall"]
    OBVIOUS
  <2>2. /\ DOMAIN v = TurnFields /\ v.stream = t.stream /\ v.provider = t.provider
        /\ v.warn = t.warn /\ v.warned = t.warned /\ v.shown = t.shown
    BY <1>5, <2>1 DEF TurnFields
  <2>3. TurnOK(v)
    BY <1>4, <1>5, <2>2 DEF TurnOK, Streaming, Live, Placed
  <2>. QED BY <1>7, <2>1, <2>3 DEF TurnInv
<1>8. CASE turn' = Record(Show(t, content), content)
  BY <1>5, <1>8, ShowPlaced, RecordOK DEF TurnInv
<1>. QED BY <1>6, <1>7, <1>8

LEMMA FailsKeeps ==
    ASSUME TurnInv, StreamBreaks \/ TurnRefused
    PROVE  TurnInv'
<1>1. turn' = [turn EXCEPT !.phase = "failed"] /\ DOMAIN turn = TurnFields /\ Placed(turn)
  BY DEF StreamBreaks, TurnRefused, TurnInv, TurnOK
<1>. QED BY <1>1, RecordOK DEF TurnInv

\* The marker takes the next place, and the continuation counts from there.
LEMMA RecallExecutedKeeps ==
    ASSUME TurnInv, RecallExecuted
    PROVE  TurnInv'
<1>1. PICK s : s = turn
  OBVIOUS
<1>2. PICK marked : marked = ReplaceRecallWithMarker(s.resp)
  OBVIOUS
<1>3. PICK text : text = Text(<<Marker(RecallBlock(s).query)>>)
  OBVIOUS
<1>4. PICK more : more = IF Live(s) THEN Append(s.shown, Shown(MarkerIndex(s), text)) ELSE s.shown
  OBVIOUS
<1>5. PICK t : t = [s EXCEPT !.depth = s.depth + 1, !.offset = MarkerIndex(s) + 1, !.shown = more]
  OBVIOUS
<1>6. /\ s.phase = "recall"
      /\ turn' = IF Live(s) /\ s.gone THEN [s EXCEPT !.phase = "failed"]
                 ELSE IF ~HasOtherTools(s) THEN [t EXCEPT !.phase = "followUp"]
                 ELSE IF Live(s) THEN Record(t, marked)
                 ELSE Record(Show(t, marked), marked)
  BY <1>1, <1>2, <1>3, <1>4, <1>5 DEF RecallExecuted
<1>7. DOMAIN s = TurnFields /\ Placed(s) /\ (Live(s) => StreamInv(s))
  BY <1>1, <1>6 DEF TurnInv, TurnOK, Streaming
<1>8. /\ DOMAIN t = TurnFields /\ t.depth = s.depth + 1 /\ t.offset = MarkerIndex(s) + 1 /\ t.shown = more
      /\ t.stream = s.stream /\ t.provider = s.provider /\ t.warn = s.warn /\ t.warned = s.warned
      /\ t.resp = s.resp /\ t.blocks = s.blocks /\ t.suppressed = s.suppressed
  BY <1>5, <1>7 DEF TurnFields
<1>9. PICK v : v = [t EXCEPT !.phase = "followUp"]
  OBVIOUS
<1>10. DOMAIN v = TurnFields /\ v.phase = "followUp" /\ \A f \in TurnFields \ {"phase"} : v[f] = t[f]
  BY <1>8, <1>9 DEF TurnFields
<1>11. /\ v.depth = s.depth + 1 /\ v.offset = MarkerIndex(s) + 1 /\ v.shown = more
       /\ v.stream = s.stream /\ v.provider = s.provider /\ v.warn = s.warn /\ v.warned = s.warned
       /\ v.resp = s.resp /\ v.blocks = s.blocks /\ v.suppressed = s.suppressed
  BY <1>8, <1>10 DEF TurnFields
<1>12. (Live(t) <=> Live(s)) /\ (Live(v) <=> Live(s))
  BY <1>8, <1>11 DEF Live
<1>13. ASSUME Live(s) PROVE StreamInv(v) /\ Placed(t)
  <2>1. /\ IsSeq(s.resp) /\ IsSeq(s.shown) /\ s.blocks \in Nat /\ s.suppressed \in Nat /\ s.offset \in Nat
        /\ s.depth \in Nat /\ Len(s.resp) = s.blocks + s.suppressed /\ (s.warned => s.warn)
        /\ Skipped(s) \/ (Numbered(s.shown) /\ Len(s.shown) = Place(s))
    BY <1>7, <1>13 DEF StreamInv
  <2>2. Continued(v) /\ MarkerIndex(s) \in Nat
    BY <1>11, <2>1 DEF Continued, MarkerIndex
  <2>3. Place(v) = MarkerIndex(s) + 1
    BY <1>10, <1>11 DEF Place
  <2>4. s.warn /\ ~s.warned => Skipped(v)
    BY <1>11, <2>2 DEF Skipped
  <2>5. ASSUME ~(s.warn /\ ~s.warned) PROVE Numbered(more) /\ Len(more) = MarkerIndex(s) + 1
    <3>1. MarkerIndex(s) = Place(s)
      BY <1>6, <2>1, <2>5 DEF MarkerIndex, Place
    <3>2. Numbered(s.shown) /\ Len(s.shown) = Place(s)
      BY <2>1, <2>5 DEF Skipped
    <3>. QED BY <1>4, <1>13, <2>1, <3>1, <3>2, AppendNumbered, AppendIs
  <2>6. IsSeq(more)
    BY <1>4, <1>13, <2>1, AppendIs
  <2>7. StreamInv(v)
    BY <1>10, <1>11, <2>1, <2>2, <2>3, <2>4, <2>5, <2>6 DEF StreamInv
  <2>8. Placed(v)
    BY <1>12, <1>13, <2>7, StreamPlaced
  <2>. QED BY <1>8, <1>11, <1>12, <2>7, <2>8 DEF Placed
<1>14. ASSUME ~Live(s) PROVE Placed(t)
  BY <1>4, <1>7, <1>8, <1>14 DEF Placed
<1>15. TurnOK(v)
  <2>1. Placed(v)
    BY <1>8, <1>11, <1>12, <1>13, <1>14 DEF Placed
  <2>. QED BY <1>10, <1>12, <1>13, <2>1 DEF TurnOK, Streaming
<1>16. CASE turn' = [s EXCEPT !.phase = "failed"]
  BY <1>7, <1>16, RecordOK DEF TurnInv
<1>17. CASE turn' = v
  BY <1>15, <1>17 DEF TurnInv
<1>18. CASE turn' = Record(t, marked)
  BY <1>8, <1>13, <1>14, <1>18, RecordOK DEF TurnInv
<1>19. CASE turn' = Record(Show(t, marked), marked)
  BY <1>8, <1>19, ShowPlaced, RecordOK DEF TurnInv
<1>. QED BY <1>6, <1>9, <1>16, <1>17, <1>18, <1>19

LEMMA FollowUpAnsweredKeeps ==
    ASSUME TurnInv, FollowUpAnswered
    PROVE  TurnInv'
<1>1. PICK t : t = turn
  OBVIOUS
<1>2. PICK v : v = [t EXCEPT !.phase = "reply", !.kept = t.resp, !.resp = <<>>, !.blocks = 0, !.suppressed = 0]
  OBVIOUS
<1>3. turn' = v /\ t.phase = "followUp" /\ TurnOK(t) /\ DOMAIN t = TurnFields
  BY <1>1, <1>2 DEF FollowUpAnswered, TurnInv, TurnOK
<1>4. /\ DOMAIN v = TurnFields /\ v.phase = "reply" /\ v.resp = <<>> /\ v.blocks = 0 /\ v.suppressed = 0
      /\ \A f \in TurnFields \ {"phase", "kept", "resp", "blocks", "suppressed"} : v[f] = t[f]
  BY <1>2, <1>3 DEF TurnFields
<1>5. /\ v.warn = t.warn /\ v.warned = t.warned /\ v.depth = t.depth /\ v.offset = t.offset
      /\ v.stream = t.stream /\ v.provider = t.provider /\ v.shown = t.shown
  BY <1>4 DEF TurnFields
<1>6. Live(v) => StreamInv(v)
  <2>. SUFFICES ASSUME Live(v) PROVE StreamInv(v)
    OBVIOUS
  <2>1. StreamInv(t)
    BY <1>3, <1>5 DEF Live, Streaming, TurnOK
  <2>2. Continued(t) /\ Continued(v) /\ (Skipped(v) <=> Skipped(t))
    BY <1>3, <1>5, <2>1 DEF StreamInv, Continued, Skipped
  <2>3. Place(v) = Place(t)
    BY <1>3, <1>4, <1>5, <2>1, <2>2 DEF Place, StreamInv
  <2>4. IsSeq(<<>>) /\ Len(<<>>) = 0
    BY DEF IsSeq
  <2>. QED BY <1>4, <1>5, <2>1, <2>2, <2>3, <2>4 DEF StreamInv
<1>7. Placed(v)
  BY <1>3, <1>5 DEF TurnOK, Placed, Live
<1>. QED BY <1>3, <1>4, <1>6, <1>7 DEF TurnInv, TurnOK, Streaming

LEMMA FollowUpFailsKeeps ==
    ASSUME TurnInv, FollowUpRefused \/ FollowUpUnsent
    PROVE  TurnInv'
<1>1. PICK marked : marked = ReplaceRecallWithMarker(turn.resp)
  OBVIOUS
<1>2. \/ turn' = Record(turn, marked) \/ turn' = Record(Show(turn, marked), marked)
      \/ turn' = [turn EXCEPT !.phase = "failed"]
  BY <1>1 DEF FollowUpRefused, FollowUpUnsent
<1>3. DOMAIN turn = TurnFields /\ Placed(turn)
  BY DEF TurnInv, TurnOK
<1>. QED BY <1>2, <1>3, RecordOK, ShowPlaced DEF TurnInv

LEMMA TurnSteps ==
    ASSUME TurnInv, [TurnNext]_turnVars
    PROVE  TurnInv'
<1>1. ASSUME NEW r \in RequestKinds, TurnBegins(r) PROVE TurnInv'
  BY <1>1, TurnBeginsKeeps
<1>2. CASE ClientKeeps
  BY <1>2, NoTurnOK DEF ClientKeeps, TurnInv
<1>3. CASE UNCHANGED turn
  BY <1>3 DEF TurnInv
<1>4. CASE ClientCompacts \/ UNCHANGED turnVars
  BY <1>3, <1>4 DEF ClientCompacts, turnVars
<1>. QED BY <1>1, <1>2, <1>4, BlockArrivesKeeps, StreamEndsKeeps, HangsUpKeeps, ReplyCompleteKeeps, FailsKeeps,
            RecallExecutedKeeps, FollowUpAnsweredKeeps, FollowUpFailsKeeps DEF TurnNext

\* The blocks a client is shown are numbered one after the other, through any
\* chain of recalls and hang-ups, whatever the model replies.
THEOREM ShownContiguous == TurnSpec => []Contiguous
<1>1. TurnInit => TurnInv
  BY NoTurnOK DEF TurnInit, TurnInv
<1>2. TurnInv /\ [TurnNext]_turnVars => TurnInv'
  BY TurnSteps
<1>3. TurnInv => Contiguous
  BY DEF TurnInv, TurnOK, Placed, Numbered, Contiguous
<1>. QED BY <1>1, <1>2, <1>3, PTL DEF TurnSpec

=============================================================================
