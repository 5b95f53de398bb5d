--------------------------- MODULE EmbeddingProofs ---------------------------
(***************************************************************************)
(* Proofs about Embeddings, for any rows, texts, batch sizes and           *)
(* configurations: no call waits in vain, the vectors of a replaced        *)
(* configuration are gone, a backfill without a failure covers every row   *)
(* that it found, and of the answers to a row's calls the newest wins.     *)
(*                                                                         *)
(* IInv, of the calls and the backfills, is inductive by itself; OrderInv, *)
(* of the order in which the calls are answered, with it.                  *)
(***************************************************************************)
EXTENDS Embeddings, FiniteSetTheorems, SequenceTheorems, WellFoundedInduction, TLAPS

(* ---------------------------- The invariant ---------------------------- *)

CallIds == (Rows \cup Runners \cup {"query"}) \X Nat
Waits == {x \in [id : CallIds, priority : {"normal", "high"}] : x.priority = "high" => x.id[1] = "query"}
Replies == [type : {"result", "error", "init-error", "crash"}, id : CallIds \cup {NoId}]
Threads == [thread : {"none", "running", "ended"}, model : {"unloaded", "loaded", "failed"}, queue : Seq(Waits),
            current : CallIds \cup {NoId}, inbox : Seq(Waits), outbox : Seq(Replies)]
Providers == [cached : {"local", "remote", "none"}, broken : BOOLEAN, ready : BOOLEAN, error : BOOLEAN,
              isStarting : BOOLEAN, starting : Seq(CallIds)]
Texts == UNION {[S -> Nat] : S \in SUBSET Rows}
Stages == {"starting", "waiting", "remote"}
Calls == [texts : Texts, priority : {"normal", "high"}, stage : Stages]
Typed(c, S) ==
    /\ DOMAIN c \subseteq CallIds /\ c \in [DOMAIN c -> S]
    /\ \A id \in DOMAIN c : c[id].priority = "high" => id[1] = "query"
Vectors == [text : Nat, space : Configs \cup {NoConfig, Fallback}, by : {"none", "remote", "backfill", "row"},
            checked : BOOLEAN]
RowsSet == [Rows -> [text : Nat, vector : Vectors]]
Backfills == [pc : {"idle", "delay", "knowledge", "distillations", "done"}, todo : Seq(Rows \X Nat), batches : Nat,
              failed : BOOLEAN, seen : SUBSET Rows]

TypeInv ==
    /\ config \in Configs /\ stored \in Configs \cup {NoConfig}
    /\ rows \in RowsSet
    /\ provider \in Providers
    /\ Typed(calls, Calls)
    /\ backfill \in [Runners -> Backfills]
    /\ worker \in Threads
    /\ made \in [asked : Nat, processes : Nat]

\* The worker tells, or has told, that it will answer no more.
IsBroken(w) == \E n \in DOMAIN w.outbox : w.outbox[n].type \in {"init-error", "crash"}

\* Where a request of a call is on its way (IsAtWorker, of any worker).
IsAt(w, id) ==
    \/ w.current = id
    \/ \E n \in DOMAIN w.queue : w.queue[n].id = id
    \/ \E n \in DOMAIN w.inbox : w.inbox[n].id = id
    \/ \E n \in DOMAIN w.outbox : w.outbox[n] \in {Reply("result", id), Reply("error", id)}

\* What a provider knows of its worker.
Knows(p, w) ==
    /\ p.ready => ~p.error /\ ~p.isStarting
    /\ p.isStarting => ~p.error /\ p.cached # "remote"
    /\ ~p.ready /\ ~p.error => w = NoWorker
    /\ p.ready => IsBroken(w) \/ (w.thread = "running" /\ w.model # "failed")

\* Where a call waits: for the worker to start, or at a worker that runs.
Waited(c, p, w) ==
    /\ \A id \in DOMAIN c :
          /\ c[id].stage = "starting" => p.isStarting /\ id \in ToSet(p.starting)
          /\ c[id].stage = "waiting" => p.ready /\ (IsAt(w, id) \/ IsBroken(w))
    /\ \A n \in DOMAIN p.starting : p.starting[n] \in DOMAIN c /\ c[p.starting[n]].stage = "starting"

\* A backfill waits for the call of its batch, and what it found is stored, or
\* in the batch, or still to do, unless it failed.
Covered(b, rs) == \A i \in b.seen : rs[i].vector # NoVector \/ \E k \in DOMAIN b.todo : b.todo[k][1] = i
Backs(b, r, c) ==
    IsRunning(b) => /\ b.todo # <<>>
                    /\ <<r, b.batches>> \in DOMAIN c
                    /\ c[<<r, b.batches>>].texts = BatchOf(b).texts
Covers(b, rs) == IsRunning(b) \/ b.pc = "done" => b.failed \/ Covered(b, rs)

BackfillInv ==
    \A r \in Runners :
        /\ Backs(backfill[r], r, calls)
        /\ Covers(backfill[r], rows)
        /\ ~IsRunning(backfill[r]) => backfill[r].todo = <<>>
        /\ backfill[r].pc \in {"idle", "delay"} => backfill[r].seen = {}
        /\ IsRunning(backfill[r]) \/ (backfill[r].pc = "done" /\ backfill[r].seen # {}) => stored = config

\* A vector made after the comparison is of the configuration stored then.
SpaceInv == OneSpace /\ (stored = NoConfig => \A i \in Rows : ~rows[i].vector.checked)

IInv == TypeInv /\ Knows(provider, worker) /\ Waited(calls, provider, worker) /\ BackfillInv /\ SpaceInv

(* ---------------------------- Sets and lists --------------------------- *)

LEMMA SeqOfSet ==
  ASSUME NEW S, IsFiniteSet(S)
  PROVE  SetToSeq(S) \in Seq(S) /\ ToSet(SetToSeq(S)) = S
<1> DEFINE n == Cardinality(S)
<1>1. n \in Nat /\ ExistsBijection(1..n, S)
  BY FS_CardinalityType
<1>2. \E f \in [1..n -> S] : IsInjective(f)
  BY <1>1 DEF ExistsBijection, Bijection, Injection, IsInjective
<1>3. PICK f : f = SetToSeq(S)
  OBVIOUS
<1>4. f \in [1..n -> S] /\ IsInjective(f)
  BY <1>2, <1>3 DEF SetToSeq
<1>5. f \in Seq(S)
  BY <1>1, <1>4, SeqDef
<1>6. f \in Injection(1..n, S) /\ IsFiniteSet(1..n) /\ Cardinality(1..n) = n
  BY <1>1, <1>4, FS_Interval DEF Injection
<1>7. f \in Surjection(1..n, S)
  BY <1>6, FS_Injection
<1>8. ToSet(f) = S
  BY <1>4, <1>7 DEF ToSet, Surjection
<1> QED
  BY <1>3, <1>5, <1>8

\* The least of a set of naturals, and the greatest of a bounded one.
LEMMA LeastOf ==
  ASSUME NEW T, T \subseteq Nat, T # {}
  PROVE  Min(T) \in T /\ \A y \in T : Min(T) <= y
<1> DEFINE U == {1..n : n \in T}
<1>1. U \subseteq FiniteSubsetsOf(Nat) /\ U # {}
  <2>1. ASSUME NEW n \in T PROVE 1..n \subseteq Nat /\ IsFiniteSet(1..n)
    BY FS_Interval
  <2>2. PICK n \in T : TRUE
    OBVIOUS
  <2>3. 1..n \in U
    BY <2>2
  <2> QED
    BY <2>1, <2>3 DEF FiniteSubsetsOf
<1>2. PICK u \in U : \A v \in U : ~(<<v, u>> \in StrictSubsetOrdering(Nat))
  <2>1. IsWellFoundedOn(StrictSubsetOrdering(Nat), FiniteSubsetsOf(Nat))
    BY FS_StrictSubsetOrderingWellFounded
  <2> QED
    BY <1>1, <2>1, WFMin
<1>3. PICK x \in T : u = 1..x
  BY <1>2
<1>4. ASSUME NEW y \in T, y < x PROVE FALSE
  <2>1. x \in Nat /\ y \in Nat /\ x \in 1..x /\ x \notin 1..y
    BY <1>4
  <2>2. 1..y \subseteq 1..x /\ 1..y # 1..x /\ 1..y \subseteq Nat /\ 1..x \subseteq Nat
    BY <1>4, <2>1
  <2>3. <<1..y, 1..x>> \in StrictSubsetOrdering(Nat)
    BY <2>2 DEF StrictSubsetOrdering
  <2> QED
    BY <1>2, <1>3, <2>3
<1>5. \E z \in T : \A y \in T : z <= y
  BY <1>4
<1> QED
  BY <1>5 DEF Min

LEMMA GreatestOf ==
  ASSUME NEW m \in Nat, NEW T, T \subseteq 0..m, T # {}
  PROVE  Max(T) \in T /\ \A y \in T : Max(T) >= y
<1> DEFINE U == {m - n : n \in T}
<1>1. U \subseteq Nat /\ U # {}
  <2>1. ASSUME NEW n \in T PROVE n \in 0..m /\ m - n \in Nat
    OBVIOUS
  <2>2. PICK n \in T : TRUE
    OBVIOUS
  <2>3. m - n \in U
    BY <2>2
  <2> QED
    BY <2>1, <2>3
<1>2. Min(U) \in U /\ \A y \in U : Min(U) <= y
  BY <1>1, LeastOf
<1>3. PICK n \in T : Min(U) = m - n
  BY <1>2
<1>4. ASSUME NEW y \in T PROVE n >= y
  <2>1. m - y \in U /\ n \in 0..m /\ y \in 0..m
    OBVIOUS
  <2>2. m - n <= m - y
    BY <1>2, <1>3, <2>1
  <2> QED
    BY <2>1, <2>2
<1> QED
  BY <1>3, <1>4 DEF Max

(* ------------------------------ The batches ---------------------------- *)

Todos == Seq(Rows \X Nat)

LEMMA BatchLengthIn ==
  ASSUME NEW todo \in Todos, todo # <<>>
  PROVE  BatchLength(todo) \in 1..Len(todo)
<1> DEFINE bound == {Len(todo), MAX_BACKFILL_CHUNK}
           T == {n \in 1..Min(bound) : \A k \in 2..n : k * Longest(todo, k) <= MAX_BATCH_TOKEN_AREA}
<1>1. Len(todo) \in Nat \ {0} /\ MAX_BACKFILL_CHUNK \in Nat \ {0}
  BY BatchAssumption, EmptySeq DEF Todos
<1>2. Min(bound) \in bound /\ \A y \in bound : Min(bound) <= y
  BY <1>1, LeastOf
<1>3. PICK m : m = Min(bound)
  OBVIOUS
<1>4. m \in Nat /\ 1 <= m /\ m <= Len(todo)
  BY <1>1, <1>2, <1>3
<1>5. 1 \in T
  BY <1>3, <1>4
<1>6. T \subseteq 0..m /\ T \subseteq 1..Len(todo)
  <2>1. \A x \in T : x \in 1..Min(bound)
    OBVIOUS
  <2>2. \A x \in T : x \in 1..m
    BY <1>3, <2>1
  <2>3. 1..m \subseteq 0..m /\ 1..m \subseteq 1..Len(todo)
    BY <1>1, <1>4
  <2> HIDE DEF T
  <2> QED
    BY <2>2, <2>3
<1>7. Max(T) \in T
  BY <1>4, <1>5, <1>6, GreatestOf
<1> QED
  BY <1>6, <1>7 DEF BatchLength

\* A batch and what remains are all that was to do.
LEMMA BatchSplits ==
  ASSUME NEW todo \in Todos, todo # <<>>
  PROVE  /\ Batch(todo) \in Todos /\ Remaining(todo) \in Todos
         /\ \A k \in DOMAIN todo : \/ \E j \in DOMAIN Batch(todo) : Batch(todo)[j] = todo[k]
                                   \/ \E j \in DOMAIN Remaining(todo) : Remaining(todo)[j] = todo[k]
         /\ \A j \in DOMAIN Batch(todo) : \E k \in DOMAIN todo : Batch(todo)[j] = todo[k]
         /\ \A j \in DOMAIN Remaining(todo) : \E k \in DOMAIN todo : Remaining(todo)[j] = todo[k]
<1>1. PICK n \in 1..Len(todo) : n = BatchLength(todo)
  BY BatchLengthIn
<1>2. Len(todo) \in Nat /\ DOMAIN todo = 1..Len(todo) /\ \A i \in 1..Len(todo) : todo[i] \in Rows \X Nat
  BY LenProperties, ElementOfSeq DEF Todos
<1>3. PICK a : a = SubSeq(todo, 1, n)
  OBVIOUS
<1>4. PICK z : z = SubSeq(todo, n + 1, Len(todo))
  OBVIOUS
<1>5. a \in Todos /\ DOMAIN a = 1..n /\ \A i \in 1..n : a[i] = todo[i]
  <2>1. \A i \in 1..n : todo[i] \in Rows \X Nat
    BY <1>2
  <2>2. a \in Todos /\ Len(a) = n /\ \A i \in 1..n : a[i] = todo[1 + i - 1]
    BY <1>2, <1>3, <2>1, SubSeqProperties DEF Todos
  <2> QED
    BY <2>2, LenProperties DEF Todos
<1>6. z \in Todos /\ DOMAIN z = 1..(Len(todo) - n) /\ \A i \in 1..(Len(todo) - n) : z[i] = todo[n + i]
  <2>1. \A i \in (n + 1)..Len(todo) : todo[i] \in Rows \X Nat
    BY <1>2
  <2>2. /\ z \in Todos
        /\ Len(z) = IF n + 1 <= Len(todo) THEN Len(todo) - (n + 1) + 1 ELSE 0
        /\ \A i \in 1..(Len(todo) - (n + 1) + 1) : z[i] = todo[(n + 1) + i - 1]
    BY <1>2, <1>4, <2>1, SubSeqProperties, n + 1 \in Int DEF Todos
  <2>3. Len(todo) - (n + 1) + 1 = Len(todo) - n /\ \A i \in 1..(Len(todo) - n) : (n + 1) + i - 1 = n + i
    BY <1>2
  <2>4. Len(z) = Len(todo) - n
    <3>1. PICK m \in Nat : m = Len(todo)
      BY <1>2
    <3>2. n \in 1..m
      BY <3>1
    <3>3. Len(z) = IF n + 1 <= m THEN m - (n + 1) + 1 ELSE 0
      BY <2>2, <3>1
    <3> QED
      BY <3>1, <3>2, <3>3
  <2>5. DOMAIN z = 1..(Len(todo) - n)
    BY <2>2, <2>4, LenProperties DEF Todos
  <2> QED
    BY <2>2, <2>3, <2>5
<1>7. ASSUME NEW k \in DOMAIN todo
      PROVE  \/ \E j \in DOMAIN a : a[j] = todo[k]
             \/ \E j \in DOMAIN z : z[j] = todo[k]
  <2>1. CASE k <= n
    <3>1. k \in 1..n
      BY <1>2, <2>1
    <3> QED
      BY <1>5, <3>1
  <2>2. CASE k > n
    <3>1. k - n \in 1..(Len(todo) - n) /\ n + (k - n) = k
      BY <1>2, <2>2
    <3>2. z[k - n] = todo[k]
      BY <1>6, <3>1
    <3> QED
      BY <1>6, <3>1, <3>2
  <2>3. k \in Int /\ n \in Int
    BY <1>2
  <2> QED
    BY <2>1, <2>2, <2>3
<1>8. \A j \in DOMAIN a : j \in DOMAIN todo /\ a[j] = todo[j]
  <2>1. \A j \in 1..n : j \in 1..Len(todo)
    BY <1>2
  <2> QED
    BY <1>2, <1>5, <2>1
<1>9. \A j \in DOMAIN z : n + j \in DOMAIN todo /\ z[j] = todo[n + j]
  <2>1. \A j \in 1..(Len(todo) - n) : n + j \in 1..Len(todo)
    BY <1>2
  <2> QED
    BY <1>2, <1>6, <2>1
<1> QED
  BY <1>1, <1>3, <1>4, <1>5, <1>6, <1>7, <1>8, <1>9 DEF Batch, Remaining

\* The call of a batch has the rows of the batch.
LEMMA BatchTexts ==
  ASSUME NEW b, b.todo \in Todos, b.todo # <<>>
  PROVE  /\ BatchOf(b) \in [texts : Texts, priority : {"normal", "high"}, stage : {"begins"}]
         /\ \A j \in DOMAIN Batch(b.todo) : Batch(b.todo)[j][1] \in DOMAIN BatchOf(b).texts
         /\ \A i \in DOMAIN BatchOf(b).texts : \E j \in DOMAIN Batch(b.todo) :
                Batch(b.todo)[j][1] = i /\ Batch(b.todo)[j][2] = BatchOf(b).texts[i]
<1>1. PICK s \in Todos : s = Batch(b.todo)
  BY BatchSplits
<1>2. DOMAIN s = 1..Len(s) /\ \A i \in DOMAIN s : s[i] \in Rows \X Nat
  BY LenProperties, ElementOfSeq DEF Todos
<1> DEFINE t == ToSet(s)
           f == [i \in {x[1] : x \in t} |-> (CHOOSE x \in t : x[1] = i)[2]]
<1>3. t \subseteq Rows \X Nat /\ \A j \in DOMAIN s : s[j] \in t
  BY <1>2 DEF ToSet
<1>4. {x[1] : x \in t} \in SUBSET Rows
  BY <1>3
<1>5. ASSUME NEW i \in {x[1] : x \in t} PROVE (CHOOSE x \in t : x[1] = i)[2] \in Nat
  BY <1>3
<1>6. f \in [{x[1] : x \in t} -> Nat]
  BY <1>5
<1>7. f \in Texts
  BY <1>4, <1>6 DEF Texts
<1>8. BatchOf(b) = [texts |-> f, priority |-> "normal", stage |-> "begins"]
  BY <1>1 DEF BatchOf, Call
<1>9. \A j \in DOMAIN s : s[j][1] \in DOMAIN f
  BY <1>3
<1>10. ASSUME NEW i \in DOMAIN f PROVE \E j \in DOMAIN s : s[j][1] = i /\ s[j][2] = f[i]
  <2>1. PICK x : x = CHOOSE y \in t : y[1] = i
    OBVIOUS
  <2>2. x \in t /\ x[1] = i /\ f[i] = x[2]
    BY <2>1
  <2>3. PICK j \in DOMAIN s : s[j] = x
    BY <2>2 DEF ToSet
  <2> QED
    BY <2>2, <2>3
<1> HIDE DEF f
<1> QED
  BY <1>1, <1>7, <1>8, <1>9, <1>10

\* The snapshot of a table has its rows without a vector.
LEMMA SnapshotIs ==
  ASSUME NEW rs \in [Rows -> [text : Nat, vector : Vectors]], NEW table
  PROVE  /\ Snapshot(rs, table) \in Todos
         /\ \A i \in Missing(rs, table) : \E k \in DOMAIN Snapshot(rs, table) : Snapshot(rs, table)[k][1] = i
         /\ \A k \in DOMAIN Snapshot(rs, table) :
                \E i \in Missing(rs, table) : Snapshot(rs, table)[k] = <<i, rs[i].text>>
<1> DEFINE M == Missing(rs, table)
           S == {<<i, rs[i].text>> : i \in M}
           f == [i \in M |-> <<i, rs[i].text>>]
<1>1. M \subseteq Rows /\ IsFiniteSet(M)
  BY RowsAssumption, FS_Subset DEF Missing
<1>2. f \in Surjection(M, S)
  BY DEF Surjection
<1>3. IsFiniteSet(S)
  BY <1>1, <1>2, FS_Surjection
<1>4. SetToSeq(S) \in Seq(S) /\ ToSet(SetToSeq(S)) = S
  BY <1>3, SeqOfSet
<1>5. S \subseteq Rows \X Nat
  BY <1>1
<1>6. SetToSeq(S) \in Todos
  BY <1>4, <1>5, SeqMonotonic DEF Todos
<1>7. ASSUME NEW i \in M PROVE \E k \in DOMAIN SetToSeq(S) : SetToSeq(S)[k][1] = i
  <2>1. <<i, rs[i].text>> \in ToSet(SetToSeq(S))
    BY <1>4
  <2>2. PICK k \in DOMAIN SetToSeq(S) : SetToSeq(S)[k] = <<i, rs[i].text>>
    BY <2>1 DEF ToSet
  <2>3. SetToSeq(S)[k][1] = i
    BY <2>2
  <2> HIDE DEF S
  <2> QED
    BY <2>3
<1>8. ASSUME NEW k \in DOMAIN SetToSeq(S) PROVE \E i \in M : SetToSeq(S)[k] = <<i, rs[i].text>>
  <2>1. SetToSeq(S)[k] \in ToSet(SetToSeq(S))
    BY DEF ToSet
  <2>2. SetToSeq(S)[k] \in S
    BY <1>4, <2>1
  <2> QED
    BY <2>2
<1> QED
  BY <1>6, <1>7, <1>8 DEF Snapshot

(* ------------------------------ The worker ----------------------------- *)

\* A list that is another one with an element more.
Inserts(q, e, at, x) ==
    /\ DOMAIN e = 1..(Len(q) + 1)
    /\ e[at] = x
    /\ \A i \in 1..(at - 1) : e[i] = q[i]
    /\ \A i \in at..Len(q) : e[i + 1] = q[i]

LEMMA InsertedAt ==
  ASSUME NEW S, NEW q \in Seq(S), NEW at \in 1..(Len(q) + 1), NEW x \in S
  PROVE  InsertAt(q, at, x) \in Seq(S) /\ Inserts(q, InsertAt(q, at, x), at, x)
<1>1. PICK n \in Nat : n = Len(q)
  BY LenProperties
<1>2. at \in Nat /\ 1 <= at /\ at <= n + 1 /\ \A i \in 1..n : q[i] \in S
  BY <1>1, ElementOfSeq
<1>3. PICK a : a = SubSeq(q, 1, at - 1)
  OBVIOUS
<1>4. PICK z : z = SubSeq(q, at, n)
  OBVIOUS
<1>5. a \in Seq(S) /\ Len(a) = at - 1 /\ \A i \in 1..(at - 1) : a[i] = q[i]
  <2>1. \A i \in 1..(at - 1) : q[i] \in S
    BY <1>2
  <2>2. /\ a \in Seq(S) /\ Len(a) = IF 1 <= at - 1 THEN (at - 1) - 1 + 1 ELSE 0
        /\ \A i \in 1..((at - 1) - 1 + 1) : a[i] = q[1 + i - 1]
    BY <1>2, <1>3, <2>1, SubSeqProperties, at - 1 \in Int
  <2>3. (at - 1) - 1 + 1 = at - 1 /\ \A i \in 1..(at - 1) : 1 + i - 1 = i
    BY <1>2
  <2> QED
    BY <1>2, <2>2, <2>3
<1>6. z \in Seq(S) /\ Len(z) = n - at + 1 /\ \A i \in 1..(n - at + 1) : z[i] = q[at + i - 1]
  <2>1. \A i \in at..n : q[i] \in S
    BY <1>2
  <2>2. /\ z \in Seq(S) /\ Len(z) = IF at <= n THEN n - at + 1 ELSE 0
        /\ \A i \in 1..(n - at + 1) : z[i] = q[at + i - 1]
    BY <1>1, <1>2, <1>4, <2>1, SubSeqProperties
  <2> QED
    BY <1>2, <2>2
<1>7. <<x>> \in Seq(S) /\ Len(<<x>>) = 1 /\ <<x>>[1] = x
  OBVIOUS
<1>8. PICK b : b = a \o <<x>>
  OBVIOUS
<1>9. /\ b \in Seq(S) /\ Len(b) = at
      /\ \A i \in 1..at : b[i] = IF i <= at - 1 THEN a[i] ELSE <<x>>[i - (at - 1)]
  <2>1. /\ b \in Seq(S) /\ Len(b) = (at - 1) + 1
        /\ \A i \in 1..((at - 1) + 1) : b[i] = IF i <= at - 1 THEN a[i] ELSE <<x>>[i - (at - 1)]
    BY <1>5, <1>7, <1>8, ConcatProperties
  <2> QED
    BY <1>2, <2>1
<1>10. b[at] = x /\ \A i \in 1..(at - 1) : b[i] = q[i]
  <2>1. b[at] = <<x>>[at - (at - 1)]
    BY <1>2, <1>9
  <2>2. at - (at - 1) = 1
    BY <1>2
  <2>3. ASSUME NEW i \in 1..(at - 1) PROVE b[i] = q[i]
    <3>1. i \in 1..at /\ i <= at - 1
      BY <1>2
    <3> QED
      BY <1>5, <1>9, <3>1
  <2> QED
    BY <1>7, <2>1, <2>2, <2>3
<1>11. PICK e : e = b \o z
  OBVIOUS
<1>12. /\ e \in Seq(S) /\ Len(e) = at + (n - at + 1)
       /\ \A i \in 1..(at + (n - at + 1)) : e[i] = IF i <= at THEN b[i] ELSE z[i - at]
  <2>1. /\ e \in Seq(S) /\ Len(e) = Len(b) + Len(z)
        /\ \A i \in 1..(Len(b) + Len(z)) : e[i] = IF i <= Len(b) THEN b[i] ELSE z[i - Len(b)]
    BY <1>6, <1>9, <1>11, ConcatProperties
  <2>2. Len(b) = at /\ Len(z) = n - at + 1
    BY <1>6, <1>9
  <2> QED
    BY <2>1, <2>2
<1>13. e \in Seq(S) /\ DOMAIN e = 1..(n + 1)
  <2>1. at + (n - at + 1) = n + 1
    BY <1>2
  <2> QED
    BY <1>12, <2>1, LenProperties
<1>14. ASSUME NEW i \in 1..at PROVE e[i] = b[i]
  <2>1. i \in 1..(at + (n - at + 1)) /\ i <= at
    BY <1>2
  <2> QED
    BY <1>12, <2>1
<1>15. ASSUME NEW i \in at..n PROVE e[i + 1] = q[i]
  <2>1. i + 1 \in 1..(at + (n - at + 1)) /\ ~(i + 1 <= at) /\ (i + 1) - at \in 1..(n - at + 1)
        /\ at + ((i + 1) - at) - 1 = i
    BY <1>2
  <2>2. e[i + 1] = z[(i + 1) - at]
    BY <1>12, <2>1
  <2> QED
    BY <1>6, <2>1, <2>2
<1>16. e[at] = x /\ \A i \in 1..(at - 1) : e[i] = q[i]
  <2>1. at \in 1..at /\ \A i \in 1..(at - 1) : i \in 1..at
    BY <1>2
  <2> QED
    BY <1>10, <1>14, <2>1
<1>17. e = InsertAt(q, at, x)
  BY <1>1, <1>3, <1>4, <1>8, <1>11 DEF InsertAt
<1> QED
  BY <1>1, <1>13, <1>15, <1>16, <1>17 DEF Inserts

\* A request is put somewhere into the queue, a document at its end.
LEMMA Enqueued ==
  ASSUME NEW q \in Seq(Waits), NEW x \in Waits
  PROVE  /\ Enqueue(q, x) \in Seq(Waits)
         /\ \E at \in 1..(Len(q) + 1) :
               Inserts(q, Enqueue(q, x), at, x) /\ (x.priority = "high" \/ at = Len(q) + 1)
<1> DEFINE documents == {i \in DOMAIN q : q[i].priority # "high"}
<1>1. Len(q) \in Nat /\ DOMAIN q = 1..Len(q)
  BY LenProperties
<1>2. CASE x.priority = "high" /\ documents # {}
  <2>1. documents \subseteq Nat
    BY <1>1
  <2>2. Min(documents) \in documents
    BY <1>2, <2>1, LeastOf
  <2>3. Min(documents) \in 1..(Len(q) + 1)
    BY <1>1, <2>2
  <2>4. Enqueue(q, x) = InsertAt(q, Min(documents), x)
    BY <1>2 DEF Enqueue
  <2> QED
    BY <1>2, <2>3, <2>4, InsertedAt
<1>3. CASE ~(x.priority = "high" /\ documents # {})
  <2>1. Enqueue(q, x) = Append(q, x)
    BY <1>3 DEF Enqueue
  <2>2. /\ Append(q, x) \in Seq(Waits) /\ Len(Append(q, x)) = Len(q) + 1
        /\ \A i \in 1..Len(q) : Append(q, x)[i] = q[i]
        /\ Append(q, x)[Len(q) + 1] = x
    BY AppendProperties
  <2>3. DOMAIN Append(q, x) = 1..(Len(q) + 1)
    BY <2>2, LenProperties
  <2>4. Inserts(q, Append(q, x), Len(q) + 1, x)
    <3>1. PICK n \in Nat : n = Len(q)
      BY <1>1
    <3>2. (n + 1) - 1 = n /\ (n + 1)..n = {}
      BY <3>1
    <3> QED
      BY <2>2, <2>3, <3>1, <3>2 DEF Inserts
  <2> QED
    BY <1>1, <2>1, <2>2, <2>4
<1> QED
  BY <1>2, <1>3

LEMMA IdIsNotNoId == \A id \in CallIds : id # NoId
<1> SUFFICES ASSUME NEW id \in CallIds PROVE id # NoId
  OBVIOUS
<1>1. PICK a \in Rows \cup Runners \cup {"query"}, n \in Nat : id = <<a, n>>
  BY DEF CallIds
<1>2. Len(<<a, n>>) = 2 /\ Len(<<>>) = 0
  OBVIOUS
<1> QED
  BY <1>1, <1>2 DEF NoId

LEMMA Drained ==
  ASSUME NEW w \in Threads
  PROVE  /\ Drain(w) \in Threads
         /\ Drain(w).thread = w.thread /\ Drain(w).model = w.model
         /\ Drain(w).inbox = w.inbox /\ Drain(w).outbox = w.outbox
         /\ \A id : IsAt(w, id) /\ id # NoId => IsAt(Drain(w), id)
<1>1. CASE w.current # NoId \/ w.queue = <<>>
  BY <1>1 DEF Drain
<1>2. CASE ~(w.current # NoId \/ w.queue = <<>>)
  <2>1. PICK v : v = Drain(w)
    OBVIOUS
  <2>2. v = [w EXCEPT !.current = Head(w.queue).id, !.queue = Tail(w.queue)]
    BY <1>2, <2>1 DEF Drain
  <2>3. w.queue \in Seq(Waits) /\ w.queue # <<>> /\ w.current = NoId
    BY <1>2 DEF Threads
  <2>4. /\ Head(w.queue) \in Waits /\ Head(w.queue) = w.queue[1] /\ Tail(w.queue) \in Seq(Waits)
        /\ Len(Tail(w.queue)) = Len(w.queue) - 1
        /\ \A i \in 1..Len(Tail(w.queue)) : Tail(w.queue)[i] = w.queue[i + 1]
        /\ DOMAIN Tail(w.queue) = 1..Len(Tail(w.queue)) /\ DOMAIN w.queue = 1..Len(w.queue)
        /\ Len(w.queue) \in Nat
    BY <2>3, HeadTailProperties, LenProperties
  <2>5. Head(w.queue).id \in CallIds
    BY <2>4 DEF Waits
  <2>6. v \in Threads
    BY <2>2, <2>4, <2>5 DEF Threads
  <2>7. /\ v.current = w.queue[1].id /\ v.queue = Tail(w.queue) /\ v.inbox = w.inbox /\ v.outbox = w.outbox
        /\ v.thread = w.thread /\ v.model = w.model
    BY <2>2, <2>4 DEF Threads
  <2>8. ASSUME NEW id, id # NoId, IsAt(w, id) PROVE IsAt(v, id)
    <3>1. CASE \E n \in DOMAIN w.queue : w.queue[n].id = id
      <4>1. PICK n \in DOMAIN w.queue : w.queue[n].id = id
        BY <3>1
      <4>2. CASE n = 1
        BY <2>7, <4>1, <4>2 DEF IsAt
      <4>3. CASE n # 1
        <5>1. n - 1 \in 1..Len(Tail(w.queue)) /\ (n - 1) + 1 = n
          BY <2>4, <4>3
        <5>2. Tail(w.queue)[n - 1] = w.queue[n]
          BY <2>4, <5>1
        <5> QED
          BY <2>4, <2>7, <4>1, <5>1, <5>2 DEF IsAt
      <4> QED
        BY <4>2, <4>3
    <3>2. CASE ~\E n \in DOMAIN w.queue : w.queue[n].id = id
      BY <2>3, <2>7, <2>8, <3>2 DEF IsAt
    <3> QED
      BY <3>1, <3>2
  <2> QED
    BY <2>1, <2>6, <2>7, <2>8
<1> QED
  BY <1>1, <1>2

\* The request in progress is done with, whatever its answer.
LEMMA DoneIs ==
  ASSUME NEW w \in Threads
  PROVE  /\ Done(w) \in Threads
         /\ Done(w).thread = w.thread /\ Done(w).model = w.model
         /\ Done(w).inbox = w.inbox /\ Done(w).outbox = w.outbox
         /\ \A id : IsAt(w, id) /\ id # NoId /\ id # w.current => IsAt(Done(w), id)
<1>1. PICK v : v = [w EXCEPT !.current = NoId]
  OBVIOUS
<1>2. /\ v \in Threads /\ v.thread = w.thread /\ v.model = w.model /\ v.inbox = w.inbox /\ v.outbox = w.outbox
      /\ v.queue = w.queue
  BY <1>1 DEF Threads
<1>3. \A id : IsAt(w, id) /\ id # w.current => IsAt(v, id)
  BY <1>2 DEF IsAt
<1> QED
  BY <1>1, <1>2, <1>3, Drained DEF Done

\* What a step of the worker leaves for a provider and its calls to rely on.
Goes(w, v) ==
    /\ v \in Threads
    /\ w.outbox # <<>> => v.outbox # <<>>
    /\ IsBroken(w) => IsBroken(v)
    /\ ~IsBroken(v) => /\ w.thread = "running" /\ w.model # "failed" => v.thread = "running" /\ v.model # "failed"
                       /\ w.model # "failed" => \A id \in CallIds : IsAt(w, id) => IsAt(v, id)

\* An answer at the end of the messages loses none of them.
LEMMA OutboxGrows ==
  ASSUME NEW w \in Threads, NEW x \in Replies, NEW v, v.outbox = Append(w.outbox, x)
  PROVE  /\ v.outbox \in Seq(Replies) /\ v.outbox # <<>>
         /\ \E n \in DOMAIN v.outbox : v.outbox[n] = x
         /\ \A n \in DOMAIN w.outbox : n \in DOMAIN v.outbox /\ v.outbox[n] = w.outbox[n]
         /\ IsBroken(w) => IsBroken(v)
         /\ x.type \in {"init-error", "crash"} => IsBroken(v)
<1>1. PICK q \in Seq(Replies) : q = w.outbox
  BY DEF Threads
<1>2. PICK e : e = Append(q, x)
  OBVIOUS
<1>3. /\ e \in Seq(Replies) /\ e # <<>> /\ Len(e) = Len(q) + 1
      /\ \A i \in 1..Len(q) : e[i] = q[i]
      /\ e[Len(q) + 1] = x
  BY <1>2, AppendProperties
<1>4. DOMAIN e = 1..(Len(q) + 1) /\ DOMAIN q = 1..Len(q) /\ Len(q) \in Nat
  BY <1>3, LenProperties
<1>5. \A n \in DOMAIN q : n \in DOMAIN e /\ e[n] = q[n]
  BY <1>3, <1>4
<1>6. Len(q) + 1 \in DOMAIN e
  BY <1>4
<1>7. v.outbox = e
  BY <1>1, <1>2
<1> QED
  BY <1>1, <1>3, <1>5, <1>6, <1>7 DEF IsBroken

LEMMA ReceivesGoes ==
  ASSUME worker \in Threads, Receives
  PROVE  Goes(worker, worker')
<1>1. PICK w \in Threads : w = worker
  OBVIOUS
<1>2. PICK v : v = worker'
  OBVIOUS
<1>3. /\ w.inbox \in Seq(Waits) /\ w.inbox # <<>> /\ w.queue \in Seq(Waits)
      /\ v = Drain([w EXCEPT !.inbox = Tail(w.inbox), !.queue = Enqueue(w.queue, Head(w.inbox))])
  BY <1>1, <1>2 DEF Receives, Threads
<1>4. /\ Head(w.inbox) \in Waits /\ Head(w.inbox) = w.inbox[1] /\ Tail(w.inbox) \in Seq(Waits)
      /\ DOMAIN w.inbox = 1..Len(w.inbox) /\ Len(w.inbox) \in Nat
      /\ DOMAIN Tail(w.inbox) = 1..(Len(w.inbox) - 1)
      /\ \A i \in 1..(Len(w.inbox) - 1) : Tail(w.inbox)[i] = w.inbox[i + 1]
  BY <1>3, HeadTailProperties, LenProperties
<1>5. PICK x \in Waits : x = Head(w.inbox)
  BY <1>4
<1>6. PICK e : e = Enqueue(w.queue, x)
  OBVIOUS
<1>7. PICK at \in 1..(Len(w.queue) + 1) : Inserts(w.queue, e, at, x)
  BY <1>3, <1>6, Enqueued
<1>8. e \in Seq(Waits)
  BY <1>3, <1>6, Enqueued
<1>9. PICK u : u = [w EXCEPT !.inbox = Tail(w.inbox), !.queue = e]
  OBVIOUS
<1>10. /\ u \in Threads /\ u.thread = w.thread /\ u.model = w.model /\ u.current = w.current /\ u.outbox = w.outbox
       /\ u.queue = e /\ u.inbox = Tail(w.inbox)
  BY <1>4, <1>8, <1>9 DEF Threads
<1>11. ASSUME NEW id \in CallIds, IsAt(w, id) PROVE IsAt(u, id)
  <2>1. CASE \E n \in DOMAIN w.queue : w.queue[n].id = id
    <3>1. PICK n \in DOMAIN w.queue : w.queue[n].id = id
      BY <2>1
    <3>2. Len(w.queue) \in Nat /\ DOMAIN w.queue = 1..Len(w.queue)
      BY <1>3, LenProperties
    <3>3. \E k \in DOMAIN e : e[k] = w.queue[n]
      <4>1. CASE n < at
        <5>1. n \in 1..(at - 1) /\ n \in 1..(Len(w.queue) + 1)
          BY <3>2, <4>1
        <5> QED
          BY <1>7, <5>1 DEF Inserts
      <4>2. CASE ~(n < at)
        <5>1. n \in at..Len(w.queue) /\ n + 1 \in 1..(Len(w.queue) + 1)
          BY <3>2, <4>2
        <5> QED
          BY <1>7, <5>1 DEF Inserts
      <4> QED
        BY <4>1, <4>2
    <3> QED
      BY <1>10, <3>1, <3>3 DEF IsAt
  <2>2. CASE \E n \in DOMAIN w.inbox : w.inbox[n].id = id
    <3>1. PICK n \in DOMAIN w.inbox : w.inbox[n].id = id
      BY <2>2
    <3>2. CASE n = 1
      <4>1. at \in DOMAIN e /\ e[at].id = id
        BY <1>4, <1>5, <1>7, <3>1, <3>2 DEF Inserts
      <4> QED
        BY <1>10, <4>1 DEF IsAt
    <3>3. CASE n # 1
      <4>1. n - 1 \in 1..(Len(w.inbox) - 1) /\ (n - 1) + 1 = n
        BY <1>4, <3>3
      <4>2. Tail(w.inbox)[n - 1] = w.inbox[n]
        BY <1>4, <4>1
      <4> QED
        BY <1>4, <1>10, <3>1, <4>1, <4>2 DEF IsAt
    <3> QED
      BY <3>2, <3>3
  <2>3. CASE ~(\E n \in DOMAIN w.queue : w.queue[n].id = id) /\ ~(\E n \in DOMAIN w.inbox : w.inbox[n].id = id)
    BY <1>10, <1>11, <2>3 DEF IsAt
  <2> QED
    BY <2>1, <2>2, <2>3
<1>12. v = Drain(u)
  BY <1>3, <1>5, <1>6, <1>9
<1>13. /\ v \in Threads /\ v.thread = w.thread /\ v.model = w.model /\ v.outbox = w.outbox
       /\ \A id \in CallIds : IsAt(w, id) => IsAt(v, id)
  BY <1>10, <1>11, <1>12, Drained, IdIsNotNoId
<1>14. IsBroken(w) => IsBroken(v)
  BY <1>13 DEF IsBroken
<1> QED
  BY <1>1, <1>2, <1>13, <1>14 DEF Goes

LEMMA ModelGoes ==
  ASSUME worker \in Threads, ModelLoads \/ ModelFails \/ Drops
  PROVE  Goes(worker, worker')
<1>1. PICK w \in Threads : w = worker
  OBVIOUS
<1>2. PICK v : v = worker'
  OBVIOUS
<1>3. CASE ModelLoads
  <2>1. v = [w EXCEPT !.model = "loaded"]
    BY <1>1, <1>2, <1>3 DEF ModelLoads
  <2>2. v \in Threads /\ v.thread = w.thread /\ v.model = "loaded" /\ v.outbox = w.outbox /\ v.inbox = w.inbox
        /\ v.queue = w.queue /\ v.current = w.current
    BY <2>1 DEF Threads
  <2> QED
    BY <1>1, <1>2, <2>2 DEF Goes, IsBroken, IsAt
<1>4. CASE ModelFails
  <2>1. PICK x : x = Reply("init-error", NoId)
    OBVIOUS
  <2>2. x \in Replies /\ x.type = "init-error"
    BY <2>1 DEF Reply, Replies
  <2>3. PICK u : u = [w EXCEPT !.model = "failed", !.outbox = Append(w.outbox, x)]
    OBVIOUS
  <2>4. v = Done(u)
    BY <1>1, <1>2, <1>4, <2>1, <2>3 DEF ModelFails
  <2>5. Append(w.outbox, x) \in Seq(Replies)
    BY <2>2 DEF Threads
  <2>6. u \in Threads /\ u.outbox = Append(w.outbox, x)
    BY <2>3, <2>5 DEF Threads
  <2>7. v \in Threads /\ v.outbox = Append(w.outbox, x)
    BY <2>4, <2>6, DoneIs
  <2>8. IsBroken(v) /\ v.outbox # <<>>
    BY <2>2, <2>7, OutboxGrows
  <2> QED
    BY <1>1, <1>2, <2>7, <2>8 DEF Goes
<1>5. CASE Drops
  <2>1. w.model = "failed" /\ v = Done(w)
    BY <1>1, <1>2, <1>5 DEF Drops
  <2>2. v \in Threads /\ v.outbox = w.outbox
    BY <2>1, DoneIs
  <2> QED
    BY <1>1, <1>2, <2>1, <2>2 DEF Goes, IsBroken
<1> QED
  BY <1>3, <1>4, <1>5

LEMMA ProcessesGoes ==
  ASSUME worker \in Threads, Processes
  PROVE  Goes(worker, worker')
<1>1. PICK w \in Threads : w = worker
  OBVIOUS
<1>2. PICK v : v = worker'
  OBVIOUS
<1>3. PICK type \in {"result", "error"} :
         v = Done([w EXCEPT !.outbox = Append(w.outbox, Reply(type, w.current))])
  BY <1>1, <1>2 DEF Processes
<1>4. PICK x : x = Reply(type, w.current)
  OBVIOUS
<1>5. x \in Replies
  BY <1>4 DEF Reply, Replies, Threads
<1>6. PICK u : u = [w EXCEPT !.outbox = Append(w.outbox, x)]
  OBVIOUS
<1>7. Append(w.outbox, x) \in Seq(Replies)
  BY <1>5 DEF Threads
<1>8. /\ u \in Threads /\ u.outbox = Append(w.outbox, x) /\ u.thread = w.thread /\ u.model = w.model
      /\ u.queue = w.queue /\ u.inbox = w.inbox /\ u.current = w.current
  BY <1>6, <1>7 DEF Threads
<1>9. v = Done(u)
  BY <1>3, <1>4, <1>6
<1>10. /\ v \in Threads /\ v.outbox = Append(w.outbox, x) /\ v.thread = w.thread /\ v.model = w.model
       /\ \A id : IsAt(u, id) /\ id # NoId /\ id # w.current => IsAt(v, id)
  BY <1>8, <1>9, DoneIs
<1>11. /\ v.outbox # <<>> /\ (IsBroken(w) => IsBroken(v))
       /\ \E n \in DOMAIN v.outbox : v.outbox[n] = x
       /\ \A n \in DOMAIN w.outbox : n \in DOMAIN u.outbox /\ u.outbox[n] = w.outbox[n]
  <2>1. v.outbox = Append(w.outbox, x) /\ u.outbox = Append(w.outbox, x)
    BY <1>8, <1>10
  <2>2. \A n \in DOMAIN w.outbox : n \in DOMAIN u.outbox /\ u.outbox[n] = w.outbox[n]
    BY <1>5, <2>1, OutboxGrows
  <2>3. v.outbox # <<>>
    BY <1>5, <2>1, OutboxGrows
  <2>4. \E n \in DOMAIN v.outbox : v.outbox[n] = x
    BY <1>5, <2>1, OutboxGrows
  <2>5. IsBroken(w) => IsBroken(v)
    BY <1>5, <2>1, OutboxGrows
  <2> QED
    BY <2>2, <2>3, <2>4, <2>5
<1>12. ASSUME NEW id \in CallIds, IsAt(w, id) PROVE IsAt(v, id)
  <2>1. CASE id = w.current
    <3>1. x \in {Reply("result", id), Reply("error", id)}
      BY <1>4, <2>1
    <3> QED
      BY <1>11, <3>1 DEF IsAt
  <2>2. CASE id # w.current
    <3>1. IsAt(u, id)
      BY <1>8, <1>11, <1>12 DEF IsAt
    <3> QED
      BY <1>10, <2>2, <3>1, IdIsNotNoId
  <2> QED
    BY <2>1, <2>2
<1> QED
  BY <1>1, <1>2, <1>10, <1>11, <1>12 DEF Goes

LEMMA CrashesGoes ==
  ASSUME worker \in Threads, Crashes
  PROVE  Goes(worker, worker')
<1>1. PICK w \in Threads : w = worker
  OBVIOUS
<1>2. PICK v : v = worker'
  OBVIOUS
<1>3. PICK x : x = Reply("crash", NoId)
  OBVIOUS
<1>4. x \in Replies /\ x.type = "crash"
  BY <1>3 DEF Reply, Replies
<1>5. v = [NoWorker EXCEPT !.thread = "ended", !.outbox = Append(w.outbox, x)]
  BY <1>1, <1>2, <1>3 DEF Crashes
<1>6. Append(w.outbox, x) \in Seq(Replies)
  BY <1>4 DEF Threads
<1>7. v \in Threads /\ v.outbox = Append(w.outbox, x)
  <2>1. v = [thread |-> "ended", model |-> "unloaded", queue |-> <<>>, current |-> NoId, inbox |-> <<>>,
             outbox |-> Append(w.outbox, x)]
    BY <1>5 DEF NoWorker
  <2>2. <<>> \in Seq(Waits)
    OBVIOUS
  <2> QED
    BY <1>6, <2>1, <2>2 DEF Threads
<1>8. IsBroken(v) /\ v.outbox # <<>>
  BY <1>4, <1>7, OutboxGrows
<1> QED
  BY <1>1, <1>2, <1>7, <1>8 DEF Goes

\* A step of the worker's thread strands no call.
LEMMA WorkerKeeps ==
  ASSUME worker \in Threads, WorkerSteps \/ Crashes,
         NEW p, Knows(p, worker), NEW c, DOMAIN c \subseteq CallIds, Waited(c, p, worker)
  PROVE  worker' \in Threads /\ Knows(p, worker') /\ Waited(c, p, worker')
<1>1. Goes(worker, worker')
  BY ReceivesGoes, ModelGoes, ProcessesGoes, CrashesGoes DEF WorkerSteps
<1>2. worker.thread = "running"
  BY DEF WorkerSteps, Receives, ModelLoads, ModelFails, IsLoading, Drops, Processes, Crashes
<1>3. p.ready \/ p.error
  BY <1>2 DEF Knows, NoWorker
<1>4. Knows(p, worker')
  BY <1>1, <1>3 DEF Knows, Goes
<1>5. ASSUME NEW id \in DOMAIN c, c[id].stage = "waiting"
      PROVE  IsAt(worker', id) \/ IsBroken(worker')
  <2>1. p.ready /\ (IsAt(worker, id) \/ IsBroken(worker))
    BY <1>5 DEF Waited
  <2>2. IsBroken(worker) \/ worker.model # "failed"
    BY <2>1 DEF Knows
  <2> QED
    BY <1>1, <2>1, <2>2 DEF Goes
<1> QED
  BY <1>1, <1>4, <1>5 DEF Waited, Goes

(* --------------------------- Calls that begin -------------------------- *)

Begun == [texts : Texts, priority : {"normal", "high"}, stage : {"begins"}]

\* What calls that begin leave of the ones in progress.
LEMMA InProgressIs ==
  ASSUME NEW c, Typed(c, Calls), NEW new, Typed(new, Begun), NEW p
  PROVE  LET n == InProgress(c, new, p) IN
         /\ Typed(n, Calls)
         /\ DOMAIN c \subseteq DOMAIN n /\ DOMAIN n \subseteq DOMAIN c \cup DOMAIN new
         /\ BeginsAt(p) = "failed" => DOMAIN n = DOMAIN c
         /\ \A id \in DOMAIN c : id \notin DOMAIN new \/ BeginsAt(p) = "failed" => n[id] = c[id]
         /\ BeginsAt(p) # "failed" => \A id \in DOMAIN new : /\ id \in DOMAIN n
                                                            /\ n[id] = [new[id] EXCEPT !.stage = BeginsAt(p)]
<1>1. PICK s : s = BeginsAt(p)
  OBVIOUS
<1>2. s \in Stages \cup {"failed"}
  BY <1>1 DEF BeginsAt, Stages
<1>3. PICK begun : begun = IF s = "failed" THEN {} ELSE DOMAIN new
  OBVIOUS
<1>4. PICK n : n = InProgress(c, new, p)
  OBVIOUS
<1>5. n = [id \in DOMAIN c \cup begun |-> IF id \in begun THEN [new[id] EXCEPT !.stage = s] ELSE c[id]]
  BY <1>1, <1>3, <1>4 DEF InProgress
<1>6. ASSUME NEW id \in begun
      PROVE  /\ id \in CallIds /\ [new[id] EXCEPT !.stage = s] \in Calls
             /\ ([new[id] EXCEPT !.stage = s].priority = "high" => id[1] = "query")
  <2>1. id \in DOMAIN new /\ new[id] \in Begun /\ s \in Stages
    BY <1>2, <1>3 DEF Typed
  <2> QED
    BY <2>1 DEF Typed, Begun, Calls
<1>7. ASSUME NEW id \in DOMAIN n
      PROVE  id \in CallIds /\ n[id] \in Calls /\ (n[id].priority = "high" => id[1] = "query")
  <2>1. CASE id \in begun
    BY <1>5, <1>6, <2>1
  <2>2. CASE id \notin begun
    BY <1>5, <2>2 DEF Typed
  <2> QED
    BY <2>1, <2>2
<1>8. n \in [DOMAIN n -> Calls]
  BY <1>5, <1>7
<1>9. Typed(n, Calls)
  BY <1>7, <1>8 DEF Typed
<1> QED
  BY <1>1, <1>3, <1>4, <1>5, <1>9

\* Posted requests are at the worker, and nothing else has changed there.
LEMMA PostedIs ==
  ASSUME NEW w \in Threads, NEW q \in Seq(Waits)
  PROVE  LET v == Posted(w, q) IN
         /\ v \in Threads /\ v.outbox = w.outbox /\ v.thread = w.thread /\ v.model = w.model
         /\ \A id : IsAt(w, id) => IsAt(v, id)
         /\ \A n \in DOMAIN q : IsAt(v, q[n].id)
<1>1. PICK v : v = Posted(w, q)
  OBVIOUS
<1>2. PICK b : b = w.inbox \o q
  OBVIOUS
<1>3. w.inbox \in Seq(Waits)
  BY DEF Threads
<1>4. /\ b \in Seq(Waits) /\ Len(b) = Len(w.inbox) + Len(q)
      /\ \A i \in 1..(Len(w.inbox) + Len(q)) : b[i] = IF i <= Len(w.inbox) THEN w.inbox[i] ELSE q[i - Len(w.inbox)]
  BY <1>2, <1>3, ConcatProperties
<1>5. /\ DOMAIN b = 1..(Len(w.inbox) + Len(q)) /\ DOMAIN q = 1..Len(q) /\ DOMAIN w.inbox = 1..Len(w.inbox)
      /\ Len(q) \in Nat /\ Len(w.inbox) \in Nat
  BY <1>3, <1>4, LenProperties
<1>6. v = [w EXCEPT !.inbox = b]
  BY <1>1, <1>2 DEF Posted
<1>7. /\ v \in Threads /\ v.inbox = b /\ v.outbox = w.outbox /\ v.thread = w.thread /\ v.model = w.model
      /\ v.queue = w.queue /\ v.current = w.current
  BY <1>4, <1>6 DEF Threads
<1>8. ASSUME NEW n \in DOMAIN w.inbox PROVE n \in DOMAIN b /\ b[n] = w.inbox[n]
  <2>1. n \in 1..(Len(w.inbox) + Len(q)) /\ n <= Len(w.inbox)
    BY <1>5
  <2> QED
    BY <1>4, <1>5, <2>1
<1>9. ASSUME NEW n \in DOMAIN q PROVE \E k \in DOMAIN b : b[k] = q[n]
  <2>1. Len(w.inbox) + n \in 1..(Len(w.inbox) + Len(q)) /\ ~(Len(w.inbox) + n <= Len(w.inbox))
        /\ (Len(w.inbox) + n) - Len(w.inbox) = n
    BY <1>5
  <2>2. b[Len(w.inbox) + n] = q[n]
    BY <1>4, <2>1
  <2> QED
    BY <1>5, <2>1, <2>2
<1>10. \A id : IsAt(w, id) => IsAt(v, id)
  BY <1>7, <1>8 DEF IsAt
<1>11. \A n \in DOMAIN q : IsAt(v, q[n].id)
  BY <1>7, <1>9 DEF IsAt
<1> QED
  BY <1>1, <1>7, <1>10, <1>11

\* The calls that begin, in some order.
LEMMA OrderIs ==
  ASSUME NEW S, IsFiniteSet(S), S \subseteq CallIds
  PROVE  /\ SetToSeq(S) \in Seq(CallIds) /\ ToSet(SetToSeq(S)) = S
         /\ DOMAIN SetToSeq(S) = 1..Len(SetToSeq(S)) /\ Len(SetToSeq(S)) \in Nat
         /\ SetToSeq(S) = <<>> <=> S = {}
<1>1. PICK q \in Seq(S) : q = SetToSeq(S)
  BY SeqOfSet
<1>2. q \in Seq(CallIds)
  BY <1>1, SeqMonotonic
<1>3. DOMAIN q = 1..Len(q) /\ Len(q) \in Nat
  BY <1>1, LenProperties
<1>4. ToSet(q) = S
  BY <1>1, SeqOfSet
<1>5. q = <<>> <=> Len(q) = 0
  BY <1>1, EmptySeq
<1>6. q = <<>> => S = {}
  BY <1>3, <1>4, <1>5 DEF ToSet
<1>7. q # <<>> => S # {}
  <2>1. ASSUME q # <<>> PROVE q[1] \in S
    <3>1. 1 \in DOMAIN q
      BY <1>3, <1>5, <2>1
    <3> QED
      BY <1>4, <3>1 DEF ToSet
  <2> QED
    BY <2>1
<1> QED
  BY <1>1, <1>2, <1>3, <1>4, <1>6, <1>7

\* The requests of calls that begin, as they are posted.
LEMMA RequestsAre ==
  ASSUME NEW new, Typed(new, Begun), NEW ids \in Seq(CallIds), ToSet(ids) = DOMAIN new
  PROVE  LET q == [n \in DOMAIN ids |-> [id |-> ids[n], priority |-> new[ids[n]].priority]] IN
         q \in Seq(Waits) /\ DOMAIN q = DOMAIN ids /\ \A n \in DOMAIN ids : q[n].id = ids[n]
<1> DEFINE q == [n \in DOMAIN ids |-> [id |-> ids[n], priority |-> new[ids[n]].priority]]
<1>1. DOMAIN ids = 1..Len(ids) /\ Len(ids) \in Nat
  BY LenProperties
<1>2. ASSUME NEW n \in DOMAIN ids PROVE [id |-> ids[n], priority |-> new[ids[n]].priority] \in Waits
  <2>1. ids[n] \in DOMAIN new
    BY DEF ToSet
  <2>2. ids[n] \in CallIds /\ new[ids[n]] \in Begun /\ (new[ids[n]].priority = "high" => ids[n][1] = "query")
    BY <2>1 DEF Typed
  <2> QED
    BY <2>2 DEF Begun, Waits
<1>3. q \in [1..Len(ids) -> Waits]
  BY <1>1, <1>2
<1>4. q \in Seq(Waits)
  BY <1>1, <1>3, SeqDef
<1> QED
  BY <1>4

\* Calls that begin wait where they are found, and strand no other call.
LEMMA BeginKeeps ==
  ASSUME NEW p \in Providers, NEW w \in Threads, Knows(p, w),
         NEW c, Typed(c, Calls), Waited(c, p, w),
         NEW new, Typed(new, Begun), IsFiniteSet(DOMAIN new),
         Begin(new, p, w), calls' = InProgress(c, new, p)
  PROVE  /\ provider' \in Providers /\ worker' \in Threads /\ Typed(calls', Calls)
         /\ Knows(provider', worker') /\ Waited(calls', provider', worker')
<1>1. PICK n : n = calls'
  OBVIOUS
<1>2. PICK s : s = BeginsAt(p)
  OBVIOUS
<1>3. PICK P : P = provider'
  OBVIOUS
<1>4. PICK v : v = worker'
  OBVIOUS
<1>5. PICK ids \in Seq(CallIds) : ids = SetToSeq(DOMAIN new)
  BY OrderIs DEF Typed
<1>6. /\ ToSet(ids) = DOMAIN new /\ (ids = <<>> <=> DOMAIN new = {}) /\ \A k \in DOMAIN ids : ids[k] \in DOMAIN new
      /\ DOMAIN ids = 1..Len(ids) /\ Len(ids) \in Nat
  <2>1. ToSet(ids) = DOMAIN new /\ (ids = <<>> <=> DOMAIN new = {})
    BY <1>5, OrderIs DEF Typed
  <2> QED
    BY <2>1, LenProperties DEF ToSet
<1>7. PICK q : q = [k \in DOMAIN ids |-> [id |-> ids[k], priority |-> new[ids[k]].priority]]
  OBVIOUS
<1>8. /\ P = IF ids = <<>> THEN p ELSE IF s = "starting" THEN [p EXCEPT !.isStarting = TRUE, !.starting = p.starting \o ids]
                                  ELSE Switched(p)
      /\ v = IF s # "waiting" THEN w ELSE Posted(w, q)
  BY <1>2, <1>3, <1>4, <1>5, <1>7 DEF Begin
<1>9. n = InProgress(c, new, p)
  BY <1>1
<1>10. /\ Typed(n, Calls) /\ DOMAIN c \subseteq DOMAIN n /\ DOMAIN n \subseteq DOMAIN c \cup DOMAIN new
       /\ s = "failed" => DOMAIN n = DOMAIN c
       /\ \A id \in DOMAIN c : id \notin DOMAIN new \/ s = "failed" => n[id] = c[id]
       /\ s # "failed" => \A id \in DOMAIN new : id \in DOMAIN n /\ n[id].stage = s
  <2>1. /\ Typed(n, Calls) /\ DOMAIN c \subseteq DOMAIN n /\ DOMAIN n \subseteq DOMAIN c \cup DOMAIN new
        /\ s = "failed" => DOMAIN n = DOMAIN c
        /\ \A id \in DOMAIN c : id \notin DOMAIN new \/ s = "failed" => n[id] = c[id]
        /\ s # "failed" => \A id \in DOMAIN new : id \in DOMAIN n /\ n[id] = [new[id] EXCEPT !.stage = s]
    BY <1>2, <1>9, InProgressIs
  <2>2. \A id \in DOMAIN new : new[id] \in Begun
    BY DEF Typed
  <2>3. \A id \in DOMAIN new : [new[id] EXCEPT !.stage = s].stage = s
    BY <2>2 DEF Begun
  <2> QED
    BY <2>1, <2>3
<1>11. /\ q \in Seq(Waits) /\ DOMAIN q = DOMAIN ids /\ \A k \in DOMAIN ids : q[k].id = ids[k]
  BY <1>6, <1>7, RequestsAre
<1>12. s \in {"remote", "waiting", "starting", "failed"}
  BY <1>2 DEF BeginsAt
<1>13. CASE s = "starting" /\ ids # <<>>
  <2>1. p.cached # "remote" /\ ~p.ready /\ ~p.error
    BY <1>2, <1>13 DEF BeginsAt
  <2>2. PICK b : b = p.starting \o ids
    OBVIOUS
  <2>3. p.starting \in Seq(CallIds)
    BY DEF Providers
  <2>4. /\ b \in Seq(CallIds) /\ Len(b) = Len(p.starting) + Len(ids)
        /\ \A k \in 1..(Len(p.starting) + Len(ids)) :
              b[k] = IF k <= Len(p.starting) THEN p.starting[k] ELSE ids[k - Len(p.starting)]
    BY <2>2, <2>3, ConcatProperties
  <2>5. /\ DOMAIN b = 1..(Len(p.starting) + Len(ids)) /\ DOMAIN p.starting = 1..Len(p.starting)
        /\ Len(p.starting) \in Nat
    BY <2>3, <2>4, LenProperties
  <2>6. P = [p EXCEPT !.isStarting = TRUE, !.starting = b] /\ v = w
    BY <1>8, <1>13, <2>2
  <2>7. /\ P \in Providers /\ P.isStarting /\ P.starting = b /\ P.ready = p.ready /\ P.error = p.error
        /\ P.cached = p.cached
    BY <2>4, <2>6 DEF Providers
  <2>8. Knows(P, v)
    BY <2>1, <2>6, <2>7 DEF Knows
  <2>9. \A k \in DOMAIN p.starting : k \in DOMAIN b /\ b[k] = p.starting[k]
    <3>1. \A k \in DOMAIN p.starting : k \in 1..(Len(p.starting) + Len(ids)) /\ k <= Len(p.starting)
      BY <1>6, <2>5
    <3> QED
      BY <2>4, <2>5, <3>1
  <2>10. \A k \in DOMAIN ids : \E m \in DOMAIN b : b[m] = ids[k]
    <3>1. ASSUME NEW k \in DOMAIN ids PROVE \E m \in DOMAIN b : b[m] = ids[k]
      <4>1. Len(p.starting) + k \in 1..(Len(p.starting) + Len(ids)) /\ ~(Len(p.starting) + k <= Len(p.starting))
            /\ (Len(p.starting) + k) - Len(p.starting) = k
        BY <1>6, <2>5
      <4>2. b[Len(p.starting) + k] = ids[k]
        BY <2>4, <4>1
      <4> QED
        BY <2>5, <4>1, <4>2
    <3> QED
      BY <3>1
  <2>11. \A m \in DOMAIN b : (\E k \in DOMAIN p.starting : b[m] = p.starting[k]) \/ (\E k \in DOMAIN ids : b[m] = ids[k])
    <3>1. ASSUME NEW m \in DOMAIN b
          PROVE  (\E k \in DOMAIN p.starting : b[m] = p.starting[k]) \/ (\E k \in DOMAIN ids : b[m] = ids[k])
      <4>1. CASE m <= Len(p.starting)
        <5>1. m \in DOMAIN p.starting /\ m \in 1..(Len(p.starting) + Len(ids))
          BY <2>5, <4>1
        <5> QED
          BY <2>4, <4>1, <5>1
      <4>2. CASE ~(m <= Len(p.starting))
        <5>1. m - Len(p.starting) \in DOMAIN ids /\ m \in 1..(Len(p.starting) + Len(ids))
          BY <1>6, <2>5, <4>2
        <5> QED
          BY <2>4, <4>2, <5>1
      <4> QED
        BY <4>1, <4>2
    <3> QED
      BY <3>1
  <2>12. ASSUME NEW id \in DOMAIN new PROVE id \in ToSet(b) /\ id \in DOMAIN n /\ n[id].stage = "starting"
    <3>1. PICK k \in DOMAIN ids : ids[k] = id
      BY <1>6 DEF ToSet
    <3>2. id \in ToSet(b)
      BY <2>10, <3>1 DEF ToSet
    <3> QED
      BY <1>10, <1>13, <3>2
  <2>13. ASSUME NEW id \in DOMAIN c, id \notin DOMAIN new, c[id].stage = "starting" PROVE id \in ToSet(b)
    <3>1. id \in ToSet(p.starting)
      BY <2>13 DEF Waited
    <3> QED
      BY <2>9, <3>1 DEF ToSet
  <2>14. ASSUME NEW id \in DOMAIN n
         PROVE  n[id].stage # "waiting" /\ (n[id].stage = "starting" => id \in ToSet(b))
    <3>1. CASE id \in DOMAIN new
      BY <2>12, <3>1
    <3>2. CASE id \notin DOMAIN new
      <4>1. id \in DOMAIN c /\ n[id] = c[id]
        BY <1>10, <3>2
      <4> QED
        BY <2>1, <2>13, <3>2, <4>1 DEF Waited
    <3> QED
      BY <3>1, <3>2
  <2>15. ASSUME NEW m \in DOMAIN b PROVE b[m] \in DOMAIN n /\ n[b[m]].stage = "starting"
    <3>1. CASE b[m] \in DOMAIN new
      BY <2>12, <3>1
    <3>2. CASE b[m] \notin DOMAIN new
      <4>1. PICK k \in DOMAIN p.starting : b[m] = p.starting[k]
        BY <1>6, <2>11, <3>2
      <4>2. b[m] \in DOMAIN c /\ c[b[m]].stage = "starting"
        BY <4>1 DEF Waited
      <4> QED
        BY <1>10, <3>2, <4>2
    <3> QED
      BY <3>1, <3>2
  <2>16. Waited(n, P, v)
    BY <2>7, <2>14, <2>15 DEF Waited
  <2> QED
    BY <1>1, <1>3, <1>4, <1>10, <2>6, <2>7, <2>8, <2>16
<1>14. CASE ~(s = "starting" /\ ids # <<>>)
  <2>1. /\ P \in Providers /\ P.ready = p.ready /\ P.error = p.error /\ P.isStarting = p.isStarting
        /\ P.starting = p.starting /\ (P.cached = p.cached \/ p.error)
    <3>1. P \in {p, Switched(p)}
      BY <1>8, <1>14
    <3>2. Switched(p) \in {p, [p EXCEPT !.cached = "remote"]} /\ (Switched(p) = p \/ p.error)
      BY DEF Switched
    <3> QED
      BY <3>1, <3>2 DEF Providers
  <2>2. /\ v \in Threads /\ v.outbox = w.outbox /\ v.thread = w.thread /\ v.model = w.model
        /\ \A id : IsAt(w, id) => IsAt(v, id)
        /\ s # "waiting" => v = w
        /\ s = "waiting" => \A k \in DOMAIN q : IsAt(v, q[k].id)
    BY <1>8, <1>11, PostedIs
  <2>3. IsBroken(w) <=> IsBroken(v)
    BY <2>2 DEF IsBroken
  <2>4. s = "waiting" => p.ready
    BY <1>2 DEF BeginsAt
  <2>5. p.isStarting => p.cached # "remote" /\ ~p.ready /\ ~p.error
    BY DEF Knows
  <2>6. p.isStarting => s = "starting"
    BY <1>2, <2>5 DEF BeginsAt
  <2>7. Knows(P, v)
    <3>1. ~P.ready /\ ~P.error => v = NoWorker
      BY <2>1, <2>2, <2>4 DEF Knows
    <3> QED
      BY <2>1, <2>2, <2>3, <3>1 DEF Knows
  <2>8. ASSUME NEW id \in DOMAIN new, s = "waiting" PROVE IsAt(v, id)
    <3>1. PICK k \in DOMAIN ids : ids[k] = id
      BY <1>6 DEF ToSet
    <3> QED
      BY <1>11, <2>2, <2>8, <3>1
  <2>9. ASSUME NEW id \in DOMAIN n
        PROVE  /\ n[id].stage = "starting" => P.isStarting /\ id \in ToSet(P.starting)
               /\ n[id].stage = "waiting" => P.ready /\ (IsAt(v, id) \/ IsBroken(v))
    <3>1. CASE id \in DOMAIN c /\ n[id] = c[id]
      BY <2>1, <2>2, <2>3, <3>1 DEF Waited
    <3>2. CASE ~(id \in DOMAIN c /\ n[id] = c[id])
      <4>1. id \in DOMAIN new /\ s # "failed"
        BY <1>10, <3>2
      <4>2. n[id].stage = s /\ s # "starting"
        BY <1>6, <1>10, <1>14, <4>1
      <4> QED
        BY <2>1, <2>4, <2>8, <4>1, <4>2
    <3> QED
      BY <3>1, <3>2
  <2>10. ASSUME NEW k \in DOMAIN P.starting PROVE P.starting[k] \in DOMAIN n /\ n[P.starting[k]].stage = "starting"
    <3>1. P.starting[k] \in DOMAIN c /\ c[P.starting[k]].stage = "starting"
      BY <2>1 DEF Waited
    <3>2. p.isStarting
      BY <3>1 DEF Waited
    <3>3. s = "starting" /\ DOMAIN new = {}
      BY <1>6, <1>14, <2>6, <3>2
    <3> QED
      BY <1>10, <3>1, <3>3
  <2>11. Waited(n, P, v)
    BY <2>9, <2>10 DEF Waited
  <2> QED
    BY <1>1, <1>3, <1>4, <1>10, <2>1, <2>2, <2>7, <2>11
<1> QED
  BY <1>13, <1>14

(* ----------------------------- The backfill ---------------------------- *)

LEMMA EnteredIs ==
  ASSUME NEW b \in Backfills, NEW rs \in RowsSet, NEW table \in {"knowledge", "distillations"},
         b.todo = <<>> \/ b.seen = {}
  PROVE  LET d == Entered(b, table, rs) IN
         /\ d \in Backfills /\ d.pc = table /\ d.failed = b.failed /\ d.batches = b.batches
         /\ Covered(b, rs) => Covered(d, rs)
<1>1. PICK m : m = Missing(rs, table)
  OBVIOUS
<1>2. PICK s : s = Snapshot(rs, table)
  OBVIOUS
<1>3. m \in SUBSET Rows
  BY <1>1 DEF Missing
<1>4. s \in Seq(Rows \X Nat) /\ \A i \in m : \E k \in DOMAIN s : s[k][1] = i
  BY <1>1, <1>2, SnapshotIs DEF RowsSet, Todos
<1>5. PICK d : d = Entered(b, table, rs)
  OBVIOUS
<1>6. d = [b EXCEPT !.pc = table, !.todo = s, !.seen = b.seen \cup m]
  BY <1>1, <1>2, <1>5 DEF Entered
<1>7. /\ d \in Backfills /\ d.pc = table /\ d.failed = b.failed /\ d.batches = b.batches
      /\ d.todo = s /\ d.seen = b.seen \cup m
  BY <1>3, <1>4, <1>6 DEF Backfills
<1>8. ASSUME Covered(b, rs), NEW i \in d.seen
      PROVE  rs[i].vector # NoVector \/ \E k \in DOMAIN d.todo : d.todo[k][1] = i
  <2>1. CASE i \in m
    BY <1>4, <1>7, <2>1
  <2>2. CASE i \in b.seen
    <3>1. ~\E k \in DOMAIN b.todo : b.todo[k][1] = i
      BY <2>2
    <3> QED
      BY <1>8, <2>2, <3>1 DEF Covered
  <2> QED
    BY <1>7, <1>8, <2>1, <2>2
<1>9. Covered(b, rs) => Covered(d, rs)
  BY <1>8 DEF Covered
<1> QED
  BY <1>5, <1>7, <1>9

\* Where a backfill goes, with what it found covered.
LEMMA OnwardIs ==
  ASSUME NEW b \in Backfills, IsRunning(b), NEW rs \in RowsSet, NEW p
  PROVE  LET d == Onward(b, p, rs) IN
         /\ d \in Backfills /\ (IsRunning(d) \/ d.pc = "done")
         /\ IsRunning(d) => d.todo # <<>> /\ BeginsAt(p) # "failed" /\ d.batches = b.batches + 1
         /\ d.pc = "done" => d.todo = <<>> /\ d.batches = b.batches
         /\ b.failed \/ Covered(b, rs) => d.failed \/ Covered(d, rs)
<1>1. PICK e : e = IF b.todo = <<>> /\ b.pc = "knowledge" THEN Entered(b, "distillations", rs) ELSE b
  OBVIOUS
<1>2. /\ e \in Backfills /\ IsRunning(e) /\ e.batches = b.batches
      /\ b.failed \/ Covered(b, rs) => e.failed \/ Covered(e, rs)
  <2>1. CASE b.todo = <<>> /\ b.pc = "knowledge"
    BY <1>1, <2>1, EnteredIs DEF IsRunning
  <2>2. CASE ~(b.todo = <<>> /\ b.pc = "knowledge")
    BY <1>1, <2>2
  <2> QED
    BY <2>1, <2>2
<1>3. PICK f : f = Phase(b, rs)
  OBVIOUS
<1>4. f = IF e.todo = <<>> THEN [e EXCEPT !.pc = "done"] ELSE e
  BY <1>1, <1>3 DEF Phase
<1>5. /\ f \in Backfills /\ f.batches = b.batches /\ f.todo = e.todo /\ f.seen = e.seen /\ f.failed = e.failed
      /\ IF f.pc = "done" THEN f.todo = <<>> ELSE f.todo # <<>> /\ IsRunning(f)
  BY <1>2, <1>4 DEF Backfills, IsRunning
<1>6. b.failed \/ Covered(b, rs) => f.failed \/ Covered(f, rs)
  BY <1>2, <1>5 DEF Covered
<1>7. PICK d : d = Onward(b, p, rs)
  OBVIOUS
<1>8. d = IF f.pc = "done" THEN f
          ELSE IF BeginsAt(p) = "failed" THEN [f EXCEPT !.pc = "done", !.todo = <<>>, !.failed = TRUE]
          ELSE [f EXCEPT !.batches = f.batches + 1]
  BY <1>3, <1>7 DEF Onward
<1>9. CASE f.pc = "done"
  BY <1>5, <1>6, <1>7, <1>8, <1>9 DEF IsRunning
<1>10. CASE f.pc # "done" /\ BeginsAt(p) = "failed"
  <2>1. d = [f EXCEPT !.pc = "done", !.todo = <<>>, !.failed = TRUE] /\ <<>> \in Seq(Rows \X Nat)
    BY <1>8, <1>10
  <2>2. d \in Backfills /\ d.pc = "done" /\ d.todo = <<>> /\ d.failed /\ d.batches = b.batches
    BY <1>5, <2>1 DEF Backfills
  <2> QED
    BY <1>7, <2>2 DEF IsRunning
<1>11. CASE f.pc # "done" /\ BeginsAt(p) # "failed"
  <2>1. /\ d \in Backfills /\ d.pc = f.pc /\ d.todo = f.todo /\ d.failed = f.failed /\ d.batches = b.batches + 1
        /\ d.seen = f.seen
    <3>1. d = [f EXCEPT !.batches = f.batches + 1]
      BY <1>8, <1>11
    <3>2. f.batches \in Nat /\ f.batches + 1 \in Nat
      BY <1>5 DEF Backfills
    <3> QED
      BY <1>5, <3>1, <3>2 DEF Backfills
  <2>2. IsRunning(d) /\ d.pc # "done"
    BY <1>5, <1>11, <2>1 DEF IsRunning
  <2>3. f.failed \/ Covered(f, rs) => d.failed \/ Covered(d, rs)
    BY <2>1 DEF Covered
  <2> QED
    BY <1>5, <1>6, <1>7, <1>11, <2>1, <2>2, <2>3
<1> QED
  BY <1>9, <1>10, <1>11

\* The calls of the batches that backfills send.
LEMMA BatchCallsAre ==
  ASSUME NEW D \in SUBSET Runners, NEW bs \in [D -> Backfills],
         \A r \in D : IsRunning(bs[r]) => bs[r].todo # <<>>
  PROVE  LET new == BatchCalls(bs) IN
         /\ Typed(new, Begun) /\ IsFiniteSet(DOMAIN new)
         /\ \A id \in DOMAIN new : id[1] \in D /\ IsRunning(bs[id[1]]) /\ id = <<id[1], bs[id[1]].batches>>
         /\ \A r \in D : IsRunning(bs[r]) => /\ <<r, bs[r].batches>> \in DOMAIN new
                                             /\ new[<<r, bs[r].batches>>].texts = BatchOf(bs[r]).texts
<1> DEFINE R == {r \in D : IsRunning(bs[r])}
           S == {<<r, bs[r].batches>> : r \in R}
           f == [r \in R |-> <<r, bs[r].batches>>]
<1>1. IsFiniteSet(R)
  <2>1. IsFiniteSet({"startup", "reindex"})
    BY FS_Singleton, FS_AddElement, IsFiniteSet({"startup"}), {"startup", "reindex"} = {"startup"} \cup {"reindex"}
  <2>2. R \in SUBSET {"startup", "reindex"}
    BY DEF Runners
  <2> QED
    BY <2>1, <2>2, FS_Subset
<1>2. f \in Surjection(R, S)
  BY DEF Surjection
<1>3. IsFiniteSet(S)
  BY <1>1, <1>2, FS_Surjection
<1>4. PICK new : new = BatchCalls(bs)
  OBVIOUS
<1>5. new = [id \in S |-> BatchOf(bs[id[1]])]
  BY <1>4 DEF BatchCalls
<1>6. ASSUME NEW id \in S
      PROVE  /\ id \in CallIds /\ id[1] \in R /\ id = <<id[1], bs[id[1]].batches>>
             /\ BatchOf(bs[id[1]]) \in Begun /\ BatchOf(bs[id[1]]).priority = "normal"
  <2>1. PICK r \in R : id = <<r, bs[r].batches>>
    OBVIOUS
  <2>2. bs[r].batches \in Nat /\ bs[r].todo \in Todos /\ bs[r].todo # <<>>
    BY DEF Backfills, Todos
  <2>3. BatchOf(bs[r]) \in Begun
    BY <2>2, BatchTexts DEF Begun
  <2>4. BatchOf(bs[r]).priority = "normal"
    BY DEF BatchOf, Call
  <2>5. id \in CallIds
    BY <2>1, <2>2 DEF CallIds
  <2> QED
    BY <2>1, <2>3, <2>4, <2>5
<1>7. ASSUME NEW r \in D, IsRunning(bs[r])
      PROVE  <<r, bs[r].batches>> \in S /\ <<r, bs[r].batches>>[1] = r
  BY <1>7
<1> HIDE DEF S
<1>8. Typed(new, Begun)
  BY <1>5, <1>6 DEF Typed
<1> QED
  BY <1>3, <1>4, <1>5, <1>6, <1>7, <1>8

(* ----------------------------- Calls that end -------------------------- *)

\* After its batch a backfill covers what it found, if nothing has failed.
LEMMA AfterBatchIs ==
  ASSUME NEW r \in Runners, NEW b \in Backfills, IsRunning(b), Backs(b, r, calls), Covers(b, rows),
         NEW failed \in BOOLEAN, NEW unavailable \in BOOLEAN, unavailable => failed,
         NEW p, NEW rs \in RowsSet,
         \A i \in Rows : rows[i].vector # NoVector => rs[i].vector # NoVector,
         failed \/ \A i \in DOMAIN calls[<<r, b.batches>>].texts : rs[i].vector # NoVector
  PROVE  LET d == AfterBatch(b, failed, unavailable, p, rs) IN
         /\ d \in Backfills /\ (IsRunning(d) \/ d.pc = "done")
         /\ IsRunning(d) => d.todo # <<>> /\ BeginsAt(p) # "failed"
         /\ d.pc = "done" => d.todo = <<>>
         /\ d.failed \/ Covered(d, rs)
<1>1. b.todo \in Todos /\ b.todo # <<>>
  BY DEF Backs, Backfills, Todos
<1>2. PICK rest \in Todos : rest = Remaining(b.todo)
  BY <1>1, BatchSplits
<1>3. PICK t : t = IF unavailable THEN <<>> ELSE rest
  OBVIOUS
<1>4. t \in Seq(Rows \X Nat)
  BY <1>2, <1>3 DEF Todos
<1>5. PICK e : e = [b EXCEPT !.todo = t, !.failed = b.failed \/ failed]
  OBVIOUS
<1>6. /\ e \in Backfills /\ e.pc = b.pc /\ e.todo = t /\ e.seen = b.seen /\ e.batches = b.batches
      /\ e.failed = (b.failed \/ failed)
  BY <1>4, <1>5 DEF Backfills
<1>7. IsRunning(e)
  BY <1>6 DEF IsRunning
<1>8. ASSUME ~e.failed PROVE Covered(e, rs)
  <2>1. ~b.failed /\ ~failed /\ ~unavailable
    BY <1>6, <1>8
  <2>2. Covered(b, rows)
    BY <2>1 DEF Covers
  <2>3. t = rest
    BY <1>3, <2>1
  <2>4. ASSUME NEW i \in b.seen PROVE rs[i].vector # NoVector \/ \E k \in DOMAIN rest : rest[k][1] = i
    <3>1. i \in Rows
      BY DEF Backfills
    <3>2. CASE rows[i].vector # NoVector
      BY <3>1, <3>2
    <3>3. CASE ~(rows[i].vector # NoVector)
      <4>1. PICK k \in DOMAIN b.todo : b.todo[k][1] = i
        BY <2>2, <3>3 DEF Covered
      <4>2. CASE \E j \in DOMAIN rest : rest[j] = b.todo[k]
        BY <4>1, <4>2
      <4>3. CASE \E j \in DOMAIN Batch(b.todo) : Batch(b.todo)[j] = b.todo[k]
        <5>1. i \in DOMAIN BatchOf(b).texts
          BY <1>1, <4>1, <4>3, BatchTexts
        <5>2. i \in DOMAIN calls[<<r, b.batches>>].texts
          BY <5>1 DEF Backs
        <5> QED
          BY <2>1, <5>2
      <4> QED
        BY <1>1, <1>2, <4>2, <4>3, BatchSplits
    <3> QED
      BY <3>2, <3>3
  <2> QED
    BY <1>6, <2>3, <2>4 DEF Covered
<1>9. PICK d : d = AfterBatch(b, failed, unavailable, p, rs)
  OBVIOUS
<1>10. d = Onward(e, p, rs)
  BY <1>2, <1>3, <1>5, <1>9 DEF AfterBatch
<1> QED
  BY <1>6, <1>7, <1>8, <1>9, <1>10, OnwardIs

LEMMA RestrictIs ==
  ASSUME Typed(calls, Calls), NEW ended
  PROVE  LET c == Restrict(calls, DOMAIN calls \ ended) IN
         Typed(c, Calls) /\ DOMAIN c = DOMAIN calls \ ended /\ \A id \in DOMAIN c : c[id] = calls[id]
<1>1. PICK c : c = Restrict(calls, DOMAIN calls \ ended)
  OBVIOUS
<1>2. DOMAIN c = DOMAIN calls \ ended /\ \A id \in DOMAIN c : c[id] = calls[id]
  BY <1>1 DEF Restrict
<1>3. c \in [DOMAIN c -> Calls]
  BY <1>1, <1>2 DEF Restrict, Typed
<1> QED
  BY <1>1, <1>2, <1>3 DEF Typed

\* The end of calls strands no other call, and no backfill.
LEMMA SettleKeeps ==
  ASSUME IInv, UNCHANGED <<config, stored, made>>,
         NEW ended, NEW failed \in BOOLEAN, NEW unavailable \in BOOLEAN, unavailable => failed,
         NEW rs \in RowsSet, NEW p \in Providers, NEW w \in Threads,
         Knows(p, w), Waited(Restrict(calls, DOMAIN calls \ ended), p, w),
         Settle(ended, failed, unavailable, rs, p, w),
         \A i \in Rows : rows[i].vector # NoVector => rs[i].vector # NoVector,
         failed \/ \A id \in ended \cap DOMAIN calls : \A i \in DOMAIN calls[id].texts : rs[i].vector # NoVector
  PROVE  TypeInv' /\ Knows(provider', worker') /\ Waited(calls', provider', worker') /\ BackfillInv'
<1> DEFINE waited == {r \in Runners : IsRunning(backfill[r]) /\ <<r, backfill[r].batches>> \in ended}
<1>1. PICK after : after = [r \in waited |-> AfterBatch(backfill[r], failed, unavailable, p, rs)]
  OBVIOUS
<1>2. PICK new : new = BatchCalls(after)
  OBVIOUS
<1>3. PICK c : c = Restrict(calls, DOMAIN calls \ ended)
  OBVIOUS
<1>4. /\ backfill' = [r \in Runners |-> IF r \in waited THEN after[r] ELSE backfill[r]]
      /\ calls' = InProgress(c, new, p)
      /\ Begin(new, p, w)
      /\ rows' = rs
  BY <1>1, <1>2, <1>3 DEF Settle
<1>5. Typed(c, Calls) /\ DOMAIN c = DOMAIN calls \ ended /\ \A id \in DOMAIN c : c[id] = calls[id]
  BY <1>3, RestrictIs DEF IInv, TypeInv
<1>6. ASSUME NEW r \in waited
      PROVE  /\ after[r] \in Backfills /\ (IsRunning(after[r]) \/ after[r].pc = "done")
             /\ IsRunning(after[r]) => after[r].todo # <<>> /\ BeginsAt(p) # "failed"
             /\ after[r].pc = "done" => after[r].todo = <<>>
             /\ after[r].failed \/ Covered(after[r], rs)
  <2>1. r \in Runners /\ IsRunning(backfill[r]) /\ <<r, backfill[r].batches>> \in ended
    OBVIOUS
  <2>2. backfill[r] \in Backfills /\ Backs(backfill[r], r, calls) /\ Covers(backfill[r], rows)
    BY <2>1 DEF IInv, TypeInv, BackfillInv
  <2>3. failed \/ \A i \in DOMAIN calls[<<r, backfill[r].batches>>].texts : rs[i].vector # NoVector
    BY <2>1, <2>2 DEF Backs
  <2> QED
    BY <1>1, <2>1, <2>2, <2>3, AfterBatchIs
<1>7. waited \in SUBSET Runners /\ after \in [waited -> Backfills]
  BY <1>1, <1>6
<1> HIDE DEF waited
<1>8. /\ Typed(new, Begun) /\ IsFiniteSet(DOMAIN new)
      /\ \A id \in DOMAIN new : id[1] \in waited
      /\ \A r \in waited : IsRunning(after[r]) => /\ <<r, after[r].batches>> \in DOMAIN new
                                                  /\ new[<<r, after[r].batches>>].texts = BatchOf(after[r]).texts
  <2>1. PICK D : D = waited
    OBVIOUS
  <2>2. D \in SUBSET Runners /\ after \in [D -> Backfills] /\ \A r \in D : IsRunning(after[r]) => after[r].todo # <<>>
    BY <1>6, <1>7, <2>1
  <2>3. /\ Typed(new, Begun) /\ IsFiniteSet(DOMAIN new)
        /\ \A id \in DOMAIN new : id[1] \in D
        /\ \A r \in D : IsRunning(after[r]) => /\ <<r, after[r].batches>> \in DOMAIN new
                                               /\ new[<<r, after[r].batches>>].texts = BatchOf(after[r]).texts
    BY <1>2, <2>2, BatchCallsAre
  <2> QED
    BY <2>1, <2>3
<1>9. /\ provider' \in Providers /\ worker' \in Threads /\ Typed(calls', Calls)
      /\ Knows(provider', worker') /\ Waited(calls', provider', worker')
  BY <1>3, <1>4, <1>5, <1>8, BeginKeeps
<1>10. PICK n : n = calls'
  OBVIOUS
<1>11. /\ DOMAIN c \subseteq DOMAIN n
       /\ \A id \in DOMAIN c : id \notin DOMAIN new => n[id] = c[id]
       /\ BeginsAt(p) # "failed" => \A id \in DOMAIN new : id \in DOMAIN n /\ n[id].texts = new[id].texts
  <2>1. /\ DOMAIN c \subseteq DOMAIN n
        /\ \A id \in DOMAIN c : id \notin DOMAIN new => n[id] = c[id]
        /\ BeginsAt(p) # "failed" => \A id \in DOMAIN new : /\ id \in DOMAIN n
                                                           /\ n[id] = [new[id] EXCEPT !.stage = BeginsAt(p)]
    BY <1>4, <1>5, <1>8, <1>10, InProgressIs
  <2>2. \A id \in DOMAIN new : [new[id] EXCEPT !.stage = BeginsAt(p)].texts = new[id].texts
    BY <1>8 DEF Typed, Begun
  <2> QED
    BY <2>1, <2>2
<1>12. PICK B : B = backfill'
  OBVIOUS
<1>13. B \in [Runners -> Backfills]
  BY <1>4, <1>6, <1>12 DEF IInv, TypeInv
<1>14. ASSUME NEW r \in Runners
       PROVE  /\ Backs(B[r], r, n) /\ Covers(B[r], rs)
              /\ ~IsRunning(B[r]) => B[r].todo = <<>>
              /\ B[r].pc \in {"idle", "delay"} => B[r].seen = {}
              /\ IsRunning(B[r]) \/ (B[r].pc = "done" /\ B[r].seen # {}) => stored = config
  <2>1. CASE r \in waited
    <3>1. B[r] = after[r]
      BY <1>4, <1>12, <2>1
    <3>2. Backs(B[r], r, n)
      BY <1>6, <1>8, <1>11, <2>1, <3>1 DEF Backs
    <3>3. stored = config
      <4>1. IsRunning(backfill[r])
        BY <2>1 DEF waited
      <4> QED
        BY <4>1 DEF IInv, BackfillInv
    <3> QED
      BY <1>6, <2>1, <3>1, <3>2, <3>3 DEF Covers, IsRunning
  <2>2. CASE r \notin waited
    <3>1. B[r] = backfill[r]
      BY <1>4, <1>12, <2>2
    <3>2. Backs(backfill[r], r, calls) /\ Covers(backfill[r], rows)
      BY DEF IInv, BackfillInv
    <3>3. Backs(backfill[r], r, n)
      <4>1. ASSUME IsRunning(backfill[r])
            PROVE  /\ <<r, backfill[r].batches>> \in DOMAIN n
                   /\ n[<<r, backfill[r].batches>>] = calls[<<r, backfill[r].batches>>]
        <5>1. <<r, backfill[r].batches>> \in DOMAIN c
          BY <1>5, <2>2, <3>2, <4>1 DEF Backs, waited
        <5>2. <<r, backfill[r].batches>>[1] = r
          OBVIOUS
        <5>3. <<r, backfill[r].batches>> \notin DOMAIN new
          BY <1>8, <2>2, <5>2
        <5> QED
          BY <1>5, <1>11, <5>1, <5>3
      <4> QED
        BY <3>2, <4>1 DEF Backs
    <3>4. Covers(backfill[r], rs)
      <4>1. backfill[r].seen \subseteq Rows
        BY DEF IInv, TypeInv, Backfills
      <4> QED
        BY <3>2, <4>1 DEF Covers, Covered
    <3> QED
      BY <3>1, <3>3, <3>4 DEF IInv, BackfillInv
  <2> QED
    BY <2>1, <2>2
<1>15. BackfillInv'
  BY <1>4, <1>10, <1>12, <1>14 DEF BackfillInv
<1>16. TypeInv'
  BY <1>4, <1>9, <1>12, <1>13 DEF IInv, TypeInv
<1> QED
  BY <1>9, <1>15, <1>16

LEMMA StoredIs ==
  ASSUME TypeInv, NEW id \in DOMAIN calls
  PROVE  LET rs == Stored(id) IN
         /\ rs \in RowsSet
         /\ \A i \in DOMAIN calls[id].texts : i \in Rows /\ rs[i].vector = Vector(id, i) /\ rs[i].vector # NoVector
         /\ \A i \in Rows \ DOMAIN calls[id].texts : rs[i] = rows[i]
         /\ \A i \in Rows : rs[i].text = rows[i].text
         /\ \A i \in DOMAIN calls[id].texts : /\ Vector(id, i).checked = (stored = config)
                                              /\ Vector(id, i).space \in {Fallback, config}
                                              /\ Vector(id, i).text = calls[id].texts[i]
                                              /\ Vector(id, i).by \in {"remote", "backfill", "row"}
<1>1. PICK t : t = calls[id].texts
  OBVIOUS
<1>2. PICK S \in SUBSET Rows : t \in [S -> Nat]
  <2>1. calls[id] \in Calls
    BY DEF TypeInv, Typed
  <2>2. t \in Texts
    BY <1>1, <2>1 DEF Calls
  <2> QED
    BY <2>2 DEF Texts
<1>3. DOMAIN t = S
  BY <1>2
<1>4. ASSUME NEW i \in S
      PROVE  /\ Vector(id, i) \in Vectors /\ Vector(id, i).checked = (stored = config)
             /\ Vector(id, i).space \in {Fallback, config} /\ Vector(id, i).text = t[i]
             /\ Vector(id, i).by \in {"remote", "backfill", "row"}
  <2>1. t[i] \in Nat /\ config \in Configs /\ (stored = config) \in BOOLEAN
    BY <1>2 DEF TypeInv
  <2>2. PICK space : space = IF calls[id].stage = "remote" /\ ProviderOf[config] = "local" THEN Fallback ELSE config
    OBVIOUS
  <2>3. PICK by : by = IF calls[id].stage = "remote" THEN "remote" ELSE IF id[1] \in Runners THEN "backfill" ELSE "row"
    OBVIOUS
  <2>4. space \in {Fallback, config} /\ by \in {"remote", "backfill", "row"}
    BY <2>2, <2>3
  <2>5. Vector(id, i) = [text |-> t[i], space |-> space, by |-> by, checked |-> stored = config]
    BY <1>1, <2>2, <2>3 DEF Vector
  <2>6. Vector(id, i) \in Vectors
    BY <2>1, <2>4, <2>5 DEF Vectors
  <2> QED
    BY <2>4, <2>5, <2>6
<1>5. PICK rs : rs = Stored(id)
  OBVIOUS
<1>6. rs = [i \in Rows |-> IF i \in S THEN [rows[i] EXCEPT !.vector = Vector(id, i)] ELSE rows[i]]
  BY <1>1, <1>3, <1>5 DEF Stored
<1>7. ASSUME NEW i \in Rows
      PROVE  /\ rs[i] \in [text : Nat, vector : Vectors] /\ rs[i].text = rows[i].text
             /\ i \in S => rs[i].vector = Vector(id, i)
             /\ i \notin S => rs[i] = rows[i]
  <2>1. rows[i] \in [text : Nat, vector : Vectors]
    BY DEF TypeInv, RowsSet
  <2> QED
    BY <1>4, <1>6, <2>1
<1>8. rs \in RowsSet
  BY <1>6, <1>7 DEF RowsSet
<1>9. ASSUME NEW i \in S PROVE rs[i].vector # NoVector
  BY <1>4, <1>7, <1>9 DEF NoVector
<1> QED
  BY <1>1, <1>3, <1>4, <1>5, <1>7, <1>8, <1>9

LEMMA StoredSpace ==
  ASSUME IInv, NEW id \in DOMAIN calls, rows' = Stored(id), UNCHANGED <<stored, config>>
  PROVE  SpaceInv'
<1>1. PICK rs : rs = Stored(id)
  OBVIOUS
<1>2. config # NoConfig
  BY ConfigsAssumption DEF IInv, TypeInv
<1>3. ASSUME NEW i \in Rows
      PROVE  /\ rs[i].vector.checked /\ rs[i].vector.space # Fallback => rs[i].vector.space = stored
             /\ stored = NoConfig => ~rs[i].vector.checked
  <2>1. CASE i \in DOMAIN calls[id].texts
    <3>1. rs[i].vector.checked = (stored = config) /\ rs[i].vector.space \in {Fallback, config}
      BY <1>1, <2>1, StoredIs DEF IInv
    <3> QED
      BY <1>2, <3>1
  <2>2. CASE i \notin DOMAIN calls[id].texts
    <3>1. rs[i] = rows[i]
      BY <1>1, <2>2, StoredIs DEF IInv
    <3> QED
      BY <3>1 DEF IInv, SpaceInv, OneSpace
  <2> QED
    BY <2>1, <2>2
<1>4. rows' = rs
  BY <1>1
<1> QED
  BY <1>3, <1>4 DEF SpaceInv, OneSpace

(* ------------------------- The local provider's events ----------------- *)

LEMMA WorkerStartedKeeps ==
  ASSUME IInv, WorkerStarted
  PROVE  IInv'
<1> DEFINE ids == provider.starting
           S == ToSet(ids)
<1>1. /\ provider.isStarting
      /\ provider' = [provider EXCEPT !.isStarting = FALSE, !.ready = TRUE, !.starting = <<>>]
      /\ worker' = Posted(FreshWorker, [n \in DOMAIN ids |-> [id |-> ids[n], priority |-> calls[ids[n]].priority]])
      /\ calls' = [id \in DOMAIN calls |-> IF id \in S THEN [calls[id] EXCEPT !.stage = "waiting"] ELSE calls[id]]
      /\ UNCHANGED <<config, stored, rows, backfill, made>>
  BY DEF WorkerStarted
<1>2. provider \in Providers /\ Typed(calls, Calls) /\ Knows(provider, worker) /\ Waited(calls, provider, worker)
  BY DEF IInv, TypeInv
<1>3. ids \in Seq(CallIds) /\ DOMAIN ids = 1..Len(ids) /\ Len(ids) \in Nat
  BY <1>2, LenProperties DEF Providers
<1>4. \A n \in DOMAIN ids : ids[n] \in DOMAIN calls /\ ids[n] \in S
  BY <1>2 DEF Waited, ToSet
<1>5. PICK q : q = [n \in DOMAIN ids |-> [id |-> ids[n], priority |-> calls[ids[n]].priority]]
  OBVIOUS
<1>6. ASSUME NEW n \in DOMAIN ids PROVE [id |-> ids[n], priority |-> calls[ids[n]].priority] \in Waits
  <2>1. ids[n] \in CallIds /\ calls[ids[n]] \in Calls /\ (calls[ids[n]].priority = "high" => ids[n][1] = "query")
    BY <1>2, <1>4 DEF Typed
  <2> QED
    BY <2>1 DEF Calls, Waits
<1>7. q \in Seq(Waits)
  <2>1. q \in [1..Len(ids) -> Waits]
    BY <1>3, <1>5, <1>6
  <2> QED
    BY <1>3, <2>1, SeqDef
<1>8. FreshWorker \in Threads /\ FreshWorker.thread = "running" /\ FreshWorker.model = "unloaded"
  <2>1. FreshWorker = [thread |-> "running", model |-> "unloaded", queue |-> <<>>, current |-> NoId, inbox |-> <<>>,
                       outbox |-> <<>>]
    BY DEF FreshWorker, NoWorker
  <2>2. <<>> \in Seq(Waits) /\ <<>> \in Seq(Replies)
    OBVIOUS
  <2> QED
    BY <2>1, <2>2 DEF Threads
<1>9. PICK v : v = worker'
  OBVIOUS
<1>10. /\ v \in Threads /\ v.thread = "running" /\ v.model = "unloaded"
       /\ \A n \in DOMAIN q : IsAt(v, q[n].id)
  BY <1>1, <1>5, <1>7, <1>8, <1>9, PostedIs
<1>11. ASSUME NEW id \in S PROVE IsAt(v, id)
  <2>1. PICK n \in DOMAIN ids : ids[n] = id
    BY DEF ToSet
  <2> QED
    BY <1>5, <1>10, <2>1
<1>12. PICK P : P = provider'
  OBVIOUS
<1>13. /\ P \in Providers /\ P.ready /\ ~P.isStarting /\ P.starting = <<>> /\ ~P.error
  <2>1. <<>> \in Seq(CallIds) /\ ~provider.error
    BY <1>1, <1>2 DEF Knows
  <2> QED
    BY <1>1, <1>2, <1>12, <2>1 DEF Providers
<1>14. Knows(P, v)
  BY <1>10, <1>13 DEF Knows
<1>15. PICK n : n = calls'
  OBVIOUS
<1> HIDE DEF S
<1>16. DOMAIN n = DOMAIN calls /\ \A id \in DOMAIN n : n[id] = IF id \in S THEN [calls[id] EXCEPT !.stage = "waiting"] ELSE calls[id]
  BY <1>1, <1>15
<1>17. ASSUME NEW id \in DOMAIN n
       PROVE  /\ n[id] \in Calls /\ n[id].priority = calls[id].priority /\ n[id].texts = calls[id].texts
              /\ n[id].stage = IF id \in S THEN "waiting" ELSE calls[id].stage
  <2>1. calls[id] \in Calls
    BY <1>2, <1>16 DEF Typed
  <2> QED
    BY <1>16, <2>1 DEF Calls, Stages
<1>18. Typed(n, Calls)
  <2>1. n \in [DOMAIN n -> Calls]
    BY <1>1, <1>15, <1>17
  <2> QED
    BY <1>2, <1>16, <1>17, <2>1 DEF Typed
<1>19. ASSUME NEW id \in DOMAIN n
       PROVE  n[id].stage # "starting" /\ (n[id].stage = "waiting" => IsAt(v, id))
  <2>1. CASE id \in S
    BY <1>11, <1>17, <2>1
  <2>2. CASE id \notin S
    <3>1. calls[id].stage # "starting" /\ (calls[id].stage = "waiting" => provider.ready)
      BY <1>2, <1>16, <2>2 DEF Waited, S
    <3>2. ~provider.ready
      BY <1>1, <1>2 DEF Knows
    <3> QED
      BY <1>17, <2>2, <3>1, <3>2
  <2> QED
    BY <2>1, <2>2
<1>20. Waited(n, P, v)
  BY <1>13, <1>19 DEF Waited
<1>21. BackfillInv'
  <2>1. \A r \in Runners : Backs(backfill[r], r, calls) => Backs(backfill[r], r, n)
    BY <1>16, <1>17 DEF Backs
  <2>2. BackfillInv
    BY DEF IInv
  <2>3. \A r \in Runners : Backs(backfill[r], r, n)
    BY <2>1, <2>2 DEF BackfillInv
  <2>4. \A r \in Runners : Backs(backfill'[r], r, calls')
    BY <1>1, <1>15, <2>3
  <2> QED
    BY <1>1, <2>2, <2>4 DEF BackfillInv
<1>22. TypeInv'
  BY <1>1, <1>9, <1>10, <1>12, <1>13, <1>15, <1>18 DEF IInv, TypeInv
<1>23. SpaceInv'
  BY <1>1 DEF IInv, SpaceInv, OneSpace
<1> QED
  BY <1>9, <1>12, <1>14, <1>15, <1>20, <1>21, <1>22, <1>23 DEF IInv

LEMMA WorkerNotStartedKeeps ==
  ASSUME IInv, WorkerNotStarted
  PROVE  IInv'
<1>1. PICK p : p = [provider EXCEPT !.isStarting = FALSE, !.starting = <<>>]
  OBVIOUS
<1>2. PICK S : S = ToSet(provider.starting)
  OBVIOUS
<1>3. PICK c : c = Restrict(calls, DOMAIN calls \ S)
  OBVIOUS
<1>4. provider.isStarting /\ Settle(S, TRUE, FALSE, rows, p, worker) /\ UNCHANGED <<config, stored, made>>
  BY <1>1, <1>2 DEF WorkerNotStarted
<1>5. /\ provider \in Providers /\ Knows(provider, worker) /\ Waited(calls, provider, worker) /\ Typed(calls, Calls)
      /\ worker \in Threads /\ rows \in RowsSet
  BY DEF IInv, TypeInv
<1>6. /\ p \in Providers /\ ~p.isStarting /\ p.starting = <<>> /\ p.ready = provider.ready /\ p.error = provider.error
  <2>1. <<>> \in Seq(CallIds)
    OBVIOUS
  <2> QED
    BY <1>1, <1>5, <2>1 DEF Providers
<1>7. Knows(p, worker)
  BY <1>5, <1>6 DEF Knows
<1>8. DOMAIN c = DOMAIN calls \ S /\ \A id \in DOMAIN c : c[id] = calls[id]
  BY <1>3, <1>5, RestrictIs
<1>9. Waited(c, p, worker)
  BY <1>2, <1>5, <1>6, <1>8 DEF Waited
<1>10. TypeInv' /\ Knows(provider', worker') /\ Waited(calls', provider', worker') /\ BackfillInv'
  BY <1>3, <1>4, <1>5, <1>6, <1>7, <1>9, SettleKeeps
<1>11. SpaceInv'
  BY <1>4 DEF Settle, IInv, SpaceInv, OneSpace
<1> QED
  BY <1>10, <1>11 DEF IInv

\* The main thread takes the first message of the worker.
LEMMA DeliveredIs ==
  ASSUME worker \in Threads, worker.outbox # <<>>
  PROVE  LET v == Delivered
             reply == Head(worker.outbox) IN
         /\ v \in Threads /\ v.thread = worker.thread /\ v.model = worker.model
         /\ \A id : IsAt(worker, id) /\ reply \notin {Reply("result", id), Reply("error", id)} => IsAt(v, id)
         /\ IsBroken(worker) /\ reply.type \notin {"init-error", "crash"} => IsBroken(v)
         /\ reply \in Replies
<1>1. PICK o \in Seq(Replies) : o = worker.outbox
  BY DEF Threads
<1>2. PICK t : t = Tail(o)
  OBVIOUS
<1>3. o # <<>>
  BY <1>1
<1>4. t \in Seq(Replies) /\ Len(t) = Len(o) - 1 /\ \A i \in 1..Len(t) : t[i] = o[i + 1]
  BY <1>2, <1>3, HeadTailProperties
<1>5. PICK h \in Replies : h = Head(o)
  BY <1>3, HeadTailProperties
<1>6. Len(o) \in Nat \ {0} /\ DOMAIN o = 1..Len(o) /\ o[1] = h /\ DOMAIN t = 1..Len(t)
  BY <1>3, <1>4, <1>5, LenProperties, EmptySeq
<1>7. PICK v : v = Delivered
  OBVIOUS
<1>8. v = [worker EXCEPT !.outbox = t]
  BY <1>1, <1>2, <1>7 DEF Delivered
<1>9. /\ v \in Threads /\ v.thread = worker.thread /\ v.model = worker.model /\ v.queue = worker.queue
      /\ v.current = worker.current /\ v.inbox = worker.inbox /\ v.outbox = t
  BY <1>4, <1>8 DEF Threads
<1>10. ASSUME NEW n \in DOMAIN o, o[n] # h PROVE \E k \in DOMAIN t : t[k] = o[n]
  <2>1. n \in 2..Len(o)
    BY <1>6, <1>10
  <2>2. n - 1 \in 1..Len(t) /\ (n - 1) + 1 = n
    BY <1>4, <1>6, <2>1
  <2>3. t[n - 1] = o[(n - 1) + 1]
    BY <1>4, <2>2
  <2> QED
    BY <1>6, <2>2, <2>3
<1>11. ASSUME NEW id, IsAt(worker, id), h \notin {Reply("result", id), Reply("error", id)}
       PROVE  IsAt(v, id)
  <2>1. CASE \E n \in DOMAIN o : o[n] \in {Reply("result", id), Reply("error", id)}
    <3>1. PICK n \in DOMAIN o : o[n] \in {Reply("result", id), Reply("error", id)}
      BY <2>1
    <3>2. o[n] # h
      BY <1>11, <3>1
    <3>3. PICK k \in DOMAIN t : t[k] = o[n]
      BY <1>10, <3>2
    <3>4. v.outbox[k] \in {Reply("result", id), Reply("error", id)} /\ k \in DOMAIN v.outbox
      BY <1>9, <3>1, <3>3
    <3> QED
      BY <3>4 DEF IsAt
  <2>2. CASE ~\E n \in DOMAIN o : o[n] \in {Reply("result", id), Reply("error", id)}
    BY <1>1, <1>9, <1>11, <2>2 DEF IsAt
  <2> QED
    BY <2>1, <2>2
<1>12. ASSUME IsBroken(worker), h.type \notin {"init-error", "crash"} PROVE IsBroken(v)
  <2>1. PICK n \in DOMAIN o : o[n].type \in {"init-error", "crash"}
    BY <1>1, <1>12 DEF IsBroken
  <2>2. o[n] # h
    BY <1>12, <2>1
  <2>3. PICK k \in DOMAIN t : t[k] = o[n]
    BY <1>10, <2>2
  <2> QED
    BY <1>9, <2>1, <2>3 DEF IsBroken
<1> QED
  BY <1>1, <1>5, <1>7, <1>9, <1>11, <1>12

\* A worker that has said something has been started.
LEMMA HasStarted ==
  ASSUME Knows(provider, worker), worker.outbox # <<>>
  PROVE  provider.ready \/ provider.error
<1>1. worker # NoWorker
  BY DEF NoWorker
<1> QED
  BY <1>1 DEF Knows

\* An answer is lost to no call but its own.
LEMMA AnswerIsTaken ==
  ASSUME IInv, worker.outbox # <<>>, Head(worker.outbox).type \in {"result", "error"}
  PROVE  /\ Delivered \in Threads /\ Knows(provider, Delivered)
         /\ \A id \in DOMAIN calls : id # Head(worker.outbox).id /\ calls[id].stage = "waiting" =>
                provider.ready /\ (IsAt(Delivered, id) \/ IsBroken(Delivered))
<1>1. worker \in Threads /\ Knows(provider, worker) /\ Waited(calls, provider, worker)
  BY DEF IInv, TypeInv
<1>2. PICK v : v = Delivered
  OBVIOUS
<1>3. PICK h : h = Head(worker.outbox)
  OBVIOUS
<1>4. /\ v \in Threads /\ v.thread = worker.thread /\ v.model = worker.model
      /\ \A id : IsAt(worker, id) /\ h \notin {Reply("result", id), Reply("error", id)} => IsAt(v, id)
      /\ IsBroken(worker) => IsBroken(v)
  BY <1>1, <1>2, <1>3, DeliveredIs
<1>5. Knows(provider, v)
  BY <1>1, <1>4, HasStarted DEF Knows
<1>6. ASSUME NEW id \in DOMAIN calls, id # h.id, calls[id].stage = "waiting"
      PROVE  provider.ready /\ (IsAt(v, id) \/ IsBroken(v))
  <2>1. provider.ready /\ (IsAt(worker, id) \/ IsBroken(worker))
    BY <1>1, <1>6 DEF Waited
  <2>2. h \notin {Reply("result", id), Reply("error", id)}
    BY <1>6 DEF Reply
  <2> QED
    BY <1>4, <2>1, <2>2
<1> QED
  BY <1>2, <1>3, <1>4, <1>5, <1>6

LEMMA AnsweredKeeps ==
  ASSUME IInv, Answered
  PROVE  IInv'
<1>1. PICK reply : reply = Head(worker.outbox)
  OBVIOUS
<1>2. worker.outbox # <<>> /\ reply.type \in {"result", "error"} /\ UNCHANGED <<config, stored, made>>
  BY <1>1 DEF Answered
<1>3. PICK v : v = Delivered
  OBVIOUS
<1>4. /\ v \in Threads /\ Knows(provider, v)
      /\ \A id \in DOMAIN calls : id # reply.id /\ calls[id].stage = "waiting" =>
             provider.ready /\ (IsAt(v, id) \/ IsBroken(v))
  BY <1>1, <1>2, <1>3, AnswerIsTaken
<1>5. /\ TypeInv /\ provider \in Providers /\ Waited(calls, provider, worker) /\ Typed(calls, Calls) /\ rows \in RowsSet
      /\ SpaceInv /\ BackfillInv
  BY DEF IInv, TypeInv
<1>6. CASE ~IsWaiting(reply.id)
  <2>1. worker' = v /\ UNCHANGED <<rows, provider, calls, backfill>>
    BY <1>1, <1>3, <1>6 DEF Answered
  <2>2. Waited(calls, provider, v)
    BY <1>4, <1>5, <1>6 DEF Waited, IsWaiting
  <2>3. Waited(calls', provider', worker')
    BY <2>1, <2>2
  <2>4. Knows(provider', worker')
    BY <1>4, <2>1
  <2>5. TypeInv'
    BY <1>2, <1>4, <1>5, <2>1 DEF TypeInv
  <2>6. BackfillInv'
    BY <1>2, <1>5, <2>1 DEF BackfillInv
  <2>7. SpaceInv'
    BY <1>2, <1>5, <2>1 DEF SpaceInv, OneSpace
  <2> QED
    BY <2>3, <2>4, <2>5, <2>6, <2>7 DEF IInv
<1>7. CASE IsWaiting(reply.id)
  <2>1. PICK rs : rs = IF reply.type = "result" THEN Stored(reply.id) ELSE rows
    OBVIOUS
  <2>2. PICK failed \in BOOLEAN : failed = (reply.type = "error")
    OBVIOUS
  <2>3. Settle({reply.id}, failed, FALSE, rs, provider, v)
    BY <1>1, <1>3, <1>7, <2>1, <2>2 DEF Answered
  <2>4. reply.id \in DOMAIN calls /\ calls[reply.id].stage = "waiting"
    BY <1>7 DEF IsWaiting
  <2>5. PICK c : c = Restrict(calls, DOMAIN calls \ {reply.id})
    OBVIOUS
  <2>6. DOMAIN c = DOMAIN calls \ {reply.id} /\ \A id \in DOMAIN c : c[id] = calls[id]
    BY <1>5, <2>5, RestrictIs
  <2>7. Waited(c, provider, v)
    BY <1>4, <1>5, <2>4, <2>6 DEF Waited
  <2>8. /\ rs \in RowsSet
        /\ \A i \in Rows : rows[i].vector # NoVector => rs[i].vector # NoVector
        /\ failed \/ \A i \in DOMAIN calls[reply.id].texts : rs[i].vector # NoVector
    <3>1. CASE failed
      BY <1>5, <2>1, <2>2, <3>1
    <3>2. CASE ~failed
      <4>1. rs = Stored(reply.id)
        BY <1>2, <2>1, <2>2, <3>2
      <4>2. /\ rs \in RowsSet
            /\ \A i \in DOMAIN calls[reply.id].texts : rs[i].vector # NoVector
            /\ \A i \in Rows \ DOMAIN calls[reply.id].texts : rs[i] = rows[i]
        BY <1>5, <2>4, <4>1, StoredIs
      <4> QED
        BY <4>2
    <3> QED
      BY <3>1, <3>2
  <2>9. \A id \in {reply.id} \cap DOMAIN calls : failed \/ \A i \in DOMAIN calls[id].texts : rs[i].vector # NoVector
    BY <2>8
  <2>10. TypeInv' /\ Knows(provider', worker') /\ Waited(calls', provider', worker') /\ BackfillInv'
    <3>1. PICK S : S = {reply.id}
      OBVIOUS
    <3>2. Settle(S, failed, FALSE, rs, provider, v) /\ Waited(Restrict(calls, DOMAIN calls \ S), provider, v)
      BY <2>3, <2>5, <2>7, <3>1
    <3>3. failed \/ \A id \in S \cap DOMAIN calls : \A i \in DOMAIN calls[id].texts : rs[i].vector # NoVector
      BY <2>9, <3>1
    <3> QED
      BY <1>2, <1>4, <1>5, <2>8, <3>2, <3>3, SettleKeeps
  <2>11. SpaceInv'
    <3>1. rows' = rs
      BY <2>3 DEF Settle
    <3>2. CASE reply.type = "result"
      BY <1>2, <2>1, <2>4, <3>1, <3>2, StoredSpace
    <3>3. CASE reply.type # "result"
      <4>1. rows' = rows
        BY <2>1, <3>1, <3>3
      <4> QED
        BY <1>2, <1>5, <4>1 DEF SpaceInv, OneSpace
    <3> QED
      BY <3>2, <3>3
  <2> QED
    BY <2>10, <2>11 DEF IInv
<1> QED
  BY <1>6, <1>7

LEMMA RemoteEndsKeeps ==
  ASSUME IInv, NEW id \in DOMAIN calls, RemoteEnds(id)
  PROVE  IInv'
<1>1. PICK isAnswer \in BOOLEAN :
          Settle({id}, ~isAnswer, FALSE, IF isAnswer THEN Stored(id) ELSE rows, provider, worker)
  BY DEF RemoteEnds
<1>2. calls[id].stage = "remote" /\ UNCHANGED <<config, stored, made>>
  BY DEF RemoteEnds
<1>3. PICK failed \in BOOLEAN : failed = ~isAnswer
  OBVIOUS
<1>4. PICK rs : rs = IF isAnswer THEN Stored(id) ELSE rows
  OBVIOUS
<1>5. PICK S : S = {id}
  OBVIOUS
<1>6. PICK c : c = Restrict(calls, DOMAIN calls \ S)
  OBVIOUS
<1>7. /\ TypeInv /\ provider \in Providers /\ worker \in Threads /\ Knows(provider, worker)
      /\ Waited(calls, provider, worker) /\ Typed(calls, Calls) /\ rows \in RowsSet /\ SpaceInv
  BY DEF IInv, TypeInv
<1>8. Settle(S, failed, FALSE, rs, provider, worker)
  BY <1>1, <1>3, <1>4, <1>5
<1>9. DOMAIN c = DOMAIN calls \ {id} /\ \A x \in DOMAIN c : c[x] = calls[x]
  BY <1>5, <1>6, <1>7, RestrictIs
<1>10. Waited(c, provider, worker)
  BY <1>2, <1>7, <1>9 DEF Waited
<1>11. /\ rs \in RowsSet
       /\ \A i \in Rows : rows[i].vector # NoVector => rs[i].vector # NoVector
       /\ failed \/ \A i \in DOMAIN calls[id].texts : rs[i].vector # NoVector
  <2>1. CASE failed
    BY <1>3, <1>4, <1>7, <2>1
  <2>2. CASE ~failed
    <3>1. rs = Stored(id)
      BY <1>3, <1>4, <2>2
    <3>2. /\ rs \in RowsSet
          /\ \A i \in DOMAIN calls[id].texts : rs[i].vector # NoVector
          /\ \A i \in Rows \ DOMAIN calls[id].texts : rs[i] = rows[i]
      BY <1>7, <3>1, StoredIs
    <3> QED
      BY <3>2
  <2> QED
    BY <2>1, <2>2
<1>12. failed \/ \A x \in S \cap DOMAIN calls : \A i \in DOMAIN calls[x].texts : rs[i].vector # NoVector
  BY <1>5, <1>11
<1>13. TypeInv' /\ Knows(provider', worker') /\ Waited(calls', provider', worker') /\ BackfillInv'
  BY <1>2, <1>6, <1>7, <1>8, <1>10, <1>11, <1>12, SettleKeeps
<1>14. SpaceInv'
  <2>1. rows' = rs
    BY <1>8 DEF Settle
  <2>2. CASE isAnswer
    BY <1>2, <1>4, <2>1, <2>2, StoredSpace
  <2>3. CASE ~isAnswer
    <3>1. rows' = rows
      BY <1>4, <2>1, <2>3
    <3> QED
      BY <1>2, <1>7, <3>1 DEF SpaceInv, OneSpace
  <2> QED
    BY <2>2, <2>3
<1> QED
  BY <1>13, <1>14 DEF IInv

\* A backfill waits for a call whatever the stage of the call.
LEMMA BacksWhateverTheStage ==
  ASSUME BackfillInv, NEW n, DOMAIN n = DOMAIN calls, \A id \in DOMAIN calls : n[id].texts = calls[id].texts
  PROVE  \A r \in Runners : Backs(backfill[r], r, n)
BY DEF BackfillInv, Backs

LEMMA WorkerLostKeeps ==
  ASSUME IInv, WorkerLost
  PROVE  IInv'
<1>1. PICK reply : reply = Head(worker.outbox)
  OBVIOUS
<1>2. PICK lost : lost = [provider EXCEPT !.ready = FALSE, !.error = TRUE, !.broken = @ \/ reply.type = "init-error"]
  OBVIOUS
<1>3. PICK v : v = Delivered
  OBVIOUS
<1>4. worker.outbox # <<>> /\ UNCHANGED <<config, stored, made>>
  BY DEF WorkerLost
<1>5. /\ provider \in Providers /\ worker \in Threads /\ Knows(provider, worker)
      /\ Waited(calls, provider, worker) /\ Typed(calls, Calls) /\ rows \in RowsSet /\ SpaceInv /\ BackfillInv
  BY DEF IInv, TypeInv
<1>6. v \in Threads
  BY <1>3, <1>4, <1>5, DeliveredIs
<1>7. ~provider.isStarting
  BY <1>4, <1>5, HasStarted DEF Knows
<1>8. \A id \in DOMAIN calls : calls[id].stage # "starting"
  BY <1>5, <1>7 DEF Waited
<1>9. /\ lost \in Providers /\ ~lost.ready /\ lost.error /\ ~lost.isStarting /\ lost.starting = provider.starting
  BY <1>2, <1>5, <1>7 DEF Providers
<1>10. DOMAIN provider.starting = {}
  BY <1>5, <1>8 DEF Waited
<1>11. CASE RemoteKey /\ Waiting # {}
  <2>1. /\ provider' = Switched(lost) /\ worker' = v
        /\ calls' = [id \in DOMAIN calls |-> IF IsWaiting(id) THEN [calls[id] EXCEPT !.stage = "remote"] ELSE calls[id]]
        /\ UNCHANGED <<rows, backfill>>
    BY <1>1, <1>2, <1>3, <1>11 DEF WorkerLost
  <2>2. PICK P : P = Switched(lost)
    OBVIOUS
  <2>3. P \in Providers /\ ~P.ready /\ P.error /\ ~P.isStarting /\ P.starting = provider.starting
    BY <1>9, <2>2 DEF Switched, Providers
  <2>4. PICK n : n = calls'
    OBVIOUS
  <2>5. /\ n = [id \in DOMAIN calls |-> IF IsWaiting(id) THEN [calls[id] EXCEPT !.stage = "remote"] ELSE calls[id]]
        /\ DOMAIN n = DOMAIN calls
    BY <2>1, <2>4
  <2>6. ASSUME NEW id \in DOMAIN calls
        PROVE  /\ n[id] \in Calls /\ n[id].priority = calls[id].priority /\ n[id].texts = calls[id].texts
               /\ n[id].stage = "remote"
    <3>1. calls[id] \in Calls /\ calls[id].stage # "starting"
      BY <1>5, <1>8 DEF Typed
    <3>2. CASE IsWaiting(id)
      BY <2>5, <3>1, <3>2 DEF Calls, Stages
    <3>3. CASE ~IsWaiting(id)
      BY <2>5, <3>1, <3>3 DEF Calls, Stages, IsWaiting
    <3> QED
      BY <3>2, <3>3
  <2>7. Typed(n, Calls)
    <3>1. n \in [DOMAIN n -> Calls]
      BY <2>5, <2>6
    <3> QED
      BY <1>5, <2>5, <2>6, <3>1 DEF Typed
  <2>8. Waited(n, P, v)
    BY <1>10, <2>3, <2>5, <2>6 DEF Waited
  <2>9. Knows(P, v)
    BY <2>3 DEF Knows
  <2>10. \A r \in Runners : Backs(backfill[r], r, n)
    BY <1>5, <2>5, <2>6, BacksWhateverTheStage
  <2>11. BackfillInv'
    BY <1>4, <1>5, <2>1, <2>4, <2>10 DEF BackfillInv
  <2>12. TypeInv'
    BY <1>4, <1>6, <2>1, <2>2, <2>3, <2>4, <2>7 DEF IInv, TypeInv
  <2>13. SpaceInv'
    BY <1>4, <1>5, <2>1 DEF SpaceInv, OneSpace
  <2>14. Waited(calls', provider', worker') /\ Knows(provider', worker')
    BY <2>1, <2>2, <2>4, <2>8, <2>9
  <2> QED
    BY <2>11, <2>12, <2>13, <2>14 DEF IInv
<1>12. CASE ~(RemoteKey /\ Waiting # {})
  <2>1. Settle(Waiting, TRUE, TRUE, rows, lost, v)
    BY <1>1, <1>2, <1>3, <1>12 DEF WorkerLost
  <2>2. PICK S : S = Waiting
    OBVIOUS
  <2>3. PICK c : c = Restrict(calls, DOMAIN calls \ S)
    OBVIOUS
  <2>4. DOMAIN c = DOMAIN calls \ S /\ \A id \in DOMAIN c : c[id] = calls[id]
    BY <1>5, <2>3, RestrictIs
  <2>5. \A id \in DOMAIN c : c[id].stage # "waiting" /\ c[id].stage # "starting"
    BY <1>8, <2>2, <2>4 DEF Waiting, IsWaiting
  <2>6. Waited(c, lost, v)
    BY <1>9, <1>10, <2>5 DEF Waited
  <2>7. Knows(lost, v)
    BY <1>9 DEF Knows
  <2>8. TypeInv' /\ Knows(provider', worker') /\ Waited(calls', provider', worker') /\ BackfillInv'
    BY <1>4, <1>5, <1>6, <1>9, <2>1, <2>2, <2>3, <2>6, <2>7, SettleKeeps
  <2>9. rows' = rows
    BY <2>1 DEF Settle
  <2>10. SpaceInv'
    BY <1>4, <1>5, <2>9 DEF SpaceInv, OneSpace
  <2> QED
    BY <2>8, <2>10 DEF IInv
<1> QED
  BY <1>11, <1>12

(* -------------------------- A backfill begins -------------------------- *)

\* The comparison keeps every vector, or none.
LEMMA ClearedIs ==
  ASSUME TypeInv
  PROVE  /\ Cleared \in RowsSet
         /\ stored \in {NoConfig, config} => Cleared = rows
         /\ stored \notin {NoConfig, config} => \A i \in Rows : Cleared[i].vector = NoVector
         /\ \A i \in Rows : Cleared[i].text = rows[i].text
<1>1. PICK rs : rs = Cleared
  OBVIOUS
<1>2. NoVector \in Vectors
  BY DEF NoVector, Vectors
<1>3. rows \in [Rows -> [text : Nat, vector : Vectors]]
  BY DEF TypeInv, RowsSet
<1>4. CASE stored \in {NoConfig, config}
  <2>1. rs = [i \in Rows |-> rows[i]]
    BY <1>1, <1>4 DEF Cleared
  <2>2. rs = rows
    BY <1>3, <2>1
  <2> QED
    BY <1>1, <1>3, <1>4, <2>2 DEF RowsSet
<1>5. CASE stored \notin {NoConfig, config}
  <2>1. rs = [i \in Rows |-> [rows[i] EXCEPT !.vector = NoVector]]
    BY <1>1, <1>5 DEF Cleared
  <2>2. ASSUME NEW i \in Rows
        PROVE  rs[i] \in [text : Nat, vector : Vectors] /\ rs[i].vector = NoVector /\ rs[i].text = rows[i].text
    <3>1. rows[i] \in [text : Nat, vector : Vectors]
      BY <1>3
    <3> QED
      BY <1>2, <2>1, <3>1
  <2> QED
    BY <1>1, <1>5, <2>1, <2>2 DEF RowsSet
<1> QED
  BY <1>4, <1>5

\* Vectors of the replaced configuration are gone with it.
LEMMA ClearedSpace ==
  ASSUME IInv, rows' = Cleared, stored' = config
  PROVE  SpaceInv'
<1>1. PICK rs : rs = Cleared
  OBVIOUS
<1>2. config # NoConfig /\ TypeInv /\ SpaceInv
  BY ConfigsAssumption DEF IInv, TypeInv
<1>3. ASSUME NEW i \in Rows
      PROVE  rs[i].vector.checked /\ rs[i].vector.space # Fallback => rs[i].vector.space = config
  <2>1. CASE stored \in {NoConfig, config}
    <3>1. rs[i] = rows[i]
      BY <1>1, <1>2, <2>1, ClearedIs
    <3> QED
      BY <1>2, <2>1, <3>1 DEF SpaceInv, OneSpace
  <2>2. CASE stored \notin {NoConfig, config}
    <3>1. rs[i].vector = NoVector
      BY <1>1, <1>2, <2>2, ClearedIs
    <3> QED
      BY <3>1 DEF NoVector
  <2> QED
    BY <2>1, <2>2
<1>4. rows' = rs /\ stored' # NoConfig
  BY <1>1, <1>2
<1> QED
  BY <1>3, <1>4 DEF SpaceInv, OneSpace

\* A backfill that was not running starts from nothing.
Start(b, p, rs) ==
    IF p.cached = "none" THEN [b EXCEPT !.failed = FALSE, !.seen = {}, !.pc = "done"]
    ELSE Onward(Entered([b EXCEPT !.failed = FALSE, !.seen = {}], "knowledge", rs), p, rs)

LEMMA StartIs ==
  ASSUME NEW b \in Backfills, b.todo = <<>>, NEW rs \in RowsSet, NEW p, NEW on, on = Start(b, p, rs)
  PROVE  /\ on \in Backfills /\ (IsRunning(on) \/ on.pc = "done")
         /\ IsRunning(on) => on.todo # <<>> /\ BeginsAt(p) # "failed"
         /\ on.pc = "done" => on.todo = <<>>
         /\ on.failed \/ Covered(on, rs)
<1>1. PICK e : e = [b EXCEPT !.failed = FALSE, !.seen = {}]
  OBVIOUS
<1>2. e \in Backfills /\ e.todo = <<>> /\ e.seen = {} /\ ~e.failed
  BY <1>1 DEF Backfills
<1>3. Covered(e, rs)
  BY <1>2 DEF Covered
<1>4. CASE p.cached = "none"
  <2>1. on = [e EXCEPT !.pc = "done"]
    BY <1>1, <1>4 DEF Start, Backfills
  <2>2. on \in Backfills /\ on.pc = "done" /\ on.todo = <<>> /\ on.seen = {}
    BY <1>2, <2>1 DEF Backfills
  <2> QED
    BY <2>2 DEF IsRunning, Covered
<1>5. CASE p.cached # "none"
  <2>1. PICK d : d = Entered(e, "knowledge", rs)
    OBVIOUS
  <2>2. d \in Backfills /\ d.pc = "knowledge" /\ Covered(d, rs)
    BY <1>2, <1>3, <2>1, EnteredIs
  <2>3. IsRunning(d)
    BY <2>2 DEF IsRunning
  <2>4. on = Onward(d, p, rs)
    BY <1>1, <1>5, <2>1 DEF Start
  <2>5. LET g == Onward(d, p, rs) IN
        /\ g \in Backfills /\ (IsRunning(g) \/ g.pc = "done")
        /\ IsRunning(g) => g.todo # <<>> /\ BeginsAt(p) # "failed"
        /\ g.pc = "done" => g.todo = <<>>
        /\ d.failed \/ Covered(d, rs) => g.failed \/ Covered(g, rs)
    BY <2>2, <2>3, OnwardIs
  <2> QED
    BY <2>2, <2>4, <2>5
<1> QED
  BY <1>4, <1>5

LEMMA RunsBackfillKeeps ==
  ASSUME IInv, NEW r \in Runners, ~IsRunning(backfill[r]), RunsBackfill(r), config' = config,
         made' \in [asked : Nat, processes : Nat]
  PROVE  IInv'
<1>1. /\ TypeInv /\ provider \in Providers /\ worker \in Threads /\ Knows(provider, worker)
      /\ Waited(calls, provider, worker) /\ Typed(calls, Calls) /\ rows \in RowsSet /\ SpaceInv /\ BackfillInv
      /\ backfill \in [Runners -> Backfills] /\ config \in Configs
  BY DEF IInv, TypeInv
<1>2. PICK rs : rs = Cleared
  OBVIOUS
<1>3. PICK on : on = Start(backfill[r], provider, rs)
  OBVIOUS
<1>4. PICK D : D = {r}
  OBVIOUS
<1>5. PICK bs : bs = [x \in D |-> on]
  OBVIOUS
<1>6. PICK new : new = BatchCalls(bs)
  OBVIOUS
<1>7. backfill[r] \in Backfills /\ backfill[r].todo = <<>>
  BY <1>1 DEF BackfillInv
<1>8. [[backfill[r] EXCEPT !.failed = FALSE, !.seen = {}] EXCEPT !.pc = "done"]
        = [backfill[r] EXCEPT !.failed = FALSE, !.seen = {}, !.pc = "done"]
  BY <1>7 DEF Backfills
<1>9. /\ stored' = config /\ rows' = rs /\ backfill' = [backfill EXCEPT ![r] = on]
      /\ calls' = InProgress(calls, new, provider) /\ Begin(new, provider, worker)
  BY <1>2, <1>3, <1>4, <1>5, <1>6, <1>8 DEF RunsBackfill, Start
<1>10. /\ rs \in RowsSet
       /\ stored \in {NoConfig, config} => rs = rows
  BY <1>1, <1>2, ClearedIs
<1>11. /\ on \in Backfills /\ (IsRunning(on) \/ on.pc = "done")
       /\ IsRunning(on) => on.todo # <<>> /\ BeginsAt(provider) # "failed"
       /\ on.pc = "done" => on.todo = <<>>
       /\ on.failed \/ Covered(on, rs)
  BY <1>3, <1>7, <1>10, StartIs
<1>12. /\ Typed(new, Begun) /\ IsFiniteSet(DOMAIN new)
       /\ \A id \in DOMAIN new : id[1] = r
       /\ IsRunning(on) => /\ <<r, on.batches>> \in DOMAIN new
                           /\ new[<<r, on.batches>>].texts = BatchOf(on).texts
  <2>1. D \in SUBSET Runners /\ bs \in [D -> Backfills] /\ \A x \in D : IsRunning(bs[x]) => bs[x].todo # <<>>
    BY <1>4, <1>5, <1>11
  <2>2. r \in D /\ bs[r] = on
    BY <1>4, <1>5
  <2>3. /\ Typed(new, Begun) /\ IsFiniteSet(DOMAIN new)
        /\ \A id \in DOMAIN new : id[1] \in D
        /\ \A x \in D : IsRunning(bs[x]) => /\ <<x, bs[x].batches>> \in DOMAIN new
                                            /\ new[<<x, bs[x].batches>>].texts = BatchOf(bs[x]).texts
    BY <1>6, <2>1, BatchCallsAre
  <2> QED
    BY <1>4, <2>2, <2>3
<1>13. /\ provider' \in Providers /\ worker' \in Threads /\ Typed(calls', Calls)
       /\ Knows(provider', worker') /\ Waited(calls', provider', worker')
  BY <1>1, <1>9, <1>12, BeginKeeps
<1>14. PICK n : n = calls'
  OBVIOUS
<1>15. /\ DOMAIN calls \subseteq DOMAIN n
       /\ \A id \in DOMAIN calls : id \notin DOMAIN new => n[id] = calls[id]
       /\ BeginsAt(provider) # "failed" => \A id \in DOMAIN new : id \in DOMAIN n /\ n[id].texts = new[id].texts
  <2>1. /\ DOMAIN calls \subseteq DOMAIN n
        /\ \A id \in DOMAIN calls : id \notin DOMAIN new => n[id] = calls[id]
        /\ BeginsAt(provider) # "failed" => \A id \in DOMAIN new :
               /\ id \in DOMAIN n
               /\ n[id] = [new[id] EXCEPT !.stage = BeginsAt(provider)]
    BY <1>1, <1>9, <1>12, <1>14, InProgressIs
  <2>2. \A id \in DOMAIN new : [new[id] EXCEPT !.stage = BeginsAt(provider)].texts = new[id].texts
    BY <1>12 DEF Typed, Begun
  <2> QED
    BY <2>1, <2>2
<1>16. PICK B : B = backfill'
  OBVIOUS
<1>17. B \in [Runners -> Backfills] /\ B[r] = on /\ \A x \in Runners \ {r} : B[x] = backfill[x]
  BY <1>1, <1>9, <1>11, <1>16
<1>18. ASSUME NEW x \in Runners
       PROVE  /\ Backs(B[x], x, n) /\ Covers(B[x], rs)
              /\ ~IsRunning(B[x]) => B[x].todo = <<>>
              /\ B[x].pc \in {"idle", "delay"} => B[x].seen = {}
  <2>1. CASE x = r
    <3>1. Backs(on, r, n)
      BY <1>11, <1>12, <1>15 DEF Backs
    <3>2. Covers(on, rs)
      BY <1>11 DEF Covers
    <3> QED
      BY <1>11, <1>17, <2>1, <3>1, <3>2 DEF IsRunning
  <2>2. CASE x # r
    <3>1. B[x] = backfill[x]
      BY <1>17, <2>2
    <3>2. /\ Backs(backfill[x], x, calls) /\ Covers(backfill[x], rows)
          /\ IsRunning(backfill[x]) \/ (backfill[x].pc = "done" /\ backfill[x].seen # {}) => stored = config
      BY <1>1 DEF BackfillInv
    <3>3. Backs(backfill[x], x, n)
      <4>1. ASSUME IsRunning(backfill[x])
            PROVE  /\ <<x, backfill[x].batches>> \in DOMAIN n
                   /\ n[<<x, backfill[x].batches>>] = calls[<<x, backfill[x].batches>>]
        <5>1. <<x, backfill[x].batches>> \in DOMAIN calls /\ <<x, backfill[x].batches>>[1] = x
          BY <3>2, <4>1 DEF Backs
        <5>2. <<x, backfill[x].batches>> \notin DOMAIN new
          BY <1>12, <2>2, <5>1
        <5> QED
          BY <1>15, <5>1, <5>2
      <4> QED
        BY <3>2, <4>1 DEF Backs
    <3>4. Covers(backfill[x], rs)
      <4>1. CASE stored = config
        BY <1>10, <3>2, <4>1
      <4>2. CASE stored # config
        <5>1. IsRunning(backfill[x]) \/ backfill[x].pc = "done" => backfill[x].seen = {}
          BY <3>2, <4>2
        <5> QED
          BY <5>1 DEF Covers, Covered
      <4> QED
        BY <4>1, <4>2
    <3> QED
      BY <1>1, <3>1, <3>3, <3>4 DEF BackfillInv
  <2> QED
    BY <2>1, <2>2
<1>19. BackfillInv'
  BY <1>9, <1>14, <1>16, <1>18 DEF BackfillInv
<1>20. TypeInv'
  BY <1>1, <1>9, <1>10, <1>13, <1>16, <1>17 DEF TypeInv
<1>21. SpaceInv'
  BY <1>2, <1>9, ClearedSpace
<1> QED
  BY <1>13, <1>19, <1>20, <1>21 DEF IInv

LEMMA StartupBeginsKeeps ==
  ASSUME IInv, StartupBegins
  PROVE  IInv'
<1>1. "startup" \in Runners /\ backfill["startup"].pc = "idle" /\ UNCHANGED <<config, made>>
  BY DEF StartupBegins, Runners
<1>2. TypeInv /\ BackfillInv /\ backfill \in [Runners -> Backfills]
  BY DEF IInv, TypeInv
<1>3. CASE ~IsAvailable \/ HasBacklog
  <2>1. PICK pc \in {"delay", "done"} : pc = IF IsAvailable THEN "delay" ELSE "done"
    OBVIOUS
  <2>2. backfill' = [backfill EXCEPT !["startup"].pc = pc] /\ UNCHANGED <<worker, stored, rows, provider, calls>>
    BY <1>3, <2>1 DEF StartupBegins
  <2>3. PICK B : B = backfill'
    OBVIOUS
  <2>4. PICK b \in Backfills : b = backfill["startup"]
    BY <1>1, <1>2
  <2>5. B = [backfill EXCEPT !["startup"] = [b EXCEPT !.pc = pc]]
    BY <1>1, <1>2, <2>2, <2>3, <2>4
  <2>6. b.pc = "idle" /\ b.seen = {} /\ b.todo = <<>>
    BY <1>1, <1>2, <2>4 DEF BackfillInv, IsRunning
  <2>7. PICK d : d = [b EXCEPT !.pc = pc]
    OBVIOUS
  <2>8. d \in Backfills /\ d.pc = pc /\ d.seen = {} /\ d.todo = <<>>
    BY <2>4, <2>6, <2>7 DEF Backfills
  <2>9. B \in [Runners -> Backfills] /\ B["startup"] = d /\ \A x \in Runners \ {"startup"} : B[x] = backfill[x]
    BY <1>1, <1>2, <2>5, <2>7, <2>8
  <2>10. ~IsRunning(d) /\ Covered(d, rows)
    BY <2>8 DEF IsRunning, Covered
  <2>11. ASSUME NEW x \in Runners
         PROVE  /\ Backs(B[x], x, calls) /\ Covers(B[x], rows)
                /\ ~IsRunning(B[x]) => B[x].todo = <<>>
                /\ B[x].pc \in {"idle", "delay"} => B[x].seen = {}
                /\ IsRunning(B[x]) \/ (B[x].pc = "done" /\ B[x].seen # {}) => stored = config
    <3>1. CASE x = "startup"
      BY <2>8, <2>9, <2>10, <3>1 DEF Backs, Covers
    <3>2. CASE x # "startup"
      BY <1>2, <2>9, <3>2 DEF BackfillInv
    <3> QED
      BY <3>1, <3>2
  <2>12. BackfillInv'
    BY <1>1, <2>2, <2>3, <2>11 DEF BackfillInv
  <2>13. TypeInv'
    BY <1>1, <1>2, <2>2, <2>3, <2>9 DEF TypeInv
  <2>14. SpaceInv'
    BY <2>2 DEF IInv, SpaceInv, OneSpace
  <2>15. Knows(provider', worker') /\ Waited(calls', provider', worker')
    BY <2>2 DEF IInv
  <2> QED
    BY <2>12, <2>13, <2>14, <2>15 DEF IInv
<1>4. CASE ~(~IsAvailable \/ HasBacklog)
  <2>1. RunsBackfill("startup")
    BY <1>4 DEF StartupBegins
  <2>2. ~IsRunning(backfill["startup"])
    BY <1>1 DEF IsRunning
  <2>3. made' \in [asked : Nat, processes : Nat]
    BY <1>1, <1>2 DEF TypeInv
  <2> QED
    BY <1>1, <2>1, <2>2, <2>3, RunsBackfillKeeps
<1> QED
  BY <1>3, <1>4

LEMMA DelayEndsKeeps ==
  ASSUME IInv, DelayEnds
  PROVE  IInv'
<1>1. "startup" \in Runners /\ ~IsRunning(backfill["startup"]) /\ RunsBackfill("startup") /\ UNCHANGED <<config, made>>
  BY DEF DelayEnds, Runners, IsRunning
<1>2. made' \in [asked : Nat, processes : Nat]
  BY <1>1 DEF IInv, TypeInv
<1> QED
  BY <1>1, <1>2, RunsBackfillKeeps

LEMMA CounterIs ==
  ASSUME TypeInv, made' = [made EXCEPT !.asked = @ + 1]
  PROVE  made' \in [asked : Nat, processes : Nat]
BY DEF TypeInv

LEMMA ReindexKeeps ==
  ASSUME IInv, Reindex
  PROVE  IInv'
<1>1. "reindex" \in Runners /\ ~IsRunning(backfill["reindex"]) /\ RunsBackfill("reindex") /\ config' = config
  BY DEF Reindex, Runners, IsRunning
<1>2. made' \in [asked : Nat, processes : Nat]
  <2>1. TypeInv /\ made' = [made EXCEPT !.asked = @ + 1]
    BY DEF IInv, TypeInv, Reindex
  <2> QED
    BY <2>1, CounterIs
<1> QED
  BY <1>1, <1>2, RunsBackfillKeeps

(* --------------------------- Rows and queries -------------------------- *)

\* Calls of rows and queries strand no call, and concern no backfill.
LEMMA EmbedsKeeps ==
  ASSUME IInv, NEW new, Typed(new, Begun), IsFiniteSet(DOMAIN new), \A id \in DOMAIN new : id[1] \notin Runners,
         Embeds(new), UNCHANGED <<config, stored, backfill>>,
         rows' \in RowsSet, \A i \in Rows : rows'[i].vector = rows[i].vector,
         made' \in [asked : Nat, processes : Nat]
  PROVE  IInv'
<1>1. /\ TypeInv /\ provider \in Providers /\ worker \in Threads /\ Knows(provider, worker)
      /\ Waited(calls, provider, worker) /\ Typed(calls, Calls) /\ SpaceInv /\ BackfillInv
      /\ backfill \in [Runners -> Backfills]
  BY DEF IInv, TypeInv
<1>2. calls' = InProgress(calls, new, provider) /\ Begin(new, provider, worker)
  BY DEF Embeds
<1>3. /\ provider' \in Providers /\ worker' \in Threads /\ Typed(calls', Calls)
      /\ Knows(provider', worker') /\ Waited(calls', provider', worker')
  BY <1>1, <1>2, BeginKeeps
<1>4. PICK n : n = calls'
  OBVIOUS
<1>5. DOMAIN calls \subseteq DOMAIN n /\ \A id \in DOMAIN calls : id \notin DOMAIN new => n[id] = calls[id]
  BY <1>1, <1>2, <1>4, InProgressIs
<1>6. PICK rs : rs = rows'
  OBVIOUS
<1>7. rs \in RowsSet /\ \A i \in Rows : rs[i].vector = rows[i].vector
  BY <1>6
<1>8. ASSUME NEW r \in Runners PROVE Backs(backfill[r], r, n) /\ Covers(backfill[r], rs)
  <2>1. Backs(backfill[r], r, calls) /\ Covers(backfill[r], rows) /\ backfill[r] \in Backfills
    BY <1>1 DEF BackfillInv
  <2>2. Covers(backfill[r], rs)
    <3>1. backfill[r].seen \subseteq Rows
      BY <2>1 DEF Backfills
    <3> QED
      BY <1>7, <2>1, <3>1 DEF Covers, Covered
  <2>3. <<r, backfill[r].batches>>[1] = r
    OBVIOUS
  <2>4. <<r, backfill[r].batches>> \notin DOMAIN new
    BY <2>3
  <2>5. Backs(backfill[r], r, n)
    BY <1>5, <2>1, <2>4 DEF Backs
  <2> QED
    BY <2>2, <2>5
<1>9. BackfillInv'
  BY <1>1, <1>4, <1>6, <1>8 DEF BackfillInv
<1>10. TypeInv'
  BY <1>1, <1>3 DEF TypeInv
<1>11. SpaceInv'
  <2>1. \A i \in Rows : (rs[i].vector.checked /\ rs[i].vector.space # Fallback => rs[i].vector.space = stored)
                        /\ (stored = NoConfig => ~rs[i].vector.checked)
    BY <1>1, <1>7 DEF SpaceInv, OneSpace
  <2> QED
    BY <1>6, <2>1 DEF SpaceInv, OneSpace
<1> QED
  BY <1>3, <1>9, <1>10, <1>11 DEF IInv

LEMMA NoCallsAre == Typed(NoCalls, Begun) /\ Typed(NoCalls, Calls) /\ IsFiniteSet(DOMAIN NoCalls) /\ DOMAIN NoCalls = {}
<1>1. PICK c : c = NoCalls
  OBVIOUS
<1>2. DOMAIN c = {}
  BY <1>1 DEF NoCalls
<1>3. c \in [{} -> Begun] /\ c \in [{} -> Calls]
  BY <1>1 DEF NoCalls
<1> QED
  BY <1>1, <1>2, <1>3, FS_EmptySet DEF Typed

\* The call of a row has its text, and nothing else.
LEMMA CallForIs ==
  ASSUME NEW i \in Rows, NEW text \in Nat
  PROVE  LET new == CallFor(i, text) IN
         Typed(new, Begun) /\ IsFiniteSet(DOMAIN new) /\ \A id \in DOMAIN new : id[1] \notin Runners
<1>1. CASE ~IsAvailable
  BY <1>1, NoCallsAre DEF CallFor
<1>2. CASE IsAvailable
  <2>1. PICK t : t = [j \in {i} |-> text]
    OBVIOUS
  <2>2. t \in Texts
    <3>1. t \in [{i} -> Nat] /\ {i} \in SUBSET Rows
      BY <2>1
    <3> QED
      BY <3>1 DEF Texts
  <2>3. PICK x : x = [texts |-> t, priority |-> "normal", stage |-> "begins"]
    OBVIOUS
  <2>4. x \in Begun /\ x.priority = "normal"
    BY <2>2, <2>3 DEF Begun
  <2>5. PICK new : new = CallFor(i, text)
    OBVIOUS
  <2>6. new = [id \in {<<i, text>>} |-> x]
    BY <1>2, <2>1, <2>3, <2>5 DEF CallFor, Call
  <2>7. DOMAIN new = {<<i, text>>} /\ new \in [DOMAIN new -> Begun] /\ \A id \in DOMAIN new : new[id].priority = "normal"
    BY <2>4, <2>6
  <2>8. <<i, text>> \in CallIds /\ i \notin Runners
    BY RowsAssumption DEF CallIds
  <2>9. IsFiniteSet({<<i, text>>})
    BY FS_Singleton
  <2> QED
    BY <2>5, <2>7, <2>8, <2>9 DEF Typed
<1> QED
  BY <1>1, <1>2

\* A row's text changes, and its vector stays.
LEMMA RetypedIs ==
  ASSUME rows \in RowsSet, NEW i \in Rows, NEW text \in Nat, NEW rs, rs = [rows EXCEPT ![i].text = text]
  PROVE  rs \in RowsSet /\ \A j \in Rows : rs[j].vector = rows[j].vector
<1>1. rows \in [Rows -> [text : Nat, vector : Vectors]]
  BY DEF RowsSet
<1>2. PICK x : x = [rows[i] EXCEPT !.text = text]
  OBVIOUS
<1>3. x \in [text : Nat, vector : Vectors] /\ x.vector = rows[i].vector
  BY <1>1, <1>2
<1>4. rs = [rows EXCEPT ![i] = x]
  BY <1>2
<1> QED
  BY <1>1, <1>3, <1>4 DEF RowsSet

LEMMA CreateKeeps ==
  ASSUME IInv, NEW i \in Rows, Create(i)
  PROVE  IInv'
<1>1. /\ rows' = [rows EXCEPT ![i].text = 1] /\ UNCHANGED <<config, stored, backfill, made>>
      /\ TypeInv
  BY DEF Create, IInv
<1>2. PICK embeds \in BOOLEAN : Embeds(IF embeds THEN CallFor(i, 1) ELSE NoCalls)
  BY DEF Create
<1>3. PICK new : new = IF embeds THEN CallFor(i, 1) ELSE NoCalls
  OBVIOUS
<1>4. Embeds(new)
  BY <1>2, <1>3
<1>5. Typed(new, Begun) /\ IsFiniteSet(DOMAIN new) /\ \A id \in DOMAIN new : id[1] \notin Runners
  <2>1. CASE embeds
    BY <1>3, <2>1, CallForIs
  <2>2. CASE ~embeds
    BY <1>3, <2>2, NoCallsAre
  <2> QED
    BY <2>1, <2>2
<1>6. rows' \in RowsSet /\ \A j \in Rows : rows'[j].vector = rows[j].vector
  <2>1. PICK rs : rs = [rows EXCEPT ![i].text = 1]
    OBVIOUS
  <2>2. rows \in RowsSet /\ 1 \in Nat /\ rows' = rs
    BY <1>1, <2>1 DEF TypeInv
  <2> QED
    BY <2>1, <2>2, RetypedIs
<1>7. made' \in [asked : Nat, processes : Nat]
  BY <1>1 DEF TypeInv
<1> QED
  BY <1>1, <1>4, <1>5, <1>6, <1>7, EmbedsKeeps

LEMMA UpdateKeeps ==
  ASSUME IInv, NEW i \in Rows, Update(i)
  PROVE  IInv'
<1>1. UNCHANGED <<config, stored, backfill, made>> /\ TypeInv /\ rows[i].text \in Nat
  BY DEF Update, IInv, TypeInv, RowsSet
<1>2. PICK text \in Nat : text = rows[i].text + 1
  BY <1>1
<1>3. PICK new : new = CallFor(i, text)
  OBVIOUS
<1>4. Embeds(new)
  BY <1>2, <1>3 DEF Update
<1>5. Typed(new, Begun) /\ IsFiniteSet(DOMAIN new) /\ \A id \in DOMAIN new : id[1] \notin Runners
  BY <1>3, CallForIs
<1>6. rows' = [rows EXCEPT ![i].text = text]
  BY <1>1, <1>2 DEF Update, TypeInv, RowsSet
<1>7. rows' \in RowsSet /\ \A j \in Rows : rows'[j].vector = rows[j].vector
  <2>1. PICK rs : rs = [rows EXCEPT ![i].text = text]
    OBVIOUS
  <2>2. rows \in RowsSet /\ rows' = rs
    BY <1>1, <1>6, <2>1 DEF TypeInv
  <2> QED
    BY <2>1, <2>2, RetypedIs
<1>8. made' \in [asked : Nat, processes : Nat]
  BY <1>1 DEF TypeInv
<1> QED
  BY <1>1, <1>4, <1>5, <1>7, <1>8, EmbedsKeeps

LEMMA QueryKeeps ==
  ASSUME IInv, Query
  PROVE  IInv'
<1>1. /\ UNCHANGED <<config, stored, rows, backfill>> /\ made' = [made EXCEPT !.asked = @ + 1] /\ TypeInv
      /\ made.asked \in Nat
  BY DEF Query, IInv, TypeInv
<1>2. PICK n \in Nat : n = made.asked
  BY <1>1
<1>3. PICK t : t = [i \in {} |-> 0]
  OBVIOUS
<1>4. t \in Texts
  <2>1. t \in [{} -> Nat] /\ {} \in SUBSET Rows
    BY <1>3
  <2> QED
    BY <2>1 DEF Texts
<1>5. PICK x : x = [texts |-> t, priority |-> "high", stage |-> "begins"]
  OBVIOUS
<1>6. x \in Begun
  BY <1>4, <1>5 DEF Begun
<1>7. PICK id : id = <<"query", n>>
  OBVIOUS
<1>8. id \in CallIds /\ id[1] = "query" /\ id[1] \notin Runners
  BY <1>7 DEF CallIds, Runners
<1>9. PICK new : new = [y \in {id} |-> x]
  OBVIOUS
<1>10. Embeds(new)
  BY <1>2, <1>3, <1>5, <1>7, <1>9 DEF Query, Call
<1>11. DOMAIN new = {id} /\ new \in [DOMAIN new -> Begun]
  BY <1>6, <1>9
<1>12. Typed(new, Begun) /\ IsFiniteSet(DOMAIN new) /\ \A y \in DOMAIN new : y[1] \notin Runners
  BY <1>8, <1>11, FS_Singleton DEF Typed
<1>13. rows' \in RowsSet /\ \A j \in Rows : rows'[j].vector = rows[j].vector
  BY <1>1 DEF TypeInv
<1>14. made' \in [asked : Nat, processes : Nat]
  BY <1>1, CounterIs
<1> QED
  BY <1>1, <1>10, <1>12, <1>13, <1>14, EmbedsKeeps

(* ----------------------------- The process ----------------------------- *)

\* A process starts with nothing in progress.
LEMMA FreshIs ==
  ASSUME NEW c \in Configs, NEW n, DOMAIN n = {}
  PROVE  /\ FreshProvider(c) \in Providers /\ NoWorker \in Threads
         /\ Knows(FreshProvider(c), NoWorker) /\ Waited(n, FreshProvider(c), NoWorker)
<1>1. PICK p : p = FreshProvider(c)
  OBVIOUS
<1>2. ProviderOf[c] \in {"local", "remote", "none"} /\ <<>> \in Seq(CallIds)
  BY RowsAssumption
<1>3. p \in Providers /\ ~p.ready /\ ~p.error /\ ~p.isStarting /\ p.starting = <<>>
  BY <1>1, <1>2 DEF FreshProvider, Providers
<1>4. NoWorker \in Threads
  <2>1. <<>> \in Seq(Waits) /\ <<>> \in Seq(Replies)
    OBVIOUS
  <2> QED
    BY <2>1 DEF NoWorker, Threads
<1>5. Knows(p, NoWorker)
  BY <1>3 DEF Knows
<1>6. Waited(n, p, NoWorker)
  BY <1>3 DEF Waited
<1> QED
  BY <1>1, <1>3, <1>4, <1>5, <1>6

LEMMA IdleIs ==
  /\ Idle \in Backfills
  /\ \A r, c, rs : Backs(Idle, r, c) /\ Covers(Idle, rs)
  /\ Idle.todo = <<>> /\ Idle.pc = "idle" /\ Idle.seen = {} /\ ~IsRunning(Idle)
<1>1. <<>> \in Seq(Rows \X Nat)
  OBVIOUS
<1>2. Idle \in Backfills
  BY <1>1 DEF Idle, Backfills
<1>3. Idle.todo = <<>> /\ Idle.pc = "idle" /\ Idle.seen = {} /\ ~IsRunning(Idle)
  BY DEF Idle, IsRunning
<1> QED
  BY <1>2, <1>3 DEF Backs, Covers

\* A comparison that was cut short took vectors away and nothing else.
LEMMA LeftIs ==
  ASSUME TypeInv, NEW rs \in {rows} \cup CutShort
  PROVE  /\ rs \in RowsSet
         /\ \A i \in Rows : rs[i].text = rows[i].text /\ rs[i].vector \in {rows[i].vector, NoVector}
<1>1. rows \in [Rows -> [text : Nat, vector : Vectors]]
  BY DEF TypeInv, RowsSet
<1>2. CASE rs = rows
  BY <1>1, <1>2 DEF RowsSet
<1>3. CASE rs # rows
  <2>1. PICK gone : rs = [i \in Rows |-> IF Table[i] \in gone THEN [rows[i] EXCEPT !.vector = NoVector] ELSE rows[i]]
    BY <1>3 DEF CutShort
  <2>2. NoVector \in Vectors
    BY DEF NoVector, Vectors
  <2>3. ASSUME NEW i \in Rows
        PROVE  /\ rs[i] \in [text : Nat, vector : Vectors]
               /\ rs[i].text = rows[i].text /\ rs[i].vector \in {rows[i].vector, NoVector}
    <3>1. rows[i] \in [text : Nat, vector : Vectors]
      BY <1>1
    <3> QED
      BY <2>1, <2>2, <3>1
  <2> QED
    BY <2>1, <2>3 DEF RowsSet
<1> QED
  BY <1>2, <1>3

LEMMA RestartKeeps ==
  ASSUME IInv, Restart
  PROVE  IInv'
<1>1. PICK c \in Configs : config' = c /\ provider' = FreshProvider(c)
  BY DEF Restart
<1>2. /\ calls' = NoCalls /\ backfill' = [r \in Runners |-> Idle] /\ worker' = NoWorker
      /\ made' = [asked |-> 0, processes |-> made.processes + 1] /\ stored' = stored
      /\ rows' \in {rows} \cup CutShort
  BY DEF Restart
<1>3. TypeInv /\ SpaceInv
  BY DEF IInv
<1>14. /\ rows' \in RowsSet
       /\ \A i \in Rows : rows'[i].vector \in {rows[i].vector, NoVector}
  <2>1. PICK rs : rs = rows'
    OBVIOUS
  <2>2. rs \in {rows} \cup CutShort
    BY <1>2, <2>1
  <2> QED
    BY <1>3, <2>1, <2>2, LeftIs
<1>4. PICK n : n = NoCalls
  OBVIOUS
<1>5. DOMAIN n = {} /\ Typed(n, Calls)
  BY <1>4, NoCallsAre
<1>6. PICK p : p = FreshProvider(c)
  OBVIOUS
<1>7. p \in Providers /\ NoWorker \in Threads /\ Knows(p, NoWorker) /\ Waited(n, p, NoWorker)
  BY <1>5, <1>6, FreshIs
<1>8. Knows(provider', worker') /\ Waited(calls', provider', worker')
  BY <1>1, <1>2, <1>4, <1>6, <1>7
<1>9. made' \in [asked : Nat, processes : Nat]
  <2>1. made.processes + 1 \in Nat
    BY <1>3 DEF TypeInv
  <2> QED
    BY <1>2, <2>1
<1>10. backfill' \in [Runners -> Backfills]
  BY <1>2, IdleIs
<1>11. TypeInv'
  BY <1>1, <1>2, <1>3, <1>4, <1>5, <1>6, <1>7, <1>9, <1>10, <1>14 DEF TypeInv
<1>12. BackfillInv'
  <2>1. \A r \in Runners : backfill'[r] = Idle
    BY <1>2
  <2>2. PICK c2 : c2 = calls'
    OBVIOUS
  <2>3. PICK rs : rs = rows'
    OBVIOUS
  <2>4. \A r \in Runners : Backs(Idle, r, c2) /\ Covers(Idle, rs)
    BY IdleIs
  <2>5. \A r \in Runners : Backs(backfill'[r], r, calls') /\ Covers(backfill'[r], rows')
    BY <2>1, <2>2, <2>3, <2>4
  <2>6. \A r \in Runners : /\ backfill'[r].todo = <<>> /\ backfill'[r].pc = "idle" /\ backfill'[r].seen = {}
                           /\ ~IsRunning(backfill'[r])
    BY <2>1, IdleIs
  <2> QED
    BY <2>5, <2>6 DEF BackfillInv, IsRunning
<1>13. SpaceInv'
  BY <1>2, <1>3, <1>14 DEF SpaceInv, OneSpace, NoVector
<1> QED
  BY <1>8, <1>11, <1>12, <1>13 DEF IInv

LEMMA WorkerActs ==
  ASSUME IInv, WorkerThread \/ WorkerDies
  PROVE  IInv'
<1>1. (WorkerSteps \/ Crashes) /\ UNCHANGED <<config, stored, rows, provider, calls, backfill, made>>
  BY DEF WorkerThread, WorkerDies
<1>2. /\ TypeInv /\ worker \in Threads /\ Knows(provider, worker) /\ Waited(calls, provider, worker)
      /\ Typed(calls, Calls) /\ BackfillInv /\ SpaceInv
  BY DEF IInv, TypeInv
<1>3. PICK p : p = provider
  OBVIOUS
<1>4. PICK c : c = calls
  OBVIOUS
<1>5. Knows(p, worker) /\ Waited(c, p, worker) /\ DOMAIN c \subseteq CallIds
  BY <1>2, <1>3, <1>4 DEF Typed
<1>6. worker' \in Threads /\ Knows(p, worker') /\ Waited(c, p, worker')
  BY <1>1, <1>2, <1>5, WorkerKeeps
<1>7. Knows(provider', worker') /\ Waited(calls', provider', worker')
  BY <1>1, <1>3, <1>4, <1>6
<1>8. TypeInv'
  BY <1>1, <1>2, <1>6 DEF TypeInv
<1>9. BackfillInv'
  BY <1>1, <1>2 DEF BackfillInv
<1>10. SpaceInv'
  BY <1>1, <1>2 DEF SpaceInv, OneSpace
<1> QED
  BY <1>7, <1>8, <1>9, <1>10 DEF IInv

(* ------------------------------ The theorems --------------------------- *)

LEMMA InitIs == Init => IInv
<1> SUFFICES ASSUME Init PROVE IInv
  OBVIOUS
<1>1. /\ config \in Configs /\ stored = NoConfig /\ provider = FreshProvider(config) /\ worker = NoWorker
      /\ rows = [i \in Rows |-> [text |-> IF i \in Backlog THEN 1 ELSE 0, vector |-> NoVector]]
      /\ calls = [id \in {} |-> 0] /\ backfill = [r \in Runners |-> Idle] /\ made = [asked |-> 0, processes |-> 1]
  BY DEF Init
<1>2. DOMAIN calls = {} /\ Typed(calls, Calls)
  BY <1>1 DEF Typed
<1>3. provider \in Providers /\ worker \in Threads /\ Knows(provider, worker) /\ Waited(calls, provider, worker)
  BY <1>1, <1>2, FreshIs
<1>4. rows \in RowsSet /\ \A i \in Rows : rows[i].vector = NoVector
  <2>1. NoVector \in Vectors
    BY DEF NoVector, Vectors
  <2>2. \A i \in Rows : (IF i \in Backlog THEN 1 ELSE 0) \in Nat
    OBVIOUS
  <2> QED
    BY <1>1, <2>1, <2>2 DEF RowsSet
<1>5. backfill \in [Runners -> Backfills]
  BY <1>1, IdleIs
<1>6. TypeInv
  BY <1>1, <1>2, <1>3, <1>4, <1>5 DEF TypeInv
<1>7. BackfillInv
  <2>1. \A r \in Runners : backfill[r] = Idle
    BY <1>1
  <2>2. \A r \in Runners : Backs(backfill[r], r, calls) /\ Covers(backfill[r], rows)
    BY <2>1, IdleIs
  <2>3. \A r \in Runners : /\ backfill[r].todo = <<>> /\ backfill[r].pc = "idle" /\ backfill[r].seen = {}
                           /\ ~IsRunning(backfill[r])
    BY <2>1, IdleIs
  <2> QED
    BY <2>2, <2>3 DEF BackfillInv, IsRunning
<1>8. SpaceInv
  BY <1>4 DEF SpaceInv, OneSpace, NoVector
<1> QED
  BY <1>3, <1>6, <1>7, <1>8 DEF IInv

LEMMA NextIs == IInv /\ [Next]_vars => IInv'
<1> SUFFICES ASSUME IInv, [Next]_vars PROVE IInv'
  OBVIOUS
<1>1. CASE StartupBegins
  BY <1>1, StartupBeginsKeeps
<1>2. CASE DelayEnds
  BY <1>2, DelayEndsKeeps
<1>3. CASE Reindex
  BY <1>3, ReindexKeeps
<1>4. ASSUME NEW i \in Rows, Create(i) \/ Update(i) PROVE IInv'
  BY <1>4, CreateKeeps, UpdateKeeps
<1>5. CASE Query
  BY <1>5, QueryKeeps
<1>6. CASE WorkerStarted
  BY <1>6, WorkerStartedKeeps
<1>7. CASE WorkerNotStarted
  BY <1>7, WorkerNotStartedKeeps
<1>8. CASE Answered
  BY <1>8, AnsweredKeeps
<1>9. CASE WorkerLost
  BY <1>9, WorkerLostKeeps
<1>10. ASSUME NEW id \in DOMAIN calls, RemoteEnds(id) PROVE IInv'
  BY <1>10, RemoteEndsKeeps
<1>11. CASE WorkerThread \/ WorkerDies
  BY <1>11, WorkerActs
<1>12. CASE Restart
  BY <1>12, RestartKeeps
<1>13. CASE UNCHANGED vars
  <2>1. UNCHANGED <<worker, config, stored, rows, provider, calls, backfill, made>>
    BY <1>13 DEF vars
  <2>2. TypeInv' /\ BackfillInv' /\ SpaceInv'
    BY <2>1 DEF IInv, TypeInv, BackfillInv, SpaceInv, OneSpace
  <2>3. Knows(provider', worker') /\ Waited(calls', provider', worker')
    BY <2>1 DEF IInv
  <2> QED
    BY <2>2, <2>3 DEF IInv
<1> QED
  BY <1>1, <1>2, <1>3, <1>4, <1>5, <1>6, <1>7, <1>8, <1>9, <1>10, <1>11, <1>12, <1>13 DEF Next

\* The calls, the tables and the worker keep their shape, and the invariant
\* holds in every reachable state (embedding.ts, embedding-worker.ts).
THEOREM EmbeddingsInvariant == Spec => []IInv
<1>1. Init => IInv
  BY InitIs
<1>2. IInv /\ [Next]_vars => IInv'
  BY NextIs
<1> QED
  BY <1>1, <1>2, PTL DEF Spec

\* No call waits for an answer that cannot come, and no backfill for a call
\* that has ended, whenever the worker dies, its model fails, or the provider
\* is switched (LocalProvider.pendingRequests, backfillEmbeddings).
THEOREM NobodyIsStranded == Spec => []NobodyStranded
<1>1. IInv => NobodyStranded
  <2> SUFFICES ASSUME IInv PROVE NobodyStranded
    OBVIOUS
  <2>1. Typed(calls, Calls) /\ Waited(calls, provider, worker) /\ BackfillInv
    BY DEF IInv, TypeInv
  <2>2. ASSUME NEW id \in DOMAIN calls
        PROVE  /\ calls[id].stage \in {"starting", "waiting", "remote"}
               /\ calls[id].stage = "starting" => provider.isStarting /\ id \in ToSet(provider.starting)
               /\ calls[id].stage = "waiting" => IsAt(worker, id) \/ IsBroken(worker)
    BY <2>1 DEF Typed, Calls, Stages, Waited
  <2>3. \A id : IsAt(worker, id) => IsAtWorker(id)
    BY DEF IsAt, IsAtWorker
  <2>4. ASSUME NEW r \in Runners, IsRunning(backfill[r]) PROVE <<r, backfill[r].batches>> \in DOMAIN calls
    BY <2>1, <2>4 DEF BackfillInv, Backs
  <2> QED
    BY <2>2, <2>3, <2>4 DEF NobodyStranded, IsBroken
<1> QED
  BY <1>1, EmbeddingsInvariant, PTL

\* A vector that was stored after the configurations were compared belongs to
\* the space of the stored one, or is a fallback's (checkConfigChange).
THEOREM OneSpaceHolds == Spec => []OneSpace
<1>1. IInv => OneSpace
  BY DEF IInv, SpaceInv
<1> QED
  BY <1>1, EmbeddingsInvariant, PTL

\* A backfill without a failure has left no row it found without a vector,
\* whatever the sizes of its batches (nextBatch, backfillEmbeddings).
THEOREM BackfillsCover == Spec => []BackfillCovers
<1>1. IInv => BackfillCovers
  <2> SUFFICES ASSUME IInv, NEW r \in Runners, backfill[r].pc = "done", ~backfill[r].failed, NEW i \in backfill[r].seen
               PROVE  rows[i].vector # NoVector
    BY DEF BackfillCovers
  <2>1. Covered(backfill[r], rows) /\ backfill[r].todo = <<>>
    BY DEF IInv, BackfillInv, Covers, IsRunning
  <2>2. ~\E k \in DOMAIN backfill[r].todo : backfill[r].todo[k][1] = i
    BY <2>1
  <2> QED
    BY <2>1, <2>2 DEF Covered
<1> QED
  BY <1>1, EmbeddingsInvariant, PTL

(* ------------------------ The order of the answers --------------------- *)

\* Requests that lie before others: in the messages of the worker, in its
\* hands, in its queue, on their way to it.
IsReply(m, id) == m \in {Reply("result", id), Reply("error", id)}
Told(w, id) == \E m \in DOMAIN w.outbox : IsReply(w.outbox[m], id)
Queued(w, id) == \E m \in DOMAIN w.queue : w.queue[m].id = id

ToldFirst(w, x, y) ==
    \A n \in DOMAIN w.outbox :
        IsReply(w.outbox[n], y) => \E m \in DOMAIN w.outbox : m < n /\ IsReply(w.outbox[m], x)
First(w, x, y) ==
    /\ ToldFirst(w, x, y)
    /\ w.current = y => Told(w, x)
    /\ \A n \in DOMAIN w.queue : w.queue[n].id = y =>
           Told(w, x) \/ w.current = x \/ \E m \in DOMAIN w.queue : m < n /\ w.queue[m].id = x
    /\ \A n \in DOMAIN w.inbox : w.inbox[n].id = y =>
           Told(w, x) \/ w.current = x \/ Queued(w, x) \/ \E m \in DOMAIN w.inbox : m < n /\ w.inbox[m].id = x
StartsFirst(p, x, y) ==
    \A n \in DOMAIN p.starting : p.starting[n] = y => \E m \in DOMAIN p.starting : m < n /\ p.starting[m] = x

\* y makes a vector of a newer text than x, the call of a row.
Outdates(c, x, y) == x[1] \in Rows /\ x[1] \in DOMAIN c[y].texts /\ c[y].texts[x[1]] > x[2]
IsLocal(c, id) == id \in DOMAIN c /\ c[id].stage # "remote"

Sound(w) == w.thread = "running" /\ w.model # "failed"

\* Calls that outdate others come behind them, as long as the worker answers.
LineInv(c, p, w) ==
    /\ Sound(w) => ~IsBroken(w)
    /\ p.ready => p.cached # "remote"
    /\ \A id \in DOMAIN c : c[id].stage = "remote" => p.cached = "remote" \/ p.error
    /\ \A x, y \in DOMAIN c : IsLocal(c, x) /\ IsLocal(c, y) /\ Outdates(c, x, y) =>
           /\ ToldFirst(w, x, y)
           /\ Sound(w) => First(w, x, y)
           /\ StartsFirst(p, x, y)

\* No id comes twice: those in use are of texts that are, of batches sent.
IsUsed(id, rs, b) ==
    /\ id[1] \in Rows => id[2] <= rs[id[1]].text
    /\ id[1] \in Runners => id[2] <= b[id[1]].batches
UsedInv(p, w, rs, b) == \A id \in CallIds : IsAt(w, id) \/ id \in ToSet(p.starting) => IsUsed(id, rs, b)

\* Texts that are embedded, are to be, or have been, are no newer than the row's.
TextInv(c, rs, b) ==
    /\ \A i \in Rows : rs[i].vector.text <= rs[i].text
    /\ \A id \in DOMAIN c : \A i \in DOMAIN c[id].texts : c[id].texts[i] <= rs[i].text
    /\ \A id \in DOMAIN c : id[1] \in Rows => c[id].texts = [i \in {id[1]} |-> id[2]]
    /\ \A id \in DOMAIN c : id[1] = "query" => DOMAIN c[id].texts = {}
    /\ \A r \in Runners : \A k \in DOMAIN b[r].todo : b[r].todo[k][2] <= rs[b[r].todo[k][1]].text

\* Nothing newer has been stored while a row's call is on its way.
AheadInv(c, rs) == \A id \in DOMAIN c : IsLocal(c, id) /\ id[1] \in Rows => rs[id[1]].vector.text <= id[2]

OrderInv ==
    /\ LineInv(calls, provider, worker) /\ UsedInv(provider, worker, rows, backfill)
    /\ TextInv(calls, rows, backfill) /\ AheadInv(calls, rows)

\* A worker's step brings no request that was not there, and keeps the order
\* of those that are not recalls.
Follows(w, v) ==
    /\ \A id \in CallIds : IsAt(v, id) => IsAt(w, id)
    /\ \A x, y \in CallIds : x[1] # "query" /\ y[1] # "query" /\ First(w, x, y) => First(v, x, y)

LEMMA FollowsOn ==
  ASSUME NEW w, NEW u, NEW v, Follows(w, u), Follows(u, v)
  PROVE  Follows(w, v)
BY DEF Follows

LEMMA DrainFollows ==
  ASSUME NEW w \in Threads
  PROVE  Follows(w, Drain(w))
<1>1. CASE w.current # NoId \/ w.queue = <<>>
  BY <1>1 DEF Drain, Follows
<1>2. CASE ~(w.current # NoId \/ w.queue = <<>>)
  <2>1. PICK v : v = Drain(w)
    OBVIOUS
  <2>2. v = [w EXCEPT !.current = Head(w.queue).id, !.queue = Tail(w.queue)]
    BY <1>2, <2>1 DEF Drain
  <2>3. PICK q \in Seq(Waits) : q = w.queue
    BY DEF Threads
  <2>4. PICK t : t = Tail(q)
    OBVIOUS
  <2>5. q # <<>> /\ w.current = NoId
    BY <1>2, <2>3
  <2>6. /\ Head(q) = q[1] /\ t \in Seq(Waits) /\ Len(t) = Len(q) - 1 /\ Len(q) \in Nat \ {0}
        /\ \A i \in 1..Len(t) : t[i] = q[i + 1]
        /\ DOMAIN t = 1..Len(t) /\ DOMAIN q = 1..Len(q)
    BY <2>4, <2>5, HeadTailProperties, LenProperties, EmptySeq
  <2>7. /\ v.current = q[1].id /\ v.queue = t /\ v.inbox = w.inbox /\ v.outbox = w.outbox
    BY <2>2, <2>3, <2>4, <2>6 DEF Threads
  <2>8. \A n \in DOMAIN t : n + 1 \in DOMAIN q /\ t[n] = q[n + 1]
    BY <2>6
  <2>9. \A m \in DOMAIN q : m = 1 \/ (m - 1 \in DOMAIN t /\ t[m - 1] = q[m])
    <3>1. ASSUME NEW m \in DOMAIN q, m # 1 PROVE m - 1 \in DOMAIN t /\ t[m - 1] = q[m]
      <4>1. m - 1 \in 1..Len(t) /\ (m - 1) + 1 = m
        BY <2>6, <3>1
      <4> QED
        BY <2>6, <4>1
    <3> QED
      BY <3>1
  <2>10. 1 \in DOMAIN q
    BY <2>6
  <2>11. ASSUME NEW id \in CallIds, IsAt(v, id) PROVE IsAt(w, id)
    <3>1. CASE v.current = id
      BY <2>3, <2>7, <2>10, <3>1 DEF IsAt
    <3>2. CASE \E n \in DOMAIN v.queue : v.queue[n].id = id
      BY <2>3, <2>7, <2>8, <3>2 DEF IsAt
    <3>3. CASE ~(v.current = id) /\ ~(\E n \in DOMAIN v.queue : v.queue[n].id = id)
      BY <2>7, <2>11, <3>3 DEF IsAt
    <3> QED
      BY <3>1, <3>2, <3>3
  <2>12. ASSUME NEW x \in CallIds, NEW y \in CallIds, First(w, x, y)
         PROVE  First(v, x, y)
    <3>1. w.current # x
      BY <2>5, IdIsNotNoId
    <3>2. ToldFirst(v, x, y) /\ (Told(v, x) <=> Told(w, x))
      BY <2>7, <2>12 DEF First, ToldFirst, Told
    <3>3. \A n \in DOMAIN q : q[n].id = y => Told(w, x) \/ \E m \in DOMAIN q : m < n /\ q[m].id = x
      BY <2>3, <2>12, <3>1 DEF First
    <3>4. ASSUME v.current = y PROVE Told(v, x)
      <4>1. Told(w, x) \/ \E m \in DOMAIN q : m < 1 /\ q[m].id = x
        BY <2>7, <2>10, <3>3, <3>4
      <4>2. \A m \in DOMAIN q : ~(m < 1)
        BY <2>6
      <4> QED
        BY <3>2, <4>1, <4>2
    <3>5. ASSUME NEW n \in DOMAIN t, t[n].id = y
          PROVE  Told(v, x) \/ v.current = x \/ \E m \in DOMAIN t : m < n /\ t[m].id = x
      <4>1. n + 1 \in DOMAIN q /\ q[n + 1].id = y
        BY <2>8, <3>5
      <4>2. CASE Told(w, x)
        BY <3>2, <4>2
      <4>3. CASE ~Told(w, x)
        <5>1. PICK m \in DOMAIN q : m < n + 1 /\ q[m].id = x
          BY <3>3, <4>1, <4>3
        <5>2. CASE m = 1
          BY <2>7, <5>1, <5>2
        <5>3. CASE m # 1
          <6>1. m - 1 \in DOMAIN t /\ t[m - 1] = q[m] /\ m - 1 < n
            BY <2>6, <2>9, <5>1, <5>3
          <6> QED
            BY <5>1, <6>1
        <5> QED
          BY <5>2, <5>3
      <4> QED
        BY <4>2, <4>3
    <3>6. Queued(w, x) => v.current = x \/ Queued(v, x)
      BY <2>3, <2>7, <2>9 DEF Queued
    <3>7. ASSUME NEW n \in DOMAIN w.inbox, w.inbox[n].id = y
          PROVE  Told(v, x) \/ v.current = x \/ Queued(v, x) \/ \E m \in DOMAIN w.inbox : m < n /\ w.inbox[m].id = x
      BY <2>12, <3>1, <3>2, <3>6, <3>7 DEF First
    <3> QED
      BY <2>7, <3>2, <3>4, <3>5, <3>7 DEF First
  <2> QED
    BY <2>1, <2>11, <2>12 DEF Follows
<1> QED
  BY <1>1, <1>2

\* What the worker receives joins its queue behind what is not a recall.
LEMMA ReceivedFollows ==
  ASSUME NEW w \in Threads, w.inbox # <<>>, NEW u,
         u = [w EXCEPT !.inbox = Tail(w.inbox), !.queue = Enqueue(w.queue, Head(w.inbox))]
  PROVE  u \in Threads /\ Follows(w, u)
<1>1. PICK b \in Seq(Waits) : b = w.inbox
  BY DEF Threads
<1>2. PICK q \in Seq(Waits) : q = w.queue
  BY DEF Threads
<1>3. PICK t : t = Tail(b)
  OBVIOUS
<1>4. b # <<>>
  BY <1>1
<1>5. /\ Head(b) \in Waits /\ Head(b) = b[1] /\ t \in Seq(Waits) /\ Len(t) = Len(b) - 1 /\ Len(b) \in Nat \ {0}
      /\ \A i \in 1..Len(t) : t[i] = b[i + 1]
      /\ DOMAIN t = 1..Len(t) /\ DOMAIN b = 1..Len(b) /\ DOMAIN q = 1..Len(q) /\ Len(q) \in Nat
  BY <1>3, <1>4, HeadTailProperties, LenProperties, EmptySeq
<1>6. PICK h \in Waits : h = Head(b)
  BY <1>5
<1>7. PICK e : e = Enqueue(q, h)
  OBVIOUS
<1>8. PICK at \in 1..(Len(q) + 1) : Inserts(q, e, at, h) /\ (h.priority = "high" \/ at = Len(q) + 1)
  BY <1>7, Enqueued
<1>9. e \in Seq(Waits)
  BY <1>7, Enqueued
<1>10. u = [w EXCEPT !.inbox = t, !.queue = e]
  BY <1>1, <1>2, <1>3, <1>6, <1>7
<1>11. u \in Threads /\ u.current = w.current /\ u.outbox = w.outbox /\ u.queue = e /\ u.inbox = t
  BY <1>5, <1>9, <1>10 DEF Threads
<1>12. DOMAIN e = 1..(Len(q) + 1) /\ e[at] = h /\ at \in DOMAIN e
  BY <1>8 DEF Inserts
<1>13. ASSUME NEW n \in DOMAIN e, n # at PROVE \E k \in DOMAIN q : e[n] = q[k] /\ (n = IF k < at THEN k ELSE k + 1)
  <2>1. CASE n < at
    <3>1. n \in 1..(at - 1) /\ n \in DOMAIN q
      BY <1>5, <1>12, <2>1
    <3> QED
      BY <1>8, <2>1, <3>1 DEF Inserts
  <2>2. CASE n > at
    <3>1. n - 1 \in at..Len(q) /\ n - 1 \in DOMAIN q /\ (n - 1) + 1 = n /\ ~(n - 1 < at)
      BY <1>5, <1>12, <2>2
    <3>2. e[(n - 1) + 1] = q[n - 1]
      BY <1>8, <3>1 DEF Inserts
    <3> QED
      BY <3>1, <3>2
  <2>3. n \in Int /\ at \in Int
    BY <1>12
  <2> QED
    BY <1>13, <2>1, <2>2, <2>3
<1>14. ASSUME NEW k \in DOMAIN q
       PROVE  LET n == IF k < at THEN k ELSE k + 1 IN n \in DOMAIN e /\ e[n] = q[k]
  <2>1. CASE k < at
    <3>1. k \in 1..(at - 1) /\ k \in DOMAIN e
      BY <1>5, <1>12, <2>1
    <3> QED
      BY <1>8, <2>1, <3>1 DEF Inserts
  <2>2. CASE ~(k < at)
    <3>1. k \in at..Len(q) /\ k + 1 \in DOMAIN e
      BY <1>5, <1>12, <2>2
    <3> QED
      BY <1>8, <2>2, <3>1 DEF Inserts
  <2> QED
    BY <2>1, <2>2
<1>15. \A n \in DOMAIN t : n + 1 \in DOMAIN b /\ t[n] = b[n + 1]
  BY <1>5
<1>16. ASSUME NEW m \in DOMAIN b, m # 1 PROVE m - 1 \in DOMAIN t /\ t[m - 1] = b[m]
  <2>1. m - 1 \in 1..Len(t) /\ (m - 1) + 1 = m
    BY <1>5, <1>16
  <2> QED
    BY <1>5, <2>1
<1>17. ASSUME NEW id \in CallIds, IsAt(u, id) PROVE IsAt(w, id)
  <2>1. CASE \E n \in DOMAIN e : e[n].id = id
    <3>1. PICK n \in DOMAIN e : e[n].id = id
      BY <2>1
    <3>2. CASE n = at
      <4>1. b[1].id = id /\ 1 \in DOMAIN b
        BY <1>5, <1>6, <1>12, <3>1, <3>2
      <4> QED
        BY <1>1, <4>1 DEF IsAt
    <3>3. CASE n # at
      <4>1. PICK k \in DOMAIN q : e[n] = q[k]
        BY <1>13, <3>3
      <4> QED
        BY <1>2, <3>1, <4>1 DEF IsAt
    <3> QED
      BY <3>2, <3>3
  <2>2. CASE \E n \in DOMAIN t : t[n].id = id
    BY <1>1, <1>15, <2>2 DEF IsAt
  <2>3. CASE ~(\E n \in DOMAIN e : e[n].id = id) /\ ~(\E n \in DOMAIN t : t[n].id = id)
    BY <1>11, <1>17, <2>3 DEF IsAt
  <2> QED
    BY <2>1, <2>2, <2>3
<1>18. ASSUME NEW x \in CallIds, NEW y \in CallIds, x[1] # "query", y[1] # "query", First(w, x, y)
       PROVE  First(u, x, y)
  <2>1. ToldFirst(u, x, y) /\ (Told(u, x) <=> Told(w, x)) /\ (u.current = y => Told(u, x))
    BY <1>11, <1>18 DEF First, ToldFirst, Told
  <2>2. Queued(w, x) => Queued(u, x)
    BY <1>2, <1>11, <1>14 DEF Queued
  <2>3. ASSUME NEW n \in DOMAIN e, e[n].id = y
        PROVE  Told(u, x) \/ u.current = x \/ \E m \in DOMAIN e : m < n /\ e[m].id = x
    <3>1. CASE n = at
      <4>1. h.id = y
        BY <1>12, <2>3, <3>1
      <4>2. h.priority # "high"
        BY <1>18, <4>1 DEF Waits
      <4>3. at = Len(q) + 1
        BY <1>8, <4>2
      <4>4. b[1].id = y /\ 1 \in DOMAIN b
        BY <1>5, <1>6, <4>1
      <4>5. \A m \in DOMAIN b : ~(m < 1)
        BY <1>5
      <4>6. Told(w, x) \/ w.current = x \/ Queued(w, x)
        BY <1>1, <1>18, <4>4, <4>5 DEF First
      <4>7. ASSUME Queued(w, x) PROVE \E m \in DOMAIN e : m < n /\ e[m].id = x
        <5>1. PICK k \in DOMAIN q : q[k].id = x
          BY <1>2, <4>7 DEF Queued
        <5>2. k < at
          BY <1>5, <4>3, <5>1
        <5>3. k \in DOMAIN e /\ e[k] = q[k]
          BY <1>14, <5>1, <5>2
        <5> QED
          BY <3>1, <5>1, <5>2, <5>3
      <4> QED
        BY <1>11, <2>1, <4>6, <4>7
    <3>2. CASE n # at
      <4>1. PICK k \in DOMAIN q : e[n] = q[k] /\ (n = IF k < at THEN k ELSE k + 1)
        BY <1>13, <3>2
      <4>2. q[k].id = y
        BY <2>3, <4>1
      <4>3. Told(w, x) \/ w.current = x \/ \E m \in DOMAIN q : m < k /\ q[m].id = x
        BY <1>2, <1>18, <4>2 DEF First
      <4>4. ASSUME NEW m \in DOMAIN q, m < k, q[m].id = x PROVE \E j \in DOMAIN e : j < n /\ e[j].id = x
        <5>1. PICK j : j = IF m < at THEN m ELSE m + 1
          OBVIOUS
        <5>2. j \in DOMAIN e /\ e[j] = q[m]
          BY <1>14, <5>1
        <5>3. j < n
          BY <1>5, <4>1, <4>4, <5>1
        <5> QED
          BY <4>4, <5>2, <5>3
      <4> QED
        BY <1>11, <2>1, <4>3, <4>4
    <3> QED
      BY <3>1, <3>2
  <2>4. ASSUME NEW n \in DOMAIN t, t[n].id = y
        PROVE  Told(u, x) \/ u.current = x \/ Queued(u, x) \/ \E m \in DOMAIN t : m < n /\ t[m].id = x
    <3>1. n + 1 \in DOMAIN b /\ b[n + 1].id = y
      BY <1>15, <2>4
    <3>2. Told(w, x) \/ w.current = x \/ Queued(w, x) \/ \E m \in DOMAIN b : m < n + 1 /\ b[m].id = x
      BY <1>1, <1>18, <3>1 DEF First
    <3>3. ASSUME NEW m \in DOMAIN b, m < n + 1, b[m].id = x
          PROVE  Queued(u, x) \/ \E j \in DOMAIN t : j < n /\ t[j].id = x
      <4>1. CASE m = 1
        <5>1. e[at].id = x
          BY <1>5, <1>6, <1>12, <3>3, <4>1
        <5> QED
          BY <1>11, <1>12, <5>1 DEF Queued
      <4>2. CASE m # 1
        <5>1. m - 1 \in DOMAIN t /\ t[m - 1] = b[m] /\ m - 1 < n
          BY <1>5, <1>16, <3>3, <4>2
        <5> QED
          BY <3>3, <5>1
      <4> QED
        BY <4>1, <4>2
    <3> QED
      BY <1>11, <2>1, <2>2, <3>2, <3>3
  <2> QED
    BY <1>11, <2>1, <2>3, <2>4 DEF First
<1> QED
  BY <1>11, <1>17, <1>18 DEF Follows

\* An answer is told where the request was processed.
LEMMA RepliedFollows ==
  ASSUME NEW w \in Threads, w.current # NoId, NEW type \in {"result", "error"}, NEW u,
         u = [w EXCEPT !.outbox = Append(w.outbox, Reply(type, w.current)), !.current = NoId]
  PROVE  u \in Threads /\ Follows(w, u) /\ (~IsBroken(w) => ~IsBroken(u))
<1>1. PICK o \in Seq(Replies) : o = w.outbox
  BY DEF Threads
<1>2. PICK h : h = Reply(type, w.current)
  OBVIOUS
<1>3. h \in Replies /\ h.type = type /\ h.id = w.current
  BY <1>2 DEF Reply, Replies, Threads
<1>4. PICK a : a = Append(o, h)
  OBVIOUS
<1>5. /\ a \in Seq(Replies) /\ DOMAIN a = 1..(Len(o) + 1) /\ DOMAIN o = 1..Len(o) /\ Len(o) \in Nat
      /\ a[Len(o) + 1] = h /\ \A n \in 1..Len(o) : a[n] = o[n]
  BY <1>3, <1>4, AppendProperties, LenProperties
<1>6. u = [w EXCEPT !.outbox = a, !.current = NoId]
  BY <1>1, <1>2, <1>4
<1>7. /\ u \in Threads /\ u.outbox = a /\ u.current = NoId /\ u.queue = w.queue /\ u.inbox = w.inbox
  BY <1>5, <1>6 DEF Threads
<1>8. \A n \in DOMAIN o : n \in DOMAIN a /\ a[n] = o[n]
  BY <1>5
<1>9. \A n \in DOMAIN a : n = Len(o) + 1 \/ n \in DOMAIN o
  BY <1>5
<1>10. \A id : IsReply(h, id) <=> id = w.current
  BY <1>2 DEF IsReply, Reply
<1>11. ASSUME NEW id PROVE Told(u, id) <=> Told(w, id) \/ id = w.current
  BY <1>1, <1>5, <1>7, <1>8, <1>9, <1>10 DEF Told
<1>12. ASSUME NEW id \in CallIds, IsAt(u, id) PROVE IsAt(w, id)
  <2>1. u.current # id
    BY <1>7, IdIsNotNoId
  <2>2. CASE Told(u, id)
    <3>1. Told(w, id) \/ id = w.current
      BY <1>11, <2>2
    <3> QED
      BY <3>1 DEF Told, IsReply, IsAt
  <2>3. CASE ~Told(u, id)
    BY <1>7, <1>12, <2>1, <2>3 DEF Told, IsReply, IsAt
  <2> QED
    BY <2>2, <2>3
<1>13. ASSUME NEW x \in CallIds, NEW y \in CallIds, First(w, x, y) PROVE First(u, x, y)
  <2>1. u.current # y /\ u.current # x
    BY <1>7, IdIsNotNoId
  <2>2. ASSUME NEW n \in DOMAIN a, IsReply(a[n], y) PROVE \E m \in DOMAIN a : m < n /\ IsReply(a[m], x)
    <3>1. CASE n = Len(o) + 1
      <4>1. w.current = y
        BY <1>5, <1>10, <2>2, <3>1
      <4>2. PICK m \in DOMAIN o : IsReply(o[m], x)
        BY <1>1, <1>13, <4>1 DEF First, Told
      <4>3. m \in DOMAIN a /\ a[m] = o[m] /\ m < n
        BY <1>5, <1>8, <3>1
      <4> QED
        BY <4>2, <4>3
    <3>2. CASE n # Len(o) + 1
      <4>1. n \in DOMAIN o /\ IsReply(o[n], y)
        BY <1>8, <1>9, <2>2, <3>2
      <4>2. PICK m \in DOMAIN o : m < n /\ IsReply(o[m], x)
        BY <1>1, <1>13, <4>1 DEF First, ToldFirst
      <4> QED
        BY <1>8, <4>2
    <3> QED
      BY <3>1, <3>2
  <2>3. Told(w, x) \/ w.current = x => Told(u, x)
    BY <1>11
  <2>4. Queued(w, x) <=> Queued(u, x)
    BY <1>7 DEF Queued
  <2>5. \A n \in DOMAIN w.queue : w.queue[n].id = y =>
           Told(u, x) \/ \E m \in DOMAIN w.queue : m < n /\ w.queue[m].id = x
    BY <1>13, <2>3 DEF First
  <2>6. \A n \in DOMAIN w.inbox : w.inbox[n].id = y =>
           Told(u, x) \/ Queued(u, x) \/ \E m \in DOMAIN w.inbox : m < n /\ w.inbox[m].id = x
    BY <1>13, <2>3, <2>4 DEF First
  <2> QED
    BY <1>7, <2>1, <2>2, <2>5, <2>6 DEF First, ToldFirst
<1>14. ASSUME ~IsBroken(w) PROVE ~IsBroken(u)
  <2>1. \A n \in DOMAIN o : o[n].type \notin {"init-error", "crash"}
    BY <1>1, <1>14 DEF IsBroken
  <2>2. \A n \in DOMAIN a : a[n].type \notin {"init-error", "crash"}
    BY <1>3, <1>5, <1>8, <1>9, <2>1
  <2> QED
    BY <1>7, <2>2 DEF IsBroken
<1> QED
  BY <1>7, <1>12, <1>13, <1>14 DEF Follows

\* The news that the worker answers no more follows its answers.
LEMMA NewsFollows ==
  ASSUME NEW w \in Threads, NEW type \in {"init-error", "crash"}, NEW v, v.outbox = Append(w.outbox, Reply(type, NoId))
  PROVE  /\ \A id : Told(v, id) <=> Told(w, id)
         /\ \A x, y : ToldFirst(w, x, y) => ToldFirst(v, x, y)
<1>1. PICK o \in Seq(Replies) : o = w.outbox
  BY DEF Threads
<1>2. PICK h : h = Reply(type, NoId)
  OBVIOUS
<1>3. h \in Replies
  BY <1>2 DEF Reply, Replies
<1>4. PICK a : a = Append(o, h)
  OBVIOUS
<1>5. /\ DOMAIN a = 1..(Len(o) + 1) /\ DOMAIN o = 1..Len(o) /\ Len(o) \in Nat
      /\ a[Len(o) + 1] = h /\ \A n \in 1..Len(o) : a[n] = o[n]
  BY <1>3, <1>4, AppendProperties, LenProperties
<1>6. v.outbox = a
  BY <1>1, <1>2, <1>4
<1>7. \A n \in DOMAIN o : n \in DOMAIN a /\ a[n] = o[n]
  BY <1>5
<1>8. \A id : ~IsReply(h, id)
  BY <1>2 DEF IsReply, Reply
<1>9. \A n \in DOMAIN a : \A id : IsReply(a[n], id) => n \in DOMAIN o
  BY <1>5, <1>8
<1> QED
  BY <1>1, <1>6, <1>7, <1>9 DEF Told, ToldFirst

\* What a step of the worker leaves of the order.
Orders(w, v) ==
    /\ \A id \in CallIds : IsAt(v, id) => IsAt(w, id)
    /\ \A x, y \in CallIds : x[1] # "query" /\ y[1] # "query" /\ ToldFirst(w, x, y) /\ (Sound(w) => First(w, x, y)) =>
           ToldFirst(v, x, y) /\ (Sound(v) => First(v, x, y))
    /\ (Sound(w) => ~IsBroken(w)) => (Sound(v) => ~IsBroken(v))

LEMMA ReceivesOrders ==
  ASSUME worker \in Threads, Receives
  PROVE  Orders(worker, worker')
<1>1. PICK w \in Threads : w = worker
  OBVIOUS
<1>2. PICK v : v = worker'
  OBVIOUS
<1>3. PICK u : u = [w EXCEPT !.inbox = Tail(w.inbox), !.queue = Enqueue(w.queue, Head(w.inbox))]
  OBVIOUS
<1>4. w.inbox # <<>> /\ v = Drain(u)
  BY <1>1, <1>2, <1>3 DEF Receives
<1>5. u \in Threads /\ Follows(w, u)
  BY <1>3, <1>4, ReceivedFollows
<1>6. Follows(u, v) /\ v.thread = u.thread /\ v.model = u.model /\ v.outbox = u.outbox
  BY <1>4, <1>5, DrainFollows, Drained
<1>7. Follows(w, v)
  BY <1>5, <1>6, FollowsOn
<1>8. u.thread = w.thread /\ u.model = w.model /\ u.outbox = w.outbox
  BY <1>3 DEF Threads
<1>9. (Sound(v) <=> Sound(w)) /\ (IsBroken(v) <=> IsBroken(w)) /\ \A x, y : ToldFirst(v, x, y) <=> ToldFirst(w, x, y)
  BY <1>6, <1>8 DEF Sound, IsBroken, ToldFirst
<1> QED
  BY <1>1, <1>2, <1>7, <1>9 DEF Orders, Follows

LEMMA ModelOrders ==
  ASSUME worker \in Threads, ModelLoads \/ ModelFails \/ Drops
  PROVE  Orders(worker, worker')
<1>1. PICK w \in Threads : w = worker
  OBVIOUS
<1>2. PICK v : v = worker'
  OBVIOUS
<1>3. CASE ModelLoads
  <2>1. v = [w EXCEPT !.model = "loaded"] /\ w.thread = "running" /\ w.model = "unloaded"
    BY <1>1, <1>2, <1>3 DEF ModelLoads, IsLoading
  <2>2. /\ v.outbox = w.outbox /\ v.queue = w.queue /\ v.inbox = w.inbox /\ v.current = w.current /\ Sound(w)
    BY <2>1 DEF Threads, Sound
  <2> QED
    BY <1>1, <1>2, <2>2 DEF Orders, First, ToldFirst, Told, Queued, IsAt, IsBroken
<1>4. CASE ModelFails
  <2>1. PICK a : a = Append(w.outbox, Reply("init-error", NoId))
    OBVIOUS
  <2>2. PICK u : u = [w EXCEPT !.model = "failed", !.outbox = a, !.current = NoId]
    OBVIOUS
  <2>3. v = Drain(u)
    BY <1>1, <1>2, <1>4, <2>1, <2>2 DEF ModelFails, Done, Threads
  <2>4. u \in Threads
    <3>1. Reply("init-error", NoId) \in Replies /\ w.outbox \in Seq(Replies)
      BY DEF Reply, Replies, Threads
    <3>2. a \in Seq(Replies)
      BY <2>1, <3>1
    <3> QED
      BY <2>2, <3>2 DEF Threads
  <2>5. /\ u.outbox = a /\ u.model = "failed" /\ u.current = NoId /\ u.queue = w.queue /\ u.inbox = w.inbox
    BY <2>2 DEF Threads
  <2>6. Follows(u, v) /\ v.model = "failed" /\ v.outbox = a
    BY <2>3, <2>4, <2>5, DrainFollows, Drained
  <2>7. /\ \A id : Told(u, id) <=> Told(w, id)
        /\ \A x, y : ToldFirst(w, x, y) => ToldFirst(u, x, y)
    BY <2>1, <2>5, NewsFollows
  <2>8. ASSUME NEW id \in CallIds, IsAt(v, id) PROVE IsAt(w, id)
    <3>1. IsAt(u, id) /\ u.current # id
      BY <2>5, <2>6, <2>8, IdIsNotNoId DEF Follows
    <3>2. Told(u, id) \/ (\E n \in DOMAIN w.queue : w.queue[n].id = id) \/ (\E n \in DOMAIN w.inbox : w.inbox[n].id = id)
      BY <2>5, <3>1 DEF IsAt, Told, IsReply
    <3>3. Told(w, id) => IsAt(w, id)
      BY DEF IsAt, Told, IsReply
    <3> QED
      BY <2>7, <3>2, <3>3 DEF IsAt
  <2>9. ~Sound(v) /\ \A x, y : ToldFirst(w, x, y) => ToldFirst(v, x, y)
    BY <2>5, <2>6, <2>7 DEF Sound, ToldFirst
  <2> QED
    BY <1>1, <1>2, <2>8, <2>9 DEF Orders
<1>5. CASE Drops
  <2>1. PICK u : u = [w EXCEPT !.current = NoId]
    OBVIOUS
  <2>2. v = Drain(u) /\ w.model = "failed"
    BY <1>1, <1>2, <1>5, <2>1 DEF Drops, Done
  <2>3. u \in Threads /\ u.outbox = w.outbox /\ u.model = w.model /\ u.current = NoId /\ u.queue = w.queue /\ u.inbox = w.inbox
    BY <2>1 DEF Threads
  <2>4. Follows(u, v) /\ v.model = "failed" /\ v.outbox = w.outbox
    BY <2>2, <2>3, DrainFollows, Drained
  <2>5. ASSUME NEW id \in CallIds, IsAt(v, id) PROVE IsAt(w, id)
    <3>1. IsAt(u, id) /\ u.current # id
      BY <2>3, <2>4, <2>5, IdIsNotNoId DEF Follows
    <3> QED
      BY <2>3, <3>1 DEF IsAt
  <2>6. ~Sound(v) /\ \A x, y : ToldFirst(w, x, y) => ToldFirst(v, x, y)
    BY <2>4 DEF Sound, ToldFirst
  <2> QED
    BY <1>1, <1>2, <2>5, <2>6 DEF Orders
<1> QED
  BY <1>3, <1>4, <1>5

LEMMA ProcessesOrders ==
  ASSUME worker \in Threads, Processes
  PROVE  Orders(worker, worker')
<1>1. PICK w \in Threads : w = worker
  OBVIOUS
<1>2. PICK v : v = worker'
  OBVIOUS
<1>3. /\ w.thread = "running" /\ w.current # NoId /\ w.model = "loaded"
      /\ \E type \in {"result", "error"} : v = Done([w EXCEPT !.outbox = Append(@, Reply(type, w.current))])
  BY <1>1, <1>2 DEF Processes
<1>4. PICK type \in {"result", "error"} : v = Done([w EXCEPT !.outbox = Append(@, Reply(type, w.current))])
  BY <1>3
<1>5. PICK u : u = [w EXCEPT !.outbox = Append(w.outbox, Reply(type, w.current)), !.current = NoId]
  OBVIOUS
<1>6. v = Drain(u)
  BY <1>4, <1>5 DEF Done, Threads
<1>7. u \in Threads /\ Follows(w, u) /\ (~IsBroken(w) => ~IsBroken(u))
  BY <1>3, <1>5, RepliedFollows
<1>8. Follows(u, v) /\ v.outbox = u.outbox
  BY <1>6, <1>7, DrainFollows, Drained
<1>9. Follows(w, v) /\ (~IsBroken(w) => ~IsBroken(v))
  BY <1>7, <1>8, FollowsOn DEF IsBroken
<1>10. Sound(w)
  BY <1>3 DEF Sound
<1> QED
  BY <1>1, <1>2, <1>9, <1>10 DEF Orders, Follows, First

LEMMA CrashesOrders ==
  ASSUME worker \in Threads, Crashes
  PROVE  Orders(worker, worker')
<1>1. PICK w \in Threads : w = worker
  OBVIOUS
<1>2. PICK v : v = worker'
  OBVIOUS
<1>3. PICK a : a = Append(w.outbox, Reply("crash", NoId))
  OBVIOUS
<1>4. v = [NoWorker EXCEPT !.thread = "ended", !.outbox = a]
  BY <1>1, <1>2, <1>3 DEF Crashes
<1>5. v.thread = "ended" /\ v.outbox = a /\ v.current = NoId /\ v.queue = <<>> /\ v.inbox = <<>>
  BY <1>4 DEF NoWorker
<1>6. /\ \A id : Told(v, id) <=> Told(w, id)
      /\ \A x, y : ToldFirst(w, x, y) => ToldFirst(v, x, y)
  BY <1>3, <1>5, NewsFollows
<1>7. ASSUME NEW id \in CallIds, IsAt(v, id) PROVE IsAt(w, id)
  <2>1. v.current # id
    BY <1>5, IdIsNotNoId
  <2>2. Told(v, id)
    BY <1>5, <1>7, <2>1 DEF IsAt, Told, IsReply
  <2> QED
    BY <1>6, <2>2 DEF IsAt, Told, IsReply
<1>8. ~Sound(v)
  BY <1>5 DEF Sound
<1> QED
  BY <1>1, <1>2, <1>6, <1>7, <1>8 DEF Orders

LEMMA WorkerOrders ==
  ASSUME worker \in Threads, WorkerSteps \/ Crashes
  PROVE  Orders(worker, worker')
BY ReceivesOrders, ModelOrders, ProcessesOrders, CrashesOrders DEF WorkerSteps

(* ----------------------- The order of the main thread ------------------ *)

\* Calls that end, or go on elsewhere, leave the others in their order.
LEMMA LineShrinks ==
  ASSUME NEW c, NEW p, NEW w, LineInv(c, p, w),
         NEW d, DOMAIN d \subseteq DOMAIN c, \A id \in DOMAIN d : d[id].texts = c[id].texts,
         \A id \in DOMAIN d : IsLocal(d, id) => IsLocal(c, id),
         NEW q, q.starting = p.starting \/ q.starting = <<>>,
         q.ready => q.cached # "remote",
         \A id \in DOMAIN d : d[id].stage = "remote" => q.cached = "remote" \/ q.error
  PROVE  LineInv(d, q, w)
<1>1. ASSUME NEW x \in DOMAIN d, NEW y \in DOMAIN d, IsLocal(d, x), IsLocal(d, y), Outdates(d, x, y)
      PROVE  /\ ToldFirst(w, x, y)
             /\ Sound(w) => First(w, x, y)
             /\ StartsFirst(q, x, y)
  <2>1. x \in DOMAIN c /\ y \in DOMAIN c /\ IsLocal(c, x) /\ IsLocal(c, y) /\ Outdates(c, x, y)
    BY <1>1 DEF Outdates
  <2>2. ToldFirst(w, x, y) /\ (Sound(w) => First(w, x, y)) /\ StartsFirst(p, x, y)
    BY <2>1 DEF LineInv
  <2>3. StartsFirst(q, x, y)
    <3>1. CASE q.starting = p.starting
      BY <2>2, <3>1 DEF StartsFirst
    <3>2. CASE q.starting = <<>>
      BY <3>2 DEF StartsFirst
    <3> QED
      BY <3>1, <3>2
  <2> QED
    BY <2>2, <2>3
<1> QED
  BY <1>1 DEF LineInv

\* A message is read: what it does not answer keeps its place.
LEMMA DeliveredOrders ==
  ASSUME worker \in Threads, worker.outbox # <<>>,
         NEW c, DOMAIN c \subseteq CallIds, NEW p, LineInv(c, p, worker),
         \A id \in DOMAIN c : IsLocal(c, id) => ~IsReply(Head(worker.outbox), id)
  PROVE  LineInv(c, p, Delivered) /\ \A id : IsAt(Delivered, id) => IsAt(worker, id)
<1>1. PICK w \in Threads : w = worker
  OBVIOUS
<1>2. PICK v : v = Delivered
  OBVIOUS
<1>3. PICK o \in Seq(Replies) : o = w.outbox
  BY DEF Threads
<1>4. PICK t : t = Tail(o)
  OBVIOUS
<1>5. o # <<>>
  BY <1>1, <1>3
<1>6. /\ Head(o) = o[1] /\ Len(t) = Len(o) - 1 /\ Len(o) \in Nat \ {0} /\ t \in Seq(Replies)
      /\ \A i \in 1..Len(t) : t[i] = o[i + 1]
      /\ DOMAIN t = 1..Len(t) /\ DOMAIN o = 1..Len(o)
  BY <1>4, <1>5, HeadTailProperties, LenProperties, EmptySeq
<1>7. v = [w EXCEPT !.outbox = t]
  BY <1>1, <1>2, <1>3, <1>4 DEF Delivered
<1>8. /\ v.outbox = t /\ v.thread = w.thread /\ v.model = w.model /\ v.current = w.current /\ v.queue = w.queue
      /\ v.inbox = w.inbox
  BY <1>7 DEF Threads
<1>9. \A n \in DOMAIN t : n + 1 \in DOMAIN o /\ t[n] = o[n + 1]
  BY <1>6
<1>10. \A m \in DOMAIN o : m = 1 \/ (m - 1 \in DOMAIN t /\ t[m - 1] = o[m])
  <2>1. ASSUME NEW m \in DOMAIN o, m # 1 PROVE m - 1 \in DOMAIN t /\ t[m - 1] = o[m]
    <3>1. m - 1 \in 1..Len(t) /\ (m - 1) + 1 = m
      BY <1>6, <2>1
    <3> QED
      BY <1>6, <3>1
  <2> QED
    BY <2>1
<1>11. ASSUME NEW x \in DOMAIN c, IsLocal(c, x) PROVE Told(w, x) <=> Told(v, x)
  <2>1. ~IsReply(o[1], x)
    BY <1>1, <1>3, <1>6, <1>11
  <2> QED
    BY <1>3, <1>8, <1>9, <1>10, <2>1 DEF Told
<1>12. ASSUME NEW x \in DOMAIN c, NEW y \in DOMAIN c, IsLocal(c, x), IsLocal(c, y), ToldFirst(w, x, y)
       PROVE  ToldFirst(v, x, y)
  <2>1. ASSUME NEW n \in DOMAIN t, IsReply(t[n], y) PROVE \E m \in DOMAIN t : m < n /\ IsReply(t[m], x)
    <3>1. n + 1 \in DOMAIN o /\ IsReply(o[n + 1], y)
      BY <1>9, <2>1
    <3>2. PICK m \in DOMAIN o : m < n + 1 /\ IsReply(o[m], x)
      BY <1>3, <1>12, <3>1 DEF ToldFirst
    <3>3. m # 1
      BY <1>1, <1>3, <1>6, <1>12, <3>2
    <3>4. m - 1 \in DOMAIN t /\ t[m - 1] = o[m] /\ m - 1 < n
      BY <1>6, <1>10, <3>2, <3>3
    <3> QED
      BY <3>2, <3>4
  <2> QED
    BY <1>8, <2>1 DEF ToldFirst
<1>13. ASSUME NEW x \in DOMAIN c, NEW y \in DOMAIN c, IsLocal(c, x), IsLocal(c, y), First(w, x, y)
       PROVE  First(v, x, y)
  <2>1. ToldFirst(v, x, y) /\ (Told(w, x) <=> Told(v, x)) /\ (Queued(w, x) <=> Queued(v, x))
    BY <1>8, <1>11, <1>12, <1>13 DEF First, Queued
  <2> QED
    BY <1>8, <1>13, <2>1 DEF First
<1>14. Sound(v) <=> Sound(w)
  BY <1>8 DEF Sound
<1>15. IsBroken(v) => IsBroken(w)
  BY <1>3, <1>8, <1>9 DEF IsBroken
<1>16. LineInv(c, p, v)
  BY <1>1, <1>12, <1>13, <1>14, <1>15 DEF LineInv
<1>17. ASSUME NEW id, IsAt(v, id) PROVE IsAt(w, id)
  BY <1>3, <1>8, <1>9, <1>17 DEF IsAt
<1> QED
  BY <1>1, <1>2, <1>16, <1>17

\* What is posted comes behind what is with the worker.
LEMMA PostedOrders ==
  ASSUME NEW w \in Threads, NEW q \in Seq(Waits), NEW v, v = Posted(w, q)
  PROVE  /\ (Sound(v) <=> Sound(w)) /\ (IsBroken(v) <=> IsBroken(w))
         /\ \A id : Told(v, id) <=> Told(w, id)
         /\ \A x, y : ToldFirst(v, x, y) <=> ToldFirst(w, x, y)
         /\ \A id : IsAt(v, id) => IsAt(w, id) \/ \E n \in DOMAIN q : q[n].id = id
         /\ \A x, y : First(w, x, y) /\ (\A n \in DOMAIN q : q[n].id # y) => First(v, x, y)
         /\ \A x, y \in CallIds : ~IsAt(w, y) /\ IsAt(w, x) => First(v, x, y)
<1>1. PICK b \in Seq(Waits) : b = w.inbox
  BY DEF Threads
<1>2. PICK a : a = b \o q
  OBVIOUS
<1>3. /\ a \in Seq(Waits) /\ Len(a) = Len(b) + Len(q) /\ Len(b) \in Nat /\ Len(q) \in Nat
      /\ \A k \in 1..(Len(b) + Len(q)) : a[k] = IF k <= Len(b) THEN b[k] ELSE q[k - Len(b)]
      /\ DOMAIN a = 1..(Len(b) + Len(q)) /\ DOMAIN b = 1..Len(b) /\ DOMAIN q = 1..Len(q)
  BY <1>2, ConcatProperties, LenProperties
<1>4. v = [w EXCEPT !.inbox = a]
  BY <1>1, <1>2 DEF Posted
<1>5. /\ v.inbox = a /\ v.outbox = w.outbox /\ v.thread = w.thread /\ v.model = w.model /\ v.current = w.current
      /\ v.queue = w.queue
  BY <1>4 DEF Threads
<1>6. \A k \in DOMAIN b : k \in DOMAIN a /\ a[k] = b[k]
  <2>1. ASSUME NEW k \in DOMAIN b PROVE k \in 1..(Len(b) + Len(q)) /\ k <= Len(b)
    BY <1>3
  <2> QED
    BY <1>3, <2>1
<1>7. \A k \in DOMAIN a : k \in DOMAIN b \/ ((\A m \in DOMAIN b : m < k) /\ \E n \in DOMAIN q : a[k] = q[n])
  <2>1. ASSUME NEW k \in DOMAIN a, k \notin DOMAIN b
        PROVE  (\A m \in DOMAIN b : m < k) /\ \E n \in DOMAIN q : a[k] = q[n]
    <3>1. ~(k <= Len(b)) /\ k \in 1..(Len(b) + Len(q)) /\ k - Len(b) \in DOMAIN q
      BY <1>3, <2>1
    <3>2. a[k] = q[k - Len(b)]
      BY <1>3, <3>1
    <3>3. \A m \in DOMAIN b : m < k
      BY <1>3, <3>1
    <3> QED
      BY <3>1, <3>2, <3>3
  <2> QED
    BY <2>1
<1>8. (Sound(v) <=> Sound(w)) /\ (IsBroken(v) <=> IsBroken(w))
  BY <1>5 DEF Sound, IsBroken
<1>9. /\ \A id : (Told(v, id) <=> Told(w, id)) /\ (Queued(v, id) <=> Queued(w, id))
      /\ \A x, y : ToldFirst(v, x, y) <=> ToldFirst(w, x, y)
  BY <1>5 DEF Told, Queued, ToldFirst
<1>10. ASSUME NEW id, IsAt(v, id) PROVE IsAt(w, id) \/ \E n \in DOMAIN q : q[n].id = id
  <2>1. CASE \E k \in DOMAIN a : a[k].id = id
    <3>1. PICK k \in DOMAIN a : a[k].id = id
      BY <2>1
    <3>2. CASE k \in DOMAIN b
      BY <1>1, <1>6, <3>1, <3>2 DEF IsAt
    <3>3. CASE k \notin DOMAIN b
      BY <1>7, <3>1, <3>3
    <3> QED
      BY <3>2, <3>3
  <2>2. CASE ~\E k \in DOMAIN a : a[k].id = id
    BY <1>5, <1>10, <2>2 DEF IsAt
  <2> QED
    BY <2>1, <2>2
<1>11. ASSUME NEW x, NEW y, First(w, x, y), \A n \in DOMAIN q : q[n].id # y PROVE First(v, x, y)
  <2>1. ASSUME NEW k \in DOMAIN a, a[k].id = y
        PROVE  Told(v, x) \/ v.current = x \/ Queued(v, x) \/ \E m \in DOMAIN a : m < k /\ a[m].id = x
    <3>1. k \in DOMAIN b /\ b[k].id = y
      BY <1>6, <1>7, <1>11, <2>1
    <3>2. Told(w, x) \/ w.current = x \/ Queued(w, x) \/ \E m \in DOMAIN b : m < k /\ b[m].id = x
      BY <1>1, <1>11, <3>1 DEF First
    <3> QED
      BY <1>5, <1>6, <1>9, <3>2
  <2> QED
    BY <1>5, <1>9, <1>11, <2>1 DEF First
<1>12. ASSUME NEW x \in CallIds, NEW y \in CallIds, ~IsAt(w, y), IsAt(w, x) PROVE First(v, x, y)
  <2>1. /\ w.current # y /\ (\A n \in DOMAIN w.queue : w.queue[n].id # y) /\ (\A n \in DOMAIN b : b[n].id # y)
        /\ \A n \in DOMAIN w.outbox : ~IsReply(w.outbox[n], y)
    BY <1>1, <1>12 DEF IsAt, IsReply
  <2>2. Told(w, x) \/ w.current = x \/ Queued(w, x) \/ \E m \in DOMAIN b : b[m].id = x
    BY <1>1, <1>12 DEF IsAt, IsReply, Told, Queued
  <2>3. ASSUME NEW k \in DOMAIN a, a[k].id = y
        PROVE  Told(v, x) \/ v.current = x \/ Queued(v, x) \/ \E m \in DOMAIN a : m < k /\ a[m].id = x
    <3>1. k \notin DOMAIN b
      BY <1>6, <2>1, <2>3
    <3> QED
      BY <1>5, <1>6, <1>7, <1>9, <2>2, <3>1
  <2> QED
    BY <1>5, <2>1, <2>3 DEF First, ToldFirst
<1> QED
  BY <1>8, <1>9, <1>10, <1>11, <1>12

\* One list behind another.
Joins(a, b, q) ==
    /\ \A k \in DOMAIN b : k \in DOMAIN a /\ a[k] = b[k]
    /\ \A k \in DOMAIN a : k \in DOMAIN b \/ ((\A m \in DOMAIN b : m < k) /\ \E n \in DOMAIN q : a[k] = q[n])

LEMMA JoinedIs ==
  ASSUME NEW b \in Seq(CallIds), NEW q \in Seq(CallIds), NEW a, a = b \o q
  PROVE  Joins(a, b, q)
<1>1. /\ Len(a) = Len(b) + Len(q) /\ Len(b) \in Nat /\ Len(q) \in Nat
      /\ \A k \in 1..(Len(b) + Len(q)) : a[k] = IF k <= Len(b) THEN b[k] ELSE q[k - Len(b)]
      /\ DOMAIN a = 1..(Len(b) + Len(q)) /\ DOMAIN b = 1..Len(b) /\ DOMAIN q = 1..Len(q)
  <2>1. a \in Seq(CallIds) /\ Len(a) = Len(b) + Len(q)
        /\ \A k \in 1..(Len(b) + Len(q)) : a[k] = IF k <= Len(b) THEN b[k] ELSE q[k - Len(b)]
    BY ConcatProperties
  <2> QED
    BY <2>1, LenProperties
<1>2. ASSUME NEW k \in DOMAIN b PROVE k \in DOMAIN a /\ a[k] = b[k]
  <2>1. k \in 1..(Len(b) + Len(q)) /\ k <= Len(b)
    BY <1>1
  <2> QED
    BY <1>1, <2>1
<1>3. ASSUME NEW k \in DOMAIN a, k \notin DOMAIN b
      PROVE  (\A m \in DOMAIN b : m < k) /\ \E n \in DOMAIN q : a[k] = q[n]
  <2>1. ~(k <= Len(b)) /\ k \in 1..(Len(b) + Len(q)) /\ k - Len(b) \in DOMAIN q
    BY <1>1, <1>3
  <2>2. a[k] = q[k - Len(b)]
    BY <1>1, <2>1
  <2>3. \A m \in DOMAIN b : m < k
    BY <1>1, <2>1
  <2> QED
    BY <2>1, <2>2, <2>3
<1> QED
  BY <1>2, <1>3 DEF Joins

\* What is not with the worker is behind everything.
LEMMA AbsentIsLast ==
  ASSUME NEW w, NEW y, ~IsAt(w, y), NEW x
  PROVE  First(w, x, y) /\ ToldFirst(w, x, y)
BY DEF IsAt, First, ToldFirst, IsReply

\* Calls that begin are in line behind those they outdate.
LEMMA BeginOrders ==
  ASSUME NEW p \in Providers, NEW w \in Threads, Knows(p, w),
         NEW c, Typed(c, Calls), Waited(c, p, w), LineInv(c, p, w),
         NEW new, Typed(new, Begun), IsFiniteSet(DOMAIN new),
         Begin(new, p, w), calls' = InProgress(c, new, p),
         \A id \in DOMAIN new : id[1] # "query" => ~IsAt(w, id) /\ id \notin ToSet(p.starting),
         \A x \in DOMAIN new, y \in DOMAIN calls' : ~Outdates(calls', x, y),
         \A x, y \in DOMAIN calls' : Outdates(calls', x, y) => y[1] # "query"
  PROVE  /\ LineInv(calls', provider', worker')
         /\ \A id : IsAt(worker', id) => IsAt(w, id) \/ id \in DOMAIN new
         /\ \A id : id \in ToSet(provider'.starting) => id \in ToSet(p.starting) \/ id \in DOMAIN new
<1>1. PICK n : n = calls'
  OBVIOUS
<1>2. PICK s : s = BeginsAt(p)
  OBVIOUS
<1>3. PICK P : P = provider'
  OBVIOUS
<1>4. PICK v : v = worker'
  OBVIOUS
<1>5. PICK ids \in Seq(CallIds) : ids = SetToSeq(DOMAIN new)
  BY OrderIs DEF Typed
<1>6. ToSet(ids) = DOMAIN new /\ (ids = <<>> <=> DOMAIN new = {}) /\ \A k \in DOMAIN ids : ids[k] \in DOMAIN new
  <2>1. ToSet(ids) = DOMAIN new /\ (ids = <<>> <=> DOMAIN new = {})
    BY <1>5, OrderIs DEF Typed
  <2> QED
    BY <2>1 DEF ToSet
<1>7. PICK q : q = [k \in DOMAIN ids |-> [id |-> ids[k], priority |-> new[ids[k]].priority]]
  OBVIOUS
<1>8. /\ P = IF ids = <<>> THEN p ELSE IF s = "starting" THEN [p EXCEPT !.isStarting = TRUE, !.starting = p.starting \o ids]
                                  ELSE Switched(p)
      /\ v = IF s # "waiting" THEN w ELSE Posted(w, q)
  BY <1>2, <1>3, <1>4, <1>5, <1>7 DEF Begin
<1>9. /\ Typed(n, Calls) /\ DOMAIN n \subseteq DOMAIN c \cup DOMAIN new
      /\ \A id \in DOMAIN n : id \notin DOMAIN new \/ s = "failed" => id \in DOMAIN c /\ n[id] = c[id]
      /\ s # "failed" => \A id \in DOMAIN new : id \in DOMAIN n /\ n[id].stage = s
  <2>1. n = InProgress(c, new, p)
    BY <1>1
  <2>2. /\ Typed(n, Calls) /\ DOMAIN c \subseteq DOMAIN n /\ DOMAIN n \subseteq DOMAIN c \cup DOMAIN new
        /\ s = "failed" => DOMAIN n = DOMAIN c
        /\ \A id \in DOMAIN c : id \notin DOMAIN new \/ s = "failed" => n[id] = c[id]
        /\ s # "failed" => \A id \in DOMAIN new : id \in DOMAIN n /\ n[id] = [new[id] EXCEPT !.stage = s]
    BY <1>2, <2>1, InProgressIs
  <2>3. \A id \in DOMAIN new : [new[id] EXCEPT !.stage = s].stage = s
    BY DEF Typed, Begun
  <2> QED
    BY <2>2, <2>3
<1>10. q \in Seq(Waits) /\ DOMAIN q = DOMAIN ids /\ \A k \in DOMAIN ids : q[k].id = ids[k]
  BY <1>6, <1>7, RequestsAre
<1>11. s \in {"remote", "waiting", "starting", "failed"}
  BY <1>2 DEF BeginsAt
<1>12. \A id \in DOMAIN c : c[id].stage \in {"starting", "waiting", "remote"}
  BY DEF Typed, Calls, Stages
<1>13. /\ (Sound(v) <=> Sound(w)) /\ (IsBroken(v) <=> IsBroken(w))
       /\ \A x, y : ToldFirst(v, x, y) <=> ToldFirst(w, x, y)
       /\ \A id : IsAt(v, id) => IsAt(w, id) \/ id \in DOMAIN new
       /\ \A x, y : First(w, x, y) /\ (s = "waiting" => y \notin DOMAIN new) => First(v, x, y)
       /\ \A x, y \in CallIds : ~IsAt(w, y) /\ IsAt(w, x) => First(v, x, y)
  <2>1. CASE s = "waiting"
    <3>1. v = Posted(w, q)
      BY <1>8, <2>1
    <3>2. /\ (Sound(v) <=> Sound(w)) /\ (IsBroken(v) <=> IsBroken(w))
          /\ \A x, y : ToldFirst(v, x, y) <=> ToldFirst(w, x, y)
          /\ \A id : IsAt(v, id) => IsAt(w, id) \/ \E k \in DOMAIN q : q[k].id = id
          /\ \A x, y : First(w, x, y) /\ (\A k \in DOMAIN q : q[k].id # y) => First(v, x, y)
          /\ \A x, y \in CallIds : ~IsAt(w, y) /\ IsAt(w, x) => First(v, x, y)
      BY <1>10, <3>1, PostedOrders
    <3>3. \A k \in DOMAIN q : q[k].id \in DOMAIN new
      BY <1>6, <1>10
    <3> QED
      BY <2>1, <3>2, <3>3
  <2>2. CASE s # "waiting"
    BY <1>8, <2>2, AbsentIsLast
  <2> QED
    BY <2>1, <2>2
<1>14. PICK b : b = p.starting \o ids
  OBVIOUS
<1>15. /\ \A k \in DOMAIN p.starting : k \in DOMAIN b /\ b[k] = p.starting[k]
       /\ \A k \in DOMAIN b : \/ k \in DOMAIN p.starting
                              \/ (\A m \in DOMAIN p.starting : m < k) /\ \E j \in DOMAIN ids : b[k] = ids[j]
  <2>1. PICK l \in Seq(CallIds) : l = p.starting
    BY DEF Providers
  <2>2. b = l \o ids
    BY <1>14, <2>1
  <2>3. Joins(b, l, ids)
    BY <1>5, <2>1, <2>2, JoinedIs
  <2> QED
    BY <2>1, <2>3 DEF Joins
<1>16. /\ P.ready = p.ready /\ P.error = p.error /\ (P.cached = p.cached \/ (P.cached = "remote" /\ p.error))
       /\ P.starting = p.starting \/ (s = "starting" /\ P.starting = b)
  <2>1. \/ P = p
        \/ s = "starting" /\ P = [p EXCEPT !.isStarting = TRUE, !.starting = b]
        \/ P = Switched(p)
    BY <1>8, <1>14
  <2>2. Switched(p) = p \/ (Switched(p) = [p EXCEPT !.cached = "remote"] /\ p.error)
    BY DEF Switched
  <2> QED
    BY <2>1, <2>2 DEF Providers
<1>17. \A id : id \in ToSet(P.starting) => id \in ToSet(p.starting) \/ id \in DOMAIN new
  BY <1>6, <1>15, <1>16 DEF ToSet
<1>18. /\ s = "remote" => p.cached = "remote" \/ p.error
       /\ s = "starting" => ~p.ready
       /\ s = "waiting" => p.ready
  BY <1>2 DEF BeginsAt
<1>19. ASSUME NEW x \in DOMAIN n, NEW y \in DOMAIN n, IsLocal(n, x), IsLocal(n, y), Outdates(n, x, y)
       PROVE  ToldFirst(v, x, y) /\ (Sound(v) => First(v, x, y)) /\ StartsFirst(P, x, y)
  <2>1. x \notin DOMAIN new /\ y[1] # "query"
    BY <1>1, <1>19
  <2>2. x \in DOMAIN c /\ n[x] = c[x] /\ IsLocal(c, x)
    BY <1>9, <1>19, <2>1 DEF IsLocal
  <2>3. x \in CallIds /\ y \in CallIds
    BY <1>9 DEF Typed
  <2>4. CASE y \notin DOMAIN new \/ s = "failed"
    <3>1. y \in DOMAIN c /\ n[y] = c[y] /\ IsLocal(c, y) /\ Outdates(c, x, y)
      BY <1>9, <1>19, <2>4 DEF IsLocal, Outdates
    <3>2. ToldFirst(w, x, y) /\ (Sound(w) => First(w, x, y)) /\ StartsFirst(p, x, y)
      BY <2>2, <3>1 DEF LineInv
    <3>3. ToldFirst(v, x, y) /\ (Sound(v) => First(v, x, y))
      BY <1>13, <2>4, <3>2
    <3>4. StartsFirst(P, x, y)
      <4>1. CASE P.starting = p.starting
        BY <3>2, <4>1 DEF StartsFirst
      <4>2. CASE s = "starting" /\ P.starting = b
        <5>1. ASSUME NEW k \in DOMAIN b, b[k] = y PROVE \E m \in DOMAIN b : m < k /\ b[m] = x
          <6>1. k \in DOMAIN p.starting /\ p.starting[k] = y
            BY <1>6, <1>15, <2>4, <4>2, <5>1
          <6>2. PICK m \in DOMAIN p.starting : m < k /\ p.starting[m] = x
            BY <3>2, <6>1 DEF StartsFirst
          <6> QED
            BY <1>15, <6>2
        <5> QED
          BY <4>2, <5>1 DEF StartsFirst
      <4> QED
        BY <1>16, <4>1, <4>2
    <3> QED
      BY <3>3, <3>4
  <2>5. CASE y \in DOMAIN new /\ s # "failed"
    <3>1. s \in {"waiting", "starting"} /\ ~IsAt(w, y) /\ y \notin ToSet(p.starting)
      BY <1>9, <1>11, <1>19, <2>1, <2>5 DEF IsLocal
    <3>2. \A k \in DOMAIN p.starting : p.starting[k] # y
      BY <3>1 DEF ToSet
    <3>3. First(w, x, y) /\ ToldFirst(w, x, y)
      BY <3>1, AbsentIsLast
    <3>4. c[x].stage = "waiting" \/ c[x].stage = "starting"
      BY <1>12, <2>2 DEF IsLocal
    <3>5. CASE s = "waiting"
      <4>1. c[x].stage = "waiting"
        BY <1>18, <2>2, <3>4, <3>5 DEF Waited, Knows
      <4>2. IsAt(w, x) \/ IsBroken(w)
        BY <2>2, <4>1 DEF Waited
      <4>3. Sound(v) => First(v, x, y)
        BY <1>13, <2>3, <3>1, <4>2 DEF LineInv
      <4>4. P.starting = p.starting
        BY <1>16, <3>5
      <4> QED
        BY <1>13, <3>2, <3>3, <4>3, <4>4 DEF StartsFirst
    <3>6. CASE s = "starting"
      <4>1. c[x].stage = "starting"
        BY <1>18, <2>2, <3>4, <3>6 DEF Waited
      <4>2. PICK m \in DOMAIN p.starting : p.starting[m] = x
        BY <2>2, <4>1 DEF Waited, ToSet
      <4>3. P.starting = b
        <5>1. ids # <<>>
          BY <1>6, <2>5
        <5> QED
          BY <1>8, <1>14, <3>6, <5>1 DEF Providers
      <4>4. ASSUME NEW k \in DOMAIN b, b[k] = y PROVE m \in DOMAIN b /\ m < k /\ b[m] = x
        <5>1. k \notin DOMAIN p.starting
          BY <1>15, <3>2, <4>4
        <5> QED
          BY <1>15, <4>2, <5>1
      <4> QED
        BY <1>13, <3>3, <3>6, <4>3, <4>4 DEF StartsFirst
    <3> QED
      BY <3>1, <3>5, <3>6
  <2> QED
    BY <2>4, <2>5
<1>20. ASSUME NEW id \in DOMAIN n, n[id].stage = "remote" PROVE P.cached = "remote" \/ P.error
  <2>1. CASE id \in DOMAIN c /\ n[id] = c[id]
    BY <1>16, <1>20, <2>1 DEF LineInv
  <2>2. CASE ~(id \in DOMAIN c /\ n[id] = c[id])
    <3>1. s = "remote"
      BY <1>9, <1>20, <2>2
    <3> QED
      BY <1>16, <1>18, <3>1
  <2> QED
    BY <2>1, <2>2
<1>21. P.ready => P.cached # "remote"
  BY <1>16 DEF LineInv, Knows
<1>22. Sound(v) => ~IsBroken(v)
  BY <1>13 DEF LineInv
<1>23. LineInv(n, P, v)
  BY <1>19, <1>20, <1>21, <1>22 DEF LineInv
<1> QED
  BY <1>1, <1>3, <1>4, <1>13, <1>17, <1>23

(* --------------------------- What is embedded -------------------------- *)

\* What a backfill is to embed is no newer than the rows.
IsPast(todo, rs) == \A k \in DOMAIN todo : todo[k][2] <= rs[todo[k][1]].text

LEMMA BatchIsPast ==
  ASSUME NEW b, b.todo \in Todos, b.todo # <<>>, NEW rs, IsPast(b.todo, rs)
  PROVE  /\ \A i \in DOMAIN BatchOf(b).texts : BatchOf(b).texts[i] <= rs[i].text
         /\ IsPast(Remaining(b.todo), rs)
<1>1. PICK todo \in Todos : todo = b.todo
  OBVIOUS
<1>2. PICK s : s = Batch(todo)
  OBVIOUS
<1>3. PICK z : z = Remaining(todo)
  OBVIOUS
<1>4. PICK t : t = BatchOf(b).texts
  OBVIOUS
<1>5. /\ \A j \in DOMAIN s : \E k \in DOMAIN todo : s[j] = todo[k]
      /\ \A j \in DOMAIN z : \E k \in DOMAIN todo : z[j] = todo[k]
  BY <1>1, <1>2, <1>3, BatchSplits
<1>6. \A i \in DOMAIN t : \E j \in DOMAIN s : s[j][1] = i /\ s[j][2] = t[i]
  BY <1>1, <1>2, <1>4, BatchTexts
<1>7. IsPast(todo, rs)
  BY <1>1
<1>8. \A j \in DOMAIN s : s[j][2] <= rs[s[j][1]].text
  BY <1>5, <1>7 DEF IsPast
<1>9. \A i \in DOMAIN t : t[i] <= rs[i].text
  BY <1>6, <1>8
<1>10. IsPast(z, rs)
  BY <1>5, <1>7 DEF IsPast
<1> QED
  BY <1>1, <1>3, <1>4, <1>9, <1>10

LEMMA SnapshotIsPast ==
  ASSUME NEW rs \in RowsSet, NEW table
  PROVE  IsPast(Snapshot(rs, table), rs)
<1>1. PICK s : s = Snapshot(rs, table)
  OBVIOUS
<1>2. ASSUME NEW k \in DOMAIN s PROVE s[k][2] <= rs[s[k][1]].text
  <2>1. PICK i \in Missing(rs, table) : s[k] = <<i, rs[i].text>>
    BY <1>1, SnapshotIs DEF RowsSet
  <2>2. i \in Rows
    BY DEF Missing
  <2>3. rs[i].text \in Nat
    BY <2>2 DEF RowsSet
  <2> QED
    BY <2>1, <2>3
<1> QED
  BY <1>1, <1>2 DEF IsPast

LEMMA OnwardIsPast ==
  ASSUME NEW b \in Backfills, NEW rs \in RowsSet, NEW p, IsPast(b.todo, rs)
  PROVE  IsPast(Onward(b, p, rs).todo, rs)
<1>1. PICK e : e = IF b.todo = <<>> /\ b.pc = "knowledge" THEN Entered(b, "distillations", rs) ELSE b
  OBVIOUS
<1>2. e.todo = b.todo \/ e.todo = Snapshot(rs, "distillations")
  <2>1. Entered(b, "distillations", rs).todo = Snapshot(rs, "distillations")
    BY DEF Entered, Backfills
  <2> QED
    BY <1>1, <2>1
<1>3. IsPast(e.todo, rs)
  BY <1>2, SnapshotIsPast
<1>4. e \in [pc : {"idle", "delay", "knowledge", "distillations", "done"}, todo : {e.todo}, batches : Nat, failed : BOOLEAN,
             seen : {e.seen}]
  <2>1. Entered(b, "distillations", rs)
          \in [pc : {"distillations"}, todo : {Entered(b, "distillations", rs).todo}, batches : Nat, failed : BOOLEAN,
               seen : {Entered(b, "distillations", rs).seen}]
    BY DEF Entered, Backfills
  <2> QED
    BY <1>1, <2>1 DEF Backfills
<1>5. PICK f : f = Phase(b, rs)
  OBVIOUS
<1>6. f = IF e.todo = <<>> THEN [e EXCEPT !.pc = "done"] ELSE e
  BY <1>1, <1>5 DEF Phase
<1>7. f.todo = e.todo
  BY <1>4, <1>6
<1>8. PICK d : d = Onward(b, p, rs)
  OBVIOUS
<1>9. d = IF f.pc = "done" THEN f
          ELSE IF BeginsAt(p) = "failed" THEN [f EXCEPT !.pc = "done", !.todo = <<>>, !.failed = TRUE]
          ELSE [f EXCEPT !.batches = f.batches + 1]
  BY <1>5, <1>8 DEF Onward
<1>10. d.todo = e.todo \/ d.todo = <<>>
  BY <1>4, <1>6, <1>7, <1>9
<1>11. IsPast(<<>>, rs)
  BY DEF IsPast
<1> QED
  BY <1>3, <1>8, <1>10, <1>11

\* A backfill that goes on counts its batch.
Advances(b, d) ==
    /\ d \in Backfills /\ b.batches <= d.batches
    /\ IsRunning(d) => d.todo # <<>> /\ d.batches = b.batches + 1

LEMMA OnwardAdvances ==
  ASSUME NEW b \in Backfills, IsRunning(b), NEW rs \in RowsSet, NEW p
  PROVE  Advances(b, Onward(b, p, rs))
<1>1. PICK d : d = Onward(b, p, rs)
  OBVIOUS
<1>2. /\ d \in Backfills /\ (IsRunning(d) \/ d.pc = "done")
      /\ IsRunning(d) => d.todo # <<>> /\ d.batches = b.batches + 1
      /\ d.pc = "done" => d.batches = b.batches
  BY <1>1, OnwardIs
<1>3. b.batches \in Nat
  BY DEF Backfills
<1> QED
  BY <1>1, <1>2, <1>3 DEF Advances

LEMMA AfterBatchIsPast ==
  ASSUME NEW b \in Backfills, IsRunning(b), b.todo # <<>>, NEW failed \in BOOLEAN, NEW unavailable \in BOOLEAN,
         NEW p, NEW rs \in RowsSet, IsPast(b.todo, rs)
  PROVE  LET d == AfterBatch(b, failed, unavailable, p, rs) IN
         /\ d \in Backfills /\ IsPast(d.todo, rs) /\ b.batches <= d.batches
         /\ IsRunning(d) => d.todo # <<>> /\ d.batches = b.batches + 1
<1>1. PICK rest : rest = IF unavailable THEN <<>> ELSE Remaining(b.todo)
  OBVIOUS
<1>2. b.todo \in Todos
  BY DEF Backfills, Todos
<1>3. rest \in Todos /\ IsPast(rest, rs)
  <2>1. <<>> \in Todos /\ IsPast(<<>>, rs)
    BY DEF IsPast, Todos
  <2>2. Remaining(b.todo) \in Todos
    BY <1>2, BatchSplits
  <2>3. IsPast(Remaining(b.todo), rs)
    BY <1>2, BatchIsPast
  <2> QED
    BY <1>1, <2>1, <2>2, <2>3
<1>4. PICK e : e = [b EXCEPT !.todo = rest, !.failed = b.failed \/ failed]
  OBVIOUS
<1>5. e \in Backfills /\ e.todo = rest /\ IsRunning(e) /\ e.batches = b.batches
  BY <1>3, <1>4 DEF Backfills, Todos, IsRunning
<1>6. AfterBatch(b, failed, unavailable, p, rs) = Onward(e, p, rs)
  BY <1>1, <1>4 DEF AfterBatch
<1>7. PICK d : d = Onward(e, p, rs)
  OBVIOUS
<1>8. IsPast(d.todo, rs)
  BY <1>3, <1>5, <1>7, OnwardIsPast
<1>9. Advances(e, d)
  BY <1>5, <1>7, OnwardAdvances
<1>10. b.batches \in Nat
  BY DEF Backfills
<1> QED
  BY <1>1, <1>4, <1>5, <1>6, <1>7, <1>8, <1>9, <1>10 DEF Advances

LEMMA StartIsPast ==
  ASSUME NEW b \in Backfills, b.todo = <<>>, NEW p, NEW rs \in RowsSet
  PROVE  LET d == Start(b, p, rs) IN
         /\ d \in Backfills /\ IsPast(d.todo, rs) /\ b.batches <= d.batches
         /\ IsRunning(d) => d.todo # <<>> /\ d.batches = b.batches + 1
<1>1. PICK e : e = [b EXCEPT !.failed = FALSE, !.seen = {}]
  OBVIOUS
<1>2. e \in Backfills /\ e.todo = <<>> /\ e.seen = {}
  BY <1>1 DEF Backfills
<1>3. PICK d : d = Entered(e, "knowledge", rs)
  OBVIOUS
<1>4. d \in Backfills /\ IsRunning(d)
  BY <1>2, <1>3, EnteredIs DEF IsRunning
<1>5. d.todo = Snapshot(rs, "knowledge") /\ d.batches = b.batches
  BY <1>1, <1>2, <1>3 DEF Entered, Backfills
<1>6. IsPast(d.todo, rs)
  BY <1>5, SnapshotIsPast
<1>7. IsPast(Onward(d, p, rs).todo, rs) /\ Advances(d, Onward(d, p, rs))
  BY <1>4, <1>6, OnwardIsPast, OnwardAdvances
<1>8. IsPast(<<>>, rs)
  BY DEF IsPast
<1>9. PICK idle : idle = [b EXCEPT !.failed = FALSE, !.seen = {}, !.pc = "done"]
  OBVIOUS
<1>10. PICK on : on = IF p.cached = "none" THEN idle ELSE Onward(d, p, rs)
  OBVIOUS
<1>11. Start(b, p, rs) = on
  BY <1>1, <1>3, <1>9, <1>10 DEF Start
<1>12. idle \in Backfills /\ idle.todo = <<>> /\ idle.batches = b.batches /\ ~IsRunning(idle) /\ b.batches \in Nat
  BY <1>9 DEF Backfills, IsRunning
<1>13. CASE p.cached = "none"
  BY <1>8, <1>10, <1>11, <1>12, <1>13
<1>14. CASE p.cached # "none"
  BY <1>5, <1>7, <1>10, <1>11, <1>12, <1>14 DEF Advances
<1> QED
  BY <1>13, <1>14

\* Whose texts the calls in progress have.
LEMMA InProgressTexts ==
  ASSUME NEW c, Typed(c, Calls), NEW new, Typed(new, Begun), NEW p, NEW n, n = InProgress(c, new, p)
  PROVE  \A id \in DOMAIN n : \/ id \in DOMAIN c /\ n[id] = c[id]
                              \/ id \in DOMAIN new /\ n[id].texts = new[id].texts
<1>1. /\ DOMAIN n \subseteq DOMAIN c \cup DOMAIN new
      /\ BeginsAt(p) = "failed" => DOMAIN n = DOMAIN c
      /\ \A id \in DOMAIN c : id \notin DOMAIN new \/ BeginsAt(p) = "failed" => n[id] = c[id]
      /\ BeginsAt(p) # "failed" => \A id \in DOMAIN new : n[id] = [new[id] EXCEPT !.stage = BeginsAt(p)]
  BY InProgressIs
<1>2. \A id \in DOMAIN new : [new[id] EXCEPT !.stage = BeginsAt(p)].texts = new[id].texts
  BY DEF Typed, Begun
<1> QED
  BY <1>1, <1>2

LEMMA KindsDiffer == Rows \cap Runners = {} /\ "query" \notin Rows \cup Runners
BY RowsAssumption DEF Runners

Sends(new, bs, D) ==
    /\ Typed(new, Begun) /\ IsFiniteSet(DOMAIN new)
    /\ \A id \in DOMAIN new : id[1] \in D /\ IsRunning(bs[id[1]]) /\ id = <<id[1], bs[id[1]].batches>>
    /\ \A r \in D : IsRunning(bs[r]) => new[<<r, bs[r].batches>>].texts = BatchOf(bs[r]).texts

LEMMA BatchesSend ==
  ASSUME NEW D \in SUBSET Runners, NEW bs \in [D -> Backfills], NEW new, new = BatchCalls(bs),
         \A r \in D : IsRunning(bs[r]) => bs[r].todo # <<>>
  PROVE  Sends(new, bs, D)
BY BatchCallsAre DEF Sends

\* Calls c are what is left of those in progress, and backfills D go on as bs.
IsLeft(c, p, w) ==
    /\ Typed(c, Calls) /\ DOMAIN c \subseteq DOMAIN calls /\ \A id \in DOMAIN c : c[id] = calls[id]
    /\ p \in Providers /\ w \in Threads /\ Knows(p, w) /\ Waited(c, p, w) /\ LineInv(c, p, w)
    /\ UsedInv(p, w, rows, backfill)
GoOn(D, bs, rs) ==
    /\ rs \in RowsSet /\ \A i \in Rows : rs[i].text = rows[i].text /\ rs[i].vector.text <= rs[i].text
    /\ D \in SUBSET Runners /\ bs \in [D -> Backfills]
    /\ \A r \in D : IsRunning(bs[r]) => bs[r].todo # <<>> /\ bs[r].batches = backfill[r].batches + 1
    /\ \A r \in D : backfill[r].batches <= bs[r].batches /\ IsPast(bs[r].todo, rs)

\* The batches that backfills send are in line.
LEMMA BatchesOrder ==
  ASSUME IInv, TextInv(calls, rows, backfill),
         NEW c, NEW p, NEW w, IsLeft(c, p, w), NEW D, NEW bs, NEW rs, GoOn(D, bs, rs), AheadInv(c, rs),
         NEW new, new = BatchCalls(bs), calls' = InProgress(c, new, p), Begin(new, p, w), rows' = rs,
         NEW B, B = backfill', B = [r \in Runners |-> IF r \in D THEN bs[r] ELSE backfill[r]]
  PROVE  OrderInv'
<1> USE DEF IsLeft, GoOn
<1>1. PICK n : n = calls'
  OBVIOUS
<1>2. /\ Typed(new, Begun) /\ IsFiniteSet(DOMAIN new)
      /\ \A id \in DOMAIN new : id[1] \in D /\ IsRunning(bs[id[1]]) /\ id = <<id[1], bs[id[1]].batches>>
      /\ \A r \in D : IsRunning(bs[r]) => new[<<r, bs[r].batches>>].texts = BatchOf(bs[r]).texts
  <2>1. \A r \in D : IsRunning(bs[r]) => bs[r].todo # <<>>
    OBVIOUS
  <2>2. Sends(new, bs, D)
    BY <2>1, BatchesSend
  <2> QED
    BY <2>2 DEF Sends
<1>3. \A id \in DOMAIN n : \/ id \in DOMAIN c /\ n[id] = c[id]
                           \/ id \in DOMAIN new /\ n[id].texts = new[id].texts
  BY <1>1, <1>2, InProgressTexts
<1>4. \A id \in DOMAIN new : id[1] \in Runners /\ id[1] \notin Rows /\ id[1] # "query"
  BY <1>2, KindsDiffer
<1>5. \A r \in Runners : backfill[r].batches \in Nat /\ B[r].batches \in Nat /\ backfill[r].batches <= B[r].batches
  <2>1. \A r \in Runners : backfill[r] \in Backfills /\ B[r] \in Backfills
    BY DEF IInv, TypeInv
  <2> QED
    BY <2>1 DEF Backfills
<1>6. ASSUME NEW id \in DOMAIN new
      PROVE  id \in CallIds /\ id[2] = bs[id[1]].batches /\ id[2] = backfill[id[1]].batches + 1 /\ B[id[1]] = bs[id[1]]
  <2>1. id \in CallIds
    BY <1>2 DEF Typed
  <2>2. id[1] \in D /\ id[2] = bs[id[1]].batches
    BY <1>2
  <2> QED
    BY <1>2, <2>1, <2>2
<1>7. ASSUME NEW id \in DOMAIN new PROVE ~IsAt(w, id) /\ id \notin ToSet(p.starting)
  <2>1. PICK r \in Runners : r = id[1]
    BY <1>4
  <2>2. id[2] = backfill[r].batches + 1 /\ backfill[r].batches \in Nat
    BY <1>5, <1>6, <2>1
  <2>3. ~(id[2] <= backfill[r].batches)
    BY <2>2
  <2>4. ~IsUsed(id, rows, backfill)
    BY <2>1, <2>3 DEF IsUsed
  <2> QED
    BY <1>6, <2>4 DEF UsedInv
<1>8. \A x \in DOMAIN new, y \in DOMAIN n : ~Outdates(n, x, y)
  BY <1>4 DEF Outdates
<1>9. ASSUME NEW id \in DOMAIN n, id[1] = "query" PROVE DOMAIN n[id].texts = {}
  <2>1. id \in DOMAIN calls /\ n[id] = calls[id]
    BY <1>3, <1>4, <1>9
  <2> QED
    BY <1>9, <2>1 DEF TextInv
<1>10. \A x, y \in DOMAIN n : Outdates(n, x, y) => y[1] # "query"
  BY <1>9 DEF Outdates
<1>11. /\ LineInv(n, provider', worker')
       /\ \A id : IsAt(worker', id) => IsAt(w, id) \/ id \in DOMAIN new
       /\ \A id : id \in ToSet(provider'.starting) => id \in ToSet(p.starting) \/ id \in DOMAIN new
  BY <1>1, <1>2, <1>7, <1>8, <1>10, BeginOrders
<1>12. ASSUME NEW id \in CallIds, IsUsed(id, rows, backfill) PROVE IsUsed(id, rs, B)
  <2>1. id[2] \in Nat
    BY DEF CallIds
  <2>2. id[1] \in Runners => id[2] <= B[id[1]].batches
    BY <1>5, <1>12, <2>1 DEF IsUsed
  <2> QED
    BY <1>12, <2>2 DEF IsUsed
<1>13. ASSUME NEW id \in DOMAIN new PROVE IsUsed(id, rs, B)
  <2>1. id[1] \in Runners /\ id[1] \notin Rows /\ id[2] = B[id[1]].batches
    BY <1>4, <1>6
  <2> QED
    BY <1>5, <2>1 DEF IsUsed
<1>14. UsedInv(provider', worker', rs, B)
  BY <1>11, <1>12, <1>13 DEF UsedInv
<1>15. TextInv(n, rs, B)
  <2>1. ASSUME NEW id \in DOMAIN n, NEW i \in DOMAIN n[id].texts PROVE n[id].texts[i] <= rs[i].text
    <3>1. CASE id \in DOMAIN c /\ n[id] = c[id]
      <4>1. id \in DOMAIN calls /\ n[id] = calls[id]
        BY <3>1
      <4>2. n[id].texts[i] <= rows[i].text
        BY <2>1, <4>1 DEF TextInv
      <4>3. i \in Rows
        <5>1. calls[id].texts \in Texts
          BY <4>1 DEF IInv, TypeInv, Typed, Calls
        <5>2. PICK t : t = n[id].texts
          OBVIOUS
        <5>3. DOMAIN t \subseteq Rows
          BY <4>1, <5>1, <5>2 DEF Texts
        <5> QED
          BY <2>1, <5>2, <5>3
      <4> QED
        BY <4>2, <4>3
    <3>2. CASE id \in DOMAIN new /\ n[id].texts = new[id].texts
      <4>1. PICK r \in D : r = id[1] /\ IsRunning(bs[r]) /\ id = <<r, bs[r].batches>>
        BY <1>2, <3>2
      <4>2. n[id].texts = BatchOf(bs[r]).texts
        BY <1>2, <3>2, <4>1
      <4>3. bs[r].todo \in Todos /\ bs[r].todo # <<>> /\ IsPast(bs[r].todo, rs)
        BY <4>1 DEF Backfills, Todos
      <4>4. \A j \in DOMAIN BatchOf(bs[r]).texts : BatchOf(bs[r]).texts[j] <= rs[j].text
        BY <4>3, BatchIsPast
      <4> QED
        BY <2>1, <4>2, <4>4
    <3> QED
      BY <1>3, <3>1, <3>2
  <2>2. ASSUME NEW id \in DOMAIN n, id[1] \in Rows PROVE n[id].texts = [i \in {id[1]} |-> id[2]]
    <3>1. id \in DOMAIN calls /\ n[id] = calls[id]
      BY <1>3, <1>4, <2>2
    <3> QED
      BY <2>2, <3>1 DEF TextInv
  <2>3. ASSUME NEW r \in Runners PROVE IsPast(B[r].todo, rs)
    <3>1. CASE r \in D
      BY <3>1
    <3>2. CASE r \notin D
      <4>1. PICK todo : todo = backfill[r].todo
        OBVIOUS
      <4>2. \A k \in DOMAIN todo : todo[k][2] <= rows[todo[k][1]].text
        BY <4>1 DEF TextInv
      <4>3. todo \in Seq(Rows \X Nat)
        BY <4>1 DEF IInv, TypeInv, Backfills
      <4>4. \A k \in DOMAIN todo : todo[k] \in Rows \X Nat
        BY <4>3, ElementOfSeq, LenProperties
      <4>5. IsPast(todo, rs)
        BY <4>2, <4>4 DEF IsPast
      <4> QED
        BY <3>2, <4>1, <4>5
    <3> QED
      BY <3>1, <3>2
  <2> QED
    BY <1>9, <2>1, <2>2, <2>3 DEF TextInv, IsPast
<1>16. AheadInv(n, rs)
  <2>1. ASSUME NEW id \in DOMAIN n, IsLocal(n, id), id[1] \in Rows PROVE rs[id[1]].vector.text <= id[2]
    <3>1. id \in DOMAIN c /\ n[id] = c[id]
      BY <1>3, <1>4, <2>1
    <3> QED
      BY <2>1, <3>1 DEF AheadInv, IsLocal
  <2> QED
    BY <2>1 DEF AheadInv
<1> QED
  BY <1>1, <1>11, <1>14, <1>15, <1>16 DEF OrderInv

IsRest(c, ended) == c = Restrict(calls, DOMAIN calls \ ended)

LEMMA RestIs ==
  ASSUME Typed(calls, Calls), NEW ended, NEW c, IsRest(c, ended)
  PROVE  Typed(c, Calls) /\ DOMAIN c = DOMAIN calls \ ended /\ \A id \in DOMAIN c : c[id] = calls[id]
BY RestrictIs DEF IsRest

\* Calls end: those that stay, and the batches that follow, are in line.
LEMMA SettleOrders ==
  ASSUME IInv, TextInv(calls, rows, backfill),
         NEW ended, NEW failed \in BOOLEAN, NEW unavailable \in BOOLEAN,
         NEW rs \in RowsSet, \A i \in Rows : rs[i].text = rows[i].text /\ rs[i].vector.text <= rs[i].text,
         NEW p \in Providers, NEW w \in Threads, Knows(p, w),
         NEW c, IsRest(c, ended), Waited(c, p, w), LineInv(c, p, w),
         UsedInv(p, w, rows, backfill), AheadInv(c, rs),
         Settle(ended, failed, unavailable, rs, p, w)
  PROVE  OrderInv'
<1>1. PICK D : D = {r \in Runners : IsRunning(backfill[r]) /\ <<r, backfill[r].batches>> \in ended}
  OBVIOUS
<1>2. PICK bs : bs = [r \in D |-> AfterBatch(backfill[r], failed, unavailable, p, rs)]
  OBVIOUS
<1>3. PICK new : new = BatchCalls(bs)
  OBVIOUS
<1>4. PICK B : B = backfill'
  OBVIOUS
<1>5. /\ B = [r \in Runners |-> IF r \in D THEN bs[r] ELSE backfill[r]]
      /\ calls' = InProgress(c, new, p) /\ Begin(new, p, w) /\ rows' = rs
  BY <1>1, <1>2, <1>3, <1>4 DEF Settle, IsRest
<1>6. D \in SUBSET Runners /\ \A r \in D : IsRunning(backfill[r])
  BY <1>1
<1>7. ASSUME NEW r \in D
      PROVE  /\ bs[r] \in Backfills /\ IsPast(bs[r].todo, rs) /\ backfill[r].batches <= bs[r].batches
             /\ IsRunning(bs[r]) => bs[r].todo # <<>> /\ bs[r].batches = backfill[r].batches + 1
  <2>1. PICK b \in Backfills : b = backfill[r] /\ IsRunning(b) /\ b.todo # <<>>
    BY <1>6 DEF IInv, TypeInv, BackfillInv, Backs
  <2>2. IsPast(b.todo, rs)
    <3>1. PICK todo \in Seq(Rows \X Nat) : todo = b.todo
      BY DEF Backfills
    <3>2. \A k \in DOMAIN todo : todo[k][2] <= rows[todo[k][1]].text
      BY <1>6, <2>1, <3>1 DEF TextInv
    <3>3. \A k \in DOMAIN todo : todo[k] \in Rows \X Nat
      BY ElementOfSeq, LenProperties
    <3> QED
      BY <3>1, <3>2, <3>3 DEF IsPast
  <2>3. PICK d : d = AfterBatch(b, failed, unavailable, p, rs)
    OBVIOUS
  <2>4. /\ d \in Backfills /\ IsPast(d.todo, rs) /\ b.batches <= d.batches
        /\ IsRunning(d) => d.todo # <<>> /\ d.batches = b.batches + 1
    BY <2>1, <2>2, <2>3, AfterBatchIsPast
  <2>5. bs[r] = d
    BY <1>2, <2>1, <2>3
  <2> QED
    BY <2>1, <2>4, <2>5
<1>8. bs \in [D -> Backfills]
  BY <1>2, <1>7
<1>9. Typed(c, Calls) /\ DOMAIN c \subseteq DOMAIN calls /\ \A id \in DOMAIN c : c[id] = calls[id]
  <2>1. Typed(calls, Calls)
    BY DEF IInv, TypeInv
  <2>2. DOMAIN c = DOMAIN calls \ ended
    BY <2>1, RestIs
  <2> QED
    BY <2>1, <2>2, RestIs
<1>10. IsLeft(c, p, w)
  BY <1>9 DEF IsLeft
<1>11. GoOn(D, bs, rs)
  BY <1>6, <1>7, <1>8 DEF GoOn, IInv, TypeInv, RowsSet
<1> QED
  BY <1>3, <1>4, <1>5, <1>10, <1>11, BatchesOrder

LEMMA RunsBackfillOrders ==
  ASSUME IInv, OrderInv, NEW r \in Runners, ~IsRunning(backfill[r]), RunsBackfill(r)
  PROVE  OrderInv'
<1>1. PICK rs : rs = Cleared
  OBVIOUS
<1>2. PICK on : on = Start(backfill[r], provider, rs)
  OBVIOUS
<1>3. PICK D : D = {r}
  OBVIOUS
<1>4. PICK bs : bs = [x \in D |-> on]
  OBVIOUS
<1>5. PICK new : new = BatchCalls(bs)
  OBVIOUS
<1>6. /\ rows' = rs /\ backfill' = [backfill EXCEPT ![r] = on] /\ calls' = InProgress(calls, new, provider)
      /\ Begin(new, provider, worker)
  BY <1>1, <1>2, <1>3, <1>4, <1>5 DEF RunsBackfill, Start
<1>7. PICK b \in Backfills : b = backfill[r] /\ b.todo = <<>>
  BY DEF IInv, TypeInv, BackfillInv
<1>8. /\ rs \in RowsSet
      /\ \A i \in Rows : rs[i].text = rows[i].text /\ (rs[i].vector = rows[i].vector \/ rs[i].vector = NoVector)
  <2>1. TypeInv
    BY DEF IInv
  <2>2. /\ rs \in RowsSet
        /\ stored \in {NoConfig, config} => rs = rows
        /\ stored \notin {NoConfig, config} => \A i \in Rows : rs[i].vector = NoVector
        /\ \A i \in Rows : rs[i].text = rows[i].text
    BY <1>1, <2>1, ClearedIs
  <2> QED
    BY <2>2
<1>9. \A i \in Rows : rs[i].vector.text <= rs[i].text
  <2>1. \A i \in Rows : rows[i].text \in Nat /\ rows[i].vector.text <= rows[i].text
    BY DEF IInv, TypeInv, RowsSet, OrderInv, TextInv
  <2>2. \A i \in Rows : rs[i].vector.text = rows[i].vector.text \/ rs[i].vector.text = 0
    BY <1>8 DEF NoVector
  <2> QED
    BY <1>8, <2>1, <2>2
<1>10. /\ on \in Backfills /\ IsPast(on.todo, rs) /\ b.batches <= on.batches
       /\ IsRunning(on) => on.todo # <<>> /\ on.batches = b.batches + 1
  BY <1>2, <1>7, <1>8, StartIsPast
<1>11. AheadInv(calls, rs)
  <2>1. ASSUME NEW id \in DOMAIN calls, IsLocal(calls, id), id[1] \in Rows PROVE rs[id[1]].vector.text <= id[2]
    <3>1. rows[id[1]].vector.text <= id[2]
      BY <2>1 DEF OrderInv, AheadInv
    <3>2. id[2] \in Nat
      <4>1. id \in CallIds
        BY DEF IInv, TypeInv, Typed
      <4> QED
        BY <4>1 DEF CallIds
    <3>3. rs[id[1]].vector.text = rows[id[1]].vector.text \/ rs[id[1]].vector.text = 0
      BY <1>8, <2>1 DEF NoVector
    <3> QED
      BY <3>1, <3>2, <3>3
  <2> QED
    BY <2>1 DEF AheadInv
<1>12. PICK B : B = backfill'
  OBVIOUS
<1>13. B = [x \in Runners |-> IF x \in D THEN bs[x] ELSE backfill[x]]
  <2>1. backfill \in [Runners -> Backfills]
    BY DEF IInv, TypeInv
  <2> QED
    BY <1>3, <1>4, <1>6, <1>12, <2>1
<1>14. D \in SUBSET Runners /\ bs \in [D -> Backfills]
  BY <1>3, <1>4, <1>10
<1>15. /\ \A x \in D : IsRunning(bs[x]) => bs[x].todo # <<>> /\ bs[x].batches = backfill[x].batches + 1
       /\ \A x \in D : backfill[x].batches <= bs[x].batches /\ IsPast(bs[x].todo, rs)
  BY <1>3, <1>4, <1>7, <1>10
<1>16. /\ Typed(calls, Calls) /\ provider \in Providers /\ worker \in Threads /\ Knows(provider, worker)
       /\ Waited(calls, provider, worker) /\ LineInv(calls, provider, worker)
       /\ UsedInv(provider, worker, rows, backfill) /\ TextInv(calls, rows, backfill)
  BY DEF IInv, TypeInv, OrderInv
<1>17. PICK c : c = calls
  OBVIOUS
<1>18. PICK p : p = provider
  OBVIOUS
<1>19. PICK w : w = worker
  OBVIOUS
<1>20. IsLeft(c, p, w)
  BY <1>16, <1>17, <1>18, <1>19 DEF IsLeft
<1>21. GoOn(D, bs, rs)
  BY <1>8, <1>9, <1>14, <1>15 DEF GoOn
<1>22. AheadInv(c, rs) /\ calls' = InProgress(c, new, p) /\ Begin(new, p, w) /\ rows' = rs
  BY <1>6, <1>11, <1>17, <1>18, <1>19
<1> QED
  BY <1>5, <1>12, <1>13, <1>16, <1>20, <1>21, <1>22, BatchesOrder

(* ------------------------- Each action keeps the order ----------------- *)

LEMMA ShapesAre ==
  ASSUME IInv
  PROVE  /\ Typed(calls, Calls) /\ provider \in Providers /\ worker \in Threads /\ rows \in RowsSet
         /\ backfill \in [Runners -> Backfills] /\ Knows(provider, worker) /\ Waited(calls, provider, worker)
         /\ \A i \in Rows : rows[i].text \in Nat /\ rows[i].vector.text \in Nat
         /\ \A id \in DOMAIN calls : /\ id \in CallIds /\ id[2] \in Nat /\ DOMAIN calls[id].texts \subseteq Rows
                                     /\ \A i \in DOMAIN calls[id].texts : calls[id].texts[i] \in Nat
                                     /\ calls[id].stage \in {"starting", "waiting", "remote"}
<1>1. /\ Typed(calls, Calls) /\ provider \in Providers /\ worker \in Threads /\ rows \in RowsSet
      /\ backfill \in [Runners -> Backfills] /\ Knows(provider, worker) /\ Waited(calls, provider, worker)
  BY DEF IInv, TypeInv
<1>2. \A i \in Rows : rows[i].text \in Nat /\ rows[i].vector.text \in Nat
  BY <1>1 DEF RowsSet, Vectors
<1>3. ASSUME NEW id \in DOMAIN calls
      PROVE  /\ id \in CallIds /\ id[2] \in Nat /\ DOMAIN calls[id].texts \subseteq Rows
             /\ \A i \in DOMAIN calls[id].texts : calls[id].texts[i] \in Nat
             /\ calls[id].stage \in {"starting", "waiting", "remote"}
  <2>1. id \in CallIds /\ calls[id].texts \in Texts /\ calls[id].stage \in {"starting", "waiting", "remote"}
    BY <1>1 DEF Typed, Calls, Stages
  <2>2. PICK t : t = calls[id].texts
    OBVIOUS
  <2>3. PICK S \in SUBSET Rows : t \in [S -> Nat]
    BY <2>1, <2>2 DEF Texts
  <2>4. DOMAIN t = S
    BY <2>3
  <2>5. id[2] \in Nat
    BY <2>1 DEF CallIds
  <2> QED
    BY <2>1, <2>2, <2>3, <2>4, <2>5
<1> QED
  BY <1>1, <1>2, <1>3

\* A call for a recall, or for a row's text that is new.
IsNews(id, texts, rs) ==
    \/ id[1] = "query" /\ DOMAIN texts = {}
    \/ id[1] \in Rows /\ texts = [i \in {id[1]} |-> id[2]] /\ id[2] = rs[id[1]].text /\ rows[id[1]].text < id[2]

LEMMA EmbedsOrders ==
  ASSUME IInv, OrderInv, NEW new, Typed(new, Begun), IsFiniteSet(DOMAIN new), Embeds(new), backfill' = backfill,
         NEW rs \in RowsSet, rows' = rs,
         \A i \in Rows : rs[i].vector = rows[i].vector /\ rows[i].text <= rs[i].text,
         \A id \in DOMAIN new : IsNews(id, new[id].texts, rs)
  PROVE  OrderInv'
<1>1. PICK n : n = calls'
  OBVIOUS
<1>2. n = InProgress(calls, new, provider) /\ Begin(new, provider, worker)
  BY <1>1 DEF Embeds
<1>3. /\ Typed(calls, Calls) /\ provider \in Providers /\ worker \in Threads
      /\ Knows(provider, worker) /\ Waited(calls, provider, worker)
      /\ \A i \in Rows : rows[i].text \in Nat /\ rows[i].vector.text \in Nat /\ rs[i].text \in Nat
      /\ \A id \in DOMAIN calls : /\ DOMAIN calls[id].texts \subseteq Rows
                                  /\ \A i \in DOMAIN calls[id].texts : calls[id].texts[i] \in Nat
  BY ShapesAre DEF RowsSet
<1>4. /\ LineInv(calls, provider, worker) /\ UsedInv(provider, worker, rows, backfill)
      /\ TextInv(calls, rows, backfill) /\ AheadInv(calls, rows)
  BY DEF OrderInv
<1>5. \A id \in DOMAIN n : \/ id \in DOMAIN calls /\ n[id] = calls[id]
                           \/ id \in DOMAIN new /\ n[id].texts = new[id].texts
  BY <1>2, <1>3, InProgressTexts
<1>6. ASSUME NEW id \in DOMAIN new PROVE id \in CallIds /\ id[2] \in Nat
  BY DEF Typed, CallIds
<1>7. ASSUME NEW id \in DOMAIN n, NEW i \in DOMAIN n[id].texts PROVE n[id].texts[i] <= rs[i].text
  <2>1. CASE id \in DOMAIN calls /\ n[id] = calls[id]
    <3>1. i \in Rows /\ calls[id].texts[i] \in Nat /\ calls[id].texts[i] <= rows[i].text
      BY <1>3, <1>4, <1>7, <2>1 DEF TextInv
    <3>2. rows[i].text <= rs[i].text /\ rows[i].text \in Nat /\ rs[i].text \in Nat
      BY <1>3, <3>1
    <3> QED
      BY <2>1, <3>1, <3>2
  <2>2. CASE id \in DOMAIN new /\ n[id].texts = new[id].texts
    <3>1. IsNews(id, new[id].texts, rs) /\ i \in DOMAIN new[id].texts
      BY <1>7, <2>2
    <3>2. id[1] \in Rows /\ new[id].texts = [j \in {id[1]} |-> id[2]] /\ id[2] = rs[id[1]].text
      BY <3>1 DEF IsNews
    <3>3. i = id[1] /\ new[id].texts[i] = id[2]
      BY <3>1, <3>2
    <3> QED
      BY <1>6, <2>2, <3>2, <3>3
  <2> QED
    BY <1>5, <2>1, <2>2
<1>8. ASSUME NEW id \in DOMAIN n
      PROVE  /\ id[1] \in Rows => n[id].texts = [i \in {id[1]} |-> id[2]]
             /\ id[1] = "query" => DOMAIN n[id].texts = {}
  <2>1. CASE id \in DOMAIN calls /\ n[id] = calls[id]
    BY <1>4, <2>1 DEF TextInv
  <2>2. CASE id \in DOMAIN new /\ n[id].texts = new[id].texts
    <3>1. IsNews(id, new[id].texts, rs)
      BY <2>2
    <3> QED
      BY <2>2, <3>1, KindsDiffer DEF IsNews
  <2> QED
    BY <1>5, <2>1, <2>2
<1>9. ASSUME NEW i \in Rows PROVE rs[i].vector.text <= rs[i].text
  <2>1. rows[i].vector.text <= rows[i].text
    BY <1>4 DEF TextInv
  <2> QED
    BY <1>3, <2>1
<1>10. ASSUME NEW r \in Runners PROVE \A k \in DOMAIN backfill[r].todo : backfill[r].todo[k][2] <= rs[backfill[r].todo[k][1]].text
  <2>1. PICK todo \in Seq(Rows \X Nat) : todo = backfill[r].todo
    BY ShapesAre DEF Backfills
  <2>2. \A k \in DOMAIN todo : todo[k] \in Rows \X Nat
    BY ElementOfSeq, LenProperties
  <2>3. \A k \in DOMAIN todo : todo[k][2] <= rows[todo[k][1]].text
    BY <1>4, <2>1 DEF TextInv
  <2>4. \A k \in DOMAIN todo : todo[k][2] <= rs[todo[k][1]].text
    BY <1>3, <2>2, <2>3
  <2> QED
    BY <2>1, <2>4
<1>11. TextInv(n, rs, backfill)
  BY <1>7, <1>8, <1>9, <1>10 DEF TextInv
<1>12. ASSUME NEW id \in CallIds, IsUsed(id, rows, backfill) PROVE IsUsed(id, rs, backfill)
  <2>1. id[2] \in Nat
    BY DEF CallIds
  <2> QED
    BY <1>3, <1>12, <2>1 DEF IsUsed
<1>13. ASSUME NEW id \in DOMAIN new PROVE IsUsed(id, rs, backfill)
  <2>1. IsNews(id, new[id].texts, rs) /\ id[2] \in Nat
    BY <1>6
  <2> QED
    BY <2>1, KindsDiffer DEF IsUsed, IsNews
<1>14. ASSUME NEW id \in DOMAIN new, id[1] # "query" PROVE ~IsAt(worker, id) /\ id \notin ToSet(provider.starting)
  <2>1. id[1] \in Rows /\ rows[id[1]].text < id[2] /\ id[2] \in Nat /\ rows[id[1]].text \in Nat
    BY <1>3, <1>6, <1>14 DEF IsNews
  <2>2. ~IsUsed(id, rows, backfill)
    BY <2>1 DEF IsUsed
  <2> QED
    BY <1>4, <1>6, <2>2 DEF UsedInv
<1>15. ASSUME NEW x \in DOMAIN new, NEW y \in DOMAIN n, Outdates(n, x, y) PROVE FALSE
  <2>1. x[1] \in Rows /\ x[1] \in DOMAIN n[y].texts /\ n[y].texts[x[1]] > x[2]
    BY <1>15 DEF Outdates
  <2>2. IsNews(x, new[x].texts, rs)
    OBVIOUS
  <2>3. x[2] = rs[x[1]].text
    BY <2>1, <2>2, KindsDiffer DEF IsNews
  <2>4. n[y].texts[x[1]] <= x[2]
    BY <1>7, <2>1, <2>3
  <2>5. n[y].texts[x[1]] \in Nat
    <3>1. CASE y \in DOMAIN calls /\ n[y] = calls[y]
      BY <1>3, <2>1, <3>1
    <3>2. CASE y \in DOMAIN new /\ n[y].texts = new[y].texts
      <4>1. y[1] \in Rows /\ new[y].texts = [i \in {y[1]} |-> y[2]] /\ y[2] \in Nat
        BY <1>6, <2>1, <3>2 DEF IsNews
      <4>2. x[1] = y[1] /\ n[y].texts[x[1]] = y[2]
        BY <2>1, <3>2, <4>1
      <4> QED
        BY <4>1, <4>2
    <3> QED
      BY <1>5, <3>1, <3>2
  <2> QED
    BY <1>6, <2>1, <2>4, <2>5
<1>16. \A x, y \in DOMAIN n : Outdates(n, x, y) => y[1] # "query"
  BY <1>8 DEF Outdates
<1>17. /\ LineInv(n, provider', worker')
       /\ \A id : IsAt(worker', id) => IsAt(worker, id) \/ id \in DOMAIN new
       /\ \A id : id \in ToSet(provider'.starting) => id \in ToSet(provider.starting) \/ id \in DOMAIN new
  <2>0. PICK p \in Providers, w \in Threads : p = provider /\ w = worker
    BY <1>3
  <2>1. PICK c : p = provider /\ w = worker /\ c = calls
    BY <2>0
  <2>2. /\ Knows(p, w) /\ Typed(c, Calls) /\ Waited(c, p, w) /\ LineInv(c, p, w) /\ Begin(new, p, w)
        /\ calls' = InProgress(c, new, p)
        /\ \A id \in DOMAIN new : id[1] # "query" => ~IsAt(w, id) /\ id \notin ToSet(p.starting)
        /\ \A x \in DOMAIN new, y \in DOMAIN calls' : ~Outdates(calls', x, y)
        /\ \A x, y \in DOMAIN calls' : Outdates(calls', x, y) => y[1] # "query"
    BY <1>1, <1>2, <1>3, <1>4, <1>14, <1>15, <1>16, <2>1
  <2>3. /\ LineInv(calls', provider', worker')
        /\ \A id : IsAt(worker', id) => IsAt(w, id) \/ id \in DOMAIN new
        /\ \A id : id \in ToSet(provider'.starting) => id \in ToSet(p.starting) \/ id \in DOMAIN new
    BY <2>2, BeginOrders
  <2> QED
    BY <1>1, <2>1, <2>3
<1>18. UsedInv(provider', worker', rs, backfill)
  BY <1>4, <1>12, <1>13, <1>17 DEF UsedInv
<1>19. AheadInv(n, rs)
  <2>1. ASSUME NEW id \in DOMAIN n, IsLocal(n, id), id[1] \in Rows PROVE rs[id[1]].vector.text <= id[2]
    <3>1. CASE id \in DOMAIN calls /\ n[id] = calls[id]
      BY <1>4, <2>1, <3>1 DEF AheadInv, IsLocal
    <3>2. CASE id \in DOMAIN new
      <4>1. rows[id[1]].text < id[2] /\ id[2] \in Nat
        BY <1>6, <2>1, <3>2, KindsDiffer DEF IsNews
      <4>2. rows[id[1]].vector.text <= rows[id[1]].text
        BY <1>4, <2>1 DEF TextInv
      <4>3. rs[id[1]].vector = rows[id[1]].vector /\ rows[id[1]].text \in Nat /\ rows[id[1]].vector.text \in Nat
        BY <1>3, <2>1
      <4> QED
        BY <4>1, <4>2, <4>3
    <3> QED
      BY <1>5, <3>1, <3>2
  <2> QED
    BY <2>1 DEF AheadInv
<1> QED
  BY <1>1, <1>11, <1>17, <1>18, <1>19 DEF OrderInv

\* A row's call is for the text that the row has just got.
LEMMA CallForIsNews ==
  ASSUME NEW i \in Rows, NEW text \in Nat, NEW rs, rs[i].text = text, rows[i].text < text
  PROVE  LET new == CallFor(i, text) IN \A id \in DOMAIN new : IsNews(id, new[id].texts, rs)
<1>1. PICK new : new = CallFor(i, text)
  OBVIOUS
<1>2. CASE ~IsAvailable
  <2>1. DOMAIN new = {}
    BY <1>1, <1>2, NoCallsAre DEF CallFor
  <2> QED
    BY <1>1, <2>1
<1>3. CASE IsAvailable
  <2>1. PICK t : t = [j \in {i} |-> text]
    OBVIOUS
  <2>2. new = [id \in {<<i, text>>} |-> [texts |-> t, priority |-> "normal", stage |-> "begins"]]
    BY <1>1, <1>3, <2>1 DEF CallFor, Call
  <2>3. \A id \in DOMAIN new : id = <<i, text>> /\ new[id].texts = t
    BY <2>2
  <2>4. \A id \in DOMAIN new : id[1] \in Rows /\ new[id].texts = [j \in {id[1]} |-> id[2]] /\ id[2] = rs[id[1]].text /\ rows[id[1]].text < id[2]
    BY <2>1, <2>3
  <2> QED
    BY <1>1, <2>4 DEF IsNews
<1> QED
  BY <1>2, <1>3

LEMMA CreateOrders ==
  ASSUME IInv, OrderInv, NEW i \in Rows, Create(i)
  PROVE  OrderInv'
<1>1. rows' = [rows EXCEPT ![i].text = 1] /\ backfill' = backfill /\ rows[i].text = 0 /\ rows \in RowsSet
  BY DEF Create, IInv, TypeInv
<1>2. PICK embeds \in BOOLEAN : Embeds(IF embeds THEN CallFor(i, 1) ELSE NoCalls)
  BY DEF Create
<1>3. PICK new : new = IF embeds THEN CallFor(i, 1) ELSE NoCalls
  OBVIOUS
<1>4. Embeds(new)
  BY <1>2, <1>3
<1>5. Typed(new, Begun) /\ IsFiniteSet(DOMAIN new)
  <2>1. CASE embeds
    BY <1>3, <2>1, CallForIs
  <2>2. CASE ~embeds
    BY <1>3, <2>2, NoCallsAre
  <2> QED
    BY <2>1, <2>2
<1>6. PICK rs : rs = [rows EXCEPT ![i].text = 1]
  OBVIOUS
<1>7. rs \in RowsSet /\ \A j \in Rows : rs[j].vector = rows[j].vector
  <2>1. 1 \in Nat /\ rows \in RowsSet
    BY <1>1
  <2> QED
    BY <1>6, <2>1, RetypedIs
<1>8. rs[i].text = 1 /\ \A j \in Rows : rows[j].text \in Nat /\ (j # i => rs[j] = rows[j])
  BY <1>1, <1>6 DEF RowsSet
<1>9. \A j \in Rows : rows[j].text <= rs[j].text
  BY <1>1, <1>8
<1>10. \A id \in DOMAIN new : IsNews(id, new[id].texts, rs)
  <2>1. CASE embeds
    <3>1. new = CallFor(i, 1)
      BY <1>3, <2>1
    <3> QED
      BY <1>1, <1>8, <3>1, CallForIsNews
  <2>2. CASE ~embeds
    BY <1>3, <2>2, NoCallsAre
  <2> QED
    BY <2>1, <2>2
<1>11. rows' = rs
  BY <1>1, <1>6
<1> QED
  BY <1>1, <1>4, <1>5, <1>7, <1>9, <1>10, <1>11, EmbedsOrders

LEMMA UpdateOrders ==
  ASSUME IInv, OrderInv, NEW i \in Rows, Update(i)
  PROVE  OrderInv'
<1>1. backfill' = backfill /\ rows \in RowsSet /\ rows[i].text \in Nat
  BY DEF Update, IInv, TypeInv, RowsSet
<1>2. PICK text \in Nat : text = rows[i].text + 1
  BY <1>1
<1>3. PICK new : new = CallFor(i, text)
  OBVIOUS
<1>4. Embeds(new)
  BY <1>2, <1>3 DEF Update
<1>5. Typed(new, Begun) /\ IsFiniteSet(DOMAIN new)
  BY <1>3, CallForIs
<1>6. rows' = [rows EXCEPT ![i].text = text]
  BY <1>1, <1>2 DEF Update, RowsSet
<1>7. PICK rs : rs = [rows EXCEPT ![i].text = text]
  OBVIOUS
<1>8. rs \in RowsSet /\ \A j \in Rows : rs[j].vector = rows[j].vector
  BY <1>1, <1>7, RetypedIs
<1>9. rs[i].text = text /\ \A j \in Rows : rows[j].text \in Nat /\ (j # i => rs[j] = rows[j])
  BY <1>1, <1>7 DEF RowsSet
<1>10. \A j \in Rows : rows[j].text <= rs[j].text
  BY <1>2, <1>9
<1>11. \A id \in DOMAIN new : IsNews(id, new[id].texts, rs)
  <2>1. rows[i].text < text
    BY <1>1, <1>2
  <2> QED
    BY <1>3, <1>9, <2>1, CallForIsNews
<1>12. rows' = rs
  BY <1>6, <1>7
<1> QED
  BY <1>1, <1>4, <1>5, <1>8, <1>10, <1>11, <1>12, EmbedsOrders

LEMMA QueryOrders ==
  ASSUME IInv, OrderInv, Query
  PROVE  OrderInv'
<1>1. rows' = rows /\ backfill' = backfill /\ made.asked \in Nat /\ rows \in RowsSet
  BY DEF Query, IInv, TypeInv
<1>2. PICK n \in Nat : n = made.asked
  BY <1>1
<1>3. PICK t : t = [i \in {} |-> 0]
  OBVIOUS
<1>4. t \in Texts /\ DOMAIN t = {}
  <2>1. t \in [{} -> Nat] /\ {} \in SUBSET Rows
    BY <1>3
  <2> QED
    BY <2>1 DEF Texts
<1>5. PICK x : x = [texts |-> t, priority |-> "high", stage |-> "begins"]
  OBVIOUS
<1>6. x \in Begun /\ x.texts = t
  BY <1>4, <1>5 DEF Begun
<1>7. PICK id : id = <<"query", n>>
  OBVIOUS
<1>8. id \in CallIds /\ id[1] = "query"
  BY <1>7 DEF CallIds
<1>9. PICK new : new = [y \in {id} |-> x]
  OBVIOUS
<1>10. Embeds(new)
  BY <1>2, <1>3, <1>5, <1>7, <1>9 DEF Query, Call
<1>11. DOMAIN new = {id} /\ new \in [DOMAIN new -> Begun] /\ new[id] = x
  BY <1>6, <1>9
<1>12. Typed(new, Begun) /\ IsFiniteSet(DOMAIN new)
  BY <1>8, <1>11, FS_Singleton DEF Typed
<1>13. \A y \in DOMAIN new : IsNews(y, new[y].texts, rows)
  BY <1>4, <1>6, <1>8, <1>11 DEF IsNews
<1>14. PICK rs : rs = rows
  OBVIOUS
<1>15. /\ rs \in RowsSet /\ rows' = rs /\ \A i \in Rows : rs[i].vector = rows[i].vector /\ rows[i].text <= rs[i].text
       /\ \A y \in DOMAIN new : IsNews(y, new[y].texts, rs)
  <2>1. \A i \in Rows : rows[i].text \in Nat
    BY <1>1 DEF RowsSet
  <2> QED
    BY <1>1, <1>13, <1>14, <2>1
<1> QED
  BY <1>1, <1>10, <1>12, <1>15, EmbedsOrders

LEMMA StartupBeginsOrders ==
  ASSUME IInv, OrderInv, StartupBegins
  PROVE  OrderInv'
<1>1. ~IsRunning(backfill["startup"]) /\ "startup" \in Runners
  BY DEF StartupBegins, IsRunning, Runners
<1>2. CASE ~IsAvailable \/ HasBacklog
  <2>1. PICK pc : backfill' = [backfill EXCEPT !["startup"].pc = pc]
    BY <1>2 DEF StartupBegins
  <2>2. UNCHANGED <<worker, rows, provider, calls>>
    BY <1>2 DEF StartupBegins
  <2>3. backfill \in [Runners -> Backfills]
    BY DEF IInv, TypeInv
  <2>4. PICK B : B = backfill'
    OBVIOUS
  <2>5. \A r \in Runners : B[r].todo = backfill[r].todo /\ B[r].batches = backfill[r].batches
    BY <1>1, <2>1, <2>3, <2>4 DEF Backfills
  <2>6. UsedInv(provider, worker, rows, B) /\ TextInv(calls, rows, B)
    BY <2>5 DEF OrderInv, UsedInv, IsUsed, TextInv
  <2> QED
    BY <2>2, <2>4, <2>6 DEF OrderInv
<1>3. CASE ~(~IsAvailable \/ HasBacklog)
  <2>1. RunsBackfill("startup")
    BY <1>3 DEF StartupBegins
  <2> QED
    BY <1>1, <2>1, RunsBackfillOrders
<1> QED
  BY <1>2, <1>3

LEMMA DelayEndsOrders ==
  ASSUME IInv, OrderInv, DelayEnds
  PROVE  OrderInv'
<1>1. ~IsRunning(backfill["startup"]) /\ "startup" \in Runners /\ RunsBackfill("startup")
  BY DEF DelayEnds, IsRunning, Runners
<1> QED
  BY <1>1, RunsBackfillOrders

LEMMA ReindexOrders ==
  ASSUME IInv, OrderInv, Reindex
  PROVE  OrderInv'
<1>1. ~IsRunning(backfill["reindex"]) /\ "reindex" \in Runners /\ RunsBackfill("reindex")
  BY DEF Reindex, IsRunning, Runners
<1> QED
  BY <1>1, RunsBackfillOrders

\* Calls that only change their stage, and do not come back from a remote
\* provider, keep their texts and stay ahead of the vectors.
LEMMA StagesAside ==
  ASSUME NEW c, NEW n, DOMAIN n = DOMAIN c, \A id \in DOMAIN c : n[id].texts = c[id].texts,
         \A id \in DOMAIN c : n[id].stage # "remote" => c[id].stage # "remote",
         NEW rs, NEW b, TextInv(c, rs, b), AheadInv(c, rs)
  PROVE  /\ TextInv(n, rs, b) /\ AheadInv(n, rs)
         /\ \A x, y \in DOMAIN n : Outdates(n, x, y) => Outdates(c, x, y)
         /\ \A id \in DOMAIN n : IsLocal(n, id) => IsLocal(c, id)
<1>1. \A x, y \in DOMAIN n : Outdates(n, x, y) => Outdates(c, x, y)
  BY DEF Outdates
<1>2. \A id \in DOMAIN n : IsLocal(n, id) => IsLocal(c, id)
  BY DEF IsLocal
<1>3. AheadInv(n, rs)
  BY <1>2 DEF AheadInv
<1>4. TextInv(n, rs, b)
  BY DEF TextInv
<1> QED
  BY <1>1, <1>2, <1>3, <1>4

\* The calls that waited for the worker are posted in their order.
LEMMA WorkerStartedOrders ==
  ASSUME IInv, OrderInv, WorkerStarted
  PROVE  OrderInv'
<1> DEFINE ids == provider.starting
           S == ToSet(ids)
<1>1. /\ provider.isStarting
      /\ provider' = [provider EXCEPT !.isStarting = FALSE, !.ready = TRUE, !.starting = <<>>]
      /\ worker' = Posted(FreshWorker, [n \in DOMAIN ids |-> [id |-> ids[n], priority |-> calls[ids[n]].priority]])
      /\ calls' = [id \in DOMAIN calls |-> IF id \in S THEN [calls[id] EXCEPT !.stage = "waiting"] ELSE calls[id]]
      /\ UNCHANGED <<rows, backfill>>
  BY DEF WorkerStarted
<1>2. provider \in Providers /\ Typed(calls, Calls) /\ Knows(provider, worker) /\ Waited(calls, provider, worker)
  BY DEF IInv, TypeInv
<1>3. /\ LineInv(calls, provider, worker) /\ UsedInv(provider, worker, rows, backfill)
      /\ TextInv(calls, rows, backfill) /\ AheadInv(calls, rows)
  BY DEF OrderInv
<1>4. ids \in Seq(CallIds) /\ DOMAIN ids = 1..Len(ids) /\ Len(ids) \in Nat
  BY <1>2, LenProperties DEF Providers
<1>5. PICK q : q = [n \in DOMAIN ids |-> [id |-> ids[n], priority |-> calls[ids[n]].priority]]
  OBVIOUS
<1>6. DOMAIN q = DOMAIN ids /\ \A n \in DOMAIN q : q[n].id = ids[n]
  BY <1>5
<1>7. q \in Seq(Waits)
  <2>1. ASSUME NEW n \in DOMAIN ids PROVE [id |-> ids[n], priority |-> calls[ids[n]].priority] \in Waits
    <3>1. ids[n] \in DOMAIN calls
      BY <1>2 DEF Waited
    <3>2. ids[n] \in CallIds /\ calls[ids[n]] \in Calls /\ (calls[ids[n]].priority = "high" => ids[n][1] = "query")
      BY <1>2, <3>1 DEF Typed
    <3> QED
      BY <3>2 DEF Calls, Waits
  <2>2. q \in [1..Len(ids) -> Waits]
    BY <1>4, <1>5, <2>1
  <2> QED
    BY <1>4, <2>2, SeqDef
<1>8. PICK v : v = worker'
  OBVIOUS
<1>9. v.thread = "running" /\ v.queue = <<>> /\ v.current = NoId /\ v.outbox = <<>> /\ v.inbox = q
  <2>1. PICK w : w = FreshWorker
    OBVIOUS
  <2>2. w = [thread |-> "running", model |-> "unloaded", queue |-> <<>>, current |-> NoId, inbox |-> <<>>,
             outbox |-> <<>>]
    BY <2>1 DEF FreshWorker, NoWorker
  <2>3. v = [w EXCEPT !.inbox = w.inbox \o q]
    BY <1>1, <1>5, <1>8, <2>1 DEF Posted
  <2>4. <<>> \o q = q
    BY <1>7
  <2> QED
    BY <2>2, <2>3, <2>4
<1>10. PICK P : P = provider'
  OBVIOUS
<1>11. P.ready /\ P.starting = <<>> /\ P.cached = provider.cached /\ P.error = provider.error
  BY <1>1, <1>2, <1>10 DEF Providers
<1>12. ~provider.error /\ provider.cached # "remote"
  BY <1>1, <1>2 DEF Knows
<1>13. PICK n : n = calls'
  OBVIOUS
<1> HIDE DEF S
<1>14. DOMAIN n = DOMAIN calls /\ \A id \in DOMAIN n : n[id] = IF id \in S THEN [calls[id] EXCEPT !.stage = "waiting"] ELSE calls[id]
  BY <1>1, <1>13
<1>15. \A id \in DOMAIN calls : calls[id].stage # "remote"
  BY <1>3, <1>12 DEF LineInv
<1>16. ASSUME NEW id \in DOMAIN n PROVE n[id].texts = calls[id].texts /\ n[id].stage # "remote"
  <2>1. calls[id] \in Calls
    BY <1>2, <1>14 DEF Typed
  <2> QED
    BY <1>14, <1>15, <2>1 DEF Calls, Stages
<1>17. /\ TextInv(n, rows, backfill) /\ AheadInv(n, rows)
       /\ \A x, y \in DOMAIN n : Outdates(n, x, y) => Outdates(calls, x, y)
       /\ \A id \in DOMAIN n : IsLocal(n, id) => IsLocal(calls, id)
  <2>1. PICK c : c = calls
    OBVIOUS
  <2>2. /\ DOMAIN n = DOMAIN c /\ \A id \in DOMAIN c : n[id].texts = c[id].texts
        /\ \A id \in DOMAIN c : n[id].stage # "remote" => c[id].stage # "remote"
        /\ TextInv(c, rows, backfill) /\ AheadInv(c, rows)
    BY <1>3, <1>14, <1>15, <1>16, <2>1
  <2> QED
    BY <2>1, <2>2, StagesAside
<1>18. ASSUME NEW x \in DOMAIN n, NEW y \in DOMAIN n, IsLocal(n, x), IsLocal(n, y), Outdates(n, x, y)
       PROVE  ToldFirst(v, x, y) /\ First(v, x, y) /\ StartsFirst(P, x, y)
  <2>1. StartsFirst(provider, x, y)
    BY <1>3, <1>14, <1>17, <1>18 DEF LineInv
  <2>2. ToldFirst(v, x, y)
    BY <1>9 DEF ToldFirst
  <2>3. y # NoId
    BY <1>2, <1>14, IdIsNotNoId DEF Typed
  <2>4. \A k \in DOMAIN q : q[k].id = y => \E m \in DOMAIN q : m < k /\ q[m].id = x
    BY <1>6, <2>1 DEF StartsFirst
  <2>5. First(v, x, y)
    BY <1>9, <2>2, <2>3, <2>4 DEF First
  <2> QED
    BY <1>11, <2>2, <2>5 DEF StartsFirst
<1>19. LineInv(n, P, v)
  BY <1>9, <1>11, <1>12, <1>16, <1>18 DEF LineInv, IsBroken
<1>20. UsedInv(P, v, rows, backfill)
  <2>1. ASSUME NEW id \in CallIds, IsAt(v, id) \/ id \in ToSet(P.starting) PROVE IsUsed(id, rows, backfill)
    <3>1. id \notin ToSet(P.starting) /\ id # NoId
      BY <1>11, IdIsNotNoId DEF ToSet
    <3>2. PICK k \in DOMAIN q : q[k].id = id
      BY <1>9, <2>1, <3>1 DEF IsAt
    <3>3. id \in ToSet(provider.starting)
      BY <1>6, <3>2 DEF ToSet
    <3> QED
      BY <1>3, <3>3 DEF UsedInv
  <2> QED
    BY <2>1 DEF UsedInv
<1> QED
  BY <1>1, <1>8, <1>10, <1>13, <1>17, <1>19, <1>20 DEF OrderInv

LEMMA WorkerNotStartedOrders ==
  ASSUME IInv, OrderInv, WorkerNotStarted
  PROVE  OrderInv'
<1>1. PICK p : p = [provider EXCEPT !.isStarting = FALSE, !.starting = <<>>]
  OBVIOUS
<1>2. PICK S : S = ToSet(provider.starting)
  OBVIOUS
<1>3. PICK c : c = Restrict(calls, DOMAIN calls \ S)
  OBVIOUS
<1>4. provider.isStarting /\ Settle(S, TRUE, FALSE, rows, p, worker)
  BY <1>1, <1>2 DEF WorkerNotStarted
<1>5. /\ provider \in Providers /\ Knows(provider, worker) /\ Waited(calls, provider, worker) /\ Typed(calls, Calls)
      /\ worker \in Threads /\ rows \in RowsSet
  BY ShapesAre
<1>6. /\ LineInv(calls, provider, worker) /\ UsedInv(provider, worker, rows, backfill)
      /\ TextInv(calls, rows, backfill) /\ AheadInv(calls, rows)
  BY DEF OrderInv
<1>7. /\ p \in Providers /\ ~p.isStarting /\ p.starting = <<>> /\ p.ready = provider.ready /\ p.error = provider.error
      /\ p.cached = provider.cached
  <2>1. <<>> \in Seq(CallIds)
    OBVIOUS
  <2> QED
    BY <1>1, <1>5, <2>1 DEF Providers
<1>8. Knows(p, worker)
  BY <1>5, <1>7 DEF Knows
<1>9. DOMAIN c = DOMAIN calls \ S /\ \A id \in DOMAIN c : c[id] = calls[id]
  BY <1>3, <1>5, RestrictIs
<1>10. Waited(c, p, worker)
  BY <1>2, <1>5, <1>7, <1>9 DEF Waited
<1>11. LineInv(c, p, worker)
  <2>1. PICK w : w = worker
    OBVIOUS
  <2>2. PICK d : d = calls
    OBVIOUS
  <2>3. PICK p0 : p0 = provider
    OBVIOUS
  <2>4. /\ LineInv(d, p0, w) /\ DOMAIN c \subseteq DOMAIN d /\ \A id \in DOMAIN c : c[id].texts = d[id].texts
        /\ \A id \in DOMAIN c : IsLocal(c, id) => IsLocal(d, id)
        /\ p.starting = <<>> /\ (p.ready => p.cached # "remote")
        /\ \A id \in DOMAIN c : c[id].stage = "remote" => p.cached = "remote" \/ p.error
    BY <1>6, <1>7, <1>9, <2>1, <2>2, <2>3 DEF LineInv, IsLocal
  <2> QED
    BY <2>1, <2>4, LineShrinks
<1>12. UsedInv(p, worker, rows, backfill)
  <2>1. ToSet(p.starting) = {}
    BY <1>7 DEF ToSet
  <2> QED
    BY <1>6, <2>1 DEF UsedInv
<1>13. AheadInv(c, rows)
  BY <1>6, <1>9 DEF AheadInv, IsLocal
<1>14. \A i \in Rows : rows[i].vector.text <= rows[i].text
  BY <1>6 DEF TextInv
<1>15. IsRest(c, S)
  BY <1>3 DEF IsRest
<1>16. PICK rs \in RowsSet : rs = rows
  BY <1>5
<1>17. /\ \A i \in Rows : rs[i].text = rows[i].text /\ rs[i].vector.text <= rs[i].text
       /\ AheadInv(c, rs) /\ Settle(S, TRUE, FALSE, rs, p, worker)
  BY <1>4, <1>13, <1>14, <1>16
<1> QED
  BY <1>5, <1>6, <1>7, <1>8, <1>10, <1>11, <1>12, <1>15, <1>17, SettleOrders

\* While a remote provider is asked, no call waits for the local one.
LEMMA LocalsAlone ==
  ASSUME IInv, OrderInv, NEW id \in DOMAIN calls, calls[id].stage = "remote"
  PROVE  \A x : ~IsLocal(calls, x)
<1>1. provider.cached = "remote" \/ provider.error
  BY DEF OrderInv, LineInv
<1>2. Knows(provider, worker) /\ Waited(calls, provider, worker)
  BY ShapesAre
<1>3. provider.ready => provider.cached # "remote"
  BY DEF OrderInv, LineInv
<1>4. ~provider.ready /\ ~provider.isStarting
  BY <1>1, <1>2, <1>3 DEF Knows
<1>5. ASSUME NEW x, IsLocal(calls, x) PROVE FALSE
  <2>1. calls[x].stage \in {"starting", "waiting"} /\ x \in DOMAIN calls
    BY <1>5, ShapesAre DEF IsLocal
  <2> QED
    BY <1>2, <1>4, <2>1 DEF Waited
<1> QED
  BY <1>5

\* The vectors that an answer brings are of texts no newer than the rows.
LEMMA StoredTexts ==
  ASSUME IInv, OrderInv, NEW id \in DOMAIN calls, NEW rs, rs = Stored(id)
  PROVE  rs \in RowsSet /\ \A i \in Rows : rs[i].text = rows[i].text /\ rs[i].vector.text <= rs[i].text
<1>1. TypeInv /\ TextInv(calls, rows, backfill)
  BY DEF IInv, OrderInv
<1>2. /\ rs \in RowsSet
      /\ \A i \in DOMAIN calls[id].texts : rs[i].vector = Vector(id, i) /\ Vector(id, i).text = calls[id].texts[i]
      /\ \A i \in Rows \ DOMAIN calls[id].texts : rs[i] = rows[i]
      /\ \A i \in Rows : rs[i].text = rows[i].text
  BY <1>1, StoredIs
<1>3. ASSUME NEW i \in Rows PROVE rs[i].vector.text <= rs[i].text
  <2>1. CASE i \in DOMAIN calls[id].texts
    BY <1>1, <1>2, <2>1 DEF TextInv
  <2>2. CASE i \notin DOMAIN calls[id].texts
    BY <1>1, <1>2, <2>2 DEF TextInv
  <2> QED
    BY <2>1, <2>2
<1> QED
  BY <1>2, <1>3

\* What is left of the calls when some have ended is in line.
LEMMA RestInLine ==
  ASSUME IInv, OrderInv, NEW ended, NEW c, IsRest(c, ended),
         NEW p, p.starting = provider.starting, p.ready => p.cached # "remote",
         provider.cached = "remote" \/ provider.error => p.cached = "remote" \/ p.error
  PROVE  LineInv(c, p, worker) /\ AheadInv(c, rows)
<1>1. Typed(calls, Calls) /\ LineInv(calls, provider, worker) /\ AheadInv(calls, rows)
  BY ShapesAre DEF OrderInv
<1>2. DOMAIN c = DOMAIN calls \ ended /\ \A id \in DOMAIN c : c[id] = calls[id]
  BY <1>1, RestIs
<1>3. AheadInv(c, rows)
  BY <1>1, <1>2 DEF AheadInv, IsLocal
<1>4. PICK w : w = worker
  OBVIOUS
<1>5. PICK d : d = calls
  OBVIOUS
<1>6. PICK q : q = provider
  OBVIOUS
<1>7. /\ LineInv(d, q, w) /\ DOMAIN c \subseteq DOMAIN d /\ \A id \in DOMAIN c : c[id].texts = d[id].texts
      /\ \A id \in DOMAIN c : IsLocal(c, id) => IsLocal(d, id)
      /\ p.starting = q.starting
      /\ \A id \in DOMAIN c : c[id].stage = "remote" => p.cached = "remote" \/ p.error
  BY <1>1, <1>2, <1>4, <1>5, <1>6 DEF LineInv, IsLocal
<1> QED
  BY <1>3, <1>4, <1>7, LineShrinks

LEMMA RemoteEndsOrders ==
  ASSUME IInv, OrderInv, NEW id \in DOMAIN calls, RemoteEnds(id)
  PROVE  OrderInv'
<1>1. PICK isAnswer \in BOOLEAN :
          Settle({id}, ~isAnswer, FALSE, IF isAnswer THEN Stored(id) ELSE rows, provider, worker)
  BY DEF RemoteEnds
<1>2. calls[id].stage = "remote"
  BY DEF RemoteEnds
<1>3. PICK failed \in BOOLEAN : failed = ~isAnswer
  OBVIOUS
<1>4. PICK rs : rs = IF isAnswer THEN Stored(id) ELSE rows
  OBVIOUS
<1>5. PICK S : S = {id}
  OBVIOUS
<1>6. PICK c : c = Restrict(calls, DOMAIN calls \ S)
  OBVIOUS
<1>7. /\ provider \in Providers /\ worker \in Threads /\ Knows(provider, worker)
      /\ Waited(calls, provider, worker) /\ Typed(calls, Calls) /\ rows \in RowsSet
  BY ShapesAre
<1>8. Settle(S, failed, FALSE, rs, provider, worker)
  BY <1>1, <1>3, <1>4, <1>5
<1>9. DOMAIN c = DOMAIN calls \ {id} /\ \A x \in DOMAIN c : c[x] = calls[x]
  BY <1>5, <1>6, <1>7, RestrictIs
<1>10. Waited(c, provider, worker)
  BY <1>2, <1>7, <1>9 DEF Waited
<1>11. rs \in RowsSet /\ \A i \in Rows : rs[i].text = rows[i].text /\ rs[i].vector.text <= rs[i].text
  <2>1. CASE isAnswer
    BY <1>4, <2>1, StoredTexts
  <2>2. CASE ~isAnswer
    BY <1>4, <1>7, <2>2 DEF OrderInv, TextInv
  <2> QED
    BY <2>1, <2>2
<1>12. IsRest(c, S)
  BY <1>6 DEF IsRest
<1>13. LineInv(c, provider, worker)
  <2>1. PICK p : p = provider
    OBVIOUS
  <2>2. p.starting = provider.starting /\ (p.ready => p.cached # "remote")
    BY <2>1 DEF OrderInv, LineInv
  <2>3. LineInv(c, p, worker)
    BY <1>12, <2>1, <2>2, RestInLine
  <2> QED
    BY <2>1, <2>3
<1>14. AheadInv(c, rs)
  <2>1. \A x : ~IsLocal(calls, x)
    BY <1>2, LocalsAlone
  <2>2. \A x : ~IsLocal(c, x)
    BY <1>9, <2>1 DEF IsLocal
  <2> QED
    BY <2>2 DEF AheadInv
<1>15. UsedInv(provider, worker, rows, backfill) /\ TextInv(calls, rows, backfill)
  BY DEF OrderInv
<1> QED
  BY <1>7, <1>8, <1>10, <1>11, <1>12, <1>13, <1>14, <1>15, SettleOrders

\* An answer is for no call that is still to be posted.
LEMMA AnswerIsPosted ==
  ASSUME IInv, worker.outbox # <<>>, NEW id \in DOMAIN calls, calls[id].stage = "starting"
  PROVE  FALSE
<1>1. Knows(provider, worker) /\ Waited(calls, provider, worker)
  BY ShapesAre
<1>2. provider.isStarting
  BY <1>1 DEF Waited
<1> QED
  BY <1>1, <1>2, HasStarted DEF Knows

\* The vectors of an answer are no newer than the texts of the calls that are
\* still on their way to the worker: what outdates them is behind them.
LEMMA AnswerIsAhead ==
  ASSUME IInv, OrderInv, worker.outbox # <<>>, NEW id, id = Head(worker.outbox).id,
         Head(worker.outbox).type = "result", IsWaiting(id),
         NEW x \in DOMAIN calls, IsLocal(calls, x), x[1] \in Rows, x[1] \in DOMAIN calls[id].texts
  PROVE  calls[id].texts[x[1]] <= x[2]
<1>1. id \in DOMAIN calls /\ IsLocal(calls, id)
  BY DEF IsWaiting, IsLocal
<1>2. calls[id].texts[x[1]] \in Nat /\ x[2] \in Nat
  BY <1>1, ShapesAre
<1>3. PICK o \in Seq(Replies) : o = worker.outbox
  BY ShapesAre DEF Threads
<1>4. o # <<>>
  BY <1>3
<1>5. Head(o) = o[1] /\ Head(o) \in Replies /\ DOMAIN o = 1..Len(o) /\ Len(o) \in Nat \ {0}
  BY <1>4, HeadTailProperties, LenProperties, EmptySeq
<1>6. IsReply(o[1], id) /\ 1 \in DOMAIN o
  <2>1. o[1] \in [type : {"result", "error", "init-error", "crash"}, id : CallIds \cup {NoId}]
    BY <1>5 DEF Replies
  <2>2. o[1].type = "result" /\ o[1].id = id
    BY <1>3, <1>5
  <2>3. o[1] = [type |-> "result", id |-> id]
    BY <2>1, <2>2
  <2> QED
    BY <1>5, <2>3 DEF IsReply, Reply
<1>7. ASSUME calls[id].texts[x[1]] > x[2] PROVE FALSE
  <2>1. Outdates(calls, x, id)
    BY <1>7 DEF Outdates
  <2>2. ToldFirst(worker, x, id)
    BY <1>1, <2>1 DEF OrderInv, LineInv
  <2>3. PICK m \in DOMAIN o : m < 1
    BY <1>3, <1>6, <2>2 DEF ToldFirst
  <2> QED
    BY <1>5, <2>3
<1> QED
  BY <1>2, <1>7

LEMMA AnsweredOrders ==
  ASSUME IInv, OrderInv, Answered
  PROVE  OrderInv'
<1>1. PICK reply : reply = Head(worker.outbox)
  OBVIOUS
<1>2. worker.outbox # <<>> /\ reply.type \in {"result", "error"}
  BY <1>1 DEF Answered
<1>3. PICK v : v = Delivered
  OBVIOUS
<1>4. /\ v \in Threads /\ Knows(provider, v)
      /\ \A id \in DOMAIN calls : id # reply.id /\ calls[id].stage = "waiting" =>
             provider.ready /\ (IsAt(v, id) \/ IsBroken(v))
  BY <1>1, <1>2, <1>3, AnswerIsTaken
<1>5. /\ provider \in Providers /\ worker \in Threads /\ Waited(calls, provider, worker) /\ Typed(calls, Calls)
      /\ rows \in RowsSet
      /\ \A id \in DOMAIN calls : calls[id].stage \in {"starting", "waiting", "remote"} /\ id \in CallIds
  BY ShapesAre
<1>6. /\ LineInv(calls, provider, worker) /\ UsedInv(provider, worker, rows, backfill)
      /\ TextInv(calls, rows, backfill) /\ AheadInv(calls, rows)
  BY DEF OrderInv
<1>7. \A id : IsReply(reply, id) => reply.id = id
  BY DEF IsReply, Reply
<1>8. CASE ~IsWaiting(reply.id)
  <2>1. worker' = v /\ UNCHANGED <<rows, provider, calls, backfill>>
    BY <1>1, <1>3, <1>8 DEF Answered
  <2>2. ASSUME NEW id \in DOMAIN calls, IsLocal(calls, id), IsReply(reply, id) PROVE FALSE
    <3>1. calls[id].stage = "starting"
      BY <1>5, <1>7, <1>8, <2>2 DEF IsWaiting, IsLocal
    <3> QED
      BY <1>2, <3>1, AnswerIsPosted
  <2>3. LineInv(calls, provider, v) /\ \A id : IsAt(v, id) => IsAt(worker, id)
    <3>1. PICK c : c = calls
      OBVIOUS
    <3>2. PICK p : p = provider
      OBVIOUS
    <3>3. /\ DOMAIN c \subseteq CallIds /\ LineInv(c, p, worker)
          /\ \A id \in DOMAIN c : IsLocal(c, id) => ~IsReply(Head(worker.outbox), id)
      BY <1>1, <1>5, <1>6, <2>2, <3>1, <3>2
    <3>4. LineInv(c, p, Delivered) /\ \A id : IsAt(Delivered, id) => IsAt(worker, id)
      BY <1>2, <1>5, <3>3, DeliveredOrders
    <3> QED
      BY <1>3, <3>1, <3>2, <3>4
  <2>4. UsedInv(provider, v, rows, backfill)
    BY <1>6, <2>3 DEF UsedInv
  <2> QED
    BY <1>6, <2>1, <2>3, <2>4 DEF OrderInv
<1>9. CASE IsWaiting(reply.id)
  <2>1. PICK rs : rs = IF reply.type = "result" THEN Stored(reply.id) ELSE rows
    OBVIOUS
  <2>2. PICK failed \in BOOLEAN : failed = (reply.type = "error")
    OBVIOUS
  <2>3. PICK S : S = {reply.id}
    OBVIOUS
  <2>4. Settle(S, failed, FALSE, rs, provider, v)
    BY <1>1, <1>3, <1>9, <2>1, <2>2, <2>3 DEF Answered
  <2>5. reply.id \in DOMAIN calls /\ calls[reply.id].stage = "waiting"
    BY <1>9 DEF IsWaiting
  <2>6. PICK c : IsRest(c, S)
    BY DEF IsRest
  <2>7. DOMAIN c = DOMAIN calls \ {reply.id} /\ \A id \in DOMAIN c : c[id] = calls[id]
    BY <1>5, <2>3, <2>6, RestIs
  <2>8. Waited(c, provider, v)
    BY <1>4, <1>5, <2>5, <2>7 DEF Waited
  <2>9. rs \in RowsSet /\ \A i \in Rows : rs[i].text = rows[i].text /\ rs[i].vector.text <= rs[i].text
    <3>1. CASE reply.type = "result"
      BY <2>1, <2>5, <3>1, StoredTexts
    <3>2. CASE reply.type # "result"
      BY <1>5, <1>6, <2>1, <3>2 DEF TextInv
    <3> QED
      BY <3>1, <3>2
  <2>10. PICK p : p = provider
    OBVIOUS
  <2>11. LineInv(c, p, worker) /\ AheadInv(c, rows)
    <3>1. p.starting = provider.starting /\ (p.ready => p.cached # "remote")
      BY <1>6, <2>10 DEF LineInv
    <3> QED
      BY <2>6, <2>10, <3>1, RestInLine
  <2>12. LineInv(c, p, v) /\ \A id : IsAt(v, id) => IsAt(worker, id)
    <3>1. /\ DOMAIN c \subseteq CallIds
          /\ \A id \in DOMAIN c : IsLocal(c, id) => ~IsReply(Head(worker.outbox), id)
      BY <1>1, <1>5, <1>7, <2>7
    <3>2. LineInv(c, p, Delivered) /\ \A id : IsAt(Delivered, id) => IsAt(worker, id)
      BY <1>2, <1>5, <2>11, <3>1, DeliveredOrders
    <3> QED
      BY <1>3, <3>2
  <2>13. UsedInv(p, v, rows, backfill)
    BY <1>6, <2>10, <2>12 DEF UsedInv
  <2>14. AheadInv(c, rs)
    <3>1. CASE reply.type = "result"
      <4>1. /\ \A i \in DOMAIN calls[reply.id].texts : rs[i].vector.text = calls[reply.id].texts[i]
            /\ \A i \in Rows \ DOMAIN calls[reply.id].texts : rs[i] = rows[i]
        <5>1. TypeInv /\ rs = Stored(reply.id)
          BY <2>1, <3>1 DEF IInv
        <5> QED
          BY <2>5, <5>1, StoredIs
      <4>2. ASSUME NEW x \in DOMAIN c, IsLocal(c, x), x[1] \in Rows PROVE rs[x[1]].vector.text <= x[2]
        <5>1. x \in DOMAIN calls /\ IsLocal(calls, x)
          BY <2>7, <4>2 DEF IsLocal
        <5>2. CASE x[1] \in DOMAIN calls[reply.id].texts
          BY <1>1, <1>2, <1>9, <3>1, <4>1, <4>2, <5>1, <5>2, AnswerIsAhead
        <5>3. CASE x[1] \notin DOMAIN calls[reply.id].texts
          BY <1>6, <4>1, <4>2, <5>1, <5>3 DEF AheadInv
        <5> QED
          BY <5>2, <5>3
      <4> QED
        BY <4>2 DEF AheadInv
    <3>2. CASE reply.type # "result"
      BY <2>1, <2>11, <3>2
    <3> QED
      BY <3>1, <3>2
  <2>15. p \in Providers /\ Knows(p, v) /\ Waited(c, p, v) /\ Settle(S, failed, FALSE, rs, p, v)
    BY <1>4, <1>5, <2>4, <2>8, <2>10
  <2> QED
    BY <1>4, <1>6, <2>6, <2>9, <2>12, <2>13, <2>14, <2>15, SettleOrders
<1> QED
  BY <1>8, <1>9

LEMMA WorkerLostOrders ==
  ASSUME IInv, OrderInv, WorkerLost
  PROVE  OrderInv'
<1>1. PICK reply : reply = Head(worker.outbox)
  OBVIOUS
<1>2. PICK lost : lost = [provider EXCEPT !.ready = FALSE, !.error = TRUE, !.broken = @ \/ reply.type = "init-error"]
  OBVIOUS
<1>3. PICK v : v = Delivered
  OBVIOUS
<1>4. worker.outbox # <<>>
  BY DEF WorkerLost
<1>5. /\ provider \in Providers /\ worker \in Threads /\ Knows(provider, worker)
      /\ Waited(calls, provider, worker) /\ Typed(calls, Calls) /\ rows \in RowsSet
      /\ \A id \in DOMAIN calls : calls[id].stage \in {"starting", "waiting", "remote"} /\ id \in CallIds
  BY ShapesAre
<1>6. /\ LineInv(calls, provider, worker) /\ UsedInv(provider, worker, rows, backfill)
      /\ TextInv(calls, rows, backfill) /\ AheadInv(calls, rows)
  BY DEF OrderInv
<1>7. v \in Threads
  BY <1>3, <1>4, <1>5, DeliveredIs
<1>8. \A id \in DOMAIN calls : calls[id].stage # "starting"
  BY <1>4, AnswerIsPosted
<1>9. ~provider.isStarting
  BY <1>4, <1>5, HasStarted DEF Knows
<1>10. /\ lost \in Providers /\ ~lost.ready /\ lost.error /\ ~lost.isStarting /\ lost.starting = provider.starting
  BY <1>2, <1>5, <1>9 DEF Providers
<1>11. DOMAIN provider.starting = {}
  BY <1>5, <1>8 DEF Waited
<1>12. CASE RemoteKey /\ Waiting # {}
  <2>1. /\ provider' = Switched(lost) /\ worker' = v
        /\ calls' = [id \in DOMAIN calls |-> IF IsWaiting(id) THEN [calls[id] EXCEPT !.stage = "remote"] ELSE calls[id]]
        /\ UNCHANGED <<rows, backfill>>
    BY <1>1, <1>2, <1>3, <1>12 DEF WorkerLost
  <2>2. PICK P : P = Switched(lost)
    OBVIOUS
  <2>3. P \in Providers /\ ~P.ready /\ P.error /\ P.starting = provider.starting
    BY <1>10, <2>2 DEF Switched, Providers
  <2>4. PICK n : n = calls'
    OBVIOUS
  <2>5. /\ n = [id \in DOMAIN calls |-> IF IsWaiting(id) THEN [calls[id] EXCEPT !.stage = "remote"] ELSE calls[id]]
        /\ DOMAIN n = DOMAIN calls
    BY <2>1, <2>4
  <2>6. ASSUME NEW id \in DOMAIN calls PROVE n[id].texts = calls[id].texts /\ n[id].stage = "remote"
    <3>1. calls[id] \in Calls
      BY <1>5 DEF Typed
    <3>2. CASE IsWaiting(id)
      BY <2>5, <3>1, <3>2 DEF Calls
    <3>3. CASE ~IsWaiting(id)
      BY <1>5, <1>8, <2>5, <3>1, <3>3 DEF IsWaiting
    <3> QED
      BY <3>2, <3>3
  <2>7. TextInv(n, rows, backfill) /\ AheadInv(n, rows)
    <3>1. PICK c : c = calls
      OBVIOUS
    <3>2. /\ DOMAIN n = DOMAIN c /\ \A id \in DOMAIN c : n[id].texts = c[id].texts
          /\ \A id \in DOMAIN c : n[id].stage # "remote" => c[id].stage # "remote"
          /\ TextInv(c, rows, backfill) /\ AheadInv(c, rows)
      BY <1>6, <2>5, <2>6, <3>1
    <3> QED
      BY <3>2, StagesAside
  <2>8. \A id : ~IsLocal(n, id)
    BY <2>5, <2>6 DEF IsLocal
  <2>9. LineInv(n, P, worker)
    BY <1>6, <2>3, <2>8 DEF LineInv
  <2>10. LineInv(n, P, v) /\ \A id : IsAt(v, id) => IsAt(worker, id)
    <3>1. DOMAIN n \subseteq CallIds /\ \A id \in DOMAIN n : IsLocal(n, id) => ~IsReply(Head(worker.outbox), id)
      BY <1>5, <2>5, <2>8
    <3>2. LineInv(n, P, Delivered) /\ \A id : IsAt(Delivered, id) => IsAt(worker, id)
      BY <1>4, <1>5, <2>9, <3>1, DeliveredOrders
    <3> QED
      BY <1>3, <3>2
  <2>11. UsedInv(P, v, rows, backfill)
    BY <1>6, <2>3, <2>10 DEF UsedInv
  <2> QED
    BY <2>1, <2>2, <2>4, <2>7, <2>10, <2>11 DEF OrderInv
<1>13. CASE ~(RemoteKey /\ Waiting # {})
  <2>1. PICK S : S = Waiting
    OBVIOUS
  <2>2. Settle(S, TRUE, TRUE, rows, lost, v)
    BY <1>1, <1>2, <1>3, <1>13, <2>1 DEF WorkerLost
  <2>3. PICK c : IsRest(c, S)
    BY DEF IsRest
  <2>4. DOMAIN c = DOMAIN calls \ S /\ \A id \in DOMAIN c : c[id] = calls[id]
    BY <1>5, <2>3, RestIs
  <2>5. \A id \in DOMAIN c : c[id].stage # "waiting" /\ c[id].stage # "starting"
    BY <1>8, <2>1, <2>4 DEF Waiting, IsWaiting
  <2>6. Waited(c, lost, v)
    BY <1>10, <1>11, <2>5 DEF Waited
  <2>7. Knows(lost, v)
    BY <1>10 DEF Knows
  <2>8. LineInv(c, lost, worker) /\ AheadInv(c, rows)
    BY <1>10, <2>3, RestInLine
  <2>9. \A id : ~IsLocal(c, id)
    BY <1>5, <2>4, <2>5 DEF IsLocal
  <2>10. LineInv(c, lost, v) /\ \A id : IsAt(v, id) => IsAt(worker, id)
    <3>1. DOMAIN c \subseteq CallIds /\ \A id \in DOMAIN c : IsLocal(c, id) => ~IsReply(Head(worker.outbox), id)
      BY <1>5, <2>4, <2>9
    <3>2. LineInv(c, lost, Delivered) /\ \A id : IsAt(Delivered, id) => IsAt(worker, id)
      BY <1>4, <1>5, <2>8, <3>1, DeliveredOrders
    <3> QED
      BY <1>3, <3>2
  <2>11. UsedInv(lost, v, rows, backfill)
    BY <1>6, <1>10, <2>10 DEF UsedInv
  <2>12. PICK rs \in RowsSet : rs = rows
    BY <1>5
  <2>13. /\ \A i \in Rows : rs[i].text = rows[i].text /\ rs[i].vector.text <= rs[i].text
         /\ AheadInv(c, rs) /\ Settle(S, TRUE, TRUE, rs, lost, v)
    BY <1>6, <2>2, <2>8, <2>12 DEF TextInv
  <2> QED
    BY <1>6, <1>7, <1>10, <2>3, <2>6, <2>7, <2>10, <2>11, <2>13, SettleOrders
<1> QED
  BY <1>12, <1>13

\* A new process has no calls, and the vectors of the former ones.
LEMMA RestartOrders ==
  ASSUME IInv, OrderInv, Restart
  PROVE  OrderInv'
<1>1. PICK c \in Configs : provider' = FreshProvider(c)
  BY DEF Restart
<1>2. /\ calls' = NoCalls /\ backfill' = [r \in Runners |-> Idle] /\ worker' = NoWorker
      /\ rows' \in {rows} \cup CutShort
  BY DEF Restart
<1>3. PICK P : P = FreshProvider(c)
  OBVIOUS
<1>4. ~P.ready /\ P.starting = <<>>
  BY <1>3 DEF FreshProvider
<1>5. PICK B : B = [r \in Runners |-> Idle]
  OBVIOUS
<1>6. \A r \in Runners : B[r].todo = <<>>
  BY <1>5 DEF Idle
<1>7. PICK n : n = NoCalls
  OBVIOUS
<1>8. DOMAIN n = {}
  BY <1>7, NoCallsAre
<1>9. PICK w : w = NoWorker
  OBVIOUS
<1>10. w.outbox = <<>> /\ w.inbox = <<>> /\ w.queue = <<>> /\ w.current = NoId
  BY <1>9 DEF NoWorker
<1>11. LineInv(n, P, w)
  BY <1>4, <1>8, <1>10 DEF LineInv, IsBroken
<1>12. ASSUME NEW id \in CallIds PROVE ~IsAt(w, id) /\ id \notin ToSet(P.starting)
  BY <1>4, <1>10, IdIsNotNoId DEF IsAt, ToSet
<1>16. PICK rs : rs = rows'
  OBVIOUS
<1>17. \A i \in Rows : rs[i].text = rows[i].text /\ rs[i].vector \in {rows[i].vector, NoVector}
  <2>1. rs \in {rows} \cup CutShort /\ TypeInv
    BY <1>2, <1>16 DEF IInv
  <2> QED
    BY <2>1, LeftIs
<1>13. UsedInv(P, w, rs, B)
  BY <1>12 DEF UsedInv
<1>14. TextInv(n, rs, B)
  <2>1. \A i \in Rows : rows[i].vector.text <= rows[i].text /\ rows[i].text \in Nat
    BY ShapesAre DEF TextInv, OrderInv
  <2>2. \A i \in Rows : rs[i].vector.text <= rs[i].text
    BY <1>17, <2>1 DEF NoVector
  <2> QED
    BY <1>6, <1>8, <2>2 DEF TextInv
<1>15. AheadInv(n, rs)
  BY <1>8 DEF AheadInv
<1> QED
  BY <1>1, <1>2, <1>3, <1>5, <1>7, <1>9, <1>11, <1>13, <1>14, <1>15, <1>16 DEF OrderInv

\* The worker's steps: what is outdated is no recall, nor is what outdates it.
LEMMA WorkerActsOrders ==
  ASSUME IInv, OrderInv, WorkerThread \/ WorkerDies
  PROVE  OrderInv'
<1>1. (WorkerSteps \/ Crashes) /\ UNCHANGED <<rows, provider, calls, backfill>>
  BY DEF WorkerThread, WorkerDies
<1>2. worker \in Threads /\ \A id \in DOMAIN calls : id \in CallIds
  BY ShapesAre
<1>3. PICK v : v = worker'
  OBVIOUS
<1>4. Orders(worker, v)
  BY <1>1, <1>2, <1>3, WorkerOrders
<1>5. /\ LineInv(calls, provider, worker) /\ UsedInv(provider, worker, rows, backfill)
      /\ TextInv(calls, rows, backfill) /\ AheadInv(calls, rows)
  BY DEF OrderInv
<1>6. UsedInv(provider, v, rows, backfill)
  BY <1>4, <1>5 DEF UsedInv, Orders
<1>7. Sound(v) => ~IsBroken(v)
  BY <1>4, <1>5 DEF LineInv, Orders
<1>8. ASSUME NEW x \in DOMAIN calls, NEW y \in DOMAIN calls, IsLocal(calls, x), IsLocal(calls, y), Outdates(calls, x, y)
      PROVE  ToldFirst(v, x, y) /\ (Sound(v) => First(v, x, y)) /\ StartsFirst(provider, x, y)
  <2>1. ToldFirst(worker, x, y) /\ (Sound(worker) => First(worker, x, y)) /\ StartsFirst(provider, x, y)
    BY <1>5, <1>8 DEF LineInv
  <2>2. x \in CallIds /\ y \in CallIds /\ x[1] # "query" /\ y[1] # "query"
    BY <1>2, <1>5, <1>8, KindsDiffer DEF Outdates, TextInv
  <2> QED
    BY <1>4, <2>1, <2>2 DEF Orders
<1>9. LineInv(calls, provider, v)
  BY <1>5, <1>7, <1>8 DEF LineInv
<1> QED
  BY <1>1, <1>3, <1>5, <1>6, <1>9 DEF OrderInv

LEMMA InitOrders == Init => OrderInv
<1> SUFFICES ASSUME Init PROVE OrderInv
  OBVIOUS
<1>1. /\ config \in Configs /\ provider = FreshProvider(config) /\ worker = NoWorker
      /\ rows = [i \in Rows |-> [text |-> IF i \in Backlog THEN 1 ELSE 0, vector |-> NoVector]]
      /\ calls = [id \in {} |-> 0] /\ backfill = [r \in Runners |-> Idle]
  BY DEF Init
<1>2. DOMAIN calls = {}
  BY <1>1
<1>3. ~provider.ready /\ provider.starting = <<>>
  BY <1>1 DEF FreshProvider
<1>4. worker.outbox = <<>> /\ worker.inbox = <<>> /\ worker.queue = <<>> /\ worker.current = NoId
  BY <1>1 DEF NoWorker
<1>5. LineInv(calls, provider, worker)
  BY <1>2, <1>3, <1>4 DEF LineInv, IsBroken
<1>6. ASSUME NEW id \in CallIds PROVE ~IsAt(worker, id) /\ id \notin ToSet(provider.starting)
  BY <1>3, <1>4, IdIsNotNoId DEF IsAt, ToSet
<1>7. UsedInv(provider, worker, rows, backfill)
  BY <1>6 DEF UsedInv
<1>8. \A i \in Rows : rows[i].vector.text <= rows[i].text
  <2>1. \A i \in Rows : rows[i].vector.text = 0 /\ rows[i].text \in {0, 1}
    BY <1>1 DEF NoVector
  <2> QED
    BY <2>1
<1>9. \A r \in Runners : backfill[r].todo = <<>>
  BY <1>1 DEF Idle
<1>10. TextInv(calls, rows, backfill)
  BY <1>2, <1>8, <1>9 DEF TextInv
<1>11. AheadInv(calls, rows)
  BY <1>2 DEF AheadInv
<1> QED
  BY <1>5, <1>7, <1>10, <1>11 DEF OrderInv

LEMMA NextOrders == IInv /\ OrderInv /\ [Next]_vars => OrderInv'
<1> SUFFICES ASSUME IInv, OrderInv, [Next]_vars PROVE OrderInv'
  OBVIOUS
<1>1. CASE StartupBegins
  BY <1>1, StartupBeginsOrders
<1>2. CASE DelayEnds
  BY <1>2, DelayEndsOrders
<1>3. CASE Reindex
  BY <1>3, ReindexOrders
<1>4. ASSUME NEW i \in Rows, Create(i) \/ Update(i) PROVE OrderInv'
  BY <1>4, CreateOrders, UpdateOrders
<1>5. CASE Query
  BY <1>5, QueryOrders
<1>6. CASE WorkerStarted
  BY <1>6, WorkerStartedOrders
<1>7. CASE WorkerNotStarted
  BY <1>7, WorkerNotStartedOrders
<1>8. CASE Answered
  BY <1>8, AnsweredOrders
<1>9. CASE WorkerLost
  BY <1>9, WorkerLostOrders
<1>10. ASSUME NEW id \in DOMAIN calls, RemoteEnds(id) PROVE OrderInv'
  BY <1>10, RemoteEndsOrders
<1>11. CASE WorkerThread \/ WorkerDies
  BY <1>11, WorkerActsOrders
<1>12. CASE Restart
  BY <1>12, RestartOrders
<1>13. CASE UNCHANGED vars
  <2>1. UNCHANGED <<worker, rows, provider, calls, backfill>>
    BY <1>13 DEF vars
  <2> QED
    BY <2>1 DEF OrderInv
<1> QED
  BY <1>1, <1>2, <1>3, <1>4, <1>5, <1>6, <1>7, <1>8, <1>9, <1>10, <1>11, <1>12, <1>13 DEF Next

(* ----------------------- The newest of the vectors --------------------- *)

\* What the tables rs replace is no newer, but for a backfill's or a remote
\* provider's answer.
Renews(rs) ==
    \A i \in Rows : rs[i].vector # NoVector /\ rs[i].vector.text < rows[i].vector.text =>
        rs[i].vector.by \in {"backfill", "remote"}

LEMMA KeptRenews ==
  ASSUME IInv, NEW rs, \A i \in Rows : rs[i].vector = rows[i].vector \/ rs[i].vector = NoVector
  PROVE  Renews(rs)
<1>1. \A i \in Rows : rows[i].vector.text \in Nat
  BY ShapesAre
<1>2. \A i \in Rows : ~(rows[i].vector.text < rows[i].vector.text)
  BY <1>1
<1> QED
  BY <1>2 DEF Renews

LEMMA StoredRenews ==
  ASSUME IInv, OrderInv, NEW id \in DOMAIN calls, NEW rs, rs = Stored(id)
  PROVE  Renews(rs)
<1>1. /\ \A i \in DOMAIN calls[id].texts : /\ i \in Rows /\ rs[i].vector = Vector(id, i)
                                           /\ Vector(id, i).text = calls[id].texts[i]
      /\ \A i \in Rows \ DOMAIN calls[id].texts : rs[i] = rows[i]
  <2>1. TypeInv
    BY DEF IInv
  <2> QED
    BY <2>1, StoredIs
<1>2. /\ id \in CallIds /\ id[2] \in Nat
      /\ \A i \in Rows : rows[i].vector.text \in Nat
  BY ShapesAre
<1>3. ASSUME NEW i \in DOMAIN calls[id].texts, Vector(id, i).by \notin {"backfill", "remote"}
      PROVE  rows[i].vector.text <= Vector(id, i).text
  <2>1. calls[id].stage # "remote" /\ id[1] \notin Runners
    BY <1>3 DEF Vector
  <2>2. id[1] # "query"
    BY DEF OrderInv, TextInv
  <2>3. id[1] \in Rows
    BY <1>2, <2>1, <2>2 DEF CallIds
  <2>4. calls[id].texts = [j \in {id[1]} |-> id[2]]
    BY <2>3 DEF OrderInv, TextInv
  <2>5. i = id[1] /\ calls[id].texts[i] = id[2]
    BY <2>4
  <2>6. rows[id[1]].vector.text <= id[2]
    BY <2>1, <2>3 DEF OrderInv, AheadInv, IsLocal
  <2> QED
    BY <1>1, <2>5, <2>6
<1>4. ASSUME NEW i \in Rows, rs[i].vector # NoVector, rs[i].vector.text < rows[i].vector.text
      PROVE  rs[i].vector.by \in {"backfill", "remote"}
  <2>1. CASE i \in DOMAIN calls[id].texts
    <3>1. calls[id].texts[i] \in Nat
      BY <2>1, ShapesAre
    <3>2. ~(rows[i].vector.text <= Vector(id, i).text)
      BY <1>1, <1>2, <1>4, <2>1, <3>1
    <3> QED
      BY <1>1, <1>3, <2>1, <3>2
  <2>2. CASE i \notin DOMAIN calls[id].texts
    <3>1. rs[i].vector.text = rows[i].vector.text /\ rows[i].vector.text \in Nat
      BY <1>1, <1>2, <2>2
    <3> QED
      BY <1>4, <3>1
  <2> QED
    BY <2>1, <2>2
<1> QED
  BY <1>4 DEF Renews

LEMMA RunsBackfillRenews ==
  ASSUME IInv, NEW r, RunsBackfill(r)
  PROVE  Renews(rows')
<1>1. PICK rs : rs = Cleared
  OBVIOUS
<1>2. rows' = rs
  BY <1>1 DEF RunsBackfill
<1>3. \A i \in Rows : rs[i].vector = rows[i].vector \/ rs[i].vector = NoVector
  <2>1. TypeInv
    BY DEF IInv
  <2>2. /\ stored \in {NoConfig, config} => rs = rows
        /\ stored \notin {NoConfig, config} => \A i \in Rows : rs[i].vector = NoVector
    BY <1>1, <2>1, ClearedIs
  <2> QED
    BY <2>2
<1> QED
  BY <1>2, <1>3, KeptRenews

LEMMA TextsRenew ==
  ASSUME IInv, NEW i \in Rows, Create(i) \/ Update(i)
  PROVE  Renews(rows')
<1>1. rows \in RowsSet
  BY ShapesAre
<1>2. PICK text : rows' = [rows EXCEPT ![i].text = text]
  BY DEF Create, Update
<1>3. PICK rs : rs = [rows EXCEPT ![i].text = text]
  OBVIOUS
<1>4. \A j \in Rows : rs[j].vector = rows[j].vector
  BY <1>1, <1>3 DEF RowsSet
<1> QED
  BY <1>2, <1>3, <1>4, KeptRenews

LEMMA EachRenews == IInv /\ OrderInv /\ [Next]_vars => Renews(rows')
<1> SUFFICES ASSUME IInv, OrderInv, [Next]_vars PROVE Renews(rows')
  OBVIOUS
<1>1. Renews(rows)
  BY KeptRenews
<1>2. CASE StartupBegins \/ DelayEnds \/ Reindex
  <2>1. (\E r : RunsBackfill(r)) \/ rows' = rows
    BY <1>2 DEF StartupBegins, DelayEnds, Reindex
  <2> QED
    BY <1>1, <2>1, RunsBackfillRenews
<1>3. ASSUME NEW i \in Rows, Create(i) \/ Update(i) PROVE Renews(rows')
  BY <1>3, TextsRenew
<1>4. CASE Query \/ WorkerStarted \/ WorkerThread \/ WorkerDies
  <2>1. rows' = rows
    BY <1>4 DEF Query, WorkerStarted, WorkerThread, WorkerDies
  <2> QED
    BY <1>1, <2>1
<1>5. CASE WorkerNotStarted
  <2>1. rows' = rows
    BY <1>5 DEF WorkerNotStarted, Settle
  <2> QED
    BY <1>1, <2>1
<1>6. CASE WorkerLost
  <2>1. rows' = rows
    BY <1>6 DEF WorkerLost, Settle
  <2> QED
    BY <1>1, <2>1
<1>7. CASE Answered
  <2>1. PICK id : id = Head(worker.outbox).id
    OBVIOUS
  <2>2. rows' = rows \/ (IsWaiting(id) /\ rows' = Stored(id))
    BY <1>7, <2>1 DEF Answered, Settle
  <2>3. CASE rows' = rows
    BY <1>1, <2>3
  <2>4. CASE IsWaiting(id) /\ rows' = Stored(id)
    <3>1. PICK rs : rs = Stored(id)
      OBVIOUS
    <3>2. id \in DOMAIN calls
      BY <2>4 DEF IsWaiting
    <3>3. Renews(rs)
      BY <3>1, <3>2, StoredRenews
    <3> QED
      BY <2>4, <3>1, <3>3
  <2> QED
    BY <2>2, <2>3, <2>4
<1>8. ASSUME NEW id \in DOMAIN calls, RemoteEnds(id) PROVE Renews(rows')
  <2>1. rows' = rows \/ rows' = Stored(id)
    BY <1>8 DEF RemoteEnds, Settle
  <2>2. PICK rs : rs = Stored(id)
    OBVIOUS
  <2>3. Renews(rs)
    BY <2>2, StoredRenews
  <2> QED
    BY <1>1, <2>1, <2>2, <2>3
<1>9. CASE Restart
  <2>1. PICK rs : rs = rows'
    OBVIOUS
  <2>2. rs \in {rows} \cup CutShort /\ TypeInv
    BY <1>9, <2>1 DEF Restart, IInv
  <2>3. \A i \in Rows : rs[i].vector = rows[i].vector \/ rs[i].vector = NoVector
    BY <2>2, LeftIs
  <2> QED
    BY <2>1, <2>3, KeptRenews
<1>10. CASE UNCHANGED vars
  <2>1. rows' = rows
    BY <1>10 DEF vars
  <2> QED
    BY <1>1, <2>1
<1> QED
  BY <1>2, <1>3, <1>4, <1>5, <1>6, <1>7, <1>8, <1>9, <1>10 DEF Next

\* A vector is replaced by one of an older text only by a backfill, which read
\* the text before the change, or by a remote provider, whose answers may come
\* in any order: the local worker's recall queries overtake documents, and no
\* document overtakes another (enqueue, drain, LocalProvider.embed).
THEOREM NewestVectorWins == Spec => NewestWins
<1>1. Spec => []OrderInv
  <2>1. Init => OrderInv
    BY InitOrders
  <2>2. IInv /\ OrderInv /\ [Next]_vars => OrderInv'
    BY NextOrders
  <2> QED
    BY <2>1, <2>2, EmbeddingsInvariant, PTL DEF Spec
<1>2. IInv /\ OrderInv /\ [Next]_vars =>
          [\A i \in Rows : rows'[i].vector # NoVector /\ rows'[i].vector.text < rows[i].vector.text =>
               rows'[i].vector.by \in {"backfill", "remote"}]_vars
  BY EachRenews DEF Renews
<1> QED
  BY <1>1, <1>2, EmbeddingsInvariant, PTL DEF Spec, NewestWins
=============================================================================
