------------------------- MODULE DistillationProofs -------------------------
(* Theorems about Distillation, for every value of its constants. *)
EXTENDS Distillation, SequenceTheorems, TLAPS

-----------------------------------------------------------------------------
(* Types. *)

LEMMA AnySessionType == AnySession \in Sessions
BY ConstantsAssumption DEF AnySession

LEMMA CallsType == Calls \subseteq Arguments
BY ConstantsAssumption DEF Calls, Arguments, Run, Incremental, IdleRun, UrgentRun, BustRun, IdleMeta

LEMMA NewJobType ==
    ASSUME NEW phase \in {"none", "waiting"}, NEW s \in Sessions, NEW call \in Arguments
    PROVE  NewJob(phase, s, call) \in Job
BY DEF NewJob, Job

LEMMA NoJobType == NoJob \in Job
BY AnySessionType, CallsType, NewJobType DEF NoJob, Calls

\* The table of calls keeps its type when one call goes on as j.
LEMMA ContinueType ==
    ASSUME TypeOK, NEW c \in CallIds, NEW j \in Job, Continue(c, j)
    PROVE  job' \in [CallIds -> Job]
BY DEF TypeOK, Continue

LEMMA FinishType ==
    ASSUME TypeOK, NEW c \in CallIds, Finish(c)
    PROVE  job' \in [CallIds -> Job]
BY NoJobType, ContinueType DEF Finish

LEMMA DequeueType ==
    ASSUME TypeOK, NEW c \in CallIds, NEW s \in Sessions, Dequeue(c, s)
    PROVE  queue' \in [Sessions -> Seq(CallIds)]
<1>1. Tail(queue[s]) \in Seq(CallIds)
  BY HeadTailProperties DEF TypeOK, Dequeue
<1>. QED BY <1>1 DEF TypeOK, Dequeue

LEMMA ToConsolidateRows ==
    ASSUME NEW s
    PROVE  ToConsolidate(s) \subseteq Gen0(s)
BY DEF ToConsolidate

LEMMA SendMetaType ==
    ASSUME TypeOK, NEW c \in CallIds, SendMeta(c)
    PROVE  job' \in [CallIds -> Job]
<1>. DEFINE s == job[c].ses
            j(g) == [job[c] EXCEPT !.phase = "consolidating", !.merge = ToConsolidate(s), !.anchor = g]
<1>1. PICK g \in {0} \cup {r.gen : r \in Metas(s)} : Continue(c, j(g))
  BY DEF SendMeta
<1>2. g \in Nat
  BY DEF TypeOK, Metas, RowsOf, Row
<1>3. ToConsolidate(s) \in SUBSET Row
  BY ToConsolidateRows DEF TypeOK, Gen0, RowsOf
<1>4. job[c] \in Job
  BY DEF TypeOK
<1>5. j(g) \in Job
  BY <1>2, <1>3, <1>4 DEF Job, Active
<1>. QED BY <1>1, <1>5, ContinueType

LEMMA AfterSegmentType ==
    ASSUME TypeOK, NEW c \in CallIds, AfterSegment(c)
    PROVE  job' \in [CallIds -> Job]
<1>1. [job[c] EXCEPT !.phase = "segments", !.seg = {}] \in Job
  BY DEF TypeOK, Job, Active
<1>. QED BY <1>1, ContinueType DEF AfterSegment

LEMMA AfterMetaType ==
    ASSUME TypeOK, NEW c \in CallIds, AfterMeta(c)
    PROVE  job' \in [CallIds -> Job]
<1>1. [job[c] EXCEPT !.phase = "roundEnd", !.merge = {}, !.anchor = 0] \in Job
  BY DEF TypeOK, Job, Active
<1>. QED BY <1>1, FinishType, ContinueType DEF AfterMeta

LEMMA TypeInit == Init => TypeOK
BY ConstantsAssumption, AnySessionType, NoJobType DEF Init, TypeOK

\* Every action keeps the type invariant.
LEMMA TypeNext == TypeOK /\ [Next]_vars => TypeOK'
<1>. SUFFICES ASSUME TypeOK, [Next]_vars PROVE TypeOK'
  OBVIOUS
<1>. USE DEF messageVars, otherVars
<1>0. \A c \in CallIds : job[c] \in Job /\ job[c].ses \in Sessions
  BY DEF TypeOK, Job
<1>a. \A c \in CallIds : job[c].seg \in SUBSET Messages /\ job[c].merge \in SUBSET Row
                        /\ job[c].anchor \in Nat /\ job[c].round \in Nat
  BY <1>0 DEF Job
<1>1. ASSUME NEW s \in Sessions, NEW m \in Messages, Store(s, m) PROVE TypeOK'
  <2>1. CASE m \in stored
    BY <1>1, <2>1 DEF Store, TypeOK
  <2>2. CASE m \notin stored
    <3>1. stored' \in SUBSET Messages /\ distilled' \in SUBSET stored'
      BY <1>1, <2>2 DEF Store, TypeOK
    <3>2. owner' \in [Messages -> Sessions] /\ at' \in [Messages -> Nat]
      BY <1>1, <2>2 DEF Store, TypeOK
    <3>3. clock' \in Nat \ {0} /\ stores' \in Nat
      BY <1>1, <2>2 DEF Store, TypeOK
    <3>. QED BY <1>1, <3>1, <3>2, <3>3 DEF Store, TypeOK
  <2>. QED BY <2>1, <2>2
<1>2. ASSUME NEW c \in CallIds, NEW s \in Sessions, NEW call \in Calls, Submit(c, s, call)
      PROVE  TypeOK'
  <2>1. job' \in [CallIds -> Job]
    BY <1>2, CallsType, NewJobType, ContinueType DEF Submit
  <2>. QED BY <1>2, <2>1 DEF Submit, TypeOK
<1>3. ASSUME NEW c \in CallIds, StartRun(c) PROVE TypeOK'
  <2>. DEFINE pending == Pending(job[c].ses) \cup Orphans(job[c].ses)
  <2>1. queue' \in [Sessions -> Seq(CallIds)]
    BY <1>0, <1>3, DequeueType DEF StartRun
  <2>2. [job[c] EXCEPT !.phase = "segments", !.todo = pending] \in Job
    BY <1>0 DEF TypeOK, Job, Active, Pending, Orphans
  <2>3. job' \in [CallIds -> Job]
    BY <1>3, <2>2, FinishType, ContinueType DEF StartRun
  <2>. QED BY <1>3, <2>1, <2>3 DEF StartRun, TypeOK
<1>4. ASSUME NEW c \in CallIds, StartMeta(c) PROVE TypeOK'
  <2>1. queue' \in [Sessions -> Seq(CallIds)]
    BY <1>0, <1>4, DequeueType DEF StartMeta
  <2>2. job' \in [CallIds -> Job]
    BY <1>4, FinishType, SendMetaType DEF StartMeta
  <2>. QED BY <1>4, <2>1, <2>2 DEF StartMeta, TypeOK
<1>5. ASSUME NEW c \in CallIds, NEW seg \in SUBSET job[c].todo, TinySegment(c, seg)
      PROVE  TypeOK'
  <2>1. [job[c] EXCEPT !.todo = @ \ seg] \in Job
    BY <1>0 DEF Job
  <2>2. job' \in [CallIds -> Job]
    BY <1>5, <2>1, ContinueType DEF TinySegment
  <2>. QED BY <1>5, <2>2 DEF TinySegment, TypeOK
<1>6. ASSUME NEW c \in CallIds, NEW seg \in SUBSET job[c].todo, SendSegment(c, seg)
      PROVE  TypeOK'
  <2>1. [job[c] EXCEPT !.phase = "distilling", !.seg = seg, !.todo = @ \ seg] \in Job
    BY <1>0 DEF Job, Active
  <2>2. job' \in [CallIds -> Job]
    BY <1>6, <2>1, ContinueType DEF SendSegment
  <2>. QED BY <1>6, <2>2 DEF SendSegment, TypeOK
<1>7. ASSUME NEW c \in CallIds, RoundMeta(c) PROVE TypeOK'
  <2>1. [job[c] EXCEPT !.phase = "roundEnd"] \in Job
    BY <1>0 DEF Job, Active
  <2>2. job' \in [CallIds -> Job]
    BY <1>7, <2>1, SendMetaType, ContinueType DEF RoundMeta
  <2>. QED BY <1>7, <2>2 DEF RoundMeta, TypeOK
<1>8. ASSUME NEW c \in CallIds, EndRound(c) PROVE TypeOK'
  <2>0. Pending(job[c].ses) \in SUBSET Messages
    BY DEF TypeOK, Pending
  <2>1. [job[c] EXCEPT !.phase = "segments", !.round = @ + 1, !.todo = Pending(job[c].ses)] \in Job
    <3>. DEFINE r == job[c].round + 1
                todo == Pending(job[c].ses)
    <3>1. r \in Nat /\ todo \in SUBSET Messages
      BY <1>a, <2>0
    <3>. HIDE DEF r, todo
    <3>2. [job[c] EXCEPT !.phase = "segments", !.round = r, !.todo = todo] \in Job
      BY <1>0, <3>1 DEF Job, Active
    <3>. QED BY <3>2 DEF r, todo
  <2>2. job' \in [CallIds -> Job]
    BY <1>8, <2>1, FinishType, ContinueType DEF EndRound
  <2>. QED BY <1>8, <2>2 DEF EndRound, TypeOK
<1>9. ASSUME NEW c \in CallIds, SegmentFailed(c) PROVE TypeOK'
  BY <1>9, AfterSegmentType DEF SegmentFailed, TypeOK
<1>10. ASSUME NEW c \in CallIds, SegmentExpanded(c) PROVE TypeOK'
  BY <1>10, AfterSegmentType DEF SegmentExpanded, TypeOK
<1>11. ASSUME NEW c \in CallIds, SegmentStored(c) PROVE TypeOK'
  <2>1. SegmentRow(c) \in Row
    BY <1>0, <1>a DEF SegmentRow, TypeOK, Row
  <2>2. rows' \in SUBSET Row /\ clock' \in Nat \ {0}
    BY <1>11, <2>1 DEF SegmentStored, TypeOK
  <2>. QED BY <1>11, <2>2, AfterSegmentType DEF SegmentStored, TypeOK
<1>12. ASSUME NEW c \in CallIds, MetaFailed(c) PROVE TypeOK'
  BY <1>12, AfterMetaType DEF MetaFailed, TypeOK
<1>13. ASSUME NEW c \in CallIds, MetaStored(c) PROVE TypeOK'
  <2>1. \A ids : Archive(ids) \subseteq Row
    BY DEF Archive, TypeOK, Row
  <2>2. MergedSources(c) \in SUBSET Messages
    BY <1>a DEF Row, MergedSources
  <2>3. MetaRow(c) \in Row
    BY <1>0, <1>a, <2>2 DEF MetaRow, TypeOK, Row
  <2>4. rows' \in SUBSET Row /\ clock' \in Nat \ {0}
    BY <1>13, <2>1, <2>3 DEF MetaStored, TypeOK
  <2>5. job' \in [CallIds -> Job]
    BY <1>13, AfterMetaType DEF MetaStored
  <2>. QED BY <1>13, <2>4, <2>5 DEF MetaStored, TypeOK
<1>14. ASSUME NEW c \in CallIds, Throw(c) PROVE TypeOK'
  BY <1>14, FinishType DEF Throw, TypeOK
<1>15. ASSUME NEW cutoff \in 0 .. clock, Prune(cutoff) PROVE TypeOK'
  BY <1>15 DEF Prune, Remove, TypeOK
<1>16. ASSUME Edit PROVE TypeOK'
  BY <1>16 DEF Edit, DeleteDistillation, DeleteSession, ClearTemporal, ClearDistillations,
               UserEdit, Remove, RowsOf, TypeOK
<1>17. ASSUME Crash PROVE TypeOK'
  <2>1. job' \in [CallIds -> Job] /\ queue' \in [Sessions -> Seq(CallIds)]
    BY <1>17, NoJobType DEF Crash
  <2>. QED BY <1>17, <2>1 DEF Crash, TypeOK
<1>18. ASSUME Restart PROVE TypeOK'
  BY <1>18 DEF Restart, TypeOK
<1>19. CASE UNCHANGED vars
  BY <1>19 DEF vars, TypeOK
<1>. QED
  BY <1>1, <1>2, <1>3, <1>4, <1>5, <1>6, <1>7, <1>8, <1>9, <1>10, <1>11, <1>12, <1>13,
     <1>14, <1>15, <1>16, <1>17, <1>18, <1>19
  DEF Next, Step, Answer

\* Type correctness of every reachable state.
THEOREM TypeCorrect == Spec => []TypeOK
BY TypeInit, TypeNext, PTL DEF Spec

-----------------------------------------------------------------------------
(* The inductive invariant behind the agreement of marks and rows.          *)
(* Across an await a call acts on what it read before, so the invariant     *)
(* speaks of what each call in progress still holds: nothing it is about to *)
(* summarise is covered already, and what it is about to merge is marked.   *)

\* p-limit(1): the slot of a session has at most one holder.
Exclusive ==
    \A c, d \in CallIds :
        job[c].phase \in Active /\ job[d].phase \in Active /\ job[c].ses = job[d].ses => c = d

\* What a call holds between two awaits.
CallInv(c) ==
    /\ job[c].phase # "distilling" => job[c].seg = {}
    /\ job[c].phase # "consolidating" => job[c].merge = {}
    /\ job[c].phase \notin {"segments", "distilling"} => job[c].todo = {}
    /\ job[c].todo \cap job[c].seg = {}
    /\ job[c].todo \cup job[c].seg \cup MergedSources(c) \subseteq stored \cup gone
    /\ (job[c].todo \cup job[c].seg) \cap Covered(job[c].ses) \subseteq gone
    /\ MergedSources(c) \cap Pending(job[c].ses) \subseteq gone

\* What the two tables say of each other.
TablesInv ==
    /\ \A s \in Sessions : Covered(s) \subseteq stored \cup gone
    /\ NoCoveredPending
    /\ NoDuplicateDistillation

IInv == TypeOK /\ Exclusive /\ (\A c \in CallIds : CallInv(c)) /\ TablesInv

LEMMA InitIInv == Init => IInv
<1>. SUFFICES ASSUME Init PROVE IInv
  OBVIOUS
<1>1. TypeOK
  BY TypeInit
<1>2. \A c \in CallIds : job[c] = NoJob
  BY DEF Init
<1>3. NoJob.phase = "none" /\ NoJob.todo = {} /\ NoJob.seg = {} /\ NoJob.merge = {}
  BY DEF NoJob, NewJob
<1>4. Exclusive
  BY <1>2, <1>3 DEF Exclusive, Active
<1>5. \A c \in CallIds : CallInv(c)
  BY <1>2, <1>3 DEF CallInv, MergedSources
<1>6. TablesInv
  BY DEF Init, TablesInv, NoCoveredPending, NoDuplicateDistillation, Covered, RowsOf, Pending
<1>. QED BY <1>1, <1>4, <1>5, <1>6 DEF IInv

\* A call that holds nothing satisfies its invariant.
LEMMA RestingCall ==
    ASSUME NEW c \in CallIds, job'[c].todo = {}, job'[c].seg = {}, job'[c].merge = {}
    PROVE  CallInv(c)'
BY DEF CallInv, MergedSources

\* A step of the tables alone: rows may vanish, messages may move to gone, and
\* only ids that were not stored may become pending.
LEMMA EditPreserves ==
    ASSUME IInv, TypeOK', UNCHANGED job, rows' \subseteq rows, gone \subseteq gone',
           stored \cup gone \subseteq stored' \cup gone',
           \A s \in Sessions : Pending(s)' \subseteq Pending(s) \cup (Messages \ stored)
    PROVE  IInv'
<1>1. \A s : Covered(s)' \subseteq Covered(s)
  BY DEF Covered, RowsOf
<1>2. Exclusive'
  BY DEF IInv, Exclusive
<1>3. ASSUME NEW c \in CallIds PROVE CallInv(c)'
  <2>1. CallInv(c) /\ job[c].ses \in Sessions
    BY DEF IInv, TypeOK, Job
  <2>2. MergedSources(c)' = MergedSources(c)
    BY DEF MergedSources
  <2>3. MergedSources(c) \cap Pending(job[c].ses)' \subseteq gone'
    BY <2>1 DEF CallInv
  <2>4. (job[c].todo \cup job[c].seg) \cap Covered(job[c].ses)' \subseteq gone'
    BY <1>1, <2>1 DEF CallInv
  <2>. QED BY <2>1, <2>2, <2>3, <2>4 DEF CallInv
<1>4. TablesInv'
  <2>1. TablesInv
    BY DEF IInv
  <2>2. \A s \in Sessions : Covered(s)' \subseteq stored' \cup gone'
    BY <1>1, <2>1 DEF TablesInv
  <2>3. \A s \in Sessions : Pending(s)' \cap Covered(s)' \subseteq gone'
    BY <1>1, <2>1 DEF TablesInv, NoCoveredPending
  <2>4. NoDuplicateDistillation'
    BY <2>1 DEF TablesInv, NoDuplicateDistillation
  <2>. QED BY <2>2, <2>3, <2>4 DEF TablesInv, NoCoveredPending
<1>. QED BY <1>2, <1>3, <1>4 DEF IInv

\* No other call holds the slot of c's session.
Alone(c) == \A d \in CallIds \ {c} : job[d].phase \in Active => job[d].ses # job[c].ses

LEMMA ActiveAlone ==
    ASSUME IInv, NEW c \in CallIds, job[c].phase \in Active
    PROVE  Alone(c)
BY DEF IInv, Exclusive, Alone

LEMMA DequeueAlone ==
    ASSUME NEW c \in CallIds, Dequeue(c, job[c].ses)
    PROVE  Alone(c)
BY DEF Dequeue, Holders, Alone

\* A step of one call, which touches the rows and marks of its session only.
LEMMA CallPreserves ==
    ASSUME IInv, TypeOK', NEW c \in CallIds, NEW j \in Job, Continue(c, j),
           Alone(c), j.phase \in Active => j.ses = job[c].ses,
           UNCHANGED <<stored, gone>>,
           \A s \in Sessions \ {job[c].ses} :
               Covered(s)' \subseteq Covered(s) /\ Pending(s)' \subseteq Pending(s),
           CallInv(c)', TablesInv'
    PROVE  IInv'
<1>1. job'[c] = j /\ \A d \in CallIds \ {c} : job'[d] = job[d]
  BY DEF IInv, TypeOK, Continue
<1>2. Exclusive'
  BY <1>1 DEF IInv, Exclusive, Alone
<1>3. ASSUME NEW d \in CallIds \ {c} PROVE CallInv(d)'
  <2>1. CallInv(d) /\ job[d].ses \in Sessions
    BY DEF IInv, TypeOK, Job
  <2>2. job'[d] = job[d] /\ MergedSources(d)' = MergedSources(d)
    BY <1>1 DEF MergedSources
  <2>3. CASE job[d].phase \notin Active
    BY <2>1, <2>2, <2>3, RestingCall DEF CallInv, Active
  <2>4. CASE job[d].phase \in Active
    <3>1. PICK s \in Sessions \ {job[c].ses} : job[d].ses = s
      BY <2>1, <2>4 DEF Alone
    <3>2. Covered(s)' \subseteq Covered(s) /\ Pending(s)' \subseteq Pending(s)
      BY <3>1
    <3>3. job'[d].ses = s
      BY <2>2, <3>1
    <3>. QED BY <2>1, <2>2, <3>1, <3>2, <3>3 DEF CallInv
  <2>. QED BY <2>3, <2>4
<1>. QED BY <1>2, <1>3 DEF IInv

\* What a call may hold after a step that leaves the rows as they are: less of
\* what it held, what is pending now, and rows of its session to merge.
Holds(c, j) ==
    \/ j.todo = {} /\ j.seg = {} /\ j.merge = {}
    \/ /\ j.ses = job[c].ses
       /\ j.phase # "distilling" => j.seg = {}
       /\ j.phase # "consolidating" => j.merge = {}
       /\ j.phase \notin {"segments", "distilling"} => j.todo = {}
       /\ j.todo \cap j.seg = {}
       /\ j.todo \cup j.seg \subseteq job[c].todo \cup job[c].seg \cup Pending(job[c].ses)
       /\ j.merge \subseteq RowsOf(job[c].ses)

LEMMA MarkPreserves ==
    ASSUME IInv, TypeOK', NEW c \in CallIds, NEW j \in Job, Continue(c, j),
           Alone(c), j.phase \in Active => j.ses = job[c].ses, Holds(c, j),
           UNCHANGED <<stored, owner, gone, rows>>, distilled \subseteq distilled'
    PROVE  IInv'
<1>a. PICK s \in Sessions : s = job[c].ses
  BY DEF IInv, TypeOK, Job
<1>0. CallInv(c) /\ TablesInv
  BY DEF IInv
<1>1. job'[c] = j
  BY DEF IInv, TypeOK, Continue
<1>2. \A t : Covered(t)' = Covered(t)
  BY DEF Covered, RowsOf
<1>3. \A t : Pending(t)' \subseteq Pending(t)
  BY DEF Pending
<1>4. TablesInv'
  <2>1. \A t \in Sessions : Covered(t)' \subseteq stored' \cup gone'
    BY <1>0, <1>2 DEF TablesInv
  <2>2. \A t \in Sessions : Pending(t)' \cap Covered(t)' \subseteq gone'
    BY <1>0, <1>2, <1>3 DEF TablesInv, NoCoveredPending
  <2>3. NoDuplicateDistillation'
    BY <1>0 DEF TablesInv, NoDuplicateDistillation
  <2>. QED BY <2>1, <2>2, <2>3 DEF TablesInv, NoCoveredPending
<1>5. CallInv(c)'
  <2>1. CASE j.todo = {} /\ j.seg = {} /\ j.merge = {}
    BY <1>1, <2>1, RestingCall
  <2>2. CASE ~(j.todo = {} /\ j.seg = {} /\ j.merge = {})
    <3>1. j.ses = s /\ MergedSources(c)' \subseteq Covered(s)
      BY <1>a, <1>1, <2>2 DEF Holds, MergedSources, Covered
    <3>2. Covered(s) \subseteq stored \cup gone /\ Pending(s) \cap Covered(s) \subseteq gone
      BY <1>0 DEF TablesInv, NoCoveredPending
    <3>3. Pending(s) \subseteq stored
      BY DEF Pending
    <3>4. j.todo \cup j.seg \cup MergedSources(c)' \subseteq stored' \cup gone'
      BY <1>a, <1>0, <2>2, <3>1, <3>2, <3>3 DEF Holds, CallInv
    <3>5. (j.todo \cup j.seg) \cap Covered(s)' \subseteq gone'
      BY <1>a, <1>0, <1>2, <2>2, <3>2 DEF Holds, CallInv
    <3>6. MergedSources(c)' \cap Pending(s)' \subseteq gone'
      BY <1>3, <3>1, <3>2
    <3>. QED BY <1>1, <2>2, <3>1, <3>4, <3>5, <3>6 DEF Holds, CallInv
  <2>. QED BY <2>1, <2>2
<1>. QED BY <1>a, <1>2, <1>3, <1>4, <1>5, CallPreserves

\* What run reads at its start is what it may summarise: the pending messages,
\* and the orphans, which no row covers by definition.
LEMMA StartRunPreserves ==
    ASSUME IInv, TypeOK', NEW c \in CallIds, StartRun(c)
    PROVE  IInv'
<1>a. PICK s \in Sessions : s = job[c].ses
  BY DEF IInv, TypeOK, Job
<1>. USE DEF messageVars, otherVars
<1>1. /\ Alone(c)
      /\ rows' = rows /\ stored' = stored /\ gone' = gone /\ owner' = owner
      /\ distilled' = distilled \ Orphans(s)
  BY <1>a, DequeueAlone DEF StartRun
<1>2. \A t : Covered(t)' = Covered(t)
  BY <1>1 DEF Covered, RowsOf
<1>3. \A t : t # s => Pending(t)' \subseteq Pending(t)
  BY <1>1 DEF Pending, Orphans
<1>4. Pending(s)' \subseteq Pending(s) \cup Orphans(s)
  BY <1>1 DEF Pending, Orphans
<1>5. Orphans(s) \cap Covered(s) = {} /\ Orphans(s) \subseteq stored
  BY DEF Orphans, IInv, TypeOK
<1>6. CallInv(c) /\ TablesInv
  BY DEF IInv
<1>7. TablesInv'
  <2>1. \A t \in Sessions : Covered(t)' \subseteq stored' \cup gone'
    BY <1>1, <1>2, <1>6 DEF TablesInv
  <2>2. ASSUME NEW t \in Sessions PROVE Pending(t)' \cap Covered(t)' \subseteq gone'
    BY <1>1, <1>2, <1>3, <1>4, <1>5, <1>6 DEF TablesInv, NoCoveredPending
  <2>3. NoDuplicateDistillation'
    BY <1>1, <1>6 DEF TablesInv, NoDuplicateDistillation
  <2>. QED BY <2>1, <2>2, <2>3 DEF TablesInv, NoCoveredPending
<1>8. CASE Continue(c, NoJob)
  <2>1. job'[c] = NoJob
    BY <1>8 DEF IInv, TypeOK, Continue
  <2>2. CallInv(c)'
    BY <2>1, RestingCall DEF NoJob, NewJob
  <2>3. NoJob.phase \notin Active
    BY DEF NoJob, NewJob, Active
  <2>. QED BY <1>a, <1>1, <1>2, <1>3, <1>7, <1>8, <2>2, <2>3, NoJobType, CallPreserves
<1>9. CASE ~Continue(c, NoJob)
  <2>. DEFINE todo == Pending(s) \cup Orphans(s)
              j == [job[c] EXCEPT !.phase = "segments", !.todo = todo]
  <2>1. Continue(c, j)
    BY <1>a, <1>9 DEF StartRun, Finish
  <2>2. todo \subseteq Messages /\ todo \subseteq stored
    BY <1>5 DEF IInv, TypeOK, Pending
  <2>3. j \in Job /\ job[c] \in Job /\ j.ses = s
    <3>. HIDE DEF todo
    <3>1. job[c] \in Job
      BY DEF IInv, TypeOK
    <3>. QED BY <1>a, <2>2, <3>1 DEF Job, Active
  <2>4. job[c].phase = "waiting"
    BY DEF StartRun
  <2>5. job[c].seg = {} /\ job[c].merge = {}
    BY <1>6, <2>4 DEF CallInv
  <2>6. j.phase = "segments" /\ j.seg = {} /\ j.merge = {} /\ j.todo = todo
    BY <2>3, <2>5 DEF Job
  <2>7. job'[c] = j
    BY <2>1 DEF IInv, TypeOK, Continue
  <2>8. todo \cap Covered(s) \subseteq gone
    BY <1>5, <1>6 DEF TablesInv, NoCoveredPending
  <2>9. CallInv(c)'
    <3>. HIDE DEF j, todo
    <3>1. MergedSources(c)' = {}
      BY <2>6, <2>7 DEF MergedSources
    <3>2. todo \cap Covered(s)' \subseteq gone'
      BY <1>1, <1>2, <2>8
    <3>. QED BY <1>1, <2>2, <2>3, <2>6, <2>7, <3>1, <3>2 DEF CallInv
  <2>. HIDE DEF j
  <2>. QED BY <1>a, <1>1, <1>2, <1>3, <1>7, <2>1, <2>3, <2>9, CallPreserves
<1>. QED BY <1>8, <1>9

\* The new row covers what was uncovered, and the same transaction marks it.
LEMMA SegmentStoredPreserves ==
    ASSUME IInv, TypeOK', NEW c \in CallIds, SegmentStored(c)
    PROVE  IInv'
<1>a. PICK s \in Sessions : s = job[c].ses
  BY DEF IInv, TypeOK, Job
<1>. USE DEF messageVars, otherVars
<1>. DEFINE seg == job[c].seg
            todo == job[c].todo
            row == SegmentRow(c)
            j == [job[c] EXCEPT !.phase = "segments", !.seg = {}]
<1>1. /\ job[c].phase = "distilling"
      /\ rows' = rows \cup {row} /\ stored' = stored /\ gone' = gone /\ owner' = owner
      /\ distilled' = distilled \cup (seg \cap stored)
      /\ Continue(c, j)
  BY DEF SegmentStored, AfterSegment
<1>2. row.ses = s /\ row.gen = 0 /\ row.src = seg
  BY <1>a DEF SegmentRow
<1>3. j \in Job /\ job[c] \in Job
  BY DEF IInv, TypeOK, Job, Active
<1>4. j.phase = "segments" /\ j.seg = {} /\ j.ses = s /\ j.todo = todo /\ j.merge = job[c].merge
  BY <1>a, <1>3 DEF Job
<1>5. job'[c] = j
  BY <1>1 DEF IInv, TypeOK, Continue
<1>6. CallInv(c) /\ TablesInv
  BY DEF IInv
<1>7. Alone(c)
  BY <1>1, ActiveAlone DEF Active
<1>. HIDE DEF j, row
<1>8. \A t : t # s => Covered(t)' = Covered(t)
  BY <1>1, <1>2 DEF Covered, RowsOf
<1>9. Covered(s)' = Covered(s) \cup seg
  BY <1>1, <1>2 DEF Covered, RowsOf
<1>10. \A t : Pending(t)' \subseteq Pending(t)
  BY <1>1 DEF Pending
<1>11. Pending(s)' \cap seg = {}
  BY <1>1 DEF Pending
<1>12. seg \subseteq stored \cup gone /\ seg \cap todo = {} /\ (todo \cup seg) \cap Covered(s) \subseteq gone
       /\ todo \subseteq stored \cup gone /\ job[c].merge = {}
  BY <1>a, <1>1, <1>6 DEF CallInv
<1>13. TablesInv'
  <2>1. ASSUME NEW t \in Sessions PROVE Covered(t)' \subseteq stored' \cup gone'
    BY <1>1, <1>6, <1>8, <1>9, <1>12 DEF TablesInv
  <2>2. ASSUME NEW t \in Sessions PROVE Pending(t)' \cap Covered(t)' \subseteq gone'
    BY <1>1, <1>6, <1>8, <1>9, <1>10, <1>11 DEF TablesInv, NoCoveredPending
  <2>3. NoDuplicateDistillation'
    <3>1. \A r \in rows : r.ses = s => r.src \subseteq Covered(s)
      BY DEF Covered, RowsOf
    <3>2. \A r \in rows : r.ses = s => r.src \cap row.src \subseteq gone
      BY <1>2, <1>12, <3>1
    <3>. QED BY <1>1, <1>2, <1>6, <3>2 DEF TablesInv, NoDuplicateDistillation
  <2>. QED BY <2>1, <2>2, <2>3 DEF TablesInv, NoCoveredPending
<1>14. CallInv(c)'
  <2>1. MergedSources(c)' = {}
    BY <1>4, <1>5, <1>12 DEF MergedSources
  <2>2. todo \cap Covered(s)' \subseteq gone'
    BY <1>1, <1>9, <1>12
  <2>. QED BY <1>1, <1>4, <1>5, <1>12, <2>1, <2>2 DEF CallInv
<1>15. \A t \in Sessions \ {job[c].ses} :
           Covered(t)' \subseteq Covered(t) /\ Pending(t)' \subseteq Pending(t)
  BY <1>a, <1>8, <1>10
<1>. QED BY <1>a, <1>1, <1>3, <1>4, <1>7, <1>13, <1>14, <1>15, CallPreserves

LEMMA ArchiveKeeps ==
    ASSUME rows \subseteq Row, NEW ids, NEW q \in Archive(ids)
    PROVE  \E r \in rows :
               /\ q = [r EXCEPT !.archived = r.archived \/ r.id \in ids]
               /\ q.id = r.id /\ q.ses = r.ses /\ q.gen = r.gen /\ q.src = r.src
<1>1. PICK r \in rows : q = [r EXCEPT !.archived = r.archived \/ r.id \in ids]
  BY Zenon DEF Archive
<1>2. ASSUME NEW b PROVE LET p == [r EXCEPT !.archived = b]
                         IN  p.id = r.id /\ p.ses = r.ses /\ p.gen = r.gen /\ p.src = r.src
  BY DEF Row
<1>3. q.id = r.id /\ q.ses = r.ses /\ q.gen = r.gen /\ q.src = r.src
  BY <1>1, <1>2, Zenon
<1>. QED BY <1>1, <1>3, Zenon

\* The consolidated row covers what its inputs covered, and those were marked:
\* archiving hides rows but forgets no source.
LEMMA MetaStoredPreserves ==
    ASSUME IInv, TypeOK', NEW c \in CallIds, MetaStored(c)
    PROVE  IInv'
<1>a. PICK s \in Sessions : s = job[c].ses
  BY DEF IInv, TypeOK, Job
<1>. USE DEF messageVars, otherVars
<1>. DEFINE ids == {r.id : r \in job[c].merge}
            row == MetaRow(c)
            merged == MergedSources(c)
            k == [job[c] EXCEPT !.phase = "roundEnd", !.merge = {}, !.anchor = 0]
<1>1. /\ job[c].phase = "consolidating"
      /\ rows' = Archive(ids) \cup {row} /\ stored' = stored /\ gone' = gone /\ owner' = owner
      /\ distilled' = distilled
  BY DEF MetaStored
<1>2. row.ses = s /\ row.gen > 0 /\ row.src = merged
  BY <1>a DEF MetaRow, IInv, TypeOK, Job
<1>3. k \in Job /\ job[c] \in Job
  BY DEF IInv, TypeOK, Job, Active
<1>4. CallInv(c) /\ TablesInv /\ rows \subseteq Row
  BY DEF IInv, TypeOK
<1>5. Alone(c)
  BY <1>1, ActiveAlone DEF Active
<1>6. PICK j \in Job : /\ Continue(c, j) /\ j.todo = {} /\ j.seg = {} /\ j.merge = {}
                       /\ j.phase \in Active => j.ses = job[c].ses
  <2>1. CASE Continue(c, NoJob)
    BY <2>1, NoJobType DEF NoJob, NewJob, Active
  <2>2. CASE Continue(c, k)
    <3>1. job[c].todo = {} /\ job[c].seg = {}
      BY <1>1, <1>4 DEF CallInv
    <3>2. k.todo = {} /\ k.seg = {} /\ k.merge = {} /\ k.ses = job[c].ses
      BY <1>3, <3>1 DEF Job
    <3>. QED BY <1>3, <2>2, <3>2
  <2>. QED BY <2>1, <2>2 DEF MetaStored, AfterMeta, Finish
<1>. HIDE DEF row, ids, merged
<1>7. \A t \in Sessions : Covered(t)' \subseteq Covered(t) \cup (IF t = s THEN merged ELSE {})
  BY <1>1, <1>2, <1>4, ArchiveKeeps DEF Covered, RowsOf
<1>8. \A t : Pending(t)' = Pending(t)
  BY <1>1 DEF Pending
<1>9. merged \subseteq stored \cup gone /\ merged \cap Pending(s) \subseteq gone
  BY <1>a, <1>4 DEF merged, CallInv
<1>10. CallInv(c)'
  <2>1. job'[c] = j
    BY <1>6 DEF IInv, TypeOK, Continue
  <2>. QED BY <1>6, <2>1, RestingCall
<1>11. TablesInv'
  <2>1. ASSUME NEW t \in Sessions PROVE Covered(t)' \subseteq stored' \cup gone'
    BY <1>1, <1>4, <1>7, <1>9 DEF TablesInv
  <2>2. ASSUME NEW t \in Sessions PROVE Pending(t)' \cap Covered(t)' \subseteq gone'
    <3>1. CASE t = s
      BY <1>1, <1>4, <1>7, <1>8, <1>9, <3>1 DEF TablesInv, NoCoveredPending
    <3>2. CASE t # s
      BY <1>1, <1>4, <1>7, <1>8, <3>2 DEF TablesInv, NoCoveredPending
    <3>. QED BY <3>1, <3>2
  <2>3. NoDuplicateDistillation'
    <3>. SUFFICES ASSUME NEW q1 \in rows', NEW q2 \in rows',
                         q1.ses = q2.ses, q1.gen = 0, q2.gen = 0, q1 # q2
                  PROVE  q1.src \cap q2.src \subseteq gone'
      BY DEF NoDuplicateDistillation
    <3>1. q1 \in Archive(ids) /\ q2 \in Archive(ids)
      BY <1>1, <1>2
    <3>2. PICK r1 \in rows : q1.ses = r1.ses /\ q1.gen = r1.gen /\ q1.src = r1.src
                             /\ q1 = [r1 EXCEPT !.archived = r1.archived \/ r1.id \in ids]
      BY <1>4, <3>1, ArchiveKeeps
    <3>3. PICK r2 \in rows : q2.ses = r2.ses /\ q2.gen = r2.gen /\ q2.src = r2.src
                             /\ q2 = [r2 EXCEPT !.archived = r2.archived \/ r2.id \in ids]
      BY <1>4, <3>1, ArchiveKeeps
    <3>4. r1 # r2
      BY <3>2, <3>3
    <3>. QED BY <1>1, <1>4, <3>2, <3>3, <3>4 DEF TablesInv, NoDuplicateDistillation
  <2>. QED BY <2>1, <2>2, <2>3 DEF TablesInv, NoCoveredPending
<1>12. \A t \in Sessions \ {job[c].ses} :
           Covered(t)' \subseteq Covered(t) /\ Pending(t)' \subseteq Pending(t)
  BY <1>a, <1>7, <1>8
<1>. QED BY <1>a, <1>1, <1>5, <1>6, <1>10, <1>11, <1>12, CallPreserves

\* A call that waits holds nothing yet.
LEMMA SubmitPreserves ==
    ASSUME IInv, TypeOK', NEW c \in CallIds, NEW s \in Sessions, NEW call \in Calls,
           Submit(c, s, call)
    PROVE  IInv'
<1>. DEFINE j == NewJob("waiting", s, call)
<1>1. /\ Continue(c, j) /\ rows' = rows /\ stored' = stored /\ gone' = gone
      /\ owner' = owner /\ distilled' = distilled
  BY DEF Submit, messageVars, otherVars
<1>2. j.phase = "waiting" /\ j.todo = {} /\ j.seg = {} /\ j.merge = {}
  BY DEF NewJob
<1>3. job'[c] = j /\ \A d \in CallIds \ {c} : job'[d] = job[d]
  BY <1>1 DEF IInv, TypeOK, Continue
<1>. HIDE DEF j
<1>4. \A t : Covered(t)' = Covered(t) /\ Pending(t)' = Pending(t)
  BY <1>1 DEF Covered, RowsOf, Pending
<1>5. TablesInv'
  BY <1>1, <1>4 DEF IInv, TablesInv, NoCoveredPending, NoDuplicateDistillation
<1>6. Exclusive'
  BY <1>2, <1>3 DEF IInv, Exclusive, Active
<1>7. ASSUME NEW d \in CallIds PROVE CallInv(d)'
  <2>1. CASE d = c
    BY <1>2, <1>3, <2>1, RestingCall
  <2>2. CASE d # c
    <3>1. PICK t \in Sessions : job[d].ses = t /\ job'[d] = job[d]
      BY <1>3, <2>2 DEF IInv, TypeOK, Job
    <3>2. MergedSources(d)' = MergedSources(d)
      BY <3>1 DEF MergedSources
    <3>. QED BY <1>1, <1>4, <3>1, <3>2 DEF IInv, CallInv
  <2>. QED BY <2>1, <2>2
<1>. QED BY <1>5, <1>6, <1>7 DEF IInv

\* A crash forgets every call; both tables are on disk.
LEMMA CrashPreserves ==
    ASSUME IInv, TypeOK', Crash
    PROVE  IInv'
<1>1. rows' = rows /\ stored' = stored /\ gone' = gone /\ owner' = owner /\ distilled' = distilled
  BY DEF Crash, messageVars
<1>2. \A c \in CallIds : job'[c] = NoJob
  BY DEF Crash
<1>3. NoJob.phase = "none" /\ NoJob.todo = {} /\ NoJob.seg = {} /\ NoJob.merge = {}
  BY DEF NoJob, NewJob
<1>4. \A t : Covered(t)' = Covered(t) /\ Pending(t)' = Pending(t)
  BY <1>1 DEF Covered, RowsOf, Pending
<1>5. TablesInv'
  BY <1>1, <1>4 DEF IInv, TablesInv, NoCoveredPending, NoDuplicateDistillation
<1>6. Exclusive'
  BY <1>2, <1>3 DEF Exclusive, Active
<1>7. \A c \in CallIds : CallInv(c)'
  BY <1>2, <1>3, RestingCall
<1>. QED BY <1>5, <1>6, <1>7 DEF IInv

\* An edit takes messages to gone and lets nothing become pending.
LEMMA RemovePreserves ==
    ASSUME IInv, TypeOK', NEW ms, Remove(ms), rows' \subseteq rows, UNCHANGED <<job, owner>>
    PROVE  IInv'
<1>1. \A s \in Sessions : Pending(s)' \subseteq Pending(s)
  BY DEF Remove, Pending
<1>2. gone \subseteq gone' /\ stored \cup gone \subseteq stored' \cup gone'
  BY DEF Remove
<1>. QED BY <1>1, <1>2, EditPreserves

LEMMA EditsPreserve ==
    ASSUME IInv, TypeOK', Edit
    PROVE  IInv'
<1>. USE DEF UserEdit
<1>1. ASSUME NEW r \in rows, DeleteDistillation(r) PROVE IInv'
  BY <1>1, EditPreserves DEF DeleteDistillation, Pending
<1>2. ASSUME NEW s \in Sessions, DeleteSession(s) PROVE IInv'
  BY <1>2, RemovePreserves DEF DeleteSession
<1>3. ASSUME ClearTemporal PROVE IInv'
  BY <1>3, RemovePreserves DEF ClearTemporal
<1>4. ASSUME ClearDistillations PROVE IInv'
  BY <1>4, EditPreserves DEF ClearDistillations, Pending
<1>. QED BY <1>1, <1>2, <1>3, <1>4 DEF Edit

LEMMA StorePreserves ==
    ASSUME IInv, TypeOK', NEW s \in Sessions, NEW m \in Messages, Store(s, m)
    PROVE  IInv'
<1>1. stored \subseteq stored' /\ gone' = gone /\ rows' = rows /\ job' = job
  BY DEF Store
<1>2. \A t \in Sessions : Pending(t)' \subseteq Pending(t) \cup (Messages \ stored)
  <2>1. CASE m \in stored
    BY <2>1 DEF Store, Pending
  <2>2. CASE m \notin stored
    BY <2>2 DEF Store, Pending, IInv, TypeOK
  <2>. QED BY <2>1, <2>2
<1>. QED BY <1>1, <1>2, EditPreserves

\* The steps of a call that write no row.
LEMMA QuietStepPreserves ==
    ASSUME IInv, TypeOK', NEW c \in CallIds,
           \/ \E seg \in SUBSET job[c].todo : TinySegment(c, seg) \/ SendSegment(c, seg)
           \/ RoundMeta(c) \/ EndRound(c) \/ SegmentFailed(c) \/ SegmentExpanded(c)
           \/ MetaFailed(c) \/ Throw(c) \/ StartMeta(c)
    PROVE  IInv'
<1>. USE DEF messageVars, otherVars
<1>0. job[c] \in Job /\ CallInv(c) /\ job[c].phase \in {"none", "waiting"} \cup Active
  BY DEF IInv, TypeOK, Job
<1>a. NoJob.phase \notin Active /\ Holds(c, NoJob)
  BY DEF NoJob, NewJob, Active, Holds
<1>1. ASSUME NEW seg \in SUBSET job[c].todo, TinySegment(c, seg) PROVE IInv'
  <2>. DEFINE j == [job[c] EXCEPT !.todo = @ \ seg]
  <2>1. job[c].phase = "segments" /\ Continue(c, j)
    BY <1>1 DEF TinySegment, NextSegment
  <2>2. j \in Job /\ j.phase = "segments" /\ j.ses = job[c].ses /\ j.todo = job[c].todo \ seg
        /\ j.seg = job[c].seg /\ j.merge = job[c].merge
    BY <1>0, <2>1 DEF Job
  <2>. HIDE DEF j
  <2>3. Holds(c, j)
    BY <1>0, <2>1, <2>2 DEF Holds, CallInv
  <2>4. Alone(c)
    BY <2>1, ActiveAlone DEF Active
  <2>. QED BY <1>1, <2>1, <2>2, <2>3, <2>4, MarkPreserves DEF TinySegment
<1>2. ASSUME NEW seg \in SUBSET job[c].todo, SendSegment(c, seg) PROVE IInv'
  <2>. DEFINE j == [job[c] EXCEPT !.phase = "distilling", !.seg = seg, !.todo = @ \ seg]
  <2>1. job[c].phase = "segments" /\ Continue(c, j)
    BY <1>2 DEF SendSegment, NextSegment
  <2>2. j \in Job /\ j.phase = "distilling" /\ j.ses = job[c].ses /\ j.todo = job[c].todo \ seg
        /\ j.seg = seg /\ j.merge = job[c].merge
    BY <1>0, <2>1 DEF Job, Active
  <2>. HIDE DEF j
  <2>3. Holds(c, j)
    BY <1>0, <2>1, <2>2 DEF Holds, CallInv
  <2>4. Alone(c)
    BY <2>1, ActiveAlone DEF Active
  <2>. QED BY <1>2, <2>1, <2>2, <2>3, <2>4, MarkPreserves DEF SendSegment
<1>3. ASSUME SendMeta(c), Alone(c), job[c].todo = {}, job[c].seg = {},
             UNCHANGED <<stored, owner, gone, rows, distilled>>
      PROVE  IInv'
  <2>1. PICK g \in {0} \cup {r.gen : r \in Metas(job[c].ses)} :
            Continue(c, [job[c] EXCEPT !.phase = "consolidating", !.merge = ToConsolidate(job[c].ses),
                                       !.anchor = g])
    BY <1>3 DEF SendMeta
  <2>. DEFINE merge == ToConsolidate(job[c].ses)
              j == [job[c] EXCEPT !.phase = "consolidating", !.merge = merge, !.anchor = g]
  <2>2. merge \in SUBSET Row /\ merge \subseteq RowsOf(job[c].ses)
    BY ToConsolidateRows DEF IInv, TypeOK, Gen0, RowsOf
  <2>3. g \in Nat
    BY DEF IInv, TypeOK, Metas, RowsOf, Row
  <2>4. j \in Job /\ j.phase = "consolidating" /\ j.ses = job[c].ses /\ j.todo = {}
        /\ j.seg = {} /\ j.merge = merge
    BY <1>0, <1>3, <2>2, <2>3 DEF Job, Active
  <2>5. Continue(c, j)
    BY <2>1
  <2>. HIDE DEF j, merge
  <2>6. Holds(c, j)
    BY <2>2, <2>4 DEF Holds
  <2>. QED BY <1>3, <2>4, <2>5, <2>6, MarkPreserves
<1>4. ASSUME Finish(c), Alone(c), UNCHANGED <<stored, owner, gone, rows, distilled>>
      PROVE  IInv'
  BY <1>4, <1>a, NoJobType, MarkPreserves DEF Finish
<1>5. ASSUME StartMeta(c) PROVE IInv'
  <2>1. Alone(c) /\ UNCHANGED <<stored, owner, gone, rows, distilled>> /\ job[c].phase = "waiting"
    BY <1>5, DequeueAlone DEF StartMeta
  <2>2. job[c].todo = {} /\ job[c].seg = {}
    BY <1>0, <2>1 DEF CallInv
  <2>. QED BY <1>3, <1>4, <1>5, <2>1, <2>2 DEF StartMeta
<1>6. ASSUME RoundMeta(c) PROVE IInv'
  <2>. DEFINE j == [job[c] EXCEPT !.phase = "roundEnd"]
  <2>1. job[c].phase = "segments" /\ UNCHANGED <<stored, owner, gone, rows, distilled>>
        /\ job[c].todo = {} /\ job[c].seg = {} /\ job[c].merge = {}
    BY <1>0, <1>6 DEF RoundMeta, CallInv
  <2>2. j \in Job /\ j.phase = "roundEnd" /\ j.ses = job[c].ses /\ j.todo = {}
        /\ j.seg = {} /\ j.merge = {}
    BY <1>0, <2>1 DEF Job, Active
  <2>3. Alone(c)
    BY <2>1, ActiveAlone DEF Active
  <2>. HIDE DEF j
  <2>4. Holds(c, j)
    BY <2>2 DEF Holds
  <2>5. CASE Continue(c, j)
    BY <2>1, <2>2, <2>3, <2>4, <2>5, MarkPreserves
  <2>6. CASE SendMeta(c)
    BY <1>3, <2>1, <2>3, <2>6
  <2>. QED BY <1>6, <2>5, <2>6 DEF RoundMeta, j
<1>7. ASSUME EndRound(c) PROVE IInv'
  <2>. DEFINE round == job[c].round + 1
              todo == Pending(job[c].ses)
              j == [job[c] EXCEPT !.phase = "segments", !.round = round, !.todo = todo]
  <2>1. job[c].phase = "roundEnd" /\ UNCHANGED <<stored, owner, gone, rows, distilled>>
        /\ job[c].seg = {} /\ job[c].merge = {}
    BY <1>0, <1>7 DEF EndRound, CallInv
  <2>2. todo \in SUBSET Messages /\ round \in Nat
    BY <1>0 DEF IInv, TypeOK, Pending, Job
  <2>. HIDE DEF todo, round
  <2>3. j \in Job /\ j.phase = "segments" /\ j.ses = job[c].ses /\ j.todo = todo
        /\ j.seg = {} /\ j.merge = {}
    BY <1>0, <2>1, <2>2 DEF Job, Active
  <2>4. Alone(c)
    BY <2>1, ActiveAlone DEF Active
  <2>. HIDE DEF j
  <2>5. Holds(c, j)
    BY <2>3 DEF Holds, todo
  <2>6. CASE Continue(c, j)
    BY <2>1, <2>3, <2>4, <2>5, <2>6, MarkPreserves
  <2>7. CASE Finish(c)
    BY <1>4, <2>1, <2>4, <2>7
  <2>. QED BY <1>7, <2>6, <2>7 DEF EndRound, j, todo, round
<1>8. ASSUME job[c].phase = "distilling", AfterSegment(c), UNCHANGED <<stored, owner, gone, rows>>,
             distilled \subseteq distilled'
      PROVE  IInv'
  <2>. DEFINE j == [job[c] EXCEPT !.phase = "segments", !.seg = {}]
  <2>1. j \in Job /\ j.phase = "segments" /\ j.ses = job[c].ses /\ j.todo = job[c].todo
        /\ j.seg = {} /\ j.merge = job[c].merge
    BY <1>0 DEF Job, Active
  <2>2. Continue(c, j) /\ Alone(c)
    BY <1>8, ActiveAlone DEF AfterSegment, Active
  <2>. HIDE DEF j
  <2>3. Holds(c, j)
    BY <1>0, <1>8, <2>1 DEF Holds, CallInv
  <2>. QED BY <1>8, <2>1, <2>2, <2>3, MarkPreserves
<1>9. ASSUME SegmentFailed(c) \/ SegmentExpanded(c) PROVE IInv'
  BY <1>8, <1>9 DEF SegmentFailed, SegmentExpanded
<1>10. ASSUME MetaFailed(c) PROVE IInv'
  <2>. DEFINE j == [job[c] EXCEPT !.phase = "roundEnd", !.merge = {}, !.anchor = 0]
  <2>1. job[c].phase = "consolidating" /\ UNCHANGED <<stored, owner, gone, rows, distilled>>
    BY <1>10 DEF MetaFailed
  <2>2. job[c].todo = {} /\ job[c].seg = {} /\ Alone(c)
    BY <1>0, <2>1, ActiveAlone DEF CallInv, Active
  <2>3. j \in Job /\ j.phase = "roundEnd" /\ j.ses = job[c].ses /\ j.todo = {}
        /\ j.seg = {} /\ j.merge = {}
    BY <1>0, <2>2 DEF Job, Active
  <2>. HIDE DEF j
  <2>4. Holds(c, j)
    BY <2>3 DEF Holds
  <2>5. CASE Continue(c, j)
    BY <2>1, <2>2, <2>3, <2>4, <2>5, MarkPreserves
  <2>. QED BY <1>4, <1>10, <2>1, <2>2, <2>5 DEF MetaFailed, AfterMeta, j
<1>11. ASSUME Throw(c) PROVE IInv'
  BY <1>4, <1>11, ActiveAlone DEF Throw, Active
<1>. QED BY <1>1, <1>2, <1>5, <1>6, <1>7, <1>9, <1>10, <1>11

\* Every action keeps the inductive invariant.
LEMMA NextIInv == IInv /\ [Next]_vars => IInv'
<1>. SUFFICES ASSUME IInv, [Next]_vars PROVE IInv'
  OBVIOUS
<1>0. TypeOK'
  BY TypeNext DEF IInv
<1>1. ASSUME NEW s \in Sessions, NEW m \in Messages, Store(s, m) PROVE IInv'
  BY <1>0, <1>1, StorePreserves
<1>2. ASSUME NEW c \in CallIds, NEW s \in Sessions, NEW call \in Calls, Submit(c, s, call)
      PROVE  IInv'
  BY <1>0, <1>2, SubmitPreserves
<1>3. ASSUME NEW c \in CallIds, Step(c) PROVE IInv'
  BY <1>0, <1>3, StartRunPreserves, SegmentStoredPreserves, MetaStoredPreserves,
     QuietStepPreserves DEF Step, Answer
<1>4. ASSUME NEW cutoff \in 0 .. clock, Prune(cutoff) PROVE IInv'
  <2>1. PICK ms : Remove(ms)
    BY <1>4 DEF Prune
  <2>. QED BY <1>0, <1>4, <2>1, RemovePreserves DEF Prune
<1>5. CASE Edit
  BY <1>0, <1>5, EditsPreserve
<1>6. CASE Crash
  BY <1>0, <1>6, CrashPreserves
<1>7. CASE Restart
  BY <1>0, <1>7, EditPreserves DEF Restart, messageVars, Pending
<1>8. CASE UNCHANGED vars
  BY <1>0, <1>8, EditPreserves DEF vars, Pending
<1>. QED BY <1>1, <1>2, <1>3, <1>4, <1>5, <1>6, <1>7, <1>8 DEF Next

THEOREM Invariance == Spec => []IInv
BY InitIInv, NextIInv, PTL DEF Spec

\* No message is summarised by two segments of its session, whatever calls
\* interleave, crash, throw or are answered late, and for any number of
\* sessions, messages and calls: distillSegment's BEGIN IMMEDIATE and the
\* session's p-limit(1) are enough.
THEOREM NoDuplicates == Spec => []NoDuplicateDistillation
<1>1. IInv => NoDuplicateDistillation
  BY DEF IInv, TablesInv
<1>. QED BY <1>1, Invariance, PTL

\* A message that waits for distillation is in no row of its session: the
\* distilled flag of temporal_messages and source_ids of distillations agree.
THEOREM MarksAgree == Spec => []NoCoveredPending
<1>1. IInv => NoCoveredPending
  BY DEF IInv, TablesInv
<1>. QED BY <1>1, Invariance, PTL
-----------------------------------------------------------------------------
(* Archiving and retention.  What an archived row covers must stay in sight: *)
(* the row that replaced it carries the same sources, and neither retention  *)
(* nor a later consolidation may separate the two.  A consolidation archives *)
(* by id, after an await, the rows it read before it; the invariant says     *)
(* that these ids still mean those rows, and that they are still in sight.   *)

\* A row's id is a moment before now, and no two rows share one.
IdsInv == \A q, r \in rows : q.id < clock /\ (q.id = r.id => q = r)

\* Message m of row r is in a row of the same session that is not archived.
InSight(r, m) == \E q \in rows : q.ses = r.ses /\ ~q.archived /\ m \in q.src

SightInv ==
    edits = 0 =>
        /\ \A c \in CallIds : job[c].merge \subseteq Gen0(job[c].ses)
        /\ \A r \in rows : \A m \in r.src : InSight(r, m)

ArchiveInv == IdsInv /\ SightInv

LEMMA ArchiveInvInit == Init => ArchiveInv
BY DEF Init, ArchiveInv, IdsInv, SightInv, NoJob, NewJob

\* Being in sight is what PrefixReachesAll asks for.
LEMMA SightReaches == SightInv => PrefixReachesAll
<1>. SUFFICES ASSUME SightInv, edits = 0, NEW s \in Sessions
              PROVE  Covered(s) = UNION {r.src : r \in {q \in RowsOf(s) : ~q.archived}}
  BY DEF PrefixReachesAll
<1>1. ASSUME NEW m \in Covered(s)
      PROVE  m \in UNION {r.src : r \in {q \in RowsOf(s) : ~q.archived}}
  <2>1. PICK r \in rows : r.ses = s /\ m \in r.src
    BY DEF Covered, RowsOf
  <2>2. PICK q \in rows : q.ses = s /\ ~q.archived /\ m \in q.src
    BY <2>1 DEF SightInv, InSight
  <2>. QED BY <2>2 DEF RowsOf
<1>2. UNION {r.src : r \in {q \in RowsOf(s) : ~q.archived}} \subseteq Covered(s)
  BY DEF Covered
<1>. QED BY <1>1, <1>2

\* Where a call may get the rows it is to merge from: it keeps those it has
\* read, or reads them now, or has none.
MergeFrom(c) ==
    \/ job'[c].merge = {}
    \/ job'[c].merge = job[c].merge /\ job'[c].ses = job[c].ses
    \/ job'[c].merge \subseteq Gen0(job'[c].ses)

\* A step that leaves the rows alone.
LEMMA SameRows ==
    ASSUME ArchiveInv, TypeOK, TypeOK', rows' = rows, clock' >= clock, edits' = edits,
           \A c \in CallIds : MergeFrom(c)
    PROVE  ArchiveInv'
<1>1. IdsInv'
  BY DEF ArchiveInv, IdsInv, TypeOK, Row
<1>2. ASSUME edits' = 0, NEW c \in CallIds PROVE (job[c].merge \subseteq Gen0(job[c].ses))'
  BY <1>2 DEF ArchiveInv, SightInv, MergeFrom, Gen0, RowsOf
<1>3. ASSUME edits' = 0, NEW r \in rows', NEW m \in r.src PROVE InSight(r, m)'
  BY <1>3 DEF ArchiveInv, SightInv, InSight
<1>. QED BY <1>1, <1>2, <1>3 DEF ArchiveInv, SightInv

\* One call goes on as j, the others keep what they hold.
LEMMA ContinueMerge ==
    ASSUME TypeOK, NEW c \in CallIds, NEW j, Continue(c, j),
           \/ j.merge = {}
           \/ j.merge = job[c].merge /\ j.ses = job[c].ses
           \/ j.merge \subseteq Gen0(j.ses)
    PROVE  \A d \in CallIds : MergeFrom(d)
BY DEF TypeOK, Continue, MergeFrom

LEMMA FinishMerge ==
    ASSUME TypeOK, NEW c \in CallIds, Finish(c)
    PROVE  \A d \in CallIds : MergeFrom(d)
<1>1. NoJob.merge = {}
  BY DEF NoJob, NewJob
<1>. QED BY <1>1, ContinueMerge DEF Finish

LEMMA SendMetaMerge ==
    ASSUME TypeOK, NEW c \in CallIds, SendMeta(c)
    PROVE  \A d \in CallIds : MergeFrom(d)
<1>. DEFINE merge == ToConsolidate(job[c].ses)
            j(g) == [job[c] EXCEPT !.phase = "consolidating", !.merge = merge, !.anchor = g]
<1>1. PICK g : Continue(c, j(g))
  BY DEF SendMeta
<1>2. job[c] \in Job /\ merge \subseteq Gen0(job[c].ses)
  BY ToConsolidateRows DEF TypeOK
<1>. HIDE DEF merge
<1>3. j(g).merge = merge /\ j(g).ses = job[c].ses
  BY <1>2 DEF Job
<1>. HIDE DEF j
<1>. QED BY <1>1, <1>2, <1>3, ContinueMerge

\* The steps of a call that write no row.
LEMMA QuietStepArchive ==
    ASSUME ArchiveInv, IInv, TypeOK', NEW c \in CallIds,
           \/ \E seg \in SUBSET job[c].todo : TinySegment(c, seg) \/ SendSegment(c, seg)
           \/ StartRun(c) \/ StartMeta(c) \/ RoundMeta(c) \/ EndRound(c)
           \/ SegmentFailed(c) \/ SegmentExpanded(c) \/ MetaFailed(c) \/ Throw(c)
    PROVE  ArchiveInv'
<1>. USE DEF messageVars, otherVars
<1>0. TypeOK /\ job[c] \in Job /\ clock \in Nat
  BY DEF IInv, TypeOK
<1>1. rows' = rows /\ clock' >= clock /\ edits' = edits
  <2>1. ASSUME NEW seg, TinySegment(c, seg) \/ SendSegment(c, seg)
        PROVE  rows' = rows /\ clock' = clock /\ edits' = edits
    BY <2>1 DEF TinySegment, SendSegment
  <2>2. ASSUME StartRun(c) \/ StartMeta(c) \/ RoundMeta(c) \/ EndRound(c)
        PROVE  rows' = rows /\ clock' = clock /\ edits' = edits
    BY <2>2 DEF StartRun, StartMeta, RoundMeta, EndRound
  <2>3. ASSUME SegmentFailed(c) \/ SegmentExpanded(c) \/ MetaFailed(c) \/ Throw(c)
        PROVE  rows' = rows /\ clock' = clock /\ edits' = edits
    BY <2>3 DEF SegmentFailed, SegmentExpanded, MetaFailed, Throw
  <2>. QED BY <1>0, <2>1, <2>2, <2>3
<1>a. ASSUME NEW j, Continue(c, j), j.merge = {} \/ (j.merge = job[c].merge /\ j.ses = job[c].ses)
      PROVE  \A d \in CallIds : MergeFrom(d)
  BY <1>0, <1>a, ContinueMerge
<1>b. \A phase, todo, seg :
        /\ [job[c] EXCEPT !.phase = phase, !.todo = todo].merge = job[c].merge
        /\ [job[c] EXCEPT !.phase = phase, !.todo = todo].ses = job[c].ses
        /\ [job[c] EXCEPT !.phase = phase, !.seg = seg].merge = job[c].merge
        /\ [job[c] EXCEPT !.phase = phase, !.seg = seg].ses = job[c].ses
        /\ [job[c] EXCEPT !.phase = phase].merge = job[c].merge
        /\ [job[c] EXCEPT !.phase = phase].ses = job[c].ses
        /\ [job[c] EXCEPT !.todo = todo].merge = job[c].merge
        /\ [job[c] EXCEPT !.todo = todo].ses = job[c].ses
        /\ [job[c] EXCEPT !.phase = phase, !.merge = {}, !.anchor = 0].merge = {}
  BY <1>0 DEF Job
<1>2. \A d \in CallIds : MergeFrom(d)
  <2>1. ASSUME NEW seg \in SUBSET job[c].todo, TinySegment(c, seg)
        PROVE  \A d \in CallIds : MergeFrom(d)
    BY <1>a, <1>b, <2>1 DEF TinySegment
  <2>2. ASSUME NEW seg \in SUBSET job[c].todo, SendSegment(c, seg)
        PROVE  \A d \in CallIds : MergeFrom(d)
    <3>. DEFINE j == [job[c] EXCEPT !.phase = "distilling", !.seg = seg, !.todo = @ \ seg]
    <3>1. j.merge = job[c].merge /\ j.ses = job[c].ses
      BY <1>0 DEF Job
    <3>2. Continue(c, j)
      BY <2>2 DEF SendSegment
    <3>. HIDE DEF j
    <3>. QED BY <1>a, <3>1, <3>2
  <2>3. CASE StartRun(c)
    BY <1>0, <1>a, <1>b, <2>3, FinishMerge DEF StartRun
  <2>4. CASE StartMeta(c)
    BY <1>0, <2>4, FinishMerge, SendMetaMerge DEF StartMeta
  <2>5. CASE RoundMeta(c)
    BY <1>0, <1>a, <1>b, <2>5, SendMetaMerge DEF RoundMeta
  <2>6. CASE EndRound(c)
    <3>. DEFINE j == [job[c] EXCEPT !.phase = "segments", !.round = @ + 1, !.todo = Pending(job[c].ses)]
    <3>1. j.merge = job[c].merge /\ j.ses = job[c].ses
      BY <1>0 DEF Job
    <3>2. Continue(c, j) \/ Finish(c)
      BY <2>6 DEF EndRound
    <3>. HIDE DEF j
    <3>. QED BY <1>0, <1>a, <3>1, <3>2, FinishMerge
  <2>7. CASE SegmentFailed(c) \/ SegmentExpanded(c)
    BY <1>a, <1>b, <2>7 DEF SegmentFailed, SegmentExpanded, AfterSegment
  <2>8. CASE MetaFailed(c)
    BY <1>0, <1>a, <1>b, <2>8, FinishMerge DEF MetaFailed, AfterMeta
  <2>9. CASE Throw(c)
    BY <1>0, <2>9, FinishMerge DEF Throw
  <2>. QED BY <2>1, <2>2, <2>3, <2>4, <2>5, <2>6, <2>7, <2>8, <2>9
<1>. QED BY <1>0, <1>1, <1>2, SameRows

\* The row of a segment is new, and in sight.
LEMMA SegmentStoredArchive ==
    ASSUME ArchiveInv, IInv, TypeOK', NEW c \in CallIds, SegmentStored(c)
    PROVE  ArchiveInv'
<1>. DEFINE row == SegmentRow(c)
            j == [job[c] EXCEPT !.phase = "segments", !.seg = {}]
<1>0. TypeOK /\ job[c] \in Job
  BY DEF IInv, TypeOK
<1>1. rows' = rows \cup {row} /\ clock' = clock + 1 /\ edits' = edits /\ Continue(c, j)
  BY DEF SegmentStored, AfterSegment, otherVars
<1>2. row.id = clock /\ ~row.archived
  BY DEF SegmentRow
<1>3. j.merge = job[c].merge /\ j.ses = job[c].ses
  BY <1>0 DEF Job
<1>. HIDE DEF row, j
<1>4. IdsInv'
  BY <1>0, <1>1, <1>2 DEF ArchiveInv, IdsInv, TypeOK, Row
<1>5. \A d \in CallIds : job'[d].merge = job[d].merge /\ job'[d].ses = job[d].ses
  BY <1>0, <1>1, <1>3 DEF TypeOK, Continue
<1>6. \A s : Gen0(s) \subseteq Gen0(s)'
  BY <1>1 DEF Gen0, RowsOf
<1>7. ASSUME edits' = 0, NEW d \in CallIds PROVE (job[d].merge \subseteq Gen0(job[d].ses))'
  BY <1>1, <1>5, <1>6, <1>7 DEF ArchiveInv, SightInv
<1>8. ASSUME edits' = 0, NEW r \in rows', NEW m \in r.src PROVE InSight(r, m)'
  <2>1. CASE r = row
    BY <1>1, <1>2, <2>1 DEF InSight
  <2>2. CASE r \in rows
    BY <1>1, <1>8, <2>2 DEF ArchiveInv, SightInv, InSight
  <2>. QED BY <1>1, <2>1, <2>2
<1>. QED BY <1>4, <1>7, <1>8 DEF ArchiveInv, SightInv

\* Archiving by id hides the rows that were read before the await and no
\* others, and the row inserted beside it covers what they covered.
LEMMA MetaStoredArchive ==
    ASSUME ArchiveInv, IInv, TypeOK', NEW c \in CallIds, MetaStored(c)
    PROVE  ArchiveInv'
<1>. DEFINE merge == job[c].merge
            ids == {r.id : r \in merge}
            row == MetaRow(c)
            k == [job[c] EXCEPT !.phase = "roundEnd", !.merge = {}, !.anchor = 0]
<1>0. TypeOK /\ job[c] \in Job /\ rows \subseteq Row /\ clock \in Nat
  BY DEF IInv, TypeOK
<1>1. rows' = Archive(ids) \cup {row} /\ clock' = clock + 1 /\ edits' = edits
  BY DEF MetaStored, otherVars
<1>2. row.id = clock /\ ~row.archived /\ row.ses = job[c].ses /\ row.src = UNION {r.src : r \in merge}
  BY DEF MetaRow, MergedSources
<1>3. PICK j : Continue(c, j) /\ j.merge = {}
  <2>1. k.merge = {} /\ NoJob.merge = {}
    BY <1>0 DEF Job, NoJob, NewJob
  <2>. QED BY <2>1 DEF MetaStored, AfterMeta, Finish
<1>a. Alone(c) /\ job[c].phase = "consolidating"
  BY ActiveAlone DEF MetaStored, Active
<1>. HIDE DEF row, ids, merge
<1>4. IdsInv'
  <2>1. ASSUME NEW q \in Archive(ids), NEW r \in Archive(ids) PROVE q.id < clock /\ (q.id = r.id => q = r)
    <3>1. PICK q0 \in rows : q = [q0 EXCEPT !.archived = q0.archived \/ q0.id \in ids] /\ q.id = q0.id
      BY <1>0, ArchiveKeeps
    <3>2. PICK r0 \in rows : r = [r0 EXCEPT !.archived = r0.archived \/ r0.id \in ids] /\ r.id = r0.id
      BY <1>0, ArchiveKeeps
    <3>. QED BY <3>1, <3>2 DEF ArchiveInv, IdsInv
  <2>2. \A q \in Archive(ids) : q.id \in Nat
    BY <1>0, ArchiveKeeps DEF Row
  <2>. QED BY <1>0, <1>1, <1>2, <2>1, <2>2 DEF IdsInv
<1>5. ASSUME edits' = 0 PROVE merge \subseteq Gen0(job[c].ses)
  BY <1>1, <1>5 DEF ArchiveInv, SightInv, merge
<1>6. ASSUME edits' = 0, NEW r \in rows, r.id \in ids PROVE r \in merge
  BY <1>5, <1>6 DEF ArchiveInv, IdsInv, ids, Gen0, RowsOf
<1>7. ASSUME NEW r \in rows, r.id \notin ids, ~r.archived PROVE r \in rows'
  <2>1. r.archived \in BOOLEAN /\ r \in Row
    BY <1>0 DEF Row
  <2>2. r = [r EXCEPT !.archived = r.archived \/ r.id \in ids]
    BY <1>7, <2>1 DEF Row
  <2>. QED BY <1>1, <2>2 DEF Archive
<1>8. ASSUME edits' = 0, NEW d \in CallIds PROVE (job[d].merge \subseteq Gen0(job[d].ses))'
  <2>1. CASE d = c
    BY <1>0, <1>3, <2>1 DEF TypeOK, Continue
  <2>2. CASE d # c
    <3>1. job'[d] = job[d] /\ job[d].merge \subseteq Gen0(job[d].ses)
      BY <1>0, <1>1, <1>3, <1>8, <2>2 DEF TypeOK, Continue, ArchiveInv, SightInv
    <3>2. CASE job[d].merge = {}
      BY <3>1, <3>2
    <3>3. CASE job[d].merge # {}
      <4>1. job[d].ses # job[c].ses
        BY <1>a, <2>2, <3>3 DEF IInv, CallInv, Alone, Active
      <4>2. ASSUME NEW r \in job[d].merge PROVE r \in rows' /\ r.ses = job[d].ses /\ r.gen = 0 /\ ~r.archived
        <5>1. r \in rows /\ r.ses = job[d].ses /\ r.gen = 0 /\ ~r.archived
          BY <3>1 DEF Gen0, RowsOf
        <5>2. r.id \notin ids
          BY <1>5, <1>6, <1>8, <4>1, <5>1 DEF Gen0, RowsOf
        <5>. QED BY <1>7, <5>1, <5>2
      <4>. QED BY <3>1, <4>2 DEF Gen0, RowsOf
    <3>. QED BY <3>2, <3>3
  <2>. QED BY <2>1, <2>2
<1>9. ASSUME edits' = 0, NEW r \in rows', NEW m \in r.src PROVE InSight(r, m)'
  <2>1. CASE r = row
    BY <1>1, <1>2, <2>1 DEF InSight
  <2>2. CASE r \in Archive(ids)
    <3>1. PICK r0 \in rows : r.ses = r0.ses /\ r.src = r0.src
      BY <1>0, <2>2, ArchiveKeeps
    <3>2. PICK q \in rows : q.ses = r.ses /\ ~q.archived /\ m \in q.src
      BY <1>1, <1>9, <3>1 DEF ArchiveInv, SightInv, InSight
    <3>3. CASE q.id \notin ids
      BY <1>7, <3>2, <3>3 DEF InSight
    <3>4. CASE q.id \in ids
      <4>1. q \in merge
        BY <1>6, <1>9, <3>4
      <4>2. m \in row.src /\ row.ses = r.ses
        BY <1>2, <1>5, <1>9, <3>2, <4>1 DEF Gen0, RowsOf
      <4>. QED BY <1>1, <1>2, <4>2 DEF InSight
    <3>. QED BY <3>3, <3>4
  <2>. QED BY <1>1, <2>1, <2>2
<1>. QED BY <1>4, <1>8, <1>9 DEF ArchiveInv, SightInv

\* Retention deletes archived rows only: what is in sight stays.
LEMMA PruneArchive ==
    ASSUME ArchiveInv, TypeOK, NEW cutoff, Prune(cutoff)
    PROVE  ArchiveInv'
<1>1. rows' \subseteq rows /\ \A r \in rows : ~r.archived => r \in rows'
  BY DEF Prune
<1>2. job' = job /\ clock' = clock /\ edits' = edits
  BY DEF Prune, otherVars
<1>3. IdsInv'
  BY <1>1, <1>2 DEF ArchiveInv, IdsInv
<1>4. ASSUME edits' = 0, NEW c \in CallIds PROVE (job[c].merge \subseteq Gen0(job[c].ses))'
  <2>1. job[c].merge \subseteq Gen0(job[c].ses)
    BY <1>2, <1>4 DEF ArchiveInv, SightInv
  <2>. QED BY <1>1, <1>2, <2>1 DEF Gen0, RowsOf
<1>5. ASSUME edits' = 0, NEW r \in rows', NEW m \in r.src PROVE InSight(r, m)'
  BY <1>1, <1>2, <1>5 DEF ArchiveInv, SightInv, InSight
<1>. QED BY <1>3, <1>4, <1>5 DEF ArchiveInv, SightInv

\* Only the identity of rows survives a deletion by the user.
LEMMA EditArchive ==
    ASSUME ArchiveInv, TypeOK, Edit
    PROVE  ArchiveInv'
<1>1. rows' \subseteq rows /\ clock' = clock /\ edits' = edits + 1
  BY DEF Edit, DeleteDistillation, DeleteSession, ClearTemporal, ClearDistillations, UserEdit
<1>2. edits' # 0
  BY <1>1 DEF TypeOK
<1>. QED BY <1>1, <1>2 DEF ArchiveInv, IdsInv, SightInv

LEMMA ArchiveInvNext == ArchiveInv /\ IInv /\ [Next]_vars => ArchiveInv'
<1>. SUFFICES ASSUME ArchiveInv, IInv, [Next]_vars PROVE ArchiveInv'
  OBVIOUS
<1>. USE DEF messageVars, otherVars
<1>0. TypeOK /\ TypeOK' /\ clock \in Nat
  BY TypeNext DEF IInv, TypeOK
<1>1. ASSUME NEW s \in Sessions, NEW m \in Messages, Store(s, m) PROVE ArchiveInv'
  <2>1. rows' = rows /\ clock' >= clock /\ edits' = edits /\ job' = job
    BY <1>0, <1>1 DEF Store
  <2>. QED BY <1>0, <2>1, SameRows DEF MergeFrom
<1>2. ASSUME NEW c \in CallIds, NEW s \in Sessions, NEW call \in Calls, Submit(c, s, call)
      PROVE  ArchiveInv'
  <2>1. rows' = rows /\ clock' >= clock /\ edits' = edits /\ Continue(c, NewJob("waiting", s, call))
    BY <1>0, <1>2 DEF Submit
  <2>2. NewJob("waiting", s, call).merge = {}
    BY DEF NewJob
  <2>. QED BY <1>0, <2>1, <2>2, ContinueMerge, SameRows
<1>3. ASSUME NEW c \in CallIds, Step(c) PROVE ArchiveInv'
  BY <1>0, <1>3, QuietStepArchive, SegmentStoredArchive, MetaStoredArchive DEF Step, Answer
<1>4. ASSUME NEW cutoff \in 0 .. clock, Prune(cutoff) PROVE ArchiveInv'
  BY <1>0, <1>4, PruneArchive
<1>5. CASE Edit
  BY <1>0, <1>5, EditArchive
<1>6. CASE Crash
  <2>1. NoJob.merge = {}
    BY DEF NoJob, NewJob
  <2>. QED BY <1>0, <1>6, <2>1, SameRows DEF Crash, MergeFrom
<1>7. CASE Restart
  BY <1>0, <1>7, SameRows DEF Restart, MergeFrom
<1>8. CASE UNCHANGED vars
  BY <1>0, <1>8, SameRows DEF vars, MergeFrom
<1>. QED BY <1>1, <1>2, <1>3, <1>4, <1>5, <1>6, <1>7, <1>8 DEF Next

LEMMA ArchiveInvariance == Spec => [](ArchiveInv /\ IInv)
<1>1. Init => ArchiveInv /\ IInv
  BY ArchiveInvInit, InitIInv
<1>2. ArchiveInv /\ IInv /\ [Next]_vars => (ArchiveInv /\ IInv)'
  BY ArchiveInvNext, NextIInv
<1>. QED BY <1>1, <1>2, PTL DEF Spec

\* The prefix the model is shown (the rows that are not archived) still covers
\* every message the session's rows cover, after any number of consolidations,
\* prunes, crashes and answers that came late, as long as the user deleted
\* nothing: archiveDistillations acts by id, on rows read before its await.
THEOREM ArchivedStaysReachable == Spec => []PrefixReachesAll
BY SightReaches, ArchiveInvariance, PTL DEF ArchiveInv

\* A row that leaves the table leaves its sources to a row that stays.
LEMMA CoverageStep ==
    ASSUME ArchiveInv, TypeOK, [Next]_vars, edits' = 0, NEW s \in Sessions
    PROVE  Covered(s) \subseteq Covered(s)'
<1>. USE DEF messageVars, otherVars
<1>1. CASE rows \subseteq rows'
  BY <1>1 DEF Covered, RowsOf
<1>2. ASSUME NEW c \in CallIds, MetaStored(c) PROVE Covered(s) \subseteq Covered(s)'
  <2>. DEFINE ids == {r.id : r \in job[c].merge}
  <2>1. Archive(ids) \subseteq rows'
    BY <1>2 DEF MetaStored
  <2>2. ASSUME NEW r \in rows PROVE \E q \in rows' : q.ses = r.ses /\ q.src = r.src
    <3>. DEFINE q == [r EXCEPT !.archived = r.archived \/ r.id \in ids]
    <3>1. q \in rows'
      BY <2>1 DEF Archive
    <3>2. q.ses = r.ses /\ q.src = r.src
      BY DEF TypeOK, Row
    <3>. QED BY <3>1, <3>2
  <2>. QED BY <2>2 DEF Covered, RowsOf
<1>3. ASSUME NEW cutoff, Prune(cutoff) PROVE Covered(s) \subseteq Covered(s)'
  <2>1. edits = 0 /\ \A r \in rows : ~r.archived => r \in rows'
    BY <1>3 DEF Prune
  <2>2. ASSUME NEW r \in rows, r.ses = s, NEW m \in r.src PROVE m \in Covered(s)'
    <3>1. PICK q \in rows : q.ses = s /\ ~q.archived /\ m \in q.src
      BY <2>1, <2>2 DEF ArchiveInv, SightInv, InSight
    <3>. QED BY <2>1, <3>1 DEF Covered, RowsOf
  <2>. QED BY <2>2 DEF Covered, RowsOf
<1>4. ~Edit
  <2>1. Edit => edits' = edits + 1
    BY DEF Edit, DeleteDistillation, DeleteSession, ClearTemporal, ClearDistillations, UserEdit
  <2>. QED BY <2>1 DEF TypeOK
<1>5. ASSUME NEW c \in CallIds, Step(c), ~MetaStored(c) PROVE rows \subseteq rows'
  BY <1>5 DEF Step, Answer, StartRun, StartMeta, TinySegment, SendSegment, RoundMeta, EndRound,
              SegmentFailed, SegmentExpanded, SegmentStored, MetaFailed, Throw
<1>6. (\E m \in Messages, t \in Sessions : Store(t, m)) \/ Crash \/ Restart \/ UNCHANGED vars
      \/ (\E c \in CallIds, t \in Sessions, call \in Calls : Submit(c, t, call))
      => rows \subseteq rows'
  BY DEF Store, Crash, Restart, Submit, vars
<1>. QED BY <1>1, <1>2, <1>3, <1>4, <1>5, <1>6 DEF Next

\* What a session's rows cover never shrinks but by a deletion of the user's:
\* resetOrphans finds no message whose row retention took, so nothing is paid
\* for and summarised twice.
THEOREM CoverageKept == Spec => CoverageNeverShrinks
<1>1. ArchiveInv /\ IInv /\ [Next]_vars
      => [edits' = 0 => \A s \in Sessions : Covered(s) \subseteq Covered(s)']_vars
  BY CoverageStep DEF IInv
<1>. QED BY <1>1, ArchiveInvariance, PTL DEF Spec, CoverageNeverShrinks
=============================================================================
