----------------------------- MODULE Knowledge -----------------------------
(***************************************************************************)
(* The long-term knowledge table (ltm.ts) and those who write it: the      *)
(* curator's answers (curator.ts), the patterns found by a distillation,   *)
(* the idle cleanup of links, and the prune at start-up.  A curator reads  *)
(* the table, waits for the model, and applies the answer to the table as  *)
(* it is then, so curations of other sessions fall in between.             *)
(*                                                                         *)
(* A confidence is 3 or 2 (shown), 1 (above 0, at most 0.2) or 0; a length *)
(* is in a coarse unit.  Where the code leaves the order of rows to   *)
(* the database, or decides it by updated_at, rows come oldest or newest   *)
(* first: the parameter `oldest` of the operators.                         *)
(***************************************************************************)
EXTENDS Integers, FiniteSets, Sequences, SequencesExt

CONSTANTS
    Projects, NoProject,   \* NoProject: project_id NULL, a global entry
    Curators, ProjectOf,   \* the sessions' curators: [Curators -> Projects]
    Titles, NearTitles,    \* pairs of titles that overlap enough
    NearTexts,             \* pairs of texts whose embeddings are similar
    Contents,              \* what the model or a user may write
    Answers,               \* sequences of ops the model may answer
    Patterns,              \* new entries a distillation may yield
    Keep,                  \* an absent field of an update
    MaxEntries,            \* curator.maxEntries
    MaxLength,             \* MAX_ENTRY_CONTENT_LENGTH
    NoticeLength,          \* the length of the truncation notice
    MaxIds,                \* bound: entries ever created
    MaxMade                \* bound: those the curator and distillations create

Ids   == 1 .. MaxIds
NoId  == 0
Confs == 0 .. 3

ASSUME KnowledgeAssumption ==
    /\ ProjectOf \in [Curators -> Projects] /\ NoProject \notin Projects
    /\ {MaxEntries, MaxLength, NoticeLength, MaxIds, MaxMade} \subseteq Nat /\ MaxMade <= MaxIds

\* The overlap of two titles and the similarity of two embeddings are symmetric.
ASSUME NearAssumption == \A near \in {NearTitles, NearTexts} : \A x \in near : <<x[2], x[1]>> \in near

\* The type CuratorOp; Keep stands for a field the model left out.
Op == [op : {"create"}, title : Titles, content : Contents, global : BOOLEAN, cross : BOOLEAN,
       conf : Confs \cup {Keep}]
        \cup [op : {"update"}, id : Ids, content : Contents \cup {Keep}, conf : Confs \cup {Keep}]
        \cup [op : {"delete"}, id : Ids]

ASSUME AnswersAssumption ==
    /\ Answers \subseteq Seq(Op)
    /\ Patterns \subseteq [title : Titles, content : Contents, conf : Confs \cup {Keep}]

VARIABLES
    entry,      \* the knowledge table: [Ids -> Entry or NoEntry]
    minted,     \* how many ids were given out
    ref,        \* knowledge_refs
    curation,   \* per session: the entries its running curation showed the model
    trim        \* the same for its running consolidation

store == <<entry, minted, ref>>
knowledgeVars == <<entry, minted, ref, curation, trim>>

-----------------------------------------------------------------------------

NoEntry == [owner |-> Keep]
Free    == <<>>            \* no call is running

Written(c)  == IF c.len > MaxLength THEN [c EXCEPT !.len = MaxLength + NoticeLength] ELSE c
Stripped(c, links) == [c EXCEPT !.links = @ \ links]
\* A row of a file is one line.
Flat(c) == [c EXCEPT !.lines = 1]

AllContents == {[text |-> c.text, len |-> n, lines |-> k, links |-> c.links \ links] :
                  c \in Contents, n \in 0 .. MaxLength + NoticeLength, k \in {1, 2}, links \in SUBSET Ids}

Entry == [owner: Projects \cup {NoProject}, cross: BOOLEAN, title: Titles,
          content: AllContents, conf: Confs]

Rows(e) == {i \in Ids : e[i] # NoEntry}
Live    == Rows(entry)

\* forProject: the entries of a project that are shown, with the shared ones or not.
Visible(e, p, cross) ==
    {i \in Rows(e) : e[i].conf > 1 /\ (e[i].owner = p \/ (cross /\ e[i].cross))}

\* LIMIT 1, and the ties of a sort.
First(S, oldest) ==
    IF S = {} THEN NoId
    ELSE CHOOSE i \in S : \A j \in S : IF oldest THEN i <= j ELSE j <= i

Change(e, i, content, conf) ==
    [e EXCEPT ![i].content = IF content = Keep THEN @ ELSE content,
              ![i].conf = IF conf = Keep THEN @ ELSE conf]

Without(e, gone) == [i \in Ids |-> IF i \in gone THEN NoEntry ELSE e[i]]

\* Foreign keys are on: a deleted entry takes its rows of knowledge_refs along.
Cascade(e, r) == r \cap (Rows(e) \X Rows(e))

FuzzyDuplicate(e, title, owner, oldest) ==
    First({i \in Rows(e) : /\ e[i].conf > 1
                           /\ e[i].owner = owner \/ e[i].cross
                           /\ <<title, e[i].title>> \in NearTitles}, oldest)

\* The guards of create, in their order.
Duplicate(e, new, oldest) ==
    LET same   == {i \in Rows(e) : e[i].title = new.title /\ e[i].conf > 0}
        own    == {i \in same : e[i].owner = new.owner}
        shared == {i \in same : e[i].cross}
    IN  IF own \cup shared = {} THEN FuzzyDuplicate(e, new.title, new.owner, oldest)
        ELSE First(IF own # {} THEN own ELSE shared, oldest)

\* `work`: the table while a handler runs, the entries it wrote and whether it created any.
Work == [entry |-> entry, minted |-> minted, sync |-> {}, created |-> FALSE]

Insert(work, id, new) ==
    [work EXCEPT !.entry[id] = [owner |-> new.owner, title |-> new.title, content |-> new.content,
                                cross |-> new.owner = NoProject \/ new.cross,
                                conf |-> IF new.conf = Keep THEN 3 ELSE new.conf]]

Create(work, new, oldest) ==
    LET twin == Duplicate(work.entry, new, oldest)
        id   == IF twin = NoId THEN work.minted + 1 ELSE twin
        made == IF twin = NoId THEN [Insert(work, id, new) EXCEPT !.minted = id]
                ELSE [work EXCEPT !.entry = Change(@, twin, new.content, new.conf)]
    IN  [made EXCEPT !.sync = @ \cup {id}, !.created = TRUE]

NewFrom(op, p) == [owner |-> IF op.global THEN NoProject ELSE p, cross |-> op.cross,
                   title |-> op.title, content |-> Written(op.content), conf |-> op.conf]

Bug_Guarded(e, i, p) == i \in Rows(e)

\* applyOps leaves the entries of other projects alone, when the model names one.
Guarded(e, i, p) == i \in Rows(e) /\ e[i].owner \in {p, NoProject}

Creates(skipCreate) == ~skipCreate

ApplyOp(work, op, p, skipCreate, oldest) ==
    CASE op.op = "create" /\ Creates(skipCreate) -> Create(work, NewFrom(op, p), oldest)
      [] op.op = "update" /\ Guarded(work.entry, op.id, p) ->
           [work EXCEPT !.entry = Change(@, op.id, IF op.content = Keep THEN Keep ELSE Written(op.content), op.conf),
                        !.sync = IF op.content = Keep THEN @ ELSE @ \cup {op.id}]
      [] op.op = "delete" /\ Guarded(work.entry, op.id, p) ->
           [work EXCEPT !.entry = Without(@, {op.id})]
      [] OTHER -> work

ApplyOps(ops, p, skipCreate, oldest) ==
    LET work[n \in 0 .. Len(ops)] == IF n = 0 THEN Work
                                     ELSE ApplyOp(work[n - 1], ops[n], p, skipCreate, oldest)
    IN  work[Len(ops)]

SyncRefs(e, r, ids) ==
    {x \in Cascade(e, r) : x[1] \notin ids}
      \cup {x \in (ids \cap Rows(e)) \X Rows(e) : x[1] # x[2] /\ x[2] \in e[x[1]].content.links}

-----------------------------------------------------------------------------
(* The sweep that merges look-alikes: stars around the entries with the    *)
(* most neighbours, one survivor each.                                     *)

Alike(e, i, j, embedded) ==
    \/ <<e[i].title, e[j].title>> \in NearTitles
    \/ {i, j} \subseteq embedded /\ <<e[i].content.text, e[j].content.text>> \in NearTexts

Neighbours(e, pool, i, embedded) == {j \in pool \ {i} : Alike(e, i, j, embedded)}

Degree(e, pool, i, embedded) == Cardinality(Neighbours(e, pool, i, embedded))

\* The most trusted of some entries: the order of forProject, and of survivors.
Leading(e, S, oldest) == First({i \in S : \A j \in S : e[j].conf <= e[i].conf}, oldest)

\* The order in which entries become centres: those with more neighbours first,
\* and in the order of forProject among equals (a stable sort).
Before(e, pool, i, j, embedded, oldest) ==
    LET di == Degree(e, pool, i, embedded)
        dj == Degree(e, pool, j, embedded)
    IN  di > dj \/ (di = dj /\ i # j /\ Leading(e, {i, j}, oldest) = i)

\* An entry is a centre unless an earlier centre has claimed it.
Centres(e, pool, embedded, oldest) ==
    CHOOSE C \in SUBSET pool :
        \A i \in pool : i \in C <=> \A c \in C : Before(e, pool, c, i, embedded, oldest)
                                                => i \notin Neighbours(e, pool, c, embedded)

\* What a centre claims: itself, and the neighbours no earlier centre claimed.
Star(e, pool, C, c, embedded, oldest) ==
    {c} \cup {i \in Neighbours(e, pool, c, embedded) \ C :
                \A d \in C : Before(e, pool, d, c, embedded, oldest)
                               => i \notin Neighbours(e, pool, d, embedded)}

Stars(e, pool, embedded, oldest) ==
    LET C == Centres(e, pool, embedded, oldest)
    IN  {Star(e, pool, C, c, embedded, oldest) : c \in C}

Bug_Survivor(e, star, oldest) == First(star, oldest)

Survivor(e, star, oldest) == Leading(e, star, oldest)

Duplicates(e, p, embedded, oldest) ==
    UNION {star \ {Survivor(e, star, oldest)} : star \in Stars(e, Visible(e, p, FALSE), embedded, oldest)}

-----------------------------------------------------------------------------

InitKnowledge ==
    /\ entry = [i \in Ids |-> NoEntry] /\ minted = 0 /\ ref = {}
    /\ curation = [s \in Curators |-> Free]
    /\ trim = [s \in Curators |-> Free]

\* What the curator prompt shows, and the start of the call.
CurateRead(s) ==
    /\ curation[s] = Free
    /\ curation' = [curation EXCEPT ![s] = <<Visible(entry, ProjectOf[s], TRUE)>>]
    /\ UNCHANGED <<store, trim>>

ConsolidateRead(s) ==
    LET own == Visible(entry, ProjectOf[s], FALSE)
    IN  /\ trim[s] = Free
        /\ Cardinality(own) > MaxEntries
        /\ trim' = [trim EXCEPT ![s] = <<own>>]
        /\ UNCHANGED <<store, curation>>

\* The model can only name, or link to, entries it was shown.
Links(op) == IF op.op = "delete" \/ op.content = Keep THEN {} ELSE op.content.links
Named(ops) == UNION {Links(op) \cup (IF op.op = "create" THEN {} ELSE {op.id}) : op \in ToSet(ops)}

Fits(ops) == minted + Len(ops) <= MaxMade

\* The answer is applied and, when it created something, the sweep follows, in one go.
CurateApply(s) ==
    LET p == ProjectOf[s]
    IN  /\ curation[s] # Free
        /\ \E ops \in Answers, oldest \in BOOLEAN, embedded \in SUBSET Live :
             LET work == ApplyOps(ops, p, FALSE, oldest)
                 gone == IF work.created THEN Duplicates(work.entry, p, embedded, oldest) ELSE {}
             IN  /\ Named(ops) \subseteq curation[s][1] /\ Fits(ops)
                 /\ entry' = Without(work.entry, gone)
                 /\ minted' = work.minted
                 /\ ref' = Cascade(entry', SyncRefs(work.entry, ref, work.sync))
        /\ curation' = [curation EXCEPT ![s] = Free]
        /\ UNCHANGED trim

ConsolidateApply(s) ==
    /\ trim[s] # Free
    /\ \E ops \in Answers, oldest \in BOOLEAN :
         LET work == ApplyOps(ops, ProjectOf[s], TRUE, oldest)
         IN  /\ Named(ops) \subseteq trim[s][1]
             /\ entry' = work.entry
             /\ minted' = work.minted
             /\ ref' = SyncRefs(entry', ref, work.sync)
    /\ trim' = [trim EXCEPT ![s] = Free]
    /\ UNCHANGED curation

\* No answer: nothing is applied.
CallFails(s) ==
    \/ /\ curation[s] # Free
       /\ curation' = [curation EXCEPT ![s] = Free]
       /\ UNCHANGED <<store, trim>>
    \/ /\ trim[s] # Free
       /\ trim' = [trim EXCEPT ![s] = Free]
       /\ UNCHANGED <<store, curation>>

\* A distillation of the project stored observations with a pattern in them.
ExtractPattern(p) ==
    /\ minted < MaxMade
    /\ \E new \in Patterns, oldest \in BOOLEAN :
         LET work == Create(Work, [owner |-> p, cross |-> FALSE, title |-> new.title,
                                   content |-> new.content, conf |-> new.conf], oldest)
         IN  entry' = work.entry /\ minted' = work.minted
    /\ UNCHANGED <<ref, curation, trim>>

\* The idle cleanup: links to entries that are gone, found by their rows in knowledge_refs.
Orphans == {x \in ref : x[2] \notin Live}

CleanDeadRefs ==
    /\ entry' = [i \in Ids |-> IF i \notin Live THEN entry[i]
                               ELSE [entry[i] EXCEPT !.content = Stripped(@, {x[2] : x \in {y \in Orphans : y[1] = i}})]]
    /\ ref' = {x \in ref : x[2] \in Live}
    /\ UNCHANGED <<minted, curation, trim>>

\* A user deletes an entry from the dashboard or the command line.
DeleteKnowledge(i) ==
    /\ i \in Live
    /\ entry' = Without(entry, {i})
    /\ ref' = Cascade(entry', ref)
    /\ UNCHANGED <<minted, curation, trim>>

\* pruneOversized at start-up.
PruneOversized(e) == [i \in Ids |-> IF i \in Rows(e) /\ e[i].content.len > MaxLength
                                    THEN [e[i] EXCEPT !.conf = 0] ELSE e[i]]

\* The process dies and comes back: the calls are lost.
ProcessRestarts ==
    /\ entry' = PruneOversized(entry)
    /\ curation' = [s \in Curators |-> Free]
    /\ trim' = [s \in Curators |-> Free]
    /\ UNCHANGED <<minted, ref>>

NextKnowledge ==
    \/ \E s \in Curators : CurateRead(s) \/ CurateApply(s) \/ ConsolidateRead(s) \/ ConsolidateApply(s) \/ CallFails(s)
    \/ \E p \in Projects : ExtractPattern(p)
    \/ \E i \in Ids : DeleteKnowledge(i)
    \/ CleanDeadRefs
    \/ ProcessRestarts

KnowledgeSpec == InitKnowledge /\ [][NextKnowledge]_knowledgeVars

-----------------------------------------------------------------------------

KnowledgeTypeOK ==
    /\ entry \in [Ids -> Entry \cup {NoEntry}]
    /\ minted \in 0 .. MaxIds
    /\ ref \subseteq Live \X Live
    /\ \A s \in Curators : \A job \in {curation[s], trim[s]} : job = Free \/ job[1] \subseteq Ids

Gone == Live \ Rows(entry')

Works(s) == curation'[s] # curation[s] \/ trim'[s] # trim[s]

\* An entry of a project is deleted by a session of that project or by a user,
\* never by the curator of another project (the guard of applyOps, the scope of
\* the sweep).
ForeignNotDeleted ==
    [][\A i \in Gone : \/ entry[i].owner = NoProject
                       \/ \E s \in Curators : ProjectOf[s] = entry[i].owner /\ Works(s)
                       \/ \A s \in Curators : ~Works(s)]_knowledgeVars

\* Whatever the table, the sweep keeps one entry of each group it merges: an
\* entry it deletes has a survivor it looks like, or that looks like the same
\* entry, and that is held with no less confidence.
SweepKeepsOne ==
    \A p \in Projects, embedded \in SUBSET Live, oldest \in BOOLEAN :
        LET pool == Visible(entry, p, FALSE)
            gone == Duplicates(entry, p, embedded, oldest)
            Near(i) == {i} \cup Neighbours(entry, pool, i, embedded)
        IN  \A i \in gone : \E j \in pool \ gone :
                Near(i) \cap Near(j) # {} /\ entry[j].conf >= entry[i].conf

\* The idle cleanup finds every link to an entry that was deleted, to strip it
\* (ltm.ts:1019-1023).
DeadRefsFound ==
    \A i \in Live : \A j \in entry[i].content.links : j \notin Live => <<i, j>> \in Orphans

=============================================================================
