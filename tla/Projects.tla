------------------------------ MODULE Projects ------------------------------
(***************************************************************************)
(* Which project a directory belongs to (core db.ts and data.ts): two      *)
(* directories of one repository share a project, which is found by path,  *)
(* by alias or by git remote, and projects that turn out to be one are     *)
(* merged.  Every row of the database names its project.                   *)
(*                                                                         *)
(* Inside a process a call of ensureProject is not interrupted, but it is  *)
(* several SQL statements and a run of git, and other processes work with  *)
(* the same tables in between: each statement or transaction is a step.    *)
(*                                                                         *)
(* Of the rows that name a project two kinds are told apart: messages,     *)
(* like distillations and lat sections, have a foreign key to it, which    *)
(* SQLite checks at each statement; knowledge has none.                    *)
(***************************************************************************)
EXTENDS Database

CONSTANTS
    Paths,      \* directories
    Ids,        \* project ids, each generated once
    RemoteOf,   \* the normalized git remote of a directory
    NoRemote, NoId,
    MaxCalls    \* bound: calls that the processes make

VARIABLES
    project,    \* table projects: path and git_remote of each id
    alias,      \* table project_path_aliases
    rows,       \* rows with a project: the directory they are about, their kind, their project
    history,    \* table import_history: what was imported for a directory, its hash, its project
    offered,    \* projects with a last_import_at
    made,       \* ids generated so far
    call,       \* the locals of each process's call
    calls       \* counter that bounds the run

tables == <<project, alias, rows, history, offered, made>>
projectVars == <<tables, call, calls>>

ASSUME ProjectAssumption == DOMAIN RemoteOf = Paths /\ NoId \notin Ids

-----------------------------------------------------------------------------

Live == DOMAIN project
NoCall == [at |-> "idle", path |-> NoId, id |-> NoId, other |-> NoId, remote |-> NoRemote, next |-> "idle", todo |-> {}]

\* Some directories have a project and rows, as releases that did not ask git made
\* them: one of these may have its remote by now, and other directories may be
\* aliases.
Begun(home, named, kinds) ==
    /\ \A i, j \in made : home[i] = home[j] => i = j
    /\ \A i, j \in named : i = j
    /\ project = [i \in made |-> [path |-> home[i], remote |-> IF i \in named THEN RemoteOf[home[i]] ELSE NoRemote]]
    /\ rows = {[path |-> home[i], kind |-> kind, project |-> i] : i \in made, kind \in kinds}
    /\ alias \in [Paths -> made \cup {NoId}] /\ \A i \in made : alias[home[i]] = NoId

ProjectsInit ==
    /\ made \in SUBSET Ids
    /\ \E home \in [made -> Paths], named \in SUBSET made, kinds \in {{"knowledge"}, {"knowledge", "message"}} :
          Begun(home, named, kinds)
    /\ history = {} /\ offered = {}
    /\ call = [p \in Procs |-> NoCall]
    /\ calls = 0

-----------------------------------------------------------------------------
(* The queries *)

At(q) == {i \in Live : project[i].path = q}
WithRemote(r) == {i \in Live : project[i].remote = r}

\* projectId, and the first two lookups of ensureProject.
Resolve(q) == IF At(q) # {} THEN At(q) ELSE {alias[q]} \ {NoId}

\* git remote -v, or the remote a client sent: git may be missing, fail or take
\* too long, and is never asked in hosted mode.
Remotes(q) == {NoRemote, RemoteOf[q]}

-----------------------------------------------------------------------------
(* mergeProjectInternal *)

\* What the merge tells the database to reference to dst.
Referrers(src) == {x \in rows : x.kind = "message" /\ x.project = src}
AliasesOf(src) == {q \in Paths : alias[q] = src}
NewAliases(src) == {q \in Paths : alias[q] = NoId /\ src \in At(q)}

\* A foreign key that dst does not satisfy rolls the transaction back.
MayMerge(src, dst) == dst \in Live \/ Referrers(src) \cup AliasesOf(src) \cup NewAliases(src) = {}

\* A bug: the project's own aliases go with it (ON DELETE CASCADE).
Bug_MovedAlias(src, dst) ==
    [q \in Paths |-> IF q \in NewAliases(src) THEN dst ELSE IF q \in AliasesOf(src) THEN NoId ELSE alias[q]]

MovedAlias(src, dst) == [q \in Paths |-> IF q \in AliasesOf(src) \cup NewAliases(src) THEN dst ELSE alias[q]]

Without(i) == [j \in Live \ {i} |-> project[j]]

\* The imports of src are deleted with it.
Merge(src, dst) ==
    /\ MayMerge(src, dst)
    /\ rows' = {[x EXCEPT !.project = IF @ = src THEN dst ELSE @] : x \in rows}
    /\ alias' = MovedAlias(src, dst)
    /\ project' = Without(src)
    /\ history' = {h \in history : h.project # src}
    /\ offered' = offered \ {src}
    /\ UNCHANGED made

-----------------------------------------------------------------------------
(* ensureProject *)

IsFree(p) == conn[p].at = "open" /\ call[p].at = "idle"

\* The call goes on as c; only the tables may change with it.
Goes(p, c) == call' = [call EXCEPT ![p] = c] /\ UNCHANGED <<calls, dbVars>>
To(p, where) == Goes(p, [call[p] EXCEPT !.at = where])

\* The caller has its project; or gets an error instead.
Finds(p, i) == Goes(p, [call[p] EXCEPT !.at = call[p].next, !.id = i])
Throws(p) == Goes(p, NoCall) /\ UNCHANGED tables

\* ensureProject for directory q, and what its caller does next.
Ensure(q, next) == [NoCall EXCEPT !.at = "path", !.path = q, !.next = next]

\* A row is stored, or a project cleared.
Begin(p, q, next) ==
    /\ IsFree(p) /\ calls < MaxCalls
    /\ call' = [call EXCEPT ![p] = Ensure(q, next)]
    /\ calls' = calls + 1
    /\ UNCHANGED <<tables, dbVars>>

\* The project at the path; one without a remote may get it now.
ByPath(p) ==
    LET q == call[p].path IN
    /\ call[p].at = "path" /\ UNCHANGED tables
    /\ \/ At(q) = {} /\ To(p, "alias")
       \/ \E i \in At(q) :
            \/ project[i].remote # NoRemote /\ Finds(p, i)
            \/ project[i].remote = NoRemote /\ \E r \in Remotes(q) :
                 IF r = NoRemote THEN Finds(p, i)
                 ELSE Goes(p, [call[p] EXCEPT !.at = "conflict", !.id = i, !.remote = r])

\* Another project has the remote that this one is about to get.
Conflict(p) ==
    LET others == WithRemote(call[p].remote) \ {call[p].id} IN
    /\ call[p].at = "conflict" /\ UNCHANGED tables
    /\ \/ others = {} /\ To(p, "remote")
       \/ \E i \in others : Goes(p, [call[p] EXCEPT !.at = "merge", !.other = i])

MergeConflict(p) ==
    /\ call[p].at = "merge"
    /\ \/ Merge(call[p].other, call[p].id) /\ To(p, "remote")
       \/ ~MayMerge(call[p].other, call[p].id) /\ Throws(p)

\* UPDATE projects SET git_remote: no row, no effect.
WithRemoteSet(i, r) == [j \in Live |-> IF j = i THEN [project[j] EXCEPT !.remote = r] ELSE project[j]]

SetRemote(p) ==
    /\ call[p].at = "remote"
    /\ project' = WithRemoteSet(call[p].id, call[p].remote)
    /\ Finds(p, call[p].id)
    /\ UNCHANGED <<alias, rows, history, offered, made>>

ByAlias(p) ==
    LET q == call[p].path IN
    /\ call[p].at = "alias" /\ UNCHANGED tables
    /\ \/ alias[q] # NoId /\ Finds(p, alias[q])
       \/ alias[q] = NoId /\ \E r \in Remotes(q) :
            Goes(p, [call[p] EXCEPT !.at = IF r = NoRemote THEN "insert" ELSE "byRemote", !.remote = r])

ByRemote(p) ==
    /\ call[p].at = "byRemote" /\ UNCHANGED tables
    /\ \/ WithRemote(call[p].remote) = {} /\ To(p, "insert")
       \/ \E i \in WithRemote(call[p].remote) : Goes(p, [call[p] EXCEPT !.at = "addAlias", !.id = i])

\* INSERT OR IGNORE: an alias that is there stays, but a project must exist.
AddAlias(p) ==
    LET q == call[p].path IN
    /\ call[p].at = "addAlias"
    /\ \/ /\ alias[q] # NoId \/ call[p].id \in Live
          /\ alias' = [alias EXCEPT ![q] = IF @ = NoId THEN call[p].id ELSE @]
          /\ Finds(p, call[p].id)
          /\ UNCHANGED <<project, rows, history, offered, made>>
       \/ alias[q] = NoId /\ call[p].id \notin Live /\ Throws(p)

\* The path is unique: a process that was faster makes this one throw.
InsertProject(p) ==
    LET q == call[p].path IN
    /\ call[p].at = "insert"
    /\ \/ /\ At(q) = {}
          /\ \E i \in Ids \ made :
               /\ project' = [j \in Live \cup {i} |-> IF j = i THEN [path |-> q, remote |-> call[p].remote] ELSE project[j]]
               /\ made' = made \cup {i}
               /\ Finds(p, i)
          /\ UNCHANGED <<alias, rows, history, offered>>
       \/ At(q) # {} /\ Throws(p)

-----------------------------------------------------------------------------
(* What callers do with the project *)

\* Knowledge may name a project that is gone; a message may not.
StoreRow(p) ==
    LET kind == call[p].at IN
    /\ kind \in {"knowledge", "message"}
    /\ \/ /\ kind = "knowledge" \/ call[p].id \in Live
          /\ rows' = rows \cup {[path |-> call[p].path, kind |-> kind, project |-> call[p].id]}
          /\ Goes(p, NoCall)
          /\ UNCHANGED <<project, alias, history, offered, made>>
       \/ kind = "message" /\ call[p].id \notin Live /\ Throws(p)

\* clearProject: the project itself stays, and so do its imports.
ClearProject(p) ==
    /\ call[p].at = "clear"
    /\ rows' = {x \in rows : x.project # call[p].id}
    /\ Goes(p, NoCall)
    /\ UNCHANGED <<project, alias, history, offered, made>>

\* deleteProject, by id.
DeleteProject(p, i) ==
    /\ IsFree(p) /\ i \in Live /\ calls < MaxCalls
    /\ rows' = {x \in rows : x.project # i}
    /\ alias' = [q \in Paths |-> IF alias[q] = i THEN NoId ELSE alias[q]]
    /\ project' = Without(i)
    /\ history' = {h \in history : h.project # i}
    /\ offered' = offered \ {i}
    /\ calls' = calls + 1
    /\ UNCHANGED <<made, call, dbVars>>

-----------------------------------------------------------------------------
(* backfillGitRemotes: it works on the list of projects it read at first,  *)
(* and merges in the other direction, the project at hand into the other.  *)

BeginBackfill(p) ==
    /\ IsFree(p) /\ calls < MaxCalls /\ WithRemote(NoRemote) # {}
    /\ call' = [call EXCEPT ![p] = [NoCall EXCEPT !.at = "list", !.next = "list",
                                        !.todo = {[id |-> i, path |-> project[i].path] : i \in WithRemote(NoRemote)}]]
    /\ calls' = calls + 1
    /\ UNCHANGED <<tables, dbVars>>

BackfillNext(p) ==
    /\ call[p].at = "list" /\ UNCHANGED tables
    /\ \/ call[p].todo = {} /\ Goes(p, NoCall)
       \/ \E x \in call[p].todo : \E r \in Remotes(x.path) :
            LET rest == [call[p] EXCEPT !.todo = @ \ {x}] IN
            IF r = NoRemote THEN Goes(p, rest)
            ELSE Goes(p, [rest EXCEPT !.at = "look", !.id = x.id, !.remote = r])

\* A bug: a project with the same remote is not looked for.
Bug_BackfillLook(p) == call[p].at = "look" /\ UNCHANGED tables /\ To(p, "remote")

BackfillLook(p) ==
    LET others == WithRemote(call[p].remote) \ {call[p].id} IN
    /\ call[p].at = "look" /\ UNCHANGED tables
    /\ \/ others = {} /\ To(p, "remote")
       \/ \E i \in others : Goes(p, [call[p] EXCEPT !.at = "mergeInto", !.other = i])

BackfillMerge(p) ==
    /\ call[p].at = "mergeInto"
    /\ \/ Merge(call[p].id, call[p].other) /\ To(p, "list")
       \/ ~MayMerge(call[p].id, call[p].other) /\ Throws(p)

-----------------------------------------------------------------------------

EnsureStep(p) ==
    \/ ByPath(p) \/ Conflict(p) \/ MergeConflict(p) \/ SetRemote(p)
    \/ ByAlias(p) \/ ByRemote(p) \/ AddAlias(p) \/ InsertProject(p)

\* A call of another kind begins, and goes on.
ProjectBegins(p) ==
    \/ \E q \in Paths, next \in {"knowledge", "message", "clear"} : Begin(p, q, next)
    \/ \E i \in Ids : DeleteProject(p, i)
    \/ BeginBackfill(p)

ProjectGoes(p) ==
    \/ EnsureStep(p) \/ StoreRow(p) \/ ClearProject(p)
    \/ BackfillNext(p) \/ BackfillLook(p) \/ BackfillMerge(p)

-----------------------------------------------------------------------------

\* What db.ts:754 says of a merge, "Merge all data from `sourceId` project into
\* `targetId` project": a project goes with its rows, or they go to one that exists,
\* whichever of two processes merges, in opposite directions or while the other
\* deletes.
KeptByMerge ==
    [][\A i \in Live \ Live' : /\ \A x \in rows' : x.project # i
                               /\ \A x \in rows' \ rows : x.project \in Live']_projectVars
=============================================================================
