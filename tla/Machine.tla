------------------------------- MODULE Machine -------------------------------
(***************************************************************************)
(* A machine on which several processes share lore's database: each opens  *)
(* it and migrates it if need be, then resolves projects, stores rows,     *)
(* clears, deletes and merges projects and imports a conversation, until   *)
(* it is closed or dies, and opens it again.                               *)
(***************************************************************************)
EXTENDS ConversationImport

VARIABLE alone  \* only one process at a time has the database open

vars == <<dbVars, projectVars, importVars, alone>>

Init == DbInit /\ ProjectsInit /\ ImportInit /\ alone \in BOOLEAN

IsAlone(p) == \A q \in Procs \ {p} : conn[q].at = "closed"

Start(p) ==
    /\ alone => IsAlone(p)
    /\ DbStep(p)
    /\ UNCHANGED <<projectVars, importVars, alone>>

\* The process ends, or dies, wherever it is.
Stop(p) ==
    /\ CloseDb(p)
    /\ call' = [call EXCEPT ![p] = NoCall]
    /\ import' = [import EXCEPT ![p] = NoImport]
    /\ UNCHANGED <<tables, calls, said, shown, alone>>

\* A call begins while no import has the process's attention, and goes on.
Work(p) ==
    /\ (Awaits(p) /\ ProjectBegins(p)) \/ ProjectGoes(p)
    /\ UNCHANGED <<importVars, alone>>

Import(p) == ImportStep(p) /\ UNCHANGED alone

Next ==
    \/ Talk /\ UNCHANGED alone
    \/ \E p \in Procs : Start(p) \/ Stop(p) \/ Work(p) \/ Import(p)

Spec == Init /\ [][Next]_vars

-----------------------------------------------------------------------------

\* As long as one process at a time works with the database, no two projects share a
\* known remote, however late git tells it and wherever a process stops; projects
\* whose remote git has not told yet are exempt (ensureProject, mergeProjectInternal, backfillGitRemotes).
OneProjectPerRemote ==
    alone => \A i, j \in Live : i # j => project[i].remote # project[j].remote \/ project[i].remote = NoRemote

\* As long as one process at a time works with the database, the rows stored for a
\* directory are those of the project that the directory leads to, through merges
\* in either direction and deletions.
RowsReachable == alone => \A x \in rows \cup history : Resolve(x.path) = {x.project}
=============================================================================
