---------------------------- MODULE MachineProofs ----------------------------
(***************************************************************************)
(* Proofs about Database and Machine, for any processes, releases,         *)
(* directories, projects and lengths of the conversation, and for the      *)
(* whole list of migrations: an open database is complete; what the        *)
(* processes do with projects and imports is, for the schema, nothing but  *)
(* stuttering; an import records no message that it has not shown to a     *)
(* model; and one process at a time keeps the projects of a machine apart, *)
(* with their rows within reach.                                           *)
(***************************************************************************)
EXTENDS Machine, TLAPS

(* ----------------------------- The schema ------------------------------ *)

\* A migration on its way has left its statements in the database, apart from
\* those to come; so has each before it.  What migrations may leave out is added
\* by the recovery.
OnMigration(p) ==
    LET c == conn[p] IN
    /\ c.mig \in 1..Release[p]
    /\ c.left \subseteq DOMAIN MIGRATIONS[c.mig]
    /\ Schema(c.mig - 1) \subseteq objects \cup Recovered
    /\ \A k \in DOMAIN MIGRATIONS[c.mig] \ c.left :
          MIGRATIONS[c.mig][k].op # "drop" => MIGRATIONS[c.mig][k].name \in objects \cup Recovered \cup Dropped

OnRecovery(p) ==
    LET c == conn[p] IN
    /\ Schema(Release[p]) \subseteq objects \cup Recovered
    /\ c.left \subseteq DOMAIN Recovery
    /\ \A k \in DOMAIN Recovery \ c.left : Recovery[k].name \in objects

Way(p) ==
    /\ conn[p].at = "migrating" => OnMigration(p)
    /\ conn[p].at = "recovering" => OnRecovery(p)
    /\ conn[p].at = "adding" => Schema(Release[p]) \subseteq objects \cup {CallType}
    /\ conn[p].at = "open" => Schema(Release[p]) \subseteq objects

Positions == (UNION {DOMAIN MIGRATIONS[i] : i \in DOMAIN MIGRATIONS}) \cup DOMAIN Recovery
Connection == [at : {"closed", "migrating", "recovering", "adding", "open"},
               mig : 0..Len(MIGRATIONS), left : SUBSET Positions, again : BOOLEAN]

DbInv ==
    /\ version \in 0..Len(MIGRATIONS)
    /\ conn \in [Procs -> Connection]
    /\ Schema(version) \subseteq objects \cup Recovered
    /\ \A p \in Procs : Way(p)

(* ------------------------------ Migrations ----------------------------- *)

LEMMA MigrationDomain ==
  /\ Len(MIGRATIONS) \in Nat /\ Len(MIGRATIONS) >= 1
  /\ DOMAIN MIGRATIONS = 1..Len(MIGRATIONS)
BY DEF MIGRATIONS

\* A migration's schema is that of the ones before it and what it makes itself.
LEMMA SchemaStep ==
  ASSUME NEW n \in 1..Len(MIGRATIONS), NEW x \in Schema(n)
  PROVE  x \in Schema(n - 1) \/ x \in Made(n) \ Dropped
<1>1. n \in Nat /\ 1..n = 1..(n - 1) \cup {n}
  BY MigrationDomain
<1> QED
  BY <1>1 DEF Schema

LEMMA NotDropped == \A n : Schema(n) \cap Dropped = {}
BY DEF Schema

LEMMA DropIsDropped ==
  ASSUME NEW i \in DOMAIN MIGRATIONS, NEW k \in DOMAIN MIGRATIONS[i], MIGRATIONS[i][k].op = "drop"
  PROVE  MIGRATIONS[i][k].name \in Dropped
BY DEF Dropped, DroppedBy

LEMMA EmptySchema == Schema(0) = {}
<1>1. 1..0 = {}
  OBVIOUS
<1> QED
  BY <1>1 DEF Schema

\* Once all its statements are done, a migration's schema is there.
LEMMA MigrationDone ==
  ASSUME NEW i \in 1..Len(MIGRATIONS), NEW O,
         Schema(i - 1) \subseteq O \cup Recovered,
         \A k \in DOMAIN MIGRATIONS[i] :
            MIGRATIONS[i][k].op # "drop" => MIGRATIONS[i][k].name \in O \cup Recovered \cup Dropped
  PROVE  Schema(i) \subseteq O \cup Recovered
BY SchemaStep DEF Made

\* A newer version stands for more.
LEMMA SchemaGrows ==
  ASSUME NEW m \in Nat, NEW n \in Nat, m <= n
  PROVE  Schema(m) \subseteq Schema(n)
<1>1. 1..m \subseteq 1..n
  OBVIOUS
<1> QED
  BY <1>1 DEF Schema

(* ---------------------------- The invariant ---------------------------- *)

\* What other processes do, at most a drop, leaves a process on its way.
LEMMA WayStays ==
  ASSUME DbInv, NEW q \in Procs, conn'[q] = conn[q], objects \ Dropped \subseteq objects'
  PROVE  Way(q)'
<1>1. \A n : Schema(n) \cap Dropped = {}
  BY NotDropped
<1>2. Recovered \cap Dropped = {} /\ (\A k \in DOMAIN Recovery : Recovery[k].name \in Recovered) /\ CallType \in Recovered
  BY MigrationAssumption DEF Recovered
<1>3. Way(q)
  BY DEF DbInv
<1> QED
  BY <1>1, <1>2, <1>3 DEF Way, OnMigration, OnRecovery

LEMMA VersionStays ==
  ASSUME DbInv, version' = version, objects \ Dropped \subseteq objects'
  PROVE  Schema(version)' \subseteq (objects \cup Recovered)'
<1>1. Schema(version) \cap Dropped = {}
  BY NotDropped
<1> QED
  BY <1>1 DEF DbInv, Schema, Recovered

LEMMA DatabaseInit == DbInit => DbInv
<1> SUFFICES ASSUME DbInit PROVE DbInv
  OBVIOUS
<1>1. version \in 0..Len(MIGRATIONS)
  BY ReleaseAssumption DEF DbInit
<1>2. conn \in [Procs -> Connection] /\ \A p \in Procs : Way(p)
  BY MigrationDomain DEF DbInit, Closed, Connection, Way
<1>3. Schema(version) \subseteq objects \cup Recovered
  <2>1. PICK hole \in Holes : objects = Built(version) \ hole
    BY DEF DbInit
  <2>2. hole \subseteq Recovered
    BY ReleaseAssumption
  <2>3. 1..version \subseteq DOMAIN MIGRATIONS
    BY <1>1, MigrationDomain
  <2>4. UNION {DroppedBy(i) : i \in 1..version} \subseteq Dropped
    BY <2>3 DEF Dropped
  <2> QED
    BY <2>1, <2>2, <2>4 DEF Schema, Built
<1> QED
  BY <1>1, <1>2, <1>3 DEF DbInv

\* A step moves one process on its way, and takes from the database only what
\* nobody relies on.
LEMMA Moves ==
  ASSUME DbInv, NEW p \in Procs,
         conn' \in [Procs -> Connection], \A q \in Procs \ {p} : conn'[q] = conn[q],
         objects \ Dropped \subseteq objects',
         version' \in 0..Len(MIGRATIONS), Schema(version)' \subseteq (objects \cup Recovered)',
         Way(p)'
  PROVE  DbInv'
<1>1. \A q \in Procs : Way(q)'
  BY WayStays
<1> QED
  BY <1>1 DEF DbInv

LEMMA MigratingWay ==
  ASSUME NEW i \in 1..Len(MIGRATIONS)
  PROVE  Migrating(i) \in Connection
BY MigrationDomain DEF Migrating, Connection, Positions

LEMMA RecoveringWay == Recovering \in Connection
BY MigrationDomain DEF Recovering, Connection, Positions

LEMMA OpenKeeps ==
  ASSUME DbInv, NEW p \in Procs, OpenDb(p)
  PROVE  DbInv'
<1>1. Release[p] \in 1..Len(MIGRATIONS) /\ version \in 0..Len(MIGRATIONS) /\ Len(MIGRATIONS) \in Nat
  BY ReleaseAssumption, MigrationDomain DEF DbInv
<1>2. version' = version /\ objects' = objects
  BY DEF OpenDb
<1>3. CASE version >= Release[p]
  <2>1. conn' = [conn EXCEPT ![p] = Recovering]
    BY <1>3 DEF OpenDb
  <2>2. conn' \in [Procs -> Connection] /\ conn'[p] = Recovering /\ \A q \in Procs \ {p} : conn'[q] = conn[q]
    BY <2>1, RecoveringWay DEF DbInv
  <2>3. Schema(Release[p]) \subseteq Schema(version)
    BY <1>1, <1>3, SchemaGrows
  <2>4. Way(p)'
    BY <2>2, <2>3, <1>2 DEF DbInv, Way, OnRecovery, Recovering
  <2> QED
    BY <1>1, <1>2, <2>2, <2>4, Moves, VersionStays
<1>4. CASE version < Release[p]
  <2>1. conn' = [conn EXCEPT ![p] = Migrating(version + 1)]
    <3>1. ~(version >= Release[p])
      BY <1>1, <1>4
    <3> QED
      BY <3>1 DEF OpenDb
  <2>2. version + 1 \in 1..Release[p] /\ version + 1 \in 1..Len(MIGRATIONS) /\ (version + 1) - 1 = version
    BY <1>1, <1>4
  <2>3. conn' \in [Procs -> Connection] /\ conn'[p] = Migrating(version + 1) /\ \A q \in Procs \ {p} : conn'[q] = conn[q]
    BY <2>1, <2>2, MigratingWay DEF DbInv
  <2>4. Way(p)'
    BY <2>2, <2>3, <1>2 DEF DbInv, Way, OnMigration, Migrating
  <2> QED
    BY <1>1, <1>2, <2>3, <2>4, Moves, VersionStays
<1> QED
  BY <1>1, <1>3, <1>4

\* When the version's row is inserted, the rest of the first migration is done.
LEMMA RunKeeps ==
  ASSUME DbInv, NEW p \in Procs, NEW k \in conn[p].left, RunStatement(p, k)
  PROVE  DbInv'
<1> DEFINE i == conn[p].mig
           st == MIGRATIONS[i][k]
<1>1. conn[p].at = "migrating" /\ OnMigration(p) /\ conn[p] \in Connection
  BY DEF RunStatement, DbInv, Way
<1>2. i \in 1..Len(MIGRATIONS) /\ i \in DOMAIN MIGRATIONS /\ k \in DOMAIN MIGRATIONS[i]
  BY <1>1, ReleaseAssumption, MigrationDomain DEF OnMigration
<1>3. conn' = [conn EXCEPT ![p] = [conn[p] EXCEPT !.left = conn[p].left \ {k}]]
  BY DEF RunStatement
<1>4. /\ conn' \in [Procs -> Connection]
      /\ conn'[p].at = "migrating" /\ conn'[p].mig = i /\ conn'[p].left = conn[p].left \ {k}
      /\ \A q \in Procs \ {p} : conn'[q] = conn[q]
  BY <1>1, <1>3 DEF DbInv, Connection
<1>5. objects \ Dropped \subseteq objects'
  BY <1>2, DropIsDropped DEF RunStatement
<1>6. st.op # "drop" => st.name \in objects'
  BY DEF RunStatement
<1>7. \A j \in DOMAIN MIGRATIONS[i] \ (conn[p].left \ {k}) :
         MIGRATIONS[i][j].op # "drop" => MIGRATIONS[i][j].name \in objects' \cup Recovered \cup Dropped
  BY <1>1, <1>5, <1>6 DEF OnMigration
<1>8. Schema(i - 1) \subseteq objects' \cup Recovered
  BY <1>1, <1>5, NotDropped DEF OnMigration
<1>9. Way(p)'
  BY <1>1, <1>4, <1>7, <1>8 DEF Way, OnMigration
<1>10. version' \in 0..Len(MIGRATIONS) /\ Schema(version)' \subseteq (objects \cup Recovered)'
  <2>1. CASE version' = version
    BY <2>1, <1>5, VersionStays DEF DbInv
  <2>2. CASE st.op = "version" /\ version' = 1
    <3>1. i = 1 /\ \A j \in DOMAIN MIGRATIONS[1] : k <= j => j = k
      BY <1>2, <2>2, MigrationAssumption
    <3>2. conn[p].left \ {k} = {}
      BY <1>1, <3>1 DEF RunStatement, IsNext, OnMigration
    <3>3. Schema(1) \subseteq objects' \cup Recovered
      BY <1>2, <1>7, <1>8, <3>1, <3>2, MigrationDone
    <3> QED
      BY <2>2, <3>3, MigrationDomain DEF Schema, Recovered
  <2> QED
    BY <2>1, <2>2 DEF RunStatement
<1> QED
  BY <1>4, <1>5, <1>9, <1>10, Moves

\* The statements that stay out the second time are in the database.
LEMMA DuplicateKeeps ==
  ASSUME DbInv, NEW p \in Procs, NEW k \in conn[p].left, DuplicateColumn(p, k)
  PROVE  DbInv'
<1> DEFINE i == conn[p].mig
<1>1. conn[p].at = "migrating" /\ OnMigration(p) /\ conn[p] \in Connection
  BY DEF DuplicateColumn, DbInv, Way
<1>2. i \in 1..Len(MIGRATIONS) /\ i \in DOMAIN MIGRATIONS
  BY <1>1, ReleaseAssumption, MigrationDomain DEF OnMigration
<1>3. version' = version /\ objects' = objects
  BY DEF DuplicateColumn
<1>4. CASE conn' = [conn EXCEPT ![p] = Closed]
  <2>1. conn' \in [Procs -> Connection] /\ conn'[p] = Closed /\ \A q \in Procs \ {p} : conn'[q] = conn[q]
    BY <1>4, MigrationDomain DEF DbInv, Connection, Closed
  <2>2. Way(p)'
    BY <2>1 DEF Way, Closed
  <2> QED
    BY <1>3, <2>1, <2>2, Moves, VersionStays DEF DbInv
<1>5. CASE conn' = [conn EXCEPT ![p] = [conn[p] EXCEPT !.left = Unapplied(i), !.again = TRUE]]
  <2>1. Unapplied(i) \subseteq DOMAIN MIGRATIONS[i] /\ Unapplied(i) \subseteq Positions
    BY <1>2 DEF Unapplied, Positions
  <2>2. /\ conn' \in [Procs -> Connection]
        /\ conn'[p].at = "migrating" /\ conn'[p].mig = i /\ conn'[p].left = Unapplied(i)
        /\ \A q \in Procs \ {p} : conn'[q] = conn[q]
    BY <1>1, <1>5, <2>1 DEF DbInv, Connection
  <2>3. \A j \in DOMAIN MIGRATIONS[i] \ Unapplied(i) : MIGRATIONS[i][j].name \in objects'
    BY <1>3 DEF Unapplied, IsDuplicate
  <2>4. Way(p)'
    BY <1>1, <1>3, <2>1, <2>2, <2>3 DEF Way, OnMigration
  <2> QED
    BY <1>3, <2>2, <2>4, Moves, VersionStays DEF DbInv
<1> QED
  BY <1>4, <1>5 DEF DuplicateColumn

\* A migration with nothing left has brought its schema.
LEMMA MigrationEnds ==
  ASSUME DbInv, NEW p \in Procs, conn[p].at = "migrating", conn[p].left = {}
  PROVE  /\ conn[p].mig \in 1..Release[p] /\ conn[p].mig \in 1..Len(MIGRATIONS)
         /\ Schema(conn[p].mig) \subseteq objects \cup Recovered
<1>1. OnMigration(p)
  BY DEF DbInv, Way
<1>2. conn[p].mig \in 1..Release[p] /\ conn[p].mig \in 1..Len(MIGRATIONS)
  BY <1>1, ReleaseAssumption, MigrationDomain DEF OnMigration
<1> QED
  BY <1>1, <1>2, MigrationDone DEF OnMigration

LEMMA NextKeeps ==
  ASSUME DbInv, NEW p \in Procs, NextMigration(p)
  PROVE  DbInv'
<1> DEFINE n == conn[p].mig + 1
<1>1. version' = version /\ objects' = objects /\ Release[p] \in 1..Len(MIGRATIONS)
  BY ReleaseAssumption DEF NextMigration
<1>2. conn[p].mig \in 1..Release[p] /\ Schema(conn[p].mig) \subseteq objects \cup Recovered
  BY MigrationEnds DEF NextMigration
<1>3. n \in 1..Release[p] /\ n \in 1..Len(MIGRATIONS) /\ n - 1 = conn[p].mig
  BY <1>1, <1>2, MigrationDomain DEF NextMigration
<1>4. conn' \in [Procs -> Connection] /\ conn'[p] = Migrating(n) /\ \A q \in Procs \ {p} : conn'[q] = conn[q]
  BY <1>3, MigratingWay DEF NextMigration, DbInv
<1>5. Way(p)'
  BY <1>1, <1>2, <1>3, <1>4 DEF Way, OnMigration, Migrating
<1> QED
  BY <1>1, <1>4, <1>5, Moves, VersionStays DEF DbInv

LEMMA MigratedKeeps ==
  ASSUME DbInv, NEW p \in Procs, Migrated(p)
  PROVE  DbInv'
<1>1. version' = Release[p] /\ objects' = objects /\ conn[p].mig = Release[p]
  BY DEF Migrated
<1>2. Release[p] \in 0..Len(MIGRATIONS) /\ Schema(Release[p]) \subseteq objects \cup Recovered
  BY <1>1, MigrationEnds, MigrationDomain DEF Migrated
<1>3. conn' \in [Procs -> Connection] /\ conn'[p] = Recovering /\ \A q \in Procs \ {p} : conn'[q] = conn[q]
  BY RecoveringWay DEF Migrated, DbInv
<1>4. Way(p)'
  BY <1>1, <1>2, <1>3 DEF Way, OnRecovery, Recovering
<1> QED
  BY <1>1, <1>2, <1>3, <1>4, Moves DEF Schema, Recovered

LEMMA RecoverTableKeeps ==
  ASSUME DbInv, NEW p \in Procs, NEW k \in conn[p].left, RecoverTable(p, k)
  PROVE  DbInv'
<1>1. conn[p].at = "recovering" /\ OnRecovery(p) /\ conn[p] \in Connection
  BY DEF RecoverTable, DbInv, Way
<1>2. version' = version /\ objects \subseteq objects' /\ Recovery[k].name \in objects'
  BY DEF RecoverTable
<1>3. /\ conn' \in [Procs -> Connection]
      /\ conn'[p].at = "recovering" /\ conn'[p].left = conn[p].left \ {k}
      /\ \A q \in Procs \ {p} : conn'[q] = conn[q]
  BY <1>1 DEF RecoverTable, DbInv, Connection
<1>4. Way(p)'
  BY <1>1, <1>2, <1>3 DEF Way, OnRecovery
<1> QED
  BY <1>2, <1>3, <1>4, Moves, VersionStays DEF DbInv

LEMMA RecoverColumnKeeps ==
  ASSUME DbInv, NEW p \in Procs, RecoverColumn(p)
  PROVE  DbInv'
<1>1. conn[p].at = "recovering" /\ OnRecovery(p) /\ conn[p] \in Connection /\ conn[p].left = {}
  BY DEF RecoverColumn, DbInv, Way
<1>2. version' = version /\ objects' = objects
  BY DEF RecoverColumn
<1>3. Schema(Release[p]) \subseteq objects \cup {CallType}
  BY <1>1 DEF OnRecovery, Recovered
<1>4. /\ conn' \in [Procs -> Connection]
      /\ conn'[p].at = IF CallType \in objects THEN "open" ELSE "adding"
      /\ \A q \in Procs \ {p} : conn'[q] = conn[q]
  BY <1>1 DEF RecoverColumn, DbInv, Connection
<1>5. Way(p)'
  BY <1>2, <1>3, <1>4 DEF Way
<1> QED
  BY <1>2, <1>4, <1>5, Moves, VersionStays DEF DbInv

LEMMA AddColumnKeeps ==
  ASSUME DbInv, NEW p \in Procs, AddColumn(p)
  PROVE  DbInv'
<1>1. Schema(Release[p]) \subseteq objects \cup {CallType} /\ conn[p] \in Connection
  BY DEF AddColumn, DbInv, Way
<1>2. version' = version /\ objects' = objects \cup {CallType}
  BY DEF AddColumn
<1>3. /\ conn' \in [Procs -> Connection]
      /\ conn'[p].at \in {"open", "closed"}
      /\ \A q \in Procs \ {p} : conn'[q] = conn[q]
  BY <1>1, MigrationDomain DEF AddColumn, DbInv, Connection, Closed
<1>4. Way(p)'
  BY <1>1, <1>2, <1>3 DEF Way
<1> QED
  BY <1>2, <1>3, <1>4, Moves, VersionStays DEF DbInv

LEMMA CloseKeeps ==
  ASSUME DbInv, NEW p \in Procs, CloseDb(p)
  PROVE  DbInv'
<1>1. version' = version /\ objects' = objects
  BY DEF CloseDb
<1>2. conn' \in [Procs -> Connection] /\ conn'[p] = Closed /\ \A q \in Procs \ {p} : conn'[q] = conn[q]
  BY MigrationDomain DEF CloseDb, DbInv, Connection, Closed
<1>3. Way(p)'
  BY <1>2 DEF Way, Closed
<1> QED
  BY <1>1, <1>2, <1>3, Moves, VersionStays DEF DbInv

LEMMA StutterKeeps ==
  ASSUME DbInv, UNCHANGED dbVars
  PROVE  DbInv'
BY DEF DbInv, dbVars, Way, OnMigration, OnRecovery, Schema, Recovered, Connection, Positions

LEMMA DatabaseStep == DbInv /\ [DbNext]_dbVars => DbInv'
<1> SUFFICES ASSUME DbInv, [DbNext]_dbVars PROVE DbInv'
  OBVIOUS
<1>1. ASSUME NEW p \in Procs, DbStep(p) PROVE DbInv'
  BY <1>1, OpenKeeps, RunKeeps, DuplicateKeeps, NextKeeps, MigratedKeeps, RecoverTableKeeps, RecoverColumnKeeps,
     AddColumnKeeps DEF DbStep
<1>2. ASSUME NEW p \in Procs, CloseDb(p) PROVE DbInv'
  BY <1>2, CloseKeeps
<1>3. CASE UNCHANGED dbVars
  BY <1>3, StutterKeeps
<1> QED
  BY <1>1, <1>2, <1>3 DEF DbNext

LEMMA WayEnds == DbInv => OpenIsComplete
BY DEF DbInv, Way, OpenIsComplete

(* ------------------------------- Theorem ------------------------------- *)

\* A process with an open database finds what its release relies on: however many
\* processes of whatever releases run the migrations in between each other, and
\* wherever one of them stops (migrate, stripAppliedAlters, recoverMissingObjects).
THEOREM DatabaseComplete == DbSpec => []OpenIsComplete
<1>1. DbInit => DbInv
  BY DatabaseInit
<1>2. DbInv /\ [DbNext]_dbVars => DbInv'
  BY DatabaseStep
<1>3. DbInv => OpenIsComplete
  BY WayEnds
<1> QED
  BY <1>1, <1>2, <1>3, PTL DEF DbSpec

(* --------------------------- The schema's part ------------------------- *)

LEMMA GoesLeavesDb ==
  ASSUME NEW p, NEW c, Goes(p, c)
  PROVE  UNCHANGED dbVars
BY DEF Goes

LEMMA CallsLeavesDb ==
  ASSUME NEW p, NEW next, Calls(p, next)
  PROVE  UNCHANGED dbVars
BY GoesLeavesDb DEF Calls

LEMMA WorkLeavesDb ==
  ASSUME NEW p, Work(p)
  PROVE  UNCHANGED dbVars
<1>1. ASSUME ProjectBegins(p) PROVE UNCHANGED dbVars
  BY <1>1 DEF ProjectBegins, Begin, DeleteProject, BeginBackfill
<1>2. ASSUME EnsureStep(p) PROVE UNCHANGED dbVars
  BY <1>2 DEF EnsureStep, ByPath, Conflict, MergeConflict, SetRemote, ByAlias, ByRemote, AddAlias, InsertProject,
              Finds, To, Throws, Goes
<1>3. ASSUME StoreRow(p) \/ ClearProject(p) PROVE UNCHANGED dbVars
  BY <1>3 DEF StoreRow, ClearProject, Throws, Goes
<1>4. ASSUME BackfillNext(p) \/ BackfillLook(p) \/ BackfillMerge(p) PROVE UNCHANGED dbVars
  BY <1>4 DEF BackfillNext, BackfillLook, BackfillMerge, To, Throws, Goes
<1> QED
  BY <1>1, <1>2, <1>3, <1>4 DEF Work, ProjectGoes

LEMMA ImportLeavesDb ==
  ASSUME NEW p, ImportStep(p)
  PROVE  UNCHANGED dbVars
<1>1. ASSUME NEW auto, BeginImport(p, auto) PROVE UNCHANGED dbVars
  BY <1>1 DEF BeginImport
<1>2. ASSUME Detect(p) \/ IsImported(p) \/ Record(p) \/ Offered(p) PROVE UNCHANGED dbVars
  BY <1>2 DEF Detect, IsImported, Record, Offered, Throws, Goes
<1>3. ASSUME Confirm(p) \/ Read(p) \/ ModelAnswers(p) \/ BeginRecord(p) \/ ImportThrows(p) PROVE UNCHANGED dbVars
  BY <1>3, CallsLeavesDb DEF Confirm, Read, ModelAnswers, BeginRecord, ImportThrows
<1> QED
  BY <1>1, <1>2, <1>3 DEF ImportStep

LEMMA NextOfDatabase == [Next]_vars => [DbNext]_dbVars
<1> SUFFICES ASSUME [Next]_vars PROVE [DbNext]_dbVars
  OBVIOUS
<1>1. CASE UNCHANGED vars
  BY <1>1 DEF vars
<1>2. CASE Talk
  BY <1>2 DEF Talk
<1>3. ASSUME NEW p \in Procs, Start(p) \/ Stop(p) PROVE [DbNext]_dbVars
  BY <1>3 DEF Start, Stop, DbNext
<1>4. ASSUME NEW p \in Procs, Work(p) \/ Import(p) PROVE [DbNext]_dbVars
  BY <1>4, WorkLeavesDb, ImportLeavesDb DEF Import
<1> QED
  BY <1>1, <1>2, <1>3, <1>4 DEF Next

\* The machine implements the opening of the database: resolving and merging
\* projects and importing never touch the schema or a connection (db.ts,
\* import.ts).
THEOREM MachineImplementsDatabase == Spec => DbSpec
<1>1. Init => DbInit
  BY DEF Init
<1>2. [Next]_vars => [DbNext]_dbVars
  BY NextOfDatabase
<1> QED
  BY <1>1, <1>2, PTL DEF Spec, DbSpec

\* On a machine whose processes do all they do, an open database is complete
\* (migrate, recoverMissingObjects).
THEOREM MachineComplete == Spec => []OpenIsComplete
BY MachineImplementsDatabase, DatabaseComplete, PTL

(* -------------------------- The import's part -------------------------- *)

\* A call has reached one of these stages only if it was made for it.
Stages == {"record", "detect", "isImported", "offered", "idle"}
IsCall(c) == {"at", "next"} \subseteq DOMAIN c /\ (c.at \in Stages => c.next = c.at)

\* The call c that an import m makes is for what it does.
Serves(c, m) ==
    /\ c.next = "record" => m.at = "recording"
    /\ c.next = "detect" => m.at = "checking"

ImportRecord ==
    [at : {"none", "checking", "prompted", "accepted", "declined", "reading", "asked", "learning", "recording", "closing"},
     auto : BOOLEAN, hash : Nat]

\* A conversation is recorded with the hash of a detection, which has been shown
\* to a model since.
Shown(p) == import[p].at \in {"asked", "learning", "recording"} => import[p].hash <= shown

Recorded == \A h \in history : h.hash \in 0..shown

ImportInv ==
    /\ said \in Nat /\ shown \in Nat
    /\ import \in [Procs -> ImportRecord]
    /\ call = [p \in Procs |-> call[p]]
    /\ \A p \in Procs : /\ IsCall(call[p])
                        /\ import[p].hash <= said
                        /\ Shown(p)
                        /\ Serves(call[p], import[p])
    /\ Recorded

LEMMA ImportInvInit == Init => ImportInv
BY DEF Init, ProjectsInit, ImportInit, ImportInv, NoCall, NoImport, IsCall, Stages, ImportRecord, Shown, Recorded, Serves

\* Only one process's call and import change, as its step says; what is told of
\* the others does not.
LEMMA ImportMoves ==
  ASSUME ImportInv, NEW p \in Procs, NEW c, NEW m \in ImportRecord,
         call' = [call EXCEPT ![p] = c], import' = [import EXCEPT ![p] = m],
         IsCall(c), Serves(c, m),
         said' = said, shown' \in Nat, shown' >= shown,
         m.hash <= said, m.at \in {"asked", "learning", "recording"} => m.hash <= shown',
         Recorded'
  PROVE  ImportInv'
<1>1. call'[p] = c /\ import'[p] = m /\ call' = [q \in Procs |-> call'[q]] /\ import' \in [Procs -> ImportRecord]
  BY DEF ImportInv
<1>2. \A q \in Procs \ {p} : call'[q] = call[q] /\ import'[q] = import[q]
  BY DEF ImportInv
<1>3. \A q \in Procs : /\ IsCall(call'[q])
                       /\ import'[q].hash <= said'
                       /\ Shown(q)'
                       /\ Serves(call'[q], import'[q])
  <2> TAKE q \in Procs
  <2>1. CASE q = p
    BY <2>1, <1>1 DEF Shown
  <2>2. CASE q # p
    BY <2>2, <1>2 DEF ImportInv, ImportRecord, Shown
  <2> QED
    BY <2>1, <2>2
<1> QED
  BY <1>1, <1>3 DEF ImportInv, IsCall

(* The steps of a call: it goes to no stage but the one it was made for. *)

LEMMA GoesOn ==
  ASSUME ImportInv, NEW p \in Procs, NEW c, Goes(p, c), UNCHANGED importVars, history' \subseteq history,
         IsCall(c), c.next \in {call[p].next, "idle"}
  PROVE  ImportInv'
<1>1. Recorded' /\ import' = [import EXCEPT ![p] = import[p]]
  BY DEF ImportInv, Recorded, importVars
<1>2. call' = [call EXCEPT ![p] = c] /\ said' = said /\ shown' = shown
  BY DEF Goes, importVars
<1>3. import[p] \in ImportRecord /\ Serves(c, import[p])
  BY DEF ImportInv, Serves
<1>4. import[p].hash <= said /\ (import[p].at \in {"asked", "learning", "recording"} => import[p].hash <= shown')
  BY <1>2 DEF ImportInv, Shown
<1>5. shown' \in Nat /\ shown' >= shown
  BY <1>2 DEF ImportInv
<1> QED
  BY <1>1, <1>2, <1>3, <1>4, <1>5, ImportMoves

LEMMA ToStage ==
  ASSUME ImportInv, NEW p \in Procs, NEW where, where \notin Stages, To(p, where),
         UNCHANGED importVars, history' \subseteq history
  PROVE  ImportInv'
<1> DEFINE c == [call[p] EXCEPT !.at = where]
<1>1. IsCall(call[p])
  BY DEF ImportInv
<1>2. c.at = where /\ c.next = call[p].next /\ DOMAIN c = DOMAIN call[p]
  BY <1>1 DEF IsCall
<1>3. IsCall(c)
  BY <1>1, <1>2 DEF IsCall
<1> QED
  BY <1>2, <1>3, GoesOn DEF To

LEMMA FindsStage ==
  ASSUME ImportInv, NEW p \in Procs, NEW i, Finds(p, i), UNCHANGED importVars, history' \subseteq history
  PROVE  ImportInv'
<1> DEFINE c == [call[p] EXCEPT !.at = call[p].next, !.id = i]
<1>1. IsCall(call[p])
  BY DEF ImportInv
<1>2. c.at = call[p].next /\ c.next = call[p].next /\ DOMAIN c = DOMAIN call[p]
  BY <1>1 DEF IsCall
<1>3. IsCall(c)
  BY <1>1, <1>2 DEF IsCall
<1> QED
  BY <1>2, <1>3, GoesOn DEF Finds

LEMMA EndsCall ==
  ASSUME ImportInv, NEW p \in Procs, Goes(p, NoCall), UNCHANGED importVars, history' \subseteq history
  PROVE  ImportInv'
BY GoesOn DEF NoCall, IsCall, Stages

LEMMA NewCall ==
  ASSUME NEW q, NEW next
  PROVE  IsCall(Ensure(q, next)) /\ Ensure(q, next).next = next
BY DEF Ensure, NoCall, IsCall, Stages

LEMMA WorkKeeps ==
  ASSUME ImportInv, NEW p \in Procs, Work(p)
  PROVE  ImportInv'
<1>1. UNCHANGED importVars
  BY DEF Work
<1>2. IsCall(call[p])
  BY DEF ImportInv
<1>3. ASSUME EnsureStep(p) PROVE ImportInv'
  <2> USE <1>1, <1>2
  <2>1. CASE ByPath(p)
    <3>1. ASSUME NEW i, NEW r, Goes(p, [call[p] EXCEPT !.at = "conflict", !.id = i, !.remote = r]), UNCHANGED tables
          PROVE  ImportInv'
      BY <3>1, GoesOn DEF IsCall, Stages, tables
    <3> QED
      BY <2>1, <3>1, ToStage, FindsStage DEF ByPath, Stages, tables
  <2>2. CASE Conflict(p)
    <3>1. ASSUME NEW i, Goes(p, [call[p] EXCEPT !.at = "merge", !.other = i]), UNCHANGED tables
          PROVE  ImportInv'
      BY <3>1, GoesOn DEF IsCall, Stages, tables
    <3> QED
      BY <2>2, <3>1, ToStage DEF Conflict, Stages, tables
  <2>3. CASE MergeConflict(p)
    BY <2>3, ToStage, EndsCall DEF MergeConflict, Merge, Throws, Stages, tables
  <2>4. CASE SetRemote(p)
    BY <2>4, FindsStage DEF SetRemote
  <2>5. CASE ByAlias(p)
    <3>1. ASSUME NEW r, NEW where \in {"insert", "byRemote"}, UNCHANGED tables,
                 Goes(p, [call[p] EXCEPT !.at = where, !.remote = r])
          PROVE  ImportInv'
      BY <3>1, GoesOn DEF IsCall, Stages, tables
    <3> QED
      BY <2>5, <3>1, FindsStage DEF ByAlias, tables
  <2>6. CASE ByRemote(p)
    <3>1. ASSUME NEW i, Goes(p, [call[p] EXCEPT !.at = "addAlias", !.id = i]), UNCHANGED tables
          PROVE  ImportInv'
      BY <3>1, GoesOn DEF IsCall, Stages, tables
    <3> QED
      BY <2>6, <3>1, ToStage DEF ByRemote, Stages, tables
  <2>7. CASE AddAlias(p)
    BY <2>7, FindsStage, EndsCall DEF AddAlias, Throws, tables
  <2>8. CASE InsertProject(p)
    BY <2>8, FindsStage, EndsCall DEF InsertProject, Throws, tables
  <2> QED
    BY <1>3, <2>1, <2>2, <2>3, <2>4, <2>5, <2>6, <2>7, <2>8 DEF EnsureStep
<1>4. ASSUME StoreRow(p) \/ ClearProject(p) PROVE ImportInv'
  BY <1>1, <1>4, EndsCall DEF StoreRow, ClearProject, Throws, tables
<1>5. ASSUME BackfillNext(p) PROVE ImportInv'
  <2>1. ASSUME NEW todo, Goes(p, [call[p] EXCEPT !.todo = todo]), UNCHANGED tables
        PROVE  ImportInv'
    BY <1>1, <1>2, <2>1, GoesOn DEF IsCall, tables
  <2>2. ASSUME NEW todo, NEW i, NEW r, UNCHANGED tables,
               Goes(p, [[call[p] EXCEPT !.todo = todo] EXCEPT !.at = "look", !.id = i, !.remote = r])
        PROVE  ImportInv'
    BY <1>1, <1>2, <2>2, GoesOn DEF IsCall, Stages, tables
  <2> QED
    BY <1>1, <1>5, <2>1, <2>2, EndsCall DEF BackfillNext, tables
<1>6. ASSUME BackfillLook(p) \/ BackfillMerge(p) PROVE ImportInv'
  <2>1. ASSUME NEW i, Goes(p, [call[p] EXCEPT !.at = "mergeInto", !.other = i]), UNCHANGED tables
        PROVE  ImportInv'
    BY <1>1, <1>2, <2>1, GoesOn DEF IsCall, Stages, tables
  <2> QED
    BY <1>1, <1>6, <2>1, ToStage, EndsCall DEF BackfillLook, BackfillMerge, Merge, Throws, Stages, tables
<1>7. ASSUME ProjectBegins(p) PROVE ImportInv'
  <2>1. import' = [import EXCEPT ![p] = import[p]] /\ import[p] \in ImportRecord /\ said' = said /\ shown' = shown
    BY <1>1 DEF ImportInv, importVars
  <2>2. import[p].hash <= said /\ shown' \in Nat /\ shown' >= shown
        /\ (import[p].at \in {"asked", "learning", "recording"} => import[p].hash <= shown')
    BY <2>1 DEF ImportInv, Shown
  <2>3. history' \subseteq history
    BY <1>7 DEF ProjectBegins, Begin, DeleteProject, BeginBackfill, tables
  <2>4. Recorded'
    BY <2>1, <2>3 DEF ImportInv, Recorded
  <2>5. ASSUME NEW c, call' = [call EXCEPT ![p] = c], IsCall(c), c.next \notin {"record", "detect"} PROVE ImportInv'
    BY <2>1, <2>2, <2>4, <2>5, ImportMoves DEF Serves
  <2>6. CASE \E q \in Paths, next \in {"knowledge", "message", "clear"} : Begin(p, q, next)
    <3>1. PICK q \in Paths, next \in {"knowledge", "message", "clear"} : Begin(p, q, next)
      BY <2>6
    <3>2. call' = [call EXCEPT ![p] = Ensure(q, next)]
      BY <3>1 DEF Begin
    <3> QED
      BY <2>5, <3>1, <3>2, NewCall
  <2>7. CASE \E i \in Ids : DeleteProject(p, i)
    <3>1. call' = call /\ call' = [call EXCEPT ![p] = call[p]]
      BY <2>7 DEF DeleteProject, ImportInv
    <3> QED
      BY <1>2, <2>1, <2>2, <2>4, <3>1, ImportMoves DEF ImportInv
  <2>8. CASE BeginBackfill(p)
    <3>1. PICK todo : call' = [call EXCEPT ![p] = [NoCall EXCEPT !.at = "list", !.next = "list", !.todo = todo]]
      BY <2>8 DEF BeginBackfill
    <3> DEFINE c == [NoCall EXCEPT !.at = "list", !.next = "list", !.todo = todo]
    <3>2. IsCall(c) /\ c.next = "list"
      BY DEF NoCall, IsCall, Stages
    <3> QED
      BY <2>5, <3>1, <3>2
  <2> QED
    BY <1>7, <2>6, <2>7, <2>8 DEF ProjectBegins
<1> QED
  BY <1>3, <1>4, <1>5, <1>6, <1>7 DEF Work, ProjectGoes

(* The steps of an import. *)

\* The import goes on to m, with a new call or after the end of one.
LEMMA ImportGoes ==
  ASSUME ImportInv, NEW p \in Procs, NEW c, NEW m \in ImportRecord,
         Goes(p, c), import' = [import EXCEPT ![p] = m],
         IsCall(c), Serves(c, m),
         UNCHANGED <<said, shown, history>>,
         m.hash <= said, m.at \in {"asked", "learning", "recording"} => m.hash <= shown
  PROVE  ImportInv'
<1>1. call' = [call EXCEPT ![p] = c] /\ said' = said /\ shown' = shown /\ shown \in Nat
  BY DEF Goes, ImportInv
<1>2. Recorded'
  BY DEF ImportInv, Recorded
<1>3. shown' \in Nat /\ shown' >= shown /\ (m.at \in {"asked", "learning", "recording"} => m.hash <= shown')
  BY <1>1
<1> QED
  BY <1>1, <1>2, <1>3, ImportMoves

LEMMA NoCallIsCall == IsCall(NoCall) /\ \A m : Serves(NoCall, m)
BY DEF NoCall, IsCall, Stages, Serves

\* A stage that the import had before it is shown to a model, or after all.
LEMMA Earlier ==
  ASSUME ImportInv, NEW p \in Procs,
         NEW where \in {"none", "checking", "prompted", "accepted", "declined", "reading", "closing"}
  PROVE  LET m == [import[p] EXCEPT !.at = where] IN
         m \in ImportRecord /\ m.hash <= said /\ m.at = where
BY DEF ImportInv, ImportRecord

LEMMA NoImportIsImport == ImportInv => NoImport \in ImportRecord /\ NoImport.hash <= said /\ NoImport.at = "none"
BY DEF NoImport, ImportRecord, ImportInv

LEMMA ImportStarts ==
  ASSUME ImportInv, NEW p \in Procs, NEW auto \in BOOLEAN, BeginImport(p, auto)
  PROVE  ImportInv'
<1> DEFINE m == [NoImport EXCEPT !.at = "checking", !.auto = auto]
<1>1. m \in ImportRecord /\ m.hash = 0 /\ m.at = "checking"
  BY DEF NoImport, ImportRecord
<1>2. call' = [call EXCEPT ![p] = Ensure(Source, "detect")] /\ import' = [import EXCEPT ![p] = m]
  BY DEF BeginImport
<1>3. said' = said /\ shown' = shown /\ history' = history /\ said \in Nat /\ shown \in Nat
  BY DEF BeginImport, tables, ImportInv
<1>4. Recorded'
  BY <1>3 DEF ImportInv, Recorded
<1>5. shown' \in Nat /\ shown' >= shown /\ m.hash <= said
  BY <1>1, <1>3
<1> HIDE DEF m
<1> QED
  BY <1>1, <1>2, <1>3, <1>4, <1>5, NewCall, ImportMoves DEF Serves

LEMMA DetectKeeps ==
  ASSUME ImportInv, NEW p \in Procs, Detect(p)
  PROVE  ImportInv'
<1> DEFINE m == [import[p] EXCEPT !.hash = said]
<1>1. import[p].at = "checking"
  BY DEF Detect, ImportInv, IsCall, Stages, Serves
<1>2. m \in ImportRecord /\ m.at = import[p].at /\ m.hash = said
  BY DEF ImportInv, ImportRecord
<1>3. UNCHANGED <<said, shown, history>>
  BY DEF Detect, tables
<1>4. CASE Goes(p, NoCall) /\ import' = [import EXCEPT ![p] = NoImport]
  BY <1>3, <1>4, NoCallIsCall, NoImportIsImport, ImportGoes
<1>5. CASE Goes(p, Ensure(Source, "isImported")) /\ import' = [import EXCEPT ![p] = m]
  <2>1. Serves(Ensure(Source, "isImported"), m) /\ said <= said
    BY NewCall DEF Serves, ImportInv
  <2> HIDE DEF m
  <2> QED
    BY <1>1, <1>2, <1>3, <1>5, <2>1, NewCall, ImportGoes
<1> QED
  BY <1>4, <1>5 DEF Detect

\* An import whose process is free goes on to a stage, with or without a call.
LEMMA FreeImport ==
  ASSUME ImportInv, NEW p \in Procs, IsFree(p),
         NEW where \in {"none", "checking", "prompted", "accepted", "declined", "reading", "closing"},
         Imports(p, where), UNCHANGED <<said, shown>>,
         (UNCHANGED projectVars) \/ \E next \in {"offered", "knowledge"} : Calls(p, next)
  PROVE  ImportInv'
<1> DEFINE m == [import[p] EXCEPT !.at = where]
<1>1. m \in ImportRecord /\ m.hash <= said /\ m.at = where /\ import' = [import EXCEPT ![p] = m]
  BY Earlier DEF Imports
<1> HIDE DEF m
<1>2. CASE UNCHANGED projectVars
  <2>1. call' = [call EXCEPT ![p] = call[p]] /\ history' = history /\ said' = said /\ shown' = shown
    BY <1>2 DEF projectVars, tables, ImportInv
  <2>2. IsCall(call[p]) /\ Serves(call[p], m)
    BY DEF ImportInv, IsFree, IsCall, Stages, Serves
  <2>3. Recorded' /\ shown' \in Nat /\ shown' >= shown
    BY <2>1 DEF ImportInv, Recorded
  <2> QED
    BY <1>1, <2>1, <2>2, <2>3, ImportMoves
<1>3. ASSUME NEW next \in {"offered", "knowledge"}, Calls(p, next) PROVE ImportInv'
  <2>1. Goes(p, Ensure(Source, next)) /\ history' = history
    BY <1>3 DEF Calls, tables
  <2>2. Serves(Ensure(Source, next), m)
    BY NewCall DEF Serves
  <2> QED
    BY <1>1, <2>1, <2>2, NewCall, ImportGoes
<1> QED
  BY <1>2, <1>3

LEMMA IsImportedKeeps ==
  ASSUME ImportInv, NEW p \in Procs, IsImported(p)
  PROVE  ImportInv'
<1>1. Goes(p, NoCall) /\ UNCHANGED <<said, shown, history>>
  BY DEF IsImported, tables
<1>2. CASE import' = [import EXCEPT ![p] = NoImport]
  BY <1>1, <1>2, NoCallIsCall, NoImportIsImport, ImportGoes
<1>3. CASE import' = [import EXCEPT ![p] = [import[p] EXCEPT !.at = "prompted"]]
  BY <1>1, <1>3, NoCallIsCall, Earlier, ImportGoes
<1> QED
  BY <1>2, <1>3 DEF IsImported

\* What the model is asked about holds what was detected.
LEMMA ReadKeeps ==
  ASSUME ImportInv, NEW p \in Procs, Read(p)
  PROVE  ImportInv'
<1>1. ASSUME shown' = IF shown < said THEN said ELSE shown, Imports(p, "asked"), UNCHANGED <<said, projectVars, dbVars>>
      PROVE  ImportInv'
  <2> DEFINE m == [import[p] EXCEPT !.at = "asked"]
  <2>1. m \in ImportRecord /\ m.hash = import[p].hash /\ m.at = "asked" /\ import' = [import EXCEPT ![p] = m]
    BY <1>1 DEF ImportInv, ImportRecord, Imports
  <2> HIDE DEF m
  <2>2. /\ shown' \in Nat /\ shown' >= shown /\ said' = said
        /\ m.hash <= said /\ m.hash <= shown'
    BY <1>1, <2>1 DEF ImportInv, ImportRecord
  <2>3. call' = [call EXCEPT ![p] = call[p]] /\ history' = history
    BY <1>1 DEF projectVars, tables, ImportInv
  <2>4. IsCall(call[p]) /\ Serves(call[p], m)
    BY DEF Read, ImportInv, IsFree, IsCall, Stages, Serves
  <2>5. Recorded'
    BY <2>2, <2>3 DEF ImportInv, Recorded
  <2> QED
    BY <2>1, <2>2, <2>3, <2>4, <2>5, ImportMoves
<1>2. ASSUME Imports(p, "none"), UNCHANGED <<said, shown, projectVars, dbVars>> PROVE ImportInv'
  BY <1>2, FreeImport DEF Read
<1>3. ASSUME Calls(p, "offered"), Imports(p, "closing"), UNCHANGED <<said, shown>> PROVE ImportInv'
  BY <1>3, FreeImport DEF Read
<1> QED
  BY <1>1, <1>2, <1>3 DEF Read

LEMMA ModelAnswersKeeps ==
  ASSUME ImportInv, NEW p \in Procs, ModelAnswers(p)
  PROVE  ImportInv'
<1> DEFINE m == [import[p] EXCEPT !.at = "learning"]
<1>1. m \in ImportRecord /\ m.at = "learning" /\ m.hash <= said /\ m.hash <= shown /\ import' = [import EXCEPT ![p] = m]
  BY DEF ModelAnswers, Imports, ImportInv, ImportRecord, Shown
<1> HIDE DEF m
<1>2. said' = said /\ shown' = shown
  BY DEF ModelAnswers
<1>3. CASE Calls(p, "knowledge")
  <2>1. Goes(p, Ensure(Source, "knowledge")) /\ history' = history
    BY <1>3 DEF Calls, tables
  <2>2. Serves(Ensure(Source, "knowledge"), m)
    BY NewCall DEF Serves
  <2> QED
    BY <1>1, <1>2, <2>1, <2>2, NewCall, ImportGoes
<1>4. CASE UNCHANGED <<projectVars, dbVars>>
  <2>1. call' = [call EXCEPT ![p] = call[p]] /\ history' = history
    BY <1>4 DEF projectVars, tables, ImportInv
  <2>2. IsCall(call[p]) /\ Serves(call[p], m)
    BY DEF ModelAnswers, ImportInv, IsFree, IsCall, Stages, Serves
  <2>3. Recorded' /\ shown' \in Nat /\ shown' >= shown /\ m.hash <= shown'
    BY <1>1, <1>2, <2>1 DEF ImportInv, Recorded
  <2> QED
    BY <1>1, <1>2, <2>1, <2>2, <2>3, ImportMoves
<1> QED
  BY <1>3, <1>4 DEF ModelAnswers

LEMMA BeginRecordKeeps ==
  ASSUME ImportInv, NEW p \in Procs, BeginRecord(p)
  PROVE  ImportInv'
<1> DEFINE m == [import[p] EXCEPT !.at = "recording"]
<1>1. m \in ImportRecord /\ m.at = "recording" /\ m.hash <= said /\ m.hash <= shown /\ import' = [import EXCEPT ![p] = m]
  BY DEF BeginRecord, Imports, ImportInv, ImportRecord, Shown
<1>2. Goes(p, Ensure(Source, "record")) /\ UNCHANGED <<said, shown, history>>
  BY DEF BeginRecord, Calls, tables
<1> HIDE DEF m
<1>3. Serves(Ensure(Source, "record"), m)
  BY <1>1, NewCall DEF Serves
<1> QED
  BY <1>1, <1>2, <1>3, NewCall, ImportGoes

\* What is recorded is the hash of the detection.
LEMMA RecordKeeps ==
  ASSUME ImportInv, NEW p \in Procs, Record(p)
  PROVE  ImportInv'
<1>1. import[p].at = "recording" /\ said' = said /\ shown' = shown
  BY DEF Record, ImportInv, IsCall, Stages, Serves
<1>2. import[p].hash \in 0..shown /\ import[p].hash <= said
  BY <1>1 DEF ImportInv, ImportRecord, Shown
<1>3. ASSUME history' = {h \in history : h.project # call[p].id \/ h.path # Source}
                          \cup {[path |-> Source, hash |-> RecordedHash(p), project |-> call[p].id]}
      PROVE  Recorded' /\ shown' \in Nat /\ shown' >= shown
  BY <1>1, <1>2, <1>3 DEF ImportInv, Recorded, RecordedHash
<1>4. ASSUME Recorded', shown' \in Nat, shown' >= shown, Goes(p, NoCall), Imports(p, "none") PROVE ImportInv'
  BY <1>1, <1>4, NoCallIsCall, Earlier, ImportMoves DEF Goes, Imports
<1>5. ASSUME Recorded', shown' \in Nat, shown' >= shown, Goes(p, Ensure(Source, "offered")), Imports(p, "closing")
      PROVE  ImportInv'
  <2> DEFINE m == [import[p] EXCEPT !.at = "closing"]
  <2>1. m \in ImportRecord /\ m.hash <= said /\ m.at = "closing"
    BY Earlier
  <2>2. Serves(Ensure(Source, "offered"), m) /\ IsCall(Ensure(Source, "offered"))
    BY NewCall DEF Serves
  <2>3. call' = [call EXCEPT ![p] = Ensure(Source, "offered")] /\ import' = [import EXCEPT ![p] = m]
    BY <1>5 DEF Goes, Imports
  <2> HIDE DEF m
  <2> QED
    BY <1>1, <1>5, <2>1, <2>2, <2>3, ImportMoves
<1>6. ASSUME Goes(p, NoCall), UNCHANGED tables, UNCHANGED import PROVE ImportInv'
  BY <1>1, <1>6, EndsCall DEF tables, importVars
<1> QED
  BY <1>3, <1>4, <1>5, <1>6 DEF Record, Throws

LEMMA OfferedKeeps ==
  ASSUME ImportInv, NEW p \in Procs, Offered(p)
  PROVE  ImportInv'
<1>1. PICK where \in {"reading", "none"} : Imports(p, where)
  BY DEF Offered
<1>2. Goes(p, NoCall) /\ UNCHANGED <<said, shown, history>>
  BY DEF Offered
<1>3. import' = [import EXCEPT ![p] = [import[p] EXCEPT !.at = where]]
  BY <1>1 DEF Imports
<1> QED
  BY <1>2, <1>3, NoCallIsCall, Earlier, ImportGoes

LEMMA ImportKeeps ==
  ASSUME ImportInv, NEW p \in Procs, Import(p)
  PROVE  ImportInv'
<1>1. CASE Confirm(p)
  <2>1. IsFree(p) /\ UNCHANGED <<said, shown>>
    BY <1>1 DEF Confirm
  <2>2. PICK where \in {"accepted", "declined", "reading", "none"} :
           Imports(p, where) /\ (Calls(p, "offered") \/ UNCHANGED projectVars)
    BY <1>1 DEF Confirm
  <2> QED
    BY <2>1, <2>2, FreeImport
<1>2. CASE ImportThrows(p)
  BY <1>2, FreeImport DEF ImportThrows
<1> QED
  BY <1>1, <1>2, ImportStarts, DetectKeeps, IsImportedKeeps, ReadKeeps, ModelAnswersKeeps, BeginRecordKeeps,
     RecordKeeps, OfferedKeeps DEF Import, ImportStep

(* -------------------------- Other steps -------------------------------- *)

LEMMA TalkKeeps ==
  ASSUME ImportInv, Talk
  PROVE  ImportInv'
BY DEF ImportInv, Talk, projectVars, tables, ImportRecord, Shown, Recorded, IsCall, Serves

LEMMA StopKeeps ==
  ASSUME ImportInv, NEW p \in Procs, Stop(p)
  PROVE  ImportInv'
<1>1. call' = [call EXCEPT ![p] = NoCall] /\ import' = [import EXCEPT ![p] = NoImport]
  BY DEF Stop
<1>2. said' = said /\ shown' = shown /\ history' = history
  BY DEF Stop, tables
<1>3. shown' \in Nat /\ shown' >= shown /\ Recorded'
  BY <1>2 DEF ImportInv, Recorded
<1> QED
  BY <1>1, <1>2, <1>3, NoCallIsCall, NoImportIsImport, ImportMoves

LEMMA RestKeeps ==
  ASSUME ImportInv, UNCHANGED <<projectVars, importVars>>
  PROVE  ImportInv'
BY DEF ImportInv, projectVars, tables, importVars, ImportRecord, Shown, Recorded, IsCall, Serves

LEMMA ImportStepKeeps == ImportInv /\ [Next]_vars => ImportInv'
<1> SUFFICES ASSUME ImportInv, [Next]_vars PROVE ImportInv'
  OBVIOUS
<1>1. ASSUME NEW p \in Procs, Start(p) \/ Stop(p) \/ Work(p) \/ Import(p) PROVE ImportInv'
  BY <1>1, RestKeeps, StopKeeps, WorkKeeps, ImportKeeps DEF Start
<1>2. CASE UNCHANGED vars
  BY <1>2, RestKeeps DEF vars
<1> QED
  BY <1>1, <1>2, TalkKeeps DEF Next

\* What an import records has been shown to a model, however long the user and the
\* model take, whatever the other processes do to the project meanwhile, and
\* wherever one stops (importCommand, maybeAutoImport, recordImport).
THEOREM MachineSkipsNothing == Spec => []NothingSkipped
<1>1. Init => ImportInv
  BY ImportInvInit
<1>2. ImportInv /\ [Next]_vars => ImportInv'
  BY ImportStepKeeps
<1>3. ImportInv => NothingSkipped
  BY DEF ImportInv, Recorded, NothingSkipped
<1> QED
  BY <1>1, <1>2, <1>3, PTL DEF Spec

(* ----------------- One process at a time: the invariant ---------------- *)

\* What a call may carry, and the ways a call goes: to its project, to what its
\* caller wants of the project, and through backfillGitRemotes' list.
AnyRemote == {RemoteOf[q] : q \in Paths} \cup {NoRemote}
Uses == {"knowledge", "message", "clear", "detect", "isImported", "record", "offered"}
Seeking == {"path", "alias", "byRemote", "addAlias", "insert", "conflict", "merge"}
Listing == {"list", "look", "mergeInto"}

CallRecord ==
    [at : {"idle", "remote"} \cup Uses \cup Seeking \cup Listing, path : Paths \cup {NoId},
     id : Ids \cup {NoId}, other : Ids \cup {NoId}, remote : AnyRemote,
     next : {"idle", "list"} \cup Uses, todo : SUBSET [id : Ids, path : Paths]]

\* One process has the database open, and only such a process is in a call.
OnlyOne ==
    /\ conn = [p \in Procs |-> conn[p]]
    /\ \A p, q \in Procs : conn[p].at # "closed" /\ conn[q].at # "closed" => p = q
    /\ \A p \in Procs : call[p].at # "idle" => conn[p].at = "open"

TablesType ==
    /\ made \in SUBSET Ids
    /\ Live \subseteq made
    /\ project \in [Live -> [path : Paths, remote : AnyRemote]]
    /\ alias \in [Paths -> Live \cup {NoId}]
    /\ rows \in SUBSET [path : Paths, kind : {"knowledge", "message"}, project : Ids]
    /\ \A h \in history : h.path \in Paths

\* A directory is that of one project, or an alias of one, or unknown; a remote is
\* that of one project; and rows are with the project their directory leads to.
OnePath == \A i, j \in Live : project[i].path = project[j].path => i = j
NotBoth == \A q \in Paths : At(q) # {} => alias[q] = NoId
OneRemote == \A i, j \in Live : project[i].remote = project[j].remote /\ project[i].remote # NoRemote => i = j
Led == \A x \in rows \cup history : Resolve(x.path) = {x.project}

TablesInv == TablesType /\ OnePath /\ NotBoth /\ OneRemote /\ Led

\* What call c has found out so far, and still is so.
Seen(c) ==
    /\ c.at \in Seeking \cup Uses => c.path \in Paths
    /\ c.at \in Seeking => c.next \in Uses
    /\ c.at \in Uses => c.next = c.at
    /\ c.at \in Listing => c.next = "list"
    /\ c.at = "remote" => c.next \in Uses \cup {"list"}
    /\ c.next = "record" => c.path = Source
    /\ c.at \in {"alias", "byRemote", "insert", "addAlias"} => At(c.path) = {}
    /\ c.at \in {"byRemote", "insert", "addAlias"} => alias[c.path] = NoId
    /\ c.at = "insert" => c.remote = NoRemote \/ WithRemote(c.remote) = {}
    /\ c.at = "addAlias" => c.id \in Live
    /\ c.at \in {"conflict", "merge"} \/ (c.at = "remote" /\ c.next # "list") => At(c.path) = {c.id} /\ c.path \in Paths
    /\ c.at \in {"conflict", "merge", "remote", "look", "mergeInto"} => c.remote # NoRemote /\ c.id \in Ids
    /\ c.at \in {"merge", "mergeInto"} => c.other \in WithRemote(c.remote) \ {c.id}
    /\ c.at = "remote" => WithRemote(c.remote) \subseteq {c.id}
    /\ c.at \in Uses => Resolve(c.path) = {c.id}

AloneInv ==
    /\ OnlyOne
    /\ call \in [Procs -> CallRecord]
    /\ TablesInv
    /\ \A p \in Procs : Seen(call[p])

LEMMA NoCallRecord == NoCall \in CallRecord /\ NoCall.at = "idle" /\ Seen(NoCall)
<1>1. NoCall \in CallRecord
  BY DEF NoCall, CallRecord, AnyRemote
<1>2. NoCall.at = "idle" /\ NoCall.next = "idle"
  BY DEF NoCall
<1>. QED BY <1>1, <1>2 DEF Seen, Seeking, Uses, Listing

LEMMA AloneInit == Init => AloneInv
<1>. SUFFICES ASSUME Init PROVE AloneInv
  OBVIOUS
<1>1. OnlyOne
  BY DEF Init, DbInit, ProjectsInit, Closed, NoCall, OnlyOne
<1>2. call \in [Procs -> CallRecord] /\ \A p \in Procs : Seen(call[p])
  BY NoCallRecord DEF Init, ProjectsInit
<1>3. made \subseteq Ids
  BY DEF Init, ProjectsInit
<1>4. PICK home \in [made -> Paths], named \in SUBSET made, kinds \in {{"knowledge"}, {"knowledge", "message"}} :
          Begun(home, named, kinds)
  BY DEF Init, ProjectsInit
<1>. USE DEF Begun
<1>5. Live = made
  BY <1>4 DEF Live
<1>6. \A i \in made : /\ project[i].path = home[i] /\ project[i] \in [path : Paths, remote : AnyRemote]
                      /\ i \notin named => project[i].remote = NoRemote
  BY <1>4 DEF AnyRemote
<1>7. \A i \in made : At(home[i]) = {i}
  BY <1>4, <1>5, <1>6 DEF At
<1>8. history = {}
  BY DEF Init, ProjectsInit
<1>9. TablesType
  <2>1. project \in [Live -> [path : Paths, remote : AnyRemote]]
    BY <1>4, <1>5, <1>6
  <2>2. ASSUME NEW x \in rows PROVE x \in [path : Paths, kind : {"knowledge", "message"}, project : Ids]
    BY <1>3, <1>4
  <2>. QED BY <1>3, <1>4, <1>5, <1>8, <2>1, <2>2 DEF TablesType
<1>10. OnePath /\ OneRemote
  BY <1>4, <1>5, <1>6 DEF OnePath, OneRemote
<1>11. NotBoth
  BY <1>4, <1>5, <1>6 DEF NotBoth, At
<1>12. Led
  <2>1. ASSUME NEW x \in rows PROVE Resolve(x.path) = {x.project}
    <3>1. PICK i \in made : x.path = home[i] /\ x.project = i
      BY <1>4
    <3>. QED BY <1>7, <3>1 DEF Resolve
  <2>. QED BY <1>8, <2>1 DEF Led
<1>. QED BY <1>1, <1>2, <1>9, <1>10, <1>11, <1>12 DEF AloneInv, TablesInv

(* --------------------- What a call does to the tables ------------------ *)

LEMMA SameTables ==
    ASSUME TablesInv, UNCHANGED tables
    PROVE  /\ TablesInv'
           /\ \A c : Seen(c) => Seen(c)'
           /\ Live' = Live /\ \A q : At(q)' = At(q) /\ Resolve(q)' = Resolve(q) /\ WithRemote(q)' = WithRemote(q)
BY DEF tables, TablesInv, TablesType, OnePath, NotBoth, OneRemote, Led, Seen, Live, At, Resolve, WithRemote

\* A merge leaves src's directories and rows to dst.
LEMMA MergeTables ==
    ASSUME TablesInv, NEW src \in Ids, NEW dst \in Live \ {src}, Merge(src, dst)
    PROVE  /\ TablesInv'
           /\ Live' = Live \ {src}
           /\ \A q : At(q)' = At(q) \ {src}
           /\ \A r : WithRemote(r)' = WithRemote(r) \ {src}
<1>1. Live' = Live \ {src} /\ \A i \in Live \ {src} : project'[i] = project[i]
  BY DEF Merge, Without, Live
<1>2. \A q : At(q)' = At(q) \ {src}
  BY <1>1 DEF At
<1>3. \A r : WithRemote(r)' = WithRemote(r) \ {src}
  BY <1>1 DEF WithRemote
<1>4. dst \in Ids /\ dst # NoId /\ src # NoId
  BY ProjectAssumption DEF TablesInv, TablesType
<1>5. /\ alias' \in [Paths -> Live' \cup {NoId}]
      /\ \A q \in Paths : alias'[q] = IF alias[q] = src \/ (alias[q] = NoId /\ src \in At(q)) THEN dst ELSE alias[q]
  BY <1>1 DEF Merge, MovedAlias, AliasesOf, NewAliases, TablesInv, TablesType
<1>6. ASSUME NEW y \in rows'
      PROVE  \E x \in rows : /\ y.path = x.path /\ y.project = (IF x.project = src THEN dst ELSE x.project)
                             /\ y \in [path : Paths, kind : {"knowledge", "message"}, project : Ids]
  <2>1. PICK x \in rows : y = [x EXCEPT !.project = IF @ = src THEN dst ELSE @]
    BY Zenon DEF Merge
  <2>2. x \in [path : Paths, kind : {"knowledge", "message"}, project : Ids]
    BY DEF TablesInv, TablesType
  <2>. QED BY <1>4, <2>1, <2>2
<1>7. history' \subseteq history /\ \A h \in history' : h.project # src
  BY DEF Merge
<1>8. TablesType'
  <2>1. project' \in [Live' -> [path : Paths, remote : AnyRemote]]
    BY <1>1 DEF Merge, Without, TablesInv, TablesType, Live
  <2>2. made' = made /\ Live' \subseteq made'
    BY <1>1 DEF Merge, TablesInv, TablesType
  <2>. QED BY <1>5, <1>6, <1>7, <2>1, <2>2 DEF TablesInv, TablesType
<1>9. OnePath' /\ OneRemote'
  BY <1>1 DEF TablesInv, OnePath, OneRemote
<1>a. ASSUME NEW q \in Paths, NEW i \in At(q) PROVE At(q) = {i} /\ alias[q] = NoId
  BY DEF TablesInv, OnePath, NotBoth, At
<1>10. NotBoth'
  <2>1. ASSUME NEW q \in Paths, NEW i \in At(q)' PROVE alias'[q] = NoId
    BY <1>2, <1>4, <1>5, <1>a, <2>1
  <2>. QED BY <2>1 DEF NotBoth
<1>11. ASSUME NEW q \in Paths, NEW i, i # NoId, Resolve(q) = {i}
       PROVE  Resolve(q)' = {IF i = src THEN dst ELSE i}
  <2>1. CASE At(q) # {}
    <3>1. At(q) = {i} /\ alias[q] = NoId
      BY <1>11, <1>a, <2>1 DEF Resolve
    <3>2. CASE i = src
      <4>1. At(q)' = {} /\ alias'[q] = dst
        BY <1>2, <1>5, <3>1, <3>2
      <4>. QED BY <1>4, <3>2, <4>1 DEF Resolve
    <3>3. CASE i # src
      <4>1. At(q)' = {i}
        BY <1>2, <3>1, <3>3
      <4>. QED BY <3>3, <4>1 DEF Resolve
    <3>. QED BY <3>2, <3>3
  <2>2. CASE At(q) = {}
    <3>1. alias[q] = i /\ At(q)' = {}
      BY <1>2, <1>11, <2>2 DEF Resolve
    <3>2. alias'[q] = IF i = src THEN dst ELSE i
      BY <1>5, <1>11, <2>2, <3>1
    <3>. QED BY <1>4, <1>11, <3>1, <3>2 DEF Resolve
  <2>. QED BY <2>1, <2>2
<1>12. Led'
  <2>1. ASSUME NEW y \in rows' PROVE Resolve(y.path)' = {y.project}
    <3>1. PICK x \in rows : y.path = x.path /\ y.project = (IF x.project = src THEN dst ELSE x.project)
      BY <1>6
    <3>2. x.path \in Paths /\ x.project # NoId /\ Resolve(x.path) = {x.project}
      BY ProjectAssumption DEF TablesInv, TablesType, Led
    <3>. QED BY <1>11, <3>1, <3>2
  <2>2. ASSUME NEW h \in history' PROVE Resolve(h.path)' = {h.project}
    <3>1. h.path \in Paths /\ Resolve(h.path) = {h.project} /\ h.project # src
      BY <1>7 DEF TablesInv, TablesType, Led
    <3>2. h.project # NoId
      BY <3>1, ProjectAssumption DEF Resolve, At, TablesInv, TablesType, Live
    <3>. QED BY <1>11, <3>1, <3>2
  <2>. QED BY <2>1, <2>2 DEF Led
<1>. QED BY <1>1, <1>2, <1>3, <1>8, <1>9, <1>10, <1>12 DEF TablesInv

\* A remote is set that no other project has.
LEMMA SetRemoteTables ==
    ASSUME TablesInv, NEW i, NEW r \in AnyRemote, WithRemote(r) \subseteq {i},
           project' = WithRemoteSet(i, r), UNCHANGED <<alias, rows, history, made>>
    PROVE  TablesInv' /\ \A q : At(q)' = At(q) /\ Resolve(q)' = Resolve(q)
<1>1. Live' = Live
  BY DEF WithRemoteSet, Live
<1>2. \A j \in Live : project[j] \in [path : Paths, remote : AnyRemote]
  BY DEF TablesInv, TablesType
<1>3. \A j \in Live : /\ project'[j] \in [path : Paths, remote : AnyRemote]
                      /\ project'[j].path = project[j].path
                      /\ project'[j].remote = IF j = i THEN r ELSE project[j].remote
  BY <1>2 DEF WithRemoteSet
<1>4. \A q : At(q)' = At(q) /\ Resolve(q)' = Resolve(q)
  BY <1>1, <1>3 DEF At, Resolve
<1>5. TablesType'
  <2>1. project' \in [Live' -> [path : Paths, remote : AnyRemote]]
    BY <1>1, <1>3 DEF WithRemoteSet
  <2>. QED BY <1>1, <2>1 DEF TablesInv, TablesType
<1>6. OnePath'
  BY <1>1, <1>3 DEF TablesInv, OnePath
<1>7. OneRemote'
  BY <1>1, <1>3 DEF TablesInv, OneRemote, WithRemote
<1>8. NotBoth' /\ Led'
  BY <1>4 DEF TablesInv, NotBoth, Led
<1>. QED BY <1>4, <1>5, <1>6, <1>7, <1>8 DEF TablesInv

\* An unknown directory becomes an alias.
LEMMA AddAliasTables ==
    ASSUME TablesInv, NEW q \in Paths, NEW i \in Live, At(q) = {}, alias[q] = NoId,
           alias' = [alias EXCEPT ![q] = i], UNCHANGED <<project, rows, history, made>>
    PROVE  TablesInv' /\ Resolve(q)' = {i}
<1>1. Live' = Live /\ \A s : At(s)' = At(s)
  BY DEF Live, At
<1>2. alias' \in [Paths -> Live \cup {NoId}] /\ alias'[q] = i /\ \A s \in Paths \ {q} : alias'[s] = alias[s]
  BY DEF TablesInv, TablesType
<1>3. i # NoId
  BY ProjectAssumption DEF TablesInv, TablesType
<1>4. Resolve(q)' = {i} /\ Resolve(q) = {}
  BY <1>1, <1>2, <1>3 DEF Resolve
<1>5. \A s \in Paths \ {q} : Resolve(s)' = Resolve(s)
  BY <1>1, <1>2 DEF Resolve
<1>6. \A x \in rows \cup history : x.path \in Paths \ {q}
  BY <1>4 DEF TablesInv, TablesType, Led
<1>7. TablesType'
  BY <1>1, <1>2 DEF TablesInv, TablesType
<1>8. OnePath' /\ OneRemote'
  BY <1>1 DEF TablesInv, OnePath, OneRemote
<1>9. NotBoth'
  BY <1>1, <1>2 DEF TablesInv, NotBoth
<1>10. Led'
  BY <1>5, <1>6 DEF TablesInv, Led
<1>. QED BY <1>4, <1>7, <1>8, <1>9, <1>10 DEF TablesInv

\* An unknown directory gets a project, with a remote that no project has.
LEMMA InsertTables ==
    ASSUME TablesInv, NEW q \in Paths, NEW i \in Ids \ made, At(q) = {}, alias[q] = NoId,
           NEW r \in AnyRemote, r = NoRemote \/ WithRemote(r) = {},
           project' = [j \in Live \cup {i} |-> IF j = i THEN [path |-> q, remote |-> r] ELSE project[j]],
           made' = made \cup {i}, UNCHANGED <<alias, rows, history>>
    PROVE  TablesInv' /\ Resolve(q)' = {i}
<1>0. i \notin Live /\ Live \subseteq Ids
  BY DEF TablesInv, TablesType
<1>1. Live' = Live \cup {i} /\ \A j \in Live : project'[j] = project[j]
  BY <1>0 DEF Live
<1>2. project'[i] = [path |-> q, remote |-> r]
  BY <1>1
<1>3. At(q)' = {i} /\ \A s \in Paths \ {q} : At(s)' = At(s)
  BY <1>0, <1>1, <1>2 DEF At
<1>4. Resolve(q)' = {i} /\ Resolve(q) = {}
  BY <1>3 DEF Resolve
<1>5. \A s \in Paths \ {q} : Resolve(s)' = Resolve(s)
  BY <1>3 DEF Resolve
<1>6. \A x \in rows \cup history : x.path \in Paths \ {q}
  BY <1>4 DEF TablesInv, TablesType, Led
<1>7. TablesType'
  <2>1. project' \in [Live' -> [path : Paths, remote : AnyRemote]]
    BY <1>1, <1>2 DEF TablesInv, TablesType
  <2>. QED BY <1>0, <1>1, <2>1 DEF TablesInv, TablesType
<1>8. OnePath'
  BY <1>0, <1>1, <1>2 DEF TablesInv, OnePath, At
<1>9. OneRemote'
  BY <1>0, <1>1, <1>2 DEF TablesInv, OneRemote, WithRemote
<1>10. NotBoth'
  BY <1>3 DEF TablesInv, NotBoth
<1>11. Led'
  BY <1>5, <1>6 DEF TablesInv, Led
<1>. QED BY <1>4, <1>7, <1>8, <1>9, <1>10, <1>11 DEF TablesInv

(* ------------------------- The steps of a call ------------------------- *)

\* A process in a call is the only one: what the others hold does not matter.
LEMMA Acts ==
    ASSUME AloneInv, NEW p \in Procs, conn[p].at = "open", NEW c \in CallRecord,
           call' = [call EXCEPT ![p] = c], conn' = conn, TablesInv', Seen(c)'
    PROVE  AloneInv'
<1>1. call' \in [Procs -> CallRecord] /\ call'[p] = c /\ \A q \in Procs \ {p} : call'[q] = call[q]
  BY DEF AloneInv
<1>2. \A q \in Procs \ {p} : call[q].at = "idle" /\ (call[q].next = "record" => call[q].path = Source)
  BY DEF AloneInv, OnlyOne, Seen
<1>3. \A q \in Procs \ {p} : Seen(call[q])'
  BY <1>1, <1>2 DEF Seen, Seeking, Uses, Listing
<1>4. OnlyOne'
  BY <1>1 DEF AloneInv, OnlyOne
<1>. QED BY <1>1, <1>3, <1>4 DEF AloneInv

LEMMA GoesActs ==
    ASSUME AloneInv, NEW p \in Procs, conn[p].at = "open", NEW c \in CallRecord, Goes(p, c),
           TablesInv', Seen(c)'
    PROVE  AloneInv'
BY Acts DEF Goes, dbVars

\* A step that looks at the tables and leaves them alone.
LEMMA Looks ==
    ASSUME AloneInv, NEW p \in Procs, conn[p].at = "open", NEW c \in CallRecord, Goes(p, c),
           UNCHANGED tables, Seen(c)
    PROVE  AloneInv'
<1>1. TablesInv' /\ Seen(c)'
  BY SameTables DEF AloneInv
<1>. QED BY <1>1, GoesActs

LEMMA InCall ==
    ASSUME AloneInv, NEW p \in Procs
    PROVE  /\ TablesInv /\ Seen(call[p]) /\ call[p] \in CallRecord
           /\ call[p].at # "idle" => conn[p].at = "open"
BY DEF AloneInv, OnlyOne

LEMMA ThrowsKeeps ==
    ASSUME AloneInv, NEW p \in Procs, conn[p].at = "open", Throws(p)
    PROVE  AloneInv'
BY NoCallRecord, Looks DEF Throws

\* The project has been found, and is the one its directory leads to.
LEMMA FindsKeeps ==
    ASSUME AloneInv, NEW p \in Procs, call[p].at \in Seeking \cup {"remote"}, NEW i \in Ids, Finds(p, i),
           TablesInv', NEW q, call[p].path = q, call[p].next # "list" => Resolve(q)' = {i}
    PROVE  AloneInv'
<1>. DEFINE d == [call[p] EXCEPT !.at = call[p].next, !.id = i]
<1>1. Seen(call[p]) /\ call[p] \in CallRecord /\ conn[p].at = "open"
  BY InCall DEF Seeking
<1>2. d \in CallRecord
  BY <1>1 DEF CallRecord, Uses, Listing
<1>3. d.at = call[p].next /\ d.next = call[p].next /\ d.id = i /\ d.path = call[p].path
  BY <1>1 DEF CallRecord
<1>4. call[p].next = "list" \/ (call[p].next \in Uses /\ call[p].path \in Paths)
  BY <1>1 DEF Seen, Seeking, Uses
<1>5. PICK c \in CallRecord : c = d
  BY <1>2
<1>. HIDE DEF d
<1>6. Seen(c)'
  BY <1>1, <1>3, <1>4, <1>5 DEF Seen, Seeking, Uses, Listing
<1>. QED BY <1>1, <1>5, <1>6, GoesActs DEF Finds, d

LEMMA ByPathKeeps ==
    ASSUME AloneInv, NEW p \in Procs, ByPath(p)
    PROVE  AloneInv'
<1>0. PICK q : q = call[p].path
  OBVIOUS
<1>1. /\ call[p].at = "path" /\ UNCHANGED tables /\ TablesInv /\ Seen(call[p]) /\ call[p] \in CallRecord
      /\ conn[p].at = "open" /\ TablesInv'
  BY InCall, SameTables DEF ByPath
<1>2. q \in Paths /\ call[p].next \in Uses
  BY <1>0, <1>1 DEF Seen, Seeking
<1>3. CASE At(q) = {} /\ To(p, "alias")
  <2>. DEFINE c == [call[p] EXCEPT !.at = "alias"]
  <2>1. c \in CallRecord /\ c.at = "alias" /\ c.path = q /\ c.next = call[p].next
    BY <1>0, <1>1 DEF CallRecord, Seeking
  <2>2. Goes(p, c)
    BY <1>3 DEF To
  <2>. HIDE DEF c
  <2>3. Seen(c)
    BY <1>0, <1>1, <1>2, <1>3, <2>1 DEF Seen, Seeking, Uses, Listing
  <2>. QED BY <1>1, <2>1, <2>2, <2>3, Looks
<1>4. ASSUME NEW i \in At(q) PROVE i \in Ids /\ At(q) = {i} /\ Resolve(q) = {i}
  BY <1>1, <1>2 DEF TablesInv, TablesType, OnePath, At, Resolve
<1>5. ASSUME NEW i \in At(q), Finds(p, i) PROVE AloneInv'
  <2>1. Resolve(q)' = {i}
    BY <1>1, <1>4 DEF tables, Resolve, At, Live
  <2>2. call[p].at \in Seeking \cup {"remote"}
    BY <1>1 DEF Seeking
  <2>. QED BY <1>0, <1>1, <1>4, <1>5, <2>1, <2>2, FindsKeeps
<1>6. ASSUME NEW i \in At(q), NEW r \in Remotes(q), r # NoRemote,
             Goes(p, [call[p] EXCEPT !.at = "conflict", !.id = i, !.remote = r])
      PROVE  AloneInv'
  <2>. DEFINE c == [call[p] EXCEPT !.at = "conflict", !.id = i, !.remote = r]
  <2>1. r \in AnyRemote
    BY <1>2, <1>6 DEF Remotes, AnyRemote
  <2>2. c \in CallRecord /\ c.at = "conflict" /\ c.path = q /\ c.next = call[p].next /\ c.id = i /\ c.remote = r
    BY <1>0, <1>1, <1>4, <2>1 DEF CallRecord, Seeking
  <2>3. Goes(p, c)
    BY <1>6
  <2>. HIDE DEF c
  <2>4. Seen(c)
    BY <1>0, <1>1, <1>2, <1>4, <1>6, <2>2 DEF Seen, Seeking, Uses, Listing
  <2>. QED BY <1>1, <2>2, <2>3, <2>4, Looks
<1>. QED BY <1>0, <1>3, <1>5, <1>6 DEF ByPath

LEMMA ConflictKeeps ==
    ASSUME AloneInv, NEW p \in Procs, Conflict(p)
    PROVE  AloneInv'
<1>1. /\ call[p].at = "conflict" /\ UNCHANGED tables /\ TablesInv /\ Seen(call[p]) /\ call[p] \in CallRecord
      /\ conn[p].at = "open"
  BY InCall DEF Conflict
<1>2. ASSUME WithRemote(call[p].remote) \ {call[p].id} = {}, To(p, "remote") PROVE AloneInv'
  <2>. DEFINE c == [call[p] EXCEPT !.at = "remote"]
  <2>1. c \in CallRecord /\ c.at = "remote" /\ c.path = call[p].path /\ c.next = call[p].next /\ c.id = call[p].id
        /\ c.remote = call[p].remote
    BY <1>1 DEF CallRecord
  <2>2. Goes(p, c)
    BY <1>2 DEF To
  <2>. HIDE DEF c
  <2>3. Seen(c)
    BY <1>1, <1>2, <2>1 DEF Seen, Seeking, Uses, Listing
  <2>. QED BY <1>1, <2>1, <2>2, <2>3, Looks
<1>3. ASSUME NEW i \in WithRemote(call[p].remote) \ {call[p].id},
             Goes(p, [call[p] EXCEPT !.at = "merge", !.other = i])
      PROVE  AloneInv'
  <2>. DEFINE c == [call[p] EXCEPT !.at = "merge", !.other = i]
  <2>1. i \in Ids
    BY <1>1 DEF WithRemote, TablesInv, TablesType
  <2>2. c \in CallRecord /\ c.at = "merge" /\ c.path = call[p].path /\ c.next = call[p].next /\ c.id = call[p].id
        /\ c.remote = call[p].remote /\ c.other = i
    BY <1>1, <2>1 DEF CallRecord, Seeking
  <2>3. Goes(p, c)
    BY <1>3
  <2>. HIDE DEF c
  <2>4. Seen(c)
    BY <1>1, <1>3, <2>2 DEF Seen, Seeking, Uses, Listing
  <2>. QED BY <1>1, <2>2, <2>3, <2>4, Looks
<1>. QED BY <1>2, <1>3 DEF Conflict

\* The project that had the remote is merged into the one that is to get it.
LEMMA MergeConflictKeeps ==
    ASSUME AloneInv, NEW p \in Procs, MergeConflict(p)
    PROVE  AloneInv'
<1>1. /\ call[p].at = "merge" /\ TablesInv /\ Seen(call[p]) /\ call[p] \in CallRecord /\ conn[p].at = "open"
  BY InCall DEF MergeConflict
<1>2. CASE Throws(p)
  BY <1>1, <1>2, ThrowsKeeps
<1>3. CASE Merge(call[p].other, call[p].id) /\ To(p, "remote")
  <2>. DEFINE d == [call[p] EXCEPT !.at = "remote"]
  <2>1. PICK src, dst, r, q : src = call[p].other /\ dst = call[p].id /\ r = call[p].remote /\ q = call[p].path
    OBVIOUS
  <2>2. d \in CallRecord /\ d.at = "remote" /\ d.path = q /\ d.next = call[p].next /\ d.id = dst /\ d.remote = r
    BY <1>1, <2>1 DEF CallRecord
  <2>3. PICK c \in CallRecord : c = d
    BY <2>2
  <2>4. /\ At(q) = {dst} /\ q \in Paths /\ r # NoRemote /\ src \in WithRemote(r) \ {dst}
        /\ call[p].next \in Uses /\ (call[p].next = "record" => q = Source)
    BY <1>1, <2>1 DEF Seen, Seeking
  <2>5. dst \in Live \ {src} /\ src \in Ids
    BY <1>1, <2>4 DEF At, WithRemote, TablesInv, TablesType
  <2>6. WithRemote(r) = {src}
    BY <1>1, <2>4 DEF WithRemote, TablesInv, OneRemote
  <2>7. TablesInv' /\ At(q)' = At(q) \ {src} /\ WithRemote(r)' = WithRemote(r) \ {src}
    BY <1>1, <1>3, <2>1, <2>5, MergeTables
  <2>8. At(q)' = {dst} /\ WithRemote(r)' = {} /\ dst \in Ids
    BY <1>1, <2>4, <2>5, <2>6, <2>7 DEF TablesInv, TablesType
  <2>9. Goes(p, c)
    BY <1>3, <2>3 DEF To
  <2>. HIDE DEF d
  <2>10. Seen(c)'
    BY <2>2, <2>3, <2>4, <2>8 DEF Seen, Seeking, Uses, Listing
  <2>. QED BY <1>1, <2>3, <2>7, <2>9, <2>10, GoesActs
<1>. QED BY <1>2, <1>3 DEF MergeConflict

LEMMA SetRemoteKeeps ==
    ASSUME AloneInv, NEW p \in Procs, SetRemote(p)
    PROVE  AloneInv'
<1>1. /\ call[p].at = "remote" /\ TablesInv /\ Seen(call[p]) /\ call[p] \in CallRecord /\ conn[p].at = "open"
  BY InCall DEF SetRemote
<1>2. PICK i, r, q : i = call[p].id /\ r = call[p].remote /\ q = call[p].path
  OBVIOUS
<1>3. /\ r \in AnyRemote /\ WithRemote(r) \subseteq {i} /\ i \in Ids
      /\ call[p].next # "list" => At(q) = {i}
  BY <1>1, <1>2 DEF Seen, CallRecord
<1>4. TablesInv' /\ Resolve(q)' = Resolve(q)
  BY <1>1, <1>2, <1>3, SetRemoteTables DEF SetRemote
<1>5. call[p].next # "list" => Resolve(q)' = {i}
  BY <1>3, <1>4 DEF Resolve
<1>. QED BY <1>1, <1>2, <1>3, <1>4, <1>5, FindsKeeps DEF SetRemote

LEMMA ByAliasKeeps ==
    ASSUME AloneInv, NEW p \in Procs, ByAlias(p)
    PROVE  AloneInv'
<1>0. PICK q : q = call[p].path
  OBVIOUS
<1>1. /\ call[p].at = "alias" /\ UNCHANGED tables /\ TablesInv /\ Seen(call[p]) /\ call[p] \in CallRecord
      /\ conn[p].at = "open" /\ TablesInv'
  BY InCall, SameTables DEF ByAlias
<1>2. q \in Paths /\ call[p].next \in Uses /\ At(q) = {} /\ (call[p].next = "record" => q = Source)
  BY <1>0, <1>1 DEF Seen, Seeking
<1>3. ASSUME alias[q] # NoId, Finds(p, alias[q]) PROVE AloneInv'
  <2>1. PICK i \in Ids : i = alias[q]
    BY <1>1, <1>2, <1>3 DEF TablesInv, TablesType
  <2>2. Resolve(q)' = {i}
    BY <1>1, <1>2, <1>3, <2>1, SameTables DEF Resolve
  <2>3. call[p].at \in Seeking \cup {"remote"}
    BY <1>1 DEF Seeking
  <2>. QED BY <1>0, <1>1, <1>3, <2>1, <2>2, <2>3, FindsKeeps
<1>4. ASSUME alias[q] = NoId, NEW r \in Remotes(q),
             Goes(p, [call[p] EXCEPT !.at = IF r = NoRemote THEN "insert" ELSE "byRemote", !.remote = r])
      PROVE  AloneInv'
  <2>. DEFINE where == IF r = NoRemote THEN "insert" ELSE "byRemote"
              c == [call[p] EXCEPT !.at = where, !.remote = r]
  <2>1. r \in AnyRemote
    BY <1>2 DEF Remotes, AnyRemote
  <2>2. where \in {"insert", "byRemote"} /\ (where = "insert" => r = NoRemote)
    OBVIOUS
  <2>3. Goes(p, c)
    BY <1>4
  <2>. HIDE DEF where
  <2>4. c \in CallRecord /\ c.at = where /\ c.path = q /\ c.next = call[p].next /\ c.remote = r
    BY <1>0, <1>1, <2>1, <2>2 DEF CallRecord, Seeking
  <2>. HIDE DEF c
  <2>5. Seen(c)
    BY <1>2, <1>4, <2>2, <2>4 DEF Seen, Seeking, Uses, Listing
  <2>. QED BY <1>1, <2>3, <2>4, <2>5, Looks
<1>. QED BY <1>0, <1>3, <1>4 DEF ByAlias

LEMMA ByRemoteKeeps ==
    ASSUME AloneInv, NEW p \in Procs, ByRemote(p)
    PROVE  AloneInv'
<1>0. PICK q : q = call[p].path
  OBVIOUS
<1>1. /\ call[p].at = "byRemote" /\ UNCHANGED tables /\ TablesInv /\ Seen(call[p]) /\ call[p] \in CallRecord
      /\ conn[p].at = "open"
  BY InCall DEF ByRemote
<1>2. q \in Paths /\ call[p].next \in Uses /\ At(q) = {} /\ alias[q] = NoId /\ (call[p].next = "record" => q = Source)
  BY <1>0, <1>1 DEF Seen, Seeking
<1>3. ASSUME WithRemote(call[p].remote) = {}, To(p, "insert") PROVE AloneInv'
  <2>. DEFINE c == [call[p] EXCEPT !.at = "insert"]
  <2>1. c \in CallRecord /\ c.at = "insert" /\ c.path = q /\ c.next = call[p].next /\ c.remote = call[p].remote
    BY <1>0, <1>1 DEF CallRecord, Seeking
  <2>2. Goes(p, c)
    BY <1>3 DEF To
  <2>. HIDE DEF c
  <2>3. Seen(c)
    BY <1>2, <1>3, <2>1 DEF Seen, Seeking, Uses, Listing
  <2>. QED BY <1>1, <2>1, <2>2, <2>3, Looks
<1>4. ASSUME NEW i \in WithRemote(call[p].remote), Goes(p, [call[p] EXCEPT !.at = "addAlias", !.id = i])
      PROVE  AloneInv'
  <2>. DEFINE c == [call[p] EXCEPT !.at = "addAlias", !.id = i]
  <2>1. i \in Live /\ i \in Ids
    BY <1>1 DEF WithRemote, TablesInv, TablesType
  <2>2. c \in CallRecord /\ c.at = "addAlias" /\ c.path = q /\ c.next = call[p].next /\ c.id = i
    BY <1>0, <1>1, <2>1 DEF CallRecord, Seeking
  <2>3. Goes(p, c)
    BY <1>4
  <2>. HIDE DEF c
  <2>4. Seen(c)
    BY <1>2, <2>1, <2>2 DEF Seen, Seeking, Uses, Listing
  <2>. QED BY <1>1, <2>2, <2>3, <2>4, Looks
<1>. QED BY <1>3, <1>4 DEF ByRemote

LEMMA AddAliasKeeps ==
    ASSUME AloneInv, NEW p \in Procs, AddAlias(p)
    PROVE  AloneInv'
<1>0. PICK q, i : q = call[p].path /\ i = call[p].id
  OBVIOUS
<1>1. /\ call[p].at = "addAlias" /\ TablesInv /\ Seen(call[p]) /\ call[p] \in CallRecord /\ conn[p].at = "open"
  BY InCall DEF AddAlias
<1>2. q \in Paths /\ At(q) = {} /\ alias[q] = NoId /\ i \in Live /\ i \in Ids
  BY <1>0, <1>1 DEF Seen, Seeking, TablesInv, TablesType
<1>3. alias' = [alias EXCEPT ![q] = i] /\ Finds(p, i) /\ UNCHANGED <<project, rows, history, made>>
  BY <1>0, <1>2 DEF AddAlias, TablesInv, TablesType
<1>4. TablesInv' /\ Resolve(q)' = {i}
  BY <1>1, <1>2, <1>3, AddAliasTables
<1>5. call[p].at \in Seeking \cup {"remote"}
  BY <1>1 DEF Seeking
<1>. QED BY <1>0, <1>2, <1>3, <1>4, <1>5, FindsKeeps

LEMMA InsertProjectKeeps ==
    ASSUME AloneInv, NEW p \in Procs, InsertProject(p)
    PROVE  AloneInv'
<1>0. PICK q, r : q = call[p].path /\ r = call[p].remote
  OBVIOUS
<1>1. /\ call[p].at = "insert" /\ TablesInv /\ Seen(call[p]) /\ call[p] \in CallRecord /\ conn[p].at = "open"
  BY InCall DEF InsertProject
<1>2. q \in Paths /\ At(q) = {} /\ alias[q] = NoId /\ r \in AnyRemote /\ (r = NoRemote \/ WithRemote(r) = {})
  BY <1>0, <1>1 DEF Seen, Seeking, CallRecord
<1>3. PICK i \in Ids \ made :
        /\ project' = [j \in Live \cup {i} |-> IF j = i THEN [path |-> q, remote |-> r] ELSE project[j]]
        /\ made' = made \cup {i} /\ Finds(p, i) /\ UNCHANGED <<alias, rows, history>>
  BY <1>0, <1>2 DEF InsertProject
<1>4. TablesInv' /\ Resolve(q)' = {i}
  BY <1>1, <1>2, <1>3, InsertTables
<1>5. call[p].at \in Seeking \cup {"remote"}
  BY <1>1 DEF Seeking
<1>. QED BY <1>0, <1>3, <1>4, <1>5, FindsKeeps

\* A call that has not begun to look, or has ended, depends on no table.
LEMMA Unseen ==
    ASSUME NEW c, c.at = "idle" \/ (c.at = "path" /\ c.path \in Paths /\ c.next \in Uses),
           c.next = "record" => c.path = Source
    PROVE  Seen(c) /\ Seen(c)'
BY DEF Seen, Seeking, Uses, Listing

LEMMA EnsureRecord ==
    ASSUME NEW q \in Paths, NEW next \in Uses
    PROVE  LET c == Ensure(q, next) IN c \in CallRecord /\ c.at = "path" /\ c.path = q /\ c.next = next
BY NoCallRecord DEF Ensure, CallRecord, Seeking

LEMMA BeginsKeeps ==
    ASSUME AloneInv, NEW p \in Procs, conn[p].at = "open", NEW q \in Paths, NEW next \in Uses,
           call' = [call EXCEPT ![p] = Ensure(q, next)], conn' = conn, TablesInv', next = "record" => q = Source
    PROVE  AloneInv'
<1>1. PICK c \in CallRecord : c = Ensure(q, next) /\ c.at = "path" /\ c.path = q /\ c.next = next
  BY EnsureRecord
<1>2. Seen(c)'
  BY <1>1, Unseen
<1>. QED BY <1>1, <1>2, Acts

LEMMA EndsKeeps ==
    ASSUME AloneInv, NEW p \in Procs, conn[p].at = "open",
           call' = [call EXCEPT ![p] = NoCall], conn' = conn, TablesInv'
    PROVE  AloneInv'
<1>1. PICK c \in CallRecord : c = NoCall /\ c.at = "idle" /\ c.next = "idle"
  BY NoCallRecord DEF NoCall
<1>2. Seen(c)'
  BY <1>1, Unseen
<1>. QED BY <1>1, <1>2, Acts

\* Rows come and go, the projects stay.
LEMMA RowTables ==
    ASSUME TablesInv, UNCHANGED <<project, alias, made>>,
           rows' \in SUBSET [path : Paths, kind : {"knowledge", "message"}, project : Ids],
           \A x \in rows' \cup history' : x.path \in Paths /\ Resolve(x.path) = {x.project}
    PROVE  TablesInv'
<1>1. Live' = Live /\ \A q : At(q)' = At(q) /\ Resolve(q)' = Resolve(q)
  BY DEF Live, At, Resolve
<1>2. TablesType'
  BY <1>1 DEF TablesInv, TablesType
<1>3. OnePath' /\ OneRemote' /\ NotBoth'
  BY <1>1 DEF TablesInv, OnePath, OneRemote, NotBoth
<1>4. Led'
  BY <1>1 DEF Led
<1>. QED BY <1>2, <1>3, <1>4 DEF TablesInv

LEMMA ResolvedId ==
    ASSUME TablesInv, NEW q \in Paths, NEW i, Resolve(q) = {i}
    PROVE  i \in Ids
BY ProjectAssumption DEF TablesInv, TablesType, Resolve, At

LEMMA StoreRowKeeps ==
    ASSUME AloneInv, NEW p \in Procs, StoreRow(p)
    PROVE  AloneInv'
<1>1. /\ call[p].at \in {"knowledge", "message"} /\ TablesInv /\ Seen(call[p]) /\ conn[p].at = "open"
  BY InCall DEF StoreRow
<1>2. CASE Throws(p)
  BY <1>1, <1>2, ThrowsKeeps
<1>3. CASE ~Throws(p)
  <2>. DEFINE x == [path |-> call[p].path, kind |-> call[p].at, project |-> call[p].id]
  <2>1. rows' = rows \cup {x} /\ Goes(p, NoCall) /\ UNCHANGED <<project, alias, history, made>>
    BY <1>3 DEF StoreRow
  <2>2. call[p].path \in Paths /\ Resolve(call[p].path) = {call[p].id}
    BY <1>1 DEF Seen, Uses
  <2>3. x.path \in Paths /\ Resolve(x.path) = {x.project}
        /\ x \in [path : Paths, kind : {"knowledge", "message"}, project : Ids]
    BY <1>1, <2>2, ResolvedId
  <2>. HIDE DEF x
  <2>4. TablesInv'
    BY <1>1, <2>1, <2>3, RowTables DEF TablesInv, TablesType, Led
  <2>. QED BY <1>1, <2>1, <2>4, EndsKeeps DEF Goes, dbVars
<1>. QED BY <1>2, <1>3

LEMMA ClearProjectKeeps ==
    ASSUME AloneInv, NEW p \in Procs, ClearProject(p)
    PROVE  AloneInv'
<1>1. call[p].at = "clear" /\ TablesInv /\ conn[p].at = "open"
  BY InCall DEF ClearProject
<1>2. rows' \subseteq rows /\ Goes(p, NoCall) /\ UNCHANGED <<project, alias, history, made>>
  BY DEF ClearProject
<1>3. TablesInv'
  BY <1>1, <1>2, RowTables DEF TablesInv, TablesType, Led
<1>. QED BY <1>1, <1>2, <1>3, EndsKeeps DEF Goes, dbVars

\* A project goes with its rows, its imports and its aliases.
LEMMA DeleteTables ==
    ASSUME TablesInv, NEW i \in Live, project' = Without(i), made' = made,
           rows' = {x \in rows : x.project # i}, history' = {h \in history : h.project # i},
           alias' = [q \in Paths |-> IF alias[q] = i THEN NoId ELSE alias[q]]
    PROVE  TablesInv'
<1>1. Live' = Live \ {i} /\ \A j \in Live \ {i} : project'[j] = project[j]
  BY DEF Without, Live
<1>2. \A q : At(q)' = At(q) \ {i}
  BY <1>1 DEF At
<1>3. i # NoId
  BY ProjectAssumption DEF TablesInv, TablesType
<1>4. \A q \in Paths : alias'[q] = IF alias[q] = i THEN NoId ELSE alias[q]
  OBVIOUS
<1>5. TablesType'
  <2>1. project' \in [Live' -> [path : Paths, remote : AnyRemote]]
    BY <1>1 DEF Without, TablesInv, TablesType, Live
  <2>2. alias' \in [Paths -> Live' \cup {NoId}]
    BY <1>1, <1>4 DEF TablesInv, TablesType
  <2>. QED BY <1>1, <2>1, <2>2 DEF TablesInv, TablesType
<1>6. OnePath' /\ OneRemote'
  BY <1>1 DEF TablesInv, OnePath, OneRemote
<1>7. NotBoth'
  BY <1>2, <1>4 DEF TablesInv, NotBoth
<1>8. ASSUME NEW x \in rows' \cup history' PROVE Resolve(x.path)' = {x.project}
  <2>1. x.path \in Paths /\ Resolve(x.path) = {x.project} /\ x.project # i
    BY DEF TablesInv, TablesType, Led
  <2>2. CASE At(x.path) # {}
    <3>1. At(x.path) = {x.project} /\ At(x.path)' = {x.project}
      BY <1>2, <2>1, <2>2 DEF Resolve
    <3>. QED BY <3>1 DEF Resolve
  <2>3. CASE At(x.path) = {}
    <3>1. alias[x.path] = x.project /\ alias[x.path] # NoId /\ At(x.path)' = {}
      BY <1>2, <2>1, <2>3 DEF Resolve
    <3>2. alias'[x.path] = x.project
      BY <1>4, <2>1, <3>1
    <3>. QED BY <3>1, <3>2 DEF Resolve
  <2>. QED BY <2>2, <2>3
<1>9. Led'
  BY <1>8 DEF Led
<1>. QED BY <1>5, <1>6, <1>7, <1>9 DEF TablesInv

LEMMA BackfillNextKeeps ==
    ASSUME AloneInv, NEW p \in Procs, BackfillNext(p)
    PROVE  AloneInv'
<1>1. /\ call[p].at = "list" /\ UNCHANGED tables /\ TablesInv /\ Seen(call[p]) /\ call[p] \in CallRecord
      /\ conn[p].at = "open" /\ TablesInv'
  BY InCall, SameTables DEF BackfillNext
<1>2. CASE Goes(p, NoCall)
  BY <1>1, <1>2, EndsKeeps DEF Goes, dbVars
<1>3. ASSUME NEW x \in call[p].todo, NEW r \in Remotes(x.path),
             LET rest == [call[p] EXCEPT !.todo = @ \ {x}] IN
             IF r = NoRemote THEN Goes(p, rest)
             ELSE Goes(p, [rest EXCEPT !.at = "look", !.id = x.id, !.remote = r])
      PROVE  AloneInv'
  <2>. DEFINE todo == call[p].todo \ {x}
              rest == [call[p] EXCEPT !.todo = todo]
              c == [rest EXCEPT !.at = "look", !.id = x.id, !.remote = r]
  <2>1. todo \in SUBSET [id : Ids, path : Paths] /\ x.id \in Ids /\ r \in AnyRemote
    BY <1>1 DEF CallRecord, Remotes, AnyRemote
  <2>. HIDE DEF todo
  <2>2. rest \in CallRecord /\ rest.at = "list" /\ rest.next = call[p].next
    BY <1>1, <2>1 DEF CallRecord
  <2>3. CASE r = NoRemote
    <3>1. Goes(p, rest)
      BY <1>3, <2>3 DEF todo
    <3>. HIDE DEF rest
    <3>2. Seen(rest)
      BY <1>1, <2>2 DEF Seen, Seeking, Uses, Listing
    <3>. QED BY <1>1, <2>2, <3>1, <3>2, Looks
  <2>4. CASE r # NoRemote
    <3>1. Goes(p, c)
      BY <1>3, <2>4 DEF todo
    <3>. HIDE DEF rest
    <3>2. c \in CallRecord /\ c.at = "look" /\ c.next = call[p].next /\ c.remote = r /\ c.id = x.id
      BY <2>1, <2>2 DEF CallRecord, Listing
    <3>. HIDE DEF c
    <3>3. Seen(c)
      BY <1>1, <2>1, <2>4, <3>2 DEF Seen, Seeking, Uses, Listing
    <3>. QED BY <1>1, <3>1, <3>2, <3>3, Looks
  <2>. QED BY <2>3, <2>4
<1>. QED BY <1>2, <1>3 DEF BackfillNext

LEMMA BackfillLookKeeps ==
    ASSUME AloneInv, NEW p \in Procs, BackfillLook(p)
    PROVE  AloneInv'
<1>1. /\ call[p].at = "look" /\ UNCHANGED tables /\ TablesInv /\ Seen(call[p]) /\ call[p] \in CallRecord
      /\ conn[p].at = "open"
  BY InCall DEF BackfillLook
<1>2. call[p].next = "list" /\ call[p].remote # NoRemote /\ call[p].id \in Ids
  BY <1>1 DEF Seen, Listing
<1>3. ASSUME WithRemote(call[p].remote) \ {call[p].id} = {}, To(p, "remote") PROVE AloneInv'
  <2>. DEFINE c == [call[p] EXCEPT !.at = "remote"]
  <2>1. c \in CallRecord /\ c.at = "remote" /\ c.next = "list" /\ c.id = call[p].id /\ c.remote = call[p].remote
    BY <1>1, <1>2 DEF CallRecord
  <2>2. Goes(p, c)
    BY <1>3 DEF To
  <2>. HIDE DEF c
  <2>3. Seen(c)
    BY <1>2, <1>3, <2>1 DEF Seen, Seeking, Uses, Listing
  <2>. QED BY <1>1, <2>1, <2>2, <2>3, Looks
<1>4. ASSUME NEW i \in WithRemote(call[p].remote) \ {call[p].id},
             Goes(p, [call[p] EXCEPT !.at = "mergeInto", !.other = i])
      PROVE  AloneInv'
  <2>. DEFINE c == [call[p] EXCEPT !.at = "mergeInto", !.other = i]
  <2>1. i \in Ids
    BY <1>1 DEF WithRemote, TablesInv, TablesType
  <2>2. c \in CallRecord /\ c.at = "mergeInto" /\ c.next = "list" /\ c.id = call[p].id
        /\ c.remote = call[p].remote /\ c.other = i
    BY <1>1, <1>2, <2>1 DEF CallRecord, Listing
  <2>3. Goes(p, c)
    BY <1>4
  <2>. HIDE DEF c
  <2>4. Seen(c)
    BY <1>2, <1>4, <2>2 DEF Seen, Seeking, Uses, Listing
  <2>. QED BY <1>1, <2>2, <2>3, <2>4, Looks
<1>. QED BY <1>3, <1>4 DEF BackfillLook

\* The project at hand is merged into the one that has its remote.
LEMMA BackfillMergeKeeps ==
    ASSUME AloneInv, NEW p \in Procs, BackfillMerge(p)
    PROVE  AloneInv'
<1>1. /\ call[p].at = "mergeInto" /\ TablesInv /\ Seen(call[p]) /\ call[p] \in CallRecord /\ conn[p].at = "open"
  BY InCall DEF BackfillMerge
<1>2. CASE Throws(p)
  BY <1>1, <1>2, ThrowsKeeps
<1>3. CASE Merge(call[p].id, call[p].other) /\ To(p, "list")
  <2>1. /\ call[p].next = "list" /\ call[p].id \in Ids
        /\ call[p].other \in WithRemote(call[p].remote) \ {call[p].id}
    BY <1>1 DEF Seen, Listing
  <2>2. call[p].other \in Live \ {call[p].id}
    BY <2>1 DEF WithRemote
  <2>3. TablesInv'
    BY <1>1, <1>3, <2>1, <2>2, MergeTables
  <2>. DEFINE d == [call[p] EXCEPT !.at = "list"]
  <2>4. d \in CallRecord /\ d.at = "list" /\ d.next = "list"
    BY <1>1, <2>1 DEF CallRecord, Listing
  <2>5. PICK c \in CallRecord : c = d
    BY <2>4
  <2>6. Goes(p, c)
    BY <1>3, <2>5 DEF To
  <2>. HIDE DEF d
  <2>7. Seen(c)'
    BY <2>4, <2>5 DEF Seen, Seeking, Uses, Listing
  <2>. QED BY <1>1, <2>3, <2>5, <2>6, <2>7, GoesActs
<1>. QED BY <1>2, <1>3 DEF BackfillMerge

LEMMA ProjectBeginsKeeps ==
    ASSUME AloneInv, NEW p \in Procs, ProjectBegins(p)
    PROVE  AloneInv'
<1>1. TablesInv /\ conn[p].at = "open" /\ (UNCHANGED tables => TablesInv')
  BY InCall, SameTables DEF ProjectBegins, Begin, DeleteProject, BeginBackfill, IsFree
<1>2. ASSUME NEW q \in Paths, NEW next \in {"knowledge", "message", "clear"}, Begin(p, q, next) PROVE AloneInv'
  <2>1. next \in Uses /\ next # "record"
    BY DEF Uses
  <2>. QED BY <1>1, <1>2, <2>1, BeginsKeeps DEF Begin, dbVars
<1>3. ASSUME NEW i \in Ids, DeleteProject(p, i) PROVE AloneInv'
  <2>1. TablesInv'
    BY <1>1, <1>3, DeleteTables DEF DeleteProject
  <2>2. call' = call /\ conn' = conn /\ call[p].at = "idle"
    BY <1>3 DEF DeleteProject, dbVars, IsFree
  <2>3. PICK c \in CallRecord : c = call[p] /\ call' = [call EXCEPT ![p] = c] /\ Seen(c)
    BY <2>2 DEF AloneInv
  <2>4. Seen(c)'
    BY <2>2, <2>3, Unseen DEF Seen
  <2>. QED BY <1>1, <2>1, <2>2, <2>3, <2>4, Acts
<1>4. ASSUME BeginBackfill(p) PROVE AloneInv'
  <2>. DEFINE todo == {[id |-> i, path |-> project[i].path] : i \in WithRemote(NoRemote)}
              d == [NoCall EXCEPT !.at = "list", !.next = "list", !.todo = todo]
  <2>1. call' = [call EXCEPT ![p] = d] /\ UNCHANGED tables /\ conn' = conn
    BY <1>4 DEF BeginBackfill, dbVars
  <2>2. todo \in SUBSET [id : Ids, path : Paths]
    BY <1>1 DEF WithRemote, TablesInv, TablesType
  <2>. HIDE DEF todo
  <2>3. d \in CallRecord /\ d.at = "list" /\ d.next = "list"
    BY <2>2, NoCallRecord DEF CallRecord, Listing
  <2>4. PICK c \in CallRecord : c = d
    BY <2>3
  <2>. HIDE DEF d
  <2>5. Seen(c)'
    BY <2>3, <2>4 DEF Seen, Seeking, Uses, Listing
  <2>. QED BY <1>1, <2>1, <2>4, <2>5, Acts
<1>. QED BY <1>2, <1>3, <1>4 DEF ProjectBegins

LEMMA WorkAlone ==
    ASSUME AloneInv, NEW p \in Procs, Work(p)
    PROVE  AloneInv'
BY ProjectBeginsKeeps, ByPathKeeps, ConflictKeeps, MergeConflictKeeps, SetRemoteKeeps, ByAliasKeeps, ByRemoteKeeps,
   AddAliasKeeps, InsertProjectKeeps, StoreRowKeeps, ClearProjectKeeps, BackfillNextKeeps, BackfillLookKeeps,
   BackfillMergeKeeps DEF Work, ProjectGoes, EnsureStep

\* What neither calls nor tables take part in.
LEMMA RestAlone ==
    ASSUME AloneInv, UNCHANGED projectVars, conn' = conn
    PROVE  AloneInv'
<1>1. TablesInv' /\ \A c : Seen(c) => Seen(c)'
  BY SameTables DEF AloneInv, projectVars
<1>2. call' = call /\ OnlyOne'
  BY DEF AloneInv, OnlyOne, projectVars
<1>3. \A p \in Procs : Seen(call[p])'
  <2>. TAKE p \in Procs
  <2>1. PICK c : c = call[p] /\ c = call'[p]
    BY <1>2
  <2>2. Seen(c)'
    BY <1>1, <2>1 DEF AloneInv
  <2>. QED BY <2>1, <2>2
<1>. QED BY <1>1, <1>2, <1>3 DEF AloneInv

\* An import's steps make calls for its directory, and record it with the project
\* it was found to lead to.
LEMMA ImportAlone ==
    ASSUME AloneInv, NEW p \in Procs, ImportStep(p)
    PROVE  AloneInv'
<1>. USE DEF dbVars
<1>0. Source \in Paths /\ TablesInv /\ Seen(call[p]) /\ (UNCHANGED tables => TablesInv')
      /\ (call[p].at # "idle" => conn[p].at = "open")
  BY InCall, SameTables, SourceAssumption
<1>a. {"detect", "isImported", "knowledge", "record", "offered"} \subseteq Uses
  BY DEF Uses
<1>b. ASSUME NEW next \in Uses, conn[p].at = "open", Goes(p, Ensure(Source, next)), UNCHANGED tables PROVE AloneInv'
  BY <1>0, <1>b, BeginsKeeps DEF Goes
<1>c. ASSUME conn[p].at = "open", Goes(p, NoCall), UNCHANGED tables PROVE AloneInv'
  BY <1>0, <1>c, EndsKeeps DEF Goes
<1>d. ASSUME NEW next \in Uses, Calls(p, next) PROVE AloneInv'
  BY <1>b, <1>d DEF Calls, IsFree
<1>1. ASSUME NEW auto \in BOOLEAN, BeginImport(p, auto) PROVE AloneInv'
  <2>1. "detect" \in Uses /\ "detect" # "record"
    BY <1>a
  <2>. QED BY <1>0, <1>1, <2>1, BeginsKeeps DEF BeginImport, IsFree
<1>2. ASSUME Detect(p) PROVE AloneInv'
  BY <1>0, <1>a, <1>2, <1>b, <1>c DEF Detect, tables
<1>3. ASSUME IsImported(p) PROVE AloneInv'
  BY <1>0, <1>3, <1>c DEF IsImported, tables
<1>4. ASSUME Confirm(p) PROVE AloneInv'
  BY <1>a, <1>4, <1>d, RestAlone DEF Confirm
<1>5. ASSUME Read(p) PROVE AloneInv'
  BY <1>a, <1>5, <1>d, RestAlone DEF Read
<1>6. ASSUME ModelAnswers(p) PROVE AloneInv'
  BY <1>a, <1>6, <1>d, RestAlone DEF ModelAnswers
<1>7. ASSUME BeginRecord(p) PROVE AloneInv'
  BY <1>a, <1>7, <1>d DEF BeginRecord
<1>8. ASSUME Record(p) PROVE AloneInv'
  <2>1. call[p].at = "record" /\ conn[p].at = "open" /\ call[p].path = Source /\ Resolve(Source) = {call[p].id}
    BY <1>0, <1>8 DEF Record, Seen, Uses
  <2>2. CASE Throws(p)
    BY <2>1, <2>2, ThrowsKeeps
  <2>3. CASE ~Throws(p)
    <3>1. /\ history' = {h \in history : h.project # call[p].id \/ h.path # Source}
                         \cup {[path |-> Source, hash |-> RecordedHash(p), project |-> call[p].id]}
          /\ UNCHANGED <<project, alias, rows, made>>
          /\ Goes(p, NoCall) \/ Goes(p, Ensure(Source, "offered"))
      BY <1>8, <2>3 DEF Record
    <3>2. \A x \in rows' \cup history' : x.path \in Paths /\ Resolve(x.path) = {x.project}
      BY <1>0, <2>1, <3>1 DEF TablesInv, TablesType, Led
    <3>3. TablesInv'
      BY <1>0, <3>1, <3>2, RowTables DEF TablesInv, TablesType
    <3>4. "offered" \in Uses /\ "offered" # "record"
      BY <1>a
    <3>. QED BY <1>0, <2>1, <3>1, <3>3, <3>4, BeginsKeeps, EndsKeeps DEF Goes
  <2>. QED BY <2>2, <2>3
<1>9. ASSUME Offered(p) PROVE AloneInv'
  <2>1. call[p].at = "offered" /\ Goes(p, NoCall) /\ UNCHANGED <<project, alias, rows, history, made>>
    BY <1>9 DEF Offered
  <2>2. TablesInv'
    BY <1>0, <2>1, RowTables DEF TablesInv, TablesType, Led
  <2>. QED BY <1>0, <2>1, <2>2, EndsKeeps DEF Goes
<1>10. ASSUME ImportThrows(p) PROVE AloneInv'
  BY <1>10, RestAlone DEF ImportThrows
<1>. QED BY <1>1, <1>2, <1>3, <1>4, <1>5, <1>6, <1>7, <1>8, <1>9, <1>10 DEF ImportStep

LEMMA StopAlone ==
    ASSUME AloneInv, NEW p \in Procs, Stop(p)
    PROVE  AloneInv'
<1>1. /\ conn[p].at # "closed" /\ conn' = [conn EXCEPT ![p] = Closed]
      /\ call' = [call EXCEPT ![p] = NoCall] /\ UNCHANGED tables
  BY DEF Stop, CloseDb
<1>2. \A q \in Procs \ {p} : call'[q] = call[q] /\ conn'[q] = conn[q] /\ call[q].at = "idle"
  BY <1>1 DEF AloneInv, OnlyOne
<1>3. call'[p] = NoCall /\ call' \in [Procs -> CallRecord] /\ conn'[p].at = "closed"
  BY <1>1, NoCallRecord DEF AloneInv, OnlyOne, Closed
<1>4. TablesInv' /\ \A c : Seen(c) => Seen(c)'
  BY <1>1, SameTables DEF AloneInv
<1>5. ASSUME NEW q \in Procs PROVE Seen(call[q])'
  <2>1. PICK c : c = call'[q]
    OBVIOUS
  <2>2. Seen(c)
    BY <1>2, <1>3, <2>1, NoCallRecord DEF AloneInv
  <2>. QED BY <1>4, <2>1, <2>2
<1>6. OnlyOne'
  BY <1>1, <1>2, <1>3, NoCallRecord DEF AloneInv, OnlyOne
<1>. QED BY <1>3, <1>4, <1>5, <1>6 DEF AloneInv

LEMMA StartAlone ==
    ASSUME AloneInv, alone, NEW p \in Procs, Start(p)
    PROVE  AloneInv'
<1>1. UNCHANGED projectVars /\ \A q \in Procs \ {p} : conn[q].at = "closed"
  BY DEF Start, IsAlone
<1>2. conn' = [q \in Procs |-> conn'[q]] /\ \A q \in Procs \ {p} : conn'[q] = conn[q]
  BY DEF Start, DbStep, OpenDb, RunStatement, DuplicateColumn, NextMigration, Migrated, RecoverTable, RecoverColumn,
         AddColumn, AloneInv, OnlyOne
<1>3. call[p].at = "idle"
  <2>1. conn[p].at # "open"
    BY DEF Start, DbStep, OpenDb, RunStatement, DuplicateColumn, NextMigration, Migrated, RecoverTable, RecoverColumn,
           AddColumn
  <2>. QED BY <2>1, InCall
<1>4. TablesInv' /\ (\A c : Seen(c) => Seen(c)') /\ call' = call
  BY <1>1, SameTables DEF AloneInv, projectVars
<1>5. OnlyOne'
  BY <1>1, <1>2, <1>3, <1>4 DEF AloneInv, OnlyOne
<1>6. ASSUME NEW q \in Procs PROVE Seen(call[q])'
  <2>1. PICK c : c = call'[q] /\ c = call[q]
    BY <1>4
  <2>. QED BY <1>4, <2>1 DEF AloneInv
<1>. QED BY <1>4, <1>5, <1>6 DEF AloneInv

LEMMA AloneNext == AloneInv /\ alone /\ [Next]_vars => AloneInv'
<1>. SUFFICES ASSUME AloneInv, alone, [Next]_vars PROVE AloneInv'
  OBVIOUS
<1>1. CASE Talk
  BY <1>1, RestAlone DEF Talk, dbVars
<1>2. ASSUME NEW p \in Procs, Start(p) \/ Stop(p) \/ Work(p) \/ Import(p) PROVE AloneInv'
  BY <1>2, StartAlone, StopAlone, WorkAlone, ImportAlone DEF Import
<1>3. CASE UNCHANGED vars
  BY <1>3, RestAlone DEF vars, dbVars
<1>. QED BY <1>1, <1>2, <1>3 DEF Next

LEMMA AloneStays == [Next]_vars => alone' = alone
BY DEF Next, Start, Stop, Work, Import, vars

LEMMA AloneInvariance == Spec => [](alone => AloneInv)
<1>1. Init => (alone => AloneInv)
  BY AloneInit
<1>2. (alone => AloneInv) /\ [Next]_vars => (alone => AloneInv)'
  BY AloneNext, AloneStays
<1>. QED BY <1>1, <1>2, PTL DEF Spec

\* No two projects share a known remote for as long as one process at a time works with the
\* database, for any number of directories, remotes, projects and calls: wherever
\* ensureProject, its merge of the project that has the remote already, or
\* backfillGitRemotes' merge the other way is stopped by the end of the process.
THEOREM MachineOneProject == Spec => []OneProjectPerRemote
<1>1. (alone => AloneInv) => OneProjectPerRemote
  BY DEF AloneInv, TablesInv, OneRemote, OneProjectPerRemote
<1>. QED BY <1>1, AloneInvariance, PTL

\* And what was stored for a directory is with the project the directory leads to:
\* no merge, in either direction, no deletion and no import loses it
\* (mergeProjectInternal, deleteProject, recordImport).
THEOREM MachineRowsReachable == Spec => []RowsReachable
<1>1. (alone => AloneInv) => RowsReachable
  BY DEF AloneInv, TablesInv, Led, RowsReachable
<1>. QED BY <1>1, AloneInvariance, PTL

=============================================================================
