------------------------------ MODULE Database ------------------------------
(***************************************************************************)
(* Opening the database (core db.ts): each process that calls db() brings  *)
(* the schema up to date first.  Several processes of several releases do  *)
(* so at the same time: a migration is a list of statements with no        *)
(* transaction around it, and a process may stop after any of them.        *)
(*                                                                         *)
(* A statement is what it does and the object it leaves: a table, an       *)
(* index, a column, rows that have been filled in or rewritten.            *)
(***************************************************************************)
EXTENDS Integers, Sequences

CONSTANTS
    Procs,      \* processes that use the database: gateways, plugins, commands
    Release,    \* how many migrations the release a process runs knows
    Found,      \* versions the database may have when the model begins
    Holes       \* what may be missing from it although the version says otherwise

VARIABLES
    version,    \* schema_version; 0 while there is no such row
    objects,    \* what the database holds
    conn        \* each process's way through db(), and its instance

dbVars == <<version, objects, conn>>

-----------------------------------------------------------------------------
(* The migrations *)

Statements(op, names) == [k \in DOMAIN names |-> [op |-> op, name |-> names[k]]]
Create(names) == Statements("create", names)  \* ... IF NOT EXISTS
Alter(names) == Statements("column", names)   \* ALTER TABLE ... ADD COLUMN
Fill(name) == Statements("fill", <<name>>)    \* INSERT, UPDATE or DELETE of rows
Drop(names) == Statements("drop", names)      \* ... IF EXISTS

\* schema_version gets its row last, and has none before.
V1 == Create(<<"projects", "temporal_messages", "temporal_fts",
               "temporal_fts_insert", "temporal_fts_delete", "temporal_fts_update",
               "idx_temporal_session", "idx_temporal_project", "idx_temporal_distilled", "idx_temporal_created",
               "distillations", "idx_distillation_session", "idx_distillation_project",
               "idx_distillation_generation", "idx_distillation_created",
               "knowledge", "knowledge_fts", "knowledge_fts_insert", "knowledge_fts_delete", "knowledge_fts_update",
               "idx_knowledge_project", "idx_knowledge_category", "idx_knowledge_cross", "schema_version">>)
      \o Statements("version", <<"schema_version.row">>)
V2 == Alter(<<"distillations.observations">>)
V3 == <<>>   \* VACUUM, which migrate() runs itself
V4 == Create(<<"session_state">>)
V5 == Alter(<<"distillations.archived">>) \o Create(<<"idx_distillation_archived">>)
V6 == Create(<<"idx_temporal_project_session", "idx_temporal_project_session_distilled",
               "idx_temporal_project_distilled_created", "idx_distillation_project_session",
               "idx_distillation_project_session_gen_archived">>)
      \o Drop(<<"idx_temporal_project", "idx_temporal_distilled", "idx_distillation_project">>)
V7 == Create(<<"distillation_fts">>) \o Fill("distillation_fts.rows")
      \o Create(<<"distillation_fts_insert", "distillation_fts_delete", "distillation_fts_update">>)
V8 == Alter(<<"knowledge.embedding">>) \o Create(<<"kv_meta">>)
V9 == Alter(<<"distillations.embedding">>)
V10 == Create(<<"lat_sections", "lat_sections_fts", "lat_fts_insert", "lat_fts_delete", "lat_fts_update",
                "idx_lat_sections_project", "idx_lat_sections_file", "knowledge_refs">>)
V11 == Fill("temporal_messages.separators")
V12 == Alter(<<"distillations.r_compression", "distillations.c_norm">>)
V13 == Create(<<"metadata">>)
V14 == Alter(<<"projects.git_remote">>) \o Create(<<"idx_projects_git_remote", "project_path_aliases">>)
V15 == Create(<<"warmup_histograms">>)
V16 == Alter(<<"temporal_messages.embedding">>)
V17 == Alter(<<"distillations.call_type">>)
V18 == Alter(<<"conversation_cost", "worker_cost", "conversation_turns", "cache_read_tokens", "cache_write_tokens",
               "warmup_savings", "warmup_hits", "ttl_savings", "ttl_hits", "batch_savings">>)
V19 == Create(<<"import_history", "idx_import_history_project">>)
V20 == Fill("temporal_messages.purged")
V21 == Alter(<<"avoided_compactions", "avoided_compaction_cost">>)
V22 == Alter(<<"projects.last_import_at">>) \o Fill("projects.declined")
V23 == Alter(<<"last_curated_at", "message_count", "turns_since_curation", "ltm_cache_text", "ltm_cache_tokens",
               "ltm_pin_text", "ltm_pin_tokens", "consecutive_text_only_turns">>)
V24 == Alter(<<"fingerprint", "header_session_id", "header_name", "resolved_conversation_ttl", "warmup_state",
               "dynamic_context_cap", "bust_rate_ema", "inter_bust_interval_ema", "last_layer",
               "last_known_input", "last_turn_at", "last_bust_at">>)
V25 == Create(<<"dedup_feedback", "idx_dedup_feedback_project">>)
V26 == Alter(<<"parent_session_id", "is_subagent">>) \o Create(<<"idx_session_state_parent">>)

MIGRATIONS == <<V1, V2, V3, V4, V5, V6, V7, V8, V9, V10, V11, V12, V13, V14,
                V15, V16, V17, V18, V19, V20, V21, V22, V23, V24, V25, V26>>

\* recoverMissingObjects: three tables, then a column.
Recovery == Create(<<"kv_meta", "metadata", "project_path_aliases">>)
CallType == "distillations.call_type"

-----------------------------------------------------------------------------
(* What a version stands for *)

Made(i) == {MIGRATIONS[i][k].name : k \in {j \in DOMAIN MIGRATIONS[i] : MIGRATIONS[i][j].op # "drop"}}
DroppedBy(i) == {MIGRATIONS[i][k].name : k \in {j \in DOMAIN MIGRATIONS[i] : MIGRATIONS[i][j].op = "drop"}}
Dropped == UNION {DroppedBy(i) : i \in DOMAIN MIGRATIONS}
Recovered == {Recovery[k].name : k \in DOMAIN Recovery} \cup {CallType}

\* What a program that knows n migrations relies on.
Schema(n) == (UNION {Made(i) : i \in 1..n}) \ Dropped

\* What an undisturbed start leaves.
Built(n) == (UNION {Made(i) : i \in 1..n}) \ (UNION {DroppedBy(i) : i \in 1..n})

ASSUME ReleaseAssumption ==
    /\ Release \in [Procs -> 1..Len(MIGRATIONS)]
    /\ Found \subseteq 0..Len(MIGRATIONS)
    /\ Holes \subseteq SUBSET Recovered

\* The version's row is the last statement of the first migration, and no
\* migration drops what is recovered.
ASSUME MigrationAssumption ==
    /\ \A i \in DOMAIN MIGRATIONS : \A k \in DOMAIN MIGRATIONS[i] :
          MIGRATIONS[i][k].op = "version" => i = 1 /\ \A j \in DOMAIN MIGRATIONS[1] : k <= j => j = k
    /\ Recovered \cap Dropped = {}

-----------------------------------------------------------------------------

Closed == [at |-> "closed", mig |-> 0, left |-> {}, again |-> FALSE]

DbInit ==
    /\ version \in Found
    /\ \E hole \in Holes : objects = Built(version) \ hole
    /\ conn = [p \in Procs |-> Closed]

\* The way into a migration: all of its statements are left.
Migrating(i) == [at |-> "migrating", mig |-> i, left |-> DOMAIN MIGRATIONS[i], again |-> FALSE]
Recovering == [at |-> "recovering", mig |-> 0, left |-> DOMAIN Recovery, again |-> FALSE]

\* db(), when the process has no instance yet: migrate() reads the version.
OpenDb(p) ==
    /\ conn[p].at = "closed"
    /\ conn' = [conn EXCEPT ![p] = IF version >= Release[p] THEN Recovering ELSE Migrating(version + 1)]
    /\ UNCHANGED <<version, objects>>

IsNext(k, left) == k \in left /\ \A j \in left : k <= j
IsDuplicate(st) == st.op = "column" /\ st.name \in objects

\* One statement of the migration is executed.
RunStatement(p, k) ==
    LET st == MIGRATIONS[conn[p].mig][k] IN
    /\ conn[p].at = "migrating" /\ IsNext(k, conn[p].left)
    /\ ~IsDuplicate(st)
    /\ objects' = IF st.op = "drop" THEN objects \ {st.name} ELSE objects \cup {st.name}
    /\ version' = IF st.op = "version" /\ version = 0 THEN 1 ELSE version
    /\ conn' = [conn EXCEPT ![p].left = @ \ {k}]

\* A bug: the statements after the duplicate column are not executed.
Bug_Unapplied(i) == {}

\* stripAppliedAlters: what of a migration is executed the second time.
Unapplied(i) == {k \in DOMAIN MIGRATIONS[i] : ~IsDuplicate(MIGRATIONS[i][k])}

\* The statement is an ALTER that was applied before: the migration starts over
\* without those.  The second time there is nobody to catch the error.
DuplicateColumn(p, k) ==
    /\ conn[p].at = "migrating" /\ IsNext(k, conn[p].left)
    /\ IsDuplicate(MIGRATIONS[conn[p].mig][k])
    /\ conn' = [conn EXCEPT ![p] = IF @.again THEN Closed
                                      ELSE [@ EXCEPT !.left = Unapplied(conn[p].mig), !.again = TRUE]]
    /\ UNCHANGED <<version, objects>>

NextMigration(p) ==
    /\ conn[p].at = "migrating" /\ conn[p].left = {} /\ conn[p].mig < Release[p]
    /\ conn' = [conn EXCEPT ![p] = Migrating(conn[p].mig + 1)]
    /\ UNCHANGED <<version, objects>>

\* The version is normalized to the release's, even if another process has
\* brought the database further.
Migrated(p) ==
    /\ conn[p].at = "migrating" /\ conn[p].left = {} /\ conn[p].mig = Release[p]
    /\ version' = Release[p]
    /\ conn' = [conn EXCEPT ![p] = Recovering]
    /\ UNCHANGED objects

RecoverTable(p, k) ==
    /\ conn[p].at = "recovering" /\ IsNext(k, conn[p].left)
    /\ objects' = objects \cup {Recovery[k].name}
    /\ conn' = [conn EXCEPT ![p].left = @ \ {k}]
    /\ UNCHANGED version

\* The column is looked for, and added by a statement of its own.
RecoverColumn(p) ==
    /\ conn[p].at = "recovering" /\ conn[p].left = {}
    /\ conn' = [conn EXCEPT ![p].at = IF CallType \in objects THEN "open" ELSE "adding"]
    /\ UNCHANGED <<version, objects>>

AddColumn(p) ==
    /\ conn[p].at = "adding"
    /\ conn' = [conn EXCEPT ![p] = IF CallType \in objects THEN Closed ELSE [@ EXCEPT !.at = "open"]]
    /\ objects' = objects \cup {CallType}
    /\ UNCHANGED version

\* close(), the end of the process wherever it is, or any other error in db(), a
\* lock or a full disk: there is no instance, and the next call starts over.
CloseDb(p) ==
    /\ conn[p].at # "closed"
    /\ conn' = [conn EXCEPT ![p] = Closed]
    /\ UNCHANGED <<version, objects>>

DbStep(p) ==
    \/ OpenDb(p) \/ NextMigration(p) \/ Migrated(p) \/ RecoverColumn(p) \/ AddColumn(p)
    \/ \E k \in conn[p].left : RunStatement(p, k) \/ DuplicateColumn(p, k) \/ RecoverTable(p, k)

DbNext == \E p \in Procs : DbStep(p) \/ CloseDb(p)
DbSpec == DbInit /\ [][DbNext]_dbVars

-----------------------------------------------------------------------------

\* A process that has its instance finds everything its release relies on: every
\* table and column, and every backfill done, whoever ran which statement, and
\* whatever stopped in between (migrate, recoverMissingObjects).
OpenIsComplete == \A p \in Procs : conn[p].at = "open" => Schema(Release[p]) \subseteq objects
=============================================================================
