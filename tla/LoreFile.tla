------------------------------ MODULE LoreFile ------------------------------
(***************************************************************************)
(* The .lore.md file of each project (agents-file.ts): the idle handler    *)
(* exports the project's entries to it, and a file a user or git changed   *)
(* is imported when a session starts or the watcher fires.  A cache in the *)
(* database remembers the hash of what was last written or imported, and   *)
(* the file's mtime then.                                                  *)
(*                                                                         *)
(* A file is the set of its rows; two files hash alike iff they are equal. *)
(* `touched` says that the file's mtime is not the cached one.             *)
(***************************************************************************)
EXTENDS Knowledge

CONSTANTS
    Dirs,         \* projects whose directory is on this machine
    HandWritten,  \* rows without an id that a user may add
    MaxEdits      \* bound: edits by users and git

ASSUME HandWrittenAssumption == HandWritten \subseteq [id : {NoId}, title : Titles, content : AllContents]

VARIABLES
    file,     \* the file of each project
    cache,    \* lore_file_cache: the hash last processed
    touched,  \* the file changed since
    edits     \* counts the edits, for the bound

fileVars == <<file, cache, touched, edits>>
allVars  == <<knowledgeVars, fileVars>>

-----------------------------------------------------------------------------

Missing == <<>>            \* no file, or no cache row
FileOf(rows) == <<rows>>

Row == [id: Ids \cup {NoId}, title: Titles, content: AllContents]

\* An entry is written on one line, whatever it looks like in the table.
RowOf(e, i) == [id |-> i, title |-> e[i].title, content |-> Flat(e[i].content)]

\* buildSection: the entries of the project itself.
Section(e, p) == FileOf({RowOf(e, i) : i \in Visible(e, p, FALSE)})

\* exportLoreFile, for the entries as they are in e; an equal hash skips the write.
ExportLoreFile(e, p) ==
    IF cache[p] = Section(e, p) THEN UNCHANGED <<file, cache, touched>>
    ELSE /\ file' = [file EXCEPT ![p] = Section(e, p)]
         /\ cache' = [cache EXCEPT ![p] = Section(e, p)]
         /\ touched' = [touched EXCEPT ![p] = FALSE]

\* shouldImportLoreFile
Unseen(p) == file[p] # Missing /\ (cache[p] = Missing \/ touched[p])

Matched(p) == file[p] = Section(entry, p)

NeedsImport(p) == Unseen(p) /\ ~Matched(p)

NewEntry(p, row) == [owner |-> p, cross |-> FALSE, title |-> row.title, content |-> row.content, conf |-> Keep]

\* _importEntries, one row.
ImportKnown(work, row) == [work EXCEPT !.entry = Change(@, row.id, row.content, Keep)]

ImportForeign(work, row, p, oldest) ==
    LET twin == FuzzyDuplicate(work.entry, row.title, p, oldest)
    IN  IF twin # NoId THEN [work EXCEPT !.entry = Change(@, twin, row.content, Keep)]
        ELSE Insert(work, row.id, NewEntry(p, row))

ImportHandWritten(work, row, p, oldest) ==
    IF \E i \in Visible(work.entry, p, FALSE) : work.entry[i].title = row.title
    THEN work ELSE Create(work, NewEntry(p, row), oldest)

ImportRow(work, row, p, oldest) ==
    IF row.id = NoId THEN ImportHandWritten(work, row, p, oldest)
    ELSE IF row.id \in Rows(work.entry) THEN ImportKnown(work, row)
    ELSE ImportForeign(work, row, p, oldest)

Import(work, rows, p, oldest) ==
    LET list == SetToSeq(rows)
        done[n \in 0 .. Len(list)] == IF n = 0 THEN work ELSE ImportRow(done[n - 1], list[n], p, oldest)
    IN  done[Len(list)]

-----------------------------------------------------------------------------

InitFile ==
    /\ InitKnowledge
    /\ file = [p \in Dirs |-> Missing] /\ cache = [p \in Dirs |-> Missing]
    /\ touched = [p \in Dirs |-> FALSE] /\ edits = 0

\* Step 5 of the idle handler.
ExportKnowledge(p) ==
    /\ Visible(entry, p, FALSE) # {}
    /\ ExportLoreFile(entry, p)
    /\ UNCHANGED <<knowledgeVars, edits>>

Bug_Processed(p) ==
    /\ Unseen(p) /\ file[p][1] # {}
    /\ minted + Cardinality({row \in file[p][1] : row.id = NoId}) <= MaxIds
    /\ cache' = [cache EXCEPT ![p] = file[p]]
    /\ UNCHANGED <<file, touched, edits, curation, trim, ref>>

\* tryImportKnowledge: the file is the section already, or its rows are imported;
\* a file without rows is left.
Processed(p) ==
    /\ Unseen(p)
    /\ Matched(p) \/ file[p][1] # {}
    /\ minted + Cardinality({row \in file[p][1] : row.id = NoId}) <= MaxIds
    /\ touched' = [touched EXCEPT ![p] = FALSE]
    /\ cache' = [cache EXCEPT ![p] = file[p]]
    /\ UNCHANGED <<file, edits, curation, trim, ref>>

TryImport(p) ==
    /\ Processed(p)
    /\ \/ /\ Matched(p)
          /\ UNCHANGED <<entry, minted>>
       \/ /\ ~Matched(p)
          /\ \E oldest \in BOOLEAN :
               LET work == Import(Work, file[p][1], p, oldest)
               IN  entry' = work.entry /\ minted' = work.minted

\* clearProject: the entries go, and the file is written anew even when nothing is left.
ClearProject(p) ==
    LET gone == {i \in Live : entry[i].owner = p}
    IN  /\ gone # {}
        /\ entry' = Without(entry, gone)
        /\ ref' = Cascade(entry', ref)
        /\ ExportLoreFile(entry', p)
        /\ UNCHANGED <<minted, curation, trim, edits>>

\* Another writer: an editor, or git bringing rows of another machine.
Edited(rows) ==
    {rows \ {row} : row \in rows}
      \cup {(rows \ {row}) \cup {[row EXCEPT !.content = Flat(c)]} : row \in rows, c \in Contents}
      \cup {rows \cup {row} : row \in HandWritten}

Edit(p) ==
    /\ edits < MaxEdits
    /\ edits' = edits + 1
    /\ \/ /\ file[p] # Missing
          /\ \E rows \in Edited(file[p][1]) : file' = [file EXCEPT ![p] = FileOf(rows)]
          /\ UNCHANGED minted
       \/ /\ minted < MaxIds
          /\ \E row \in HandWritten :
               file' = [file EXCEPT ![p] = FileOf((IF @ = Missing THEN {} ELSE @[1])
                                                    \cup {[row EXCEPT !.id = minted + 1]})]
          /\ minted' = minted + 1
    /\ touched' = [touched EXCEPT ![p] = TRUE]
    /\ UNCHANGED <<entry, ref, curation, trim, cache>>

DeleteFile(p) ==
    /\ edits < MaxEdits /\ file[p] # Missing
    /\ edits' = edits + 1
    /\ file' = [file EXCEPT ![p] = Missing]
    /\ UNCHANGED <<knowledgeVars, cache, touched>>

NextFile ==
    \/ NextKnowledge /\ UNCHANGED fileVars
    \/ \E p \in Dirs : ExportKnowledge(p) \/ TryImport(p) \/ ClearProject(p) \/ Edit(p) \/ DeleteFile(p)

\* The scheduler's ticks and the sessions that start keep coming.  (A step that is
\* Processed(p) is TryImport(p): the formula is the one whose ENABLED is simple.)
FileFairness == \A p \in Dirs : WF_allVars(ExportKnowledge(p)) /\ WF_fileVars(Processed(p))

FileSpec     == InitFile /\ [][NextFile]_allVars
FairFileSpec == FileSpec /\ FileFairness

-----------------------------------------------------------------------------

TypeOKFile ==
    /\ KnowledgeTypeOK
    /\ \A p \in Dirs : \A rows \in {file[p], cache[p]} : rows = Missing \/ rows[1] \subseteq Row
    /\ touched \in [Dirs -> BOOLEAN] /\ edits \in 0 .. MaxEdits

\* Imports and exports do not chase each other: after the last edit, a file is
\* seen once and then left in peace, unless it holds no rows.
Settles == <>[](\A p \in Dirs : NeedsImport(p) => file[p][1] = {})

=============================================================================
