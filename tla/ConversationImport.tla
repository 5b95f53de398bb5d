------------------------- MODULE ConversationImport -------------------------
(***************************************************************************)
(* The import of a conversation that another agent keeps for a directory   *)
(* (`lore import`, and the offer `lore run` makes): what is there is       *)
(* detected, compared with what was imported before, read, shown to the    *)
(* curator's model and recorded with its hash.  The conversation may grow  *)
(* at any time, and the user's and the model's answers take theirs.        *)
(*                                                                         *)
(* A conversation is the number of its messages, which is also its hash.   *)
(* Its chunks are one: the loop over them stores knowledge between calls   *)
(* of the model as it does after the last.                                 *)
(***************************************************************************)
EXTENDS Projects

CONSTANTS
    Source,     \* the directory the conversation is about
    MaxMessages \* bound: messages of it

VARIABLES
    said,       \* messages of the conversation
    shown,      \* history: how many of them a model has been asked about
    import      \* the locals of each process's import

importVars == <<said, shown, import>>

ASSUME SourceAssumption == Source \in Paths /\ MaxMessages \in Nat

-----------------------------------------------------------------------------

NoImport == [at |-> "none", auto |-> FALSE, hash |-> 0]

ImportInit ==
    /\ said = 1 /\ shown = 0
    /\ import = [p \in Procs |-> NoImport]

\* The import waits for somebody: the process may do other things.
Awaits(p) == import[p].at \in {"none", "prompted", "asked"}

Imports(p, where) == import' = [import EXCEPT ![p].at = where]

\* A call of ensureProject that the import makes, unlike Begin not counted.
Calls(p, next) == IsFree(p) /\ Goes(p, Ensure(Source, next)) /\ UNCHANGED tables

\* The other agent goes on with its conversation.
Talk == said < MaxMessages /\ said' = said + 1 /\ UNCHANGED <<shown, import, projectVars, dbVars>>

-----------------------------------------------------------------------------

\* `lore import`, or maybeAutoImport of `lore run`.
BeginImport(p, auto) ==
    /\ import[p].at = "none" /\ calls < MaxCalls /\ IsFree(p)
    /\ call' = [call EXCEPT ![p] = Ensure(Source, "detect")]
    /\ calls' = calls + 1
    /\ import' = [import EXCEPT ![p] = [NoImport EXCEPT !.at = "checking", !.auto = auto]]
    /\ UNCHANGED <<tables, said, shown, dbVars>>

\* An offer is made once for a project.  The hash is that of the conversation now.
Detect(p) ==
    LET isDone == import[p].auto /\ call[p].id \in offered IN
    /\ call[p].at = "detect"
    /\ Goes(p, IF isDone THEN NoCall ELSE Ensure(Source, "isImported"))
    /\ import' = [import EXCEPT ![p] = IF isDone THEN NoImport ELSE [@ EXCEPT !.hash = said]]
    /\ UNCHANGED <<tables, said, shown>>

IsRecorded(i, hash) == \E h \in history : h.project = i /\ h.path = Source /\ h.hash = hash

IsImported(p) ==
    /\ call[p].at = "isImported"
    /\ Goes(p, NoCall)
    /\ import' = [import EXCEPT ![p] =
                    IF IsRecorded(call[p].id, @.hash) THEN NoImport ELSE [@ EXCEPT !.at = "prompted"]]
    /\ UNCHANGED <<tables, said, shown>>

\* The user answers.  An offer is recorded whatever the answer is.
Confirm(p) ==
    /\ import[p].at = "prompted" /\ IsFree(p) /\ UNCHANGED <<said, shown>>
    /\ \/ import[p].auto /\ Calls(p, "offered") /\ \E where \in {"accepted", "declined"} : Imports(p, where)
       \/ ~import[p].auto /\ Imports(p, "reading") /\ UNCHANGED <<projectVars, dbVars>>
       \/ ~import[p].auto /\ Imports(p, "none") /\ UNCHANGED <<projectVars, dbVars>>

\* readChunks, and the call of the model; there may be nothing to extract.
Read(p) ==
    /\ import[p].at = "reading" /\ IsFree(p)
    /\ \/ /\ shown' = IF shown < said THEN said ELSE shown
          /\ Imports(p, "asked")
          /\ UNCHANGED <<said, projectVars, dbVars>>
       \/ import[p].auto /\ Imports(p, "none") /\ UNCHANGED <<said, shown, projectVars, dbVars>>
       \/ ~import[p].auto /\ Calls(p, "offered") /\ Imports(p, "closing") /\ UNCHANGED <<said, shown>>

\* The model's entries are applied; or the call failed, which is only counted.
ModelAnswers(p) ==
    /\ import[p].at = "asked" /\ IsFree(p)
    /\ Imports(p, "learning")
    /\ Calls(p, "knowledge") \/ UNCHANGED <<projectVars, dbVars>>
    /\ UNCHANGED <<said, shown>>

BeginRecord(p) ==
    /\ import[p].at = "learning"
    /\ Calls(p, "record") /\ Imports(p, "recording")
    /\ UNCHANGED <<said, shown>>

\* A bug: the conversation is hashed once more.
Bug_RecordedHash(p) == said

\* The hash of the detection is computed again from its result.
RecordedHash(p) == import[p].hash

\* recordImport, an upsert, and setLastImportAt unless that was done before.
Record(p) ==
    /\ call[p].at = "record" /\ UNCHANGED <<said, shown>>
    /\ \/ /\ call[p].id \in Live
          /\ history' = {h \in history : h.project # call[p].id \/ h.path # Source}
                         \cup {[path |-> Source, hash |-> RecordedHash(p), project |-> call[p].id]}
          /\ IF import[p].auto
             THEN Goes(p, NoCall) /\ Imports(p, "none")
             ELSE Goes(p, Ensure(Source, "offered")) /\ Imports(p, "closing")
          /\ UNCHANGED <<project, alias, rows, offered, made>>
       \/ call[p].id \notin Live /\ Throws(p) /\ UNCHANGED import

\* setLastImportAt
Offered(p) ==
    /\ call[p].at = "offered"
    /\ offered' = offered \cup ({call[p].id} \cap Live)
    /\ Goes(p, NoCall)
    /\ Imports(p, IF import[p].at = "accepted" THEN "reading" ELSE "none")
    /\ UNCHANGED <<project, alias, rows, history, made, said, shown>>

\* A call threw: that ends the import, which had not got to its next stage.
ImportThrows(p) ==
    /\ import[p].at \in {"checking", "accepted", "declined", "recording", "closing"} /\ IsFree(p)
    /\ Imports(p, "none")
    /\ UNCHANGED <<said, shown, projectVars, dbVars>>

ImportStep(p) ==
    \/ \E auto \in BOOLEAN : BeginImport(p, auto)
    \/ Detect(p) \/ IsImported(p) \/ Confirm(p) \/ Read(p) \/ ModelAnswers(p)
    \/ BeginRecord(p) \/ Record(p) \/ Offered(p) \/ ImportThrows(p)

-----------------------------------------------------------------------------

\* A message that was not shown to a model is never taken for imported: what is
\* said while the user or the model answers is found by the next import.
NothingSkipped == \A h \in history : h.hash <= shown
=============================================================================
