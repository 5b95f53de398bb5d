------------------------------ MODULE Curation ------------------------------
(***************************************************************************)
(* When the curator runs, and what it reads.  A session's turns are        *)
(* counted, and three things start a curation: a turn that brings the      *)
(* count to its threshold, the idle handler, and the command /lore:curate. *)
(* Only one runs per session (curatorLimiter); the others are skipped.     *)
(*                                                                         *)
(* A run reads the messages stored after the session's mark                *)
(* (lastCuratedAt), or, when few of them are undistilled, the observations *)
(* of the distillations stored after it.  The mark moves when the answer   *)
(* was applied.  What is done with an answer is module Knowledge, how      *)
(* messages are distilled is module Distillation.                          *)
(*                                                                         *)
(* Messages are numbered in the order they are stored, and a mark is the   *)
(* last number there was.  One message stands for those of a turn.         *)
(***************************************************************************)
EXTENDS Integers, FiniteSets

CONSTANTS
    Sessions,
    AfterTurns,           \* curator.afterTurns
    EffectiveAfterTurns,  \* the same times curationMultiplier
    MinRecent,            \* undistilled messages worth a raw reading
    MaxTurns,             \* bound: turns
    MaxFaults,            \* bound: pauses, errors and restarts together
    MaxCommands           \* bound: /lore:curate

ASSUME CurationAssumption ==
    /\ {AfterTurns, EffectiveAfterTurns, MinRecent, MaxTurns, MaxFaults, MaxCommands} \subseteq Nat
    /\ 1 <= AfterTurns /\ AfterTurns <= EffectiveAfterTurns /\ MinRecent >= 1

Messages == 1 .. MaxTurns
Starters == {"turn", "idle", "command"}

VARIABLES
    ses,      \* per session: its SessionState and its rows in the tables
    cur,      \* the curations that await the model
    queued,   \* triggers of turns that wait in runBackground
    idle,     \* where the session's idle handler is
    command,  \* where a /lore:curate for the session is
    paused,   \* the circuit breaker is open
    count     \* counts what is bounded

vars == <<ses, cur, queued, idle, command, paused, count>>

Session == [
    loaded: BOOLEAN,           \* it is in the gateway's map
    asking: BOOLEAN,           \* a turn is with the model
    quiet:  BOOLEAN,           \* the idle timeout passed since the last request
    tool:   BOOLEAN,           \* lastStopReason is tool_use
    turns:  Nat, saved: Nat,   \* turnsSinceCuration, in memory and in the table
    stored: 0 .. MaxTurns,     \* messages stored so far
    raw:    SUBSET Messages,   \* the undistilled ones
    obs:    SUBSET Messages,   \* those the distillations after the mark cover
    mark:   0 .. MaxTurns,     \* lastCuratedAt
    read:   SUBSET Messages]   \* history: those an answered raw reading saw

Run == [msgs: SUBSET Messages, raw: BOOLEAN, by: Starters]

Counts == [turns: 0 .. MaxTurns, faults: 0 .. MaxFaults, commands: 0 .. MaxCommands]

-----------------------------------------------------------------------------

Recent(s) == {m \in ses[s].raw : m > ses[s].mark}
ReadsRaw(s) == Cardinality(Recent(s)) >= MinRecent
Input(s) == IF ReadsRaw(s) THEN Recent(s) ELSE ses[s].obs

Busy(s) == cur[s] # {}

Init ==
    /\ ses = [s \in Sessions |->
                [loaded |-> FALSE, asking |-> FALSE, quiet |-> FALSE, tool |-> FALSE,
                 turns |-> 0, saved |-> 0, stored |-> 0, raw |-> {}, obs |-> {},
                 mark |-> 0, read |-> {}]]
    /\ cur = [s \in Sessions |-> {}]
    /\ queued = [s \in Sessions |-> 0]
    /\ idle = [s \in Sessions |-> "off"]
    /\ command = [s \in Sessions |-> "off"]
    /\ paused = FALSE
    /\ count = [turns |-> 0, faults |-> 0, commands |-> 0]

-----------------------------------------------------------------------------
(* Turns.                                                                  *)

TurnBegins(s) ==
    LET turns == IF ses[s].loaded THEN ses[s].turns ELSE ses[s].saved
    IN  /\ ~ses[s].asking
        /\ count.turns < MaxTurns
        /\ count' = [count EXCEPT !.turns = @ + 1]
        /\ ses' = [ses EXCEPT ![s] = [@ EXCEPT !.loaded = TRUE, !.asking = TRUE, !.quiet = FALSE,
                                               !.turns = turns, !.saved = turns]]
        /\ UNCHANGED <<cur, queued, idle, command, paused>>

\* The upstream call failed: no post-response processing.
TurnFails(s) ==
    /\ ses[s].asking
    /\ ses' = [ses EXCEPT ![s].asking = FALSE]
    /\ UNCHANGED <<cur, queued, idle, command, paused, count>>

\* A turn that saw a git commit brings the count to the threshold.
CountTurn(s, commit) ==
    LET turns == ses[s].turns + 1
    IN  IF commit /\ turns < EffectiveAfterTurns THEN EffectiveAfterTurns ELSE turns

\* postResponse: a session in amnesia stores nothing and schedules nothing.
TurnEnds(s) ==
    /\ ses[s].asking
    /\ \E stores, tool, commit \in BOOLEAN :
         LET turns  == CountTurn(s, commit)
             stored == IF stores THEN ses[s].stored + 1 ELSE ses[s].stored
             raw    == IF stores THEN ses[s].raw \cup {stored} ELSE ses[s].raw
         IN  /\ ses' = [ses EXCEPT ![s] = [@ EXCEPT !.asking = FALSE, !.tool = tool, !.turns = turns,
                                                    !.stored = stored, !.raw = raw]]
             /\ queued' = IF stores /\ ~paused /\ turns >= EffectiveAfterTurns
                          THEN [queued EXCEPT ![s] = @ + 1] ELSE queued
    /\ UNCHANGED <<cur, idle, command, paused, count>>

-----------------------------------------------------------------------------
(* Runs of the curator.                                                    *)

CountReset(s) == [ses EXCEPT ![s] = [@ EXCEPT !.turns = 0, !.saved = 0]]

Bug_RunStarts(s, by) ==
    /\ Input(s) # {}
    /\ cur' = [cur EXCEPT ![s] = @ \cup {[msgs |-> Input(s), raw |-> ReadsRaw(s), by |-> by]}]

RunStarts(s, by) ==
    /\ ~Busy(s)
    /\ Input(s) # {}
    /\ cur' = [cur EXCEPT ![s] = @ \cup {[msgs |-> Input(s), raw |-> ReadsRaw(s), by |-> by]}]

\* Another run is under way, or there is nothing to read.
RunSkipped(s) == (Busy(s) \/ Input(s) = {}) /\ UNCHANGED cur

\* A trigger of a turn leaves the queue of runBackground.
StartQueued(s) ==
    /\ queued[s] > 0
    /\ queued' = [queued EXCEPT ![s] = @ - 1]
    /\ \/ paused /\ UNCHANGED <<ses, cur>>
       \/ ~paused /\ RunSkipped(s) /\ ses' = CountReset(s)
       \/ ~paused /\ RunStarts(s, "turn") /\ UNCHANGED ses
    /\ UNCHANGED <<idle, command, paused, count>>

\* The run is over, and who awaited it goes on.
Returns(s, run) ==
    /\ cur' = [cur EXCEPT ![s] = @ \ {run}]
    /\ idle' = IF run.by = "idle" THEN [idle EXCEPT ![s] = "rest"] ELSE idle
    /\ command' = IF run.by = "command" THEN [command EXCEPT ![s] = "off"] ELSE command

\* The command leaves the count as it is.
AfterRun(s, run) == IF run.by = "command" THEN ses ELSE CountReset(s)

\* The answer is applied, and the mark is set to the time now.
RunAnswered(s) ==
    \E run \in cur[s] :
        LET read == IF run.raw THEN ses[s].read \cup run.msgs ELSE ses[s].read
        IN  /\ Returns(s, run)
            /\ ses' = [AfterRun(s, run) EXCEPT
                         ![s] = [@ EXCEPT !.mark = ses[s].stored, !.obs = {}, !.read = read]]
            /\ UNCHANGED <<queued, paused, count>>

\* The model gave no answer: the mark stays, the count is reset all the same.
RunUnanswered(s) ==
    \E run \in cur[s] :
        /\ Returns(s, run)
        /\ ses' = AfterRun(s, run)
        /\ UNCHANGED <<queued, paused, count>>

\* An error of the database, caught by whoever started the run.
RunThrows(s) ==
    /\ count.faults < MaxFaults
    /\ count' = [count EXCEPT !.faults = @ + 1]
    /\ \E run \in cur[s] : Returns(s, run)
    /\ UNCHANGED <<ses, queued, paused>>

-----------------------------------------------------------------------------
(* The idle scheduler and its handler, and the command.                    *)

QuietTime(s) ==
    /\ ses[s].loaded /\ ~ses[s].quiet
    /\ ses' = [ses EXCEPT ![s].quiet = TRUE]
    /\ UNCHANGED <<cur, queued, idle, command, paused, count>>

IdleTick(s) ==
    /\ ses[s].loaded /\ ses[s].quiet /\ ~ses[s].tool
    /\ idle[s] = "off"
    /\ ~paused
    /\ idle' = [idle EXCEPT ![s] = "queued"]
    /\ UNCHANGED <<ses, cur, queued, command, paused, count>>

\* runBackground looks at the breaker again when the handler's turn comes.
IdleStarts(s) ==
    /\ idle[s] = "queued"
    /\ idle' = [idle EXCEPT ![s] = IF paused THEN "off" ELSE "distilling"]
    /\ UNCHANGED <<ses, cur, queued, command, paused, count>>

Bug_Due(s) == ses[s].turns >= EffectiveAfterTurns

Due(s) == ses[s].turns >= AfterTurns

\* The handler's distillations are over: curation, if it is due.
IdleCurates(s) ==
    /\ idle[s] = "distilling"
    /\ \/ ~Due(s) /\ idle' = [idle EXCEPT ![s] = "rest"] /\ UNCHANGED <<ses, cur>>
       \/ Due(s) /\ RunSkipped(s) /\ idle' = [idle EXCEPT ![s] = "rest"] /\ ses' = CountReset(s)
       \/ Due(s) /\ RunStarts(s, "idle") /\ idle' = [idle EXCEPT ![s] = "curating"] /\ UNCHANGED ses
    /\ UNCHANGED <<queued, command, paused, count>>

\* Consolidation, pruning and exports, which are in the other modules.
IdleEnds(s) ==
    /\ idle[s] = "rest"
    /\ idle' = [idle EXCEPT ![s] = "off"]
    /\ UNCHANGED <<ses, cur, queued, command, paused, count>>

Command(s) ==
    /\ ses[s].loaded /\ command[s] = "off"
    /\ count.commands < MaxCommands
    /\ count' = [count EXCEPT !.commands = @ + 1]
    /\ command' = [command EXCEPT ![s] = "distilling"]
    /\ UNCHANGED <<ses, cur, queued, idle, paused>>

CommandCurates(s) ==
    /\ command[s] = "distilling"
    /\ \/ RunSkipped(s) /\ command' = [command EXCEPT ![s] = "off"]
       \/ RunStarts(s, "command") /\ command' = [command EXCEPT ![s] = "curating"]
    /\ UNCHANGED <<ses, queued, idle, paused, count>>

-----------------------------------------------------------------------------
(* What the other components do meanwhile.                                 *)

\* A segment of the oldest undistilled messages, or a consolidation of all rows.
Distil(s) ==
    /\ \E last \in ses[s].raw :
         LET segment == {m \in ses[s].raw : m <= last}
         IN  ses' = [ses EXCEPT ![s] = [@ EXCEPT !.raw = ses[s].raw \ segment, !.obs = ses[s].obs \cup segment]]
    /\ UNCHANGED <<cur, queued, idle, command, paused, count>>

Consolidate(s) ==
    LET distilled == (1 .. ses[s].stored) \ ses[s].raw
    IN  /\ distilled # {}
        /\ ses' = [ses EXCEPT ![s].obs = distilled]
        /\ UNCHANGED <<cur, queued, idle, command, paused, count>>

Pause ==
    /\ count.faults < MaxFaults
    /\ count' = [count EXCEPT !.faults = @ + 1]
    /\ paused' = TRUE
    /\ UNCHANGED <<ses, cur, queued, idle, command>>

PauseEnds == paused /\ paused' = FALSE /\ UNCHANGED <<ses, cur, queued, idle, command, count>>

\* Counts and marks are in the table, the rest is gone until the next request.
Restart ==
    /\ count.faults < MaxFaults
    /\ count' = [count EXCEPT !.faults = @ + 1]
    /\ ses' = [s \in Sessions |-> [ses[s] EXCEPT !.loaded = FALSE, !.asking = FALSE, !.quiet = FALSE,
                                                 !.tool = FALSE, !.turns = 0]]
    /\ cur' = [s \in Sessions |-> {}]
    /\ queued' = [s \in Sessions |-> 0]
    /\ idle' = [s \in Sessions |-> "off"]
    /\ command' = [s \in Sessions |-> "off"]
    /\ paused' = FALSE

RunEnds(s) == RunAnswered(s) \/ RunUnanswered(s)

Next ==
    \/ \E s \in Sessions : TurnBegins(s) \/ TurnFails(s) \/ TurnEnds(s) \/ StartQueued(s)
    \/ \E s \in Sessions : RunEnds(s) \/ RunThrows(s)
    \/ \E s \in Sessions : QuietTime(s) \/ IdleTick(s) \/ IdleStarts(s) \/ IdleCurates(s) \/ IdleEnds(s)
    \/ \E s \in Sessions : Command(s) \/ CommandCurates(s) \/ Distil(s) \/ Consolidate(s)
    \/ Pause \/ PauseEnds \/ Restart

Spec == Init /\ [][Next]_vars

\* The scheduler ticks, limiters grant their slots, a call to the model ends one
\* way or the other, and a pause runs out.  Nothing obliges a client to ask.
Fairness ==
    /\ WF_vars(PauseEnds)
    /\ \A s \in Sessions :
         /\ WF_vars(IdleTick(s)) /\ WF_vars(IdleStarts(s)) /\ WF_vars(IdleCurates(s)) /\ WF_vars(IdleEnds(s))
         /\ WF_vars(RunEnds(s))

FairSpec == Spec /\ Fairness

-----------------------------------------------------------------------------

\* A run that its starter awaits is under way, and no other of that starter.
Awaited(s) ==
    /\ idle[s] = "curating" <=> \E run \in cur[s] : run.by = "idle"
    /\ command[s] = "curating" <=> \E run \in cur[s] : run.by = "command"

TypeOK ==
    /\ ses \in [Sessions -> Session]
    /\ cur \in [Sessions -> SUBSET Run]
    /\ queued \in [Sessions -> Nat]
    /\ idle \in [Sessions -> {"off", "queued", "distilling", "curating", "rest"}]
    /\ command \in [Sessions -> {"off", "distilling", "curating"}]
    /\ paused \in BOOLEAN
    /\ count \in Counts
    /\ \A s \in Sessions : Awaited(s)

\* A message is sent to the curator once in its raw form: neither two runs at a
\* time nor a run after another, in this process or the next, have it in common
\* (curatorLimiter, lastCuratedAt).
NotReadTwice ==
    \A s \in Sessions : \A run \in {k \in cur[s] : k.raw} :
        /\ run.msgs \cap ses[s].read = {}
        /\ \A other \in {k \in cur[s] : k.raw} : other = run \/ other.msgs \cap run.msgs = {}

\* A session that falls quiet with enough turns is curated without another
\* request, whatever runs, pauses and skips came before (startIdleScheduler).
QuietSessionCurated ==
    \A s \in Sessions :
        LET Waiting == ses[s].loaded /\ ses[s].quiet /\ ~ses[s].tool
        IN  (Waiting /\ ses[s].turns >= AfterTurns) ~> (~Waiting \/ ses[s].turns < AfterTurns)

\* What curator.ts:165-166 says of a skipped trigger, "the next trigger will pick
\* up any new messages": a raw reading has every undistilled message that no
\* reading had before.
NextTriggerPicksUp ==
    [][\A s \in Sessions : \A run \in cur'[s] \ cur[s] :
         run.raw => ses[s].raw \ ses[s].read \subseteq run.msgs]_vars

=============================================================================
