------------------------------- MODULE Window -------------------------------
(***************************************************************************)
(* The choice of the messages a request carries (gradient.ts): the current *)
(* turn, the tool outputs a later read repeats, the scan for the oldest    *)
(* message that fits a budget, the pinned window and the emergency tail.   *)
(*                                                                         *)
(* A conversation is a sequence of messages as the gateway hands them over *)
(* after resolveToolResults: a user message ("user", tool results          *)
(* included), an assistant's text ("text") or its tool call with the       *)
(* output ("tool").  A size is what estimateMessage returns.               *)
(***************************************************************************)
EXTENDS Integers, Sequences, FiniteSetsExt

CONSTANTS
    Messages,  \* [kind, size, reads] records a conversation may hold
    NoteSize,  \* what a message weighs once its output is an annotation
    TailLeast, TailMost, \* the clamp of the emergency tail's budget
    NoRead     \* "reads" of a message no other one can repeat

Kinds == {"user", "text", "tool"}

\* DEDUP_MIN_CHARS: only an output that is larger than its annotation has a
\* read that another one may cover.
ASSUME WindowAssumption ==
    /\ {NoteSize, TailLeast, TailMost} \subseteq Nat \ {0}
    /\ TailLeast <= TailMost
    /\ \A m \in Messages :
          /\ DOMAIN m = {"kind", "size", "reads"}
          /\ m.kind \in Kinds /\ m.size \in Nat \ {0}
          /\ m.reads # NoRead => m.kind = "tool" /\ m.size > NoteSize

Conversations == Seq(Messages)

SumFrom(sizes, first) ==
    LET total[i \in 1 .. Len(sizes) + 1] == IF i > Len(sizes) THEN 0 ELSE sizes[i] + total[i + 1]
    IN  total[first]

\* estimateMessages, of the messages from a position on and of some messages.
Tokens(c, first) == SumFrom([i \in 1 .. Len(c) |-> c[i].size], first)
TokensOf(c, which) == SumFrom([i \in 1 .. Len(c) |-> IF i \in which THEN c[i].size ELSE 0], 1)

\* deterministicID: role, position and content.
MessageId(c, i) == <<i, c[i]>>
MessageIds(c, first) == {MessageId(c, i) : i \in first .. Len(c)}

LastUser(c) == Max({i \in 1 .. Len(c) : c[i].kind = "user"})

\* Back from the last user message over tool calls and the user messages
\* between them, to the last answer that was text alone.
CurrentTurnStart(c) ==
    Max({0} \cup {i \in 1 .. LastUser(c) : c[i].kind = "text"}) + 1

-----------------------------------------------------------------------------
(* Repeated tool outputs. *)

\* A read is [path, first, last]; last = 0: to the end; first = last = 0: the
\* whole file.  An output that another tool repeats word for word is a read of
\* the whole of it.
LaterReadCovers(later, earlier) ==
    /\ later.path = earlier.path
    /\ \/ later.first = 0 /\ later.last = 0
       \/ /\ earlier.first # 0 \/ earlier.last # 0
          /\ later.first <= earlier.first
          /\ \/ later.last = 0
             \/ earlier.last # 0 /\ later.last >= earlier.last

\* The messages before the current turn whose output a later one repeats.
Repeated(c, turn) ==
    {i \in 1 .. turn - 1 :
        /\ c[i].reads # NoRead
        /\ \E j \in i + 1 .. Len(c) :
              c[j].reads # NoRead /\ LaterReadCovers(c[j].reads, c[i].reads)}

Annotated(c, which) ==
    [i \in 1 .. Len(c) |->
        IF i \in which THEN [c[i] EXCEPT !.size = NoteSize, !.reads = NoRead] ELSE c[i]]

DeduplicateToolOutputs(c) == Annotated(c, Repeated(c, CurrentTurnStart(c)))

-----------------------------------------------------------------------------
(* Windows: the first message that is kept. *)

\* The distilled prefix ends with an assistant message, so a window behind one
\* moves on to a user message; it stops at "limit" all the same.
FromUser(c, first, limit, prefixed) ==
    IF prefixed
    THEN Min({limit} \cup {i \in first .. limit - 1 : c[i].kind = "user"})
    ELSE first

\* tryFit: as far back as the budget reaches, the current turn always within.
TurnFits(c, budget) == Tokens(c, CurrentTurnStart(c)) <= budget
TryFit(c, budget, prefixed) ==
    LET turn == CurrentTurnStart(c)
    IN  FromUser(c, Min({i \in 1 .. turn : Tokens(c, i) <= budget}), turn, prefixed)

\* tryFitStable: the window pinned before, grown by the messages added since.
PinnedStart(c, pin, prefixed) ==
    LET added == IF Len(c) > pin.total THEN Len(c) - pin.total ELSE 0
        size  == pin.raw + added
        first == IF Len(c) > size THEN Len(c) - size + 1 ELSE 1
    IN  FromUser(c, first, Len(c) + 1, prefixed)

WithinMargin(tokens, budget) == 100 * tokens <= 115 * budget

\* Mutant: a pinned window is kept whatever it has grown to.
Bug_PinFits(c, pin, budget, prefixed) == TRUE

\* Within 15% of the larger of the budget now and when the window was pinned.
PinFits(c, pin, budget, prefixed) ==
    WithinMargin(Tokens(c, PinnedStart(c, pin, prefixed)), Max({pin.budget, budget}))

\* Layer 4: the current turn whatever it weighs, and a short tail before it.
TailBudget(usable) == Max({TailLeast, Min({TailMost, usable \div 4})})
EmergencyStart(c, usable, prefixed) ==
    LET turn   == CurrentTurnStart(c)
        budget == Max({TailBudget(usable), Tokens(c, turn)})
    IN  FromUser(c, Min({i \in 1 .. turn : Tokens(c, i) <= budget}), turn, prefixed)
=============================================================================
