----------------------------- MODULE RecallTurn -----------------------------
(***************************************************************************)
(* The turns of one session through the gateway (pipeline.ts): the request *)
(* is prepared from the client's conversation, the provider's reply is     *)
(* passed on block by block while the recall-aware accumulator holds back  *)
(* the model's recall calls (stream/anthropic.ts), the recall is executed, *)
(* a follow-up continues the reply, and the response is recorded.          *)
(*                                                                         *)
(* A block of a stream is one event: the deltas of a block carry its       *)
(* index, and blocks do not overlap.                                       *)
(***************************************************************************)
EXTENDS Conversation, FiniteSets

CONSTANTS
    Client,             \* the format of the client: "anthropic", "openai" or "responses"
    MAX_RECALL_DEPTH,   \* recall.ts:71
    Replies,            \* bound: the replies of the model, as sequences of kinds of blocks
    RequestKinds,       \* bound: streamed or not, the format of the provider, a context warning due or not
    MaxTurns            \* bound: requests of the client

ASSUME FormatAssumption == Client \in {"anthropic", "openai", "responses"}
ASSUME RequestKindsAssumption ==
    RequestKinds \subseteq [stream : BOOLEAN, provider : {"anthropic", "openai", "responses"}, warn : BOOLEAN]
ASSUME BoundAssumption == MAX_RECALL_DEPTH \in Nat \ {0} /\ MaxTurns \in Nat

VARIABLES
    conv,    \* the client's conversation, as the gateway parses it
    store,   \* sessionState.recallStore: the call id of each query
    req,     \* the messages sent to the provider last
    turn,    \* the request in progress
    count    \* requests so far, and words and calls so far

turnVars == <<conv, store, req, turn, count>>

-----------------------------------------------------------------------------

NoTurn == [phase |-> "idle", stream |-> FALSE, provider |-> "anthropic", warn |-> FALSE, warned |-> FALSE, evicted |-> FALSE, gone |-> FALSE,
           kept |-> <<>>, resp |-> <<>>, shown |-> <<>>, blocks |-> 0, suppressed |-> 0, offset |-> 0,
           depth |-> 0, recorded |-> <<>>]

TurnInit ==
    /\ conv = <<>>
    /\ store = [q \in {} |-> 0]
    /\ req = <<>>
    /\ turn = NoTurn
    /\ count = [turns |-> 0, made |-> 0]

\* Only an Anthropic stream is passed on as it arrives; a stream of another
\* provider is read to its end and answered like a plain request.
Live(t) == t.stream /\ t.provider = "anthropic"
Intercepts(t) == ~(t.stream /\ t.provider # "anthropic")

HasRecall(t) == \E b \in ToSet(t.resp) : IsRecall(b)
RecallBlock(t) == t.resp[SelectInSeq(t.resp, IsRecall)]
HasOtherTools(t) == \E b \in ToSet(t.resp) : b.type = "tool_use" /\ ~IsRecall(b)

-----------------------------------------------------------------------------
(* The request *)

\* The user speaks, or the client answers the calls; a client that got no
\* answer sends the same conversation again.
Asked ==
    IF conv # <<>> /\ Last(conv).role = "user" THEN conv
    ELSE IF Unanswered(conv) # <<>> THEN conv \o AnswersOf(Client, Unanswered(conv))
    ELSE Append(conv, Message("user", <<Text(<<Said(count.made + 1)>>)>>))

\* The conversation as handleConversationTurn prepares it before the gradient transform.
Prepared(msgs) ==
    LET expanded == ExpandRecallMarkers(msgs, store)
    IN  [store |-> CleanupRecallStore(expanded, store), msgs |-> StripContextWarnings(expanded)]

\* The transform keeps a window that starts with a user message (Window.tla).
Windows(msgs) == {i \in DOMAIN msgs : msgs[i].role = "user"}

TurnBegins(r) ==
    /\ turn.phase = "idle"
    /\ count.turns < MaxTurns
    /\ conv' = Asked
    /\ LET prepared == Prepared(Asked)
           resolved == ResolveToolResults(prepared.msgs)
       IN  \E first \in Windows(resolved) :
             /\ store' = prepared.store
             /\ req' = RemoveOrphanedToolResults(LoreMessagesToGateway(SubSeq(resolved, first, Len(resolved))))
             /\ turn' = [NoTurn EXCEPT !.phase = "reply", !.stream = r.stream, !.provider = r.provider,
                                       !.warn = r.warn, !.evicted = first > 1]
    /\ count' = [turns |-> count.turns + 1, made |-> count.made + 1]

-----------------------------------------------------------------------------
(* The reply *)

\* A block that the client is shown at a position.
Shown(i, b) == [index |-> i, block |-> b]

Continued(t) == t.depth > 0

\* A warning is shown in front of the first block that is no thinking, and
\* moves the ones after it.
Thoughts(t) == Cardinality({i \in DOMAIN t.resp : t.resp[i].type = "thinking"})
WarnsNow(t, b) == t.warn /\ ~Continued(t) /\ ~t.warned /\ b.type # "thinking"

Warned(t) == [t EXCEPT !.warned = TRUE, !.shown = Append(@, Shown(Thoughts(t), Text(<<Warning>>)))]

\* A bug: the index is not corrected for the blocks held back.
Bug_IndexOf(t) == Len(t.resp) + t.offset + (IF t.warned /\ ~Continued(t) THEN 1 ELSE 0)

IndexOf(t) == Len(t.resp) - t.suppressed + t.offset + (IF t.warned /\ ~Continued(t) THEN 1 ELSE 0)

\* The accumulator reads a block.
Accumulate(t, b) == [t EXCEPT !.resp = Append(@, b)]

\* The recall-aware accumulator holds a recall back and renumbers the rest.
Forward(t, b) ==
    IF IsRecall(b) THEN Accumulate([t EXCEPT !.suppressed = @ + 1], b)
    ELSE Accumulate([t EXCEPT !.blocks = @ + 1, !.shown = Append(@, Shown(IndexOf(t), b))], b)

\* The loop of buildStreamingResponse around it.
PassOn(t, b) == Forward(IF WarnsNow(t, b) /\ ~IsRecall(b) THEN Warned(t) ELSE t, b)

\* What the model says: thoughts, texts, calls of the client's tools and recalls.
BlockOf(kind, n) ==
    CASE kind = "thinking" -> Thinking
      [] kind = "text"     -> Text(<<Said(n)>>)
      [] kind = "call"     -> Use(n, NoQuery)
      [] OTHER             -> Use(n, kind)

Kinds(content) ==
    [i \in DOMAIN content |->
        LET b == content[i] IN IF b.type # "tool_use" THEN b.type ELSE IF IsRecall(b) THEN b.query ELSE "call"]

Complete(t) == Kinds(t.resp) \in Replies

BlockArrives ==
    /\ turn.phase = "reply" /\ Live(turn) /\ ~turn.gone
    /\ \E r \in Replies :
           /\ IsStrictPrefix(Kinds(turn.resp), r)
           /\ turn' = PassOn(turn, BlockOf(r[Len(turn.resp) + 1], count.made + 1))
    /\ count' = [count EXCEPT !.made = @ + 1]
    /\ UNCHANGED <<conv, store, req>>

\* onComplete, and the stream is closed.
Record(t, content) == [t EXCEPT !.recorded = Append(@, content), !.phase = "closed"]

\* The terminal events of a reply without a recall are passed on; a due warning goes in front of them.
Ended(t) ==
    IF t.warn /\ ~t.warned /\ ~Continued(t) THEN Warned(t) ELSE t

\* The end of a stream: without a recall the response is recorded; a recall
\* is executed, unless a chain of them has reached its depth.
EndOfStream(t) ==
    IF HasRecall(t) /\ t.depth < MAX_RECALL_DEPTH THEN [t EXCEPT !.phase = "recall"]
    ELSE IF HasRecall(t) THEN Record(t, ReplaceRecallWithMarker(t.resp))
    ELSE IF Continued(t) THEN Record(t, ReplaceRecallWithMarker(t.kept))
    ELSE Record(IF t.gone THEN t ELSE Ended(t), t.resp)

\* A bug: a stream the client has left is never brought to its end.
Bug_StreamEnds ==
    /\ turn.phase = "reply" /\ Live(turn) /\ Complete(turn) /\ ~turn.gone
    /\ turn' = EndOfStream(turn)
    /\ UNCHANGED <<conv, store, req, count>>

StreamEnds ==
    /\ turn.phase = "reply" /\ Live(turn) /\ (turn.gone \/ Complete(turn))
    /\ turn' = EndOfStream(turn)
    /\ UNCHANGED <<conv, store, req, count>>

\* The connection to the provider breaks: controller.error, nothing is recorded.
StreamBreaks ==
    /\ turn.phase = "reply" /\ Live(turn)
    /\ turn' = [turn EXCEPT !.phase = "failed"]
    /\ UNCHANGED <<conv, store, req, count>>

\* The client hangs up; the gateway goes on with what it has read.
ClientHangsUp ==
    /\ turn.phase \in {"reply", "recall", "followUp"} /\ turn.stream /\ ~turn.gone
    /\ turn' = [turn EXCEPT !.gone = TRUE]
    /\ UNCHANGED <<conv, store, req, count>>

\* The client gets a plain reply with the warning.
Show(t, content) ==
    LET full == IF t.warn THEN InjectContextWarning(content) ELSE content
    IN  [t EXCEPT !.shown = [k \in DOMAIN full |-> Shown(k - 1, full[k])]]

\* What the gateway reads of a reply in the format of each provider: Chat
\* Completions has one text and the calls, the Responses API no thoughts.
AccumulatedChat(content) == OneText(content) \o OfType(content, "tool_use")
AccumulatedItems(content) == SelectSeq(content, LAMBDA b : b.type # "thinking")

Accumulated(provider, content) ==
    CASE provider = "anthropic" -> content
      [] provider = "openai"    -> AccumulatedChat(content)
      [] provider = "responses" -> AccumulatedItems(content)

\* A plain reply is complete, or a stream of another provider was read to its end.
ReplyComplete ==
    /\ turn.phase = "reply" /\ ~Live(turn)
    /\ \E r \in Replies :
         LET reply   == [i \in DOMAIN r |-> BlockOf(r[i], count.made + i)]
             t       == [turn EXCEPT !.resp = Accumulated(turn.provider, reply)]
             content == IF Intercepts(t) THEN ReplaceRecallWithMarker(t.resp) ELSE t.resp
         IN  /\ turn' = IF Intercepts(t) /\ HasRecall(t) /\ t.depth < MAX_RECALL_DEPTH
                        THEN [t EXCEPT !.phase = "recall"]
                        ELSE Record(Show(t, content), content)
             /\ count' = [count EXCEPT !.made = @ + Len(r)]
    /\ UNCHANGED <<conv, store, req>>

\* The provider refuses the request, or cannot be reached.
TurnRefused ==
    /\ turn.phase = "reply" /\ turn.resp = <<>> /\ ~Continued(turn)
    /\ turn' = [turn EXCEPT !.phase = "failed"]
    /\ UNCHANGED <<conv, store, req, count>>

-----------------------------------------------------------------------------
(* The recall *)

MarkerIndex(t) == t.blocks + (IF Continued(t) THEN t.offset ELSE IF t.warn THEN 1 ELSE 0)

\* The first recall of the reply is executed and stored under its query, and
\* its marker is shown in its place.  A reply with other calls ends here.
RecallExecuted ==
    /\ turn.phase = "recall"
    /\ LET b      == RecallBlock(turn)
           marked == ReplaceRecallWithMarker(turn.resp)
           t      == [turn EXCEPT !.depth = @ + 1,
                                  !.offset = MarkerIndex(turn) + 1,
                                  !.shown = IF Live(turn) THEN Append(@, Shown(MarkerIndex(turn), Text(<<Marker(b.query)>>))) ELSE @]
       IN  /\ store' = (b.query :> b.id) @@ store
           /\ turn' = IF Live(turn) /\ turn.gone THEN [turn EXCEPT !.phase = "failed"]
                      ELSE IF ~HasOtherTools(turn) THEN [t EXCEPT !.phase = "followUp"]
                      ELSE IF Live(turn) THEN Record(t, marked)
                      ELSE Record(Show(t, marked), marked)
    /\ UNCHANGED <<conv, req, count>>

FollowUpAnswered ==
    /\ turn.phase = "followUp"
    /\ req' = BuildRecallFollowUp(req, turn.resp, RecallBlock(turn))
    /\ turn' = [turn EXCEPT !.phase = "reply", !.kept = turn.resp, !.resp = <<>>, !.blocks = 0, !.suppressed = 0]
    /\ UNCHANGED <<conv, store, count>>

\* The provider refuses the follow-up: the reply ends with the marker.
FollowUpRefused ==
    /\ turn.phase = "followUp"
    /\ LET marked == ReplaceRecallWithMarker(turn.resp)
       IN  turn' = IF Live(turn) THEN Record(turn, marked) ELSE Record(Show(turn, marked), marked)
    /\ UNCHANGED <<conv, store, req, count>>

\* The provider cannot be reached: the same for a stream, an error for a plain request.
FollowUpUnsent ==
    /\ turn.phase = "followUp"
    /\ turn' = IF Live(turn) THEN Record(turn, ReplaceRecallWithMarker(turn.resp)) ELSE [turn EXCEPT !.phase = "failed"]
    /\ UNCHANGED <<conv, store, req, count>>

-----------------------------------------------------------------------------
(* The client *)

Blocks(shown) == [i \in DOMAIN shown |-> shown[i].block]

\* The client adds what it was shown to its conversation, if it got the whole reply.
ClientKeeps ==
    /\ turn.phase \in {"closed", "failed"}
    /\ conv' = IF turn.phase = "failed" \/ turn.gone \/ turn.shown = <<>> THEN conv
               ELSE conv \o EchoedBy(Client, turn.stream, Blocks(turn.shown))
    /\ turn' = NoTurn
    /\ UNCHANGED <<store, req, count>>

\* The client compacts its conversation: it goes on from a summary.
ClientCompacts ==
    /\ turn.phase = "idle" /\ conv # <<>> /\ Last(conv).role = "assistant" /\ Unanswered(conv) = <<>>
    /\ conv' = <<Message("user", <<Text(<<Said(count.made + 1)>>)>>)>>
    /\ count' = [count EXCEPT !.made = @ + 1]
    /\ UNCHANGED <<store, req, turn>>

TurnNext ==
    \/ \E r \in RequestKinds : TurnBegins(r)
    \/ BlockArrives
    \/ StreamEnds
    \/ StreamBreaks
    \/ ClientHangsUp
    \/ ReplyComplete
    \/ TurnRefused
    \/ RecallExecuted
    \/ FollowUpAnswered
    \/ FollowUpRefused
    \/ FollowUpUnsent
    \/ ClientKeeps
    \/ ClientCompacts

TurnSpec == TurnInit /\ [][TurnNext]_turnVars

\* The gateway's work on a request, one step after the other.
Progress ==
    \/ BlockArrives \/ StreamEnds \/ ReplyComplete \/ RecallExecuted
    \/ FollowUpAnswered \/ FollowUpRefused \/ FollowUpUnsent
    \/ ClientKeeps

\* The provider goes on with every reply it starts and answers or refuses a
\* follow-up, and the gateway takes its steps.
FairTurnSpec == TurnSpec /\ WF_turnVars(Progress)

-----------------------------------------------------------------------------
(* Properties *)

TurnTypeOK ==
    /\ DOMAIN store \subseteq Queries /\ \A q \in DOMAIN store : store[q] \in 1..count.made
    /\ turn.phase \in {"idle", "reply", "recall", "followUp", "closed", "failed"}
    /\ turn.depth \in 0..MAX_RECALL_DEPTH /\ turn.suppressed + turn.blocks <= Len(turn.resp)
    /\ count.turns \in 0..MaxTurns

\* In every request, first or follow-up, and in the format of every provider,
\* each tool call is answered right behind it and nothing else is.
CallsAnswered ==
    /\ AnsweredAtOnce(AnthropicLines(req))
    /\ AnsweredAtOnce(ChatLines(req))
    /\ AnsweredLater(ResponsesLines(req))

\* What the user and the model said, and the calls the client saw, reach the
\* provider again, whatever markers and warnings the client's copy holds.
NothingLost ==
    turn.phase # "idle" /\ ~turn.evicted => WordsOf(conv) \subseteq WordsOf(req) /\ CallsOf(conv) \subseteq CallsOf(req)

\* The blocks a client is shown over a reply and its continuations are
\* numbered one after the other.  The number of a due warning that found no
\* place stays free.
Contiguous ==
    \/ turn.warn /\ Live(turn) /\ ~turn.warned
    \/ \A i \in DOMAIN turn.shown : turn.shown[i].index = i - 1

\* Every request is brought to an end, however often the model recalls.
TurnEnds == turn.phase # "idle" ~> turn.phase = "idle"

=============================================================================
