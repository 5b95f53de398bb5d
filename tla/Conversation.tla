---------------------------- MODULE Conversation ----------------------------
(***************************************************************************)
(* What the gateway does to the messages of a conversation, from the       *)
(* request a client sends to the request the provider gets: recall markers *)
(* become tool calls again (recall.ts), context warnings are taken out,    *)
(* tool results move onto the assistant message and back                   *)
(* (temporal-adapter.ts, loreMessagesToGateway), and the wire formats of   *)
(* clients and providers (translate/, stream/).                            *)
(*                                                                         *)
(* A text is a sequence of pieces: words of the user or the model, a       *)
(* recall marker, the context warning, or the gateway's own filling.       *)
(* A tool call is a recall when it has a query.                            *)
(***************************************************************************)
EXTENDS Integers, SequencesExt

CONSTANTS
    Queries   \* what a recall may ask for: query and scope, or an id

NoQuery == "none"
ASSUME QueriesAssumption == Queries \cap {NoQuery, "text", "thinking", "call"} = {}

-----------------------------------------------------------------------------
(* Blocks *)

Said(n)     == <<"said", n>>
Marker(q)   == <<"marker", q>>
Warning     == <<"warning", 0>>
Filling     == <<"filling", 0>>

Block(type, pieces, id, query) == [type |-> type, text |-> pieces, id |-> id, query |-> query]

Text(pieces) == Block("text", pieces, 0, NoQuery)
Thinking     == Block("thinking", <<>>, 0, NoQuery)
Use(id, q)   == Block("tool_use", <<>>, id, q)
Result(id)   == Block("tool_result", <<>>, id, NoQuery)

Message(role, content) == [role |-> role, content |-> content]

OfType(content, type) == SelectSeq(content, LAMBDA b : b.type = type)
IsRecall(b) == b.type = "tool_use" /\ b.query # NoQuery
Ids(content, type) == {b.id : b \in ToSet(OfType(content, type))}

WordsOf(msgs) == UNION {UNION {{p \in ToSet(b.text) : p[1] = "said"} : b \in ToSet(m.content)} : m \in ToSet(msgs)}
CallsOf(msgs) == UNION {Ids(m.content, "tool_use") : m \in ToSet(msgs)}

-----------------------------------------------------------------------------
(* Recall markers.  The regular expression is not anchored: it finds the   *)
(* first marker anywhere in a text.                                        *)

ParseMarker(b) ==
    LET i == SelectInSeq(b.text, LAMBDA p : p[1] = "marker")
    IN  IF b.type = "text" /\ i > 0 THEN b.text[i][2] ELSE NoQuery

FirstMarker(content) == SelectInSeq(content, LAMBDA b : ParseMarker(b) # NoQuery)

ReplaceRecallWithMarker(content) ==
    [i \in DOMAIN content |-> IF IsRecall(content[i]) THEN Text(<<Marker(content[i].query)>>) ELSE content[i]]

\* expandRecallMarkers, one message: a text after the marker is a continuation
\* and moves to a message of its own behind the result, tool calls stay.  A
\* result still owed goes in front of the next user message.
Owed(acc, m) ==
    IF acc.owed = <<>> THEN [out |-> acc.out, m |-> m]
    ELSE IF m.role = "user" THEN [out |-> acc.out, m |-> Message("user", acc.owed \o m.content)]
    ELSE [out |-> Append(acc.out, Message("user", acc.owed)), m |-> m]

\* A bug: what follows the marker is left out.
Bug_ExpandMessage(acc, m0, store) ==
    LET o == Owed(acc, m0)
        j == FirstMarker(o.m.content)
        q == ParseMarker(o.m.content[j])
    IN  IF o.m.role # "assistant" \/ j = 0 \/ q \notin DOMAIN store
        THEN [out |-> Append(o.out, o.m), owed |-> <<>>]
        ELSE [out |-> Append(o.out, Message("assistant", SubSeq(o.m.content, 1, j - 1) \o <<Use(store[q], q)>>)),
              owed |-> <<Result(store[q])>>]

ExpandMessage(acc, m0, store) ==
    LET o     == Owed(acc, m0)
        m     == o.m
        j     == FirstMarker(m.content)
        q     == ParseMarker(m.content[j])
        after == SubSeq(m.content, j + 1, Len(m.content))
        call  == SubSeq(m.content, 1, j - 1) \o <<Use(store[q], q)>>
    IN  IF m.role # "assistant" \/ j = 0 \/ q \notin DOMAIN store
        THEN [out |-> Append(o.out, m), owed |-> <<>>]
        ELSE IF \E b \in ToSet(after) : b.type # "tool_use"
        THEN [out |-> o.out \o <<Message("assistant", call), Message("user", <<Result(store[q])>>), Message("assistant", after)>>,
              owed |-> <<>>]
        ELSE [out |-> Append(o.out, Message("assistant", call \o after)), owed |-> <<Result(store[q])>>]

ExpandRecallMarkers(msgs, store) ==
    LET acc == FoldLeft(LAMBDA a, m : ExpandMessage(a, m, store), [out |-> <<>>, owed |-> <<>>], msgs)
    IN  IF acc.owed = <<>> THEN acc.out ELSE Append(acc.out, Message("user", acc.owed))

ActiveQueries(msgs) ==
    {ParseMarker(b) : b \in UNION {ToSet(m.content) : m \in {x \in ToSet(msgs) : x.role = "assistant"}}} \ {NoQuery}

CleanupRecallStore(msgs, store) == [q \in DOMAIN store \cap ActiveQueries(msgs) |-> store[q]]

\* buildRecallFollowUp: the reply so far is only its thoughts and the marker.
\* A bug: the call itself stays in the message, beside its marker.
Bug_BuildRecallFollowUp(msgs, content, block) ==
    msgs \o <<Message("assistant", content \o <<Text(<<Marker(block.query)>>)>>), Message("user", <<Text(<<Filling>>)>>)>>

BuildRecallFollowUp(msgs, content, block) ==
    LET prefix == SelectSeq(content, LAMBDA b : b.type \notin {"text", "tool_use", "tool_result"})
    IN  msgs \o <<Message("assistant", Append(prefix, Text(<<Marker(block.query)>>))),
                  Message("user", <<Text(<<Filling>>)>>)>>

-----------------------------------------------------------------------------
(* Context warnings *)

FirstAnswer(content) == SelectInSeq(content, LAMBDA b : b.type # "thinking")

InjectContextWarning(content) ==
    LET i == FirstAnswer(content)
    IN  InsertAt(content, IF i = 0 THEN Len(content) + 1 ELSE i, Text(<<Warning>>))

StripContextWarning(content) ==
    LET i == FirstAnswer(content)
    IN  IF i > 0 /\ content[i].text # <<>> /\ Head(content[i].text) = Warning THEN RemoveAt(content, i) ELSE content

StripContextWarnings(msgs) ==
    [i \in DOMAIN msgs |-> IF msgs[i].role = "assistant"
                           THEN Message("assistant", StripContextWarning(msgs[i].content)) ELSE msgs[i]]

-----------------------------------------------------------------------------
(* Tool results: onto the assistant message, and back to the user message  *)
(* after it.                                                               *)

ResolveUserMessage(content) ==
    LET kept == SelectSeq(content, LAMBDA b : b.type # "tool_result")
    IN  IF kept = <<>> /\ content # <<>> THEN <<Text(<<Filling>>)>> ELSE kept

\* resolveToolResults: results leave the user messages.
ResolveToolResults(msgs) ==
    [i \in DOMAIN msgs |-> IF msgs[i].role = "user" THEN Message("user", ResolveUserMessage(msgs[i].content)) ELSE msgs[i]]

\* loreMessagesToGateway: every call is completed or, after sanitizeToolParts,
\* failed, and its result is put in front of the next user message.  Another
\* assistant message in between drops it.
BackToGateway(acc, m) ==
    IF m.role = "user" THEN [out |-> Append(acc.out, Message("user", acc.pending \o m.content)), pending |-> <<>>]
    ELSE LET calls == OfType(m.content, "tool_use")
         IN  [out |-> Append(acc.out, m), pending |-> [i \in DOMAIN calls |-> Result(calls[i].id)]]

LoreMessagesToGateway(msgs) == FoldLeft(BackToGateway, [out |-> <<>>, pending |-> <<>>], msgs).out

At(msgs, i, role) == IF i \in DOMAIN msgs /\ msgs[i].role = role THEN msgs[i].content ELSE <<>>
OrFilling(content) == IF content = <<>> THEN <<Text(<<Filling>>)>> ELSE content

\* removeOrphanedToolResults: first the results, then the calls.
RemoveOrphanedToolResults(msgs) ==
    LET results == [i \in DOMAIN msgs |->
            IF msgs[i].role = "user" /\ Ids(msgs[i].content, "tool_result") # {}
            THEN Message("user", OrFilling(SelectSeq(msgs[i].content, LAMBDA b :
                     b.type = "tool_result" => b.id \in Ids(At(msgs, i - 1, "assistant"), "tool_use"))))
            ELSE msgs[i]]
    IN  [i \in DOMAIN results |->
            IF results[i].role = "assistant" /\ Ids(results[i].content, "tool_use") # {}
            THEN Message("assistant", OrFilling(SelectSeq(results[i].content, LAMBDA b :
                     b.type = "tool_use" => b.id \in Ids(At(results, i + 1, "user"), "tool_result"))))
            ELSE results[i]]

-----------------------------------------------------------------------------
(* Clients.  What a client puts back into the conversation of the blocks   *)
(* it was shown: the Anthropic format keeps them, Chat Completions has one *)
(* text and a list of calls, the Responses format has one item per block.  *)

AllText(content) == FlattenSeq([i \in DOMAIN OfType(content, "text") |-> OfType(content, "text")[i].text])
OneText(content) == IF AllText(content) = <<>> THEN <<>> ELSE <<Text(AllText(content))>>

\* A chat completion, streamed or not; and the message it becomes in the next request.
ChatReply(content) == [text |-> OneText(content), calls |-> OfType(content, "tool_use")]
ParseAssistantContent(reply) == Message("assistant", reply.text \o reply.calls)

\* A response of the Responses API: a stream has an item for each block, a
\* plain one a message for all texts.  Each item becomes a message of its own.
StreamedItems(content) == SelectSeq(content, LAMBDA b : b.type # "thinking")
OutputItems(content) == OneText(content) \o OfType(content, "tool_use")
ParseInputItems(items) == [i \in DOMAIN items |-> Message("assistant", <<items[i]>>)]

EchoedBy(client, streamed, content) ==
    CASE client = "anthropic" -> <<Message("assistant", content)>>
      [] client = "openai"    -> <<ParseAssistantContent(ChatReply(content))>>
      [] client = "responses" -> ParseInputItems(IF streamed THEN StreamedItems(content) ELSE OutputItems(content))

\* The client answers the calls it was shown, in one message or one each.
Unanswered(msgs) ==
    LET lastUser == SelectLastInSeq(msgs, LAMBDA m : m.role = "user")
        calls(i) == OfType(msgs[i].content, "tool_use")
    IN  FlattenSeq([i \in 1..(Len(msgs) - lastUser) |-> calls(lastUser + i)])

AnswersOf(client, calls) ==
    IF client = "anthropic" THEN <<Message("user", [i \in DOMAIN calls |-> Result(calls[i].id)])>>
    ELSE [i \in DOMAIN calls |-> Message("user", <<Result(calls[i].id)>>)]

-----------------------------------------------------------------------------
(* Providers.  The request in the format of each of them: only who calls   *)
(* and who answers what is kept.                                           *)

Line(role, calls, answers) == [role |-> role, calls |-> calls, answers |-> answers]

\* buildAnthropicRequest
AnthropicLines(msgs) ==
    [i \in DOMAIN msgs |-> Line(msgs[i].role, Ids(msgs[i].content, "tool_use"), Ids(msgs[i].content, "tool_result"))]

\* buildOpenAIMessages: every result is a message in front of the rest.
ChatLines(msgs) ==
    LET lines(m) ==
            [i \in DOMAIN OfType(m.content, "tool_result") |-> Line("tool", {}, {OfType(m.content, "tool_result")[i].id})]
            \o (IF OfType(m.content, "text") \o OfType(m.content, "tool_use") = <<>> THEN <<>>
                ELSE <<Line(m.role, Ids(m.content, "tool_use"), {})>>)
    IN  FlattenSeq([i \in DOMAIN msgs |-> lines(msgs[i])])

\* buildResponsesInput
ResponsesLines(msgs) ==
    LET lines(m) == [i \in DOMAIN SelectSeq(m.content, LAMBDA b : b.type # "thinking") |->
            LET b == SelectSeq(m.content, LAMBDA x : x.type # "thinking")[i]
            IN  Line(m.role, Ids(<<b>>, "tool_use"), Ids(<<b>>, "tool_result"))]
    IN  FlattenSeq([i \in DOMAIN msgs |-> lines(msgs[i])])

\* Every call is answered by the lines right behind it, before anybody else
\* speaks, and nothing else is answered.
AnsweredAtOnce(lines) ==
    LET next(i) == SelectInSubSeq(lines, i + 1, Len(lines), LAMBDA l : l.answers = {})
        upTo(i) == IF next(i) = 0 THEN Len(lines) ELSE next(i) - 1
    IN  /\ \A i \in DOMAIN lines : lines[i].calls # {} =>
               lines[i].calls = UNION {lines[j].answers : j \in (i + 1)..upTo(i)}
        /\ \A i \in DOMAIN lines : lines[i].answers # {} =>
               i > 1 /\ (lines[i - 1].calls # {} \/ lines[i - 1].answers # {})

\* The same, when calls and answers are items of their own.
AnsweredLater(lines) ==
    /\ \A i \in DOMAIN lines : \A c \in lines[i].calls : \E j \in (i + 1)..Len(lines) : c \in lines[j].answers
    /\ \A i \in DOMAIN lines : \A c \in lines[i].answers : \E j \in 1..(i - 1) : c \in lines[j].calls
=============================================================================
