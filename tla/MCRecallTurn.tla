---------------------------- MODULE MCRecallTurn ----------------------------
(* Constants for the model-checking runs of RecallTurn. *)
EXTENDS RecallTurn

\* Blocks of a reply: "text", "thinking", a call of a tool, a recall (its query).
MCReplies == {<<"text">>, <<"thinking", "lock">>, <<"text", "port">>, <<"lock", "call">>, <<"call", "call">>}

\* Anthropic streams, with a warning and without; a stream of Chat Completions;
\* plain replies of the other two, one with a warning.
MCRequestKinds ==
    {[stream |-> TRUE, provider |-> "anthropic", warn |-> w] : w \in BOOLEAN}
    \cup {[stream |-> TRUE, provider |-> "openai", warn |-> FALSE],
          [stream |-> FALSE, provider |-> "anthropic", warn |-> TRUE],
          [stream |-> FALSE, provider |-> "responses", warn |-> FALSE]}
=============================================================================
