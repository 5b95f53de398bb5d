--------------------------- MODULE PromptService ---------------------------
(***************************************************************************)
(* What a background worker may rely on when it awaits LLMClient.prompt:   *)
(* one answer, a text or null, and never a hanging promise.  The calls in  *)
(* progress are lost only with the process that made them.                 *)
(***************************************************************************)
CONSTANT Prompts

VARIABLE promise  \* the promise of each call

Answers == {"text", "null"}
Waiting == {p \in Prompts : promise[p] = "pending"}

Init == promise = [p \in Prompts |-> "none"]

Ask(p) ==
    /\ promise[p] = "none"
    /\ promise' = [promise EXCEPT ![p] = "pending"]

\* A batch settles several calls at once.
Settle(S) ==
    /\ S # {}
    /\ S \subseteq Waiting
    /\ \E a \in [S -> Answers] :
           promise' = [p \in Prompts |-> IF p \in S THEN a[p] ELSE promise[p]]

Lose == promise' = [p \in Prompts |-> IF p \in Waiting THEN "none" ELSE promise[p]]

Next ==
    \/ \E p \in Prompts : Ask(p)
    \/ \E S \in SUBSET Prompts : Settle(S)
    \/ Lose

Safe == Init /\ [][Next]_promise

\* Every call is settled in the end.
Settles(p) == \E S \in SUBSET Prompts : p \in S /\ Settle(S)
Spec == Safe /\ \A p \in Prompts : WF_promise(Settles(p))
=============================================================================
