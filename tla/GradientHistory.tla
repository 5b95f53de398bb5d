-------------------------- MODULE GradientHistory --------------------------
(***************************************************************************)
(* Gradient with two history variables: the conversation a session's last  *)
(* answer was given in, when no later request had been transformed by then, *)
(* and the conversation its raw window was pinned in.                      *)
(***************************************************************************)
EXTENDS Gradient

VARIABLES answered, trail

historyVars == <<vars, answered, trail>>

HistoryInit ==
    /\ Init
    /\ answered = [s \in Sessions |-> <<>>]
    /\ trail = [s \in Sessions |-> [conv |-> <<>>, straight |-> TRUE, last |-> <<>>]]

Extends(c, d) == Len(c) >= Len(d) /\ \A i \in 1 .. Len(d) : c[i] = d[i]

Transforming(r) == req[r].pc = "ltm" /\ Sent(r)'
Answering(r) ==
    LET s == req[r].s
    IN  req[r].pc = "waiting" /\ req'[r].pc = "idle" /\ s \in dirty'
        /\ <<ses'[s].known, ses'[s].count>> # <<ses[s].known, ses[s].count>>
\* The pin in force was made in a conversation this request only adds to.
Straight(s, c) ==
    \/ ses[s].pin = NoPin
    \/ trail[s].straight /\ Extends(c, trail[s].conv)

HistoryNext ==
    /\ Next
    /\ answered' = [s \in Sessions |->
          LET mine == {r \in Requests : req[r].s = s /\ Answering(r)}
          IN  IF mine = {} THEN answered[s]
              ELSE LET c == req[CHOOSE r \in mine : TRUE].conv
                   IN  IF c = trail[s].last THEN c ELSE <<>>]
    /\ trail' = [s \in Sessions |->
          LET mine == {r \in Requests : req[r].s = s /\ Transforming(r)}
          IN  IF mine = {} THEN trail[s]
              ELSE LET c == req[CHOOSE r \in mine : TRUE].conv
                   IN  [conv |-> IF ses'[s].pin = ses[s].pin THEN trail[s].conv ELSE c,
                        straight |-> Straight(s, c), last |-> c]]

HistorySpec == HistoryInit /\ [][HistoryNext]_historyVars

\* In a conversation that only grows the turn in progress is never evicted and
\* none of its outputs is rewritten, whichever window it is given (tryFit,
\* tryFitStable, the emergency tail): the model would call its tools again.
GrowingTurnIntact ==
    [][\A r \in Requests :
          Transforming(r) /\ trail'[req[r].s].straight => TurnIntact(r)']_historyVars

\* A conversation that went on with the answer and a message is not sent at a lower layer
\* than the one before: no bouncing between layers (the sticky-layer guard).
NoBounce ==
    [][\A r \in Requests :
          LET s == req[r].s
          IN  /\ Transforming(r) /\ ses[s].known > 0 /\ ses[s].layer \in 1 .. 3
              /\ answered[s] # <<>> /\ Len(req[r].conv) > Len(answered[s]) + 1
              /\ Extends(req[r].conv, answered[s])
              => ses'[s].layer >= ses[s].layer]_historyVars
=============================================================================
