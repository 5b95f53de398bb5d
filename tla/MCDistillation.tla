--------------------------- MODULE MCDistillation ---------------------------
(* Constants for the model-checking runs of Distillation. *)
EXTENDS Distillation, TLC

CONSTANTS s1, s2, m1, m2, m3, m4, m5, c1, c2

\* m1 alone is below MinSegmentTokens; any other message is a segment.
WeightOf == [m \in Messages |-> IF m = m1 THEN 1 ELSE 2]
AllHeavy == [m \in Messages |-> 2]

\* Messages of equal weight are interchangeable, and so are calls.
AllSymmetry == Permutations(Messages) \cup Permutations(CallIds)

\* A database in which three segments of s1 have been consolidated: it saves
\* the steps to a first consolidation when a second one is the question.
Consolidated(a, b, c) ==
    /\ stored = {a, b, c}
    /\ owner = [m \in Messages |-> s1]
    /\ at = [m \in Messages |-> CASE m = a -> 1 [] m = b -> 3 [] m = c -> 5 [] OTHER -> 0]
    /\ distilled = stored
    /\ rows = {[id |-> at[m] + 1, ses |-> s1, gen |-> 0, src |-> {m}, archived |-> TRUE] : m \in stored}
              \cup {[id |-> 7, ses |-> s1, gen |-> 1, src |-> stored, archived |-> FALSE]}
    /\ queue = [s \in Sessions |-> <<>>]
    /\ job = [c0 \in CallIds |-> NoJob]
    /\ clock = 8
    /\ stores = 2
    /\ edits = 0
    /\ gone = {}
    /\ up = TRUE

ChainInit == Init \/ \E a, b, c \in Messages : Cardinality({a, b, c}) = 3 /\ Consolidated(a, b, c)
ChainSpec == ChainInit /\ [][Next]_vars
=============================================================================
