---------------------------- MODULE MCBatchQueue ----------------------------
(* Constants for the model-checking runs of BatchQueue. *)
EXTENDS BatchQueue, TLC

CONSTANTS p1, p2, p3, s1, s2, g1, g2, b1, b2, b3, f1, f2, k1, k2

\* p1 and p2 share a credential across two sessions.
TwoSessions == [p \in Prompts |-> IF p = p1 THEN s1 ELSE s2]
OneGroup  == [p \in Prompts |-> g1]
TwoGroups == [p \in Prompts |-> IF p = p3 THEN g2 ELSE g1]
=============================================================================
