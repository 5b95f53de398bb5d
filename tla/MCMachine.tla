------------------------------ MODULE MCMachine ------------------------------
(* Constants for the model-checking run of Machine. *)
EXTENDS Machine, FiniteSets, TLC

CONSTANTS p1, p2, a, b, c, i1, i2, i3, r

\* Two releases. The last migrations they know add two columns, which two
\* processes may do by turns, and rewrite rows.
Releases == [p \in Procs |-> IF p = p1 THEN 22 ELSE 21]

\* What recoverMissingObjects adds is missing until the first start.
HolesFound == {Recovered}

\* Directories of one repository.
RemotesOf == [q \in Paths |-> r]

IdSymmetry == Permutations(Ids)

\* Two questions at once would multiply the states: a database has migrations to
\* run by two processes, or two projects to begin with, of which one has an alias.
MCInit ==
    /\ Init
    /\ \/ made = {} /\ version = 20 /\ ~alone
       \/ /\ Cardinality(made) = 2 /\ version = 26 /\ At(a) # {} /\ alias[c] # NoId
          /\ \A x \in rows : x.kind = "knowledge"
MCSpec == MCInit /\ [][Next]_vars
=============================================================================
