------------------------------ MODULE MCPolite ------------------------------
(* Small instances of PoliteClient for TLC. *)
EXTENDS PoliteClient, TLC

CONSTANTS t1, t2, t3, c1, c2, u1

\* The calls of one client, or of the clients of two runs; all of them read the
\* same url.
MCOneClient == [t \in Tasks |-> c1]
MCTwoClients == [t \in Tasks |-> IF t = t1 THEN c1 ELSE c2]
MCSameUrl == [t \in Tasks |-> u1]

\* The calls of one client are alike.
TaskSymmetry == Permutations(Tasks)
=============================================================================
