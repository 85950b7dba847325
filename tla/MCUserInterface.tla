-------------------------- MODULE MCUserInterface --------------------------
(* A small instance of UserInterface for TLC. *)
EXTENDS UserInterface, TLC

CONSTANTS l1, l2, v1, s1, s2, matches, k1, p1, a, braces, plain, json

\* The calls of load are alike.
MCCalls == Permutations({l1, l2})

\* A type with two fields: one has a default, and the other is required.
MCTypes == {"concat"}
MCDefaults == [concat |-> [f \in Fields |-> IF f = plain THEN a ELSE Empty]]
=============================================================================
