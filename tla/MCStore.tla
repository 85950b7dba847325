------------------------------ MODULE MCStore ------------------------------
(* A small instance of Browse for TLC. *)
EXTENDS Browse, TLC

CONSTANTS id, name, syn, w1, w2

MCWriters == {w1, w2}
Either == Permutations(MCWriters)

\* Another number for another record.
MCPrinted ==
  [r \in Records |-> 10 + (IF id \in DOMAIN r THEN 3 * r[id] ELSE 0)
                        + (IF name \in DOMAIN r THEN r[name] ELSE 0)]

\* Records with a key, with another field, and with neither.
MCJobs ==
  LET first == id :> 1 @@ name :> 1
      second == id :> 2 @@ name :> 1
      unnamed == id :> 2
      nameless == name :> 2
  IN { [key |-> id, records |-> <<second, first>>],
       [key |-> name, records |-> <<first, unnamed>>],
       [key |-> NoKey, records |-> <<nameless, first>>] }
=============================================================================
