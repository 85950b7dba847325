---------------------------- MODULE MCIngestion ----------------------------
(* Small instances of Ingestion for TLC. *)
EXTENDS Ingestion, TLC

CONSTANTS k1, k2, matches, team_stats, events, p1, p2, odd, bad

\* k1 is a match row (understat yields a match and its team stats), k2 an event.
MCEntityOf == (k1 :> "matches") @@ (k2 :> "events")
MCTargets == [matches |-> <<matches, team_stats>>, events |-> <<events>>]

\* One entity, one collection.
MCEntityOf1 == k1 :> "matches"
MCTargets1 == [matches |-> <<matches>>]
=============================================================================
