---------------------------- MODULE MCAggregates ----------------------------
(* Small instances of MatchAggregates for TLC. *)
EXTENDS MatchAggregates, TLC

CONSTANTS r1, r2, m1, m2, p1

\* The first version of the events mentions the player, the stats never do.
MCRefersTo == [x \in {"player_stats", "events"} \X (0..MaxVersion) |->
                 IF x[1] = "events" /\ x[2] > 0 THEN Players ELSE {}]
MCSymmetry == Permutations(Requests) \cup Permutations(Matches)
=============================================================================
