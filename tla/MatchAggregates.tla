--------------------------- MODULE MatchAggregates ---------------------------
(***************************************************************************)
(* The match_aggregates collection: every match with all there is about    *)
(* it, read from five collections and written over what was there.         *)
(*                                                                         *)
(* A request is one POST /api/aggregate/rebuild, of one match or of all.   *)
(* It suspends at every read and at its write, while ingestion and the     *)
(* pipelines go on writing the collections it reads, and other rebuilds    *)
(* the one it writes.  The documents of a match in a collection are a      *)
(* version that counts their changes; none are ever deleted.               *)
(***************************************************************************)
EXTENDS Naturals, FiniteSets

CONSTANTS
  Requests,    \* rebuilds
  Matches,     \* match_ids
  Players,     \* player_ids
  RefersTo,    \* the players that a version of a match's stats or events mentions
  MaxVersion,  \* bound: changes of the documents of a match, or of a player
  MaxChanges,  \* bound: the documents that change
  All,         \* no match_id
  None         \* no aggregate

Parts == {"matches", "team_stats", "player_stats", "events"}
Versions == 0..MaxVersion
Aggregates == [parts : [Parts -> Versions], players : [Players -> Versions], valid : BOOLEAN]

ASSUME AggregateAssumption ==
  /\ MaxVersion \in Nat /\ MaxChanges \in Nat
  /\ RefersTo \in [{"player_stats", "events"} \X Versions -> SUBSET Players]
  /\ All \notin Matches /\ None \notin Aggregates

VARIABLES
  unified,     \* matches, team_stats, player_stats and events, by match
  players,     \* the players collection
  foreign,     \* matches whose document has fields that Match forbids
  aggregates,  \* match_aggregates
  pc,          \* the await the request is suspended at
  scope,       \* its match_id, or All
  listed,      \* matches its cursor has returned
  current,     \* the match that build_one assembles
  draft,       \* what it has read of it
  ops,         \* the aggregates to write
  began,       \* history: the collections when the request began
  met          \* history: the rebuilds that it has overlapped, and itself

collections == <<unified, players, foreign>>
build == <<current, draft>>
history == <<began, met>>
vars == <<collections, aggregates, pc, scope, listed, build, ops, history>>

Reading == Parts \cup {"players"}
Active(r) == pc[r] \in Reading \cup {"listing", "writing"}

Empty == [parts |-> [part \in Parts |-> 0], players |-> [p \in Players |-> 0], valid |-> TRUE]
Present(m) == unified["matches"][m] > 0

Init ==
  /\ unified = [part \in Parts |-> [m \in Matches |-> 0]]
  /\ players = [p \in Players |-> 0]
  /\ foreign = {}
  /\ aggregates = [m \in Matches |-> None]
  /\ pc = [r \in Requests |-> "idle"]
  /\ scope = [r \in Requests |-> All]
  /\ listed = [r \in Requests |-> {}]
  /\ current = [r \in Requests |-> All]
  /\ draft = [r \in Requests |-> Empty]
  /\ ops = [r \in Requests |-> [m \in Matches |-> None]]
  /\ began = [r \in Requests |-> [unified |-> unified, players |-> players]]
  /\ met = [r \in Requests |-> {}]

Goto(r, label) == pc' = [pc EXCEPT ![r] = label]

-----------------------------------------------------------------------------
(* The writers of the collections. *)

ChangesLeft ==
  Cardinality({d \in Parts \X Matches : unified[d[1]][d[2]] > 0})
    + Cardinality({p \in Players : players[p] > 0}) < MaxChanges

\* Ingestion adds or changes documents of a match.
Upsert(part, m) ==
  /\ unified[part][m] < MaxVersion /\ ChangesLeft
  /\ unified' = [unified EXCEPT ![part][m] = @ + 1]
  /\ UNCHANGED <<players, foreign, aggregates, pc, scope, listed, build, ops, history>>

\* No mapper yields players: a pipeline writes them.
UpsertPlayer(p) ==
  /\ players[p] < MaxVersion /\ ChangesLeft
  /\ players' = [players EXCEPT ![p] = @ + 1]
  /\ UNCHANGED <<unified, foreign, aggregates, pc, scope, listed, build, ops, history>>

\* A pipeline writes a match: every field of the raw record that no step removed
\* comes along, and no later upsert takes it away.
Commit(m) ==
  /\ unified["matches"][m] < MaxVersion /\ ChangesLeft
  /\ unified' = [unified EXCEPT !["matches"][m] = @ + 1]
  /\ foreign' = foreign \cup {m}
  /\ UNCHANGED <<players, aggregates, pc, scope, listed, build, ops, history>>

-----------------------------------------------------------------------------
(* A rebuild, from one await to the next. *)

Assemble(r, m) ==
  /\ current' = [current EXCEPT ![r] = m]
  /\ draft' = [draft EXCEPT ![r] = Empty]
  /\ Goto(r, "matches")

Rebuild(r, s) ==
  /\ pc[r] = "idle"
  /\ scope' = [scope EXCEPT ![r] = s]
  /\ IF s = All THEN Goto(r, "listing") /\ UNCHANGED build ELSE Assemble(r, s)
  /\ began' = [began EXCEPT ![r] = [unified |-> unified, players |-> players]]
  /\ met' = [q \in Requests |-> IF q = r THEN {r} \cup {o \in Requests : Active(o)}
                                ELSE IF Active(q) THEN met[q] \cup {r} ELSE met[q]]
  /\ UNCHANGED <<collections, aggregates, listed, ops>>

\* The cursor returns a match it has not returned; whether it returns one that
\* came after it was opened is open.
List(r, m) ==
  /\ pc[r] = "listing" /\ m \notin listed[r] /\ Present(m)
  /\ listed' = [listed EXCEPT ![r] = @ \cup {m}]
  /\ Assemble(r, m)
  /\ UNCHANGED <<collections, aggregates, scope, ops, history>>

\* Mutant: the loop ends with its first match.
ListEndsEarly(r) ==
  /\ pc[r] = "listing"
  /\ listed[r] # {}
  /\ Goto(r, IF \A m \in Matches : ops[r][m] = None THEN "answered" ELSE "writing")
  /\ UNCHANGED <<collections, aggregates, scope, listed, build, ops, history>>

\* Every match that was there at the beginning has been returned.
ListEnds(r) ==
  /\ pc[r] = "listing"
  /\ \A m \in Matches : began[r].unified["matches"][m] > 0 => m \in listed[r]
  /\ Goto(r, IF \A m \in Matches : ops[r][m] = None THEN "answered" ELSE "writing")
  /\ UNCHANGED <<collections, aggregates, scope, listed, build, ops, history>>

After == [matches |-> "team_stats", team_stats |-> "player_stats",
          player_stats |-> "events", events |-> "players"]

\* build_one reads a collection; without the match it has nothing to do.  Only the
\* match is told valid or not: the other models forbid extra fields too, and what one of
\* them raises is a case of Fails.
ReadPart(r) ==
  LET part == pc[r]
      m == current[r]
  IN
  /\ part \in Parts
  /\ draft' = [draft EXCEPT ![r].parts[part] = unified[part][m],
                            ![r].valid = IF part = "matches" THEN m \notin foreign ELSE @]
  /\ Goto(r, IF part = "matches" /\ ~Present(m)
             THEN IF scope[r] = All THEN "listing" ELSE "answered"
             ELSE After[part])
  /\ UNCHANGED <<collections, aggregates, scope, listed, current, ops, history>>

Mentioned(parts) ==
  RefersTo[<<"player_stats", parts["player_stats"]>>] \cup RefersTo[<<"events", parts["events"]>>]

\* The players that the stats and events mention.  The match is validated last.
ReadPlayers(r) ==
  LET found == [p \in Players |->
                  IF p \in Mentioned(draft[r].parts) THEN players[p] ELSE 0]
      built == [draft[r] EXCEPT !.players = found]
  IN
  /\ pc[r] = "players"
  /\ draft' = [draft EXCEPT ![r] = Empty]
  /\ IF built.valid
     THEN /\ ops' = [ops EXCEPT ![r][current[r]] = built]
          /\ Goto(r, IF scope[r] = All THEN "listing" ELSE "writing")
     ELSE Goto(r, "invalid") /\ UNCHANGED ops
  /\ UNCHANGED <<collections, aggregates, scope, listed, current, history>>

\* Mutant: the answer does not wait for all of the bulk.
WriteSome(r, m) ==
  /\ pc[r] = "writing" /\ ops[r][m] # None
  /\ aggregates' = [aggregates EXCEPT ![m] = ops[r][m]]
  /\ ops' = [ops EXCEPT ![r][m] = None]
  /\ Goto(r, "answered")
  /\ UNCHANGED <<collections, scope, listed, build, history>>

\* The bulk write is unordered, and atomic for one document only.
Write(r, m) ==
  /\ pc[r] = "writing" /\ ops[r][m] # None
  /\ aggregates' = [aggregates EXCEPT ![m] = ops[r][m]]
  /\ ops' = [ops EXCEPT ![r][m] = None]
  /\ Goto(r, IF \A n \in Matches \ {m} : ops[r][n] = None THEN "answered" ELSE "writing")
  /\ UNCHANGED <<collections, scope, listed, build, history>>

\* Mongo refuses a call, a part does not validate, or the process dies: what the request
\* has gathered is lost.
Fails(r) ==
  /\ Active(r)
  /\ Goto(r, "raised")
  /\ draft' = [draft EXCEPT ![r] = Empty]
  /\ ops' = [ops EXCEPT ![r] = [m \in Matches |-> None]]
  /\ UNCHANGED <<collections, aggregates, scope, listed, current, history>>

Next ==
  \/ \E m \in Matches : (\E part \in Parts : Upsert(part, m)) \/ Commit(m)
  \/ \E p \in Players : UpsertPlayer(p)
  \/ \E r \in Requests :
       \/ \E s \in Matches \cup {All} : Rebuild(r, s)
       \/ \E m \in Matches : List(r, m) \/ Write(r, m)
       \/ ListEnds(r) \/ ReadPart(r) \/ ReadPlayers(r) \/ Fails(r)

Spec == Init /\ [][Next]_vars

-----------------------------------------------------------------------------
(* Properties. *)

\* Every variable holds a value of its kind; no aggregate that is written, or about
\* to be, is of a match that failed validation; an answer leaves nothing to write.
TypeOK ==
  /\ unified \in [Parts -> [Matches -> Versions]]
  /\ players \in [Players -> Versions]
  /\ foreign \subseteq Matches
  /\ aggregates \in [Matches -> Aggregates \cup {None}]
  /\ pc \in [Requests -> Reading \cup {"idle", "listing", "writing", "answered", "invalid",
                                       "raised"}]
  /\ scope \in [Requests -> Matches \cup {All}]
  /\ listed \in [Requests -> SUBSET Matches]
  /\ current \in [Requests -> Matches \cup {All}]
  /\ draft \in [Requests -> Aggregates]
  /\ ops \in [Requests -> [Matches -> Aggregates \cup {None}]]
  /\ \A r \in Requests, m \in Matches :
       /\ ops[r][m] # None => ops[r][m].valid
       /\ pc[r] = "answered" => ops[r][m] = None

\* An aggregate has all that was there at a request's beginning: every part, and
\* every player that its stats and events mention.
UpToDate(r, m) ==
  /\ aggregates[m] # None
  /\ \A part \in Parts : aggregates[m].parts[part] >= began[r].unified[part][m]
  /\ \A p \in Mentioned(aggregates[m].parts) : aggregates[m].players[p] >= began[r].players[p]

Covered(r) ==
  {m \in Matches : scope[r] \in {m, All} /\ began[r].unified["matches"][m] > 0}

\* "Run a rebuild after ingestion" (README): a rebuild that answers leaves the aggregates
\* of its matches no older than itself, whatever is ingested while it reads, or than
\* some rebuild that overlapped it, which may be the last to write.
RebuildIsFresh ==
  \A r \in Requests : pc[r] = "answered" =>
     \A m \in Covered(r) : \E q \in met[r] : UpToDate(q, m)
=============================================================================
