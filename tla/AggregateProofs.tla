--------------------------- MODULE AggregateProofs ---------------------------
(* Theorems about MatchAggregates, for every number of requests, matches,   *)
(* players and changes.                                                     *)
EXTENDS MatchAggregates, TLAPS

-----------------------------------------------------------------------------
(* Type correctness. *)

Snapshots == [unified : [Parts -> [Matches -> Versions]], players : [Players -> Versions]]

\* The history variables too, and who has nothing to write: a request that has not begun,
\* and one that assembles the only match it is asked for.
Types ==
  /\ TypeOK
  /\ began \in [Requests -> Snapshots]
  /\ met \in [Requests -> SUBSET Requests]
  /\ \A r \in Requests :
       /\ pc[r] = "idle" \/ (pc[r] \in Reading /\ scope[r] # All) =>
            \A m \in Matches : ops[r][m] = None
       /\ pc[r] = "idle" => listed[r] = {}
       /\ pc[r] \in Reading => current[r] \in Matches /\ scope[r] \in {All, current[r]}
       /\ pc[r] = "listing" => scope[r] = All

LEMMA ConstantType ==
  /\ 0 \in Versions /\ Empty \in Aggregates /\ MaxVersion \in Nat
  /\ All \notin Matches /\ None \notin Aggregates
  /\ \A parts \in [Parts -> Versions] : Mentioned(parts) \subseteq Players
<1>1. 0 \in Versions /\ MaxVersion \in Nat
  BY AggregateAssumption DEF Versions
<1>2. Empty \in Aggregates
  BY <1>1 DEF Empty, Aggregates
<1>3. ASSUME NEW parts \in [Parts -> Versions] PROVE Mentioned(parts) \subseteq Players
  <2>1. parts["player_stats"] \in Versions /\ parts["events"] \in Versions
    BY DEF Parts
  <2>2. QED
    BY <2>1, AggregateAssumption DEF Mentioned
<1>4. QED
  BY <1>1, <1>2, <1>3, AggregateAssumption

LEMMA InitTypes == Init => Types
<1> SUFFICES ASSUME Init PROVE Types
  OBVIOUS
<1>1. unified \in [Parts -> [Matches -> Versions]] /\ players \in [Players -> Versions]
  BY ConstantType DEF Init
<1>2. TypeOK
  BY <1>1, ConstantType DEF Init, TypeOK
<1>3. began \in [Requests -> Snapshots] /\ met \in [Requests -> SUBSET Requests]
  BY <1>1 DEF Init, Snapshots
<1>4. QED
  BY <1>2, <1>3 DEF Init, Types, Reading, Parts

\* The writers of the collections leave the requests alone.
Writes ==
  (\E m \in Matches : (\E part \in Parts : Upsert(part, m)) \/ Commit(m))
  \/ \E p \in Players : UpsertPlayer(p)

LEMMA WritesTypes == Types /\ Writes => Types'
<1> SUFFICES ASSUME Types, Writes PROVE Types'
  OBVIOUS
<1>1. UNCHANGED <<aggregates, pc, scope, listed, build, ops, history>>
  BY DEF Writes, Upsert, Commit, UpsertPlayer
<1>2. /\ unified' \in [Parts -> [Matches -> Versions]] /\ players' \in [Players -> Versions]
      /\ foreign' \subseteq Matches
  <2>1. ASSUME NEW v \in Versions, v < MaxVersion PROVE v + 1 \in Versions
    BY <2>1, ConstantType DEF Versions
  <2>2. "matches" \in Parts
    BY DEF Parts
  <2>3. CASE \E m \in Matches, part \in Parts : Upsert(part, m)
    BY <2>1, <2>3 DEF Types, TypeOK, Upsert
  <2>4. CASE \E m \in Matches : Commit(m)
    BY <2>1, <2>2, <2>4 DEF Types, TypeOK, Commit
  <2>5. CASE \E p \in Players : UpsertPlayer(p)
    BY <2>1, <2>5 DEF Types, TypeOK, UpsertPlayer
  <2>6. QED
    BY <2>3, <2>4, <2>5 DEF Writes
<1>3. QED
  BY <1>1, <1>2 DEF Types, TypeOK, build, history

LEMMA RebuildTypes ==
  ASSUME Types, NEW r \in Requests, NEW s \in Matches \cup {All}, Rebuild(r, s)
  PROVE  Types'
<1>1. began' \in [Requests -> Snapshots] /\ met' \in [Requests -> SUBSET Requests]
  <2>1. [unified |-> unified, players |-> players] \in Snapshots
    BY DEF Types, TypeOK, Snapshots
  <2>2. began' \in [Requests -> Snapshots]
    BY <2>1 DEF Types, Rebuild
  <2>3. QED
    BY <2>2 DEF Types, Rebuild
<1>2. CASE s = All
  <2>1. /\ pc[r] = "idle" /\ pc' = [pc EXCEPT ![r] = "listing"]
        /\ scope' = [scope EXCEPT ![r] = All]
        /\ UNCHANGED <<unified, players, foreign, aggregates, listed, current, draft, ops>>
    BY <1>2 DEF Rebuild, Goto, collections, build
  <2>2. TypeOK'
    BY <2>1 DEF Types, TypeOK, Reading, Parts
  <2>3. ASSUME NEW q \in Requests
        PROVE  /\ pc'[q] = "idle" \/ (pc'[q] \in Reading /\ scope'[q] # All) =>
                    \A m \in Matches : ops'[q][m] = None
               /\ pc'[q] = "idle" => listed'[q] = {}
               /\ pc'[q] \in Reading => current'[q] \in Matches /\ scope'[q] \in {All, current'[q]}
               /\ pc'[q] = "listing" => scope'[q] = All
    BY <2>1 DEF Types, TypeOK, Reading, Parts
  <2>4. QED
    BY <1>1, <2>2, <2>3 DEF Types
<1>3. CASE s # All
  <2>1. /\ pc[r] = "idle" /\ pc' = [pc EXCEPT ![r] = "matches"] /\ s \in Matches
        /\ scope' = [scope EXCEPT ![r] = s] /\ current' = [current EXCEPT ![r] = s]
        /\ draft' = [draft EXCEPT ![r] = Empty]
        /\ UNCHANGED <<unified, players, foreign, aggregates, listed, ops>>
    BY <1>3 DEF Rebuild, Assemble, Goto, collections
  <2>2. TypeOK'
    BY <2>1, ConstantType DEF Types, TypeOK, Reading, Parts
  <2>3. ASSUME NEW q \in Requests
        PROVE  /\ pc'[q] = "idle" \/ (pc'[q] \in Reading /\ scope'[q] # All) =>
                    \A m \in Matches : ops'[q][m] = None
               /\ pc'[q] = "idle" => listed'[q] = {}
               /\ pc'[q] \in Reading => current'[q] \in Matches /\ scope'[q] \in {All, current'[q]}
               /\ pc'[q] = "listing" => scope'[q] = All
    BY <2>1 DEF Types, TypeOK
  <2>4. QED
    BY <1>1, <2>2, <2>3 DEF Types
<1>4. QED
  BY <1>2, <1>3

LEMMA ListTypes ==
  ASSUME Types, NEW r \in Requests, NEW m \in Matches, List(r, m)
  PROVE  Types'
BY ConstantType
   DEF List, Assemble, Types, TypeOK, collections, history, Goto, Reading, Parts

LEMMA ListEndsTypes ==
  ASSUME Types, NEW r \in Requests, ListEnds(r)
  PROVE  Types'
BY DEF ListEnds, Types, TypeOK, collections, build, history, Goto, Reading, Parts

LEMMA ReadPartTypes ==
  ASSUME Types, NEW r \in Requests, ReadPart(r)
  PROVE  Types'
<1> DEFINE part == pc[r]
           m == current[r]
           next == IF part = "matches" /\ ~Present(m)
                   THEN IF scope[r] = All THEN "listing" ELSE "answered"
                   ELSE After[part]
<1>1. part \in Parts /\ m \in Matches
  BY DEF ReadPart, Types, Reading
<1>2. pc' = [pc EXCEPT ![r] = next]
  BY DEF ReadPart, Goto
<1>3. next \in Reading \cup {"listing", "answered"}
      /\ (next = "listing" => scope[r] = All) /\ (next = "answered" => scope[r] # All)
  BY <1>1 DEF After, Parts, Reading
<1>4. draft' \in [Requests -> Aggregates]
  <2> DEFINE valid == IF part = "matches" THEN m \notin foreign ELSE draft[r].valid
             new == [draft[r] EXCEPT !.parts[part] = unified[part][m], !.valid = valid]
  <2>1. valid \in BOOLEAN /\ unified[part][m] \in Versions /\ draft[r] \in Aggregates
    <3>1. unified[part][m] \in Versions /\ draft[r] \in Aggregates
      BY <1>1 DEF Types, TypeOK
    <3>2. draft[r].valid \in BOOLEAN
      BY <3>1 DEF Aggregates
    <3>3. valid \in BOOLEAN
      <4>1. CASE part = "matches"
        BY <4>1
      <4>2. CASE part # "matches"
        BY <3>2, <4>2
      <4>3. QED
        BY <4>1, <4>2
    <3>4. QED
      BY <3>1, <3>3
  <2> HIDE DEF valid
  <2>2. new \in Aggregates
    BY <1>1, <2>1 DEF Aggregates
  <2>3. draft' = [draft EXCEPT ![r] = new]
    BY DEF ReadPart, Types, TypeOK, valid
  <2>4. QED
    BY <2>2, <2>3 DEF Types, TypeOK
<1>5. UNCHANGED <<unified, players, foreign, aggregates, scope, listed, current, ops, began, met>>
  BY DEF ReadPart, collections, history
<1> HIDE DEF next, part, m
<1>6. TypeOK'
  <2>1. pc[r] # "answered" /\ (next = "answered" => \A n \in Matches : ops[r][n] = None)
    BY <1>1, <1>3 DEF Types, Reading, Parts, part
  <2>2. TypeOK
    BY DEF Types
  <2>3. QED
    BY <1>2, <1>3, <1>4, <1>5, <2>1, <2>2 DEF TypeOK
<1>7. QED
  BY <1>1, <1>2, <1>3, <1>5, <1>6 DEF Types, TypeOK, Reading, part, Parts

LEMMA ReadPlayersTypes ==
  ASSUME Types, NEW r \in Requests, ReadPlayers(r)
  PROVE  Types'
<1> DEFINE found == [p \in Players |-> IF p \in Mentioned(draft[r].parts) THEN players[p] ELSE 0]
           built == [draft[r] EXCEPT !.players = found]
           next == IF built.valid THEN IF scope[r] = All THEN "listing" ELSE "writing"
                   ELSE "invalid"
<1>1. built \in Aggregates /\ built.valid = draft[r].valid
  <2>1. found \in [Players -> Versions] /\ draft[r] \in Aggregates
    BY ConstantType DEF Types, TypeOK
  <2> HIDE DEF found
  <2>2. QED
    BY <2>1 DEF Aggregates
<1>2. /\ pc[r] = "players" /\ pc' = [pc EXCEPT ![r] = next]
      /\ draft' = [draft EXCEPT ![r] = Empty]
      /\ ops' = IF built.valid THEN [ops EXCEPT ![r][current[r]] = built] ELSE ops
  BY DEF ReadPlayers, Goto
<1>3. UNCHANGED <<unified, players, foreign, aggregates, scope, listed, current, began, met>>
  BY DEF ReadPlayers, collections, history
<1>4. current[r] \in Matches /\ "players" \in Reading
  BY <1>2 DEF Types, Reading
<1> HIDE DEF built, found
<1>5. next \in {"listing", "writing", "invalid"} /\ (next = "listing" => scope[r] = All)
  OBVIOUS
<1> HIDE DEF next
<1>6. ops' \in [Requests -> [Matches -> Aggregates \cup {None}]]
  BY <1>1, <1>2, <1>4 DEF Types, TypeOK
<1>7. \A q \in Requests, m \in Matches :
         ops'[q][m] = ops[q][m] \/ (q = r /\ m = current[r] /\ ops'[q][m] = built /\ built.valid)
  BY <1>2, <1>4 DEF Types, TypeOK
<1>8. TypeOK'
  BY <1>2, <1>3, <1>5, <1>6, <1>7, ConstantType DEF Types, TypeOK
<1>9. QED
  BY <1>2, <1>3, <1>5, <1>7, <1>8 DEF Types, TypeOK, Reading, Parts

LEMMA WriteTypes ==
  ASSUME Types, NEW r \in Requests, NEW m \in Matches, Write(r, m)
  PROVE  Types'
<1> DEFINE next == IF \A n \in Matches \ {m} : ops[r][n] = None THEN "answered" ELSE "writing"
<1>1. /\ pc[r] = "writing" /\ ops[r][m] # None /\ pc' = [pc EXCEPT ![r] = next]
      /\ aggregates' = [aggregates EXCEPT ![m] = ops[r][m]]
      /\ ops' = [ops EXCEPT ![r][m] = None]
  BY DEF Write, Goto
<1>2. UNCHANGED <<unified, players, foreign, scope, listed, current, draft, began, met>>
  BY DEF Write, collections, history, build
<1>3. next = "writing" \/ (next = "answered" /\ \A n \in Matches : ops'[r][n] = None)
  BY <1>1 DEF Types, TypeOK
<1> HIDE DEF next
<1>4. \A q \in Requests, n \in Matches : ops'[q][n] \in {ops[q][n], None}
  BY <1>1 DEF Types, TypeOK
<1>5. TypeOK'
  BY <1>1, <1>2, <1>3, <1>4 DEF Types, TypeOK
<1>6. QED
  BY <1>1, <1>2, <1>3, <1>4, <1>5 DEF Types, TypeOK, Reading, Parts

LEMMA FailsTypes ==
  ASSUME Types, NEW r \in Requests, Fails(r)
  PROVE  Types'
<1>1. /\ pc' = [pc EXCEPT ![r] = "raised"]
      /\ draft' = [draft EXCEPT ![r] = Empty]
      /\ ops' = [ops EXCEPT ![r] = [m \in Matches |-> None]]
  BY DEF Fails, Goto
<1>2. UNCHANGED <<unified, players, foreign, aggregates, scope, listed, current, began, met>>
  BY DEF Fails, collections, history
<1>3. TypeOK'
  BY <1>1, <1>2, ConstantType DEF Types, TypeOK
<1>4. QED
  BY <1>1, <1>2, <1>3 DEF Types, TypeOK, Reading, Parts

LEMMA NextTypes == Types /\ [Next]_vars => Types'
<1>1. Types /\ Next => Types'
  BY WritesTypes, RebuildTypes, ListTypes, ListEndsTypes, ReadPartTypes, ReadPlayersTypes,
     WriteTypes, FailsTypes DEF Next, Writes
<1>2. Types /\ UNCHANGED vars => Types'
  BY DEF vars, collections, build, history, Types, TypeOK
<1>3. QED
  BY <1>1, <1>2

\* Every variable keeps its type; nothing that failed validation is about to be written,
\* and an answer leaves nothing to write.
THEOREM AggregateTypes == Spec => []TypeOK
<1>1. Types => TypeOK
  BY DEF Types
<1>2. QED
  BY <1>1, InitTypes, NextTypes, PTL DEF Spec

-----------------------------------------------------------------------------
(* What a rebuild has seen at its beginning, and whom it has met. *)

Now == [unified |-> unified, players |-> players]

AtLeast(b, c) ==
  /\ \A part \in Parts, m \in Matches : b.unified[part][m] >= c.unified[part][m]
  /\ \A p \in Players : b.players[p] >= c.players[p]

\* The collections only grow.  Who is active, and may write, has been met, or has begun
\* later and reads nothing older.
History ==
  \A r \in Requests :
    /\ AtLeast(Now, began[r])
    /\ \A q \in met[r] : pc[q] # "idle"
    /\ pc[r] # "idle" =>
         /\ r \in met[r]
         /\ \A q \in Requests : Active(q) => q \in met[r] \/ AtLeast(began[q], began[r])

LEMMA NumberType ==
  ASSUME Types
  PROVE  /\ \A part \in Parts, m \in Matches : unified[part][m] \in Nat
         /\ \A p \in Players : players[p] \in Nat
         /\ \A r \in Requests :
              /\ \A part \in Parts, m \in Matches : began[r].unified[part][m] \in Nat
              /\ \A p \in Players : began[r].players[p] \in Nat
         /\ "matches" \in Parts
<1>1. Versions \subseteq Nat
  BY ConstantType DEF Versions
<1>2. ASSUME NEW r \in Requests
      PROVE  /\ began[r].unified \in [Parts -> [Matches -> Versions]]
             /\ began[r].players \in [Players -> Versions]
  BY DEF Types, Snapshots
<1>3. /\ unified \in [Parts -> [Matches -> Versions]] /\ players \in [Players -> Versions]
      /\ "matches" \in Parts
  BY DEF Types, TypeOK, Parts
<1>4. ASSUME NEW r \in Requests
      PROVE  /\ \A part \in Parts, m \in Matches : began[r].unified[part][m] \in Nat
             /\ \A p \in Players : began[r].players[p] \in Nat
  BY <1>1, <1>2
<1>5. QED
  BY <1>1, <1>3, <1>4

\* A step of a rebuild that has begun.
Proceeds(r) ==
  /\ Active(r) /\ pc' = [pc EXCEPT ![r] = pc'[r]] /\ pc'[r] # "idle"
  /\ UNCHANGED <<unified, players, foreign, began, met, scope>>
  /\ \A q \in Requests \ {r} : /\ listed'[q] = listed[q] /\ current'[q] = current[q]
                               /\ draft'[q] = draft[q] /\ ops'[q] = ops[q]

LEMMA StepProceeds ==
  ASSUME Types, NEW r \in Requests,
         \/ \E m \in Matches : List(r, m) \/ Write(r, m)
         \/ ListEnds(r) \/ ReadPart(r) \/ ReadPlayers(r) \/ Fails(r)
  PROVE  Proceeds(r)
<1> USE DEF Proceeds, Active, Reading, Parts, collections, history, build, Goto
<1>1. ASSUME NEW m \in Matches, List(r, m) PROVE Proceeds(r)
  BY <1>1 DEF List, Assemble, Types, TypeOK
<1>2. ASSUME NEW m \in Matches, Write(r, m) PROVE Proceeds(r)
  BY <1>2 DEF Write, Types, TypeOK
<1>3. CASE ListEnds(r)
  BY <1>3 DEF ListEnds, Types, TypeOK
<1>4. CASE ReadPart(r)
  BY <1>4 DEF ReadPart, After, Types, TypeOK
<1>5. CASE ReadPlayers(r)
  BY <1>5 DEF ReadPlayers, Types, TypeOK
<1>6. CASE Fails(r)
  BY <1>6 DEF Fails, Types, TypeOK
<1>7. QED
  BY <1>1, <1>2, <1>3, <1>4, <1>5, <1>6

LEMMA InitHistory == Init => History
<1> SUFFICES ASSUME Init PROVE History
  OBVIOUS
<1>1. \A r \in Requests : began[r] = Now
  BY DEF Init, Now
<1>2. AtLeast(Now, Now)
  <2>1. Types
    BY InitTypes
  <2>2. QED
    BY <2>1, NumberType DEF AtLeast, Now
<1>3. \A r \in Requests : pc[r] = "idle" /\ met[r] = {}
  BY DEF Init
<1>4. QED
  BY <1>1, <1>2, <1>3 DEF History

LEMMA WritesGrow ==
  ASSUME Types, Writes
  PROVE  AtLeast(Now', Now) /\ UNCHANGED <<aggregates, pc, scope, listed, build, ops, history>>
<1>1. UNCHANGED <<aggregates, pc, scope, listed, build, ops, history>>
  BY DEF Writes, Upsert, Commit, UpsertPlayer
<1>2. CASE \E m \in Matches, part \in Parts : Upsert(part, m)
  BY <1>2, NumberType DEF Types, TypeOK, Upsert, AtLeast, Now
<1>3. CASE \E m \in Matches : Commit(m)
  BY <1>3, NumberType DEF Types, TypeOK, Commit, AtLeast, Now
<1>4. CASE \E p \in Players : UpsertPlayer(p)
  BY <1>4, NumberType DEF Types, TypeOK, UpsertPlayer, AtLeast, Now
<1>5. QED
  BY <1>1, <1>2, <1>3, <1>4 DEF Writes

LEMMA NextHistory == Types /\ History /\ [Next]_vars => History'
<1> SUFFICES ASSUME Types, History, [Next]_vars PROVE History'
  OBVIOUS
<1>1. Types'
  BY NextTypes
<1>2. CASE Writes
  <2>1. AtLeast(Now', Now) /\ pc' = pc /\ began' = began /\ met' = met
    BY <1>2, WritesGrow DEF history
  <2>2. \A r \in Requests : AtLeast(Now', began[r])
    <3>1. \A part \in Parts, m \in Matches : Now'.unified[part][m] \in Nat
      BY <1>1, NumberType DEF Now, Types, TypeOK, Versions
    <3>2. \A p \in Players : Now'.players[p] \in Nat
      BY <1>1, NumberType DEF Now, Types, TypeOK, Versions
    <3>3. QED
      BY <2>1, <3>1, <3>2, NumberType DEF History, AtLeast, Now
  <2>3. QED
    BY <2>1, <2>2 DEF History, Active, AtLeast
<1>3. ASSUME NEW r \in Requests, NEW s \in Matches \cup {All}, Rebuild(r, s) PROVE History'
  <2>1. /\ Now' = Now /\ pc[r] = "idle" /\ pc'[r] # "idle"
        /\ \A q \in Requests \ {r} : pc'[q] = pc[q]
    BY <1>3 DEF Rebuild, Assemble, Goto, collections, Types, TypeOK, Now
  <2>2. began'[r] = Now /\ \A q \in Requests \ {r} : began'[q] = began[q]
    BY <1>3 DEF Rebuild, Types, Now
  <2>3. /\ met'[r] = {r} \cup {o \in Requests : Active(o)}
        /\ \A q \in Requests \ {r} : met'[q] = IF Active(q) THEN met[q] \cup {r} ELSE met[q]
    BY <1>3 DEF Rebuild
  <2>4. AtLeast(Now, Now)
    BY NumberType DEF AtLeast, Now
  <2>5. \A q \in Requests : AtLeast(Now, began'[q])
    BY <2>2, <2>4 DEF History
  <2>6. \A q \in Requests \ {r} : Active(q)' <=> Active(q)
    BY <2>1 DEF Active
  <2>7. ASSUME NEW q \in Requests PROVE \A o \in met'[q] : pc'[o] # "idle"
    <3> SUFFICES ASSUME NEW o \in met'[q] PROVE pc'[o] # "idle"
      OBVIOUS
    <3>1. o \in Requests
      BY <1>1 DEF Types
    <3>2. o = r \/ Active(o) \/ o \in met[q]
      BY <2>3
    <3>3. Active(o) \/ o \in met[q] => pc[o] # "idle"
      BY DEF History, Active, Reading, Parts
    <3>4. QED
      BY <2>1, <3>1, <3>2, <3>3
  <2>8. ASSUME NEW q \in Requests, pc'[q] # "idle"
        PROVE  /\ q \in met'[q]
               /\ \A o \in Requests : Active(o)' => o \in met'[q] \/ AtLeast(began'[o], began'[q])
    <3>1. CASE q = r
      BY <2>3, <2>6, <3>1
    <3>2. CASE q # r
      <4>1. q \in met'[q] /\ met[q] \subseteq met'[q]
        BY <2>1, <2>3, <2>8, <3>2 DEF History
      <4>2. ASSUME NEW o \in Requests, Active(o)'
            PROVE  o \in met'[q] \/ AtLeast(began'[o], began'[q])
        <5>1. CASE o = r
          BY <2>2, <2>5, <5>1
        <5>2. CASE o # r
          BY <2>1, <2>2, <2>6, <2>8, <3>2, <4>1, <4>2, <5>2 DEF History
        <5>3. QED
          BY <5>1, <5>2
      <4>3. QED
        BY <4>1, <4>2
    <3>3. QED
      BY <3>1, <3>2
  <2>9. QED
    BY <2>1, <2>5, <2>7, <2>8 DEF History
<1>4. ASSUME NEW r \in Requests, Proceeds(r) PROVE History'
  <2>1. Now' = Now /\ began' = began /\ met' = met
    BY <1>4 DEF Proceeds, Now
  <2>2. \A q \in Requests : (pc'[q] = "idle" <=> pc[q] = "idle") /\ (Active(q)' => Active(q))
    BY <1>4 DEF Proceeds, Active, Types, TypeOK, Reading, Parts
  <2>3. ASSUME NEW q \in Requests
        PROVE  AtLeast(Now, began[q])' /\ \A o \in met'[q] : pc'[o] # "idle"
    <3>1. met[q] \subseteq Requests
      BY DEF Types
    <3>2. QED
      BY <2>1, <2>2, <3>1 DEF History, AtLeast
  <2>4. ASSUME NEW q \in Requests, pc'[q] # "idle"
        PROVE  /\ q \in met'[q]
               /\ \A o \in Requests : Active(o)' => o \in met'[q] \/ AtLeast(began[o], began[q])'
    BY <2>1, <2>2, <2>4 DEF History, AtLeast
  <2>5. QED
    BY <2>3, <2>4 DEF History
<1>5. CASE UNCHANGED vars
  BY <1>5 DEF vars, collections, history, History, AtLeast, Now, Active
<1>6. QED
  BY <1>2, <1>3, <1>4, <1>5, StepProceeds DEF Next, Writes

-----------------------------------------------------------------------------
(* What a rebuild has gathered. *)

\* The parts that build_one has read when it is about to read another.
Before(label) ==
  CASE label = "team_stats" -> {"matches"}
    [] label = "player_stats" -> {"matches", "team_stats"}
    [] label = "events" -> {"matches", "team_stats", "player_stats"}
    [] label = "players" -> Parts
    [] OTHER -> {}

PartsFresh(parts, snapshot, m) == \A part \in Parts : parts[part] >= snapshot.unified[part][m]

Fresh(aggregate, snapshot, m) ==
  /\ PartsFresh(aggregate.parts, snapshot, m)
  /\ \A p \in Mentioned(aggregate.parts) : aggregate.players[p] >= snapshot.players[p]

\* All that has been read is as fresh as the request, and every match that its cursor has
\* returned, and that was there, has been assembled, or is about to be.
GatheredBy(r) ==
  /\ pc[r] \in Reading =>
       \A part \in Before(pc[r]) : draft[r].parts[part] >= began[r].unified[part][current[r]]
  /\ \A m \in Matches : ops[r][m] # None => Fresh(ops[r][m], began[r], m)
  /\ pc[r] \in Reading \cup {"listing"} /\ scope[r] = All =>
       \A m \in listed[r] : began[r].unified["matches"][m] > 0 =>
          ops[r][m] # None \/ (pc[r] \in Reading /\ m = current[r])

Gathered == \A r \in Requests : GatheredBy(r)

\* A step that leaves what a request has gathered.
LEMMA GatheredStays ==
  ASSUME NEW r \in Requests, GatheredBy(r),
         pc'[r] = pc[r], scope'[r] = scope[r], listed'[r] = listed[r], current'[r] = current[r],
         draft'[r] = draft[r], ops'[r] = ops[r], began'[r] = began[r]
  PROVE  GatheredBy(r)'
BY DEF GatheredBy, Fresh, PartsFresh

LEMMA InitGathered == Init => Gathered
BY DEF Init, Gathered, GatheredBy, Reading, Parts

LEMMA RebuildGathers ==
  ASSUME Types, Gathered, NEW r \in Requests, NEW s \in Matches \cup {All}, Rebuild(r, s)
  PROVE  Gathered'
<1>1. \A m \in Matches : ops'[r][m] = None
  BY DEF Rebuild, Types
<1>2. listed'[r] = {} /\ pc'[r] \in {"listing", "matches"}
  BY DEF Rebuild, Assemble, Goto, Types, TypeOK
<1>3. GatheredBy(r)'
  BY <1>1, <1>2 DEF GatheredBy, Before, Reading, Parts
<1>4. ASSUME NEW q \in Requests, q # r PROVE GatheredBy(q)'
  BY <1>4, GatheredStays DEF Rebuild, Assemble, Goto, build, Types, TypeOK, Gathered
<1>5. QED
  BY <1>3, <1>4 DEF Gathered

LEMMA ListGathers ==
  ASSUME Types, Gathered, NEW r \in Requests, NEW m \in Matches, List(r, m)
  PROVE  GatheredBy(r)'
<1>1. /\ pc[r] = "listing" /\ pc'[r] = "matches" /\ listed'[r] = listed[r] \cup {m}
      /\ current'[r] = m /\ ops' = ops /\ began' = began /\ scope' = scope
  BY DEF List, Assemble, Goto, history, Types, TypeOK
<1>2. GatheredBy(r)
  BY DEF Gathered
<1>3. QED
  BY <1>1, <1>2 DEF GatheredBy, Fresh, PartsFresh, Before, Reading, Parts

LEMMA ListEndsGathers ==
  ASSUME Types, Gathered, NEW r \in Requests, ListEnds(r)
  PROVE  GatheredBy(r)'
<1>1. pc'[r] \in {"answered", "writing"} /\ ops' = ops /\ began' = began
  BY DEF ListEnds, Goto, history, Types, TypeOK
<1>2. GatheredBy(r)
  BY DEF Gathered
<1>3. QED
  BY <1>1, <1>2 DEF GatheredBy, Fresh, PartsFresh, Reading, Parts

\* What build_one reads is no older than what the request has begun with; and a match
\* that was there then is there still.
LEMMA ReadPartGathers ==
  ASSUME Types, History, Gathered, NEW r \in Requests, ReadPart(r)
  PROVE  GatheredBy(r)'
<1> DEFINE part == pc[r]
           m == current[r]
<1>1. /\ part \in Parts /\ m \in Matches /\ GatheredBy(r) /\ pc[r] \in Reading
      /\ draft[r] \in Aggregates
  BY DEF ReadPart, Types, TypeOK, Reading, Gathered
<1>2. /\ listed' = listed /\ current' = current /\ ops' = ops /\ began' = began
      /\ scope' = scope
  BY DEF ReadPart, history
<1>3. \A p \in Parts : draft'[r].parts[p] = IF p = part THEN unified[part][m] ELSE draft[r].parts[p]
  <2>1. draft'[r].parts = [draft[r].parts EXCEPT ![part] = unified[part][m]]
    BY <1>1 DEF ReadPart, Types, TypeOK, Aggregates
  <2>2. draft[r].parts \in [Parts -> Versions]
    BY <1>1 DEF Aggregates
  <2>3. QED
    BY <1>1, <2>1, <2>2
<1>4. unified[part][m] >= began[r].unified[part][m]
  BY <1>1 DEF History, AtLeast, Now
<1>5. CASE part = "matches" /\ ~Present(m)
  <2>1. pc'[r] \in {"listing", "answered"}
    BY <1>5 DEF ReadPart, Goto, Types, TypeOK
  <2>2. ~(began[r].unified["matches"][m] > 0)
    BY <1>1, <1>4, <1>5, NumberType DEF Present
  <2>3. QED
    BY <1>1, <1>2, <2>1, <2>2 DEF GatheredBy, Fresh, PartsFresh, Reading, Parts
<1>6. CASE ~(part = "matches" /\ ~Present(m))
  <2>1. pc'[r] = After[part] /\ pc'[r] \in Reading
    BY <1>1, <1>6 DEF ReadPart, Goto, Types, TypeOK, After, Reading, Parts
  <2>2. Before(pc'[r]) = Before(pc[r]) \cup {part} /\ Before(pc[r]) \subseteq Parts
    BY <1>1, <2>1 DEF After, Before, Parts
  <2>3. \A p \in Before(pc'[r]) : draft'[r].parts[p] >= began[r].unified[p][m]
    BY <1>1, <1>3, <1>4, <2>2 DEF GatheredBy
  <2>4. QED
    BY <1>1, <1>2, <2>1, <2>3 DEF GatheredBy, Fresh, PartsFresh
<1>7. QED
  BY <1>5, <1>6

LEMMA ReadPlayersGathers ==
  ASSUME Types, History, Gathered, NEW r \in Requests, ReadPlayers(r)
  PROVE  GatheredBy(r)'
<1> DEFINE found == [p \in Players |-> IF p \in Mentioned(draft[r].parts) THEN players[p] ELSE 0]
           built == [draft[r] EXCEPT !.players = found]
           m == current[r]
<1>1. /\ pc[r] = "players" /\ m \in Matches /\ GatheredBy(r) /\ draft[r] \in Aggregates
      /\ pc[r] \in Reading /\ draft[r].parts \in [Parts -> Versions]
  BY DEF ReadPlayers, Types, TypeOK, Reading, Gathered, Aggregates
<1>2. /\ listed' = listed /\ current' = current /\ began' = began /\ scope' = scope
  BY DEF ReadPlayers, history
<1>3. built.parts = draft[r].parts /\ built.players = found
  BY <1>1 DEF Aggregates
<1>4. Mentioned(draft[r].parts) \subseteq Players
  BY <1>1, ConstantType
<1>5. Fresh(built, began[r], m)
  <2>1. \A part \in Parts : draft[r].parts[part] >= began[r].unified[part][m]
    BY <1>1 DEF GatheredBy, Before
  <2>2. \A p \in Mentioned(draft[r].parts) : found[p] = players[p]
    BY <1>4
  <2>3. \A p \in Players : players[p] >= began[r].players[p]
    BY DEF History, AtLeast, Now
  <2> HIDE DEF built, found
  <2>4. QED
    BY <1>3, <1>4, <2>1, <2>2, <2>3 DEF Fresh, PartsFresh
<1>6. built # None
  <2>1. found \in [Players -> Versions]
    BY ConstantType DEF Types, TypeOK
  <2> HIDE DEF found
  <2>2. built \in Aggregates
    BY <1>1, <2>1 DEF Aggregates
  <2>3. QED
    BY <2>2, ConstantType
<1>7. \/ /\ ops'[r] = [ops[r] EXCEPT ![m] = built] /\ pc'[r] \in {"listing", "writing"}
      \/ /\ ops'[r] = ops[r] /\ pc'[r] = "invalid"
  BY DEF ReadPlayers, Goto, Types, TypeOK
<1>8. ops[r] \in [Matches -> Aggregates \cup {None}]
  BY DEF Types, TypeOK
<1> HIDE DEF built, found, m
<1>9. \A n \in Matches : ops'[r][n] # None => Fresh(ops'[r][n], began[r], n)
  BY <1>1, <1>5, <1>7, <1>8 DEF GatheredBy
<1>10. pc'[r] = "listing" => \A n \in Matches : ops[r][n] # None \/ n = m => ops'[r][n] # None
  BY <1>1, <1>6, <1>7, <1>8
<1>11. \A n \in listed[r] : n \in Matches
  BY DEF Types, TypeOK
<1>12. QED
  BY <1>1, <1>2, <1>7, <1>9, <1>10, <1>11 DEF GatheredBy, Fresh, PartsFresh, Reading, Parts, m

LEMMA WriteGathers ==
  ASSUME Types, Gathered, NEW r \in Requests, NEW m \in Matches, Write(r, m)
  PROVE  GatheredBy(r)'
<1>1. /\ pc'[r] \in {"answered", "writing"} /\ began' = began
      /\ ops'[r] = [ops[r] EXCEPT ![m] = None]
  BY DEF Write, Goto, history, Types, TypeOK
<1>2. GatheredBy(r) /\ ops[r] \in [Matches -> Aggregates \cup {None}]
  BY DEF Gathered, Types, TypeOK
<1>3. \A n \in Matches : ops'[r][n] # None => ops'[r][n] = ops[r][n]
  BY <1>1, <1>2
<1>4. QED
  BY <1>1, <1>2, <1>3 DEF GatheredBy, Fresh, PartsFresh, Reading, Parts

LEMMA FailsGathers ==
  ASSUME Types, NEW r \in Requests, Fails(r)
  PROVE  GatheredBy(r)'
<1>1. pc'[r] = "raised" /\ \A m \in Matches : ops'[r][m] = None
  BY DEF Fails, Goto, Types, TypeOK
<1>2. QED
  BY <1>1 DEF GatheredBy, Reading, Parts

LEMMA NextGathered == Types /\ History /\ Gathered /\ [Next]_vars => Gathered'
<1> SUFFICES ASSUME Types, History, Gathered, [Next]_vars PROVE Gathered'
  OBVIOUS
<1>1. CASE Writes
  <2>1. UNCHANGED <<aggregates, pc, scope, listed, build, ops, history>>
    BY <1>1, WritesGrow
  <2>2. QED
    BY <2>1, GatheredStays DEF build, history, Gathered
<1>2. ASSUME NEW r \in Requests, NEW s \in Matches \cup {All}, Rebuild(r, s) PROVE Gathered'
  BY <1>2, RebuildGathers
<1>3. ASSUME NEW r \in Requests, Proceeds(r), GatheredBy(r)' PROVE Gathered'
  <2>1. ASSUME NEW q \in Requests, q # r PROVE GatheredBy(q)'
    BY <1>3, <2>1, GatheredStays DEF Proceeds, Gathered, Types, TypeOK
  <2>2. QED
    BY <1>3, <2>1 DEF Gathered
<1>4. ASSUME NEW r \in Requests,
             \/ \E m \in Matches : List(r, m) \/ Write(r, m)
             \/ ListEnds(r) \/ ReadPart(r) \/ ReadPlayers(r) \/ Fails(r)
      PROVE  Gathered'
  BY <1>3, <1>4, StepProceeds, ListGathers, WriteGathers, ListEndsGathers, ReadPartGathers,
     ReadPlayersGathers, FailsGathers
<1>5. CASE UNCHANGED vars
  BY <1>5, GatheredStays DEF vars, build, history, Gathered
<1>6. QED
  BY <1>1, <1>2, <1>4, <1>5 DEF Next, Writes

-----------------------------------------------------------------------------
(* What a rebuild delivers. *)

\* The aggregate of m is as fresh as a rebuild that r has met.
Good(r, m) == \E q \in met[r] : UpToDate(q, m)

\* From the end of its loop on, what a request covers is written, or about to be.
DeliveredBy(r) ==
  pc[r] \in {"writing", "answered"} => \A m \in Covered(r) : ops[r][m] # None \/ Good(r, m)

Delivered == \A r \in Requests : DeliveredBy(r)

LEMMA UpToDateMeans ==
  ASSUME NEW r \in Requests, NEW m \in Matches
  PROVE  UpToDate(r, m) <=> aggregates[m] # None /\ Fresh(aggregates[m], began[r], m)
BY DEF UpToDate, Fresh, PartsFresh

\* What is fresh for a later beginning is fresh for an earlier one.
LEMMA FreshOrder ==
  ASSUME Types, NEW q \in Requests, NEW r \in Requests, NEW m \in Matches,
         NEW a \in Aggregates, Fresh(a, began[q], m), AtLeast(began[q], began[r])
  PROVE  Fresh(a, began[r], m)
<1>1. a.parts \in [Parts -> Versions] /\ a.players \in [Players -> Versions]
  BY DEF Aggregates
<1>2. Mentioned(a.parts) \subseteq Players
  BY <1>1, ConstantType
<1>3. Versions \subseteq Nat
  BY ConstantType DEF Versions
<1>4. \A part \in Parts : a.parts[part] >= began[r].unified[part][m]
  <2>1. ASSUME NEW part \in Parts PROVE a.parts[part] >= began[r].unified[part][m]
    <3>1. a.parts[part] \in Nat
      BY <1>1, <1>3
    <3>2. a.parts[part] >= began[q].unified[part][m]
      BY DEF Fresh, PartsFresh
    <3>3. began[q].unified[part][m] >= began[r].unified[part][m]
      BY DEF AtLeast
    <3>4. QED
      BY <3>1, <3>2, <3>3, NumberType
  <2>2. QED
    BY <2>1
<1>5. ASSUME NEW p \in Mentioned(a.parts) PROVE a.players[p] >= began[r].players[p]
  <2>1. p \in Players /\ a.players[p] \in Nat
    BY <1>1, <1>2, <1>3
  <2>2. a.players[p] >= began[q].players[p]
    BY DEF Fresh
  <2>3. began[q].players[p] >= began[r].players[p]
    BY <2>1 DEF AtLeast
  <2>4. QED
    BY <2>1, <2>2, <2>3, NumberType
<1>6. QED
  BY <1>4, <1>5 DEF Fresh, PartsFresh

\* Whoever writes an aggregate: it stays as fresh as a rebuild that was met.
LEMMA WriteKeepsGood ==
  ASSUME Types, History, Gathered, NEW q \in Requests, NEW n \in Matches, Write(q, n),
         NEW r \in Requests, pc[r] # "idle", NEW m \in Matches, Good(r, m) \/ m = n
  PROVE  Good(r, m)'
<1>1. /\ began' = began /\ met' = met /\ ops[q][n] # None
      /\ aggregates' = [aggregates EXCEPT ![n] = ops[q][n]]
      /\ pc[q] = "writing" /\ met[r] \subseteq Requests
  BY DEF Write, history, Types
<1>2. CASE m # n
  <2>1. aggregates'[m] = aggregates[m]
    BY <1>1, <1>2 DEF Types, TypeOK
  <2>2. PICK o \in met[r] : UpToDate(o, m)
    BY <1>2 DEF Good
  <2>3. UpToDate(o, m)'
    BY <1>1, <2>1, <2>2 DEF UpToDate
  <2>4. QED
    BY <1>1, <2>3 DEF Good
<1>3. CASE m = n
  <2>1. aggregates'[m] = ops[q][m] /\ ops[q][m] # None /\ ops[q][m] \in Aggregates
    BY <1>1, <1>3 DEF Types, TypeOK
  <2>2. Fresh(ops[q][m], began[q], m)
    BY <2>1 DEF Gathered, GatheredBy
  <2>3. Active(q) /\ r \in met[r]
    BY <1>1 DEF Active, History
  <2>4. PICK o \in met[r] : Fresh(ops[q][m], began[o], m)
    <3>1. CASE q \in met[r]
      BY <2>2, <3>1
    <3>2. CASE q \notin met[r]
      <4>1. AtLeast(began[q], began[r])
        BY <2>3, <3>2 DEF History
      <4>2. Fresh(ops[q][m], began[r], m)
        BY <2>1, <2>2, <4>1, FreshOrder
      <4>3. QED
        BY <2>3, <4>2
    <3>3. QED
      BY <3>1, <3>2
  <2>5. UpToDate(o, m)'
    BY <1>1, <2>1, <2>4 DEF UpToDate, Fresh, PartsFresh
  <2>6. QED
    BY <1>1, <2>5 DEF Good
<1>4. QED
  BY <1>2, <1>3

\* Aggregates that nobody writes stay as they are, and who is met stays met.
LEMMA GoodStays ==
  ASSUME NEW r \in Requests, NEW m \in Matches, Good(r, m), aggregates' = aggregates,
         met[r] \subseteq met'[r], \A q \in met[r] : began'[q] = began[q]
  PROVE  Good(r, m)'
BY DEF Good, UpToDate

\* A step that leaves a request where it is, and all aggregates.
LEMMA DeliveredStays ==
  ASSUME NEW r \in Requests, DeliveredBy(r), aggregates' = aggregates,
         pc'[r] = pc[r], ops'[r] = ops[r], scope'[r] = scope[r], began'[r] = began[r],
         met[r] \subseteq met'[r], \A q \in met[r] : began'[q] = began[q]
  PROVE  DeliveredBy(r)'
<1>1. Covered(r)' = Covered(r) /\ Covered(r) \subseteq Matches
  BY DEF Covered
<1>2. QED
  BY <1>1, GoodStays DEF DeliveredBy

LEMMA RebuildDelivers ==
  ASSUME Types, History, Delivered, NEW r \in Requests, NEW s \in Matches \cup {All},
         Rebuild(r, s)
  PROVE  Delivered'
<1>1. /\ pc[r] = "idle" /\ pc'[r] \in {"listing", "matches"} /\ aggregates' = aggregates
      /\ ops' = ops
      /\ \A q \in Requests \ {r} :
           /\ pc'[q] = pc[q] /\ scope'[q] = scope[q] /\ began'[q] = began[q]
           /\ met[q] \subseteq met'[q]
  BY DEF Rebuild, Assemble, Goto, Types, TypeOK
<1>2. \A q \in Requests : r \notin met[q] /\ met[q] \subseteq Requests
  BY <1>1 DEF History, Types
<1>3. DeliveredBy(r)'
  BY <1>1 DEF DeliveredBy
<1>4. ASSUME NEW q \in Requests, q # r PROVE DeliveredBy(q)'
  BY <1>1, <1>2, <1>4, DeliveredStays DEF Delivered
<1>5. QED
  BY <1>3, <1>4 DEF Delivered

\* At the end of the loop every match that was there has been assembled.
LEMMA ListEndsDelivers ==
  ASSUME Types, Gathered, NEW r \in Requests, ListEnds(r)
  PROVE  DeliveredBy(r)'
<1>1. /\ pc[r] = "listing" /\ ops' = ops /\ began' = began /\ scope' = scope
      /\ scope[r] = All /\ GatheredBy(r) /\ "listing" \notin Reading
  BY DEF ListEnds, history, Types, Gathered, Reading, Parts
<1>2. \A m \in Covered(r) : m \in Matches /\ m \in listed[r]
                             /\ began[r].unified["matches"][m] > 0
  BY DEF Covered, ListEnds
<1>3. \A m \in Covered(r) : ops[r][m] # None
  BY <1>1, <1>2 DEF GatheredBy
<1>4. Covered(r)' = Covered(r)
  BY <1>1 DEF Covered
<1>5. QED
  BY <1>1, <1>3, <1>4 DEF DeliveredBy

LEMMA ReadPartDelivers ==
  ASSUME Types, History, NEW r \in Requests, ReadPart(r)
  PROVE  DeliveredBy(r)'
<1>1. /\ pc[r] \in Reading /\ current[r] \in Matches /\ scope[r] \in {All, current[r]}
      /\ began' = began /\ scope' = scope /\ "matches" \in Parts
  BY DEF ReadPart, history, Types, Reading, Parts
<1>2. CASE pc'[r] \in {"writing", "answered"}
  <2>1. ~Present(current[r]) /\ scope[r] = current[r]
    BY <1>1, <1>2 DEF ReadPart, Goto, After, Types, TypeOK, Parts
  <2>2. unified["matches"][current[r]] >= began[r].unified["matches"][current[r]]
    BY <1>1 DEF History, AtLeast, Now
  <2>3. ~(began[r].unified["matches"][current[r]] > 0)
    BY <1>1, <2>1, <2>2, NumberType DEF Present
  <2>4. Covered(r)' = {}
    BY <1>1, <2>1, <2>3, ConstantType DEF Covered
  <2>5. QED
    BY <2>4 DEF DeliveredBy
<1>3. QED
  BY <1>2 DEF DeliveredBy

LEMMA ReadPlayersDelivers ==
  ASSUME Types, NEW r \in Requests, ReadPlayers(r)
  PROVE  DeliveredBy(r)'
<1> DEFINE found == [p \in Players |-> IF p \in Mentioned(draft[r].parts) THEN players[p] ELSE 0]
           built == [draft[r] EXCEPT !.players = found]
           m == current[r]
<1>1. /\ pc[r] \in Reading /\ m \in Matches /\ scope[r] \in {All, m}
      /\ began' = began /\ scope' = scope
  BY DEF ReadPlayers, history, Types, Reading
<1>2. built # None
  <2>1. found \in [Players -> Versions] /\ draft[r] \in Aggregates
    BY ConstantType DEF Types, TypeOK
  <2> HIDE DEF found
  <2>2. built \in Aggregates
    BY <2>1 DEF Aggregates
  <2>3. QED
    BY <2>2, ConstantType
<1>3. pc'[r] \in {"writing", "answered"} => scope[r] # All /\ ops' = [ops EXCEPT ![r][m] = built]
  BY DEF ReadPlayers, Goto, Types, TypeOK
<1> HIDE DEF built, m
<1>4. pc'[r] \in {"writing", "answered"} => Covered(r)' \subseteq {m} /\ ops'[r][m] # None
  BY <1>1, <1>2, <1>3, ConstantType DEF Covered, Types, TypeOK
<1>5. QED
  BY <1>4 DEF DeliveredBy

LEMMA WriteDelivers ==
  ASSUME Types, History, Gathered, Delivered, NEW r \in Requests, NEW m \in Matches, Write(r, m)
  PROVE  Delivered'
<1>1. /\ pc[r] = "writing" /\ began' = began /\ scope' = scope
      /\ \A q \in Requests, n \in Matches :
           (q # r \/ n # m) => ops'[q][n] = ops[q][n]
      /\ \A q \in Requests \ {r} : pc'[q] = pc[q]
  BY DEF Write, Goto, history, Types, TypeOK
<1>2. ASSUME NEW q \in Requests PROVE DeliveredBy(q)'
  <2> SUFFICES ASSUME pc'[q] \in {"writing", "answered"}, NEW n \in Covered(q)'
               PROVE  ops'[q][n] # None \/ Good(q, n)'
    BY DEF DeliveredBy
  <2>1. n \in Covered(q) /\ n \in Matches
    BY <1>1 DEF Covered
  <2>2. pc[q] \in {"writing", "answered"}
    BY <1>1
  <2>3. ops[q][n] # None \/ Good(q, n)
    BY <2>1, <2>2 DEF Delivered, DeliveredBy
  <2>4. pc[q] # "idle"
    BY <2>2
  <2>5. CASE Good(q, n) \/ n = m
    BY <2>1, <2>4, <2>5, WriteKeepsGood
  <2>6. CASE n # m /\ ops[q][n] # None
    BY <1>1, <2>1, <2>6
  <2>7. QED
    BY <2>3, <2>5, <2>6
<1>3. QED
  BY <1>2 DEF Delivered

LEMMA NextDelivered ==
  Types /\ History /\ Gathered /\ Delivered /\ [Next]_vars => Delivered'
<1> SUFFICES ASSUME Types, History, Gathered, Delivered, [Next]_vars PROVE Delivered'
  OBVIOUS
<1>1. CASE Writes
  <2>1. UNCHANGED <<aggregates, pc, scope, listed, build, ops, history>>
    BY <1>1, WritesGrow
  <2>2. QED
    BY <2>1, DeliveredStays DEF history, Delivered
<1>2. ASSUME NEW r \in Requests, NEW s \in Matches \cup {All}, Rebuild(r, s) PROVE Delivered'
  BY <1>2, RebuildDelivers
<1>3. ASSUME NEW r \in Requests, Proceeds(r), DeliveredBy(r)', aggregates' = aggregates
      PROVE  Delivered'
  <2>1. ASSUME NEW q \in Requests, q # r PROVE DeliveredBy(q)'
    BY <1>3, <2>1, DeliveredStays DEF Proceeds, Delivered, Types, TypeOK
  <2>2. QED
    BY <1>3, <2>1 DEF Delivered
<1>4. ASSUME NEW r \in Requests, NEW m \in Matches, Write(r, m) PROVE Delivered'
  BY <1>4, WriteDelivers
<1>5. ASSUME NEW r \in Requests,
             \/ \E m \in Matches : List(r, m)
             \/ ListEnds(r) \/ ReadPart(r) \/ ReadPlayers(r) \/ Fails(r)
      PROVE  Delivered'
  <2>1. Proceeds(r)
    BY <1>5, StepProceeds
  <2>2. aggregates' = aggregates
    BY <1>5 DEF List, ListEnds, ReadPart, ReadPlayers, Fails
  <2>3. (\E m \in Matches : List(r, m)) \/ Fails(r) => pc'[r] \in {"matches", "raised"}
    BY DEF List, Assemble, Fails, Goto, Types, TypeOK
  <2>4. DeliveredBy(r)'
    BY <1>5, <2>3, ListEndsDelivers, ReadPartDelivers, ReadPlayersDelivers DEF DeliveredBy
  <2>5. QED
    BY <1>3, <2>1, <2>2, <2>4
<1>6. CASE UNCHANGED vars
  BY <1>6, DeliveredStays DEF vars, history, Delivered
<1>7. QED
  BY <1>1, <1>2, <1>4, <1>5, <1>6 DEF Next, Writes

\* A rebuild that answers leaves the aggregates of its matches no older than itself, or
\* than a rebuild that has overlapped it.
THEOREM RebuildsAreFresh == Spec => []RebuildIsFresh
<1> DEFINE Inv == Types /\ History /\ Gathered /\ Delivered
<1>1. Init => Inv
  BY InitTypes, InitHistory, InitGathered DEF Init, Delivered, DeliveredBy
<1>2. Inv /\ [Next]_vars => Inv'
  BY NextTypes, NextHistory, NextGathered, NextDelivered
<1>3. Inv => RebuildIsFresh
  <2> SUFFICES ASSUME Inv, NEW r \in Requests, pc[r] = "answered", NEW m \in Covered(r)
               PROVE  \E q \in met[r] : UpToDate(q, m)
    BY DEF RebuildIsFresh
  <2>1. m \in Matches
    BY DEF Covered
  <2>2. ops[r][m] = None
    BY <2>1 DEF Types, TypeOK
  <2>3. QED
    BY <2>2 DEF Delivered, DeliveredBy, Good
<1>4. QED
  BY <1>1, <1>2, <1>3, PTL DEF Spec
=============================================================================
