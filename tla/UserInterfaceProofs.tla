------------------------ MODULE UserInterfaceProofs ------------------------
(* Theorems about the pages of UserInterface: what the Data page shows, what *)
(* the builder posts, and what stands in a column of results; for every      *)
(* number of calls in flight, of collections, documents, step types and      *)
(* fields.                                                                   *)
EXTENDS UserInterface, Sequences, FiniteSetTheorems, SequenceTheorems, TLAPS

-----------------------------------------------------------------------------
(* The Data page: its types. *)

Asking == {l \in Loads : loads[l].at \in {"asking", "answered"}}

Calls == [at : {"idle", "rebuilding", "called", "asking", "answered"},
          of : Collections \cup {None}, keys : SUBSET Keys]

\* What has documents is of a collection.
OriginKnown ==
  /\ \A l \in Asking : loads[l].of \in Collections
  /\ items.of = None => items.keys = {}

LEMMA CollectionsDiffer ==
  /\ None \notin Collections /\ Aggregates \in Collections
  /\ FirstRaw \in RawSources /\ FirstUnified \in Unified
  /\ RawSources \subseteq Collections /\ Unified \subseteq Collections
  /\ Aggregates \notin RawSources /\ RawSources \cap Unified = {}
BY PageAssumption DEF Collections

LEMMA DataInitType == Init => TypeOK /\ OriginKnown
<1> SUFFICES ASSUME Init PROVE TypeOK /\ OriginKnown
  OBVIOUS
<1>1. /\ mode = "raw" /\ collection = FirstRaw /\ editor = None
      /\ items = [of |-> None, keys |-> {}]
  BY DEF Init
<1>2. PICK first \in Loads :
        loads = [l \in Loads |-> IF l = first THEN [Idle EXCEPT !.at = "called"] ELSE Idle]
  BY DEF Init
<1>3. Idle \in Calls /\ [Idle EXCEPT !.at = "called"] \in Calls
  BY DEF Idle, Calls
<1>4. loads \in [Loads -> Calls] /\ Asking = {}
  BY <1>2, <1>3 DEF Idle, Asking
<1>5. collection \in Options
  BY <1>1, PageAssumption DEF Options
<1>6. saves \in [Saves -> {None}] /\ raw \in [RawSources -> [Keys -> Payloads \cup {None}]]
      /\ overlapped = FALSE /\ switched = FALSE /\ died = FALSE
  BY DEF Init
<1>7. TypeOK
  BY <1>1, <1>4, <1>5, <1>6 DEF TypeOK, Calls
<1>8. QED
  BY <1>1, <1>4, <1>7 DEF OriginKnown

\* What load asks for, and what it is given, is of a collection.
LEMMA AskedType == TypeOK => Asked \in Collections
BY CollectionsDiffer DEF TypeOK, Asked, Options

LEMMA KeysType == ASSUME NEW c PROVE KeysOf(c) \subseteq Keys
BY DEF KeysOf

\* A call of load goes on, and is of a collection while it has an answer to come or to show.
LEMMA CallMoves ==
  ASSUME TypeOK, OriginKnown, NEW l \in Loads, NEW call \in Calls,
         call.at \in {"asking", "answered"} => call.of \in Collections,
         loads' = [loads EXCEPT ![l] = call]
  PROVE  /\ loads' \in [Loads -> Calls]
         /\ \A m \in Asking' : loads'[m].of \in Collections
BY DEF TypeOK, OriginKnown, Asking, Calls

\* What a handler's call of load or rebuild makes of the calls.
LEMMA CalledType ==
  ASSUME TypeOK, OriginKnown, NEW l \in Loads, NEW at \in {"called", "rebuilding"}
  PROVE  /\ Called(l, at) \in [Loads -> Calls]
         /\ \A m \in Loads : m # l => Called(l, at)[m] = loads[m]
         /\ Called(l, at)[l].at = at /\ Called(l, at)[l].of = loads[l].of
<1>1. loads \in [Loads -> Calls] /\ at \in {"idle", "rebuilding", "called", "asking", "answered"}
  BY DEF TypeOK, Calls
<1>2. [loads[l] EXCEPT !.at = at] \in Calls
  BY <1>1 DEF Calls
<1>3. /\ [loads[l] EXCEPT !.at = at].at = at
      /\ [loads[l] EXCEPT !.at = at].of = loads[l].of
  BY <1>1 DEF Calls
<1>4. Called(l, at) = [loads EXCEPT ![l] = [loads[l] EXCEPT !.at = at]]
  BY DEF Called
<1> QED
  BY <1>1, <1>2, <1>3, <1>4

DataType == TypeOK /\ OriginKnown

LEMMA DataNextType == DataType /\ [Next]_vars => DataType'
<1> SUFFICES ASSUME TypeOK, OriginKnown, [Next]_vars PROVE TypeOK' /\ OriginKnown'
  BY DEF DataType
<1>0. loads \in [Loads -> Calls]
  BY DEF TypeOK, Calls
<1>1. ASSUME NEW m \in {"raw", "unified", "aggregate"}, PickMode(m)
      PROVE  TypeOK' /\ OriginKnown'
  <2>1. mode' = m /\ UNCHANGED <<items, editor, loads, saves, raw, overlapped, died>>
        /\ switched' = TRUE
    BY <1>1 DEF PickMode
  <2>2. collection' \in IF m = "aggregate" THEN RawSources \cup Unified
                        ELSE IF m = "raw" THEN RawSources ELSE Unified
    BY <1>1, CollectionsDiffer DEF PickMode, TypeOK, Options
  <2>3. TypeOK'
    BY <2>1, <2>2 DEF TypeOK, Options
  <2>4. QED
    BY <2>1, <2>3 DEF OriginKnown, Asking
<1>2. ASSUME NEW l \in Loads, NEW c \in Collections, PickCollection(l, c)
      PROVE  TypeOK' /\ OriginKnown'
  <2>1. /\ loads' = Called(l, "called") /\ collection' = c /\ c \in Options
        /\ overlapped' \in BOOLEAN
        /\ UNCHANGED <<mode, items, editor, saves, raw, switched, died>>
    BY <1>2 DEF PickCollection, Call
  <2>2. mode # "aggregate"
    BY <2>1 DEF Options
  <2>3. loads' \in [Loads -> Calls] /\ \A m \in Asking' : loads'[m].of \in Collections
    BY <2>1, CalledType DEF OriginKnown, Asking
  <2>4. TypeOK'
    BY <2>1, <2>2, <2>3 DEF TypeOK, Options, Calls
  <2>5. QED
    BY <2>1, <2>3, <2>4 DEF OriginKnown
<1>3. ASSUME NEW l \in Loads, PressRebuild(l) PROVE TypeOK' /\ OriginKnown'
  <2>1. /\ loads' = Called(l, "rebuilding") /\ overlapped' \in BOOLEAN
        /\ UNCHANGED <<page, saves, raw, switched, died>>
    BY <1>3 DEF PressRebuild, Call
  <2>2. loads' \in [Loads -> Calls] /\ \A m \in Asking' : loads'[m].of \in Collections
    BY <2>1, CalledType DEF OriginKnown, Asking
  <2>3. QED
    BY <2>1, <2>2 DEF TypeOK, OriginKnown, Options, Calls, page
<1>4. ASSUME NEW l \in Loads, Begin(l) PROVE TypeOK' /\ OriginKnown'
  <2>1. /\ loads' = [loads EXCEPT ![l] = [loads[l] EXCEPT !.at = "asking", !.of = Asked]]
        /\ editor' = None /\ switched' = FALSE /\ died' = FALSE
        /\ UNCHANGED <<mode, collection, items, saves, raw, overlapped>>
    BY <1>4 DEF Begin
  <2>2. /\ [loads[l] EXCEPT !.at = "asking", !.of = Asked] \in Calls
        /\ [loads[l] EXCEPT !.at = "asking", !.of = Asked].of = Asked
    <3>1. loads[l] \in Calls
      BY <1>0
    <3>2. QED
      BY <3>1, AskedType DEF Calls
  <2>3. loads' \in [Loads -> Calls] /\ \A m \in Asking' : loads'[m].of \in Collections
    BY <2>1, <2>2, AskedType, CallMoves
  <2>4. QED
    BY <2>1, <2>3 DEF TypeOK, OriginKnown, Options, Calls
<1>5. ASSUME NEW l \in Loads, Serve(l) PROVE TypeOK' /\ OriginKnown'
  <2>1. /\ l \in Asking /\ UNCHANGED <<page, saves, raw, history>>
    BY <1>5 DEF Serve, Asking
  <2>2. PICK keys \in SUBSET Keys :
          loads' = [loads EXCEPT ![l] = [loads[l] EXCEPT !.at = "answered", !.keys = keys]]
    BY <1>5, KeysType DEF Serve
  <2>3. /\ [loads[l] EXCEPT !.at = "answered", !.keys = keys] \in Calls
        /\ [loads[l] EXCEPT !.at = "answered", !.keys = keys].of = loads[l].of
    <3>1. loads[l] \in Calls
      BY <1>0
    <3>2. QED
      BY <3>1 DEF Calls
  <2>4. loads' \in [Loads -> Calls] /\ \A m \in Asking' : loads'[m].of \in Collections
    BY <2>1, <2>2, <2>3, CallMoves DEF OriginKnown
  <2>5. QED
    BY <2>1, <2>4 DEF TypeOK, OriginKnown, Options, Calls, page, history
<1>6. ASSUME NEW l \in Loads, Show(l) \/ Dies(l) PROVE TypeOK' /\ OriginKnown'
  <2>1. loads' \in [Loads -> Calls] /\ \A m \in Asking' : loads'[m].of \in Collections
    <3>1. Idle \in Calls /\ Idle.at = "idle"
      BY DEF Idle, Calls
    <3>2. QED
      BY <1>6, <3>1, CallMoves DEF Show, Dies
  <2>2. /\ items' \in [of : Collections \cup {None}, keys : SUBSET Keys]
        /\ items'.of = None => items'.keys = {}
    <3>1. CASE Show(l)
      <4>1. /\ loads[l] \in Calls /\ loads[l].of \in Collections
            /\ items' = [of |-> loads[l].of, keys |-> loads[l].keys]
        BY <1>0, <3>1 DEF Show, OriginKnown, Asking
      <4>2. QED
        BY <4>1, CollectionsDiffer DEF Calls
    <3>2. CASE Dies(l)
      BY <3>2 DEF Dies, page, TypeOK, OriginKnown
    <3>3. QED
      BY <1>6, <3>1, <3>2
  <2>3. /\ UNCHANGED <<mode, collection, editor, saves, raw>>
        /\ overlapped' \in BOOLEAN /\ switched' \in BOOLEAN /\ died' \in BOOLEAN
    BY <1>6 DEF Show, Dies, page, history, TypeOK
  <2>4. QED
    BY <2>1, <2>2, <2>3 DEF TypeOK, OriginKnown, Options, Calls
<1>7. ASSUME NEW k \in Keys, Pick(k) PROVE TypeOK' /\ OriginKnown'
  <2>1. /\ editor' = [of |-> items.of, key |-> k, writable |-> mode = "raw"]
        /\ UNCHANGED <<mode, collection, items, loads, saves, raw, history>>
    BY <1>7 DEF Pick
  <2>2. items.of \in Collections
    BY <1>7 DEF Pick, TypeOK, OriginKnown
  <2>3. (mode = "raw") \in BOOLEAN
    OBVIOUS
  <2>4. editor' \in Editors
    BY <2>1, <2>2, <2>3 DEF Editors
  <2>5. QED
    BY <2>1, <2>4 DEF TypeOK, OriginKnown, Options, history, Asking
<1>8. ASSUME NEW v \in Saves, Store(v) \/ SaveFails(v) PROVE TypeOK' /\ OriginKnown'
  <2>1. saves' = [saves EXCEPT ![v] = None] /\ UNCHANGED <<page, loads, history>>
    BY <1>8 DEF Store, SaveFails
  <2>2. raw' \in [RawSources -> [Keys -> Payloads \cup {None}]]
    <3>1. CASE Store(v)
      <4>1. saves[v] \in [to : RawSources \cup Unified, item : Editors, payload : Payloads]
        BY <3>1 DEF Store, TypeOK
      <4>2. /\ saves[v].to \in RawSources /\ saves[v].item.key \in Keys
            /\ saves[v].payload \in Payloads
        BY <3>1, <4>1 DEF Store, Editors
      <4>3. QED
        BY <3>1, <4>2 DEF Store, TypeOK
    <3>2. CASE SaveFails(v)
      BY <3>2 DEF SaveFails, TypeOK
    <3>3. QED
      BY <1>8, <3>1, <3>2
  <2>3. QED
    BY <2>1, <2>2 DEF TypeOK, OriginKnown, Options, page, history, Asking
<1>9. ASSUME NEW v \in Saves, NEW p \in Payloads, Save(v, p) PROVE TypeOK' /\ OriginKnown'
  <2>1. /\ saves' = [saves EXCEPT ![v] = [to |-> collection, item |-> editor, payload |-> p]]
        /\ editor # None /\ UNCHANGED <<page, loads, raw, history>>
    BY <1>9 DEF Save
  <2>2. editor \in Editors /\ collection \in RawSources \cup Unified
    BY <2>1 DEF TypeOK, Options
  <2>3. [to |-> collection, item |-> editor, payload |-> p]
          \in [to : RawSources \cup Unified, item : Editors, payload : Payloads]
    BY <2>2
  <2>4. QED
    BY <2>1, <2>3 DEF TypeOK, OriginKnown, Options, page, history, Asking
<1>10. CASE UNCHANGED vars
  BY <1>10 DEF TypeOK, OriginKnown, Options, vars, page, history, Asking
<1>11. QED
  BY <1>1, <1>2, <1>3, <1>4, <1>5, <1>6, <1>7, <1>8, <1>9, <1>10 DEF Next

-----------------------------------------------------------------------------
(* The list follows the select. *)

\* A load that was called alone stays alone until the next one is called, and asks for what
\* is selected, unless the mode is switched.
OneLoad ==
  ~overlapped =>
     /\ \A l, m \in InFlight : l = m
     /\ ~died /\ ~switched =>
          /\ InFlight = {} => items.of = Asked
          /\ \A l \in Asking : loads[l].of = Asked

LEMMA InitOneLoad == Init => OneLoad
<1> SUFFICES ASSUME Init PROVE OneLoad
  OBVIOUS
<1>1. PICK first \in Loads :
        loads = [l \in Loads |-> IF l = first THEN [Idle EXCEPT !.at = "called"] ELSE Idle]
  BY DEF Init
<1>2. Idle.at = "idle" /\ [Idle EXCEPT !.at = "called"].at = "called"
  BY DEF Idle
<1>3. InFlight = {first} /\ Asking = {}
  BY <1>1, <1>2 DEF InFlight, Asking
<1>4. QED
  BY <1>3 DEF OneLoad

LEMMA NextOneLoad == DataType /\ OneLoad /\ [Next]_vars => OneLoad'
<1> SUFFICES ASSUME TypeOK, OriginKnown, OneLoad, [Next]_vars PROVE OneLoad'
  BY DEF DataType
<1>0. loads \in [Loads -> Calls]
  BY DEF TypeOK, Calls
\* One that leaves the widgets and the calls alone.
<1>1. ASSUME UNCHANGED <<mode, collection, items, loads, overlapped, switched, died>>
      PROVE  OneLoad'
  BY <1>1 DEF OneLoad, InFlight, Asking, Asked
<1>2. ASSUME NEW m \in {"raw", "unified", "aggregate"}, PickMode(m) PROVE OneLoad'
  <2>1. loads' = loads /\ switched' = TRUE /\ overlapped' = overlapped
    BY <1>2 DEF PickMode
  <2>2. InFlight' = InFlight
    BY <2>1 DEF InFlight
  <2>3. QED
    BY <2>1, <2>2 DEF OneLoad
\* A call: it is alone, or the loads overlap.
<1>3. ASSUME NEW l \in Loads, loads[l].at = "idle", overlapped' = (InFlight # {}),
             loads'[l].at \in {"called", "rebuilding"},
             \A m \in Loads : m # l => loads'[m].at = loads[m].at
      PROVE  OneLoad'
  <2>1. CASE InFlight = {}
    <3>1. InFlight' = {l} /\ Asking' = {}
      BY <1>3, <2>1 DEF InFlight, Asking
    <3>2. QED
      BY <3>1 DEF OneLoad
  <2>2. CASE InFlight # {}
    BY <1>3, <2>2 DEF OneLoad
  <2>3. QED
    BY <2>1, <2>2
<1>4. ASSUME NEW l \in Loads, NEW c \in Collections, PickCollection(l, c) PROVE OneLoad'
  <2>1. PICK calls \in [Loads -> Calls] :
          /\ calls = Called(l, "called") /\ calls[l].at = "called"
          /\ \A m \in Loads : m # l => calls[m] = loads[m]
    BY CalledType
  <2>2. QED
    BY <1>3, <1>4, <2>1 DEF PickCollection, Call
<1>5. ASSUME NEW l \in Loads, PressRebuild(l) PROVE OneLoad'
  <2>1. PICK calls \in [Loads -> Calls] :
          /\ calls = Called(l, "rebuilding") /\ calls[l].at = "rebuilding"
          /\ \A m \in Loads : m # l => calls[m] = loads[m]
    BY CalledType
  <2>2. QED
    BY <1>3, <1>5, <2>1 DEF PressRebuild, Call
\* A load goes on: if it was alone, its call is for what is selected.
<1>6. ASSUME NEW l \in Loads, l \in InFlight, InFlight' = InFlight,
             UNCHANGED <<mode, collection, items, overlapped>>,
             ~overlapped /\ ~died' /\ ~switched' => loads'[l].of = Asked
      PROVE  OneLoad'
  <2>1. Asking' \subseteq InFlight'
    BY DEF Asking, InFlight
  <2>2. Asked' = Asked
    BY <1>6 DEF Asked
  <2>3. QED
    BY <1>6, <2>1, <2>2 DEF OneLoad
<1>7. ASSUME NEW l \in Loads, Begin(l) PROVE OneLoad'
  <2>1. /\ loads' = [loads EXCEPT ![l] = [loads[l] EXCEPT !.at = "asking", !.of = Asked]]
        /\ loads[l].at \in {"called", "rebuilding"}
        /\ UNCHANGED <<mode, collection, items, overlapped>>
    BY <1>7 DEF Begin
  <2>2. loads'[l].at = "asking" /\ loads'[l].of = Asked
    BY <1>0, <2>1 DEF Calls
  <2>3. \A m \in Loads : m # l => loads'[m] = loads[m]
    BY <1>0, <2>1
  <2>4. l \in InFlight /\ InFlight' = InFlight
    BY <2>1, <2>2, <2>3 DEF InFlight
  <2>5. QED
    BY <1>6, <2>1, <2>2, <2>4
<1>8. ASSUME NEW l \in Loads, Serve(l) PROVE OneLoad'
  <2>1. PICK keys \in SUBSET Keys :
          loads' = [loads EXCEPT ![l] = [loads[l] EXCEPT !.at = "answered", !.keys = keys]]
    BY <1>8, KeysType DEF Serve
  <2>2. loads'[l].at = "answered" /\ loads'[l].of = loads[l].of
    BY <1>0, <2>1 DEF Calls
  <2>3. \A m \in Loads : m # l => loads'[m] = loads[m]
    BY <1>0, <2>1
  <2>4. /\ loads[l].at = "asking"
        /\ UNCHANGED <<mode, collection, items, overlapped, switched, died>>
    BY <1>8 DEF Serve, page, history
  <2>5. l \in InFlight /\ InFlight' = InFlight /\ l \in Asking
    BY <2>2, <2>3, <2>4 DEF InFlight, Asking
  <2>6. QED
    BY <1>6, <2>2, <2>4, <2>5 DEF OneLoad
<1>9. ASSUME NEW l \in Loads, Show(l) PROVE OneLoad'
  <2>1. /\ loads[l].at = "answered" /\ loads' = [loads EXCEPT ![l] = Idle]
        /\ items'.of = loads[l].of
        /\ UNCHANGED <<mode, collection, overlapped, switched, died>>
    BY <1>9 DEF Show, history
  <2>2. l \in InFlight /\ l \in Asking /\ InFlight' = InFlight \ {l}
    BY <1>0, <2>1 DEF InFlight, Asking, Idle
  <2>3. Asking' \subseteq InFlight' /\ Asked' = Asked
    BY <2>1 DEF Asking, InFlight, Asked
  <2>4. QED
    BY <2>1, <2>2, <2>3 DEF OneLoad
<1>10. ASSUME NEW l \in Loads, Dies(l) PROVE OneLoad'
  <2>1. InFlight' \subseteq InFlight /\ died' = TRUE /\ overlapped' = overlapped
    BY <1>0, <1>10 DEF Dies, InFlight, Idle
  <2>2. QED
    BY <2>1 DEF OneLoad
<1>11. QED
  BY <1>1, <1>2, <1>4, <1>5, <1>7, <1>8, <1>9, <1>10
  DEF Next, Pick, Store, SaveFails, Save, vars, page, history

-----------------------------------------------------------------------------
(* A tab that is on another page leaves this one as its opening was. *)

LEMMA TabMovesData == [TabNext]_everything => [Next]_vars
BY DEF TabNext, everything

\* Whatever loads have been called, answered or shown: when none is in flight, the list is
\* of what the toggle and the select say (pages.py load, sync_collection), if the last load
\* was called alone and did not die, and the toggle has not been touched since.
THEOREM ListFollows == TabSpec => []ListFollowsSelect
<1>1. TabInit => DataType /\ OneLoad
  BY DataInitType, InitOneLoad DEF TabInit, DataType
<1>2. DataType /\ OneLoad /\ [TabNext]_everything => (DataType /\ OneLoad)'
  BY DataNextType, NextOneLoad, TabMovesData
<1>3. OneLoad => ListFollowsSelect
  BY DEF OneLoad, ListFollowsSelect, Follows
<1>4. QED
  BY <1>1, <1>2, <1>3, PTL DEF TabSpec

-----------------------------------------------------------------------------
(* The pages of results: what stands in the column. *)

Waiting == Results!InFlight

ResultsType ==
  /\ kind \in {"lineage", "preview", "runs"}
  /\ chosen \in Choices \cup {Unchosen}
  /\ column \in Seq(Choices \cup {Spinner})
  /\ asks \in [Asks -> Choices \cup {Unchosen}]
  /\ asked \in [last : Choices \cup {Unchosen}, alone : BOOLEAN, died : BOOLEAN]

\* A call that was made alone is alone until the next press, is about the last choice, and
\* has the column to itself.
AloneStands ==
  /\ asked.last # Unchosen
  /\ \A a, b \in Waiting : a = b
  /\ \A a \in Waiting : asks[a] = asked.last
  /\ Waiting = {} => column = <<asked.last>>
  /\ kind # "preview" /\ Waiting # {} => column = <<>>

\* Each call fills one place of the column at most, for a press empties it; those of a
\* preview share one, which is the spinner until one of them is answered.
Answered ==
  /\ asked.last = Unchosen => Waiting = {} /\ column = <<>>
  /\ asked.last # Unchosen => Cardinality(Asks) >= 1
  /\ chosen = Unchosen => asked.last = Unchosen
  /\ kind # "preview" =>
       /\ \A i \in DOMAIN column : column[i] # Spinner
       /\ Len(column) + Cardinality(Waiting) <= Cardinality(Asks)
  /\ (kind = "preview" /\ asked.last # Unchosen) =>
       /\ Len(column) = 1
       /\ column[1] = Spinner => Waiting # {} \/ asked.died
  /\ asked.alone /\ ~asked.died => AloneStands

\* ResultPages counts with operators of its own instance.
LEMMA SameCounts ==
  ASSUME NEW S
  PROVE  Results!Cardinality(S) = Cardinality(S) /\ (Results!IsFiniteSet(S) <=> IsFiniteSet(S))
BY DEF Results!Cardinality, Cardinality, Results!IsFiniteSet, IsFiniteSet

LEMMA WaitingIsFinite ==
  /\ IsFiniteSet(Asks) /\ Unchosen \notin Choices /\ Spinner \notin Choices
  /\ Waiting \subseteq Asks /\ IsFiniteSet(Waiting)
  /\ Cardinality(Waiting) \in Nat /\ Cardinality(Asks) \in Nat
  /\ Cardinality(Waiting) <= Cardinality(Asks)
<1>1. IsFiniteSet(Asks) /\ Unchosen \notin Choices /\ Spinner \notin Choices
  BY ResultsOK, SameCounts DEF Results!ResultsAssumption
<1>2. Waiting \subseteq Asks
  BY DEF Waiting, Results!InFlight
<1>3. QED
  BY <1>1, <1>2, FS_Subset, FS_CardinalityType

LEMMA AnsweredMeans ==
  ResultsType /\ Answered => Results!TypeOK /\ Results!AnswersStand
<1> SUFFICES ASSUME ResultsType, Answered PROVE Results!TypeOK /\ Results!AnswersStand
  OBVIOUS
<1>1. Cardinality(Waiting) \in Nat /\ Cardinality(Asks) \in Nat /\ Len(column) \in Nat
  BY WaitingIsFinite DEF ResultsType
<1>2. (kind = "preview" /\ asked.last = Unchosen) => Len(column) = 0
  BY DEF Answered
<1>3. Len(column) <= Cardinality(Asks) /\ (kind = "preview" => Len(column) <= 1)
  <2>1. CASE kind = "preview"
    <3>1. Len(column) = 0 \/ (Len(column) = 1 /\ Cardinality(Asks) >= 1)
      BY <1>2, <2>1 DEF Answered
    <3>2. QED
      BY <1>1, <3>1
  <2>2. CASE kind # "preview"
    <3>1. Len(column) + Cardinality(Waiting) <= Cardinality(Asks)
      BY <2>2 DEF Answered
    <3>2. QED
      BY <1>1, <2>2, <3>1
  <2>3. QED
    BY <2>1, <2>2
<1>4. Results!TypeOK
  BY <1>3, SameCounts DEF ResultsType, Results!TypeOK
<1>5. ASSUME Waiting = {}, asked.last # Unchosen, ~asked.died
      PROVE  /\ kind = "preview" => Len(column) = 1 /\ column[1] # Spinner
             /\ asked.alone => column = <<asked.last>>
  BY <1>5 DEF Answered, AloneStands
<1>6. QED
  BY <1>3, <1>4, <1>5 DEF Results!AnswersStand, Waiting

LEMMA InitAnswered == Results!Init => ResultsType /\ Answered
<1> SUFFICES ASSUME Results!Init PROVE ResultsType /\ Answered
  OBVIOUS
<1>1. /\ column = <<>> /\ asks = [a \in Asks |-> Unchosen]
      /\ asked = [last |-> Unchosen, alone |-> FALSE, died |-> FALSE]
      /\ kind \in {"lineage", "preview", "runs"} /\ chosen \in Choices \cup {Unchosen}
  BY DEF Results!Init
<1>2. Waiting = {} /\ Cardinality(Waiting) = 0 /\ Cardinality(Asks) \in Nat
  BY <1>1, FS_EmptySet, WaitingIsFinite DEF Waiting, Results!InFlight, Results!Idle
<1>3. ResultsType
  BY <1>1 DEF ResultsType
<1>4. column = <<>> /\ Len(column) = 0 /\ DOMAIN column = {}
  BY <1>1
<1>5. QED
  BY <1>1, <1>2, <1>3, <1>4 DEF Answered

\* A call is answered, or dies.
LEMMA OneLessWaiting ==
  ASSUME ResultsType, NEW a \in Waiting, asks' = [asks EXCEPT ![a] = Unchosen]
  PROVE  /\ asks' \in [Asks -> Choices \cup {Unchosen}] /\ asks[a] \in Choices
         /\ Waiting' = Waiting \ {a} /\ Cardinality(Waiting') = Cardinality(Waiting) - 1
         /\ \A b \in Waiting' : asks'[b] = asks[b]
         /\ Cardinality(Waiting) \in Nat /\ Cardinality(Waiting) >= 1
         /\ Cardinality(Waiting) = 1 => Waiting' = {}
<1>1. Waiting' = Waiting \ {a} /\ \A b \in Waiting' : asks'[b] = asks[b]
  BY DEF ResultsType, Waiting, Results!InFlight, Results!Idle
<1>2. Cardinality(Waiting \ {a}) = Cardinality(Waiting) - 1
  BY WaitingIsFinite, FS_RemoveElement
<1>3. Waiting # {} /\ Cardinality(Waiting) # 0
  BY WaitingIsFinite, FS_EmptySet
<1>4. asks[a] \in Choices /\ asks' \in [Asks -> Choices \cup {Unchosen}]
  BY DEF ResultsType, Waiting, Results!InFlight, Results!Idle
<1>5. Cardinality(Waiting) = 1 => Waiting \ {a} = {}
  <2>1. IsFiniteSet(Waiting \ {a})
    BY WaitingIsFinite, FS_RemoveElement
  <2>2. QED
    BY <1>2, <2>1, FS_EmptySet
<1>6. QED
  BY <1>1, <1>2, <1>3, <1>4, <1>5, WaitingIsFinite

LEMMA NextAnswered ==
  ResultsType /\ Answered /\ [Results!Next]_results => ResultsType' /\ Answered'
<1> SUFFICES ASSUME ResultsType, Answered, [Results!Next]_results
             PROVE  ResultsType' /\ Answered'
  OBVIOUS
<1>0. /\ Cardinality(Asks) \in Nat /\ Len(column) \in Nat /\ Cardinality(Waiting) \in Nat
  BY WaitingIsFinite DEF ResultsType
<1>1. ASSUME NEW c \in Choices, Results!Choose(c) PROVE ResultsType' /\ Answered'
  <2>1. chosen' = c /\ c # Unchosen /\ UNCHANGED <<kind, column, asks, asked>>
    BY <1>1, WaitingIsFinite DEF Results!Choose
  <2>2. Waiting' = Waiting
    BY <2>1 DEF Waiting, Results!InFlight, Results!Idle
  <2>3. QED
    BY <2>1, <2>2 DEF ResultsType, Answered, AloneStands
<1>2. ASSUME NEW a \in Asks, Results!Press(a) PROVE ResultsType' /\ Answered'
  <2>1. /\ asks[a] = Unchosen /\ chosen \in Choices
        /\ column' = IF kind = "preview" THEN <<Spinner>> ELSE <<>>
        /\ asks' = [asks EXCEPT ![a] = chosen]
        /\ asked' = [last |-> chosen, alone |-> Waiting = {}, died |-> FALSE]
        /\ UNCHANGED <<kind, chosen>>
    BY <1>2 DEF Results!Press, Results!Idle, Waiting, ResultsType
  <2>2. /\ asks' \in [Asks -> Choices \cup {Unchosen}]
        /\ a \notin Waiting /\ Waiting' = Waiting \cup {a}
    BY <2>1, WaitingIsFinite DEF ResultsType, Waiting, Results!InFlight, Results!Idle
  <2>3. Cardinality(Waiting') = Cardinality(Waiting) + 1 /\ Cardinality(Waiting') \in Nat
    <3>1. Cardinality(Waiting \cup {a}) = Cardinality(Waiting) + 1
      BY <2>2, WaitingIsFinite, FS_AddElement
    <3>2. QED
      BY <1>0, <2>2, <3>1
  <2>4. Cardinality(Waiting') <= Cardinality(Asks)
    <3>1. Waiting \cup {a} \subseteq Asks
      BY WaitingIsFinite
    <3>2. QED
      BY <2>2, <3>1, WaitingIsFinite, FS_Subset
  <2>5. Cardinality(Asks) >= 1 /\ Cardinality(Asks)' = Cardinality(Asks)
    BY <1>0, <2>3, <2>4
  <2>6. /\ asked'.last = chosen /\ asked'.alone = (Waiting = {}) /\ asked'.died = FALSE
        /\ asked' \in [last : Choices \cup {Unchosen}, alone : BOOLEAN, died : BOOLEAN]
    BY <2>1
  <2>7. /\ column' \in Seq(Choices \cup {Spinner})
        /\ kind = "preview" => Len(column') = 1
        /\ kind # "preview" => column' = <<>> /\ Len(column') = 0 /\ DOMAIN column' = {}
    <3>1. CASE kind = "preview"
      BY <2>1, <3>1
    <3>2. CASE kind # "preview"
      BY <2>1, <3>2
    <3>3. QED
      BY <3>1, <3>2
  <2>8. ResultsType'
    BY <2>1, <2>2, <2>6, <2>7 DEF ResultsType
  <2>9. Waiting' # {} /\ chosen # Unchosen /\ kind' = kind /\ chosen' = chosen
    BY <2>1, <2>2, WaitingIsFinite
  <2>10. asked'.alone => AloneStands'
    <3>1. Waiting = {} => \A b \in Waiting' : b = a
      BY <2>2
    <3>2. asks'[a] = chosen
      BY <2>1 DEF ResultsType
    <3>3. QED
      BY <2>6, <2>7, <2>9, <3>1, <3>2 DEF AloneStands
  <2>11. kind # "preview" => Len(column') + Cardinality(Waiting') <= Cardinality(Asks)
    BY <1>0, <2>3, <2>4, <2>7
  <2>12. QED
    BY <2>5, <2>6, <2>7, <2>8, <2>9, <2>10, <2>11 DEF Answered
<1>3. ASSUME NEW a \in Asks, Results!Answer(a) PROVE ResultsType' /\ Answered'
  <2>1. /\ a \in Waiting
        /\ column' = IF kind = "preview" THEN <<asks[a]>> ELSE Append(column, asks[a])
        /\ asks' = [asks EXCEPT ![a] = Unchosen] /\ UNCHANGED <<kind, chosen, asked>>
    BY <1>3 DEF Results!Answer, Waiting
  <2>2. /\ asks' \in [Asks -> Choices \cup {Unchosen}] /\ asks[a] \in Choices
        /\ Waiting' = Waiting \ {a} /\ Cardinality(Waiting') = Cardinality(Waiting) - 1
    BY <2>1, OneLessWaiting
  <2>3. asks[a] # Spinner /\ asked.last # Unchosen
    BY <2>1, <2>2, WaitingIsFinite DEF Answered
  <2>4. ResultsType'
    <3>1. column' \in Seq(Choices \cup {Spinner})
      <4>1. asks[a] \in Choices \cup {Spinner} /\ column \in Seq(Choices \cup {Spinner})
        BY <2>2 DEF ResultsType
      <4>2. CASE kind = "preview"
        BY <2>1, <4>1, <4>2
      <4>3. CASE kind # "preview"
        BY <2>1, <4>1, <4>3
      <4>4. QED
        BY <4>2, <4>3
    <3>2. QED
      BY <2>1, <2>2, <3>1 DEF ResultsType
  <2>5. asked.alone /\ ~asked.died => AloneStands'
    <3> SUFFICES ASSUME asked.alone, ~asked.died PROVE AloneStands'
      OBVIOUS
    <3>1. AloneStands
      BY DEF Answered
    <3>2. Waiting' = {} /\ asks[a] = asked.last
      BY <2>1, <2>2, <3>1 DEF AloneStands
    <3>3. column' = <<asked.last>>
      <4>1. CASE kind = "preview"
        BY <2>1, <3>2, <4>1
      <4>2. CASE kind # "preview"
        <5>1. column = <<>>
          BY <2>1, <3>1, <4>2 DEF AloneStands
        <5>2. QED
          BY <2>1, <3>2, <4>2, <5>1
      <4>3. QED
        BY <4>1, <4>2
    <3>4. QED
      BY <2>1, <2>3, <3>2, <3>3 DEF AloneStands
  <2>6. CASE kind = "preview"
    <3>1. Len(column') = 1 /\ column'[1] = asks[a]
      BY <2>1, <2>6
    <3>2. QED
      BY <2>1, <2>3, <2>4, <2>5, <2>6, <3>1 DEF Answered
  <2>7. CASE kind # "preview"
    <3>1. /\ Len(column') = Len(column) + 1 /\ column' = Append(column, asks[a])
          /\ column \in Seq(Choices \cup {Spinner})
      BY <2>1, <2>7 DEF ResultsType
    <3>2. \A i \in DOMAIN column' : column'[i] # Spinner
      <4>1. \A i \in DOMAIN column : column[i] # Spinner
        BY <2>7 DEF Answered
      <4>2. QED
        BY <2>3, <3>1, <4>1
    <3>3. Len(column') + Cardinality(Waiting') <= Cardinality(Asks)
      <4>1. Len(column) + Cardinality(Waiting) <= Cardinality(Asks)
        BY <2>7 DEF Answered
      <4>2. QED
        BY <1>0, <2>2, <3>1, <4>1
    <3>4. QED
      BY <2>1, <2>3, <2>4, <2>5, <2>7, <3>2, <3>3 DEF Answered
  <2>8. QED
    BY <2>6, <2>7
<1>4. ASSUME NEW a \in Asks, Results!Dies(a) PROVE ResultsType' /\ Answered'
  <2>1. /\ a \in Waiting /\ asks' = [asks EXCEPT ![a] = Unchosen]
        /\ asked' = [asked EXCEPT !.died = TRUE] /\ UNCHANGED <<kind, chosen, column>>
    BY <1>4 DEF Results!Dies, Waiting
  <2>2. /\ asks' \in [Asks -> Choices \cup {Unchosen}]
        /\ Waiting' = Waiting \ {a} /\ Cardinality(Waiting') = Cardinality(Waiting) - 1
    BY <2>1, OneLessWaiting
  <2>3. /\ asked'.last = asked.last /\ asked'.died = TRUE
        /\ asked' \in [last : Choices \cup {Unchosen}, alone : BOOLEAN, died : BOOLEAN]
    BY <2>1 DEF ResultsType
  <2>4. ResultsType'
    BY <2>1, <2>2, <2>3 DEF ResultsType
  <2>5. /\ asked.last = Unchosen => Waiting' = {}
        /\ kind # "preview" => Len(column) + Cardinality(Waiting') <= Cardinality(Asks)
    BY <1>0, <2>2 DEF Answered
  <2>6. QED
    BY <2>1, <2>3, <2>4, <2>5 DEF Answered
<1>5. CASE Results!PressUnchosen
  <2>1. /\ chosen = Unchosen /\ column' = <<>> /\ kind = "preview"
        /\ UNCHANGED <<kind, chosen, asks, asked>>
    BY <1>5 DEF Results!PressUnchosen
  <2>2. Waiting' = Waiting /\ asked.last = Unchosen /\ column = <<>>
    BY <2>1 DEF Waiting, Results!InFlight, Results!Idle, Answered
  <2>3. column' = column
    BY <2>1, <2>2
  <2>4. QED
    BY <2>1, <2>2, <2>3 DEF ResultsType, Answered, AloneStands
<1>6. CASE UNCHANGED results
  <2>1. UNCHANGED <<kind, chosen, column, asks, asked>> /\ Waiting' = Waiting
    BY <1>6 DEF results, Waiting, Results!InFlight, Results!Idle
  <2>2. QED
    BY <2>1 DEF ResultsType, Answered, AloneStands
<1>7. QED
  BY <1>1, <1>2, <1>3, <1>4, <1>5, <1>6 DEF Results!Next

\* However presses, changes of the choice, answers and lost calls follow each other: a
\* preview has one entry at most, and once every call is answered one answer and no spinner;
\* the answer of a press that overlapped no other is what a column then has, and all of it
\* (pages.py load, do_preview).  A press that overlapped another one, or a call that was not
\* answered, is not promised this.
THEOREM AnswersAreOfTheirCalls == TabSpec => []AnswersStand
<1>1. TabInit => ResultsType /\ Answered
  BY InitAnswered DEF TabInit
<1>2. ResultsType /\ Answered /\ [TabNext]_everything => (ResultsType /\ Answered)'
  <2>1. [TabNext]_everything => [Results!Next]_results
    BY DEF TabNext, everything
  <2>2. QED
    BY <2>1, NextAnswered
<1>3. ResultsType /\ Answered => AnswersStand
  BY AnsweredMeans DEF AnswersStand
<1>4. QED
  BY <1>1, <1>2, <1>3, PTL DEF TabSpec

-----------------------------------------------------------------------------
(* The pipeline builder: what is typed is what is saved. *)

Steps == [type : Types, config : Build!Configs, form : Build!Forms, typed : Build!Forms,
          fresh : SUBSET Fields, kept : Build!Configs]

\* The form of a step means what was typed into it or what it has shown since, its config
\* what had been typed when it was collected, and all that is typed but what is fresh.
TrueToTyped(step) ==
  /\ Build!Meaning(step.type, step.form) = Build!Meaning(step.type, step.typed)
  /\ Build!Meaning(step.type, step.config) = Build!Meaning(step.type, step.kept)
  /\ \A f \in Fields \ step.fresh :
       Build!Meaning(step.type, step.config)[f] = Build!Meaning(step.type, step.typed)[f]

BuilderInv ==
  /\ steps \in Seq(Steps) /\ Len(steps) <= MaxSteps
  /\ \A i \in DOMAIN steps : TrueToTyped(steps[i])
  /\ \A i \in DOMAIN sent : sent[i].config \in Build!Configs
  /\ TypedIsSaved

LEMMA ValuesDiffer ==
  /\ MaxSteps \in Nat /\ JsonFields \subseteq Fields
  /\ Empty \notin Values /\ Garbled \notin Values /\ Empty # Garbled /\ EmptyObject \in Values
  /\ Defaults \in [Types -> [Fields -> Values \cup {Empty}]]
BY BuilderOK DEF Build!BuilderAssumption

\* A form that is drawn from a config has no text that does not parse, and means what the
\* config means: a default is drawn, and an empty object is as good as none.
LEMMA DrawnMeans ==
  ASSUME NEW type \in Types, NEW config \in Build!Configs
  PROVE  /\ Build!Drawn(type, config) \in Build!Forms
         /\ Build!Parses(Build!Drawn(type, config))
         /\ Build!Meaning(type, Build!Drawn(type, config)) = Build!Meaning(type, config)
<1> DEFINE value(f) == IF config[f] # Empty THEN config[f] ELSE Defaults[type][f]
           drawn(f) == IF value(f) = EmptyObject THEN Empty ELSE value(f)
<1>1. ASSUME NEW f \in Fields
      PROVE  /\ drawn(f) \in Values \cup {Empty} /\ drawn(f) # EmptyObject
             /\ (IF drawn(f) \in {Empty, EmptyObject} THEN Defaults[type][f] ELSE drawn(f))
                  = (IF config[f] \in {Empty, EmptyObject} THEN Defaults[type][f] ELSE config[f])
  <2>1. config[f] \in Values \cup {Empty} /\ Defaults[type][f] \in Values \cup {Empty}
    BY ValuesDiffer DEF Build!Configs
  <2>2. QED
    BY <2>1, ValuesDiffer
<1>2. Build!Drawn(type, config) = [f \in Fields |-> drawn(f)]
  BY DEF Build!Drawn
<1> HIDE DEF drawn, value
<1>3. Build!Drawn(type, config) \in [Fields -> Values \cup {Empty, Garbled}]
  BY <1>1, <1>2
<1>4. \A f \in Fields : Build!Drawn(type, config)[f] \notin {Garbled, EmptyObject}
  BY <1>1, <1>2, ValuesDiffer
<1>5. Build!Meaning(type, Build!Drawn(type, config)) = Build!Meaning(type, config)
  BY <1>1, <1>2 DEF Build!Meaning
<1>6. QED
  BY <1>3, <1>4, <1>5 DEF Build!Forms, Build!Parses

\* _snapshot collects the forms that parse, and leaves the rest of a step.
LEMMA CollectedStep ==
  ASSUME NEW step \in Steps, TrueToTyped(step)
  PROVE  /\ Build!Collected(step) \in Steps /\ TrueToTyped(Build!Collected(step))
         /\ Build!Collected(step).type = step.type
         /\ Build!Parses(step.form) => /\ Build!Collected(step).config = step.form
                                       /\ Build!Collected(step).kept = step.typed
         /\ ~Build!Parses(step.form) => Build!Collected(step) = step
<1>1. CASE Build!Parses(step.form)
  <2>1. step.form \in Build!Configs /\ step.form \in Build!Forms /\ step.type \in Types
    BY <1>1 DEF Steps, Build!Parses, Build!Forms, Build!Configs
  <2>2. ASSUME NEW f \in Fields PROVE step.typed[f] # Garbled
    <3>1. Build!Meaning(step.type, step.form)[f] = Build!Meaning(step.type, step.typed)[f]
      BY DEF TrueToTyped
    <3>2. /\ step.form[f] \in Values \cup {Empty}
          /\ Defaults[step.type][f] \in Values \cup {Empty}
      BY <2>1, ValuesDiffer DEF Build!Configs
    <3>3. QED
      BY <3>1, <3>2, ValuesDiffer DEF Build!Meaning
  <2>3. step.typed \in Build!Configs
    BY <2>2 DEF Steps, Build!Forms, Build!Configs
  <2>4. Build!Collected(step) = [step EXCEPT !.config = step.form, !.kept = step.typed, !.fresh = {}]
    BY <1>1 DEF Build!Collected
  <2>5. PICK new : new = Build!Collected(step)
    OBVIOUS
  <2>6. /\ new \in Steps /\ new.type = step.type /\ new.config = step.form
        /\ new.kept = step.typed /\ new.form = step.form /\ new.typed = step.typed
    BY <2>1, <2>3, <2>4, <2>5 DEF Steps
  <2>7. TrueToTyped(new)
    BY <2>6 DEF TrueToTyped
  <2>8. QED
    BY <1>1, <2>5, <2>6, <2>7
<1>2. CASE ~Build!Parses(step.form)
  BY <1>2 DEF Build!Collected
<1>3. QED
  BY <1>1, <1>2

LEMMA SnapshotSteps ==
  ASSUME NEW list \in Seq(Steps), \A i \in DOMAIN list : TrueToTyped(list[i])
  PROVE  /\ Build!Snapshot(list) \in Seq(Steps)
         /\ Len(Build!Snapshot(list)) = Len(list)
         /\ DOMAIN Build!Snapshot(list) = DOMAIN list
         /\ \A i \in DOMAIN list : /\ Build!Snapshot(list)[i] = Build!Collected(list[i])
                                   /\ TrueToTyped(Build!Snapshot(list)[i])
<1>1. \A i \in DOMAIN list : /\ Build!Collected(list[i]) \in Steps
                             /\ TrueToTyped(Build!Collected(list[i]))
  BY CollectedStep
<1>2. Build!Snapshot(list) = [i \in 1..Len(list) |-> Build!Collected(list[i])]
  BY DEF Build!Snapshot
<1>3. QED
  BY <1>1, <1>2

LEMMA FormsAreSeq ==
  ASSUME NEW S, NEW n \in Nat, NEW f \in [1..n -> S]
  PROVE  f \in Seq(S) /\ Len(f) = n
OBVIOUS

\* A step whose form is drawn anew is true to what was typed and to what its form shows of
\* the fields that were fresh.
Shown(step) ==
  [f \in Fields |-> IF f \in step.fresh THEN Build!Drawn(step.type, step.config)[f]
                    ELSE step.typed[f]]

Anew(step) ==
  [step EXCEPT !.fresh = {}, !.typed = Shown(step),
               !.form = Build!Drawn(step.type, step.config)]

LEMMA DrawnStep ==
  ASSUME NEW step \in Steps, TrueToTyped(step)
  PROVE  Anew(step) \in Steps /\ TrueToTyped(Anew(step))
<1> DEFINE drawn == Build!Drawn(step.type, step.config)
           typed == [f \in Fields |-> IF f \in step.fresh THEN drawn[f] ELSE step.typed[f]]
           new == [step EXCEPT !.fresh = {}, !.typed = typed, !.form = drawn]
<1>1. /\ step.type \in Types /\ step.config \in Build!Configs /\ step.typed \in Build!Forms
      /\ step.kept \in Build!Configs
  BY DEF Steps
<1>2. /\ drawn \in Build!Forms
      /\ Build!Meaning(step.type, drawn) = Build!Meaning(step.type, step.config)
  BY <1>1, DrawnMeans
<1> HIDE DEF drawn
<1>3. typed \in Build!Forms
  BY <1>1, <1>2 DEF Build!Forms
<1>4. ASSUME NEW f \in Fields
      PROVE  Build!Meaning(step.type, typed)[f] = Build!Meaning(step.type, step.config)[f]
  <2>1. CASE f \in step.fresh
    <3>1. typed[f] = drawn[f]
      BY <2>1
    <3>2. Build!Meaning(step.type, typed)[f] = Build!Meaning(step.type, drawn)[f]
      BY <3>1 DEF Build!Meaning
    <3>3. QED
      BY <1>2, <3>2
  <2>2. CASE f \notin step.fresh
    <3>1. typed[f] = step.typed[f]
      BY <2>2
    <3>2. Build!Meaning(step.type, typed)[f] = Build!Meaning(step.type, step.typed)[f]
      BY <3>1 DEF Build!Meaning
    <3>3. QED
      BY <2>2, <3>2 DEF TrueToTyped
  <2>3. QED
    BY <2>1, <2>2
<1> HIDE DEF typed
<1>5. Build!Meaning(step.type, typed) = Build!Meaning(step.type, step.config)
  BY <1>4 DEF Build!Meaning
<1>6. /\ new \in Steps /\ new.type = step.type /\ new.config = step.config
      /\ new.kept = step.kept /\ new.form = drawn /\ new.typed = typed
  BY <1>1, <1>2, <1>3 DEF Steps
<1> HIDE DEF new
<1>7. TrueToTyped(new)
  BY <1>2, <1>5, <1>6 DEF TrueToTyped
<1>8. QED
  BY <1>6, <1>7 DEF new, typed, drawn, Anew, Shown

\* So is a list that is.
LEMMA DrawnAnew ==
  ASSUME NEW list \in Seq(Steps), \A i \in DOMAIN list : TrueToTyped(list[i])
  PROVE  LET new == Build!Render(Build!Dropped(list))
         IN /\ new \in Seq(Steps) /\ Len(new) = Len(list) /\ DOMAIN new = DOMAIN list
            /\ \A i \in DOMAIN list : TrueToTyped(new[i])
<1> DEFINE new == Build!Render(Build!Dropped(list))
<1>1. ASSUME NEW i \in DOMAIN list PROVE Anew(list[i]) \in Steps /\ TrueToTyped(Anew(list[i]))
  BY DrawnStep
<1>2. new = [i \in DOMAIN list |-> Anew(list[i])]
  <2>1. ASSUME NEW i \in DOMAIN list PROVE new[i] = Anew(list[i])
    <3>1. /\ DOMAIN Build!Dropped(list) = DOMAIN list
          /\ Build!Dropped(list)[i] = [list[i] EXCEPT !.fresh = {}, !.typed = Shown(list[i])]
      BY DEF Build!Dropped, Shown
    <3>2. list[i] \in Steps
      OBVIOUS
    <3>3. new[i] = [Build!Dropped(list)[i] EXCEPT
                      !.form = Build!Drawn(Build!Dropped(list)[i].type,
                                           Build!Dropped(list)[i].config)]
      BY <3>1 DEF Build!Render
    <3>4. /\ Build!Dropped(list)[i].type = list[i].type
          /\ Build!Dropped(list)[i].config = list[i].config
      BY <3>1, <3>2 DEF Steps
    <3>5. QED
      BY <3>1, <3>2, <3>3, <3>4 DEF Steps, Anew
  <2>2. new = [i \in DOMAIN list |-> new[i]]
    BY DEF Build!Render, Build!Dropped
  <2> HIDE DEF new
  <2>3. QED
    BY <2>1, <2>2
<1> HIDE DEF new
<1>3. new \in [1..Len(list) -> Steps] /\ Len(list) \in Nat
  BY <1>1, <1>2
<1>4. QED
  BY <1>1, <1>2, <1>3, FormsAreSeq DEF new

LEMMA Redrawn ==
  ASSUME NEW list \in Seq(Steps), \A i \in DOMAIN list : TrueToTyped(list[i])
  PROVE  /\ Build!Redraw(list) \in Seq(Steps) /\ Len(Build!Redraw(list)) = Len(list)
         /\ DOMAIN Build!Redraw(list) = DOMAIN list
         /\ \A i \in DOMAIN list : TrueToTyped(Build!Redraw(list)[i])
<1>1. PICK kept \in Seq(Steps) : kept = Build!Snapshot(list)
  BY SnapshotSteps
<1>2. DOMAIN kept = DOMAIN list /\ Len(kept) = Len(list) /\ \A i \in DOMAIN kept : TrueToTyped(kept[i])
  BY <1>1, SnapshotSteps
<1>3. Build!Redraw(list) = Build!Render(Build!Dropped(kept))
  BY <1>1 DEF Build!Redraw
<1>4. QED
  BY <1>2, <1>3, DrawnAnew

\* A part of a sequence, from its m-th to its n-th element.
IsPart(t, s, m, n) ==
  /\ t = SubSeq(s, m, n) /\ Len(t) = n - m + 1
  /\ \A k \in 1..(n - m + 1) : t[k] = s[m + k - 1]

LEMMA PartExists ==
  ASSUME NEW S, NEW s \in Seq(S), NEW m \in Int, NEW n \in Int,
         1 <= m, n <= Len(s), n >= m - 1
  PROVE  \E t \in Seq(S) : IsPart(t, s, m, n)
<1>1. \A k \in m..n : s[k] \in S
  OBVIOUS
<1>2. /\ SubSeq(s, m, n) \in Seq(S) /\ Len(SubSeq(s, m, n)) = n - m + 1
      /\ \A k \in 1..(n - m + 1) : SubSeq(s, m, n)[k] = s[m + k - 1]
  BY <1>1, SubSeqProperties
<1>3. IsPart(SubSeq(s, m, n), s, m, n)
  BY <1>2 DEF IsPart
<1>4. QED
  BY <1>2, <1>3

\* What is left of a sequence without its i-th element.
LEMMA RemovedAt ==
  ASSUME NEW S, NEW s \in Seq(S), NEW i \in 1..Len(s)
  PROVE  /\ Build!RemoveAt(s, i) \in Seq(S) /\ Len(Build!RemoveAt(s, i)) = Len(s) - 1
         /\ \A k \in 1..(Len(s) - 1) : Build!RemoveAt(s, i)[k] = IF k < i THEN s[k] ELSE s[k + 1]
<1>1. PICK n \in Int : n = i - 1 
  OBVIOUS
<1>2. PICK m \in Int : m = i + 1
  OBVIOUS
<1>3. PICK len \in Int : len = Len(s)
  OBVIOUS
<1>4. i \in Int /\ 1 <= i /\ i <= len
  BY <1>3
<1>5. PICK b \in Seq(S) : IsPart(b, s, 1, n)
  <2>1. 1 \in Int /\ 1 <= 1 /\ n <= Len(s) /\ n >= 1-1
    BY <1>1, <1>3, <1>4
  <2>2. n \in Int
    BY <1>1
  <2>3. QED
    BY <2>1, <2>2, PartExists
<1>6. PICK a \in Seq(S) : IsPart(a, s, m, len)
  <2>1. 1 <= m /\ len <= Len(s) /\ len >= m-1
    BY <1>2, <1>3, <1>4
  <2>2. m \in Int /\ len \in Int
    BY <1>2, <1>3
  <2>3. QED
    BY <2>1, <2>2, PartExists
<1>7. Build!RemoveAt(s, i) = b \o a
  <2>1. Build!RemoveAt(s, i) = SubSeq(s, 1, n) \o SubSeq(s, m, len)
    BY <1>1, <1>2, <1>3 DEF Build!RemoveAt
  <2>2. QED
    BY <2>1, <1>5, <1>6 DEF IsPart
<1>8. /\ b \o a \in Seq(S) /\ Len(b \o a) = Len(b) + Len(a)
      /\ \A k \in 1..(Len(b) + Len(a)) : (b \o a)[k] = IF k <= Len(b) THEN b[k] ELSE a[k - Len(b)]
  BY <1>5, <1>6, ConcatProperties
<1>9. Len(b) = i - 1 /\ Len(a) = len - i
  BY <1>1, <1>2, <1>3, <1>4, <1>5, <1>6 DEF IsPart
<1>10. \A k \in 1..(len - 1) : (b \o a)[k] = IF k < i THEN s[k] ELSE s[k + 1]
  <2> SUFFICES ASSUME NEW k \in 1..(len - 1) PROVE (b \o a)[k] = IF k < i THEN s[k] ELSE s[k + 1]
    OBVIOUS
  <2>1. k \in Int /\ 1 <= k /\ k <= len - 1
    BY <1>3
  <2>2. CASE k < i
    <3>1. k \in 1..(n - 1 + 1) /\ 1 + k - 1 = k /\ k <= Len(b) /\ k \in 1..(Len(b) + Len(a))
      BY <1>1, <1>4, <1>9, <2>1, <2>2
    <3>2. b[k] = s[k]
      BY <1>5, <3>1 DEF IsPart
    <3>3. QED
      BY <1>8, <2>2, <3>1, <3>2
  <2>3. CASE ~(k < i)
    <3>1. PICK j \in Int : j = k - Len(b)
      BY <1>4, <1>9, <2>1
    <3>2. /\ j \in 1..(len - m + 1) /\ m + j - 1 = k + 1 /\ ~(k <= Len(b))
          /\ k \in 1..(Len(b) + Len(a))
      BY <1>2, <1>3, <1>4, <1>9, <2>1, <2>3, <3>1
    <3>3. a[j] = s[k + 1]
      BY <1>6, <3>2 DEF IsPart
    <3>4. QED
      BY <1>8, <2>3, <3>1, <3>2, <3>3
  <2>4. QED
    BY <2>2, <2>3
<1>11. QED
  BY <1>3, <1>4, <1>7, <1>8, <1>9, <1>10

LEMMA InitBuilder == Build!Init => BuilderInv
BY ValuesDiffer DEF Build!Init, BuilderInv, TypedIsSaved, Build!TypedIsSaved

LEMMA NextBuilder == BuilderInv /\ [Build!Next]_builder => BuilderInv'
<1> SUFFICES ASSUME BuilderInv, [Build!Next]_builder PROVE BuilderInv'
  OBVIOUS
<1>0. /\ steps \in Seq(Steps) /\ Len(steps) \in Nat /\ Len(steps) <= MaxSteps
      /\ \A i \in DOMAIN steps : TrueToTyped(steps[i])
  BY DEF BuilderInv
\* A handler that posts nothing.
<1>1. ASSUME sent' = <<>>, steps' \in Seq(Steps), Len(steps') <= MaxSteps,
             \A i \in DOMAIN steps' : TrueToTyped(steps'[i])
      PROVE  BuilderInv'
  BY <1>1 DEF BuilderInv, TypedIsSaved, Build!TypedIsSaved, TrueToTyped
<1>2. ASSUME NEW i \in DOMAIN steps, NEW f \in Fields,
             NEW text \in Values \cup {Empty, Garbled}, Build!Type(i, f, text)
      PROVE  BuilderInv'
  <2> DEFINE form == [steps[i].form EXCEPT ![f] = text]
             typed == [steps[i].typed EXCEPT ![f] = text]
             step == [steps[i] EXCEPT !.form = form, !.typed = typed,
                                      !.fresh = steps[i].fresh \cup {f}]
  <2>1. /\ steps' = [steps EXCEPT ![i] = step] /\ sent' = <<>>
        /\ text \in {Garbled, EmptyObject} => f \in JsonFields
    BY <1>2 DEF Build!Type
  <2>2. steps[i] \in Steps /\ TrueToTyped(steps[i])
    BY <1>0
  <2>3. form \in Build!Forms /\ typed \in Build!Forms
    BY <2>1, <2>2 DEF Steps, Build!Forms
  <2>4. /\ form[f] = text /\ typed[f] = text
        /\ \A g \in Fields : g # f => form[g] = steps[i].form[g] /\ typed[g] = steps[i].typed[g]
    BY <2>2 DEF Steps, Build!Forms
  <2> HIDE DEF form, typed
  <2>5. ASSUME NEW g \in Fields
        PROVE  /\ Build!Meaning(steps[i].type, form)[g] = Build!Meaning(steps[i].type, typed)[g]
               /\ g # f => Build!Meaning(steps[i].type, typed)[g]
                             = Build!Meaning(steps[i].type, steps[i].typed)[g]
    <3>1. Build!Meaning(steps[i].type, steps[i].form)[g]
            = Build!Meaning(steps[i].type, steps[i].typed)[g]
      BY <2>2 DEF TrueToTyped
    <3>2. CASE g = f
      BY <2>4, <3>2 DEF Build!Meaning
    <3>3. CASE g # f
      BY <2>4, <3>1, <3>3 DEF Build!Meaning
    <3>4. QED
      BY <3>2, <3>3
  <2>6. Build!Meaning(steps[i].type, form) = Build!Meaning(steps[i].type, typed)
    BY <2>5 DEF Build!Meaning
  <2>7. /\ step \in Steps /\ step.type = steps[i].type /\ step.config = steps[i].config
        /\ step.kept = steps[i].kept /\ step.form = form /\ step.typed = typed
        /\ step.fresh = steps[i].fresh \cup {f}
    BY <2>2, <2>3 DEF Steps
  <2> HIDE DEF step
  <2>8. TrueToTyped(step)
    BY <2>2, <2>5, <2>6, <2>7 DEF TrueToTyped
  <2>9. /\ steps' \in Seq(Steps) /\ Len(steps') = Len(steps)
        /\ \A j \in DOMAIN steps' : steps'[j] = step \/ (j \in DOMAIN steps /\ steps'[j] = steps[j])
    BY <1>0, <2>1, <2>7
  <2>10. QED
    BY <1>0, <1>1, <2>1, <2>8, <2>9
<1>3. PICK kept \in Seq(Steps) :
        /\ kept = Build!Redraw(steps) /\ Len(kept) = Len(steps) /\ DOMAIN kept = DOMAIN steps
        /\ \A i \in DOMAIN kept : TrueToTyped(kept[i])
  BY <1>0, Redrawn
<1>4. ASSUME NEW i \in DOMAIN steps, NEW j \in DOMAIN steps, Build!Move(i, j)
      PROVE  BuilderInv'
  <2>1. steps' = [kept EXCEPT ![i] = kept[j], ![j] = kept[i]] /\ sent' = <<>>
    BY <1>3, <1>4 DEF Build!Move
  <2>2. i \in DOMAIN kept /\ j \in DOMAIN kept /\ kept[i] \in Steps /\ kept[j] \in Steps
    BY <1>3
  <2>3. /\ steps' \in Seq(Steps) /\ Len(steps') = Len(kept)
        /\ \A k \in DOMAIN steps' : \E m \in DOMAIN kept : steps'[k] = kept[m]
    BY <2>1, <2>2
  <2>4. QED
    BY <1>0, <1>1, <1>3, <2>1, <2>3
<1>5. ASSUME NEW i \in DOMAIN steps, Build!RemoveStep(i) PROVE BuilderInv'
  <2>1. steps' = Build!RemoveAt(kept, i) /\ sent' = <<>>
    BY <1>3, <1>5 DEF Build!RemoveStep
  <2>2. kept \in Seq(Steps) /\ i \in 1..Len(kept) /\ Len(kept) \in Nat
    <3>1. kept \in Seq(Steps) /\ i \in DOMAIN kept
      BY <1>3
    <3>2. QED
      BY <3>1
  <2>3. /\ steps' \in Seq(Steps) /\ Len(steps') = Len(kept) - 1
        /\ \A k \in 1..(Len(kept) - 1) : steps'[k] = IF k < i THEN kept[k] ELSE kept[k + 1]
    BY <2>1, <2>2, RemovedAt
  <2>4. ASSUME NEW k \in DOMAIN steps' PROVE TrueToTyped(steps'[k])
    <3>1. k \in 1..(Len(kept) - 1)
      BY <2>3
    <3>2. k \in DOMAIN kept /\ k + 1 \in DOMAIN kept
      BY <2>2, <3>1
    <3>3. steps'[k] = kept[k] \/ steps'[k] = kept[k + 1]
      BY <2>3, <3>1
    <3>4. QED
      BY <1>3, <3>2, <3>3
  <2>5. Len(steps') <= MaxSteps
    BY <1>0, <1>3, <2>2, <2>3, ValuesDiffer
  <2>6. QED
    BY <1>1, <2>1, <2>3, <2>4, <2>5
<1>6. ASSUME NEW type \in Types, Build!AddStep(type) PROVE BuilderInv'
  <2> DEFINE blank == [f \in Fields |-> Empty]
             drawn == Build!Drawn(type, blank)
             step == [type |-> type, config |-> blank, form |-> drawn, typed |-> drawn,
                      fresh |-> {}, kept |-> drawn]
  <2>1. /\ Len(steps) < MaxSteps /\ sent' = <<>>
        /\ steps' = Append(Build!Render(Build!Dropped(steps)), step)
    BY <1>6 DEF Build!AddStep
  <2>2. blank \in Build!Configs
    BY DEF Build!Configs
  <2> HIDE DEF blank
  <2>3. /\ drawn \in Build!Forms /\ Build!Parses(drawn)
        /\ Build!Meaning(type, drawn) = Build!Meaning(type, blank)
    BY <2>2, DrawnMeans
  <2>4. drawn \in Build!Configs
    BY <2>3 DEF Build!Forms, Build!Configs, Build!Parses
  <2> HIDE DEF drawn
  <2>5. step \in Steps /\ TrueToTyped(step)
    BY <2>2, <2>3, <2>4 DEF Steps, TrueToTyped
  <2> HIDE DEF step
  <2>6. PICK new \in Seq(Steps) :
          /\ new = Build!Render(Build!Dropped(steps))
          /\ Len(new) = Len(steps) /\ \A i \in DOMAIN new : TrueToTyped(new[i])
    BY <1>0, DrawnAnew
  <2>7. steps' = Append(new, step)
    BY <2>1, <2>6
  <2>8. /\ steps' \in Seq(Steps) /\ Len(steps') = Len(steps) + 1
        /\ \A k \in DOMAIN steps' : steps'[k] = step \/ (k \in DOMAIN new /\ steps'[k] = new[k])
    BY <2>5, <2>6, <2>7
  <2>9. QED
    BY <1>0, <1>1, <2>1, <2>5, <2>6, <2>8, ValuesDiffer
\* What is posted was collected, now or before, from a form that meant what was typed.
<1>7. CASE Build!Save
  <2>1. /\ steps' = Build!Snapshot(steps)
        /\ sent' = [i \in DOMAIN steps' |->
                      [type |-> steps'[i].type, config |-> steps'[i].config,
                       meant |-> IF Build!Parses(steps[i].form) THEN steps[i].typed
                                 ELSE steps[i].kept]]
    BY <1>7 DEF Build!Save
  <2>2. /\ steps' \in Seq(Steps) /\ Len(steps') = Len(steps) /\ DOMAIN steps' = DOMAIN steps
        /\ \A i \in DOMAIN steps : /\ steps'[i] = Build!Collected(steps[i])
                                   /\ TrueToTyped(steps'[i])
    BY <1>0, <2>1, SnapshotSteps
  <2>3. ASSUME NEW i \in DOMAIN steps
        PROVE  /\ sent'[i].config \in Build!Configs
               /\ Build!Meaning(sent'[i].type, sent'[i].config)
                    = Build!Meaning(sent'[i].type, sent'[i].meant)
    <3>1. steps[i] \in Steps /\ TrueToTyped(steps[i]) /\ steps'[i] \in Steps /\ TrueToTyped(steps'[i])
      BY <1>0, <2>2
    <3>2. steps'[i].kept = IF Build!Parses(steps[i].form) THEN steps[i].typed ELSE steps[i].kept
      BY <2>2, <3>1, CollectedStep
    <3>3. sent'[i] = [type |-> steps'[i].type, config |-> steps'[i].config, meant |-> steps'[i].kept]
      BY <2>1, <2>2, <3>2
    <3>4. sent'[i].config \in Build!Configs
      BY <3>1, <3>3 DEF Steps
    <3>5. QED
      BY <3>1, <3>3, <3>4 DEF TrueToTyped
  <2>4. DOMAIN sent' = DOMAIN steps
    BY <2>1, <2>2
  <2>5. QED
    BY <1>0, <2>2, <2>3, <2>4 DEF BuilderInv, TypedIsSaved, Build!TypedIsSaved
<1>8. CASE UNCHANGED builder
  BY <1>8 DEF builder, BuilderInv, TypedIsSaved, Build!TypedIsSaved, TrueToTyped
<1>9. QED
  BY <1>2, <1>4, <1>5, <1>6, <1>7, <1>8 DEF Build!Next

\* A step is posted with what was last typed into each field of its form, or with what the
\* form has shown since where that text was dropped before it was collected, by an addition or
\* because another field did not parse; and, if its form does not parse as it is saved, as
\* when it last did (pages.py _snapshot, render_steps, move, add_step, save; forms.py collect).
\* Moves and removals drop nothing of a form that parses.
THEOREM SavedAsTyped == TabSpec => []TypedIsSaved
<1>1. TabInit => BuilderInv
  BY InitBuilder DEF TabInit
<1>2. BuilderInv /\ [TabNext]_everything => BuilderInv'
  <2>1. [TabNext]_everything => [Build!Next]_builder
    BY DEF TabNext, everything
  <2>2. QED
    BY <2>1, NextBuilder
<1>3. BuilderInv => TypedIsSaved
  BY DEF BuilderInv
<1>4. QED
  BY <1>1, <1>2, <1>3, PTL DEF TabSpec

\* Every variable of each page holds a value of its kind: the select of the Data page is on a
\* collection that it offers, a config of the builder holds values, whatever was typed, and a
\* column of results has no more entries than there may be calls.
THEOREM PagesTypes == TabSpec => []PagesTypeOK
<1> DEFINE Inv == DataType /\ BuilderInv /\ ResultsType /\ Answered
<1>1. TabInit => Inv
  BY DataInitType, InitBuilder, InitAnswered DEF TabInit, DataType
<1>2. Inv /\ [TabNext]_everything => Inv'
  <2>1. [TabNext]_everything => /\ [Next]_vars /\ [Build!Next]_builder
                                /\ [Results!Next]_results
    BY DEF TabNext, everything
  <2>2. QED
    BY <2>1, DataNextType, NextBuilder, NextAnswered
<1>3. Inv => PagesTypeOK
  <2>1. BuilderInv => Build!TypeOK
    BY DEF BuilderInv, Build!TypeOK, Steps
  <2>2. QED
    BY <2>1, AnsweredMeans DEF PagesTypeOK, DataType
<1>4. QED
  BY <1>1, <1>2, <1>3, PTL DEF TabSpec
=============================================================================
