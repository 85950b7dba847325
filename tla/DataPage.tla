------------------------------ MODULE DataPage ------------------------------
(***************************************************************************)
(* One client of the Data page (pages.py): a toggle for the mode, a select *)
(* for the collection, a list of what was loaded, and an editor on one     *)
(* item of it.                                                             *)
(*                                                                         *)
(* The handlers are coroutines on the event loop: a load and a save each   *)
(* suspend at their call of the API, while the user goes on clicking, and  *)
(* read the page's widgets before and after.  Documents are known by their *)
(* natural keys, and those of two sources may coincide; what the list and  *)
(* the editor display of a document is left out.                           *)
(***************************************************************************)
EXTENDS Naturals

CONSTANTS
  Loads,        \* bound: load() calls in flight at once
  Saves,        \* bound: save_raw() calls in flight at once
  RawSources,   \* _RAW_SOURCES
  Unified,      \* _UNIFIED
  FirstRaw, FirstUnified,  \* what sync_collection selects
  Aggregates,   \* match_aggregates
  Keys,         \* (entity, source_ref)
  Payloads,     \* raw payloads, and what a user types
  None          \* no document, no editor, no call

ASSUME PageAssumption ==
  /\ FirstRaw \in RawSources /\ FirstUnified \in Unified
  /\ RawSources \cap Unified = {}
  /\ Aggregates \notin RawSources \cup Unified
  /\ None \notin Payloads \cup RawSources \cup Unified \cup {Aggregates}

VARIABLES
  mode,        \* mode.value
  collection,  \* collection.value
  items,       \* state["items"]: what they were loaded from, and their keys
  editor,      \* the editor column: the item it is on, or None
  loads,       \* load() calls: how far, of which collection, and the answer
  saves,       \* save_raw() calls
  raw,         \* the raw collections
  overlapped,  \* history: the last load was called while another was in flight
  switched,    \* history: the mode has changed since the last load began
  died         \* history: the last load ended without an answer

page == <<mode, collection, items, editor>>
history == <<overlapped, switched, died>>
vars == <<page, loads, saves, raw, history>>

Collections == RawSources \cup Unified \cup {Aggregates}

Idle == [at |-> "idle", of |-> None, keys |-> {}]
InFlight == {l \in Loads : loads[l].at # "idle"}

\* What load() asks for, and what the select offers.
Asked == IF mode = "aggregate" THEN Aggregates ELSE collection
Options == CASE mode = "raw" -> RawSources
             [] mode = "unified" -> Unified
             [] OTHER -> {}

\* The documents that a collection of the API has.
KeysOf(c) == IF c \in RawSources THEN {k \in Keys : raw[c][k] # None} ELSE Keys

\* The page's timer loads once.
Init ==
  /\ mode = "raw"
  /\ collection = FirstRaw
  /\ items = [of |-> None, keys |-> {}]
  /\ editor = None
  /\ \E first \in Loads :
       loads = [l \in Loads |-> IF l = first THEN [Idle EXCEPT !.at = "called"] ELSE Idle]
  /\ saves = [v \in Saves |-> None]
  /\ raw \in [RawSources -> [Keys -> Payloads \cup {None}]]
  /\ overlapped = FALSE
  /\ switched = FALSE
  /\ died = FALSE

-----------------------------------------------------------------------------
(* The widgets. *)

\* The toggle: sync_collection selects the first collection of the mode.  The
\* handler calls load() too, and drops its coroutine in a tuple: it never runs.
PickMode(m) ==
  /\ m # mode
  /\ mode' = m
  /\ collection' = CASE m = "raw" -> FirstRaw
                     [] m = "unified" -> FirstUnified
                     [] OTHER -> collection
  /\ switched' = TRUE
  /\ UNCHANGED <<items, editor, loads, saves, raw, overlapped, died>>

\* A handler calls load() or rebuild(), to run as a task of its own.
Called(l, at) == [loads EXCEPT ![l].at = at]

Call(l) ==
  /\ loads[l].at = "idle"
  /\ overlapped' = (InFlight # {})

\* Mutant: the select drops its coroutine as the toggle does.
PickCollectionUnawaited(l, c) ==
  /\ loads[l].at = "idle"
  /\ c \in Options \ {collection}
  /\ collection' = c
  /\ UNCHANGED <<mode, items, editor, loads, saves, raw, history>>

\* The select, which the aggregate mode hides.
PickCollection(l, c) ==
  /\ Call(l)
  /\ c \in Options \ {collection}
  /\ collection' = c
  /\ loads' = Called(l, "called")
  /\ UNCHANGED <<mode, items, editor, saves, raw, switched, died>>

\* The Rebuild button, of the aggregate mode.
PressRebuild(l) ==
  /\ Call(l)
  /\ mode = "aggregate"
  /\ loads' = Called(l, "rebuilding")
  /\ UNCHANGED <<page, saves, raw, switched, died>>

\* pick: the editor is writable if the mode is raw, whatever the item is of.
Pick(k) ==
  /\ k \in items.keys
  /\ editor' = [of |-> items.of, key |-> k, writable |-> mode = "raw"]
  /\ UNCHANGED <<mode, collection, items, loads, saves, raw, history>>

-----------------------------------------------------------------------------
(* rebuild and load. *)

\* load() starts: its task is scheduled, or its rebuild has succeeded.  It empties
\* the editor and reads the widgets for its call.
Begin(l) ==
  /\ loads[l].at \in {"called", "rebuilding"}
  /\ loads' = [loads EXCEPT ![l] = [loads[l] EXCEPT !.at = "asking", !.of = Asked]]
  /\ editor' = None
  /\ switched' = FALSE
  /\ died' = FALSE
  /\ UNCHANGED <<mode, collection, items, saves, raw, overlapped>>

\* The API serves the documents, or an error, for which there are none.
Serve(l) ==
  /\ loads[l].at = "asking"
  /\ \E keys \in {KeysOf(loads[l].of), {}} :
       loads' = [loads EXCEPT ![l] = [loads[l] EXCEPT !.at = "answered", !.keys = keys]]
  /\ UNCHANGED <<page, saves, raw, history>>

\* render_list.  An editor opened meanwhile stays.
Show(l) ==
  /\ loads[l].at = "answered"
  /\ items' = [of |-> loads[l].of, keys |-> loads[l].keys]
  /\ loads' = [loads EXCEPT ![l] = Idle]
  /\ UNCHANGED <<mode, collection, editor, saves, raw, history>>

\* The rebuild is refused; or either call is never answered, and httpx raises what
\* is no ApiError: the task ends with it.
Dies(l) ==
  /\ loads[l].at \in {"rebuilding", "asking"}
  /\ loads' = [loads EXCEPT ![l] = Idle]
  /\ died' = TRUE
  /\ UNCHANGED <<page, saves, raw, overlapped, switched>>

-----------------------------------------------------------------------------
(* save_raw. *)

\* The user has typed p.  The call is addressed by the select as it is now and by
\* the item's entity and source_ref: one of no raw collection raises KeyError.
Save(v, p) ==
  /\ saves[v] = None
  /\ editor # None /\ editor.writable /\ editor.of \in RawSources
  /\ saves' = [saves EXCEPT ![v] = [to |-> collection, item |-> editor, payload |-> p]]
  /\ UNCHANGED <<page, loads, raw, history>>

\* PUT /api/raw/{source}: the payload is replaced, if it is a source and has the key.
Store(v) ==
  /\ saves[v] # None
  /\ LET to == saves[v].to
         key == saves[v].item.key
     IN /\ to \in RawSources /\ raw[to][key] # None
        /\ raw' = [raw EXCEPT ![to][key] = saves[v].payload]
  /\ saves' = [saves EXCEPT ![v] = None]
  /\ UNCHANGED <<page, loads, history>>

\* It is refused, or never answered.
SaveFails(v) ==
  /\ saves[v] # None
  /\ saves' = [saves EXCEPT ![v] = None]
  /\ UNCHANGED <<page, loads, raw, history>>

Next ==
  \/ \E m \in {"raw", "unified", "aggregate"} : PickMode(m)
  \/ \E l \in Loads :
       \/ \E c \in Collections : PickCollection(l, c)
       \/ PressRebuild(l)
       \/ Begin(l) \/ Serve(l) \/ Show(l) \/ Dies(l)
  \/ \E k \in Keys : Pick(k)
  \/ \E v \in Saves : Store(v) \/ SaveFails(v) \/ \E p \in Payloads : Save(v, p)

Spec == Init /\ [][Next]_vars

-----------------------------------------------------------------------------
(* Properties. *)

Editors == [of : Collections, key : Keys, writable : BOOLEAN]

\* Every variable holds a value of its kind, and the select one that it offers.
TypeOK ==
  /\ mode \in {"raw", "unified", "aggregate"}
  /\ collection \in IF mode = "aggregate" THEN RawSources \cup Unified ELSE Options
  /\ items \in [of : Collections \cup {None}, keys : SUBSET Keys]
  /\ editor \in Editors \cup {None}
  /\ loads \in [Loads -> [at : {"idle", "rebuilding", "called", "asking", "answered"},
                          of : Collections \cup {None}, keys : SUBSET Keys]]
  /\ saves \in [Saves -> [to : RawSources \cup Unified, item : Editors, payload : Payloads]
                         \cup {None}]
  /\ raw \in [RawSources -> [Keys -> Payloads \cup {None}]]
  /\ overlapped \in BOOLEAN /\ switched \in BOOLEAN /\ died \in BOOLEAN

Follows == InFlight = {} => items.of = Asked

\* When no load is in flight the list is of what is selected, unless the last loads
\* overlapped, the last one died, or the mode has been switched since.
ListFollowsSelect == ~overlapped /\ ~died /\ ~switched => Follows

\* "edit raw payloads in place" (README): a save that the API will carry out goes to
\* the document that the item was loaded from.  The code does not keep this: save_raw
\* addresses the collection that is selected when Save is pressed.
EditedInPlace ==
  \A v \in Saves :
     (saves[v] # None /\ saves[v].to \in RawSources /\ raw[saves[v].to][saves[v].item.key] # None)
        => saves[v].to = saves[v].item.of
=============================================================================
