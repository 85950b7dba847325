------------------------------ MODULE Sources ------------------------------
(***************************************************************************)
(* What the four adapters fetch (adapters/), in which order, and under     *)
(* which keys the mappers (mappers.py, keys.py) put it into the unified    *)
(* collections, over runs that follow one another while the site changes.  *)
(*                                                                         *)
(* An adapter is an agenda: pages to get and records to yield.  A page is  *)
(* read when its turn comes, and what it lists is put on the agenda in its *)
(* place.  A page is a sequence of entries, each on one thing: a           *)
(* competition, a match, an event, a fixture or a player's row.  Things    *)
(* that list others are pages themselves.  One behaviour is of one source: *)
(* raw collections are per source, and unified ids begin with it.          *)
(*                                                                         *)
(* The inside of a flush is coarser than in Ingestion, which has the       *)
(* failures of each of its awaits; payloads are well-formed.               *)
(***************************************************************************)
EXTENDS Naturals, SequencesExt

CONSTANTS
  Pages, Things, Labels, Contents,
  MayList,          \* of each page, the things that it may list
  Index,            \* competitions.json
  Competitions,     \* the pages that list a competition's matches
  Configs,          \* adapters: a source, the pages to start from, the limits of
                    \* StatsBombAdapter, and the site before any change
  BatchSize,
  MaxRuns, MaxChanges  \* bounds: runs, and changes of the site

\* The pages of StatsBomb's matches, which list their events.
Matches == Pages \ (Competitions \cup {Index})

\* What a page may have a list of.
Listable(page) ==
  Things \cap (IF page = Index THEN Competitions
               ELSE IF page \in Competitions THEN Matches ELSE Things)

Entries(page) == [thing : Listable(page), label : Labels, content : Contents]

\* competitions.json leads to competitions and these to matches, whose pages lead nowhere;
\* a thing is listed once.
ASSUME SourcesAssumption ==
  /\ Index \in Pages \ Competitions /\ Competitions \subseteq Pages
  /\ DOMAIN MayList = Pages /\ \A p \in Pages : MayList[p] \subseteq Listable(p)
  /\ BatchSize \in Nat \ {0}
  /\ \A c \in Configs :
       /\ c.source \in {"statsbomb", "openfootball", "understat", "fbref"}
       /\ c.roots \in Seq(Pages) /\ c.wanted \in Seq(Competitions)
       /\ c.source = "statsbomb" => c.roots = <<Index>>
       /\ c.maxCompetitions \in Nat \ {0} /\ c.maxMatches \in Nat
       /\ c.includeEvents \in BOOLEAN
       /\ DOMAIN c.site = Pages
       /\ \A p \in Pages : c.site[p] \in Seq(Entries(p))
       /\ \A p \in Pages, q \in Pages : \A i \in DOMAIN c.site[p], j \in DOMAIN c.site[q] :
            c.site[p][i].thing = c.site[q][j].thing => p = q /\ i = j
  /\ MaxRuns \in Nat /\ MaxChanges \in Nat

VARIABLES
  config,   \* the adapter
  site,     \* what each page lists
  run,      \* the run: its agenda, the buffer, and the collections that a flush
            \* has yet to write
  raw,      \* raw_<source>
  unified,  \* the unified documents of the source
  ended,    \* how the last run ended
  history   \* started and changed count; fresh: no change and no skipped page since
            \* the run began; settled: no change since a fresh run succeeded; moved: a
            \* thing has changed its ref; torn: a run stopped within a flush

vars == <<config, site, run, raw, unified, ended, history>>

source == config.source

-----------------------------------------------------------------------------
(* Keys. *)

\* Mutant: every record has an id of its own.
RefByRun(page, i, body) == <<history.started, body[i].thing>>

\* Mutant: every ref is made of the place in the list.
RefByPlace(page, i, body) == <<page, i>>

\* source_ref: the native id; for openfootball the date and the teams; for fbref the
\* page, the player and the row's place.
Ref(page, i, body) ==
  CASE source = "openfootball" -> <<body[i].label, body[i].thing>>
    [] source = "fbref" -> <<page, body[i].thing, i>>
    [] OTHER -> <<body[i].thing>>

Entity(page) ==
  CASE source = "fbref" -> "player_stats"
    [] source = "statsbomb" /\ page \notin Competitions -> "events"
    [] OTHER -> "matches"

\* The record of an entry.  An event is stamped with the match it is listed under.  The
\* fetched_at that upsert_many writes anew with each run is left out.
Record(page, i, body) ==
  LET ref == Ref(page, i, body)
      entity == Entity(page)
  IN [kind |-> entity, key |-> ref, thing |-> body[i].thing, content |-> body[i].content,
      match |-> IF entity = "events" THEN <<page>> ELSE ref]

UnifiedId(ref) == <<source, ref>>

\* What the source's mapper makes of a record, in the order it yields.  team_stats are
\* keyed by team and match.
Mapped(r) ==
  LET Doc(collection, key) ==
        [r EXCEPT !.kind = collection, !.key = key, !.match = UnifiedId(r.match)]
      own == Doc(r.kind, UnifiedId(r.key))
  IN IF source = "understat"
     THEN <<own, Doc("team_stats", <<"home", UnifiedId(r.key)>>),
                 Doc("team_stats", <<"away", UnifiedId(r.key)>>)>>
     ELSE <<own>>

-----------------------------------------------------------------------------
(* fetch. *)

Get(page) == [do |-> "get", page |-> page]
Yield(record) == [do |-> "yield", record |-> record]

FirstOf(seq, n) == SubSeq(seq, 1, IF n < Len(seq) THEN n ELSE Len(seq))

\* The elements of a sequence that are in a set, in their order.
Among(seq, set) ==
  LET kept[n \in 0..Len(seq)] ==
        IF n = 0 THEN <<>>
        ELSE IF seq[n] \in set THEN Append(kept[n-1], seq[n]) ELSE kept[n-1]
  IN kept[Len(seq)]

\* _select_pairs: the configured pairs that the index has; else its first few.
Selected(body) ==
  LET listed == [i \in DOMAIN body |-> body[i].thing]
  IN IF config.wanted # <<>>
     THEN Among(config.wanted, ToSet(listed))
     ELSE FirstOf(listed, config.maxCompetitions)

\* A limit of none is all of them.
Limited(body) == IF config.maxMatches = 0 THEN body ELSE FirstOf(body, config.maxMatches)

\* Mutant: the events of a match are fetched before it is yielded.
ItemsEventsFirst(page, body) ==
  LET Yielded(i) == Yield(Record(page, i, body))
      matches == Limited(body)
  IN CASE source = "statsbomb" /\ page = Index ->
            [i \in DOMAIN Selected(body) |-> Get(Selected(body)[i])]
       [] source = "statsbomb" /\ page \in Competitions /\ config.includeEvents ->
            [n \in 1..2 * Len(matches) |->
               IF n % 2 = 0 THEN Yielded(n \div 2) ELSE Get(body[(n + 1) \div 2].thing)]
       [] source = "statsbomb" /\ page \in Competitions /\ ~config.includeEvents ->
            [i \in DOMAIN matches |-> Yielded(i)]
       [] OTHER -> [i \in DOMAIN body |-> Yielded(i)]

\* What a page puts on the agenda; a match is followed by its events.
Items(page, body) ==
  LET Yielded(i) == Yield(Record(page, i, body))
      matches == Limited(body)
  IN CASE source = "statsbomb" /\ page = Index ->
            [i \in DOMAIN Selected(body) |-> Get(Selected(body)[i])]
       [] source = "statsbomb" /\ page \in Competitions /\ config.includeEvents ->
            [n \in 1..2 * Len(matches) |->
               IF n % 2 = 1 THEN Yielded((n + 1) \div 2) ELSE Get(body[n \div 2].thing)]
       [] source = "statsbomb" /\ page \in Competitions /\ ~config.includeEvents ->
            [i \in DOMAIN matches |-> Yielded(i)]
       [] OTHER -> [i \in DOMAIN body |-> Yielded(i)]

-----------------------------------------------------------------------------
(* Writes. *)

\* Two documents under one key of one entity, or of one collection.
Same(d, e) == d.kind = e.kind /\ d.key = e.key

\* Mutant: documents are inserted.
Inserted(coll, ops) == coll \cup {o.doc : o \in ops}

\* The documents of coll after operations were applied in the order of their places: of
\* those on one key the last one wins.
Applied(coll, ops) ==
  {d \in coll : \A o \in ops : ~Same(d, o.doc)} \cup
  {o.doc : o \in {o \in ops : \A p \in ops : Same(p.doc, o.doc) => p.at <= o.at}}

RawOps(records) == {[at |-> i, doc |-> records[i]] : i \in DOMAIN records}

UnifiedOps(records) ==
  UNION {{[at |-> i, doc |-> d] : d \in ToSet(Mapped(records[i]))} : i \in DOMAIN records}

\* Mutant: unify_records writes the collections in another order.
LastFirst(records, c, d) ==
  \E i \in DOMAIN records : \E j \in DOMAIN Mapped(records[i]) :
     /\ Mapped(records[i])[j].kind = d
     /\ \A k \in 1..i : \A l \in DOMAIN Mapped(records[k]) :
          Mapped(records[k])[l].kind = c => k = i /\ l > j

\* The records have a document of c before they have one of d: the order of the dicts in
\* which they are grouped, by entity and then by collection.  No collection is of two
\* entities.
Before(records, c, d) ==
  \E i \in DOMAIN records : \E j \in DOMAIN Mapped(records[i]) :
     /\ Mapped(records[i])[j].kind = c
     /\ \A k \in 1..i : \A l \in DOMAIN Mapped(records[k]) :
          Mapped(records[k])[l].kind = d => k = i /\ l > j

-----------------------------------------------------------------------------
(* A run. *)

NoRun == [on |-> FALSE, agenda |-> <<>>, buffer |-> <<>>, due |-> {}]

Init ==
  /\ config \in Configs
  /\ site = config.site
  /\ run = NoRun
  /\ raw = {}
  /\ unified = {}
  /\ ended = "never"
  /\ history = [started |-> 0, changed |-> 0, fresh |-> FALSE, settled |-> FALSE,
                moved |-> FALSE, torn |-> FALSE]

Start ==
  /\ ~run.on
  /\ history.started < MaxRuns
  /\ run' = [NoRun EXCEPT !.on = TRUE,
               !.agenda = [i \in DOMAIN config.roots |-> Get(config.roots[i])]]
  /\ history' = [history EXCEPT !.started = @ + 1, !.fresh = TRUE]
  /\ UNCHANGED <<config, site, raw, unified, ended>>

\* The adapter is resumed: no flush is due, and none is under way.
Resumed == run.on /\ run.due = {} /\ Len(run.buffer) < BatchSize /\ run.agenda # <<>>

GetPage ==
  /\ Resumed /\ Head(run.agenda).do = "get"
  /\ LET page == Head(run.agenda).page
     IN run' = [run EXCEPT !.agenda = Items(page, site[page]) \o Tail(@)]
  /\ UNCHANGED <<config, site, raw, unified, ended, history>>

\* openfootball goes on after a dataset that cannot be got; a page of fbref without the
\* table has no rows.
SkipPage ==
  /\ Resumed /\ Head(run.agenda).do = "get"
  /\ source \in {"openfootball", "fbref"}
  /\ run' = [run EXCEPT !.agenda = Tail(@)]
  /\ history' = [history EXCEPT !.fresh = FALSE]
  /\ UNCHANGED <<config, site, raw, unified, ended>>

YieldRecord ==
  /\ Resumed /\ Head(run.agenda).do = "yield"
  /\ run' = [run EXCEPT !.agenda = Tail(@), !.buffer = Append(@, Head(run.agenda).record)]
  /\ UNCHANGED <<config, site, raw, unified, ended, history>>

\* flush, when the buffer is full or the adapter is exhausted.
FlushDue ==
  /\ run.on /\ run.due = {} /\ run.buffer # <<>>
  /\ Len(run.buffer) >= BatchSize \/ run.agenda = <<>>

StoreRaw ==
  /\ FlushDue
  /\ raw' = Applied(raw, RawOps(run.buffer))
  /\ run' = [run EXCEPT !.due = {o.doc.kind : o \in UnifiedOps(run.buffer)}]
  /\ UNCHANGED <<config, site, unified, ended, history>>

\* The bulk write that is under way: an event for each entity, for each event a bulk write
\* for each collection that its records map to.
Bulk ==
  {o \in UnifiedOps(run.buffer) :
     /\ o.doc.kind \in run.due
     /\ \A c \in run.due \ {o.doc.kind} : Before(run.buffer, o.doc.kind, c)}

Unify ==
  /\ run.on /\ run.due # {}
  /\ unified' = Applied(unified, Bulk)
  /\ LET due == run.due \ {o.doc.kind : o \in Bulk}
     IN run' = [run EXCEPT !.due = due, !.buffer = IF due = {} THEN <<>> ELSE @]
  /\ UNCHANGED <<config, site, raw, ended, history>>

\* Mutant: the records that do not fill a batch are not flushed.
FinishUnflushed ==
  /\ run.on /\ run.agenda = <<>> /\ run.due = {} /\ Len(run.buffer) < BatchSize
  /\ run' = NoRun
  /\ ended' = "success"
  /\ history' = [history EXCEPT !.settled = @ \/ history.fresh]
  /\ UNCHANGED <<config, site, raw, unified>>

Finish ==
  /\ run.on /\ run.agenda = <<>> /\ run.buffer = <<>>
  /\ run' = NoRun
  /\ ended' = "success"
  /\ history' = [history EXCEPT !.settled = @ \/ history.fresh]
  /\ UNCHANGED <<config, site, raw, unified>>

\* The run fails, or the process dies: a page cannot be got or parsed, or a write is
\* refused that may have been applied in part.
Stop ==
  /\ run.on
  /\ \E part \in SUBSET Bulk : unified' = Applied(unified, part)
  /\ \E part \in SUBSET {o \in RawOps(run.buffer) : FlushDue} : raw' = Applied(raw, part)
  /\ run' = NoRun
  /\ ended' = "failure"
  /\ history' = [history EXCEPT !.torn = @ \/ run.due # {}]
  /\ UNCHANGED <<config, site>>

-----------------------------------------------------------------------------
(* The site. *)

\* History: a fixture has another date, or a player's row another place.
Moves(before, after) ==
  \E i \in DOMAIN before, j \in DOMAIN after :
     /\ before[i].thing = after[j].thing
     /\ \/ source = "openfootball" /\ before[i].label # after[j].label
        \/ source = "fbref" /\ i # j

Changes(page, body) ==
  /\ history.changed < MaxChanges
  /\ site' = [site EXCEPT ![page] = body]
  /\ history' = [history EXCEPT !.changed = @ + 1, !.fresh = FALSE, !.settled = FALSE,
                                !.moved = @ \/ Moves(site[page], body)]
  /\ UNCHANGED <<config, run, raw, unified, ended>>

\* Something else is told of a thing, or it is told under another date.
Revise(page, i, content) ==
  /\ content # site[page][i].content
  /\ Changes(page, [site[page] EXCEPT ![i].content = content])

Relabel(page, i, label) ==
  /\ label # site[page][i].label
  /\ Changes(page, [site[page] EXCEPT ![i].label = label])

\* A thing appears that the site did not have, anywhere in a list.
Appear(page, i, entry) ==
  /\ \A p \in Pages : \A j \in DOMAIN site[p] : site[p][j].thing # entry.thing
  /\ Changes(page, InsertAt(site[page], i, entry))

Next ==
  \/ Start \/ GetPage \/ SkipPage \/ YieldRecord \/ StoreRaw \/ Unify \/ Finish \/ Stop
  \/ \E page \in Pages :
       \/ \E i \in DOMAIN site[page], content \in Contents : Revise(page, i, content)
       \/ \E i \in DOMAIN site[page], label \in Labels : Relabel(page, i, label)
       \/ \E i \in 1..Len(site[page]) + 1, thing \in MayList[page], label \in Labels,
             content \in Contents :
            Appear(page, i, [thing |-> thing, label |-> label, content |-> content])

Spec == Init /\ [][Next]_vars

-----------------------------------------------------------------------------
(* Properties. *)

Entities == {"matches", "events", "player_stats"}

\* A collection has one document for each of its keys, and a buffer is within its bound.
TypeOK ==
  /\ run.on \in BOOLEAN
  /\ Len(run.buffer) <= BatchSize
  /\ \A i \in DOMAIN run.agenda : run.agenda[i].do \in {"get", "yield"}
  /\ run.due \subseteq Entities \cup {"team_stats"}
  /\ \A r \in raw : r.kind \in Entities /\ r.thing \in Things /\ r.content \in Contents
  /\ \A d \in unified : d.kind \in Entities \cup {"team_stats"} /\ d.thing \in Things
  /\ \A d \in raw, e \in raw : Same(d, e) => d = e
  /\ \A d \in unified, e \in unified : Same(d, e) => d = e
  /\ ended \in {"never", "success", "failure"}

DocsOf(collection) == {d \in unified : d.kind = collection}
HasMatch(d, docs) == \E m \in docs : m.kind = "matches" /\ m.key = d.match

\* The team_stats of a match are never there without the match, however a run ends:
\* unify_records writes the collections in the order in which the mapper yields, and
\* goes no further than the first write that is refused.  The match that a unified event
\* refers to (mappers.py: "joins cleanly against the matches collection") has been stored
\* as raw, even when it is not unified.
MatchIsThere ==
  /\ \A d \in DocsOf("team_stats") : HasMatch(d, unified)
  /\ \A d \in DocsOf("events") :
       \E r \in raw : r.kind = "matches" /\ UnifiedId(r.key) = d.match

\* An event is without its match within a flush only, which is about to write it, or
\* once a run has stopped within one.  A batch that begins with events has their match
\* behind them, since the order of a flush is that of the entities' first records.
EventsJoin ==
  ~history.torn =>
     LET pending == {o \in UnifiedOps(run.buffer) : o.doc.kind \in run.due}
     IN \A d \in DocsOf("events") : HasMatch(d, unified \cup {o.doc : o \in pending})

\* The reference definition of a fetch: the pages that can be reached from the
\* configured ones, and the records of their entries.
Yields(page, do) == {item \in ToSet(Items(page, site[page])) : item.do = do}
Below(pages) == {item.page : item \in UNION {Yields(p, "get") : p \in pages}}
Catalogue ==
  LET roots == ToSet(config.roots)
      reached == roots \cup Below(roots) \cup Below(Below(roots))
  IN {item.record : item \in UNION {Yields(p, "yield") : p \in reached}}

\* Once a run has succeeded without a skipped page and while the site stood still, raw
\* and unified collections have everything the site lists within the configured limits,
\* with its present content: no record is lost between batches, entities and levels.
SettledCoversSite ==
  history.settled =>
     /\ Catalogue \subseteq raw
     /\ \A r \in Catalogue : ToSet(Mapped(r)) \subseteq unified

\* "re-running ingestion is idempotent and never duplicates" (raw_repository.py): from
\* then on, and until the site changes, no run alters anything but the times of fetching
\* and ingesting, which are left out, even one that stops or that skips a page.
RerunIsQuiet == [][history.settled => UNCHANGED <<raw, unified>>]_<<raw, unified>>

\* A thing has one document in each collection that is keyed by it, and one raw record,
\* whatever runs and changes there were, unless it has changed what its synthesised ref
\* is made of: a date of openfootball, a row's place in fbref.
OneRecordPerThing ==
  ~history.moved =>
     /\ \A r \in raw, s \in raw : r.thing = s.thing => r.key = s.key
     /\ \A d \in unified, e \in unified :
          d.thing = e.thing /\ d.kind = e.kind /\ d.kind # "team_stats" => d.key = e.key
=============================================================================
