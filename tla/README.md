# Football aggregator: a verification project

TLA+ models of the football aggregator, the TLC configurations that check them on
small instances, and theorems about them that TLAPS checks for every value of the
constants. Paths are shortened to what tells them apart under `src/`.

The program is a single asyncio process (FastAPI and NiceGUI) over MongoDB. It fetches
football data from four sources into *raw* collections, maps them to *unified*
collections, lets a user define transform *pipelines* from raw to unified, materialises
*match aggregates*, and has a UI that browses and edits all of it through the REST API.
There are no locks between requests, no transactions and no recovery at startup. What
makes it hard is that every handler is a chain of awaits: between two of them other
requests run, Mongo may refuse the call, part of a bulk write may have been applied, and
the process may die.

## Inventory

| Part | State | Operations | Interacts with | What is hard |
|------|-------|------------|----------------|--------------|
| Ingestion runner, run rows (`ingestion/runner.py`, `status.py`) | buffer, `records_by_entity`, total; `ingestion_runs` | `run_source`, `run_all`; start, finish, list | adapters, raw store, event bus | batches over awaits, overlapping runs, a failure or a crash inside a flush |
| Raw store (`raw_repository.py`) | `raw_<source>`, by (entity, source_ref) | `upsert_many`, `replace_payload`, find | runner, pipelines, UI | partial bulk writes; edits that are published to nobody |
| Event bus (`events.py`) | one handler list | publish | runner, unification service | exceptions of the handler end the publisher |
| Unification service, mappers, unified store (`unification/service.py`, `mappers.py`, `repository.py`) | unified collections | `handle_raw_ingested`, `unify_records`, `upsert_many` | event bus | one event becomes several writes; a row a mapper does not expect |
| Pipelines (`orchestration/`, `api/routers/pipelines.py`) | `pipelines`, `pipeline_runs`, lineage | CRUD, preview, run | raw and unified collections | two bulk writes per run, retries, error modes, edits during a run |
| Transform engine (`unification/transform/`) | the working record | twelve steps, registry | executor | dicts shared by reference; the order of reads, deletes and writes within a step; lineage of each change |
| Polite HTTP client (`ingestion/http.py`) | token bucket, floor and lock, body cache | `get` | adapters | concurrent callers, retries, conditional requests, redirects |
| Match aggregates (`unification/aggregate.py`) | `match_aggregates` | rebuild, get, query | five unified collections | five reads at five moments, in a loop over a cursor |
| Source adapters, mappers' keys (`ingestion/adapters/`, `unification/keys.py`) | the place within a fetch | fetch, ref, unified id | HTTP client, runner | they may raise at any record; the site changes between runs, and refs are made of what changes; events and their match may fall into different batches |
| Upserts (Mongo's, as the repositories and `executor.py` use them) | every collection | find, then change or insert | all writers | two steps between which others write; keys with and without a unique index; null keys |
| Composition root (`app/factory.py`) | none kept per request | build adapters, wire the bus | all | clients, and so rate budgets, are built per request |
| Read endpoints (`api/routers/raw.py`, `unified.py`, `browse.py`) | none | paged queries | all collections | count and page are two reads, between which documents come; a filter that is applied after paging |
| Data page (`ui/pages.py`) | mode, collection, items, editor | load, pick, save, rebuild | REST API | widgets are read before and after an await |
| Builder page (`ui/pages.py`, `forms.py`) | steps, forms, configs | add, move, remove, save | REST API | text lives in widgets that are redrawn |
| Lineage, preview and runs pages (`ui/pages.py`) | a choice and a column of answers | press, answer | REST API | calls that overlap, fail or are never answered |
| Layout, styles | none | | | |
| Configuration, logging, errors, health | settings | | all | |

What makes each part correct, in a sentence:

* *Ingestion*: nothing reaches a unified collection that was not stored as raw first; a
  run that ends badly loses no more than its last batch; its row tells what happened;
  a run of its own repairs what earlier ones left.
* *Pipelines*: a row accounts for every record; `fail_fast` writes nothing; lineage never
  tells of what was not written; a run executes one definition.
* *Transform engine*: lineage names every change, and leads from a record back to its
  source.
* *HTTP client*: the gets of one client keep the floor; a body is what the site had.
* *Sources*: a run that succeeds covers the site; the next one changes nothing; a thing has
  one document; what refers to a match finds it.
* *Upserts*: a find and an insert are one step to everyone else, where an index backs the
  key; no two documents share a key; a repetition adds nothing.
* *Read endpoints*: a walk of the pages shows every document once.
* *Aggregates*: a rebuild that answers leaves nothing older than itself.
* *UI*: the list is of what is selected; a save should go where its item came from, which the
  code does not ensure; what was typed is what is saved; a column holds the answers to what
  was asked.

## Modules

| Module | Models | Abstract state and actions against the code |
|--------|--------|---------------------------------------------|
| `BulkWrite` | Mongo's `bulk_write` of upserts, as every repository calls it | operators `Upserted` (any part of the operations applied) and `Written` (what the driver counts) |
| `Ingestion` | `run_source` and all it reaches: raw store, bus, service, mappers' verdicts, run rows, edits | one action per stretch between two awaits; `pc` names the await; `Crash` and `Edit` at any time |
| `IngestionContract` | what someone sees who looks at the collections only | `Open`, `Close`, `Store`, `Project`, `Edit`; implemented by `Ingestion` |
| `PipelineExecutor` | pipelines' CRUD, a commit run, target, lineage and run rows | one action per await; what steps make of a record is the constant `Effect` |
| `RecordPaths`, `TransformSteps`, `RecordPipeline` | `paths.py`; the twelve steps of `steps.py`; the loop that threads one document after another through them | a record is a root in a heap of dicts, so that two fields may hold one dict; a step is a function of heap, record and config |
| `PoliteClient` | `PoliteClient.get` with its lock, floor, retries and cache; the site | a task is one call; the clock advances between any two steps |
| `Sources` | the four adapters, the refs and unified ids, over runs that follow one another while the site changes | a fetch is an agenda of pages to get and records to yield; one action per await of a run, one per bulk write of a flush; the site's entries change, appear, move |
| `Upsert` | bulk upserts as the server carries them out, into a planned collection or a pipeline's own | per operation a find, then a change, an insert, a conflict; writers interleave between any two |
| `AtomicUpsert` | what `BulkWrite` takes for granted: an upsert is one step | implemented by `Upsert` |
| `Browse` | the list endpoints over `Upsert`, and a client that walks the pages | `Count` and `Find` are the two reads of a request |
| `MatchAggregates` | rebuilds of one match or of all, which may overlap; the writers of the five collections | one action per read; the documents of a match in a collection are a version that counts their changes |
| `DataPage` | one client of the data page, its loads and saves in flight, the raw collections | clicks, and load and save before and after their awaits |
| `Builder` | one client of the builder page: steps, configs, forms | one action per handler; typing changes a form only |
| `ResultPages` | one client of the lineage, preview or runs page | a press before its await, its answer or death after |
| `UserInterface` | a browser tab, which is on one of the pages | the actions of the page that is open |

`Ingestion` and `PipelineExecutor` are built on `BulkWrite`; `RecordPipeline` is the
inside of a `PipelineExecutor` run (its `Step` is what `Effect` stands for, seen with
values); `Browse` extends `Upsert`; `UserInterface` composes the three modules of pages.
`Sources` and `Ingestion` are two views of one run: `Ingestion` has every await and every
failure of a flush with opaque records, `Sources` has the order and the keys of the records.
The `*Proofs` modules hold the theorems, one for each of these systems but that
`FetchProofs` has those of `PoliteClient` and of `Sources`, and `DataProofs` the lemmas that
several need; the `MC*` modules give constants small values.

Definitions whose comment begins with "Mutant:" are faulty variants of the one that
follows. No specification uses them: put in its place, a variant makes the property it
is named with in `PROJECT.json` fail, which shows that the property depends on the code.

### What the models leave out, by module

* `Ingestion`: pipelines write to unified collections too, and are not part of it: what it says
  of those collections is of what ingestion writes there. `fetched_at` differs from batch to
  batch, so an upsert of the same payload by a later batch counts. The operations of one bulk
  write are applied in order. The entities of a flush are published in any order (the code's is
  that of a dict). A unified document is known by the raw key it was made from.
  `reunify_source`, and the fallback for an event without records, are called by nothing in the
  program. A driver that applies a write after its failure was reported is not modelled.
* `PipelineExecutor`: the effect of a definition on a record depends on the record only.
  The identity of an output is a value, of which `LineageId` gives the printed and joined
  form; it need not tell identities apart. The read-back of a pipeline update is folded into it.
* `TransformSteps`: a text is a sequence of words; a list acts as a scalar; `extract` by
  JSONPath does what it does by a dot-path; `cast` is to int and str; quotes are stripped
  from words; `gt` and `lt` compare numbers. Lineage is read as it is during the run, with
  its values by reference; what is saved of it are copies made when the record is done.
  Dicts come from documents, from configs of `constant` and `default`, and from the steps;
  one in the table of a `lookup` would be shared like that of a `constant`, and is left out.
* `PoliteClient`: errors of httpx other than `HTTPStatusError` and `TransportError`, as too many
  redirects, are one kind, `otherError`, which is not retried. The token bucket and the
  exponential backoff are delays of any length. A validator tells versions of a resource apart.
* `Sources`: records are without `fetched_at` and `ingested_at`. A flush is its raw write and
  its unified bulk writes, a failure applies any part of the one in progress; payloads are
  well-formed (odd ones are in `Ingestion`), and one source at a time, since neither raw
  collections nor unified ids are shared. What `understat` takes from a page beside its
  matches, and the filters of `statsbomb` by season, are data.
* `Upsert`: a field stands for a compound key too. Documents are never deleted, as in the
  program, and a lookup without an index finds the oldest that matches. The driver's
  retry of a whole bulk is in `PipelineExecutor`. `Ingestion` and `PipelineExecutor` take an
  upsert to be one step, which `ActsAtomically` justifies for their keys; that two bulk
  writes interleave operation by operation is in this module only.
* `Browse`: a page is read at once (it has at most 200 documents); the other filters make
  the collection smaller, and are left out. A typed endpoint fails as a whole on a document
  that does not validate.
* `MatchAggregates`: a version stands for all documents of a match in a collection. Only a match
  is told valid or not; what the other four models refuse, for they forbid extra fields too, is a
  case of `Fails`.
* `DataPage`: a document is known by its key; the number of items asked for is not
  modelled; a rebuild ends in its load or in nothing.
* `Builder`: two kinds of fields, text and JSON, with numbers, choices and arrays among
  the texts; name, source and target are posted as typed.
* `ResultPages`: an error that the API answers is drawn like an answer; *Run & Commit* only
  notifies. An emptied number field raises before the call, as a call without an answer
  does after it.
* `UserInterface`: a behaviour stays on one page; what a save in flight does after its page
  is left is the same as before.

## Runs

All runs check deadlock except where a system of finitely many requests comes to its
end. Symmetry is used for interchangeable calls, writers and matches only, and in no run with
a liveness property.

| Run | Question | Bounds, and why they suffice |
|-----|----------|------------------------------|
| `IngestionOverlap` | what two overlapping runs, edits and crashes can do to one document | two runs, one key, two payloads, a batch of two, two records per run: a full flush and a last short one, each overtaken at every await. More keys only add independent copies |
| `IngestionEntities` | is a row true, does a verdict come, does the run keep `IngestionContract` | one run, two entities of which one maps to two collections, good, odd and unparseable payloads, three records and batches of two: a full batch, then a short one |
| `PipelineEffects` | does a row account for its run, in both error modes, while definitions change | one run, three records, definitions that map two records to one identity, map apart, drop, raise, drop all, and a malformed one; two attempts |
| `PipelineOverlap` | do target and lineage agree | two runs, two records, two identities that join to one lineage id, two attempts: partial writes of both bulks, in all interleavings |
| `PoliteRequests` | is the floor kept, is a body current | three calls of one client (one to fill the cache, one to use it, one to replace it), two attempts each, a floor of one and a clock up to three, two versions, at most two redirected requests |
| `PoliteTwoRuns` | does the floor hold between runs | a violation, see below |
| `RecordSteps` | do all pipelines of three steps keep lineage complete, but for what a path was led through | 22 step configs of the twelve types over fields `a`, `b` and `x.a`, three documents: text of several words, number, None and missing fields, a dict of the document's and those the steps make; 512 pipelines that set paths through a scalar, or through what replaced it; 50 pipelines of four steps that put one dict under two fields and change it through either; and 60 of three that set a field to a dict of their config, share it and change it |
| `AggregateRebuild` | is an aggregate as fresh as its rebuild, or one it met | two rebuilds, of one match or of both, three documents that change once each, a player that only one version of the events mentions: the smallest instance in which a slower rebuild writes over a faster one |
| `SourcesRerun` | does a run cover the site, does the next one change anything | three runs (one that stops, one that repairs, one that must be quiet) of each adapter, one change of the site, batches of two: the second batch begins with events of the first's match. StatsBomb has two competitions and two matches, once with configured competitions and once as a bounded crawl |
| `StorePages` | are upserts atomic, does a walk show each document once | two writers, three bulk writes of two records: under the key, under another field that one record lacks, and without key; a collection with the index and one without; pages of two, so that a walk takes up to two pages with writes between and none after it |
| `UiTab` | is the list of what is selected, what is posted of what was typed, whose answers are in a column | two loads and one save in flight, two raw collections that may have one key, one unified collection; two steps with a text field that has a default and a required JSON field; two presses about two choices |
| `UiWrongSource` | does a save go to the document that was loaded | a violation, see below; one load and one save, two sources that have one key |

### Properties

The comment before each property states it and names the code it is about. The ones that
matter most:

* `UnifiedFromIngested`, `OnlyTheBatchIsLost`, `SoloRunRepairs`, `RowTellsTheTruth` and
  `KeepsContract` of `Ingestion`. `KeepsContract` is the refinement of
  `IngestionContract`: rows open and close once, and the unified collections are a
  lagging projection of what was ever stored.
* `RowAccountsForRun`, `FailFastWritesNothing`, `LineageOfWritten`, `SoloRunExplains` of
  `PipelineExecutor`.
* `EveryChangeIsNamed` (an action property about every dict, at any depth, by whichever of
  the paths that lead to it), `LineageLeadsBack` (undoing the lineage, entry by entry, gives
  the source document, but for scalars that were replaced by a dict on the way of a path) and
  `WrittenAsTransformed` of `RecordPipeline`.
* `SpacingKept` and `BodyWasCurrent` of `PoliteClient`.
* `SettledCoversSite` (against a reference definition of what the site lists),
  `RerunIsQuiet`, `EventsJoin`, `MatchIsThere` and
  `OneRecordPerThing` of `Sources`.
* `ActsAtomically` (the refinement of `AtomicUpsert`), the unique key in `TypeOK`,
  `BulkStands` and `RepeatIsQuiet` of `Upsert`; `WalkSeesEachOnce` of
  `Browse`.
* `RebuildIsFresh` of `MatchAggregates`.
* `ListFollowsSelect`, `TypedIsSaved`, `AnswersStand` of the UI.

Several properties are conditional on what the code does not prevent: `SoloRunRepairs`
and `SoloRunExplains` on a run that no other run of the same source or target, and no
edit, overlapped, and the latter, as to which record a lineage document tells of, on
identities that do not join to one id; `RebuildIsFresh` says "as fresh as a rebuild that it has met", since the
slower of two writes last; `ActsAtomically` lets a document be added next to one that
matches, to who writes under a key without index and not alone; `RepeatIsQuiet` speaks of
documents, not of refusals, since of three records the last may take another's indexed key;
`WalkSeesEachOnce` is of the natural order, or of a sort by the key while nothing is
written; `OneRecordPerThing` on refs that did not move (a date in openfootball, a row's
place in fbref), `SettledCoversSite` on a run without a skipped page while the site stood
still, `EventsJoin` on runs that did not stop within a flush;
`ListFollowsSelect` on loads that did not overlap or die, and a mode that was not
switched since; `AnswersStand` on calls that were answered and, for a lineage, that did not
overlap; `LineageLeadsBack` on paths whose scalar no step has led another path through;
`WrittenAsTransformed` on pipelines without a
dict in a config, since that one dict is in every record. Each condition but the last is a
history variable that the actions maintain, and each is there because the property is false
without it: what the code does in the excluded case is listed under the disagreements
below, and no property here would catch it.

`TypedIsSaved` has no such condition; it says what is posted in every case. A field has what
was last typed into it. Where the addition of a step, or a form that did not parse, dropped a
text before it was collected, the field has what the form has shown since. A form that does
not parse when the pipeline is saved is posted as when it last did. An absent field, an empty
one and an empty object all stand for the field's default, since the form draws them alike.

`RerunIsQuiet` and `SoloRunRepairs` are about documents without `fetched_at` and `ingested_at`,
which every run writes anew.

### Fairness

`VerdictComes` and `RunIsAnswered` are checked under weak fairness of the coroutine's own
steps. The event loop resumes a coroutine whose call has been answered, and the driver
and HTTP client answer every call, if only with a time-out, which is one of the failure
actions. An adapter yields finitely many records (`MaxFeed`). No fairness is assumed of
users, of failures or of crashes, and the properties allow a crash and a refused last
write as endings.

### Where the code and its documentation disagree

Shown by a run:

* `PoliteTwoRuns`: `fbref.py:7-8` says that every request is at least six seconds apart,
  by construction. Each `POST /api/ingestion/run` builds its own clients.
* `UiWrongSource`: `README.md:26` offers to edit raw payloads in place. `save_raw`
  (`pages.py:266`) sends the edit to the source that is selected when *Save* is pressed. After a
  change of the select the old list can be picked from until the new one has come; after the
  mode was toggled away and back the select is on the first source again, and the editor still
  on an item of another. If that source has a document of the same key, it is overwritten
  (`EditedInPlace`).

Met while modelling, and not the subject of a run; the properties are stated so as to hold
beside them:

* `mappers.py:10-11` says that an odd row never aborts a batch. A payload without an expected key
  raises `KeyError` (`mappers.py:72`), which `service.py:67` does not catch, and the run ends as
  a failure (`Ingestion!PublishFails`).
* `contract.py:10` says that a step that mutates data without emitting lineage is incorrect.
  After `duplicate` (or `extract`) of a dict, a change of the copy changes the original, and
  the lineage names the copy only: `EveryChangeIsNamed` therefore asks for one path to the
  dict that was changed, not for all.
* `http.py:107-108` says that 4xx responses are not retried; they are
  (`PoliteClient!Fails`). A redirect is followed past bucket and floor (`Redirect`).
* `README.md:21-22` says that every transform records before and after for every field, and
  `contract.py:10` likewise. `set_path` replaces a scalar by a dict on its way to a leaf
  (`paths.py:48-50`), and no entry tells of the scalar: it cannot be had back from the lineage.
  `RecordSteps` has pipelines that do this, and `LineageLeadsBack` fails on them if the scalar's
  path is not left out. `duplicate` of a dict below itself makes a record
  that contains itself.
* A dict literal of a `constant` or `default` step is one object for a whole run: later
  steps change it for the records that follow, and for outputs already queued.
* `target_id` joins printed values, so that the identities `1001` and `"1001"` share one
  lineage document.
* A pipeline's `$set` keeps fields that `Match` forbids; the rebuild of all matches then
  fails on that document, with nothing written.
* `executor.py:125-126` upserts "rather than blindly insert duplicates". Into a collection
  without a unique index two runs that overlap insert the same record twice; into a planned
  one, a record without the key takes the document whose key is null.
* `pages.py:293` promises the lineage "for one record"; two loads that overlap leave two.
  `pages.py:5-6` says that every page handles loading, error and empty states explicitly; a call
  that is not answered raises `httpx.TransportError`, which no page catches, and a preview then
  shows its spinner for ever.
* Of two overlapping rebuilds the older may write last. Two overlapping ingestion runs
  may leave a unified document older than its raw one.
* Data page: the handler of the mode toggle drops the coroutine of `load`; a call that
  is not answered leaves the old list; a save goes to the collection selected at the
  time, and an edited payload is not unified until the next ingestion, which overwrites
  it.
* Builder: `add_step` (`pages.py:126-130`) redraws the forms without collecting them, so that what
  was typed since the last collection is gone. A form with a garbled JSON field is passed over
  (`pages.py:119-124`), and *Save* posts the step's older config, all its fields, with a success
  toast. `{}` is drawn as an empty field, so that a typed `{}` is gone after a redraw.
* A run that dies stays `running`, and is hidden from the list, whose limit is applied
  before the hiding.

## Proofs

TLAPS proves, for every value of the constants that the named assumptions allow:

| Theorem | Says |
|---------|------|
| `DataProofs!UpsertedValue` | after a bulk write a document is what it was, or the last applied operation on its key |
| `DataProofs!WrittenBounds` | the count of a bulk write lies between the number of its keys and that of its operations |
| `IngestionProofs!TypeCorrect` | `Spec => []TypeOK` |
| `IngestionProofs!UnifiedComesFromIngested` | `Spec => []UnifiedFromIngested` |
| `IngestionProofs!IngestionKeepsContract` | `Ingestion` implements `IngestionContract` |
| `IngestionProofs!MemoryIsBounded` | `Spec => []BoundedMemory` |
| `IngestionProofs!OnlyTheBatchCanBeLost` | `Spec => []OnlyTheBatchIsLost` |
| `IngestionProofs!RowsTellTheTruth` | `Spec => []RowTellsTheTruth` |
| `IngestionProofs!SoloRunsRepair` | `Spec => SoloRunRepairs` |
| `PipelineProofs!PipelineTypes` | `Spec => []TypeOK`, with its bound on attempts |
| `PipelineProofs!RunsKeepTheirDefinition` | `Spec => []OneDefinitionPerRun` |
| `PipelineProofs!FailFastIsClean` | `Spec => []FailFastWritesNothing` |
| `PipelineProofs!LineageTellsOfWritten` | `Spec => []LineageOfWritten` |
| `PipelineProofs!RowsAccount` | `Spec => []RowAccountsForRun` |
| `PipelineProofs!SoloRunsExplain` | `Spec => SoloRunExplains` |
| `FetchProofs!ClientTypeCorrect` | `ClientSpec => []ClientTypeOK`, with its bound on attempts |
| `FetchProofs!FloorHolds` | `ClientSpec => []SpacingKept` |
| `FetchProofs!BodiesAreCurrent` | `ClientSpec => []BodyWasCurrent` |
| `FetchProofs!SourcesTypes` | `Spec => []TypeOK`: each collection has one document for each key |
| `FetchProofs!SourcesOneRecord` | `Spec => []OneRecordPerThing` |
| `FetchProofs!SourcesMatchIsThere` | `Spec => []MatchIsThere` |
| `FetchProofs!SourcesEventsJoin` | `Spec => []EventsJoin` |
| `FetchProofs!SourcesSettledCoversSite` | `Spec => []SettledCoversSite` |
| `FetchProofs!SourcesRerunIsQuiet` | `Spec => RerunIsQuiet`: once the site is covered, no step of any later run changes a document |
| `RecordProofs!RecordTypes` | `Spec => []TypeOK`: every dict that a record leads to is in the heap |
| `RecordProofs!RecordsAreSeparate` | `Spec => []WrittenAsTransformed`, for all pipelines of the twelve steps |
| `RecordProofs!RecordChangesAreNamed` | `Spec => EveryChangeIsNamed`: a step changes no dict but where its lineage says |
| `StoreProofs!UniqueKeys` | `Spec => []TypeOK`: the indexed key is unique, whoever writes under whatever key |
| `StoreProofs!UpsertsActAtomically` | `Upsert` implements `AtomicUpsert` |
| `StoreProofs!AloneStands` | `Spec => []BulkStands` |
| `StoreProofs!RepeatsQuietly` | `Spec => RepeatIsQuiet` |
| `StoreProofs!UpsertsAreTheSame` | `Browse` implements `Upsert`, so that the above holds while pages are read |
| `StoreProofs!WalksSeeEachOnce` | `BrowseSpec => []WalkSeesEachOnce` |
| `AggregateProofs!AggregateTypes` | `Spec => []TypeOK`: an answered rebuild has nothing left to write |
| `AggregateProofs!RebuildsAreFresh` | `Spec => []RebuildIsFresh`, for any number of rebuilds |
| `UserInterfaceProofs!PagesTypes` | `TabSpec => []PagesTypeOK` |
| `UserInterfaceProofs!ListFollows` | `TabSpec => []ListFollowsSelect` |
| `UserInterfaceProofs!SavedAsTyped` | `TabSpec => []TypedIsSaved` |
| `UserInterfaceProofs!AnswersAreOfTheirCalls` | `TabSpec => []AnswersStand` |

The assumptions on constants are the `ASSUME`s of the modules: that sentinels (`None`,
`Missing`, `NoKey`, ...) differ from values, that sets which the program holds in memory or
reads to the end are finite (`SourceIds`, `Asks`), that sizes are positive, that printing a
record tells records apart (`Printed`), and that an emptied JSON field is a text a field may
hold (`EmptyObject`). `RecordAssumption` says what documents are (a dict, and the dicts in
it) and what configs the models of the twelve steps accept. `SourcesAssumption` describes
sites: pages lead down three levels at most, and a thing is listed once. `LineageId` may be any
function: identities may join.

*Provenance* (`UnifiedComesFromIngested`). `UnifiedFromIngested` speaks of the
collections only, and `Unify` writes from a pending list. The inductive invariant adds
what ties the two together, along the path a record takes: the groups of
`records_by_entity` repeat the buffer (`GroupsRepeatBuffer`); from the end of the raw
write on, the buffer has been stored (`StoredBeforePublished`); so has every record of a
pending unified write, which is bound for a collection of its mapper
(`PendingWasStored`). Most steps leave this alone (`QuietStep`); those that store let
`ingested` grow only (`GrowingStep`).

*Refinement* (`IngestionKeepsContract`). The mapping shows a row's status and the
collections, and forgets the coroutine. It needs `TypeOK`, the provenance invariant
(a `Unify` may only project what was stored) and `RowFollowsRun` (a run that is between
its start and its end has a row that says running). Fairness is not part of the contract.

*What a run holds* (`MemoryIsBounded`). `Hand` says that the buffer is the end of what was
fetched, that each group is the part of the buffer that its entity has, in its order
(`GroupOf`), and that a pending upsert has a group that is published. A record appended to
both keeps this; so does emptying both.

*What can be lost, and what a row says* (`OnlyTheBatchCanBeLost`, `RowsTellTheTruth`).
Both need to follow a record through a flush. `AllLanded` says that what was fetched before
the buffer has landed, and that of the buffer each record has been stored and, once its
entity is published, is not odd and is either in each of its collections or bound for it
(`Carried`). `AllCounted` ties `total` to the keys and to the number of the records fetched,
with the bounds of `WrittenBounds` for each bulk write.

*A run of its own repairs* (`SoloRunsRepair`). `Alone` says of a run that nothing has
overlapped that it is the only active one, and that the collections hold what it has read
last of each key: of what it read before the buffer, unless the buffer has the key again, and
of the buffer as far as the flush has come. The step that needs care is the bulk write: of
several operations on one key the last one stands (`UpsertedValue`), which is the last of
the group, and hence of the buffer.

*Pipeline runs.* `Books` is the state of one run as its phases leave it: what it has counted
is what it has taken from the cursor; each queued write has an effect of the one definition,
from a record that was read, and a twin in the queue of lineage. `RunsKeepTheirDefinition`,
`FailFastIsClean` and half of `RowsAccount` follow. `Applied` says how much of the two queues
the collections have: nothing before the bulk writes, all of the first once it was answered,
and of both in the end; where a run has written a document there stays one, though others may
write over it. A lineage document comes from an operation whose twin was
written before, since the second bulk write begins after the first has ended: hence
`LineageTellsOfWritten`, retries and crashes included. `Alone` adds, for a run that nothing
overlaps, that the last operation on each key stands, in the target and, for ids that do not
join, in lineage.

*Floor* (`FloorHolds`). Two gets of one client are apart because each reads
`_last_request_monotonic` and updates it before any other may. The inductive invariant
says that the task that sleeps holds the lock and sleeps until the floor has passed
since the last request (`SleeperHoldsLock`), and that no request is younger than the
clock or than `last` (`RequestsArePast`).

*Bodies* (`BodiesAreCurrent`). A 304 confirms the version that was read from the cache
when the request left (`Confirmed`), not the one that is there at its return.

*Atomic upserts* (`UpsertsActAtomically`). The mapping shows an operation as done when its
change or insert is, and a find that finds nothing as no step. `Insert` must not add a
document next to one that matches. Under the indexed key that is the guard of the index;
alone it is `Solitude`: while a bulk write is alone no other is in progress, so what its
find did not find is still not there. `Follows` ties the operations to the job.

*What stands* (`AloneStands`, `RepeatsQuietly`). `Standing` says of the operations that a
bulk write has behind it that each still finds its document, and that the document holds the
record unless a later record of the same key replaced it: a change under a key never takes
away a key that an earlier operation set, and no other document either. A repetition
therefore finds all it looks for, and inserts nothing.

*Walks* (`WalksSeeEachOnce`). `Progress`: every page before the last is full, since a page that
is not the last one ends before the total, and documents are never fewer than a total that
was counted. `InTheirPlaces`: what was seen is the beginning of the order, as to which
`OrderIsOne` shows that there is only one: without a sort, where upserts append to it, and
under the key, where it is the argument that two sorted permutations of distinct keys have
no first difference, and for which the unique index is needed. `DueIsShown`: what the walk is
due is there, wanted, and was shown where it was seen. At the end the walk has seen as many
places as the total, hence each that it is due, and each once, as an order is a permutation.

*Fresh rebuilds* (`RebuildsAreFresh`). `History`: the collections only grow, and who is
active has been met, or has begun later. `Gathered`: what a request has read is no older
than its beginning, and every match that its cursor returned is assembled or about to be.
`Delivered`: from the end of the loop on, each match it covers is about to be written, or
was, and is as fresh as a rebuild it met: if another writes over it, that one was met too, or
began later, and is fresher.

*What a feed leaves* (`FetchProofs`). Four inductive invariants on top of each other.
`Typed` has the unique keys: an upsert removes what has its key before it adds.
`InPlace` says that, until an entry moves, whatever waits on the agenda or in the buffer, or
is stored, has the ref that the site gives its thing now; two documents of one thing then
have one key. `MatchFirst` follows the match of a record along the way the record takes: on
the agenda an event comes after its match or its match has been yielded (`AgendaMatched`);
the match of a buffered one is in the buffer before it or stored (`BufferMatched`); within a
flush, what has been written of it is there (`FlushedKeys`, `EventsStored`); and unless a run
has stopped within a flush, the entity of an event is published after that of its match, or
has its match unified (`EventsMatched`). `SiteCovered` is about one run over a site that
stands still: whatever the catalogue of the site has is stored, in the buffer, yielded by the
agenda, or on a page that the agenda leads to (`Covers`), which a fetch of a page, a yield
and a flush each keep; at the end only "stored" is left. Conversely, what is yielded or
buffered is of the catalogue (`OfTheSite`), so that a settled run writes what is there
already, which is `RerunIsQuiet`. Catalogue keys are unique, and a bulk write therefore
leaves exactly its operations (`AppliedExact`, `AppliedQuiet`).

*Records are separate* (`RecordsAreSeparate`). The heap is seen in two parts, the dicts that
were there when a document was read and those that came after, of which the record's root is
the first. `Separated` says that neither part refers to the other (`Closed`), that the
outputs put by are in the older part, and that they still show what they showed. A copied
document refers to itself only (`CopyFacts`). `ApplyKeeps` says of each of the twelve steps
that, applied to a root in a part which is closed, it leaves that part closed and changes
nothing outside it (`Keeps`): a path from the root stays inside (`FollowFits`), a dict that
`set_path` makes on its way joins the part (`SetKeeps`), and the value it sets is a scalar or
was there. What a reader sees of a record depends on the dicts of its own part only
(`FollowSame`, `ShownSame`). The dict of a config is older than every record and referred to
by each, so that this needs a pipeline without one; `RecordTypes`, which takes the whole heap
as the part, does not.

*Changes are named* (`RecordChangesAreNamed`). `Explains` says of a step that each field of a
dict that it changed lies on a path of one of its entries, as the paths led before the step.
For a field that is set this is an argument about the way there (`OnWay`): as long as the path
leads to a dict nothing has changed, the first time it does not the field on the path gets a
new dict, and from there on only dicts that were made on the way change (`SetCovers`). Rename
and split set or delete more than one path, the later ones in a heap that the earlier ones have
changed. That the later paths named the same fields before (`CoversOn`) holds since neither a
deletion nor setting a scalar gives an old dict a new place (`Fewer`), so that what still
leads to it always did (`FewerFollow`): this is where it matters that `rename` deletes first
and sets last, and that the parts of a split are texts.

*Pages.* The composition has its own steps, so each page's invariant is kept by the steps of
the page and left alone by those of the others. `OneLoad`: while loads do not overlap at most
one is in flight, and unless the mode was switched or a load died it asks for what is
selected; when none is, the list is of that. `AloneStands`: a call that was made alone is the
only one in flight until the next press, asks for the last choice and finds the column to
itself, whoever changes the select meanwhile. `Answered`: calls in flight and entries of the
column add up to no more than the calls there may be; those of a preview share one entry,
which is a spinner until one of them is answered. `TrueToTyped` ties the three versions of a
step together: its form means what was typed into it, or what it showed when that was dropped;
its config means what had been typed when the form was last collected; and of the fields that
were not typed into since then both are the same. Each handler either collects a form before it
draws it anew or drops exactly its fresh fields (`DrawnStep`); a drawn form parses and means
what its config means (`DrawnMeans`), which is where the default and `{}` come in.

*Induction over data.* An induction theorem with an operator as its parameter cannot be
used here, and a proof by least counterexample can: a set of numbers that has 0 and, with
each of its members, the next one, has them all (`Induction`), a recursive function is given
by its values up to each number (`RecursionExists`, `Recursive`), and the sequences that a
fold goes through are stated by position. Where a fact about a sequence does not need its
order, the model says it with sets: a bulk write of the unified upserts is the set of its
operations with their places (`UnifiedOps`), of which the last of a key stands.

Only model-checked:

* liveness (`VerdictComes`, `RunIsAnswered`), which is out of the provers' reach, as
  enabledness is;
* `LineageLeadsBack`.

## Not modelled

* Field-by-field mapping and the parsing of pages: data. Their verdicts, the keys they
  make and the order they yield in are modelled.
* Settings, logging, error formatting, middleware, health, layout and styles: no state that
  a run depends on. `style.py` is a list of colours.
* The preview of a pipeline transforms a sample and writes nothing; the reads of one
  document, and the lists of runs, change nothing. The list of recent runs hides running
  rows after its limit was applied, so that it may be short.
* The token bucket of the HTTP client is a delay of any length: that it never gives out more
  than its rate is not shown.

## Plan

Done, in this order: `BulkWrite`, `Ingestion` with its contract and proofs,
`PipelineExecutor`, `PoliteClient` with its proofs, the transform engine,
`MatchAggregates`, `DataPage`, `Builder`; then `Sources`, `Upsert` with `AtomicUpsert` and its
proofs, `Browse`, `ResultPages`, `UserInterface`, and overlapping rebuilds with their proofs.

Left of the model: `RecordPipeline` as the inside of a `PipelineExecutor` run, with `Effect`
computed by the steps instead of given.

Left of the proofs: `LineageLeadsBack`. It needs that taking an entry back gives the
same record from two heaps that differ in the empty dicts which `set_path` made.
