----------------------------- MODULE Ingestion -----------------------------
(***************************************************************************)
(* Ingestion runs, the raw store, the run-status rows, the event bus and   *)
(* unification: what happens between POST /api/ingestion/run and the       *)
(* unified collections.                                                    *)
(*                                                                         *)
(* Every element of Runs is one call of IngestionRunner.run_source, a      *)
(* coroutine of the single asyncio process.  Nothing serialises the calls  *)
(* (two requests may run the same source at once), and a coroutine may be  *)
(* overtaken at each await: one action below is what a coroutine does      *)
(* from one await to the next.  Mongo may refuse any call, a bulk write    *)
(* may be applied in part before the driver reports its failure, the       *)
(* process may die, and a user may edit a raw document at any time.        *)
(***************************************************************************)
EXTENDS Naturals, Sequences, FiniteSets, BulkWrite

CONSTANTS
  Runs,          \* the calls of run_source
  Keys,          \* raw natural keys (entity, source_ref) of one source
  Entities,      \* entity names: "matches", "events", ...
  EntityOf,      \* the entity part of a key
  Collections,   \* unified collections
  Targets,       \* entity -> the unified collections its mapper yields, in order
  Payloads,      \* source documents
  Odd,           \* those a mapper rejects with KeyError, TypeError, ...
  Unparseable,   \* those a mapper rejects with ValidationFailedError
  Missing,       \* no document under that key
  BatchSize,     \* IngestionRunner._batch_size
  MaxFeed        \* bound: records one adapter.fetch() yields

ASSUME ConstantsAssumption ==
  /\ BatchSize \in Nat \ {0}
  /\ MaxFeed \in Nat
  /\ EntityOf \in [Keys -> Entities]
  /\ Targets \in [Entities -> Seq(Collections)]
  /\ Odd \subseteq Payloads
  /\ Unparseable \subseteq Payloads \ Odd
  /\ Missing \notin Payloads

VARIABLES
  pc,               \* the await run_source is suspended at
  row,              \* ingestion_runs: one status row per run
  buffer,           \* run_source's buffer
  recordsByEntity,  \* run_source's records_by_entity
  total,            \* run_source's total
  exhausted,        \* the adapter's generator has ended
  error,            \* what the except clause caught
  unpublished,      \* entities of records_by_entity still to publish
  byCollection,     \* unify_records' by_collection: the upserts still to send
  raw,              \* raw_<source>
  unified,          \* the unified collections
  fetched,          \* history: what each run has read from its adapter
  ingested,         \* history: payloads ingestion has stored in raw, per key
  solo              \* history: nothing overlapped the run so far

batch == <<buffer, recordsByEntity>>
event == <<unpublished, byCollection>>
store == <<raw, unified>>
history == <<fetched, ingested, solo>>
vars == <<pc, row, batch, total, exhausted, error, event, store, history>>

Records == [key : Keys, payload : Payloads]
Documents == Payloads \cup {Missing}
Errors == {"none", "source", "database", "mapper"}
Rows == [status : {"absent", "running", "success", "failure"},
         count  : Nat,
         error  : Errors]

Suspended == {"reading", "storing", "publishing", "unifying", "failing", "succeeding"}
Ended == {"returned", "raised", "lost"}

Active(r) == pc[r] \in Suspended

-----------------------------------------------------------------------------
\* The positions of the records a mapper yields models for.
Mappable(recs) == {i \in DOMAIN recs : recs[i].payload \notin Odd \cup Unparseable}

-----------------------------------------------------------------------------
Init ==
  /\ pc = [r \in Runs |-> "idle"]
  /\ row = [r \in Runs |-> [status |-> "absent", count |-> 0, error |-> "none"]]
  /\ buffer = [r \in Runs |-> <<>>]
  /\ recordsByEntity = [r \in Runs |-> [e \in Entities |-> <<>>]]
  /\ total = [r \in Runs |-> 0]
  /\ exhausted = [r \in Runs |-> FALSE]
  /\ error = [r \in Runs |-> "none"]
  /\ unpublished = [r \in Runs |-> {}]
  /\ byCollection = [r \in Runs |-> <<>>]
  /\ raw = [k \in Keys |-> Missing]
  /\ unified = [c \in Collections |-> [k \in Keys |-> Missing]]
  /\ fetched = [r \in Runs |-> <<>>]
  /\ ingested = [k \in Keys |-> {}]
  /\ solo = [r \in Runs |-> FALSE]

Goto(r, label) == pc' = [pc EXCEPT ![r] = label]

\* The except clause of run_source: give the batch up for finish(FAILURE).
Fail(r, cause) ==
  /\ Goto(r, "failing")
  /\ error' = [error EXCEPT ![r] = cause]

-----------------------------------------------------------------------------
(* run_source, from one await to the next. *)

\* status_repo.start has inserted the row.
Start(r) ==
  /\ pc[r] = "idle"
  /\ Goto(r, "reading")
  /\ row' = [row EXCEPT ![r].status = "running"]
  /\ solo' = [q \in Runs |-> IF q = r THEN \A p \in Runs : ~Active(p)
                                      ELSE solo[q] /\ ~Active(q)]
  /\ UNCHANGED <<batch, total, exhausted, error, event, store, fetched, ingested>>

\* status_repo.start has raised: no row, and the exception leaves run_source.
StartFails(r) ==
  /\ pc[r] = "idle"
  /\ Goto(r, "raised")
  /\ UNCHANGED <<row, batch, total, exhausted, error, event, store, history>>

\* The adapter yields a record; a full buffer is flushed at once.
Fetch(r, rec) ==
  /\ pc[r] = "reading" /\ ~exhausted[r]
  /\ Len(fetched[r]) < MaxFeed
  /\ buffer' = [buffer EXCEPT ![r] = Append(@, rec)]
  /\ recordsByEntity' = [recordsByEntity EXCEPT ![r][EntityOf[rec.key]] = Append(@, rec)]
  /\ fetched' = [fetched EXCEPT ![r] = Append(@, rec)]
  /\ Goto(r, IF Len(buffer'[r]) >= BatchSize THEN "storing" ELSE "reading")
  /\ UNCHANGED <<row, total, exhausted, error, event, store, ingested, solo>>

\* Mutant: no flush after the loop.
FeedEndsUnflushed(r) ==
  /\ pc[r] = "reading" /\ ~exhausted[r]
  /\ exhausted' = [exhausted EXCEPT ![r] = TRUE]
  /\ Goto(r, "succeeding")
  /\ UNCHANGED <<row, batch, total, error, event, store, history>>

\* The generator ends: the last flush, which returns at once on an empty buffer.
FeedEnds(r) ==
  /\ pc[r] = "reading" /\ ~exhausted[r]
  /\ exhausted' = [exhausted EXCEPT ![r] = TRUE]
  /\ Goto(r, IF buffer[r] = <<>> THEN "succeeding" ELSE "storing")
  /\ UNCHANGED <<row, batch, total, error, event, store, history>>

\* The adapter raises: its HTTP client gave up, or it cannot read a page.
FetchFails(r) ==
  /\ pc[r] = "reading" /\ ~exhausted[r]
  /\ Fail(r, "source")
  /\ UNCHANGED <<row, batch, total, exhausted, event, store, history>>

Ingest(ops, done) ==
  /\ raw' = Upserted(raw, ops, done)
  /\ ingested' = [k \in Keys |->
                    ingested[k] \cup {ops[i].payload : i \in On(ops, k) \cap done}]

\* raw_repo.upsert_many has stored the buffer.
Store(r) ==
  /\ pc[r] = "storing"
  /\ Ingest(buffer[r], DOMAIN buffer[r])
  /\ total' = [total EXCEPT ![r] = @ + Written(buffer[r])]
  /\ unpublished' = [unpublished EXCEPT ![r] =
                       {e \in Entities : recordsByEntity[r][e] # <<>>}]
  /\ Goto(r, "publishing")
  /\ UNCHANGED <<row, batch, exhausted, error, byCollection, unified, fetched, solo>>

\* Mutant: the exception is logged and the batch published all the same.
StoreFailsSilently(r) ==
  /\ pc[r] = "storing"
  /\ \E done \in SUBSET DOMAIN buffer[r] : Ingest(buffer[r], done)
  /\ unpublished' = [unpublished EXCEPT ![r] =
                       {e \in Entities : recordsByEntity[r][e] # <<>>}]
  /\ Goto(r, "publishing")
  /\ UNCHANGED <<row, batch, total, exhausted, error, byCollection, unified, fetched, solo>>

\* raw_repo.upsert_many has raised, some of its operations applied.
StoreFails(r) ==
  /\ pc[r] = "storing"
  /\ \E done \in SUBSET DOMAIN buffer[r] : Ingest(buffer[r], done)
  /\ Fail(r, "database")
  /\ UNCHANGED <<row, batch, total, exhausted, event, unified, fetched, solo>>

\* The mapper raises something else than ValidationFailedError on a record of e.
MapperRaises(r, e) ==
  \E i \in DOMAIN recordsByEntity[r][e] : recordsByEntity[r][e][i].payload \in Odd

\* bus.publish calls handle_raw_ingested, which maps the event's records
\* (those whose mapping raises ValidationFailedError are skipped) and groups
\* the models by collection.  Entities are published in any order.
Publish(r, e) ==
  LET records == recordsByEntity[r][e]
      writes == IF Mappable(records) = {} THEN <<>>
                ELSE [i \in DOMAIN Targets[e] |->
                        [collection |-> Targets[e][i], records |-> records]]
  IN
  /\ pc[r] = "publishing" /\ e \in unpublished[r]
  /\ ~MapperRaises(r, e)
  /\ unpublished' = [unpublished EXCEPT ![r] = @ \ {e}]
  /\ byCollection' = [byCollection EXCEPT ![r] = writes]
  /\ Goto(r, IF writes = <<>> THEN "publishing" ELSE "unifying")
  /\ UNCHANGED <<row, batch, total, exhausted, error, store, history>>

\* The exception leaves unify_records, handle_raw_ingested, publish and flush.
PublishFails(r, e) ==
  /\ pc[r] = "publishing" /\ e \in unpublished[r]
  /\ MapperRaises(r, e)
  /\ Fail(r, "mapper")
  /\ UNCHANGED <<row, batch, total, exhausted, event, store, history>>

Unified(write, done) ==
  unified' = [unified EXCEPT ![write.collection] = Upserted(@, write.records, done)]

\* UnifiedRepository.upsert_many has written the next collection.
Unify(r) ==
  /\ pc[r] = "unifying" /\ byCollection[r] # <<>>
  /\ Unified(Head(byCollection[r]), Mappable(Head(byCollection[r]).records))
  /\ byCollection' = [byCollection EXCEPT ![r] = Tail(@)]
  /\ Goto(r, IF Len(byCollection[r]) = 1 THEN "publishing" ELSE "unifying")
  /\ UNCHANGED <<row, batch, total, exhausted, error, unpublished, raw, history>>

\* Mutant: the exception is logged and the next collection written.
UnifyFailsSilently(r) ==
  /\ pc[r] = "unifying" /\ byCollection[r] # <<>>
  /\ \E done \in SUBSET Mappable(Head(byCollection[r]).records) :
        Unified(Head(byCollection[r]), done)
  /\ byCollection' = [byCollection EXCEPT ![r] = Tail(@)]
  /\ Goto(r, IF Len(byCollection[r]) = 1 THEN "publishing" ELSE "unifying")
  /\ UNCHANGED <<row, batch, total, exhausted, error, unpublished, raw, history>>

\* It has raised, some of its operations applied.
UnifyFails(r) ==
  /\ pc[r] = "unifying" /\ byCollection[r] # <<>>
  /\ \E done \in SUBSET Mappable(Head(byCollection[r]).records) :
        Unified(Head(byCollection[r]), done)
  /\ Fail(r, "database")
  /\ UNCHANGED <<row, batch, total, exhausted, event, raw, history>>

\* Mutant: records_by_entity is not cleared.
FlushEndsUncleared(r) ==
  /\ pc[r] = "publishing" /\ unpublished[r] = {}
  /\ buffer' = [buffer EXCEPT ![r] = <<>>]
  /\ Goto(r, IF exhausted[r] THEN "succeeding" ELSE "reading")
  /\ UNCHANGED <<row, recordsByEntity, total, exhausted, error, event, store, history>>

\* Mutant: records_by_entity is a plain dict, with no entry for a new entity.
FlushEndsPlainDict(r) ==
  /\ pc[r] = "publishing" /\ unpublished[r] = {}
  /\ buffer' = [buffer EXCEPT ![r] = <<>>]
  /\ recordsByEntity' = [recordsByEntity EXCEPT ![r] = <<>>]
  /\ Goto(r, IF exhausted[r] THEN "succeeding" ELSE "reading")
  /\ UNCHANGED <<row, total, exhausted, error, event, store, history>>

\* Mutant: after the last flush the loop is entered again.
FlushEndsInLoop(r) ==
  /\ pc[r] = "publishing" /\ unpublished[r] = {}
  /\ buffer' = [buffer EXCEPT ![r] = <<>>]
  /\ recordsByEntity' = [recordsByEntity EXCEPT ![r] = [e \in Entities |-> <<>>]]
  /\ Goto(r, "reading")
  /\ UNCHANGED <<row, total, exhausted, error, event, store, history>>

\* Every entity is published: the flush empties both buffers and returns.
FlushEnds(r) ==
  /\ pc[r] = "publishing" /\ unpublished[r] = {}
  /\ buffer' = [buffer EXCEPT ![r] = <<>>]
  /\ recordsByEntity' = [recordsByEntity EXCEPT ![r] = [e \in Entities |-> <<>>]]
  /\ Goto(r, IF exhausted[r] THEN "succeeding" ELSE "reading")
  /\ UNCHANGED <<row, total, exhausted, error, event, store, history>>

\* Mutant: no return after finish(FAILURE), so that finish(SUCCESS) follows.
FinishTwice(r) ==
  /\ pc[r] \in {"succeeding", "failing"}
  /\ row' = [row EXCEPT ![r] =
       [status |-> IF pc[r] = "succeeding" THEN "success" ELSE "failure",
        count |-> total[r], error |-> error[r]]]
  /\ Goto(r, IF pc[r] = "failing" THEN "succeeding" ELSE "returned")
  /\ UNCHANGED <<batch, total, exhausted, error, event, store, history>>

\* status_repo.finish has written the outcome.
Finish(r) ==
  /\ pc[r] \in {"succeeding", "failing"}
  /\ row' = [row EXCEPT ![r] =
       [status |-> IF pc[r] = "succeeding" THEN "success" ELSE "failure",
        count |-> total[r], error |-> error[r]]]
  /\ Goto(r, "returned")
  /\ UNCHANGED <<batch, total, exhausted, error, event, store, history>>

\* status_repo.finish has raised: the row is left as it is, and the exception
\* leaves run_source and run_all.
FinishFails(r) ==
  /\ pc[r] \in {"succeeding", "failing"}
  /\ Goto(r, "raised")
  /\ UNCHANGED <<row, batch, total, exhausted, error, event, store, history>>

-----------------------------------------------------------------------------
(* What happens around the runs. *)

\* The process dies: every call in flight is gone, what Mongo holds stays.
\* Nothing looks at rows left "running" when the process starts again.
Crash ==
  /\ \E r \in Runs : Active(r)
  /\ pc' = [r \in Runs |-> IF Active(r) THEN "lost" ELSE pc[r]]
  /\ UNCHANGED <<row, batch, total, exhausted, error, event, store, history>>

\* replace_payload: PUT /api/raw/{source}.  No event is published.
Edit(k, p) ==
  /\ raw[k] # Missing
  /\ raw' = [raw EXCEPT ![k] = p]
  /\ solo' = [r \in Runs |-> solo[r] /\ ~Active(r)]
  /\ UNCHANGED <<pc, row, batch, total, exhausted, error, event, unified, fetched, ingested>>

Progress(r) ==
  \/ \E rec \in Records : Fetch(r, rec)
  \/ FeedEnds(r)
  \/ Store(r)
  \/ \E e \in Entities : Publish(r, e) \/ PublishFails(r, e)
  \/ Unify(r)
  \/ FlushEnds(r)
  \/ Finish(r)

Failure(r) ==
  \/ StartFails(r)
  \/ FetchFails(r)
  \/ StoreFails(r)
  \/ UnifyFails(r)
  \/ FinishFails(r)

Next ==
  \/ \E r \in Runs : Start(r) \/ Progress(r) \/ Failure(r)
  \/ Crash
  \/ \E k \in Keys, p \in Payloads : Edit(k, p)

Spec == Init /\ [][Next]_vars

\* The event loop resumes every coroutine whose call has been answered, and
\* every call is answered: a run that has started keeps moving.
FairSpec == Spec /\ \A r \in Runs : WF_vars(Progress(r))

-----------------------------------------------------------------------------
(* Properties. *)

Writes == [collection : Collections, records : Seq(Records)]

\* Every variable holds a value of its kind.
TypeOK ==
  /\ pc \in [Runs -> {"idle"} \cup Suspended \cup Ended]
  /\ row \in [Runs -> Rows]
  /\ buffer \in [Runs -> Seq(Records)]
  /\ recordsByEntity \in [Runs -> [Entities -> Seq(Records)]]
  /\ total \in [Runs -> Nat]
  /\ exhausted \in [Runs -> BOOLEAN]
  /\ error \in [Runs -> Errors]
  /\ unpublished \in [Runs -> SUBSET Entities]
  /\ byCollection \in [Runs -> Seq(Writes)]
  /\ raw \in [Keys -> Documents]
  /\ unified \in [Collections -> [Keys -> Documents]]
  /\ fetched \in [Runs -> Seq(Records)]
  /\ ingested \in [Keys -> SUBSET Payloads]
  /\ solo \in [Runs -> BOOLEAN]

TargetsOf(k) == {Targets[EntityOf[k]][i] : i \in DOMAIN Targets[EntityOf[k]]}

\* Persist, then publish: whatever a unified document was made of has been
\* stored in the raw collection first, by an ingestion run, under the same
\* key; an unparseable or odd payload and a user's edit never get there.
UnifiedFromIngested ==
  \A c \in Collections, k \in Keys :
     unified[c][k] # Missing =>
        /\ unified[c][k] \in ingested[k] \ (Odd \cup Unparseable)
        /\ c \in TargetsOf(k)

\* Why it holds: the groups repeat the buffer, the buffer is stored before it is
\* published, and a pending upsert carries records of one published group.
GroupsRepeatBuffer ==
  \A r \in Runs, e \in Entities : \A i \in DOMAIN recordsByEntity[r][e] :
     /\ EntityOf[recordsByEntity[r][e][i].key] = e
     /\ \E j \in DOMAIN buffer[r] : buffer[r][j] = recordsByEntity[r][e][i]

StoredBeforePublished ==
  \A r \in Runs : pc[r] \in {"publishing", "unifying"} =>
     \A j \in DOMAIN buffer[r] : buffer[r][j].payload \in ingested[buffer[r][j].key]

PendingWasStored ==
  \A r \in Runs : pc[r] = "unifying" =>
     /\ byCollection[r] # <<>>
     /\ \A w \in DOMAIN byCollection[r] :
          \A i \in DOMAIN byCollection[r][w].records :
             LET rec == byCollection[r][w].records[i] IN
             /\ rec.payload \in ingested[rec.key]
             /\ byCollection[r][w].collection \in TargetsOf(rec.key)

ProvenanceInv ==
  /\ TypeOK
  /\ GroupsRepeatBuffer
  /\ StoredBeforePublished
  /\ PendingWasStored
  /\ UnifiedFromIngested

\* A fetched record that is stored, and unified if its mapper accepts it.
Landed(rec) ==
  /\ raw[rec.key] # Missing
  /\ rec.payload \in ingested[rec.key]
  /\ rec.payload \notin Odd \cup Unparseable =>
        \A c \in TargetsOf(rec.key) : unified[c][rec.key] # Missing

\* Whatever ends a run (a refused call, an odd row, the death of the process),
\* only the records still in its buffer can be lost: those of every earlier
\* flush are in the raw collection and in every unified collection they map to.
OnlyTheBatchIsLost ==
  \A r \in Runs : \A i \in 1..Len(fetched[r]) - Len(buffer[r]) : Landed(fetched[r][i])

\* A "success" row means that the whole source was read, that nothing it
\* yielded was odd, and that all of it has landed; a "failure" row names what
\* was caught.  record_count counts upserts and changes: no more than the records
\* read, and after a success no fewer than the keys they were read under.
RowTellsTheTruth ==
  \A r \in Runs :
     /\ row[r].status = "success" =>
          /\ exhausted[r]
          /\ \A i \in DOMAIN fetched[r] :
                /\ Landed(fetched[r][i])
                /\ fetched[r][i].payload \notin Odd
     /\ row[r].status \in {"success", "failure"} =>
          /\ row[r].status = "failure" <=> row[r].error # "none"
          /\ row[r].count <= Len(fetched[r])
          /\ row[r].status = "success" =>
               row[r].count >= Cardinality({fetched[r][i].key : i \in DOMAIN fetched[r]})

\* group is what the sequence recs has of entity e, in its order.
GroupOf(group, recs, e) ==
  \E at \in [DOMAIN group -> DOMAIN recs] :
     /\ \A i \in DOMAIN group : group[i] = recs[at[i]]
     /\ \A i, j \in DOMAIN group : i < j => at[i] < at[j]
     /\ \A j \in DOMAIN recs : EntityOf[recs[j].key] = e <=> \E i \in DOMAIN group : at[i] = j

\* "Streaming, bounded-memory" (runner.py): no more than batch_size records are
\* held, and records_by_entity holds the same records as the buffer, so that a
\* record is published by one flush only.
BoundedMemory ==
  \A r \in Runs :
     /\ Len(buffer[r]) <= BatchSize
     /\ \A e \in Entities : GroupOf(recordsByEntity[r][e], buffer[r], e)

\* Re-running ingestion repairs: when a run that nothing overlapped succeeds,
\* raw and unified documents of each key it read hold what it read last,
\* whatever earlier runs that failed, died, or overtook one another left there.
SoloRunRepairs ==
  [][\A r \in Runs :
        row[r].status = "running" /\ row'[r].status = "success" /\ solo[r] =>
          \A i \in DOMAIN fetched[r] :
             LET rec == fetched[r][i] IN
             (\A j \in i+1..Len(fetched[r]) : fetched[r][j].key # rec.key) =>
                /\ raw[rec.key] = rec.payload
                /\ rec.payload \notin Odd \cup Unparseable =>
                     \A c \in TargetsOf(rec.key) : unified[c][rec.key] = rec.payload
    ]_vars

\* What the collections show of a run, a crash or an edit is what
\* IngestionContract promises.
Contract == INSTANCE IngestionContract WITH
  status <- [r \in Runs |-> row[r].status],
  Rejected <- Odd \cup Unparseable

KeepsContract == Contract!Spec

\* A run that has a row gets its verdict, unless the process dies or the
\* status collection refuses the last write.
VerdictComes ==
  \A r \in Runs : row[r].status = "running" ~>
     row[r].status \in {"success", "failure"} \/ pc[r] \in {"raised", "lost"}
=============================================================================
