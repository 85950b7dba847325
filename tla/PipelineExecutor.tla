-------------------------- MODULE PipelineExecutor --------------------------
(***************************************************************************)
(* Stored pipelines, their commit runs, and what a run writes: the target  *)
(* collection, the lineage collection and the run row.                     *)
(*                                                                         *)
(* Every element of Runs is one POST /api/pipelines/{id}/run: it loads the *)
(* definition, transforms every source record in memory, writes all of the *)
(* target and then all of the lineage, each in one bulk write that is      *)
(* retried on transient errors, and saves its row.  Runs and edits of the  *)
(* definitions interleave at every await, Mongo may refuse any call, and   *)
(* the process may die.                                                    *)
(***************************************************************************)
EXTENDS Naturals, Sequences, FiniteSets, BulkWrite

CONSTANTS
  Runs,         \* requests
  Pipelines,    \* pipeline ids
  Definitions,  \* what a pipeline may be defined as, for one source and target
  Malformed,    \* those the registry cannot build
  SourceIds,    \* documents of the source collection
  Keys,         \* target identities: the values of a pipeline's upsert_key
  LineageId,    \* target_id: the values of an identity, joined by "|"
  Effect,       \* what the steps of a definition make of a source record
  Drops, Raises,  \* the effects that are not a target identity
  MaxAttempts,  \* stop_after_attempt
  None          \* no document, no definition

LineageIds == {LineageId[k] : k \in Keys}

\* A document of the target or the lineage, by what it was made from.
Documents == [run : Runs, source : SourceIds]

ASSUME PipelineAssumption ==
  /\ MaxAttempts \in Nat \ {0}
  /\ DOMAIN LineageId = Keys
  /\ Malformed \subseteq Definitions
  /\ Effect \in [Definitions \X SourceIds -> Keys \cup {Drops, Raises}]
  /\ Drops \notin Keys /\ Raises \notin Keys /\ Drops # Raises
  /\ None \notin Definitions \cup Documents
  /\ IsFiniteSet(SourceIds)

VARIABLES
  pipelines,   \* the pipelines collection
  pc,          \* the await the request is suspended at
  pipeline,    \* the definition the request has loaded
  errorMode,   \* its error_mode
  unread,      \* what its cursor has not returned yet
  run,         \* its PipelineRun
  writeOps,    \* executor.run's write_ops
  lineageOps,  \* executor.run's lineage_ops
  attempts,    \* attempts of the bulk write in progress
  target,      \* the target collection: which run made the document of what
  lineage,     \* the lineage collection, likewise
  runs,        \* the pipeline_runs collection
  wrote,       \* history: everything ever written to the target, per key
  solo         \* history: no other run overlapped the run so far

request == <<pipeline, errorMode>>
ops == <<writeOps, lineageOps>>
store == <<target, lineage>>
history == <<wrote, solo>>
vars == <<pipelines, pc, request, unread, run, ops, attempts, store, runs, history>>

Suspended == {"iterating", "writingTarget", "writingLineage", "saving"}
Ended == {"answered", "notFound", "invalid", "raised", "lost"}
Active(r) == pc[r] \in Suspended

NewRun == [status |-> "success", input |-> 0, output |-> 0, skipped |-> 0,
           errors |-> 0, writeErrors |-> 0]

Init ==
  /\ pipelines \in [Pipelines -> Definitions \cup {None}]
  /\ pc = [r \in Runs |-> "idle"]
  /\ pipeline = [r \in Runs |-> None]
  /\ errorMode = [r \in Runs |-> "skip"]
  /\ unread = [r \in Runs |-> {}]
  /\ run = [r \in Runs |-> NewRun]
  /\ writeOps = [r \in Runs |-> <<>>]
  /\ lineageOps = [r \in Runs |-> <<>>]
  /\ attempts = [r \in Runs |-> 0]
  /\ target = [k \in Keys |-> None]
  /\ lineage = [i \in LineageIds |-> None]
  /\ runs = [r \in Runs |-> None]
  /\ wrote = [k \in Keys |-> {}]
  /\ solo = [r \in Runs |-> FALSE]

Goto(r, label) == pc' = [pc EXCEPT ![r] = label]

-----------------------------------------------------------------------------
(* CRUD over the pipelines. *)

Create(p, d) ==
  /\ pipelines[p] = None
  /\ pipelines' = [pipelines EXCEPT ![p] = d]
  /\ UNCHANGED <<pc, request, unread, run, ops, attempts, store, runs, history>>

\* PipelineRepository.update: 404, and no change, when the id is not there.
Update(p, d) ==
  /\ pipelines[p] # None
  /\ pipelines' = [pipelines EXCEPT ![p] = d]
  /\ UNCHANGED <<pc, request, unread, run, ops, attempts, store, runs, history>>

Delete(p) ==
  /\ pipelines[p] # None
  /\ pipelines' = [pipelines EXCEPT ![p] = None]
  /\ UNCHANGED <<pc, request, unread, run, ops, attempts, store, runs, history>>

-----------------------------------------------------------------------------
(* run_pipeline, from one await to the next. *)

\* repo.get returns the definition, a snapshot for the whole run.
Load(r, p, mode) ==
  /\ pc[r] = "idle" /\ pipelines[p] # None
  /\ pipeline' = [pipeline EXCEPT ![r] = pipelines[p]]
  /\ errorMode' = [errorMode EXCEPT ![r] = mode]
  /\ unread' = [unread EXCEPT ![r] = SourceIds]
  /\ Goto(r, IF pipelines[p] \in Malformed THEN "invalid" ELSE "iterating")
  /\ solo' = [q \in Runs |-> IF q = r THEN \A s \in Runs : ~Active(s)
                                      ELSE solo[q] /\ ~Active(q)]
  /\ UNCHANGED <<pipelines, run, ops, attempts, store, runs, wrote>>

LoadFails(r, p) ==
  /\ pc[r] = "idle"
  /\ Goto(r, IF pipelines[p] = None THEN "notFound" ELSE "raised")
  /\ UNCHANGED <<pipelines, request, unread, run, ops, attempts, store, runs, history>>

\* Mutant: the cursor is opened again for each record.
ReadsAgain(r, s) ==
  /\ pc[r] = "iterating" /\ s \in unread[r]
  /\ UNCHANGED <<unread, pipelines, request, attempts, store, runs, history>>

Reads(r, s) ==
  /\ pc[r] = "iterating" /\ s \in unread[r]
  /\ unread' = [unread EXCEPT ![r] = @ \ {s}]
  /\ UNCHANGED <<pipelines, request, attempts, store, runs, history>>

\* Mutant: lineage is kept for the first record of an identity only.
TransformFirstLineage(r, s) ==
  LET k == Effect[<<pipeline[r], s>>]
      doc == [run |-> r, source |-> s]
  IN
  /\ Reads(r, s)
  /\ k \in Keys
  /\ run' = [run EXCEPT ![r] = [run[r] EXCEPT !.input = @ + 1, !.output = @ + 1]]
  /\ writeOps' = [writeOps EXCEPT ![r] = Append(@, [key |-> k, payload |-> doc])]
  /\ lineageOps' = [lineageOps EXCEPT ![r] =
       IF On(@, LineageId[k]) = {} THEN Append(@, [key |-> LineageId[k], payload |-> doc])
                                   ELSE @]
  /\ UNCHANGED pc

\* The steps produce an output: one more upsert, one more lineage document.
Transform(r, s) ==
  LET k == Effect[<<pipeline[r], s>>]
      doc == [run |-> r, source |-> s]
  IN
  /\ Reads(r, s)
  /\ k \in Keys
  /\ run' = [run EXCEPT ![r] = [run[r] EXCEPT !.input = @ + 1, !.output = @ + 1]]
  /\ writeOps' = [writeOps EXCEPT ![r] = Append(@, [key |-> k, payload |-> doc])]
  /\ lineageOps' = [lineageOps EXCEPT ![r] =
                      Append(@, [key |-> LineageId[k], payload |-> doc])]
  /\ UNCHANGED pc

\* A filter step drops the record.
Drop(r, s) ==
  /\ Reads(r, s)
  /\ Effect[<<pipeline[r], s>>] = Drops
  /\ run' = [run EXCEPT ![r] = [run[r] EXCEPT !.input = @ + 1, !.skipped = @ + 1]]
  /\ UNCHANGED <<pc, ops>>

\* Mutant: fail_fast breaks out of the loop, for a return from the run.
TransformFailsBreak(r, s) ==
  /\ Reads(r, s)
  /\ Effect[<<pipeline[r], s>>] = Raises
  /\ run' = [run EXCEPT ![r] = [run[r] EXCEPT !.input = @ + 1, !.errors = @ + 1,
                                    !.status = IF errorMode[r] = "fail_fast" THEN "failure" ELSE @]]
  /\ Goto(r, IF errorMode[r] = "fail_fast" THEN "writingTarget" ELSE "iterating")
  /\ UNCHANGED ops

\* A step raises: recorded and passed over, or the end of the run.
TransformFails(r, s) ==
  /\ Reads(r, s)
  /\ Effect[<<pipeline[r], s>>] = Raises
  /\ run' = [run EXCEPT ![r] = [run[r] EXCEPT !.input = @ + 1, !.errors = @ + 1,
                                    !.status = IF errorMode[r] = "fail_fast" THEN "failure" ELSE @]]
  /\ Goto(r, IF errorMode[r] = "fail_fast" THEN "saving" ELSE "iterating")
  /\ UNCHANGED ops

\* The cursor raises: nothing catches it, the request ends without a row.
CursorFails(r) ==
  /\ pc[r] = "iterating"
  /\ Goto(r, "raised")
  /\ UNCHANGED <<pipelines, request, unread, run, ops, attempts, store, runs, history>>

\* Mutant: records that failed do not count.
VerdictBlind(report) == report.status

\* The status of a run whose writes are over.
Verdict(report) ==
  IF report.status = "success" /\ report.errors > 0 THEN "partial" ELSE report.status

\* Mutant: a run with nothing to write waits for its first output.
CursorEndsNonempty(r) ==
  /\ pc[r] = "iterating" /\ unread[r] = {} /\ writeOps[r] # <<>>
  /\ Goto(r, "writingTarget")
  /\ attempts' = [attempts EXCEPT ![r] = 1]
  /\ UNCHANGED <<pipelines, request, unread, run, ops, store, runs, history>>

\* The cursor is at its end.  _write_batch does nothing on an empty list.
CursorEnds(r) ==
  /\ pc[r] = "iterating" /\ unread[r] = {}
  /\ Goto(r, IF writeOps[r] = <<>> THEN "saving" ELSE "writingTarget")
  /\ run' = [run EXCEPT ![r] = [run[r] EXCEPT
                 !.status = IF writeOps[r] = <<>> THEN Verdict(run[r]) ELSE @]]
  /\ attempts' = [attempts EXCEPT ![r] = 1]
  /\ UNCHANGED <<pipelines, request, unread, ops, store, runs, history>>

SetTarget(r, done) ==
  /\ target' = Upserted(target, writeOps[r], done)
  /\ wrote' = [k \in Keys |->
                 wrote[k] \cup {writeOps[r][i].payload : i \in On(writeOps[r], k) \cap done}]

WriteTarget(r) ==
  /\ pc[r] = "writingTarget"
  /\ SetTarget(r, DOMAIN writeOps[r])
  /\ attempts' = [attempts EXCEPT ![r] = 1]
  /\ Goto(r, "writingLineage")
  /\ UNCHANGED <<pipelines, request, unread, run, ops, lineage, runs, solo>>

WriteLineage(r) ==
  /\ pc[r] = "writingLineage"
  /\ lineage' = Upserted(lineage, lineageOps[r], DOMAIN lineageOps[r])
  /\ run' = [run EXCEPT ![r] = [run[r] EXCEPT !.status = Verdict(run[r])]]
  /\ Goto(r, "saving")
  /\ UNCHANGED <<pipelines, request, unread, ops, attempts, target, runs, history>>

\* Either bulk write fails, with any part of it applied.
PartOfWrite(r) ==
  \/ /\ pc[r] = "writingTarget"
     /\ \E done \in SUBSET DOMAIN writeOps[r] : SetTarget(r, done)
     /\ UNCHANGED <<lineage, solo>>
  \/ /\ pc[r] = "writingLineage"
     /\ \E done \in SUBSET DOMAIN lineageOps[r] :
           lineage' = Upserted(lineage, lineageOps[r], done)
     /\ UNCHANGED <<target, history>>

\* Mutant: no limit to the attempts.
RetryForever(r) ==
  /\ PartOfWrite(r)
  /\ attempts' = [attempts EXCEPT ![r] = @ + 1]
  /\ UNCHANGED <<pipelines, pc, request, unread, run, ops, runs>>

\* A transient error: tenacity sends the same batch again.
Retry(r) ==
  /\ attempts[r] < MaxAttempts
  /\ PartOfWrite(r)
  /\ attempts' = [attempts EXCEPT ![r] = @ + 1]
  /\ UNCHANGED <<pipelines, pc, request, unread, run, ops, runs>>

\* Mutant: each write has a try of its own, lineage follows a target that failed.
WriteFailsGoesOn(r) ==
  /\ PartOfWrite(r)
  /\ run' = [run EXCEPT ![r] = [run[r] EXCEPT !.status = "failure", !.writeErrors = 1]]
  /\ Goto(r, IF pc[r] = "writingTarget" THEN "writingLineage" ELSE "saving")
  /\ UNCHANGED <<pipelines, request, unread, ops, attempts, runs>>

\* The last transient error, or one that is not retried.
WriteFails(r) ==
  /\ PartOfWrite(r)
  /\ run' = [run EXCEPT ![r] = [run[r] EXCEPT !.status = "failure", !.writeErrors = 1]]
  /\ Goto(r, "saving")
  /\ UNCHANGED <<pipelines, request, unread, ops, attempts, runs>>

\* run_repo.save
Save(r) ==
  /\ pc[r] = "saving"
  /\ runs' = [runs EXCEPT ![r] = run[r]]
  /\ Goto(r, "answered")
  /\ UNCHANGED <<pipelines, request, unread, run, ops, attempts, store, history>>

SaveFails(r) ==
  /\ pc[r] = "saving"
  /\ Goto(r, "raised")
  /\ UNCHANGED <<pipelines, request, unread, run, ops, attempts, store, runs, history>>

\* The process dies.
Crash ==
  /\ \E r \in Runs : Active(r)
  /\ pc' = [r \in Runs |-> IF Active(r) THEN "lost" ELSE pc[r]]
  /\ UNCHANGED <<pipelines, request, unread, run, ops, attempts, store, runs, history>>

Progress(r) ==
  \/ \E s \in SourceIds : Transform(r, s) \/ Drop(r, s) \/ TransformFails(r, s)
  \/ CursorEnds(r)
  \/ WriteTarget(r)
  \/ WriteLineage(r)
  \/ Save(r)

Failure(r) == CursorFails(r) \/ Retry(r) \/ WriteFails(r) \/ SaveFails(r)

Next ==
  \/ \E r \in Runs, p \in Pipelines :
        LoadFails(r, p) \/ \E mode \in {"skip", "fail_fast"} : Load(r, p, mode)
  \/ \E r \in Runs : Progress(r) \/ Failure(r)
  \/ \E p \in Pipelines :
        Delete(p) \/ \E d \in Definitions : Create(p, d) \/ Update(p, d)
  \/ Crash

Spec == Init /\ [][Next]_vars

\* The event loop resumes every request whose call is answered, and every call is.
FairSpec == Spec /\ \A r \in Runs : WF_vars(Progress(r) \/ Retry(r))

-----------------------------------------------------------------------------
(* Properties. *)

Reports == [status : {"success", "failure", "partial"},
            input : Nat, output : Nat, skipped : Nat, errors : Nat, writeErrors : {0, 1}]

Operations(K) == [key : K, payload : Documents]

\* Every variable holds a value of its kind; no write is tried too often.
TypeOK ==
  /\ pipelines \in [Pipelines -> Definitions \cup {None}]
  /\ pc \in [Runs -> {"idle"} \cup Suspended \cup Ended]
  /\ pipeline \in [Runs -> Definitions \cup {None}]
  /\ errorMode \in [Runs -> {"skip", "fail_fast"}]
  /\ unread \in [Runs -> SUBSET SourceIds]
  /\ run \in [Runs -> Reports]
  /\ writeOps \in [Runs -> Seq(Operations(Keys))]
  /\ lineageOps \in [Runs -> Seq(Operations(LineageIds))]
  /\ attempts \in [Runs -> 0..MaxAttempts]
  /\ target \in [Keys -> Documents \cup {None}]
  /\ lineage \in [LineageIds -> Documents \cup {None}]
  /\ runs \in [Runs -> Reports \cup {None}]
  /\ wrote \in [Keys -> SUBSET Documents]
  /\ solo \in [Runs -> BOOLEAN]

\* A saved row accounts for every record its run read, and its status for what
\* befell them: "success" and "partial" mean that the whole source was read and
\* every output is in the target and has lineage.
RowAccountsForRun ==
  \A r \in Runs : runs[r] # None =>
     LET row == runs[r] IN
     /\ row.input = row.output + row.skipped + row.errors
     /\ row.status = "success" => row.errors = 0
     /\ row.status = "partial" => row.errors > 0
     /\ row.status \in {"success", "partial"} =>
          /\ row.input = Cardinality(SourceIds)
          /\ row.writeErrors = 0
          /\ \A s \in SourceIds :
                Effect[<<pipeline[r], s>>] \in Keys =>
                   /\ target[Effect[<<pipeline[r], s>>]] # None
                   /\ lineage[LineageId[Effect[<<pipeline[r], s>>]]] # None

\* fail_fast "aborts on first error": such a run writes nothing at all, though
\* its row may count outputs.
FailFastWritesNothing ==
  \A r \in Runs : errorMode[r] = "fail_fast" /\ run[r].errors > 0 =>
     \A k \in Keys : \A doc \in wrote[k] : doc.run # r

\* Lineage follows the target: what a lineage document tells of was written to
\* the target, by that run and from that record, under an identity that joins
\* to the document's id; with a crash or a refused write the target may lack
\* its lineage, never the lineage its target.
LineageOfWritten ==
  \A i \in LineageIds : lineage[i] # None =>
     \E k \in Keys : LineageId[k] = i /\ lineage[i] \in wrote[k]

\* A run that nothing overlapped and that reports no failure leaves, of everything it
\* wrote, its own documents, and lineage and target in agreement: unless two of its own
\* identities join to one id, which then explains the last of them only.
SoloRunExplains ==
  [][\A r \in Runs :
        runs[r] = None /\ runs'[r] # None /\ solo[r] /\ run[r].status # "failure" =>
           \A j \in DOMAIN writeOps[r] :
              LET k == writeOps[r][j].key IN
              /\ target[k].run = r
              /\ lineage[LineageId[k]].run = r
              /\ (\A i \in DOMAIN writeOps[r] :
                     LineageId[writeOps[r][i].key] = LineageId[k] => writeOps[r][i].key = k)
                 => lineage[LineageId[k]] = target[k]
    ]_vars

\* A run executes one definition, the one it has loaded, whatever becomes of
\* the pipeline meanwhile, and carries a record at most once.
OneDefinitionPerRun ==
  \A r \in Runs : \A i \in DOMAIN writeOps[r] :
     /\ Effect[<<pipeline[r], writeOps[r][i].payload.source>>] = writeOps[r][i].key
     /\ \A j \in DOMAIN writeOps[r] :
           writeOps[r][i].payload = writeOps[r][j].payload => i = j

\* A run that has begun is answered, unless the process dies: the retries end.
RunIsAnswered ==
  \A r \in Runs : Active(r) ~> pc[r] \in {"answered", "raised", "lost"}
=============================================================================
