--------------------------- MODULE PipelineProofs ---------------------------
(* Theorems about PipelineExecutor, for every number of requests, pipelines, *)
(* definitions, source records and identities, and every limit of attempts.  *)
EXTENDS PipelineExecutor, DataProofs

-----------------------------------------------------------------------------
(* The inductive invariant: of each run, what it has in hand. *)

\* The operations of a run come in pairs, one pair for each record that it has read and
\* that its definition maps.
PairedBy(r) ==
  /\ Len(writeOps[r]) = Len(lineageOps[r])
  /\ \A i \in DOMAIN writeOps[r] :
       /\ lineageOps[r][i].key = LineageId[writeOps[r][i].key]
       /\ lineageOps[r][i].payload = writeOps[r][i].payload
       /\ writeOps[r][i].payload.run = r
       /\ writeOps[r][i].payload.source \notin unread[r]
       /\ writeOps[r][i].key = Effect[<<pipeline[r], writeOps[r][i].payload.source>>]
       /\ \A j \in DOMAIN writeOps[r] :
            writeOps[r][i].payload.source = writeOps[r][j].payload.source => i = j
  /\ pc[r] = "idle" => writeOps[r] = <<>>

\* No record that was read and is mapped is without its operations.
CompleteFor(r) ==
  pc[r] \in Suspended \cup {"answered"} =>
     \A s \in SourceIds \ unread[r] :
        Effect[<<pipeline[r], s>>] \in Keys =>
           \E i \in DOMAIN writeOps[r] : writeOps[r][i].payload.source = s

\* The report counts what was read, and says what came of it.
ReportedBy(r) ==
  /\ run[r].input = run[r].output + run[r].skipped + run[r].errors
  /\ pc[r] = "idle" => run[r] = NewRun
  /\ pc[r] \in Suspended \cup {"answered"} =>
       run[r].input = Cardinality(SourceIds \ unread[r])
  /\ pc[r] \in {"iterating", "writingTarget", "writingLineage"} =>
       /\ run[r].status = "success" /\ run[r].writeErrors = 0
       /\ errorMode[r] = "fail_fast" => run[r].errors = 0
  /\ pc[r] \in {"writingTarget", "writingLineage"} => unread[r] = {}
  /\ pc[r] \in {"saving", "answered"} =>
       /\ run[r].status = "success" => run[r].errors = 0
       /\ run[r].status = "partial" => run[r].errors > 0
       /\ run[r].status # "failure" => unread[r] = {} /\ run[r].writeErrors = 0
  /\ runs[r] # None => pc[r] = "answered" /\ runs[r] = run[r]

Books == \A r \in Runs : PairedBy(r) /\ CompleteFor(r) /\ ReportedBy(r)

\* What a run has written so far: nothing before its end of the source; all of the target
\* before its lineage.
AppliedBy(r) ==
  /\ (pc[r] \in {"idle", "iterating"} \/ (errorMode[r] = "fail_fast" /\ run[r].errors > 0)) =>
       \A k \in Keys : \A doc \in wrote[k] : doc.run # r
  /\ pc[r] = "writingLineage" =>
       \A i \in DOMAIN writeOps[r] :
          /\ writeOps[r][i].payload \in wrote[writeOps[r][i].key]
          /\ target[writeOps[r][i].key] # None
  /\ (pc[r] \in {"saving", "answered"} /\ run[r].status # "failure") =>
       \A i \in DOMAIN writeOps[r] :
          /\ target[writeOps[r][i].key] # None
          /\ lineage[lineageOps[r][i].key] # None

Applied == (\A r \in Runs : AppliedBy(r)) /\ LineageOfWritten

\* The document of a key is that of the last operation on it.
LastIn(coll, batch) ==
  \A i \in DOMAIN batch :
     (\A j \in DOMAIN batch : batch[j].key = batch[i].key => j <= i) =>
        coll[batch[i].key] = batch[i].payload

\* A run that nothing has overlapped is alone, and what it wrote is there.
AloneFor(r) ==
  (solo[r] /\ Active(r)) =>
     /\ \A q \in Runs : Active(q) => q = r
     /\ pc[r] = "writingLineage" => LastIn(target, writeOps[r])
     /\ (pc[r] = "saving" /\ run[r].status # "failure") =>
          LastIn(target, writeOps[r]) /\ LastIn(lineage, lineageOps[r])

Alone == \A r \in Runs : AloneFor(r)

-----------------------------------------------------------------------------
(* Bulk writes of operations. *)

\* What the elements of a batch are.
LEMMA BatchType ==
  ASSUME NEW K, NEW batch \in Seq(Operations(K))
  PROVE  /\ Len(batch) \in Nat
         /\ DOMAIN batch = 1..Len(batch)
         /\ \A i \in DOMAIN batch : /\ batch[i] \in Operations(K)
                                    /\ batch[i].key \in K
                                    /\ batch[i].payload \in Documents
                                    /\ batch[i].payload.run \in Runs
                                    /\ batch[i].payload.source \in SourceIds
<1>1. Len(batch) \in Nat /\ DOMAIN batch = 1..Len(batch)
  BY LenProperties
<1>2. ASSUME NEW i \in DOMAIN batch PROVE batch[i] \in Operations(K)
  BY <1>1, ElementOfSeq
<1>3. QED
  BY <1>1, <1>2 DEF Operations, Documents

\* After a bulk write a document is what it was, or the last of the applied operations on
\* its key: UpsertedValue for operations.
LEMMA UpsertedDocument ==
  ASSUME NEW K, NEW coll \in [K -> Documents \cup {None}], NEW L,
         NEW batch \in Seq(Operations(L)), NEW done \in SUBSET DOMAIN batch, NEW k \in K
  PROVE  \/ Upserted(coll, batch, done)[k] = coll[k] /\ \A j \in done : batch[j].key # k
         \/ \E i \in done :
               /\ batch[i].key = k
               /\ Upserted(coll, batch, done)[k] = batch[i].payload
               /\ \A j \in done : batch[j].key = k => j <= i
<1>1. k \in DOMAIN coll
  OBVIOUS
<1>2. CASE On(batch, k) \cap done = {} /\ Upserted(coll, batch, done)[k] = coll[k]
  BY <1>2 DEF On
<1>3. QED
  BY <1>1, <1>2, UpsertedValue

\* A bulk write of operations leaves a collection of documents; it takes none away.
LEMMA UpsertedType ==
  ASSUME NEW K, NEW coll \in [K -> Documents \cup {None}], NEW L,
         NEW batch \in Seq(Operations(L)), NEW done \in SUBSET DOMAIN batch
  PROVE  /\ Upserted(coll, batch, done) \in [K -> Documents \cup {None}]
         /\ \A k \in K : coll[k] # None => Upserted(coll, batch, done)[k] # None
<1>1. \A i \in done : batch[i].payload \in Documents /\ batch[i].payload # None
  BY BatchType, PipelineAssumption
<1>2. ASSUME NEW k \in K
      PROVE  /\ Upserted(coll, batch, done)[k] \in Documents \cup {None}
             /\ coll[k] # None => Upserted(coll, batch, done)[k] # None
  BY <1>1, UpsertedDocument
<1>3. QED
  BY <1>2 DEF Upserted

-----------------------------------------------------------------------------
(* Type correctness. *)

\* The initial state has its types.
LEMMA InitType == Init => TypeOK
<1>1. NewRun \in Reports
  BY DEF NewRun, Reports
<1>2. QED
  BY <1>1, PipelineAssumption DEF Init, TypeOK, Operations

\* The bulk write of the target keeps the types, in part or in whole.
LEMMA SetTargetType ==
  ASSUME TypeOK, NEW r \in Runs, NEW done \in SUBSET DOMAIN writeOps[r], SetTarget(r, done)
  PROVE  /\ target' \in [Keys -> Documents \cup {None}]
         /\ wrote' \in [Keys -> SUBSET Documents]
<1>1. writeOps[r] \in Seq(Operations(Keys))
  BY DEF TypeOK
<1>2. target' \in [Keys -> Documents \cup {None}]
  BY <1>1, UpsertedType DEF SetTarget, TypeOK
<1>3. ASSUME NEW k \in Keys
      PROVE  wrote[k] \cup {writeOps[r][i].payload : i \in On(writeOps[r], k) \cap done}
               \in SUBSET Documents
  BY <1>1, BatchType DEF TypeOK, On
<1>4. QED
  BY <1>2, <1>3 DEF SetTarget

\* So does a part of either bulk write.
LEMMA PartType ==
  ASSUME TypeOK, NEW r \in Runs, PartOfWrite(r)
  PROVE  /\ target' \in [Keys -> Documents \cup {None}]
         /\ wrote' \in [Keys -> SUBSET Documents]
         /\ lineage' \in [LineageIds -> Documents \cup {None}]
         /\ solo' = solo
<1>1. CASE /\ \E done \in SUBSET DOMAIN writeOps[r] : SetTarget(r, done)
           /\ UNCHANGED <<lineage, solo>>
  BY <1>1, SetTargetType DEF TypeOK
<1>2. CASE /\ \E done \in SUBSET DOMAIN lineageOps[r] :
                lineage' = Upserted(lineage, lineageOps[r], done)
           /\ UNCHANGED <<target, history>>
  <2>1. lineageOps[r] \in Seq(Operations(LineageIds))
    BY DEF TypeOK
  <2>2. lineage' \in [LineageIds -> Documents \cup {None}]
    BY <1>2, <2>1, UpsertedType DEF TypeOK
  <2>3. QED
    BY <1>2, <2>2 DEF TypeOK, history
<1>3. QED
  BY <1>1, <1>2 DEF PartOfWrite

\* A verdict is a status.
LEMMA VerdictType ==
  ASSUME NEW report \in Reports
  PROVE  /\ report.status \in {"success", "failure", "partial"}
         /\ Verdict(report) \in {"success", "failure", "partial"}
BY DEF Reports, Verdict

\* Each step's change of a report gives a report, and keeps what it does not name.
LEMMA ReportType ==
  ASSUME NEW report \in Reports, NEW status \in {"success", "failure", "partial"}
  PROVE  /\ [report EXCEPT !.input = report.input + 1, !.output = report.output + 1] \in Reports
         /\ [report EXCEPT !.input = report.input + 1, !.skipped = report.skipped + 1] \in Reports
         /\ [report EXCEPT !.input = report.input + 1, !.errors = report.errors + 1,
                           !.status = status] \in Reports
         /\ [report EXCEPT !.status = status] \in Reports
         /\ [report EXCEPT !.status = status, !.writeErrors = 1] \in Reports
<1>1. /\ report.status \in {"success", "failure", "partial"}
      /\ report.input + 1 \in Nat /\ report.output + 1 \in Nat
      /\ report.skipped + 1 \in Nat /\ report.errors + 1 \in Nat
  BY DEF Reports
<1>2. ASSUME NEW n \in Nat, NEW m \in Nat
      PROVE  /\ [report EXCEPT !.input = n, !.output = m] \in Reports
             /\ [report EXCEPT !.input = n, !.skipped = m] \in Reports
             /\ [report EXCEPT !.input = n, !.errors = m, !.status = status] \in Reports
  BY DEF Reports
<1>3. /\ [report EXCEPT !.status = status] \in Reports
      /\ [report EXCEPT !.status = status, !.writeErrors = 1] \in Reports
  BY DEF Reports
<1>4. QED
  BY <1>1, <1>2, <1>3

\* Every step keeps the types.
LEMMA NextType == TypeOK /\ [Next]_vars => TypeOK'
<1> SUFFICES ASSUME TypeOK, [Next]_vars PROVE TypeOK'
  OBVIOUS
<1> USE DEF TypeOK
<1>1. ASSUME NEW r \in Runs, NEW p \in Pipelines, LoadFails(r, p) PROVE TypeOK'
  BY <1>1 DEF LoadFails, Goto, Ended, request, ops, store, history
<1>2. ASSUME NEW r \in Runs, NEW p \in Pipelines, NEW mode \in {"skip", "fail_fast"},
             Load(r, p, mode)
      PROVE  TypeOK'
  <2>1. solo' \in [Runs -> BOOLEAN]
    <3>1. \A q \in Runs : solo[q] \in BOOLEAN
      OBVIOUS
    <3>2. \A q \in Runs : (IF q = r THEN \A s \in Runs : ~Active(s)
                                   ELSE solo[q] /\ ~Active(q)) \in BOOLEAN
      OBVIOUS
    <3>3. QED
      BY <1>2, <3>2, Zenon DEF Load
  <2>2. QED
    BY <1>2, <2>1 DEF Load, Goto, Suspended, Ended, ops, store
<1>3. ASSUME NEW r \in Runs, NEW s \in SourceIds, Transform(r, s) PROVE TypeOK'
  <2> DEFINE k == Effect[<<pipeline[r], s>>]
             doc == [run |-> r, source |-> s]
  <2>1. /\ [key |-> k, payload |-> doc] \in Operations(Keys)
        /\ [key |-> LineageId[k], payload |-> doc] \in Operations(LineageIds)
    BY <1>3 DEF Transform, Operations, Documents, LineageIds
  <2>2. /\ Append(writeOps[r], [key |-> k, payload |-> doc]) \in Seq(Operations(Keys))
        /\ Append(lineageOps[r], [key |-> LineageId[k], payload |-> doc])
              \in Seq(Operations(LineageIds))
    BY <2>1, AppendProperties
  <2>3. run' \in [Runs -> Reports]
    BY <1>3, ReportType DEF Transform
  <2>4. QED
    BY <1>3, <2>2, <2>3 DEF Transform, Reads, request, store, history
<1>4. ASSUME NEW r \in Runs, NEW s \in SourceIds, Drop(r, s) PROVE TypeOK'
  <2>1. run' \in [Runs -> Reports]
    BY <1>4, ReportType DEF Drop
  <2>2. QED
    BY <1>4, <2>1 DEF Drop, Reads, request, ops, store, history
<1>5. ASSUME NEW r \in Runs, NEW s \in SourceIds, TransformFails(r, s) PROVE TypeOK'
  <2> DEFINE status == IF errorMode[r] = "fail_fast" THEN "failure" ELSE run[r].status
  <2>0. run[r] \in Reports /\ status \in {"success", "failure", "partial"}
    BY DEF Reports
  <2>1. run' \in [Runs -> Reports]
    BY <1>5, <2>0, ReportType DEF TransformFails
  <2>2. QED
    BY <1>5, <2>1 DEF TransformFails, Reads, Goto, Suspended, request, ops, store, history
<1>6. ASSUME NEW r \in Runs, CursorEnds(r) PROVE TypeOK'
  <2>1. run' \in [Runs -> Reports]
    <3> DEFINE status == IF writeOps[r] = <<>> THEN Verdict(run[r]) ELSE run[r].status
    <3>1. run[r] \in Reports /\ status \in {"success", "failure", "partial"}
      BY VerdictType
    <3>2. [run[r] EXCEPT !.status = status] \in Reports
      <4> HIDE DEF status
      <4>1. QED
        BY <3>1, ReportType
    <3>3. QED
      BY <1>6, <3>2 DEF CursorEnds
  <2>2. 1 \in 0..MaxAttempts
    BY PipelineAssumption
  <2>3. QED
    BY <1>6, <2>1, <2>2 DEF CursorEnds, Goto, Suspended, request, ops, store, history
<1>7. ASSUME NEW r \in Runs, WriteTarget(r) PROVE TypeOK'
  <2>1. /\ target' \in [Keys -> Documents \cup {None}]
        /\ wrote' \in [Keys -> SUBSET Documents]
    BY <1>7, SetTargetType DEF WriteTarget
  <2>2. 1 \in 0..MaxAttempts
    BY PipelineAssumption
  <2>3. QED
    BY <1>7, <2>1, <2>2 DEF WriteTarget, Goto, Suspended, request, ops
<1>8. ASSUME NEW r \in Runs, WriteLineage(r) PROVE TypeOK'
  <2>1. run' \in [Runs -> Reports]
    BY <1>8, ReportType, VerdictType DEF WriteLineage
  <2>2. lineageOps[r] \in Seq(Operations(LineageIds))
    OBVIOUS
  <2>3. lineage' \in [LineageIds -> Documents \cup {None}]
    BY <1>8, <2>2, UpsertedType DEF WriteLineage
  <2>4. QED
    BY <1>8, <2>1, <2>3 DEF WriteLineage, Goto, Suspended, request, ops, history
<1>9. ASSUME NEW r \in Runs, Save(r) PROVE TypeOK'
  BY <1>9 DEF Save, Goto, Ended, request, ops, store, history
<1>10. ASSUME NEW r \in Runs, CursorFails(r) PROVE TypeOK'
  BY <1>10 DEF CursorFails, Goto, Ended, request, ops, store, history
<1>11. ASSUME NEW r \in Runs, Retry(r) PROVE TypeOK'
  <2>1. attempts' \in [Runs -> 0..MaxAttempts]
    BY <1>11, PipelineAssumption DEF Retry
  <2>2. QED
    BY <1>11, <2>1, PartType DEF Retry, request, ops
<1>12. ASSUME NEW r \in Runs, WriteFails(r) PROVE TypeOK'
  <2>1. run' \in [Runs -> Reports]
    BY <1>12, ReportType DEF WriteFails
  <2>2. QED
    BY <1>12, <2>1, PartType DEF WriteFails, Goto, Suspended, request, ops
<1>13. ASSUME NEW r \in Runs, SaveFails(r) PROVE TypeOK'
  BY <1>13 DEF SaveFails, Goto, Ended, request, ops, store, history
<1>14. ASSUME NEW p \in Pipelines, Delete(p) PROVE TypeOK'
  BY <1>14 DEF Delete, request, ops, store, history
<1>15. ASSUME NEW p \in Pipelines, NEW d \in Definitions, Create(p, d) \/ Update(p, d)
       PROVE  TypeOK'
  BY <1>15 DEF Create, Update, request, ops, store, history
<1>16. CASE Crash
  BY <1>16 DEF Crash, Ended, request, ops, store, history
<1>17. CASE UNCHANGED vars
  BY <1>17 DEF vars, request, ops, store, history
<1>18. QED
  BY <1>1, <1>2, <1>3, <1>4, <1>5, <1>6, <1>7, <1>8, <1>9, <1>10, <1>11, <1>12, <1>13,
     <1>14, <1>15, <1>16, <1>17
     DEF Next, Progress, Failure

\* Spec => []TypeOK: whatever runs, edits and refused calls there are, every variable holds
\* a value of its kind, and no write is tried more often than stop_after_attempt.
THEOREM PipelineTypes == Spec => []TypeOK
<1>1. QED
  BY InitType, NextType, PTL DEF Spec

-----------------------------------------------------------------------------
(* Steps of one run leave the others alone. *)

\* What a request does next.
StepOf(r) ==
  \/ \E p \in Pipelines :
        LoadFails(r, p) \/ \E mode \in {"skip", "fail_fast"} : Load(r, p, mode)
  \/ Progress(r) \/ Failure(r)

Edit ==
  \E p \in Pipelines : Delete(p) \/ \E d \in Definitions : Create(p, d) \/ Update(p, d)

LEMMA NextSteps == Next => (\E r \in Runs : StepOf(r)) \/ Edit \/ Crash
BY DEF Next, StepOf, Edit

\* What a run has in hand stays.
HandUntouched(r) ==
  /\ pipeline'[r] = pipeline[r] /\ errorMode'[r] = errorMode[r] /\ unread'[r] = unread[r]
  /\ run'[r] = run[r] /\ writeOps'[r] = writeOps[r] /\ lineageOps'[r] = lineageOps[r]

Untouched(r) == HandUntouched(r) /\ pc'[r] = pc[r] /\ runs'[r] = runs[r]

LEMMA OthersUntouched ==
  ASSUME TypeOK, NEW q \in Runs, StepOf(q), NEW r \in Runs, r # q
  PROVE  Untouched(r)
<1> USE DEF TypeOK, Untouched, HandUntouched, Goto, request, ops
<1>1. ASSUME NEW p \in Pipelines, LoadFails(q, p) PROVE Untouched(r)
  BY <1>1 DEF LoadFails
<1>2. ASSUME NEW p \in Pipelines, NEW mode \in {"skip", "fail_fast"}, Load(q, p, mode)
      PROVE  Untouched(r)
  BY <1>2 DEF Load
<1>3. ASSUME NEW s \in SourceIds, Transform(q, s) \/ Drop(q, s) \/ TransformFails(q, s)
      PROVE  Untouched(r)
  BY <1>3 DEF Transform, Drop, TransformFails, Reads
<1>4. CASE CursorEnds(q) \/ WriteTarget(q) \/ WriteLineage(q) \/ Save(q)
  BY <1>4 DEF CursorEnds, WriteTarget, WriteLineage, Save
<1>5. CASE Failure(q)
  BY <1>5 DEF Failure, CursorFails, Retry, WriteFails, SaveFails
<1>6. QED
  BY <1>1, <1>2, <1>3, <1>4, <1>5 DEF StepOf, Progress

LEMMA EditTouchesNone ==
  ASSUME Edit
  PROVE  UNCHANGED <<pc, pipeline, errorMode, unread, run, writeOps, lineageOps, target,
                     lineage, runs, wrote, solo>>
BY DEF Edit, Delete, Create, Update, request, ops, store, history

-----------------------------------------------------------------------------
(* The books. *)

BooksOf(r) == PairedBy(r) /\ CompleteFor(r) /\ ReportedBy(r)

LEMMA BooksStay ==
  ASSUME NEW r \in Runs, BooksOf(r), Untouched(r)
  PROVE  BooksOf(r)'
BY DEF BooksOf, PairedBy, CompleteFor, ReportedBy, Untouched, HandUntouched

\* A run that is cut short keeps its books.
LEMMA BooksClose ==
  ASSUME NEW r \in Runs, BooksOf(r), HandUntouched(r), UNCHANGED runs,
         pc[r] # "answered", pc'[r] \in {"notFound", "raised", "lost"}
  PROVE  BooksOf(r)'
BY DEF BooksOf, PairedBy, CompleteFor, ReportedBy, HandUntouched, Suspended

\* What was read is one record more.
LEMMA ReadCount ==
  ASSUME TypeOK, NEW r \in Runs, NEW s \in unread[r]
  PROVE  /\ s \in SourceIds
         /\ Cardinality(SourceIds \ unread[r]) \in Nat
         /\ Cardinality(SourceIds \ (unread[r] \ {s})) = Cardinality(SourceIds \ unread[r]) + 1
<1>1. s \in SourceIds
  BY DEF TypeOK
<1>2. IsFiniteSet(SourceIds \ unread[r])
  BY PipelineAssumption, FS_Subset
<1>3. SourceIds \ (unread[r] \ {s}) = (SourceIds \ unread[r]) \cup {s}
  BY <1>1
<1>4. QED
  BY <1>1, <1>2, <1>3, FS_AddElement, FS_CardinalityType

LEMMA LoadBooks ==
  ASSUME TypeOK, NEW r \in Runs, BooksOf(r), NEW p \in Pipelines,
         NEW mode \in {"skip", "fail_fast"}, Load(r, p, mode)
  PROVE  BooksOf(r)'
<1>1. /\ pc'[r] \in {"invalid", "iterating"} /\ unread'[r] = SourceIds
      /\ writeOps'[r] = writeOps[r] /\ lineageOps'[r] = lineageOps[r] /\ run'[r] = run[r]
      /\ runs'[r] = runs[r] /\ pc[r] = "idle"
  BY DEF TypeOK, Load, Goto, ops
<1>2. writeOps[r] = <<>> /\ Len(writeOps[r]) = Len(lineageOps[r]) /\ run[r] = NewRun
      /\ runs[r] = None
  BY <1>1 DEF BooksOf, PairedBy, ReportedBy
<1>3. PairedBy(r)'
  BY <1>1, <1>2 DEF PairedBy
<1>4. SourceIds \ unread'[r] = {}
  BY <1>1
<1>5. CompleteFor(r)'
  BY <1>4 DEF CompleteFor
<1>6. Cardinality(SourceIds \ unread'[r]) = 0
  BY <1>4, FS_EmptySet
<1>7. ReportedBy(r)'
  BY <1>1, <1>2, <1>6 DEF ReportedBy, NewRun, Suspended
<1>8. QED
  BY <1>3, <1>5, <1>7 DEF BooksOf

LEMMA TransformBooks ==
  ASSUME TypeOK, NEW r \in Runs, BooksOf(r), NEW s \in SourceIds, Transform(r, s)
  PROVE  BooksOf(r)'
<1> DEFINE k == Effect[<<pipeline[r], s>>]
           doc == [run |-> r, source |-> s]
           n == Len(writeOps[r])
<1>1. /\ pc[r] = "iterating" /\ pc'[r] = pc[r] /\ s \in unread[r] /\ k \in Keys
      /\ unread'[r] = unread[r] \ {s}
      /\ pipeline'[r] = pipeline[r] /\ errorMode'[r] = errorMode[r] /\ runs'[r] = runs[r]
      /\ writeOps'[r] = Append(writeOps[r], [key |-> k, payload |-> doc])
      /\ lineageOps'[r] = Append(lineageOps[r], [key |-> LineageId[k], payload |-> doc])
  BY DEF TypeOK, Transform, Reads, request, store
<1>2. /\ run'[r].input = run[r].input + 1 /\ run'[r].output = run[r].output + 1
      /\ run'[r].skipped = run[r].skipped /\ run'[r].errors = run[r].errors
      /\ run'[r].status = run[r].status /\ run'[r].writeErrors = run[r].writeErrors
      /\ run[r].input \in Nat /\ run[r].output \in Nat /\ run[r].skipped \in Nat
      /\ run[r].errors \in Nat
  BY DEF TypeOK, Transform, Reports
<1>3. writeOps[r] \in Seq(Operations(Keys)) /\ lineageOps[r] \in Seq(Operations(LineageIds))
  BY DEF TypeOK
<1>4. /\ n \in Nat /\ Len(lineageOps[r]) = n
      /\ DOMAIN writeOps[r] = 1..n /\ DOMAIN lineageOps[r] = 1..n
  BY <1>3, BatchType DEF BooksOf, PairedBy
<1>5. /\ Len(writeOps'[r]) = n + 1 /\ DOMAIN writeOps'[r] = 1..n+1
      /\ writeOps'[r][n+1] = [key |-> k, payload |-> doc]
      /\ \A i \in 1..n : writeOps'[r][i] = writeOps[r][i]
      /\ Len(lineageOps'[r]) = n + 1
      /\ lineageOps'[r][n+1] = [key |-> LineageId[k], payload |-> doc]
      /\ \A i \in 1..n : lineageOps'[r][i] = lineageOps[r][i]
  BY <1>1, <1>3, <1>4, AppendProperties
<1> HIDE DEF n
<1>6. PairedBy(r)'
  <2>1. ASSUME NEW i \in 1..n
        PROVE  /\ lineageOps'[r][i].key = LineageId[writeOps'[r][i].key]
               /\ lineageOps'[r][i].payload = writeOps'[r][i].payload
               /\ writeOps'[r][i].payload.run = r
               /\ writeOps'[r][i].payload.source \notin unread'[r]
               /\ writeOps'[r][i].payload.source # s
               /\ writeOps'[r][i].key = Effect[<<pipeline'[r], writeOps'[r][i].payload.source>>]
               /\ \A j \in 1..n :
                    writeOps'[r][i].payload.source = writeOps'[r][j].payload.source => i = j
    <3>1. /\ lineageOps[r][i].key = LineageId[writeOps[r][i].key]
          /\ lineageOps[r][i].payload = writeOps[r][i].payload
          /\ writeOps[r][i].payload.run = r
          /\ writeOps[r][i].payload.source \notin unread[r]
          /\ writeOps[r][i].key = Effect[<<pipeline[r], writeOps[r][i].payload.source>>]
          /\ \A j \in 1..n :
               writeOps[r][i].payload.source = writeOps[r][j].payload.source => i = j
      BY <1>4 DEF BooksOf, PairedBy
    <3>2. /\ writeOps'[r][i] = writeOps[r][i] /\ lineageOps'[r][i] = lineageOps[r][i]
          /\ \A j \in 1..n : writeOps'[r][j] = writeOps[r][j]
      BY <1>5
    <3> HIDE DEF k, doc
    <3>3. QED
      BY <1>1, <3>1, <3>2
  <2>2. ASSUME NEW i \in DOMAIN writeOps'[r]
        PROVE  /\ lineageOps'[r][i].key = LineageId[writeOps'[r][i].key]
               /\ lineageOps'[r][i].payload = writeOps'[r][i].payload
               /\ writeOps'[r][i].payload.run = r
               /\ writeOps'[r][i].payload.source \notin unread'[r]
               /\ writeOps'[r][i].key = Effect[<<pipeline'[r], writeOps'[r][i].payload.source>>]
    <3>1. CASE i \in 1..n
      BY <2>1, <3>1
    <3>2. CASE i = n + 1
      <4>1. /\ writeOps'[r][i].key = k /\ writeOps'[r][i].payload = doc
            /\ lineageOps'[r][i].key = LineageId[k] /\ lineageOps'[r][i].payload = doc
        <5> HIDE DEF k, doc
        <5>1. QED
          BY <1>5, <3>2
      <4>2. doc.run = r /\ doc.source = s /\ s \notin unread'[r]
        BY <1>1
      <4>3. k = Effect[<<pipeline'[r], s>>]
        BY <1>1
      <4> HIDE DEF k, doc
      <4>4. QED
        BY <4>1, <4>2, <4>3
    <3>3. QED
      BY <1>4, <1>5, <3>1, <3>2
  <2>3. ASSUME NEW i \in DOMAIN writeOps'[r], NEW j \in DOMAIN writeOps'[r],
               writeOps'[r][i].payload.source = writeOps'[r][j].payload.source
        PROVE  i = j
    <3>1. i \in 1..n \/ i = n + 1
      BY <1>4, <1>5
    <3>2. j \in 1..n \/ j = n + 1
      BY <1>4, <1>5
    <3>3. writeOps'[r][n+1].payload.source = s
      BY <1>5
    <3>4. QED
      BY <2>1, <2>3, <3>1, <3>2, <3>3
  <2>4. Len(writeOps'[r]) = Len(lineageOps'[r]) /\ pc'[r] # "idle"
    BY <1>1, <1>5
  <2>5. QED
    BY <2>2, <2>3, <2>4 DEF PairedBy
<1>7. CompleteFor(r)'
  <2>1. ASSUME NEW t \in SourceIds \ unread'[r], Effect[<<pipeline'[r], t>>] \in Keys
        PROVE  \E i \in DOMAIN writeOps'[r] : writeOps'[r][i].payload.source = t
    <3>1. CASE t = s
      <4>1. n + 1 \in DOMAIN writeOps'[r] /\ writeOps'[r][n+1].payload.source = s
        BY <1>4, <1>5
      <4>2. QED
        BY <3>1, <4>1
    <3>2. CASE t # s
      <4>1. t \in SourceIds \ unread[r] /\ Effect[<<pipeline[r], t>>] \in Keys
        BY <1>1, <2>1, <3>2
      <4>2. PICK i \in 1..n : writeOps[r][i].payload.source = t
        BY <1>1, <1>4, <4>1 DEF BooksOf, CompleteFor, Suspended
      <4>3. i \in DOMAIN writeOps'[r] /\ writeOps'[r][i].payload.source = t
        BY <1>4, <1>5, <4>2
      <4>4. QED
        BY <4>3
    <3>3. QED
      BY <3>1, <3>2
  <2>2. QED
    BY <2>1 DEF CompleteFor
<1>8. ReportedBy(r)'
  <2>1. /\ run[r].input = run[r].output + run[r].skipped + run[r].errors
        /\ run[r].input = Cardinality(SourceIds \ unread[r])
        /\ run[r].status = "success" /\ run[r].writeErrors = 0
        /\ errorMode[r] = "fail_fast" => run[r].errors = 0
        /\ runs[r] = None
    BY <1>1 DEF BooksOf, ReportedBy, Suspended
  <2>2. run'[r].input = Cardinality(SourceIds \ unread'[r])
    BY <1>1, <1>2, <2>1, ReadCount
  <2>3. run'[r].input = run'[r].output + run'[r].skipped + run'[r].errors
    BY <1>2, <2>1
  <2>4. QED
    BY <1>1, <1>2, <2>1, <2>2, <2>3 DEF ReportedBy
<1>9. QED
  BY <1>6, <1>7, <1>8 DEF BooksOf

\* A record that is dropped, or on which a step raises, has no operation.
LEMMA PassBooks ==
  ASSUME TypeOK, NEW r \in Runs, BooksOf(r), NEW s \in SourceIds,
         Drop(r, s) \/ TransformFails(r, s)
  PROVE  BooksOf(r)'
<1>1. /\ pc[r] = "iterating" /\ s \in unread[r] /\ unread'[r] = unread[r] \ {s}
      /\ pipeline'[r] = pipeline[r] /\ errorMode'[r] = errorMode[r] /\ runs'[r] = runs[r]
      /\ writeOps'[r] = writeOps[r] /\ lineageOps'[r] = lineageOps[r]
      /\ Effect[<<pipeline[r], s>>] \notin Keys
  BY PipelineAssumption DEF TypeOK, Drop, TransformFails, Reads, request, ops, store
<1>0. run[r] \in Reports /\ r \in DOMAIN run /\ r \in DOMAIN pc
  BY DEF TypeOK
<1>2. \/ /\ run'[r] = [run[r] EXCEPT !.input = run[r].input + 1, !.skipped = run[r].skipped + 1]
         /\ pc'[r] = "iterating"
      \/ /\ errorMode[r] # "fail_fast" /\ pc'[r] = "iterating"
         /\ run'[r] = [run[r] EXCEPT !.input = run[r].input + 1, !.errors = run[r].errors + 1,
                                     !.status = run[r].status]
      \/ /\ errorMode[r] = "fail_fast" /\ pc'[r] = "saving"
         /\ run'[r] = [run[r] EXCEPT !.input = run[r].input + 1, !.errors = run[r].errors + 1,
                                     !.status = "failure"]
  <2>1. CASE Drop(r, s)
    BY <1>0, <1>1, <2>1 DEF Drop
  <2>2. CASE TransformFails(r, s)
    BY <1>0, <1>1, <2>2 DEF TransformFails, Goto
  <2>3. QED
    BY <2>1, <2>2
<1>3. /\ run'[r].input = run[r].input + 1 /\ run'[r].output = run[r].output
      /\ run'[r].writeErrors = run[r].writeErrors
      /\ run[r].input \in Nat /\ run[r].output \in Nat /\ run[r].skipped \in Nat
      /\ run[r].errors \in Nat
      /\ \/ /\ run'[r].skipped = run[r].skipped + 1 /\ run'[r].errors = run[r].errors
            /\ run'[r].status = run[r].status /\ pc'[r] = "iterating"
         \/ /\ run'[r].skipped = run[r].skipped /\ run'[r].errors = run[r].errors + 1
            /\ \/ /\ errorMode[r] # "fail_fast" /\ run'[r].status = run[r].status
                  /\ pc'[r] = "iterating"
               \/ errorMode[r] = "fail_fast" /\ run'[r].status = "failure" /\ pc'[r] = "saving"
  BY <1>0, <1>2 DEF Reports
<1>4. PairedBy(r)'
  <2>1. pc'[r] # "idle" /\ unread'[r] \subseteq unread[r]
    BY <1>1, <1>3
  <2>2. PairedBy(r)
    BY DEF BooksOf
  <2>3. \A i \in DOMAIN writeOps[r] : writeOps[r][i].payload.source \notin unread'[r]
    BY <2>1, <2>2 DEF PairedBy
  <2>4. ASSUME NEW i \in DOMAIN writeOps'[r]
        PROVE  /\ lineageOps'[r][i].key = LineageId[writeOps'[r][i].key]
               /\ lineageOps'[r][i].payload = writeOps'[r][i].payload
               /\ writeOps'[r][i].payload.run = r
               /\ writeOps'[r][i].payload.source \notin unread'[r]
               /\ writeOps'[r][i].key = Effect[<<pipeline'[r], writeOps'[r][i].payload.source>>]
               /\ \A j \in DOMAIN writeOps'[r] :
                    writeOps'[r][i].payload.source = writeOps'[r][j].payload.source => i = j
    BY <1>1, <2>2, <2>3 DEF PairedBy
  <2>5. Len(writeOps'[r]) = Len(lineageOps'[r])
    BY <1>1, <2>2 DEF PairedBy
  <2>6. QED
    BY <2>1, <2>4, <2>5 DEF PairedBy
<1>5. CompleteFor(r)'
  BY <1>1 DEF BooksOf, CompleteFor, Suspended
<1>6. ReportedBy(r)'
  <2>1. /\ run[r].input = run[r].output + run[r].skipped + run[r].errors
        /\ run[r].input = Cardinality(SourceIds \ unread[r])
        /\ run[r].status = "success" /\ run[r].writeErrors = 0
        /\ errorMode[r] = "fail_fast" => run[r].errors = 0
        /\ runs[r] = None
    BY <1>1 DEF BooksOf, ReportedBy, Suspended
  <2>2. run'[r].input = Cardinality(SourceIds \ unread'[r])
    BY <1>1, <1>3, <2>1, ReadCount
  <2>3. run'[r].input = run'[r].output + run'[r].skipped + run'[r].errors
    BY <1>3, <2>1
  <2>4. QED
    BY <1>1, <1>3, <2>1, <2>2, <2>3 DEF ReportedBy
<1>7. QED
  BY <1>4, <1>5, <1>6 DEF BooksOf

\* From the end of the source to the answer the books are closed but for the status.
LEMMA EndBooks ==
  ASSUME TypeOK, NEW r \in Runs, BooksOf(r),
         CursorEnds(r) \/ WriteTarget(r) \/ WriteLineage(r) \/ WriteFails(r)
  PROVE  BooksOf(r)'
<1>1. /\ pc[r] \in {"iterating", "writingTarget", "writingLineage"}
      /\ pc'[r] \in {"writingTarget", "writingLineage", "saving"}
      /\ unread'[r] = unread[r] /\ pipeline'[r] = pipeline[r] /\ errorMode'[r] = errorMode[r]
      /\ runs'[r] = runs[r] /\ writeOps'[r] = writeOps[r] /\ lineageOps'[r] = lineageOps[r]
      /\ unread[r] = {}
  BY DEF TypeOK, CursorEnds, WriteTarget, WriteLineage, WriteFails, PartOfWrite, Goto, request,
         ops, BooksOf, ReportedBy
<1>0. run[r] \in Reports /\ r \in DOMAIN run /\ r \in DOMAIN pc
  BY DEF TypeOK
<1>2. \/ run'[r] = run[r] /\ pc'[r] \in {"writingTarget", "writingLineage"}
      \/ run'[r] = [run[r] EXCEPT !.status = Verdict(run[r])] /\ pc'[r] = "saving"
      \/ run'[r] = [run[r] EXCEPT !.status = "failure", !.writeErrors = 1] /\ pc'[r] = "saving"
  <2>1. CASE CursorEnds(r)
    <3>1. CASE writeOps[r] = <<>>
      BY <1>0, <2>1, <3>1 DEF CursorEnds, Goto
    <3>2. CASE writeOps[r] # <<>>
      <4>1. run'[r] = [run[r] EXCEPT !.status = run[r].status]
        BY <1>0, <2>1, <3>2 DEF CursorEnds
      <4>2. run'[r] = run[r]
        BY <1>0, <4>1 DEF Reports
      <4>3. QED
        BY <1>0, <2>1, <3>2, <4>2 DEF CursorEnds, Goto
    <3>3. QED
      BY <3>1, <3>2
  <2>2. CASE WriteTarget(r)
    BY <1>0, <2>2 DEF WriteTarget, Goto
  <2>3. CASE WriteLineage(r)
    BY <1>0, <2>3 DEF WriteLineage, Goto
  <2>4. CASE WriteFails(r)
    BY <1>0, <2>4 DEF WriteFails, Goto
  <2>5. QED
    BY <2>1, <2>2, <2>3, <2>4
<1>3. /\ run'[r].input = run[r].input /\ run'[r].output = run[r].output
      /\ run'[r].skipped = run[r].skipped /\ run'[r].errors = run[r].errors
      /\ run[r].errors \in Nat
      /\ \/ /\ run'[r].status = run[r].status /\ run'[r].writeErrors = run[r].writeErrors
            /\ pc'[r] \in {"writingTarget", "writingLineage"}
         \/ /\ run'[r].status = Verdict(run[r]) /\ run'[r].writeErrors = run[r].writeErrors
            /\ pc'[r] = "saving"
         \/ run'[r].status = "failure" /\ pc'[r] = "saving"
  BY <1>0, <1>2 DEF Reports
<1>4. PairedBy(r)'
  BY <1>1 DEF BooksOf, PairedBy
<1>5. CompleteFor(r)'
  BY <1>1 DEF BooksOf, CompleteFor, Suspended
<1>6. ReportedBy(r)'
  BY <1>1, <1>3 DEF BooksOf, ReportedBy, Suspended, Verdict
<1>7. QED
  BY <1>4, <1>5, <1>6 DEF BooksOf

LEMMA SaveBooks ==
  ASSUME TypeOK, NEW r \in Runs, BooksOf(r), Save(r)
  PROVE  BooksOf(r)'
<1>1. /\ HandUntouched(r) /\ pc[r] = "saving" /\ pc'[r] = "answered" /\ runs'[r] = run[r]
  BY DEF TypeOK, Save, Goto, HandUntouched, request, ops
<1>2. QED
  BY <1>1 DEF HandUntouched, BooksOf, PairedBy, CompleteFor, ReportedBy, Suspended

LEMMA RetryUntouched ==
  ASSUME NEW r \in Runs, Retry(r)
  PROVE  Untouched(r)
BY DEF Retry, Untouched, HandUntouched, request, ops

LEMMA FailsClosed ==
  ASSUME TypeOK, NEW r \in Runs,
         CursorFails(r) \/ SaveFails(r) \/ \E p \in Pipelines : LoadFails(r, p)
  PROVE  /\ HandUntouched(r) /\ UNCHANGED runs /\ pc[r] \in {"idle", "iterating", "saving"}
         /\ pc'[r] \in {"notFound", "raised"}
BY DEF TypeOK, CursorFails, SaveFails, LoadFails, Goto, HandUntouched, request, ops

LEMMA CrashCloses ==
  ASSUME TypeOK, Crash, NEW r \in Runs
  PROVE  /\ HandUntouched(r)
         /\ UNCHANGED <<target, lineage, runs, wrote, solo>>
         /\ pc'[r] = pc[r] \/ (pc[r] \in Suspended /\ pc'[r] = "lost")
BY DEF TypeOK, Crash, HandUntouched, Active, request, ops, store, history

LEMMA InitBooks == Init => Books
BY DEF Init, Books, PairedBy, CompleteFor, ReportedBy, Suspended, NewRun

LEMMA NextBooks == TypeOK /\ Books /\ [Next]_vars => Books'
<1> SUFFICES ASSUME TypeOK, Books, [Next]_vars, NEW r \in Runs PROVE BooksOf(r)'
  BY DEF Books, BooksOf
<1>0. BooksOf(r)
  BY DEF Books, BooksOf
<1>1. CASE StepOf(r)
  <2>1. ASSUME NEW p \in Pipelines, LoadFails(r, p) PROVE BooksOf(r)'
    BY <1>0, <2>1, FailsClosed, BooksClose
  <2>2. ASSUME NEW p \in Pipelines, NEW mode \in {"skip", "fail_fast"}, Load(r, p, mode)
        PROVE  BooksOf(r)'
    BY <1>0, <2>2, LoadBooks
  <2>3. ASSUME NEW s \in SourceIds, Transform(r, s) \/ Drop(r, s) \/ TransformFails(r, s)
        PROVE  BooksOf(r)'
    BY <1>0, <2>3, TransformBooks, PassBooks
  <2>4. CASE CursorEnds(r) \/ WriteTarget(r) \/ WriteLineage(r) \/ WriteFails(r)
    BY <1>0, <2>4, EndBooks
  <2>5. CASE Save(r)
    BY <1>0, <2>5, SaveBooks
  <2>6. CASE CursorFails(r) \/ SaveFails(r)
    BY <1>0, <2>6, FailsClosed, BooksClose
  <2>7. CASE Retry(r)
    BY <1>0, <2>7, RetryUntouched, BooksStay
  <2>8. QED
    BY <1>1, <2>1, <2>2, <2>3, <2>4, <2>5, <2>6, <2>7 DEF StepOf, Progress, Failure
<1>2. ASSUME NEW q \in Runs, q # r, StepOf(q) PROVE BooksOf(r)'
  BY <1>0, <1>2, OthersUntouched, BooksStay
<1>3. CASE Edit
  BY <1>0, <1>3, EditTouchesNone, BooksStay DEF Untouched, HandUntouched
<1>4. CASE Crash
  <2>1. CASE pc'[r] = pc[r]
    BY <1>0, <1>4, <2>1, CrashCloses, BooksStay DEF Untouched
  <2>2. CASE pc[r] \in Suspended /\ pc'[r] = "lost"
    BY <1>0, <1>4, <2>2, CrashCloses, BooksClose DEF Suspended
  <2>3. QED
    BY <1>4, <2>1, <2>2, CrashCloses
<1>5. CASE UNCHANGED vars
  BY <1>0, <1>5, BooksStay DEF vars, request, ops, store, history, Untouched, HandUntouched
<1>6. QED
  BY <1>1, <1>2, <1>3, <1>4, <1>5, NextSteps

\* Spec => []OneDefinitionPerRun: a run executes the definition that it loaded, whatever
\* becomes of the pipeline meanwhile, and carries a record once.
THEOREM RunsKeepTheirDefinition == Spec => []OneDefinitionPerRun
<1>1. Books => OneDefinitionPerRun
  BY DEF Books, PairedBy, OneDefinitionPerRun
<1>2. QED
  BY <1>1, InitType, NextType, InitBooks, NextBooks, PTL DEF Spec

-----------------------------------------------------------------------------
(* What is written. *)

\* A key on which an operation was applied has a document.
LEMMA UpsertedSets ==
  ASSUME NEW K, NEW coll \in [K -> Documents \cup {None}], NEW batch \in Seq(Operations(K)),
         NEW done \in SUBSET DOMAIN batch, NEW i \in done
  PROVE  Upserted(coll, batch, done)[batch[i].key] # None
<1>1. batch[i].key \in K
  BY BatchType
<1>2. \A j \in done : batch[j].payload # None
  BY BatchType, PipelineAssumption
<1>3. QED
  BY <1>1, <1>2, UpsertedDocument

\* A bulk write of the target, in part or in whole, adds to what was written documents of
\* its own run only, and takes none away.
LEMMA SetTargetSays ==
  ASSUME TypeOK, NEW q \in Runs, PairedBy(q), NEW done \in SUBSET DOMAIN writeOps[q],
         SetTarget(q, done)
  PROVE  /\ \A k \in Keys : /\ wrote[k] \subseteq wrote'[k]
                            /\ \A doc \in wrote'[k] : doc \in wrote[k] \/ doc.run = q
                            /\ target[k] # None => target'[k] # None
         /\ \A i \in done : /\ writeOps[q][i].payload \in wrote'[writeOps[q][i].key]
                            /\ target'[writeOps[q][i].key] # None
<1>1. writeOps[q] \in Seq(Operations(Keys)) /\ target \in [Keys -> Documents \cup {None}]
  BY DEF TypeOK
<1>2. \A i \in done : writeOps[q][i].key \in Keys /\ writeOps[q][i].payload.run = q
  BY <1>1, BatchType DEF PairedBy
<1>3. ASSUME NEW k \in Keys
      PROVE  /\ wrote[k] \subseteq wrote'[k]
             /\ \A doc \in wrote'[k] : doc \in wrote[k] \/ doc.run = q
  BY <1>2 DEF SetTarget
<1>4. \A k \in Keys : target[k] # None => target'[k] # None
  BY <1>1, UpsertedType DEF SetTarget
<1>5. ASSUME NEW i \in done
      PROVE  /\ writeOps[q][i].payload \in wrote'[writeOps[q][i].key]
             /\ target'[writeOps[q][i].key] # None
  BY <1>1, <1>2, UpsertedSets DEF SetTarget, On
<1>6. QED
  BY <1>3, <1>4, <1>5

\* A step of a run does one of three things to the collections.
SetsTarget(q) ==
  /\ pc[q] = "writingTarget" /\ UNCHANGED lineage
  /\ \E done \in SUBSET DOMAIN writeOps[q] : SetTarget(q, done)

SetsLineage(q) ==
  /\ pc[q] = "writingLineage" /\ UNCHANGED <<target, wrote>>
  /\ \E done \in SUBSET DOMAIN lineageOps[q] :
       lineage' = Upserted(lineage, lineageOps[q], done)

LEMMA StoreStep ==
  ASSUME NEW q \in Runs, StepOf(q)
  PROVE  UNCHANGED <<target, lineage, wrote>> \/ SetsTarget(q) \/ SetsLineage(q)
<1> USE DEF store, history
<1>1. ASSUME NEW p \in Pipelines, NEW mode \in {"skip", "fail_fast"},
             LoadFails(q, p) \/ Load(q, p, mode)
      PROVE  UNCHANGED <<target, lineage, wrote>>
  BY <1>1 DEF LoadFails, Load
<1>2. ASSUME NEW s \in SourceIds, Transform(q, s) \/ Drop(q, s) \/ TransformFails(q, s)
      PROVE  UNCHANGED <<target, lineage, wrote>>
  BY <1>2 DEF Transform, Drop, TransformFails, Reads
<1>3. CASE CursorEnds(q) \/ Save(q) \/ CursorFails(q) \/ SaveFails(q)
  BY <1>3 DEF CursorEnds, Save, CursorFails, SaveFails
<1>4. CASE WriteTarget(q)
  BY <1>4 DEF WriteTarget, SetsTarget
<1>5. CASE WriteLineage(q)
  BY <1>5 DEF WriteLineage, SetsLineage
<1>6. CASE Retry(q) \/ WriteFails(q)
  BY <1>6 DEF Retry, WriteFails, PartOfWrite, SetsTarget, SetsLineage
<1>7. QED
  BY <1>1, <1>2, <1>3, <1>4, <1>5, <1>6 DEF StepOf, Progress, Failure

\* The collections lose nothing, and gain what the run q has written.
GrowBy(q) ==
  /\ \A k \in Keys : /\ wrote[k] \subseteq wrote'[k]
                     /\ \A doc \in wrote'[k] : doc \in wrote[k] \/ doc.run = q
                     /\ target[k] # None => target'[k] # None
  /\ \A i \in LineageIds : lineage[i] # None => lineage'[i] # None

LEMMA StoreGrows ==
  ASSUME TypeOK, NEW q \in Runs, PairedBy(q), StepOf(q)
  PROVE  GrowBy(q)
<1>1. CASE UNCHANGED <<target, lineage, wrote>>
  BY <1>1 DEF GrowBy
<1>2. CASE SetsTarget(q)
  BY <1>2, SetTargetSays DEF SetsTarget, GrowBy
<1>3. CASE SetsLineage(q)
  <2>1. /\ lineageOps[q] \in Seq(Operations(LineageIds))
        /\ lineage \in [LineageIds -> Documents \cup {None}]
    BY DEF TypeOK
  <2>2. \A i \in LineageIds : lineage[i] # None => lineage'[i] # None
    BY <1>3, <2>1, UpsertedType DEF SetsLineage
  <2>3. QED
    BY <1>3, <2>2 DEF SetsLineage, GrowBy
<1>4. QED
  BY <1>1, <1>2, <1>3, StoreStep

\* The keys of a run's operations.
LEMMA OperationKeys ==
  ASSUME TypeOK, NEW r \in Runs, PairedBy(r)
  PROVE  /\ DOMAIN writeOps[r] = DOMAIN lineageOps[r]
         /\ DOMAIN writeOps[r] = 1..Len(writeOps[r]) /\ Len(writeOps[r]) \in Nat
         /\ \A i \in DOMAIN writeOps[r] : /\ writeOps[r][i].key \in Keys
                                          /\ lineageOps[r][i].key \in LineageIds
<1>1. /\ writeOps[r] \in Seq(Operations(Keys)) /\ lineageOps[r] \in Seq(Operations(LineageIds))
      /\ Len(writeOps[r]) = Len(lineageOps[r])
  BY DEF TypeOK, PairedBy
<1>2. QED
  BY <1>1, BatchType

\* What others write does not matter to a run whose hands are still.
LEMMA AppliedStays ==
  ASSUME TypeOK, NEW r \in Runs, PairedBy(r), AppliedBy(r), Untouched(r),
         NEW q \in Runs, GrowBy(q), q # r \/ UNCHANGED wrote
  PROVE  AppliedBy(r)'
<1>1. \A i \in DOMAIN writeOps[r] : writeOps[r][i].key \in Keys /\ lineageOps[r][i].key \in LineageIds
  BY OperationKeys
<1>2. QED
  BY <1>1 DEF AppliedBy, Untouched, HandUntouched, GrowBy

\* A run that ends without a document more, or goes on from where it had written none.
LEMMA AppliedCloses ==
  ASSUME NEW r \in Runs, AppliedBy(r), HandUntouched(r), UNCHANGED wrote,
         pc'[r] \in {"invalid", "notFound", "raised", "lost"}
  PROVE  AppliedBy(r)'
BY DEF AppliedBy, HandUntouched

LEMMA ReadingApplied ==
  ASSUME TypeOK, NEW r \in Runs, AppliedBy(r), UNCHANGED wrote,
         pc[r] \in {"idle", "iterating"},
         \/ pc'[r] \in {"iterating", "writingTarget", "invalid"}
         \/ pc'[r] = "saving" /\ (run'[r].status = "failure" \/ writeOps'[r] = <<>>)
  PROVE  AppliedBy(r)'
<1>1. DOMAIN << >> = {}
  OBVIOUS
<1>2. QED
  BY <1>1 DEF AppliedBy

LEMMA ReadStep ==
  ASSUME TypeOK, NEW r \in Runs,
         \/ \E p \in Pipelines, mode \in {"skip", "fail_fast"} : Load(r, p, mode)
         \/ \E s \in SourceIds : Transform(r, s) \/ Drop(r, s) \/ TransformFails(r, s)
         \/ CursorEnds(r)
  PROVE  /\ UNCHANGED wrote /\ pc[r] \in {"idle", "iterating"}
         /\ \/ pc'[r] \in {"iterating", "writingTarget", "invalid"}
            \/ pc'[r] = "saving" /\ (run'[r].status = "failure" \/ writeOps'[r] = <<>>)
<1> USE DEF store, history, Goto
<1>0. run[r] \in Reports /\ r \in DOMAIN run /\ r \in DOMAIN pc
  BY DEF TypeOK
<1>1. ASSUME NEW p \in Pipelines, NEW mode \in {"skip", "fail_fast"}, Load(r, p, mode)
      PROVE  UNCHANGED wrote /\ pc[r] = "idle" /\ pc'[r] \in {"iterating", "invalid"}
  BY <1>0, <1>1 DEF Load
<1>2. ASSUME NEW s \in SourceIds, Transform(r, s) \/ Drop(r, s)
      PROVE  UNCHANGED wrote /\ pc[r] = "iterating" /\ pc'[r] = "iterating"
  BY <1>0, <1>2 DEF Transform, Drop, Reads
<1>3. ASSUME NEW s \in SourceIds, TransformFails(r, s)
      PROVE  /\ UNCHANGED wrote /\ pc[r] = "iterating"
             /\ pc'[r] = "iterating" \/ (pc'[r] = "saving" /\ run'[r].status = "failure")
  <2>1. CASE errorMode[r] = "fail_fast"
    <3>1. run'[r] = [run[r] EXCEPT !.input = run[r].input + 1, !.errors = run[r].errors + 1,
                                  !.status = "failure"]
      BY <1>0, <1>3, <2>1 DEF TransformFails
    <3>2. QED
      BY <1>0, <1>3, <2>1, <3>1 DEF TransformFails, Reads, Reports
  <2>2. CASE errorMode[r] # "fail_fast"
    BY <1>0, <1>3, <2>2 DEF TransformFails, Reads
  <2>3. QED
    BY <2>1, <2>2
<1>4. CASE CursorEnds(r)
  BY <1>0, <1>4 DEF CursorEnds, ops
<1>5. QED
  BY <1>1, <1>2, <1>3, <1>4

LEMMA WriteTargetApplied ==
  ASSUME TypeOK, NEW r \in Runs, BooksOf(r), AppliedBy(r), WriteTarget(r)
  PROVE  AppliedBy(r)'
<1>1. /\ HandUntouched(r) /\ pc[r] = "writingTarget" /\ pc'[r] = "writingLineage"
      /\ SetTarget(r, DOMAIN writeOps[r])
  BY DEF TypeOK, WriteTarget, Goto, HandUntouched, request, ops
<1>2. errorMode[r] = "fail_fast" => ~(run[r].errors > 0)
  BY <1>1 DEF BooksOf, ReportedBy
<1>3. \A i \in DOMAIN writeOps[r] : /\ writeOps[r][i].payload \in wrote'[writeOps[r][i].key]
                                   /\ target'[writeOps[r][i].key] # None
  BY <1>1, SetTargetSays DEF BooksOf
<1>4. QED
  BY <1>1, <1>2, <1>3 DEF AppliedBy, HandUntouched

LEMMA WriteLineageApplied ==
  ASSUME TypeOK, NEW r \in Runs, BooksOf(r), AppliedBy(r), WriteLineage(r)
  PROVE  AppliedBy(r)'
<1>1. /\ pc[r] = "writingLineage" /\ pc'[r] = "saving"
      /\ errorMode'[r] = errorMode[r] /\ writeOps'[r] = writeOps[r] /\ lineageOps'[r] = lineageOps[r]
      /\ UNCHANGED <<target, wrote>>
      /\ lineage' = Upserted(lineage, lineageOps[r], DOMAIN lineageOps[r])
      /\ run'[r].errors = run[r].errors
  BY DEF TypeOK, WriteLineage, Goto, request, ops, history, Reports
<1>2. errorMode[r] = "fail_fast" => ~(run[r].errors > 0)
  BY <1>1 DEF BooksOf, ReportedBy
<1>3. /\ lineageOps[r] \in Seq(Operations(LineageIds))
      /\ lineage \in [LineageIds -> Documents \cup {None}]
  BY DEF TypeOK
<1>4. \A i \in DOMAIN lineageOps[r] : lineage'[lineageOps[r][i].key] # None
  BY <1>1, <1>3, UpsertedSets
<1>5. \A i \in DOMAIN writeOps[r] : /\ target[writeOps[r][i].key] # None
                                   /\ lineage'[lineageOps[r][i].key] # None
  BY <1>1, <1>4, OperationKeys DEF BooksOf, AppliedBy
<1>6. QED
  BY <1>1, <1>2, <1>5 DEF AppliedBy

LEMMA RetryApplied ==
  ASSUME TypeOK, NEW r \in Runs, BooksOf(r), AppliedBy(r), Retry(r)
  PROVE  AppliedBy(r)'
<1>1. Untouched(r) /\ pc[r] \in {"writingTarget", "writingLineage"}
  BY RetryUntouched DEF Retry, PartOfWrite
<1>2. GrowBy(r)
  BY StoreGrows DEF BooksOf, StepOf, Failure
<1>3. errorMode[r] = "fail_fast" => ~(run[r].errors > 0)
  BY <1>1 DEF BooksOf, ReportedBy
<1>4. \A i \in DOMAIN writeOps[r] : writeOps[r][i].key \in Keys
  BY OperationKeys DEF BooksOf
<1>5. QED
  BY <1>1, <1>2, <1>3, <1>4 DEF AppliedBy, Untouched, HandUntouched, GrowBy

LEMMA WriteFailsApplied ==
  ASSUME TypeOK, NEW r \in Runs, BooksOf(r), AppliedBy(r), WriteFails(r)
  PROVE  AppliedBy(r)'
<1>1. pc[r] \in {"writingTarget", "writingLineage"} /\ pc'[r] = "saving"
      /\ errorMode'[r] = errorMode[r]
  BY DEF TypeOK, WriteFails, PartOfWrite, Goto, request
<1>2. run[r] \in Reports /\ run'[r] = [run[r] EXCEPT !.status = "failure", !.writeErrors = 1]
  BY DEF TypeOK, WriteFails
<1>3. run'[r].errors = run[r].errors /\ run'[r].status = "failure"
  BY <1>2 DEF Reports
<1>4. errorMode[r] = "fail_fast" => ~(run[r].errors > 0)
  BY <1>1 DEF BooksOf, ReportedBy
<1>5. QED
  BY <1>1, <1>3, <1>4 DEF AppliedBy

LEMMA SaveApplied ==
  ASSUME TypeOK, NEW r \in Runs, AppliedBy(r), Save(r)
  PROVE  AppliedBy(r)'
<1>1. /\ HandUntouched(r) /\ pc[r] = "saving" /\ pc'[r] = "answered"
      /\ UNCHANGED <<target, lineage, wrote>>
  BY DEF TypeOK, Save, Goto, HandUntouched, request, ops, store, history
<1>2. QED
  BY <1>1 DEF AppliedBy, HandUntouched

\* A document of the lineage tells of one that was written to the target before it.
LEMMA LineageFollows ==
  ASSUME TypeOK, NEW q \in Runs, PairedBy(q), AppliedBy(q), StepOf(q), LineageOfWritten
  PROVE  LineageOfWritten'
<1>1. GrowBy(q)
  BY StoreGrows
<1>2. CASE UNCHANGED lineage
  <2>1. ASSUME NEW i \in LineageIds, lineage[i] # None
        PROVE  \E k \in Keys : LineageId[k] = i /\ lineage[i] \in wrote'[k]
    BY <1>1, <2>1 DEF GrowBy, LineageOfWritten
  <2>2. QED
    BY <1>2, <2>1 DEF LineageOfWritten
<1>3. CASE SetsLineage(q)
  <2>1. PICK done \in SUBSET DOMAIN lineageOps[q] :
          lineage' = Upserted(lineage, lineageOps[q], done)
    BY <1>3 DEF SetsLineage
  <2>2. /\ lineageOps[q] \in Seq(Operations(LineageIds))
        /\ lineage \in [LineageIds -> Documents \cup {None}]
    BY DEF TypeOK
  <2>3. ASSUME NEW i \in LineageIds, lineage'[i] # None
        PROVE  \E k \in Keys : LineageId[k] = i /\ lineage'[i] \in wrote[k]
    <3>1. CASE lineage'[i] = lineage[i]
      BY <2>3, <3>1 DEF LineageOfWritten
    <3>2. CASE \E j \in done : lineageOps[q][j].key = i /\ lineage'[i] = lineageOps[q][j].payload
      <4>1. PICK j \in done : lineageOps[q][j].key = i /\ lineage'[i] = lineageOps[q][j].payload
        BY <3>2
      <4>2. j \in DOMAIN writeOps[q] /\ writeOps[q][j].key \in Keys
        BY OperationKeys
      <4>3. LineageId[writeOps[q][j].key] = i /\ lineage'[i] = writeOps[q][j].payload
        BY <4>1, <4>2 DEF PairedBy
      <4>4. writeOps[q][j].payload \in wrote[writeOps[q][j].key]
        BY <1>3, <4>2 DEF AppliedBy, SetsLineage
      <4>5. QED
        BY <4>2, <4>3, <4>4
    <3>3. QED
      BY <2>1, <2>2, <3>1, <3>2, UpsertedDocument
  <2>4. QED
    BY <1>3, <2>3 DEF SetsLineage, LineageOfWritten
<1>4. QED
  BY <1>2, <1>3, StoreStep DEF SetsTarget

LEMMA InitApplied == Init => Applied
BY DEF Init, Applied, AppliedBy, LineageOfWritten, NewRun

LEMMA NextApplied == TypeOK /\ Books /\ Applied /\ [Next]_vars => Applied'
<1> SUFFICES ASSUME TypeOK, Books, Applied, [Next]_vars PROVE Applied'
  OBVIOUS
<1>0. \A r \in Runs : BooksOf(r) /\ PairedBy(r) /\ AppliedBy(r)
  BY DEF Books, BooksOf, Applied
<1>1. ASSUME NEW q \in Runs, StepOf(q), NEW r \in Runs PROVE AppliedBy(r)'
  <2>1. CASE r # q
    BY <1>0, <1>1, <2>1, OthersUntouched, StoreGrows, AppliedStays
  <2>2. CASE r = q
    <3>1. CASE \/ \E p \in Pipelines, mode \in {"skip", "fail_fast"} : Load(r, p, mode)
               \/ \E s \in SourceIds : Transform(r, s) \/ Drop(r, s) \/ TransformFails(r, s)
               \/ CursorEnds(r)
      BY <1>0, <3>1, ReadStep, ReadingApplied
    <3>2. CASE WriteTarget(r) \/ WriteLineage(r) \/ Retry(r) \/ WriteFails(r) \/ Save(r)
      BY <1>0, <3>2, WriteTargetApplied, WriteLineageApplied, RetryApplied, WriteFailsApplied,
         SaveApplied
    <3>3. CASE CursorFails(r) \/ SaveFails(r) \/ \E p \in Pipelines : LoadFails(r, p)
      <4>1. UNCHANGED wrote
        BY <3>3 DEF CursorFails, SaveFails, LoadFails, history
      <4>2. QED
        BY <1>0, <3>3, <4>1, FailsClosed, AppliedCloses
    <3>4. QED
      BY <1>1, <2>2, <3>1, <3>2, <3>3 DEF StepOf, Progress, Failure
  <2>3. QED
    BY <2>1, <2>2
<1>2. ASSUME UNCHANGED <<target, lineage, wrote>>, NEW r \in Runs, Untouched(r)
      PROVE  AppliedBy(r)'
  BY <1>0, <1>2, AppliedStays DEF GrowBy
<1>3. ASSUME UNCHANGED <<target, lineage, wrote>> PROVE LineageOfWritten'
  BY <1>3 DEF Applied, LineageOfWritten
<1>4. CASE \E q \in Runs : StepOf(q)
  BY <1>0, <1>1, <1>4, LineageFollows DEF Applied
<1>5. CASE Edit
  BY <1>2, <1>3, <1>5, EditTouchesNone DEF Applied, Untouched, HandUntouched
<1>6. CASE Crash
  <2>1. ASSUME NEW r \in Runs PROVE AppliedBy(r)'
    <3>1. CASE pc'[r] = pc[r]
      BY <1>2, <1>6, <3>1, CrashCloses DEF Untouched
    <3>2. CASE pc'[r] = "lost"
      BY <1>0, <1>6, <3>2, CrashCloses, AppliedCloses
    <3>3. QED
      BY <1>6, <3>1, <3>2, CrashCloses
  <2>2. LineageOfWritten'
    BY <1>3, <1>6 DEF Crash, store, history
  <2>3. QED
    BY <2>1, <2>2 DEF Applied
<1>7. CASE UNCHANGED vars
  BY <1>2, <1>3, <1>7
     DEF Applied, vars, request, ops, store, history, Untouched, HandUntouched
<1>8. QED
  BY <1>4, <1>5, <1>6, <1>7, NextSteps

\* The invariants together.
IInv == TypeOK /\ Books /\ Applied

LEMMA Invariance == Spec => []IInv
<1>1. QED
  BY InitType, NextType, InitBooks, NextBooks, InitApplied, NextApplied, PTL DEF Spec, IInv

\* Spec => []FailFastWritesNothing: a run in fail_fast mode that met an error has written
\* nothing, and writes nothing.
THEOREM FailFastIsClean == Spec => []FailFastWritesNothing
<1>1. IInv => FailFastWritesNothing
  BY DEF IInv, Applied, AppliedBy, FailFastWritesNothing
<1>2. QED
  BY <1>1, Invariance, PTL

\* Spec => []LineageOfWritten: lineage tells of what was written to the target, whichever
\* writes fail in part, are sent again, overlap, or are cut off by a crash between the two.
THEOREM LineageTellsOfWritten == Spec => []LineageOfWritten
<1>1. IInv => LineageOfWritten
  BY DEF IInv, Applied
<1>2. QED
  BY <1>1, Invariance, PTL

\* Spec => []RowAccountsForRun: the row of a run counts every record of the source, and with
\* "success" or "partial" every output is in the target and has lineage.
THEOREM RowsAccount == Spec => []RowAccountsForRun
<1>1. IInv => RowAccountsForRun
  <2> SUFFICES ASSUME IInv, NEW r \in Runs, runs[r] # None
               PROVE  /\ runs[r].input = runs[r].output + runs[r].skipped + runs[r].errors
                      /\ runs[r].status = "success" => runs[r].errors = 0
                      /\ runs[r].status = "partial" => runs[r].errors > 0
                      /\ runs[r].status \in {"success", "partial"} =>
                           /\ runs[r].input = Cardinality(SourceIds)
                           /\ runs[r].writeErrors = 0
                           /\ \A s \in SourceIds :
                                Effect[<<pipeline[r], s>>] \in Keys =>
                                  /\ target[Effect[<<pipeline[r], s>>]] # None
                                  /\ lineage[LineageId[Effect[<<pipeline[r], s>>]]] # None
    BY DEF RowAccountsForRun
  <2>1. TypeOK /\ PairedBy(r) /\ CompleteFor(r) /\ ReportedBy(r) /\ AppliedBy(r)
    BY DEF IInv, Books, Applied
  <2>2. pc[r] = "answered" /\ runs[r] = run[r]
    BY <2>1 DEF ReportedBy
  <2>3. ASSUME run[r].status \in {"success", "partial"}
        PROVE  unread[r] = {} /\ run[r].writeErrors = 0
    BY <2>1, <2>2, <2>3 DEF ReportedBy
  <2>4. ASSUME run[r].status \in {"success", "partial"}
        PROVE  run[r].input = Cardinality(SourceIds)
    <3>1. SourceIds \ unread[r] = SourceIds
      BY <2>3, <2>4
    <3>2. QED
      BY <2>1, <2>2, <3>1 DEF ReportedBy
  <2>5. ASSUME run[r].status \in {"success", "partial"}, NEW s \in SourceIds,
               Effect[<<pipeline[r], s>>] \in Keys
        PROVE  /\ target[Effect[<<pipeline[r], s>>]] # None
               /\ lineage[LineageId[Effect[<<pipeline[r], s>>]]] # None
    <3>1. PICK i \in DOMAIN writeOps[r] : writeOps[r][i].payload.source = s
      BY <2>1, <2>2, <2>3, <2>5 DEF CompleteFor
    <3>2. /\ writeOps[r][i].key = Effect[<<pipeline[r], s>>]
          /\ lineageOps[r][i].key = LineageId[writeOps[r][i].key]
      BY <2>1, <3>1 DEF PairedBy
    <3>3. target[writeOps[r][i].key] # None /\ lineage[lineageOps[r][i].key] # None
      BY <2>1, <2>2, <2>5 DEF AppliedBy
    <3>4. QED
      BY <3>2, <3>3
  <2>6. QED
    BY <2>1, <2>2, <2>3, <2>4, <2>5 DEF ReportedBy
<1>2. QED
  BY <1>1, Invariance, PTL

-----------------------------------------------------------------------------
(* A run that nothing overlaps. *)

\* After the whole of a batch, the document of a key is that of the last operation on it.
LEMMA UpsertedLast ==
  ASSUME NEW K, NEW coll \in [K -> Documents \cup {None}], NEW batch \in Seq(Operations(K))
  PROVE  LastIn(Upserted(coll, batch, DOMAIN batch), batch)
<1>1. SUFFICES ASSUME NEW i \in DOMAIN batch,
                      \A j \in DOMAIN batch : batch[j].key = batch[i].key => j <= i
               PROVE  Upserted(coll, batch, DOMAIN batch)[batch[i].key] = batch[i].payload
  BY DEF LastIn
<1>2. batch[i].key \in K /\ DOMAIN batch = 1..Len(batch) /\ Len(batch) \in Nat
  BY BatchType
<1>3. PICK m \in DOMAIN batch :
        /\ batch[m].key = batch[i].key
        /\ Upserted(coll, batch, DOMAIN batch)[batch[i].key] = batch[m].payload
        /\ \A j \in DOMAIN batch : batch[j].key = batch[i].key => j <= m
  <2> DEFINE d == DOMAIN batch
             k == batch[i].key
  <2>1. d \in SUBSET DOMAIN batch /\ k \in K /\ i \in d
    BY <1>2
  <2>2. \/ Upserted(coll, batch, d)[k] = coll[k] /\ \A j \in d : batch[j].key # k
        \/ \E m \in d : /\ batch[m].key = k
                       /\ Upserted(coll, batch, d)[k] = batch[m].payload
                       /\ \A j \in d : batch[j].key = k => j <= m
    <3> HIDE DEF d, k
    <3>1. QED
      BY <2>1, UpsertedDocument
  <2>3. QED
    BY <2>1, <2>2
<1>4. m = i
  BY <1>1, <1>2, <1>3
<1>5. QED
  BY <1>3, <1>4

\* Only loading begins a run, and marks who is alone.
LEMMA SoloStep ==
  ASSUME TypeOK, NEW q \in Runs, StepOf(q)
  PROVE  \/ \E p \in Pipelines, mode \in {"skip", "fail_fast"} : Load(q, p, mode)
         \/ solo' = solo /\ Active(q)
         \/ /\ solo' = solo /\ ~Active(q) /\ pc'[q] \in {"notFound", "raised"}
            /\ UNCHANGED <<target, lineage>>
<1> USE DEF Active, Suspended, history
<1>1. ASSUME NEW p \in Pipelines, LoadFails(q, p)
      PROVE  /\ solo' = solo /\ ~Active(q) /\ pc'[q] \in {"notFound", "raised"}
             /\ UNCHANGED <<target, lineage>>
  BY <1>1 DEF TypeOK, LoadFails, Goto, store
<1>2. ASSUME NEW s \in SourceIds, Transform(q, s) \/ Drop(q, s) \/ TransformFails(q, s)
      PROVE  solo' = solo /\ Active(q)
  BY <1>2 DEF Transform, Drop, TransformFails, Reads
<1>3. CASE CursorEnds(q) \/ WriteTarget(q) \/ WriteLineage(q) \/ Save(q)
  BY <1>3 DEF CursorEnds, WriteTarget, WriteLineage, Save
<1>4. CASE Failure(q)
  BY <1>4 DEF Failure, CursorFails, SaveFails, Retry, WriteFails, PartOfWrite
<1>5. QED
  BY <1>1, <1>2, <1>3, <1>4 DEF StepOf, Progress

\* A run is alone or not whatever another does: while it is alone, no other has a step that
\* touches the collections.
LEMMA OthersAlone ==
  ASSUME TypeOK, NEW r \in Runs, AloneFor(r), NEW q \in Runs, q # r, StepOf(q)
  PROVE  AloneFor(r)'
<1> SUFFICES ASSUME solo'[r], Active(r)'
             PROVE  /\ \A s \in Runs : Active(s)' => s = r
                    /\ pc'[r] = "writingLineage" => LastIn(target', writeOps'[r])
                    /\ (pc'[r] = "saving" /\ run'[r].status # "failure") =>
                          LastIn(target', writeOps'[r]) /\ LastIn(lineage', lineageOps'[r])
  BY DEF AloneFor
<1>1. Untouched(r) /\ Active(r)
  BY OthersUntouched DEF Untouched, Active
<1>2. ASSUME NEW p \in Pipelines, NEW mode \in {"skip", "fail_fast"}, Load(q, p, mode)
      PROVE  FALSE
  <2>1. solo'[r] <=> solo[r] /\ ~Active(r)
    BY <1>2, Zenon DEF Load
  <2>2. QED
    BY <1>1, <2>1
<1>3. /\ solo' = solo /\ (\A s \in Runs : Active(s) => s = r)
      /\ pc[r] = "writingLineage" => LastIn(target, writeOps[r])
      /\ (pc[r] = "saving" /\ run[r].status # "failure") =>
            LastIn(target, writeOps[r]) /\ LastIn(lineage, lineageOps[r])
  BY <1>1, <1>2, SoloStep DEF AloneFor
<1>4. pc'[q] \in {"notFound", "raised"} /\ UNCHANGED <<target, lineage>>
  BY <1>2, <1>3, SoloStep
<1>5. ASSUME NEW s \in Runs, Active(s)' PROVE s = r
  <2>1. s # q
    BY <1>4, <1>5 DEF Active, Suspended
  <2>2. pc'[s] = pc[s]
    BY <2>1, OthersUntouched DEF Untouched
  <2>3. QED
    BY <1>3, <1>5, <2>2 DEF Active
<1>6. QED
  BY <1>1, <1>3, <1>4, <1>5 DEF Untouched, HandUntouched

\* The steps of the run itself.
LEMMA OwnAlone ==
  ASSUME TypeOK, NEW r \in Runs, BooksOf(r), AloneFor(r), StepOf(r)
  PROVE  AloneFor(r)'
<1> SUFFICES ASSUME solo'[r], Active(r)'
             PROVE  /\ \A s \in Runs : Active(s)' => s = r
                    /\ pc'[r] = "writingLineage" => LastIn(target', writeOps'[r])
                    /\ (pc'[r] = "saving" /\ run'[r].status # "failure") =>
                          LastIn(target', writeOps'[r]) /\ LastIn(lineage', lineageOps'[r])
  BY DEF AloneFor
<1>0. r \in DOMAIN pc /\ r \in DOMAIN run /\ run[r] \in Reports
  BY DEF TypeOK
<1>1. ASSUME \A s \in Runs : Active(s) => s = r
      PROVE  \A s \in Runs : Active(s)' => s = r
  <2>1. ASSUME NEW s \in Runs, s # r PROVE pc'[s] = pc[s]
    BY <2>1, OthersUntouched DEF Untouched
  <2>2. QED
    BY <1>1, <2>1 DEF Active
<1>2. ASSUME NEW p \in Pipelines, NEW mode \in {"skip", "fail_fast"}, Load(r, p, mode)
      PROVE  (\A s \in Runs : Active(s) => s = r) /\ pc'[r] \in {"iterating", "invalid"}
  <2>1. solo'[r] <=> \A s \in Runs : ~Active(s)
    BY <1>2, Zenon DEF Load
  <2>2. QED
    BY <1>0, <1>2, <2>1 DEF Load, Goto
<1>3. ASSUME NEW p \in Pipelines, LoadFails(r, p) PROVE FALSE
  BY <1>0, <1>3 DEF LoadFails, Goto, Active, Suspended
<1>4. ASSUME solo' = solo, Active(r)
      PROVE  /\ \A s \in Runs : Active(s) => s = r
             /\ pc[r] = "writingLineage" => LastIn(target, writeOps[r])
             /\ (pc[r] = "saving" /\ run[r].status # "failure") =>
                   LastIn(target, writeOps[r]) /\ LastIn(lineage, lineageOps[r])
  BY <1>4 DEF AloneFor
<1>5. ASSUME NEW s \in SourceIds, Transform(r, s) \/ Drop(r, s) \/ TransformFails(r, s)
      PROVE  /\ \A t \in Runs : Active(t) => t = r
             /\ pc'[r] = "iterating" \/ (pc'[r] = "saving" /\ run'[r].status = "failure")
  <2>1. solo' = solo /\ Active(r)
    BY <1>5 DEF Transform, Drop, TransformFails, Reads, history, Active, Suspended
  <2>2. pc[r] = "iterating"
    BY <1>5 DEF Transform, Drop, TransformFails, Reads
  <2>3. CASE TransformFails(r, s) /\ errorMode[r] = "fail_fast"
    <3>1. run'[r] = [run[r] EXCEPT !.input = run[r].input + 1, !.errors = run[r].errors + 1,
                                  !.status = "failure"]
      BY <1>0, <2>3 DEF TransformFails
    <3>2. run'[r].status = "failure" /\ pc'[r] = "saving"
      BY <1>0, <2>3, <3>1 DEF TransformFails, Goto, Reports
    <3>3. QED
      BY <1>4, <2>1, <3>2
  <2>4. CASE ~(TransformFails(r, s) /\ errorMode[r] = "fail_fast")
    <3>1. pc'[r] = "iterating"
      BY <1>0, <1>5, <2>2, <2>4 DEF Transform, Drop, TransformFails, Goto
    <3>2. QED
      BY <1>4, <2>1, <3>1
  <2>5. QED
    BY <2>3, <2>4
<1>6. CASE CursorEnds(r)
  <2>1. /\ solo' = solo /\ Active(r) /\ writeOps'[r] = writeOps[r] /\ lineageOps'[r] = lineageOps[r]
        /\ pc'[r] = "writingTarget" \/ (pc'[r] = "saving" /\ writeOps[r] = <<>>)
    BY <1>0, <1>6 DEF CursorEnds, Goto, ops, history, Active, Suspended
  <2>2. writeOps[r] = <<>> => DOMAIN writeOps[r] = {} /\ DOMAIN lineageOps[r] = {}
    BY OperationKeys DEF BooksOf
  <2>3. writeOps[r] = <<>> => LastIn(target', writeOps[r]) /\ LastIn(lineage', lineageOps[r])
    BY <2>2 DEF LastIn
  <2>4. QED
    BY <1>1, <1>4, <2>1, <2>3
<1>7. CASE WriteTarget(r)
  <2>1. /\ solo' = solo /\ Active(r) /\ writeOps'[r] = writeOps[r]
        /\ pc'[r] = "writingLineage"
        /\ target' = Upserted(target, writeOps[r], DOMAIN writeOps[r])
    BY <1>0, <1>7 DEF WriteTarget, SetTarget, Goto, ops, Active, Suspended
  <2>2. LastIn(target', writeOps'[r])
    BY <2>1, UpsertedLast DEF TypeOK
  <2>3. QED
    BY <1>1, <1>4, <2>1, <2>2
<1>8. CASE WriteLineage(r)
  <2>1. /\ solo' = solo /\ Active(r) /\ writeOps'[r] = writeOps[r] /\ lineageOps'[r] = lineageOps[r]
        /\ pc[r] = "writingLineage" /\ pc'[r] = "saving" /\ target' = target
        /\ lineage' = Upserted(lineage, lineageOps[r], DOMAIN lineageOps[r])
    BY <1>0, <1>8 DEF WriteLineage, Goto, ops, history, Active, Suspended
  <2>2. LastIn(lineage', lineageOps'[r])
    BY <2>1, UpsertedLast DEF TypeOK
  <2>3. QED
    BY <1>1, <1>4, <2>1, <2>2
<1>9. CASE Retry(r)
  <2>1. /\ solo' = solo /\ Active(r) /\ Untouched(r)
        /\ pc[r] = "writingTarget" \/ (pc[r] = "writingLineage" /\ target' = target)
    BY <1>9, RetryUntouched DEF Retry, PartOfWrite, history, Active, Suspended
  <2>2. QED
    BY <1>1, <1>4, <2>1 DEF Untouched, HandUntouched
<1>10. CASE WriteFails(r)
  <2>1. /\ solo' = solo /\ Active(r) /\ pc'[r] = "saving"
        /\ run'[r] = [run[r] EXCEPT !.status = "failure", !.writeErrors = 1]
    BY <1>0, <1>10 DEF WriteFails, PartOfWrite, Goto, history, Active, Suspended
  <2>2. run'[r].status = "failure"
    BY <1>0, <2>1 DEF Reports
  <2>3. QED
    BY <1>1, <1>4, <2>1, <2>2
<1>11. CASE Save(r) \/ CursorFails(r) \/ SaveFails(r)
  BY <1>0, <1>11 DEF Save, CursorFails, SaveFails, Goto, Active, Suspended
<1>12. QED
  BY <1>1, <1>2, <1>3, <1>5, <1>6, <1>7, <1>8, <1>9, <1>10, <1>11
     DEF StepOf, Progress, Failure

LEMMA InitAlone == Init => Alone
BY DEF Init, Alone, AloneFor, Active, Suspended

LEMMA NextAlone == TypeOK /\ Books /\ Alone /\ [Next]_vars => Alone'
<1> SUFFICES ASSUME TypeOK, Books, Alone, [Next]_vars, NEW r \in Runs PROVE AloneFor(r)'
  BY DEF Alone
<1>0. BooksOf(r) /\ AloneFor(r)
  BY DEF Books, BooksOf, Alone
<1>1. ASSUME NEW q \in Runs, StepOf(q) PROVE AloneFor(r)'
  BY <1>0, <1>1, OthersAlone, OwnAlone
<1>2. CASE Edit
  BY <1>0, <1>2, EditTouchesNone DEF AloneFor, Active
<1>3. CASE Crash
  <2>1. ~Active(r)'
    BY <1>3 DEF TypeOK, Crash, Active, Suspended
  <2>2. QED
    BY <2>1 DEF AloneFor
<1>4. CASE UNCHANGED vars
  BY <1>0, <1>4 DEF AloneFor, Active, vars, ops, store, history
<1>5. QED
  BY <1>1, <1>2, <1>3, <1>4, NextSteps

\* What a run that was alone leaves: of each of its keys the last document, and of each of
\* their ids the last lineage.
LEMMA LeftBy ==
  ASSUME TypeOK, NEW r \in Runs, PairedBy(r), NEW j \in DOMAIN writeOps[r],
         LastIn(target, writeOps[r]), LastIn(lineage, lineageOps[r])
  PROVE  LET k == writeOps[r][j].key IN
         /\ target[k].run = r
         /\ lineage[LineageId[k]].run = r
         /\ (\A i \in DOMAIN writeOps[r] :
                LineageId[writeOps[r][i].key] = LineageId[k] => writeOps[r][i].key = k)
            => lineage[LineageId[k]] = target[k]
<1> DEFINE n == Len(writeOps[r])
           k == writeOps[r][j].key
           M == {i \in 1..n : writeOps[r][i].key = k}
           L == {i \in 1..n : LineageId[writeOps[r][i].key] = LineageId[k]}
<1>1. n \in Nat /\ DOMAIN writeOps[r] = 1..n /\ DOMAIN lineageOps[r] = 1..n
  BY OperationKeys
<1>2. \A i \in 1..n : /\ lineageOps[r][i].key = LineageId[writeOps[r][i].key]
                      /\ lineageOps[r][i].payload = writeOps[r][i].payload
                      /\ writeOps[r][i].payload.run = r
  BY <1>1 DEF PairedBy
<1>3. j \in M /\ j \in L
  BY <1>1
<1> HIDE DEF n
<1>4. PICK m \in M : \A i \in M : i <= m
  BY <1>1, <1>3, LastPosition
<1>5. PICK l \in L : \A i \in L : i <= l
  BY <1>1, <1>3, LastPosition
<1>6. target[k] = writeOps[r][m].payload
  BY <1>1, <1>4 DEF LastIn
<1>7. lineage[LineageId[k]] = writeOps[r][l].payload
  <2>1. \A i \in 1..n : lineageOps[r][i].key = lineageOps[r][l].key => i \in L
    BY <1>2, <1>5
  <2>2. lineage[lineageOps[r][l].key] = lineageOps[r][l].payload
    BY <1>1, <1>5, <2>1 DEF LastIn
  <2>3. QED
    BY <1>2, <1>5, <2>2
<1>8. ASSUME \A i \in 1..n : LineageId[writeOps[r][i].key] = LineageId[k] => writeOps[r][i].key = k
      PROVE  l = m
  <2>1. l \in M /\ m \in L
    BY <1>4, <1>5, <1>8
  <2>2. l <= m /\ m <= l /\ l \in Nat /\ m \in Nat
    BY <1>1, <1>4, <1>5, <2>1
  <2>3. QED
    BY <2>2
<1>9. QED
  BY <1>1, <1>2, <1>4, <1>5, <1>6, <1>7, <1>8

\* Spec => SoloRunExplains: of all that a run wrote which nothing overlapped, and which does
\* not report failure, the target and the lineage hold its own documents as it is saved, and
\* they agree, but where two of its own identities join to one id.
THEOREM SoloRunsExplain == Spec => SoloRunExplains
<1> DEFINE Explains(r) ==
     runs[r] = None /\ runs'[r] # None /\ solo[r] /\ run[r].status # "failure" =>
       \A j \in DOMAIN writeOps[r] :
          LET k == writeOps[r][j].key IN
          /\ target[k].run = r
          /\ lineage[LineageId[k]].run = r
          /\ (\A i \in DOMAIN writeOps[r] :
                 LineageId[writeOps[r][i].key] = LineageId[k] => writeOps[r][i].key = k)
             => lineage[LineageId[k]] = target[k]
<1>1. TypeOK /\ Books /\ Alone /\ [Next]_vars => [\A r \in Runs : Explains(r)]_vars
  <2> SUFFICES ASSUME TypeOK, Books, Alone, Next, NEW r \in Runs,
                      runs[r] = None, runs'[r] # None, solo[r], run[r].status # "failure"
               PROVE  Explains(r)
    OBVIOUS
  <2>1. Save(r)
    <3>1. StepOf(r)
      BY NextSteps, OthersUntouched, EditTouchesNone DEF Untouched, Crash
    <3>2. QED
      BY <3>1 DEF StepOf, Progress, Failure, LoadFails, Load, Transform, Drop, TransformFails,
         Reads, CursorEnds, WriteTarget, WriteLineage, CursorFails, Retry, WriteFails, SaveFails
  <2>2. pc[r] = "saving" /\ Active(r)
    BY <2>1 DEF Save, Active, Suspended
  <2>3. PairedBy(r) /\ LastIn(target, writeOps[r]) /\ LastIn(lineage, lineageOps[r])
    BY <2>2 DEF Books, Alone, AloneFor
  <2>4. QED
    BY <2>3, LeftBy
<1>2. TypeOK /\ Books /\ Alone /\ [Next]_vars => TypeOK' /\ Books' /\ Alone'
  BY NextType, NextBooks, NextAlone
<1>3. Init => TypeOK /\ Books /\ Alone
  BY InitType, InitBooks, InitAlone
<1> HIDE DEF Explains
<1>4. Spec => [][\A r \in Runs : Explains(r)]_vars
  BY <1>1, <1>2, <1>3, PTL DEF Spec
<1>5. QED
  BY <1>4 DEF SoloRunExplains, Explains
=============================================================================
