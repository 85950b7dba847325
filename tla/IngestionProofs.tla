-------------------------- MODULE IngestionProofs --------------------------
(* Theorems about Ingestion, for every number of runs, keys, entities,      *)
(* collections and payloads, every batch size and every length of feed:     *)
(* types, provenance and the contract first; then what a run holds, what of *)
(* it can be lost, what its row says, and what a run of its own leaves.     *)
EXTENDS Ingestion, DataProofs

-----------------------------------------------------------------------------
(* The bulk write of the raw and of the unified collections. *)

\* What the elements of a buffer are.
LEMMA SequenceType ==
  ASSUME NEW recs \in Seq(Records)
  PROVE  /\ Len(recs) \in Nat
         /\ DOMAIN recs = 1..Len(recs)
         /\ \A i \in DOMAIN recs : /\ recs[i] \in Records
                                   /\ recs[i].key \in Keys
                                   /\ recs[i].payload \in Payloads
<1>1. Len(recs) \in Nat /\ DOMAIN recs = 1..Len(recs)
  BY LenProperties
<1>2. ASSUME NEW i \in DOMAIN recs PROVE recs[i] \in Records
  BY <1>1, ElementOfSeq
<1>3. QED
  BY <1>1, <1>2 DEF Records

\* After a bulk write a document is what it was, or one of the applied operations on its
\* key: UpsertedValue for records.
LEMMA UpsertedDocument ==
  ASSUME NEW coll \in [Keys -> Documents], NEW ops \in Seq(Records),
         NEW done \in SUBSET DOMAIN ops, NEW k \in Keys
  PROVE  \/ Upserted(coll, ops, done)[k] = coll[k]
         \/ \E i \in done : ops[i].key = k /\ Upserted(coll, ops, done)[k] = ops[i].payload
<1>1. k \in DOMAIN coll
  OBVIOUS
<1>2. QED
  BY <1>1, UpsertedValue

\* A bulk write of records leaves a collection of documents.
LEMMA UpsertedType ==
  ASSUME NEW coll \in [Keys -> Documents], NEW ops \in Seq(Records),
         NEW done \in SUBSET DOMAIN ops
  PROVE  Upserted(coll, ops, done) \in [Keys -> Documents]
<1>1. ASSUME NEW k \in Keys PROVE Upserted(coll, ops, done)[k] \in Documents
  <2>1. ASSUME NEW i \in done PROVE ops[i].payload \in Documents
    BY SequenceType DEF Documents
  <2>2. coll[k] \in Documents
    OBVIOUS
  <2>3. QED
    BY <2>1, <2>2, UpsertedDocument
<1>2. QED
  BY <1>1 DEF Upserted

-----------------------------------------------------------------------------
(* Type correctness. *)

\* A function over an initial segment of the numbers is a sequence.
LEMMA FunctionIsSeq ==
  ASSUME NEW S, NEW n \in Nat, NEW f \in [1..n -> S]
  PROVE  f \in Seq(S)
OBVIOUS

\* The initial state has its types.
LEMMA InitType == Init => TypeOK
BY ConstantsAssumption
DEF Init, TypeOK, Suspended, Ended, Rows, Errors, Documents

\* The bulk write of the raw collection keeps the types, in part or in whole.
LEMMA IngestType ==
  ASSUME TypeOK, NEW ops \in Seq(Records), NEW done \in SUBSET DOMAIN ops,
         Ingest(ops, done)
  PROVE  /\ raw' \in [Keys -> Documents]
         /\ ingested' \in [Keys -> SUBSET Payloads]
<1>1. raw' \in [Keys -> Documents]
  BY UpsertedType DEF TypeOK, Ingest
<1>2. ASSUME NEW k \in Keys
      PROVE  ingested[k] \cup {ops[i].payload : i \in On(ops, k) \cap done} \in SUBSET Payloads
  BY SequenceType DEF TypeOK, On
<1>3. QED
  BY <1>1, <1>2 DEF Ingest

\* So does that of a unified collection.
LEMMA UnifiedType ==
  ASSUME TypeOK, NEW write \in Writes, NEW done \in SUBSET DOMAIN write.records,
         Unified(write, done)
  PROVE  unified' \in [Collections -> [Keys -> Documents]]
<1>1. /\ write.collection \in Collections
      /\ write.records \in Seq(Records)
  BY DEF Writes
<1>2. unified[write.collection] \in [Keys -> Documents]
  BY <1>1 DEF TypeOK
<1>3. Upserted(unified[write.collection], write.records, done) \in [Keys -> Documents]
  BY <1>1, <1>2, UpsertedType
<1>4. QED
  BY <1>1, <1>3 DEF TypeOK, Unified

\* Every step keeps the types.
LEMMA NextType == TypeOK /\ [Next]_vars => TypeOK'
<1> SUFFICES ASSUME TypeOK, [Next]_vars PROVE TypeOK'
  OBVIOUS
<1> USE DEF TypeOK
<1>1. ASSUME NEW r \in Runs, Start(r) PROVE TypeOK'
  BY <1>1 DEF Start, Goto, Suspended, Rows, batch, event, store
<1>2. ASSUME NEW r \in Runs, StartFails(r) PROVE TypeOK'
  BY <1>2 DEF StartFails, Goto, Ended, batch, event, store, history
<1>3. ASSUME NEW r \in Runs, NEW rec \in Records, Fetch(r, rec) PROVE TypeOK'
  <2>1. /\ Append(buffer[r], rec) \in Seq(Records)
        /\ Append(fetched[r], rec) \in Seq(Records)
    BY AppendProperties
  <2>2. EntityOf[rec.key] \in Entities
    BY ConstantsAssumption DEF Records
  <2>3. Append(recordsByEntity[r][EntityOf[rec.key]], rec) \in Seq(Records)
    BY <2>2, AppendProperties
  <2>4. recordsByEntity' \in [Runs -> [Entities -> Seq(Records)]]
    BY <1>3, <2>3 DEF Fetch
  <2>5. QED
    BY <1>3, <2>1, <2>4 DEF Fetch, Goto, Suspended, event, store
<1>4. ASSUME NEW r \in Runs, FeedEnds(r) PROVE TypeOK'
  BY <1>4 DEF FeedEnds, Goto, Suspended, batch, event, store, history
<1>5. ASSUME NEW r \in Runs, FetchFails(r) PROVE TypeOK'
  BY <1>5 DEF FetchFails, Fail, Goto, Suspended, Errors, batch, event, store, history
<1>6. ASSUME NEW r \in Runs, Store(r) PROVE TypeOK'
  <2>1. buffer[r] \in Seq(Records)
    OBVIOUS
  <2>2. Written(buffer[r]) \in Nat
    BY <2>1, SequenceType, WrittenType
  <2>3. /\ raw' \in [Keys -> Documents]
        /\ ingested' \in [Keys -> SUBSET Payloads]
    BY <1>6, <2>1, IngestType DEF Store
  <2>4. QED
    BY <1>6, <2>2, <2>3 DEF Store, Goto, Suspended, batch
<1>7. ASSUME NEW r \in Runs, StoreFails(r) PROVE TypeOK'
  <2>1. buffer[r] \in Seq(Records)
    OBVIOUS
  <2>2. /\ raw' \in [Keys -> Documents]
        /\ ingested' \in [Keys -> SUBSET Payloads]
    BY <1>7, <2>1, IngestType DEF StoreFails
  <2>3. QED
    BY <1>7, <2>2 DEF StoreFails, Fail, Goto, Suspended, Errors, batch, event
<1>8. ASSUME NEW r \in Runs, NEW e \in Entities, Publish(r, e) PROVE TypeOK'
  <2>1. Targets[e] \in Seq(Collections)
    BY ConstantsAssumption
  <2> DEFINE W == [i \in DOMAIN Targets[e] |->
                     [collection |-> Targets[e][i], records |-> recordsByEntity[r][e]]]
  <2>2. ASSUME NEW i \in 1..Len(Targets[e])
        PROVE  [collection |-> Targets[e][i], records |-> recordsByEntity[r][e]] \in Writes
    BY <2>1, ElementOfSeq DEF Writes
  <2>3. W \in Seq(Writes)
    <3>1. Len(Targets[e]) \in Nat /\ DOMAIN Targets[e] = 1..Len(Targets[e])
      BY <2>1, LenProperties
    <3>2. W \in [1..Len(Targets[e]) -> Writes]
      BY <2>2, <3>1
    <3> HIDE DEF W
    <3>3. QED
      BY <3>1, <3>2, FunctionIsSeq
  <2>4. <<>> \in Seq(Writes)
    BY EmptySeq
  <2>5. byCollection' \in [Runs -> Seq(Writes)]
    BY <1>8, <2>3, <2>4 DEF Publish
  <2>6. pc' \in [Runs -> {"idle"} \cup Suspended \cup Ended]
    BY <1>8 DEF Publish, Goto, Suspended
  <2>7. QED
    BY <1>8, <2>5, <2>6 DEF Publish, batch, store, history
<1>9. ASSUME NEW r \in Runs, NEW e \in Entities, PublishFails(r, e) PROVE TypeOK'
  BY <1>9 DEF PublishFails, Fail, Goto, Suspended, Errors, batch, event, store, history
<1>10. ASSUME NEW r \in Runs, Unify(r) PROVE TypeOK'
  <2>1. Head(byCollection[r]) \in Writes /\ Tail(byCollection[r]) \in Seq(Writes)
    BY <1>10, HeadTailProperties DEF Unify
  <2>2. unified' \in [Collections -> [Keys -> Documents]]
    BY <1>10, <2>1, UnifiedType DEF Unify, Mappable
  <2>3. QED
    BY <1>10, <2>1, <2>2 DEF Unify, Goto, Suspended, batch, history
<1>11. ASSUME NEW r \in Runs, UnifyFails(r) PROVE TypeOK'
  <2>1. Head(byCollection[r]) \in Writes
    BY <1>11, HeadTailProperties DEF UnifyFails
  <2>2. unified' \in [Collections -> [Keys -> Documents]]
    BY <1>11, <2>1, UnifiedType DEF UnifyFails, Mappable
  <2>3. QED
    BY <1>11, <2>2 DEF UnifyFails, Fail, Goto, Suspended, Errors, batch, event, history
<1>12. ASSUME NEW r \in Runs, FlushEnds(r) PROVE TypeOK'
  <2>1. <<>> \in Seq(Records)
    BY EmptySeq
  <2>2. QED
    BY <1>12, <2>1 DEF FlushEnds, Goto, Suspended, event, store, history
<1>13. ASSUME NEW r \in Runs, Finish(r) PROVE TypeOK'
  BY <1>13 DEF Finish, Goto, Suspended, Ended, Rows, batch, event, store, history
<1>14. ASSUME NEW r \in Runs, FinishFails(r) PROVE TypeOK'
  BY <1>14 DEF FinishFails, Goto, Suspended, Ended, batch, event, store, history
<1>15. CASE Crash
  BY <1>15 DEF Crash, Ended, batch, event, store, history
<1>16. ASSUME NEW k \in Keys, NEW p \in Payloads, Edit(k, p) PROVE TypeOK'
  BY <1>16 DEF Edit, Documents, batch, event
<1>17. CASE UNCHANGED vars
  BY <1>17 DEF vars, batch, event, store, history
<1>18. QED
  BY <1>1, <1>2, <1>3, <1>4, <1>5, <1>6, <1>7, <1>8, <1>9, <1>10, <1>11, <1>12,
     <1>13, <1>14, <1>15, <1>16, <1>17 DEF Next, Progress, Failure

\* Every variable keeps its type, for every value of the constants.
THEOREM TypeCorrect == Spec => []TypeOK
<1>1. QED
  BY InitType, NextType, PTL DEF Spec

-----------------------------------------------------------------------------
(* Provenance of the unified documents. *)

Provenance ==
  GroupsRepeatBuffer /\ StoredBeforePublished /\ PendingWasStored /\ UnifiedFromIngested

\* The steps that write nothing the invariant reads and start no flush.
LEMMA QuietStep ==
  ASSUME Provenance, UNCHANGED <<buffer, recordsByEntity, byCollection, unified, ingested>>,
         \A q \in Runs : pc'[q] \in {"publishing", "unifying"} => pc'[q] = pc[q]
  PROVE  Provenance'
BY DEF Provenance, GroupsRepeatBuffer, StoredBeforePublished, PendingWasStored,
       UnifiedFromIngested

\* A batch, or part of it, is stored: what was stored before still is.
LEMMA IngestGrows ==
  ASSUME TypeOK, NEW ops \in Seq(Records), NEW done \in SUBSET DOMAIN ops,
         Ingest(ops, done)
  PROVE  /\ \A k \in Keys : ingested[k] \subseteq ingested'[k]
         /\ \A i \in done : ops[i].payload \in ingested'[ops[i].key]
<1>1. \A k \in Keys : ingested[k] \subseteq ingested'[k]
  BY DEF Ingest
<1>2. ASSUME NEW i \in done PROVE ops[i].payload \in ingested'[ops[i].key]
  <2>1. ops[i].key \in Keys /\ i \in On(ops, ops[i].key) \cap done
    BY SequenceType DEF On
  <2>2. QED
    BY <2>1 DEF Ingest
<1>3. QED
  BY <1>1, <1>2

\* The steps that only make ingested grow keep what they leave alone.
LEMMA GrowingStep ==
  ASSUME TypeOK, Provenance,
         UNCHANGED <<buffer, recordsByEntity, byCollection, unified>>,
         \A k \in Keys : ingested[k] \subseteq ingested'[k],
         \A q \in Runs : pc'[q] = "unifying" => pc[q] = "unifying"
  PROVE  GroupsRepeatBuffer' /\ PendingWasStored' /\ UnifiedFromIngested'
<1>1. GroupsRepeatBuffer'
  BY DEF Provenance, GroupsRepeatBuffer
<1>2. PendingWasStored'
  <2> SUFFICES ASSUME NEW q \in Runs, pc'[q] = "unifying",
                      NEW w \in DOMAIN byCollection[q],
                      NEW i \in DOMAIN byCollection[q][w].records
               PROVE  LET rec == byCollection[q][w].records[i] IN
                      /\ rec.payload \in ingested'[rec.key]
                      /\ byCollection[q][w].collection \in TargetsOf(rec.key)
    BY DEF Provenance, PendingWasStored
  <2>1. byCollection[q] \in Seq(Writes)
    BY DEF TypeOK
  <2>2. byCollection[q][w] \in Writes
    BY <2>1, LenProperties, ElementOfSeq
  <2>3. byCollection[q][w].records \in Seq(Records)
    BY <2>2 DEF Writes
  <2>4. byCollection[q][w].records[i].key \in Keys
    BY <2>3, SequenceType
  <2>5. QED
    BY <2>4 DEF Provenance, PendingWasStored
<1>3. UnifiedFromIngested'
  BY DEF Provenance, UnifiedFromIngested
<1>4. QED
  BY <1>1, <1>2, <1>3

\* A write of mappable records that were stored keeps the projection sound.
LEMMA UnifyKeepsProvenance ==
  ASSUME TypeOK, UnifiedFromIngested, UNCHANGED ingested,
         NEW write \in Writes, NEW done \in SUBSET Mappable(write.records),
         Unified(write, done),
         \A i \in DOMAIN write.records :
            /\ write.records[i].payload \in ingested[write.records[i].key]
            /\ write.collection \in TargetsOf(write.records[i].key)
  PROVE  UnifiedFromIngested'
<1> SUFFICES ASSUME NEW c \in Collections, NEW k \in Keys, unified'[c][k] # Missing
             PROVE  /\ unified'[c][k] \in ingested[k] \ (Odd \cup Unparseable)
                    /\ c \in TargetsOf(k)
  BY DEF UnifiedFromIngested
<1>1. /\ write.collection \in Collections
      /\ write.records \in Seq(Records)
      /\ done \subseteq DOMAIN write.records
  BY DEF Writes, Mappable
<1>2. CASE c # write.collection
  <2>1. unified'[c] = unified[c]
    BY <1>1, <1>2 DEF Unified, TypeOK
  <2>2. QED
    BY <2>1 DEF UnifiedFromIngested
<1>3. CASE c = write.collection
  <2>1. unified'[c] = Upserted(unified[c], write.records, done)
    BY <1>1, <1>3 DEF Unified, TypeOK
  <2>2. unified[c] \in [Keys -> Documents]
    BY DEF TypeOK
  <2>3. \/ unified'[c][k] = unified[c][k]
        \/ \E i \in done : /\ write.records[i].key = k
                           /\ unified'[c][k] = write.records[i].payload
    <3>1. LET after == Upserted(unified[c], write.records, done) IN
          \/ after[k] = unified[c][k]
          \/ \E i \in done : write.records[i].key = k /\ after[k] = write.records[i].payload
      <4>1. done \in SUBSET DOMAIN write.records
        BY <1>1
      <4>2. QED
        BY <1>1, <2>2, <4>1, UpsertedDocument
    <3>2. QED
      BY <2>1, <3>1
  <2>4. CASE unified'[c][k] = unified[c][k]
    BY <2>4 DEF UnifiedFromIngested
  <2>5. ASSUME NEW i \in done, write.records[i].key = k,
               unified'[c][k] = write.records[i].payload
        PROVE  /\ unified'[c][k] \in ingested[k] \ (Odd \cup Unparseable)
               /\ c \in TargetsOf(k)
    BY <1>1, <1>3, <2>5 DEF Mappable
  <2>6. QED
    BY <2>3, <2>4, <2>5
<1>4. QED
  BY <1>2, <1>3

\* The initial state has no document, and so none without provenance.
LEMMA InitProvenance == Init => Provenance
BY DEF Init, Provenance, GroupsRepeatBuffer, StoredBeforePublished,
       PendingWasStored, UnifiedFromIngested

\* Every step keeps the provenance: what is published was stored before.
LEMMA NextProvenance == TypeOK /\ Provenance /\ [Next]_vars => Provenance'
<1> SUFFICES ASSUME TypeOK, Provenance, [Next]_vars PROVE Provenance'
  OBVIOUS
<1>1. ASSUME NEW r \in Runs,
             Start(r) \/ StartFails(r) \/ FeedEnds(r) \/ FetchFails(r)
               \/ Finish(r) \/ FinishFails(r)
      PROVE  Provenance'
  BY <1>1, QuietStep DEF TypeOK, Start, StartFails, FeedEnds, FetchFails, Finish,
     FinishFails, Fail, Goto, batch, event, store, history
<1>2. ASSUME NEW r \in Runs, NEW rec \in Records, Fetch(r, rec) PROVE Provenance'
  <2>1. /\ UNCHANGED <<byCollection, unified, ingested>>
        /\ \A q \in Runs : pc'[q] \in {"publishing", "unifying"} => q # r /\ pc'[q] = pc[q]
        /\ \A q \in Runs \ {r} : /\ buffer'[q] = buffer[q]
                                 /\ recordsByEntity'[q] = recordsByEntity[q]
    BY <1>2 DEF TypeOK, Fetch, Goto, event, store
  <2>2. StoredBeforePublished' /\ PendingWasStored' /\ UnifiedFromIngested'
    BY <2>1 DEF Provenance, StoredBeforePublished, PendingWasStored, UnifiedFromIngested
  <2>3. GroupsRepeatBuffer'
    <3> SUFFICES ASSUME NEW q \in Runs, NEW e \in Entities,
                        NEW i \in DOMAIN recordsByEntity'[q][e]
                 PROVE  /\ EntityOf[recordsByEntity'[q][e][i].key] = e
                        /\ \E j \in DOMAIN buffer'[q] :
                              buffer'[q][j] = recordsByEntity'[q][e][i]
      BY DEF GroupsRepeatBuffer
    <3> DEFINE old == recordsByEntity[r][e]
               b == buffer[r]
    <3>1. CASE q # r
      BY <2>1, <3>1 DEF Provenance, GroupsRepeatBuffer
    <3>2. old \in Seq(Records) /\ b \in Seq(Records)
      BY DEF TypeOK
    <3>3. /\ buffer'[r] = Append(b, rec)
          /\ recordsByEntity'[r][e] = IF e = EntityOf[rec.key] THEN Append(old, rec) ELSE old
      BY <1>2 DEF Fetch, TypeOK
    <3>4. /\ DOMAIN buffer'[r] = 1..Len(b)+1 /\ Len(b) \in Nat
          /\ buffer'[r][Len(b)+1] = rec
          /\ \A j \in DOMAIN b : j \in DOMAIN buffer'[r] /\ buffer'[r][j] = b[j]
      BY <3>2, <3>3, AppendProperties, LenProperties
    <3>5. CASE q = r /\ i \in DOMAIN old /\ recordsByEntity'[q][e][i] = old[i]
      BY <3>4, <3>5 DEF Provenance, GroupsRepeatBuffer
    <3>6. CASE q = r /\ recordsByEntity'[q][e][i] = rec /\ e = EntityOf[rec.key]
      BY <3>4, <3>6
    <3>7. CASE q = r /\ e # EntityOf[rec.key]
      BY <3>3, <3>5, <3>7
    <3>8. CASE q = r /\ e = EntityOf[rec.key]
      <4>1. /\ DOMAIN Append(old, rec) = 1..Len(old)+1 /\ Len(old) \in Nat
            /\ DOMAIN old = 1..Len(old)
            /\ Append(old, rec)[Len(old)+1] = rec
            /\ \A j \in 1..Len(old) : Append(old, rec)[j] = old[j]
        BY <3>2, AppendProperties, LenProperties
      <4>2. i = Len(old)+1 \/ i \in 1..Len(old)
        <5>1. i \in 1..Len(old)+1
          BY <3>3, <3>8, <4>1
        <5> HIDE DEF old
        <5>2. QED
          BY <4>1, <5>1
      <4>3. QED
        BY <3>3, <3>5, <3>6, <3>8, <4>1, <4>2
    <3>9. QED
      BY <3>1, <3>7, <3>8
  <2>4. QED
    BY <2>2, <2>3 DEF Provenance
<1>3. ASSUME NEW r \in Runs, Store(r) PROVE Provenance'
  <2>1. buffer[r] \in Seq(Records)
    BY DEF TypeOK
  <2>2. /\ \A k \in Keys : ingested[k] \subseteq ingested'[k]
        /\ \A i \in DOMAIN buffer[r] : buffer[r][i].payload \in ingested'[buffer[r][i].key]
    BY <1>3, <2>1, IngestGrows DEF Store
  <2>3. GroupsRepeatBuffer' /\ PendingWasStored' /\ UnifiedFromIngested'
    BY <1>3, <2>2, GrowingStep DEF TypeOK, Store, Goto, batch
  <2>4. StoredBeforePublished'
    <3> SUFFICES ASSUME NEW q \in Runs, pc'[q] \in {"publishing", "unifying"},
                        NEW j \in DOMAIN buffer[q]
                 PROVE  buffer[q][j].payload \in ingested'[buffer[q][j].key]
      BY <1>3 DEF Store, batch, StoredBeforePublished
    <3>1. CASE q = r
      BY <2>2, <3>1
    <3>2. CASE q # r
      <4>1. buffer[q] \in Seq(Records)
        BY DEF TypeOK
      <4>2. buffer[q][j].key \in Keys
        BY <4>1, SequenceType
      <4>3. pc[q] \in {"publishing", "unifying"}
        BY <1>3, <3>2 DEF TypeOK, Store, Goto
      <4>4. QED
        BY <2>2, <4>2, <4>3 DEF Provenance, StoredBeforePublished
    <3>3. QED
      BY <3>1, <3>2
  <2>5. QED
    BY <2>3, <2>4 DEF Provenance
<1>4. ASSUME NEW r \in Runs, StoreFails(r) PROVE Provenance'
  <2>1. buffer[r] \in Seq(Records)
    BY DEF TypeOK
  <2>2. \A k \in Keys : ingested[k] \subseteq ingested'[k]
    BY <1>4, <2>1, IngestGrows DEF StoreFails
  <2>3. /\ UNCHANGED <<buffer, recordsByEntity, byCollection, unified>>
        /\ \A q \in Runs : pc'[q] \in {"publishing", "unifying"} => pc'[q] = pc[q]
    BY <1>4 DEF TypeOK, StoreFails, Fail, Goto, batch, event
  <2>4. GroupsRepeatBuffer' /\ PendingWasStored' /\ UnifiedFromIngested'
    BY <2>2, <2>3, GrowingStep
  <2>5. StoredBeforePublished'
    <3> SUFFICES ASSUME NEW q \in Runs, pc'[q] \in {"publishing", "unifying"},
                        NEW j \in DOMAIN buffer[q]
                 PROVE  buffer[q][j].payload \in ingested'[buffer[q][j].key]
      BY <2>3 DEF StoredBeforePublished
    <3>1. buffer[q] \in Seq(Records)
      BY DEF TypeOK
    <3>2. buffer[q][j].key \in Keys
      BY <3>1, SequenceType
    <3>3. QED
      BY <2>2, <2>3, <3>2 DEF Provenance, StoredBeforePublished
  <2>6. QED
    BY <2>4, <2>5 DEF Provenance
<1>5. ASSUME NEW r \in Runs, NEW e \in Entities, Publish(r, e) PROVE Provenance'
  <2>1. /\ UNCHANGED <<buffer, recordsByEntity, unified, ingested>>
        /\ pc[r] = "publishing"
        /\ \A q \in Runs \ {r} : pc'[q] = pc[q] /\ byCollection'[q] = byCollection[q]
    BY <1>5 DEF TypeOK, Publish, Goto, batch, store, history
  <2>2. GroupsRepeatBuffer' /\ StoredBeforePublished' /\ UnifiedFromIngested'
    BY <2>1 DEF Provenance, GroupsRepeatBuffer, StoredBeforePublished, UnifiedFromIngested
  <2>3. PendingWasStored'
    <3> SUFFICES ASSUME NEW q \in Runs, pc'[q] = "unifying"
                 PROVE  /\ byCollection'[q] # <<>>
                        /\ \A w \in DOMAIN byCollection'[q] :
                             \A i \in DOMAIN byCollection'[q][w].records :
                               LET rec == byCollection'[q][w].records[i] IN
                               /\ rec.payload \in ingested[rec.key]
                               /\ byCollection'[q][w].collection \in TargetsOf(rec.key)
      BY <2>1 DEF PendingWasStored
    <3>1. CASE q # r
      BY <2>1, <3>1 DEF Provenance, PendingWasStored
    <3> DEFINE recs == recordsByEntity[r][e]
               writes == IF Mappable(recs) = {} THEN <<>>
                         ELSE [i \in DOMAIN Targets[e] |->
                                 [collection |-> Targets[e][i], records |-> recs]]
    <3>2. CASE q = r
      <4>1. byCollection'[r] = writes /\ writes # <<>>
        BY <1>5, <3>2 DEF Publish, Goto, TypeOK
      <4>2. ASSUME NEW w \in DOMAIN writes
            PROVE  w \in DOMAIN Targets[e] /\ writes[w] = [collection |-> Targets[e][w], records |-> recs]
        BY <4>1
      <4>3. ASSUME NEW i \in DOMAIN recs
            PROVE  recs[i].payload \in ingested[recs[i].key] /\ EntityOf[recs[i].key] = e
        BY <2>1 DEF Provenance, GroupsRepeatBuffer, StoredBeforePublished
      <4>4. ASSUME NEW w \in DOMAIN writes, NEW i \in DOMAIN writes[w].records
            PROVE  LET rec == writes[w].records[i] IN
                   /\ rec.payload \in ingested[rec.key]
                   /\ writes[w].collection \in TargetsOf(rec.key)
        <5>1. writes[w].records = recs /\ writes[w].collection = Targets[e][w]
          BY <4>2
        <5>2. i \in DOMAIN recs /\ w \in DOMAIN Targets[e]
          BY <4>2, <5>1
        <5> HIDE DEF writes, recs
        <5>3. QED
          BY <4>3, <5>1, <5>2 DEF TargetsOf
      <4> HIDE DEF writes
      <4>5. QED
        BY <3>2, <4>1, <4>4
    <3>3. QED
      BY <3>1, <3>2
  <2>4. QED
    BY <2>2, <2>3 DEF Provenance
<1>6. ASSUME NEW r \in Runs, NEW e \in Entities, PublishFails(r, e) PROVE Provenance'
  BY <1>6, QuietStep DEF TypeOK, PublishFails, Fail, Goto, batch, event, store, history
<1>7. ASSUME NEW r \in Runs, Unify(r) \/ UnifyFails(r) PROVE Provenance'
  <2> DEFINE write == Head(byCollection[r])
  <2>1. /\ byCollection[r] \in Seq(Writes) /\ byCollection[r] # <<>> /\ pc[r] = "unifying"
        /\ 1 \in DOMAIN byCollection[r] /\ write = byCollection[r][1]
        /\ write \in Writes
    BY <1>7, HeadTailProperties, LenProperties DEF TypeOK, Unify, UnifyFails
  <2>2. PICK done \in SUBSET Mappable(write.records) : Unified(write, done)
    BY <1>7 DEF Unify, UnifyFails
  <2>3. /\ UNCHANGED <<buffer, recordsByEntity, ingested>>
        /\ \A q \in Runs \ {r} : pc'[q] = pc[q] /\ byCollection'[q] = byCollection[q]
        /\ pc'[r] \in {"publishing", "unifying", "failing"}
    BY <1>7 DEF Unify, UnifyFails, Fail, Goto, TypeOK, batch, history, event
  <2>4. \A i \in DOMAIN write.records :
            /\ write.records[i].payload \in ingested[write.records[i].key]
            /\ write.collection \in TargetsOf(write.records[i].key)
    BY <2>1 DEF Provenance, PendingWasStored
  <2>5. UnifiedFromIngested'
    <3> HIDE DEF write
    <3>1. QED
      BY <2>1, <2>2, <2>3, <2>4, UnifyKeepsProvenance DEF Provenance
  <2>6. GroupsRepeatBuffer' /\ StoredBeforePublished'
    BY <2>1, <2>3 DEF Provenance, GroupsRepeatBuffer, StoredBeforePublished
  <2>7. PendingWasStored'
    <3> SUFFICES ASSUME pc'[r] = "unifying"
                 PROVE  /\ byCollection'[r] # <<>>
                        /\ \A w \in DOMAIN byCollection'[r] :
                             \A i \in DOMAIN byCollection'[r][w].records :
                               LET rec == byCollection'[r][w].records[i] IN
                               /\ rec.payload \in ingested[rec.key]
                               /\ byCollection'[r][w].collection \in TargetsOf(rec.key)
      BY <2>3 DEF Provenance, PendingWasStored
    <3>1. /\ byCollection'[r] = Tail(byCollection[r])
          /\ Len(byCollection[r]) # 1
      BY <1>7 DEF Unify, UnifyFails, Fail, Goto, TypeOK
    <3>2. /\ Len(byCollection[r]) \in Nat /\ Len(byCollection[r]) # 0
          /\ DOMAIN byCollection[r] = 1..Len(byCollection[r])
          /\ Tail(byCollection[r]) \in Seq(Writes)
          /\ Len(Tail(byCollection[r])) = Len(byCollection[r]) - 1
          /\ DOMAIN Tail(byCollection[r]) = 1..Len(byCollection[r]) - 1
          /\ \A i \in 1..Len(Tail(byCollection[r])) :
                Tail(byCollection[r])[i] = byCollection[r][i+1]
      BY <2>1, HeadTailProperties, LenProperties, EmptySeq
    <3>3. Tail(byCollection[r]) # <<>>
      <4>1. Len(Tail(byCollection[r])) # 0
        BY <3>1, <3>2
      <4>2. QED
        BY <4>1, EmptySeq
    <3>4. ASSUME NEW w \in DOMAIN Tail(byCollection[r])
          PROVE  /\ w + 1 \in DOMAIN byCollection[r]
                 /\ Tail(byCollection[r])[w] = byCollection[r][w+1]
      BY <3>2
    <3>5. QED
      BY <2>1, <3>1, <3>3, <3>4 DEF Provenance, PendingWasStored
  <2>8. QED
    BY <2>5, <2>6, <2>7 DEF Provenance
<1>8. ASSUME NEW r \in Runs, FlushEnds(r) PROVE Provenance'
  <2>1. /\ UNCHANGED <<byCollection, unified, ingested>>
        /\ pc'[r] \in {"reading", "succeeding"}
        /\ recordsByEntity'[r] = [e \in Entities |-> <<>>]
        /\ \A q \in Runs \ {r} : /\ pc'[q] = pc[q]
                                 /\ buffer'[q] = buffer[q]
                                 /\ recordsByEntity'[q] = recordsByEntity[q]
    BY <1>8 DEF TypeOK, FlushEnds, Goto, event, store, history
  <2>2. StoredBeforePublished' /\ PendingWasStored' /\ UnifiedFromIngested'
    BY <2>1 DEF Provenance, StoredBeforePublished, PendingWasStored, UnifiedFromIngested
  <2>3. GroupsRepeatBuffer'
    <3>1. ASSUME NEW e \in Entities PROVE DOMAIN recordsByEntity'[r][e] = {}
      BY <2>1
    <3>2. QED
      BY <2>1, <3>1 DEF Provenance, GroupsRepeatBuffer
  <2>4. QED
    BY <2>2, <2>3 DEF Provenance
<1>9. CASE Crash
  BY <1>9, QuietStep DEF TypeOK, Crash, batch, event, store, history
<1>10. ASSUME NEW k \in Keys, NEW p \in Payloads, Edit(k, p) PROVE Provenance'
  BY <1>10, QuietStep DEF Edit, batch, event
<1>11. CASE UNCHANGED vars
  BY <1>11, QuietStep DEF vars, batch, event, store, history
<1>12. QED
  BY <1>1, <1>2, <1>3, <1>4, <1>5, <1>6, <1>7, <1>8, <1>9, <1>10, <1>11
  DEF Next, Progress, Failure

\* Persist, then publish, for every value of the constants: a unified document
\* is made of a payload that ingestion has stored, and one the mapper accepts.
THEOREM UnifiedComesFromIngested == Spec => []UnifiedFromIngested
<1>1. TypeOK /\ Provenance /\ [Next]_vars => (TypeOK /\ Provenance)'
  BY NextType, NextProvenance
<1>2. Init => TypeOK /\ Provenance
  BY InitType, InitProvenance
<1>3. TypeOK /\ Provenance => UnifiedFromIngested
  BY DEF Provenance
<1>4. QED
  BY <1>1, <1>2, <1>3, PTL DEF Spec

-----------------------------------------------------------------------------
(* Ingestion implements IngestionContract. *)

\* A run in flight has an open row, and one that has not begun has none.
RowFollowsRun ==
  \A r \in Runs : /\ pc[r] = "idle" => row[r].status = "absent"
                  /\ Active(r) => row[r].status = "running"

\* The initial state has no row and no run.
LEMMA InitRow == Init => RowFollowsRun
BY DEF Init, RowFollowsRun, Active, Suspended

\* Every step keeps a row in agreement with where its run is.
LEMMA NextRow == TypeOK /\ RowFollowsRun /\ [Next]_vars => RowFollowsRun'
<1> SUFFICES ASSUME TypeOK, RowFollowsRun, [Next]_vars PROVE RowFollowsRun'
  OBVIOUS
<1> USE DEF RowFollowsRun, Active, Suspended, TypeOK
<1>1. ASSUME NEW r \in Runs, Start(r) \/ Finish(r) PROVE RowFollowsRun'
  <2>1. \A q \in Runs \ {r} : pc'[q] = pc[q] /\ row'[q] = row[q]
    BY <1>1 DEF Start, Finish, Goto
  <2>2. CASE Start(r)
    <3>1. pc'[r] = "reading" /\ row'[r].status = "running"
      BY <2>2 DEF Start, Goto, Rows
    <3>2. QED
      BY <2>1, <3>1
  <2>3. CASE Finish(r)
    <3>1. pc'[r] = "returned"
      BY <2>3 DEF Finish, Goto
    <3>2. QED
      BY <2>1, <3>1
  <2>4. QED
    BY <1>1, <2>2, <2>3
<1>2. ASSUME NEW r \in Runs, NEW rec \in Records, Fetch(r, rec) PROVE RowFollowsRun'
  BY <1>2 DEF Fetch, Goto
<1>3. ASSUME NEW r \in Runs,
             StartFails(r) \/ FeedEnds(r) \/ FetchFails(r) \/ FinishFails(r) \/ FlushEnds(r)
      PROVE  RowFollowsRun'
  BY <1>3 DEF StartFails, FeedEnds, FetchFails, FinishFails, FlushEnds, Fail, Goto
<1>4. ASSUME NEW r \in Runs, Store(r) \/ StoreFails(r) \/ Unify(r) \/ UnifyFails(r)
      PROVE  RowFollowsRun'
  BY <1>4 DEF Store, StoreFails, Unify, UnifyFails, Fail, Goto
<1>5. ASSUME NEW r \in Runs, NEW e \in Entities, Publish(r, e) \/ PublishFails(r, e)
      PROVE  RowFollowsRun'
  BY <1>5 DEF Publish, PublishFails, Fail, Goto
<1>6. CASE Crash
  BY <1>6 DEF Crash
<1>7. ASSUME NEW k \in Keys, NEW p \in Payloads, Edit(k, p) PROVE RowFollowsRun'
  BY <1>7 DEF Edit
<1>8. CASE UNCHANGED vars
  BY <1>8 DEF vars
<1>9. QED
  BY <1>1, <1>2, <1>3, <1>4, <1>5, <1>6, <1>7, <1>8 DEF Next, Progress, Failure

\* The initial state is one of the contract.
LEMMA InitImplements == Init => Contract!Init
BY DEF Init, Contract!Init

\* The steps the contract does not see.
LEMMA StutterStep ==
  ASSUME UNCHANGED <<row, raw, unified, ingested>>
  PROVE  UNCHANGED Contract!vars
BY DEF Contract!vars

\* Storing a batch, or part of it, is a step of the contract.
LEMMA StoreStep ==
  ASSUME TypeOK, RowFollowsRun, NEW r \in Runs, pc[r] = "storing",
         NEW done \in SUBSET DOMAIN buffer[r], Ingest(buffer[r], done),
         UNCHANGED <<row, unified>>
  PROVE  Contract!Store(r)
<1>1. buffer[r] \in Seq(Records) /\ raw \in [Keys -> Documents]
  BY DEF TypeOK
<1>2. /\ \A k \in Keys : ingested[k] \subseteq ingested'[k]
      /\ \A i \in done : buffer[r][i].payload \in ingested'[buffer[r][i].key]
  BY <1>1, IngestGrows
<1>3. ASSUME NEW k \in Keys PROVE raw'[k] = raw[k] \/ raw'[k] \in ingested'[k]
  <2>1. raw' = Upserted(raw, buffer[r], done)
    BY DEF Ingest
  <2>2. \/ raw'[k] = raw[k]
        \/ \E i \in done : buffer[r][i].key = k /\ raw'[k] = buffer[r][i].payload
    BY <1>1, <2>1, UpsertedDocument
  <2>3. QED
    BY <1>2, <2>2
<1>4. row[r].status = "running"
  BY DEF RowFollowsRun, Active, Suspended
<1>5. QED
  BY <1>2, <1>3, <1>4 DEF Contract!Store

\* Writing one collection, or part of it, is a step of the contract.
LEMMA ProjectStep ==
  ASSUME TypeOK, RowFollowsRun, Provenance, NEW r \in Runs, Unify(r) \/ UnifyFails(r)
  PROVE  \E c \in Collections : Contract!Project(r, c)
<1> DEFINE write == Head(byCollection[r])
<1>1. /\ byCollection[r] \in Seq(Writes) /\ byCollection[r] # <<>> /\ pc[r] = "unifying"
      /\ 1 \in DOMAIN byCollection[r] /\ write = byCollection[r][1]
      /\ write \in Writes
  BY HeadTailProperties, LenProperties DEF TypeOK, Unify, UnifyFails
<1>2. PICK done \in SUBSET Mappable(write.records) : Unified(write, done)
  BY DEF Unify, UnifyFails
<1>3. \A i \in DOMAIN write.records :
         write.records[i].payload \in ingested[write.records[i].key]
  BY <1>1 DEF Provenance, PendingWasStored
<1>4. UNCHANGED <<row, raw, ingested>>
  BY DEF Unify, UnifyFails, Fail, history
<1>5. row[r].status = "running"
  BY <1>1 DEF RowFollowsRun, Active, Suspended
<1> HIDE DEF write
<1>6. /\ write.collection \in Collections
      /\ write.records \in Seq(Records)
      /\ done \subseteq DOMAIN write.records
  BY <1>1, <1>2 DEF Writes, Mappable
<1> DEFINE c == write.collection
<1>7. unified'[c] = Upserted(unified[c], write.records, done)
  BY <1>2, <1>6 DEF Unified, TypeOK
<1>8. \A d \in Collections \ {c} : unified'[d] = unified[d]
  BY <1>2, <1>6 DEF Unified, TypeOK
<1>9. ASSUME NEW k \in Keys
      PROVE  \/ unified'[c][k] = unified[c][k]
             \/ unified'[c][k] \in ingested[k] \ (Odd \cup Unparseable)
  <2>1. unified[c] \in [Keys -> Documents]
    BY <1>6 DEF TypeOK
  <2>2. \/ unified'[c][k] = unified[c][k]
        \/ \E i \in done : /\ write.records[i].key = k
                           /\ unified'[c][k] = write.records[i].payload
    BY <1>6, <1>7, <2>1, UpsertedDocument
  <2>3. QED
    BY <1>2, <1>3, <1>6, <2>2 DEF Mappable
<1>10. Contract!Project(r, c)
  BY <1>4, <1>5, <1>8, <1>9 DEF Contract!Project
<1>11. QED
  BY <1>6, <1>10

\* Every step is a step of the contract, or leaves its variables alone.
LEMMA NextImplements ==
  TypeOK /\ RowFollowsRun /\ Provenance /\ [Next]_vars => [Contract!Next]_(Contract!vars)
<1> SUFFICES ASSUME TypeOK, RowFollowsRun, Provenance, [Next]_vars
             PROVE  [Contract!Next]_(Contract!vars)
  OBVIOUS
<1>1. ASSUME NEW r \in Runs, Start(r) PROVE Contract!Next
  <2>1. Contract!Open(r)
    BY <1>1 DEF Start, RowFollowsRun, TypeOK, Rows, Contract!Open, store
  <2>2. QED
    BY <2>1 DEF Contract!Next
<1>2. ASSUME NEW r \in Runs, Finish(r) PROVE Contract!Next
  <2>1. \E v \in {"success", "failure"} : Contract!Close(r, v)
    BY <1>2 DEF Finish, RowFollowsRun, Active, Suspended, TypeOK, Rows, Contract!Close,
       store, history
  <2>2. QED
    BY <2>1 DEF Contract!Next
<1>3. ASSUME NEW r \in Runs, Store(r) \/ StoreFails(r) PROVE Contract!Next
  <2>1. PICK done \in SUBSET DOMAIN buffer[r] : Ingest(buffer[r], done)
    BY <1>3 DEF Store, StoreFails
  <2>2. Contract!Store(r)
    BY <1>3, <2>1, StoreStep DEF Store, StoreFails
  <2>3. QED
    BY <2>2 DEF Contract!Next
<1>4. ASSUME NEW r \in Runs, Unify(r) \/ UnifyFails(r) PROVE Contract!Next
  BY <1>4, ProjectStep DEF Contract!Next
<1>5. ASSUME NEW k \in Keys, NEW p \in Payloads, Edit(k, p) PROVE Contract!Next
  <2>1. Contract!Edit(k)
    BY <1>5 DEF Edit, Contract!Edit
  <2>2. QED
    BY <2>1 DEF Contract!Next
<1>6. ASSUME NEW r \in Runs,
             \/ StartFails(r) \/ FeedEnds(r) \/ FetchFails(r) \/ FlushEnds(r) \/ FinishFails(r)
             \/ \E rec \in Records : Fetch(r, rec)
             \/ \E e \in Entities : Publish(r, e) \/ PublishFails(r, e)
      PROVE  UNCHANGED Contract!vars
  BY <1>6, StutterStep DEF StartFails, FeedEnds, FetchFails, FlushEnds, FinishFails,
     Fetch, Publish, PublishFails, Fail, store, history
<1>7. CASE Crash
  BY <1>7, StutterStep DEF Crash, store, history
<1>8. CASE UNCHANGED vars
  BY <1>8, StutterStep DEF vars, store, history
<1>9. QED
  BY <1>1, <1>2, <1>3, <1>4, <1>5, <1>6, <1>7, <1>8 DEF Next, Progress, Failure

\* What the collections show of ingestion is what the contract promises, for
\* every value of the constants.
THEOREM IngestionKeepsContract == Spec => KeepsContract
<1>1. Init => TypeOK /\ RowFollowsRun /\ Provenance /\ Contract!Init
  BY InitType, InitRow, InitProvenance, InitImplements
<1>2. TypeOK /\ RowFollowsRun /\ Provenance /\ [Next]_vars
        => (TypeOK /\ RowFollowsRun /\ Provenance)'
  BY NextType, NextRow, NextProvenance
<1>3. QED
  BY <1>1, <1>2, NextImplements, PTL DEF Spec, KeepsContract, Contract!Spec

-----------------------------------------------------------------------------
(* Records grouped by entity. *)

\* An empty buffer has empty groups.
LEMMA GroupEmpty == ASSUME NEW e PROVE GroupOf(<<>>, <<>>, e)
<1> DEFINE at == [i \in DOMAIN <<>> |-> i]
<1>1. DOMAIN <<>> = {}
  OBVIOUS
<1>2. at \in [DOMAIN <<>> -> DOMAIN <<>>]
  OBVIOUS
<1> HIDE DEF at
<1>3. QED
  BY <1>1, <1>2 DEF GroupOf

\* What appending to a sequence does, in the terms of its domain.
LEMMA Appended ==
  ASSUME NEW recs \in Seq(Records), NEW rec \in Records
  PROVE  /\ Len(recs) \in Nat /\ DOMAIN recs = 1..Len(recs)
         /\ Append(recs, rec) \in Seq(Records)
         /\ Len(Append(recs, rec)) = Len(recs) + 1
         /\ DOMAIN Append(recs, rec) = 1..Len(recs)+1
         /\ Append(recs, rec)[Len(recs)+1] = rec
         /\ \A i \in 1..Len(recs) : Append(recs, rec)[i] = recs[i]
BY AppendProperties, LenProperties

\* A record is appended to the buffer, and to the group of its entity.
LEMMA GroupAppend ==
  ASSUME NEW recs \in Seq(Records), NEW group \in Seq(Records), NEW e,
         GroupOf(group, recs, e), NEW rec \in Records
  PROVE  GroupOf(IF EntityOf[rec.key] = e THEN Append(group, rec) ELSE group,
                 Append(recs, rec), e)
<1> DEFINE n == Len(recs)
           m == Len(group)
           longer == Append(recs, rec)
           grown == IF EntityOf[rec.key] = e THEN Append(group, rec) ELSE group
<1> SUFFICES GroupOf(grown, longer, e)
  OBVIOUS
<1>1. /\ n \in Nat /\ DOMAIN recs = 1..n /\ DOMAIN longer = 1..n+1
      /\ longer[n+1] = rec /\ \A i \in 1..n : longer[i] = recs[i]
  BY Appended
<1>2. /\ m \in Nat /\ DOMAIN group = 1..m /\ DOMAIN Append(group, rec) = 1..m+1
      /\ Append(group, rec)[m+1] = rec /\ \A i \in 1..m : Append(group, rec)[i] = group[i]
  BY Appended
<1>0. PICK at \in [DOMAIN group -> DOMAIN recs] :
        /\ \A i \in DOMAIN group : group[i] = recs[at[i]]
        /\ \A i, j \in DOMAIN group : i < j => at[i] < at[j]
        /\ \A j \in DOMAIN recs : EntityOf[recs[j].key] = e <=> \E i \in DOMAIN group : at[i] = j
  BY DEF GroupOf
<1>3. /\ at \in [1..m -> 1..n]
      /\ \A i \in 1..m : group[i] = recs[at[i]]
      /\ \A i, j \in 1..m : i < j => at[i] < at[j]
      /\ \A j \in 1..n : EntityOf[recs[j].key] = e <=> \E i \in 1..m : at[i] = j
  BY <1>0, <1>1, <1>2
<1> HIDE DEF n, m, longer, grown
<1>4. CASE EntityOf[rec.key] = e
  <2> DEFINE to == [i \in 1..m+1 |-> IF i = m + 1 THEN n + 1 ELSE at[i]]
  <2>1. to \in [1..m+1 -> 1..n+1]
    BY <1>1, <1>2, <1>3
  <2>2. /\ to[m+1] = n + 1 /\ \A i \in 1..m : to[i] = at[i] /\ at[i] \in 1..n
        /\ \A i \in 1..m+1 : i \in 1..m \/ i = m + 1
    BY <1>1, <1>2, <1>3
  <2> HIDE DEF to
  <2>3. \A i \in 1..m+1 : Append(group, rec)[i] = longer[to[i]]
    BY <1>1, <1>2, <1>3, <2>2
  <2>4. ASSUME NEW i \in 1..m+1, NEW j \in 1..m+1, i < j PROVE to[i] < to[j]
    <3>1. i \in 1..m /\ to[i] = at[i] /\ at[i] \in 1..n
      BY <1>2, <2>2, <2>4
    <3>2. CASE j = m + 1
      BY <1>1, <2>2, <3>1, <3>2
    <3>3. CASE j \in 1..m
      BY <1>3, <2>2, <2>4, <3>1, <3>3
    <3>4. QED
      BY <2>2, <3>2, <3>3
  <2>5. ASSUME NEW j \in 1..n+1
        PROVE  EntityOf[longer[j].key] = e <=> \E i \in 1..m+1 : to[i] = j
    <3>1. CASE j = n + 1
      <4>1. m + 1 \in 1..m+1
        BY <1>2
      <4>2. QED
        BY <1>1, <1>4, <2>2, <3>1, <4>1
    <3>2. CASE j \in 1..n
      <4>1. EntityOf[longer[j].key] = e <=> \E i \in 1..m : at[i] = j
        BY <1>1, <1>3, <3>2
      <4>2. j # n + 1 /\ \A i \in 1..m : i \in 1..m+1
        BY <1>1, <1>2, <3>2
      <4>3. QED
        BY <2>2, <4>1, <4>2
    <3>3. QED
      BY <1>1, <3>1, <3>2
  <2>6. /\ to \in [DOMAIN Append(group, rec) -> DOMAIN longer]
        /\ \A i \in DOMAIN Append(group, rec) : Append(group, rec)[i] = longer[to[i]]
        /\ \A i, j \in DOMAIN Append(group, rec) : i < j => to[i] < to[j]
        /\ \A j \in DOMAIN longer :
             EntityOf[longer[j].key] = e <=> \E i \in DOMAIN Append(group, rec) : to[i] = j
    BY <1>1, <1>2, <2>1, <2>3, <2>4, <2>5
  <2>7. GroupOf(Append(group, rec), longer, e)
    BY <2>6 DEF GroupOf
  <2>8. grown = Append(group, rec)
    BY <1>4 DEF grown
  <2>9. QED
    BY <2>7, <2>8
<1>5. CASE EntityOf[rec.key] # e
  <2>1. at \in [1..m -> 1..n+1] /\ \A i \in 1..m : at[i] \in 1..n
    <3>1. \A i \in 1..m : at[i] \in 1..n
      BY <1>3
    <3>2. \A i \in 1..m : at[i] \in 1..n+1
      BY <1>1, <3>1
    <3>3. QED
      BY <1>3, <3>1, <3>2
  <2>2. \A i \in 1..m : group[i] = longer[at[i]]
    BY <1>1, <1>3, <2>1
  <2>3. \A j \in 1..n+1 : EntityOf[longer[j].key] = e <=> \E i \in 1..m : at[i] = j
    BY <1>1, <1>3, <1>5, <2>1
  <2>4. /\ at \in [DOMAIN group -> DOMAIN longer]
        /\ \A i \in DOMAIN group : group[i] = longer[at[i]]
        /\ \A i, j \in DOMAIN group : i < j => at[i] < at[j]
        /\ \A j \in DOMAIN longer : EntityOf[longer[j].key] = e <=> \E i \in DOMAIN group : at[i] = j
    BY <1>1, <1>2, <1>3, <2>1, <2>2, <2>3
  <2>5. GroupOf(group, longer, e)
    BY <2>4 DEF GroupOf
  <2>6. grown = group
    BY <1>5 DEF grown
  <2>7. QED
    BY <2>5, <2>6
<1>6. QED
  BY <1>4, <1>5

\* A group has the records of its entity and no others, and of each key the last one last.
LEMMA GroupHas ==
  ASSUME NEW recs \in Seq(Records), NEW group \in Seq(Records), NEW e, GroupOf(group, recs, e)
  PROVE  /\ \A i \in DOMAIN group : /\ EntityOf[group[i].key] = e
                                    /\ \E j \in DOMAIN recs : recs[j] = group[i]
         /\ \A j \in DOMAIN recs : EntityOf[recs[j].key] = e =>
              \E i \in DOMAIN group :
                 /\ group[i] = recs[j]
                 /\ (\A l \in DOMAIN recs : recs[l].key = recs[j].key => l <= j) =>
                       \A h \in DOMAIN group : group[h].key = recs[j].key => h <= i
<1>1. PICK at \in [DOMAIN group -> DOMAIN recs] :
        /\ \A i \in DOMAIN group : group[i] = recs[at[i]]
        /\ \A i, j \in DOMAIN group : i < j => at[i] < at[j]
        /\ \A j \in DOMAIN recs : EntityOf[recs[j].key] = e <=> \E i \in DOMAIN group : at[i] = j
  BY DEF GroupOf
<1>2. ASSUME NEW i \in DOMAIN group
      PROVE  /\ at[i] \in DOMAIN recs /\ EntityOf[recs[at[i]].key] = e
             /\ group[i] = recs[at[i]]
  BY <1>1
<1>3. ASSUME NEW j \in DOMAIN recs, EntityOf[recs[j].key] = e
      PROVE  \E i \in DOMAIN group :
                 /\ group[i] = recs[j]
                 /\ (\A l \in DOMAIN recs : recs[l].key = recs[j].key => l <= j) =>
                       \A h \in DOMAIN group : group[h].key = recs[j].key => h <= i
  <2>2. PICK i \in DOMAIN group : at[i] = j
    BY <1>1, <1>3
  <2>3. ASSUME \A l \in DOMAIN recs : recs[l].key = recs[j].key => l <= j,
               NEW h \in DOMAIN group, group[h].key = recs[j].key
        PROVE  h <= i
    <3>1. at[h] <= at[i] /\ at[h] \in Nat /\ at[i] \in Nat /\ h \in Nat /\ i \in Nat
      BY <1>2, <2>2, <2>3, SequenceType
    <3>2. i < h => at[i] < at[h]
      BY <1>1
    <3>3. QED
      BY <3>1, <3>2
  <2>4. group[i] = recs[j]
    BY <1>2, <2>2
  <2>5. QED
    BY <2>3, <2>4
<1>4. QED
  BY <1>2, <1>3

-----------------------------------------------------------------------------
(* What a bulk write of records makes of a collection. *)

Accepted(rec) == rec.payload \notin Odd \cup Unparseable

\* It takes no document away.
LEMMA UpsertedKeeps ==
  ASSUME NEW coll \in [Keys -> Documents], NEW ops \in Seq(Records),
         NEW done \in SUBSET DOMAIN ops, NEW k \in Keys, coll[k] # Missing
  PROVE  Upserted(coll, ops, done)[k] # Missing
<1>1. \A i \in done : ops[i].payload # Missing
  BY SequenceType, ConstantsAssumption
<1>2. QED
  BY <1>1, UpsertedDocument

\* The key of an operation that was applied has a document, that of the last such one.
LEMMA UpsertedLast ==
  ASSUME NEW coll \in [Keys -> Documents], NEW ops \in Seq(Records),
         NEW done \in SUBSET DOMAIN ops, NEW i \in done
  PROVE  /\ Upserted(coll, ops, done)[ops[i].key] # Missing
         /\ (\A h \in done : ops[h].key = ops[i].key => h <= i) =>
               Upserted(coll, ops, done)[ops[i].key] = ops[i].payload
<1>1. /\ ops[i].key \in DOMAIN coll
      /\ i \in Nat /\ \A h \in done : h \in Nat /\ ops[h].payload # Missing
  BY SequenceType, ConstantsAssumption
<1>2. PICK m \in done : /\ ops[m].key = ops[i].key
                        /\ Upserted(coll, ops, done)[ops[i].key] = ops[m].payload
                        /\ \A j \in done : ops[j].key = ops[i].key => j <= m
  BY <1>1, UpsertedValue DEF On
<1>3. ASSUME \A h \in done : ops[h].key = ops[i].key => h <= i PROVE m = i
  BY <1>1, <1>2, <1>3
<1>4. QED
  BY <1>1, <1>2, <1>3

\* A key without an operation keeps its document.
LEMMA UpsertedElsewhere ==
  ASSUME NEW coll \in [Keys -> Documents], NEW ops, NEW done, NEW k \in Keys,
         \A i \in DOMAIN ops : ops[i].key # k
  PROVE  Upserted(coll, ops, done)[k] = coll[k]
BY DEF Upserted, On

\* The models of a group are written: each record of the buffer that is of the entity and is
\* accepted has a document, the last one of a key its own; other keys are left alone.
LEMMA GroupWritten ==
  ASSUME NEW coll \in [Keys -> Documents], NEW recs \in Seq(Records),
         NEW group \in Seq(Records), NEW e, GroupOf(group, recs, e)
  PROVE  LET after == Upserted(coll, group, Mappable(group)) IN
         /\ \A j \in DOMAIN recs :
              EntityOf[recs[j].key] = e /\ Accepted(recs[j]) =>
                /\ after[recs[j].key] # Missing
                /\ (\A l \in DOMAIN recs : recs[l].key = recs[j].key => l <= j) =>
                      after[recs[j].key] = recs[j].payload
         /\ \A k \in Keys : (\A j \in DOMAIN recs : recs[j].key = k => EntityOf[k] # e) =>
              after[k] = coll[k]
<1>1. Mappable(group) \subseteq DOMAIN group
  BY DEF Mappable
<1>2. ASSUME NEW j \in DOMAIN recs, EntityOf[recs[j].key] = e, Accepted(recs[j])
      PROVE  /\ Upserted(coll, group, Mappable(group))[recs[j].key] # Missing
             /\ (\A l \in DOMAIN recs : recs[l].key = recs[j].key => l <= j) =>
                  Upserted(coll, group, Mappable(group))[recs[j].key] = recs[j].payload
  <2>1. PICK i \in DOMAIN group :
          /\ group[i] = recs[j]
          /\ (\A l \in DOMAIN recs : recs[l].key = recs[j].key => l <= j) =>
                \A h \in DOMAIN group : group[h].key = recs[j].key => h <= i
    BY <1>2, GroupHas
  <2>2. i \in Mappable(group)
    BY <1>2, <2>1 DEF Mappable, Accepted
  <2>3. QED
    BY <1>1, <2>1, <2>2, UpsertedLast
<1>3. ASSUME NEW k \in Keys, \A j \in DOMAIN recs : recs[j].key = k => EntityOf[k] # e
      PROVE  Upserted(coll, group, Mappable(group))[k] = coll[k]
  <2>1. \A i \in DOMAIN group : group[i].key # k
    BY <1>3, GroupHas
  <2>2. QED
    BY <2>1, UpsertedElsewhere
<1>4. QED
  BY <1>2, <1>3

-----------------------------------------------------------------------------
(* Steps of one run leave the others alone, and the collections only grow. *)

\* What a call of run_source does next.
StepOf(r) == Start(r) \/ Progress(r) \/ Failure(r)

LEMMA NextSteps ==
  Next => \/ \E r \in Runs : StepOf(r)
          \/ Crash
          \/ \E k \in Keys, p \in Payloads : Edit(k, p)
BY DEF Next, StepOf

\* What a run holds stays.
HandUntouched(r) ==
  /\ buffer'[r] = buffer[r] /\ recordsByEntity'[r] = recordsByEntity[r]
  /\ total'[r] = total[r] /\ exhausted'[r] = exhausted[r] /\ error'[r] = error[r]
  /\ unpublished'[r] = unpublished[r] /\ byCollection'[r] = byCollection[r]
  /\ fetched'[r] = fetched[r]

Untouched(r) == HandUntouched(r) /\ pc'[r] = pc[r] /\ row'[r] = row[r]

LEMMA OthersUntouched ==
  ASSUME TypeOK, NEW q \in Runs, StepOf(q), NEW r \in Runs, r # q
  PROVE  Untouched(r)
<1> USE DEF TypeOK, Untouched, HandUntouched, Goto, Fail, batch, event, store, history
<1>1. CASE Start(q) \/ FeedEnds(q) \/ FlushEnds(q) \/ Finish(q)
  BY <1>1 DEF Start, FeedEnds, FlushEnds, Finish
<1>2. ASSUME NEW rec \in Records, Fetch(q, rec) PROVE Untouched(r)
  BY <1>2 DEF Fetch
<1>3. CASE Store(q) \/ Unify(q)
  BY <1>3 DEF Store, Unify
<1>4. ASSUME NEW e \in Entities, Publish(q, e) \/ PublishFails(q, e) PROVE Untouched(r)
  BY <1>4 DEF Publish, PublishFails
<1>5. CASE StartFails(q) \/ FetchFails(q) \/ FinishFails(q)
  BY <1>5 DEF StartFails, FetchFails, FinishFails
<1>6. CASE StoreFails(q) \/ UnifyFails(q)
  BY <1>6 DEF StoreFails, UnifyFails
<1>7. QED
  BY <1>1, <1>2, <1>3, <1>4, <1>5, <1>6 DEF StepOf, Progress, Failure

LEMMA CrashUntouched ==
  ASSUME TypeOK, Crash, NEW r \in Runs
  PROVE  /\ HandUntouched(r) /\ row'[r] = row[r]
         /\ (pc'[r] = pc[r] /\ ~Active(r)) \/ (pc'[r] = "lost" /\ Active(r))
BY DEF TypeOK, Crash, HandUntouched, batch, event, store, history

LEMMA EditUntouched ==
  ASSUME NEW k \in Keys, NEW p \in Payloads, Edit(k, p), NEW r \in Runs
  PROVE  Untouched(r)
BY DEF Edit, Untouched, HandUntouched, batch, event, store

\* No collection loses a document, and what was stored was stored.
Grows ==
  /\ \A k \in Keys : /\ raw[k] # Missing => raw'[k] # Missing
                     /\ ingested[k] \subseteq ingested'[k]
  /\ \A c \in Collections, k \in Keys : unified[c][k] # Missing => unified'[c][k] # Missing

LEMMA StoreGrows ==
  ASSUME TypeOK, NEW r \in Runs, NEW done \in SUBSET DOMAIN buffer[r],
         Ingest(buffer[r], done), UNCHANGED unified
  PROVE  Grows
<1>1. buffer[r] \in Seq(Records) /\ raw \in [Keys -> Documents]
  BY DEF TypeOK
<1>2. \A k \in Keys : raw[k] # Missing => raw'[k] # Missing
  BY <1>1, UpsertedKeeps DEF Ingest
<1>3. QED
  BY <1>1, <1>2, IngestGrows DEF Grows

LEMMA UnifyGrows ==
  ASSUME TypeOK, NEW write \in Writes, NEW done \in SUBSET DOMAIN write.records,
         Unified(write, done), UNCHANGED <<raw, ingested>>
  PROVE  Grows
<1>1. write.collection \in Collections /\ write.records \in Seq(Records)
  BY DEF Writes
<1>2. ASSUME NEW c \in Collections, NEW k \in Keys, unified[c][k] # Missing
      PROVE  unified'[c][k] # Missing
  <2>1. unified[c] \in [Keys -> Documents]
    BY DEF TypeOK
  <2>2. unified'[c] = IF c = write.collection THEN Upserted(unified[c], write.records, done)
                                              ELSE unified[c]
    BY <1>1 DEF TypeOK, Unified
  <2>3. QED
    BY <1>1, <1>2, <2>1, <2>2, UpsertedKeeps
<1>3. QED
  BY <1>2 DEF Grows

\* The write a run is at.
LEMMA HeadWrite ==
  ASSUME TypeOK, NEW r \in Runs, byCollection[r] # <<>>
  PROVE  /\ Head(byCollection[r]) \in Writes /\ Head(byCollection[r]) = byCollection[r][1]
         /\ Len(byCollection[r]) \in Nat \ {0} /\ DOMAIN byCollection[r] = 1..Len(byCollection[r])
         /\ Len(Tail(byCollection[r])) = Len(byCollection[r]) - 1
         /\ DOMAIN Tail(byCollection[r]) = 1..Len(byCollection[r])-1
         /\ \A w \in DOMAIN Tail(byCollection[r]) :
              /\ w + 1 \in DOMAIN byCollection[r]
              /\ Tail(byCollection[r])[w] = byCollection[r][w+1]
         /\ Mappable(Head(byCollection[r]).records) \subseteq DOMAIN Head(byCollection[r]).records
<1>1. byCollection[r] \in Seq(Writes)
  BY DEF TypeOK
<1>2. /\ Len(byCollection[r]) \in Nat /\ Len(byCollection[r]) # 0
      /\ DOMAIN byCollection[r] = 1..Len(byCollection[r])
  BY <1>1, LenProperties, EmptySeq
<1>3. /\ Head(byCollection[r]) = byCollection[r][1] /\ Tail(byCollection[r]) \in Seq(Writes)
      /\ Len(Tail(byCollection[r])) = Len(byCollection[r]) - 1
      /\ \A i \in 1..Len(Tail(byCollection[r])) : Tail(byCollection[r])[i] = byCollection[r][i+1]
  BY <1>1, HeadTailProperties
<1>4. DOMAIN Tail(byCollection[r]) = 1..Len(byCollection[r])-1
  BY <1>3, LenProperties
<1>5. byCollection[r][1] \in Writes
  BY <1>1, <1>2, ElementOfSeq
<1>6. QED
  BY <1>2, <1>3, <1>4, <1>5 DEF Mappable

LEMMA NextGrows == TypeOK /\ [Next]_vars => Grows
<1> SUFFICES ASSUME TypeOK, [Next]_vars PROVE Grows
  OBVIOUS
<1>1. ASSUME NEW r \in Runs, Store(r) \/ StoreFails(r) PROVE Grows
  BY <1>1, StoreGrows DEF Store, StoreFails
<1>2. ASSUME NEW r \in Runs, Unify(r) \/ UnifyFails(r) PROVE Grows
  <2>1. byCollection[r] # <<>> /\ UNCHANGED <<raw, ingested>>
    BY <1>2 DEF Unify, UnifyFails, history
  <2>2. PICK done \in SUBSET Mappable(Head(byCollection[r]).records) :
          Unified(Head(byCollection[r]), done)
    BY <1>2 DEF Unify, UnifyFails
  <2>3. QED
    BY <2>1, <2>2, HeadWrite, UnifyGrows
<1>3. ASSUME UNCHANGED <<raw, ingested, unified>> PROVE Grows
  BY <1>3 DEF Grows
<1>4. ASSUME NEW r \in Runs,
             Start(r) \/ StartFails(r) \/ FeedEnds(r) \/ FetchFails(r) \/ FlushEnds(r)
               \/ Finish(r) \/ FinishFails(r)
      PROVE  Grows
  BY <1>3, <1>4 DEF Start, StartFails, FeedEnds, FetchFails, FlushEnds, Finish, FinishFails,
     store, history
<1>5. ASSUME NEW r \in Runs, NEW rec \in Records, Fetch(r, rec) PROVE Grows
  BY <1>3, <1>5 DEF Fetch, store
<1>6. ASSUME NEW r \in Runs, NEW e \in Entities, Publish(r, e) \/ PublishFails(r, e)
      PROVE  Grows
  BY <1>3, <1>6 DEF Publish, PublishFails, store, history
<1>7. CASE Crash \/ UNCHANGED vars
  BY <1>3, <1>7 DEF Crash, vars, store, history
<1>8. ASSUME NEW k \in Keys, NEW p \in Payloads, Edit(k, p) PROVE Grows
  BY <1>8, ConstantsAssumption DEF TypeOK, Edit, Grows
<1>9. QED
  BY <1>1, <1>2, <1>4, <1>5, <1>6, <1>7, <1>8 DEF Next, Progress, Failure

-----------------------------------------------------------------------------
(* What a run holds. *)

\* The records that earlier flushes have carried.
Flushed(r) == Len(fetched[r]) - Len(buffer[r])

\* A run holds the end of what it has fetched, once in the buffer and once in groups, no
\* more than a batch of it; a pending upsert has a group that is published.
HandBy(r) ==
  /\ Len(buffer[r]) <= BatchSize
  /\ pc[r] \in {"idle", "reading"} => Len(buffer[r]) < BatchSize
  /\ Len(buffer[r]) <= Len(fetched[r])
  /\ \A j \in DOMAIN buffer[r] : fetched[r][Flushed(r) + j] = buffer[r][j]
  /\ \A e \in Entities : GroupOf(recordsByEntity[r][e], buffer[r], e)
  /\ pc[r] \in {"idle", "reading", "storing", "publishing"} => byCollection[r] = <<>>
  /\ pc[r] = "unifying" =>
       \E e \in Entities \ unpublished[r] :
          \A w \in DOMAIN byCollection[r] : byCollection[r][w].records = recordsByEntity[r][e]
  /\ pc[r] = "succeeding" \/ row[r].status = "success" => buffer[r] = <<>> /\ exhausted[r]

Hand == \A r \in Runs : HandBy(r)

LEMMA HandStays ==
  ASSUME NEW r \in Runs, HandBy(r), Untouched(r)
  PROVE  HandBy(r)'
BY DEF HandBy, Untouched, HandUntouched, Flushed

\* Nor does it matter where a run goes that does not go on.
LEMMA HandCloses ==
  ASSUME NEW r \in Runs, HandBy(r), HandUntouched(r),
         pc'[r] \in {"failing", "lost", "raised", "returned"},
         row'[r].status = "success" => row[r].status = "success" \/ pc[r] = "succeeding"
  PROVE  HandBy(r)'
BY DEF HandBy, HandUntouched, Flushed

\* What a run's sequences are.
LEMMA HandType ==
  ASSUME TypeOK, NEW r \in Runs
  PROVE  /\ buffer[r] \in Seq(Records) /\ fetched[r] \in Seq(Records)
         /\ Len(buffer[r]) \in Nat /\ DOMAIN buffer[r] = 1..Len(buffer[r])
         /\ Len(fetched[r]) \in Nat /\ DOMAIN fetched[r] = 1..Len(fetched[r])
         /\ \A e \in Entities : recordsByEntity[r][e] \in Seq(Records)
         /\ \A i \in DOMAIN buffer[r] : buffer[r][i].key \in Keys /\ EntityOf[buffer[r][i].key] \in Entities
         /\ \A i \in DOMAIN fetched[r] : fetched[r][i].key \in Keys
<1>1. buffer[r] \in Seq(Records) /\ fetched[r] \in Seq(Records)
  BY DEF TypeOK
<1>2. \A e \in Entities : recordsByEntity[r][e] \in Seq(Records)
  BY DEF TypeOK
<1>3. QED
  BY <1>1, <1>2, SequenceType, ConstantsAssumption

\* A run holds a record more.
LEMMA FetchHand ==
  ASSUME TypeOK, RowFollowsRun, NEW r \in Runs, HandBy(r), NEW rec \in Records, Fetch(r, rec)
  PROVE  HandBy(r)'
<1>1. /\ pc[r] = "reading" /\ buffer'[r] = Append(buffer[r], rec)
      /\ fetched'[r] = Append(fetched[r], rec) /\ byCollection'[r] = byCollection[r]
      /\ row'[r] = row[r]
      /\ pc'[r] = IF Len(buffer'[r]) >= BatchSize THEN "storing" ELSE "reading"
      /\ \A e \in Entities : recordsByEntity'[r][e] =
            IF EntityOf[rec.key] = e THEN Append(recordsByEntity[r][e], rec)
                                     ELSE recordsByEntity[r][e]
  BY DEF TypeOK, Fetch, Goto, event, store
<1>2. row[r].status = "running" /\ byCollection[r] = <<>> /\ Len(buffer[r]) < BatchSize
  BY <1>1 DEF RowFollowsRun, Active, Suspended, HandBy
<1> DEFINE n == Len(buffer[r])
           m == Len(fetched[r])
<1>3. /\ n \in Nat /\ DOMAIN buffer[r] = 1..n
      /\ Len(buffer'[r]) = n + 1 /\ DOMAIN buffer'[r] = 1..n+1
      /\ buffer'[r][n+1] = rec /\ \A i \in 1..n : buffer'[r][i] = buffer[r][i]
  BY <1>1, HandType, Appended
<1>4. /\ m \in Nat /\ Len(fetched'[r]) = m + 1
      /\ fetched'[r][m+1] = rec /\ \A i \in 1..m : fetched'[r][i] = fetched[r][i]
  BY <1>1, HandType, Appended
<1>5. n <= m /\ BatchSize \in Nat /\ \A j \in 1..n : fetched[r][m - n + j] = buffer[r][j]
  BY <1>3, ConstantsAssumption DEF HandBy, Flushed
<1>6. \A e \in Entities : GroupOf(recordsByEntity'[r][e], buffer'[r], e)
  BY <1>1, HandType, GroupAppend DEF HandBy
<1> HIDE DEF n, m
<1>7. ASSUME NEW j \in 1..n+1 PROVE fetched'[r][(m + 1) - (n + 1) + j] = buffer'[r][j]
  <2>1. CASE j = n + 1
    <3>1. (m + 1) - (n + 1) + j = m + 1
      BY <1>3, <1>4, <2>1
    <3>2. QED
      BY <1>3, <1>4, <2>1, <3>1
  <2>2. CASE j \in 1..n
    <3>1. (m + 1) - (n + 1) + j = m - n + j /\ m - n + j \in 1..m
      BY <1>3, <1>4, <1>5, <2>2
    <3>2. QED
      BY <1>3, <1>4, <1>5, <2>2, <3>1
  <2>3. QED
    BY <1>3, <2>1, <2>2
<1>8. n + 1 <= BatchSize /\ n + 1 <= m + 1
  BY <1>2, <1>3, <1>4, <1>5 DEF n
<1>9. \A j \in DOMAIN buffer'[r] : fetched'[r][Flushed(r)' + j] = buffer'[r][j]
  BY <1>3, <1>4, <1>7 DEF Flushed
<1>10. /\ Len(buffer'[r]) <= BatchSize /\ Len(buffer'[r]) <= Len(fetched'[r])
       /\ pc'[r] \in {"idle", "reading"} => Len(buffer'[r]) < BatchSize
  BY <1>1, <1>3, <1>4, <1>5, <1>8
<1>11. QED
  BY <1>1, <1>2, <1>6, <1>9, <1>10 DEF HandBy

\* An entity is published: its upserts are pending.
LEMMA PublishHand ==
  ASSUME TypeOK, RowFollowsRun, NEW r \in Runs, HandBy(r), NEW e \in Entities, Publish(r, e)
  PROVE  /\ HandBy(r)'
         /\ unpublished'[r] = unpublished[r] \ {e}
         /\ Mappable(recordsByEntity[r][e]) # {} =>
              byCollection'[r] = [i \in DOMAIN Targets[e] |->
                 [collection |-> Targets[e][i], records |-> recordsByEntity[r][e]]]
<1> DEFINE writes == IF Mappable(recordsByEntity[r][e]) = {} THEN <<>>
                     ELSE [i \in DOMAIN Targets[e] |->
                             [collection |-> Targets[e][i], records |-> recordsByEntity[r][e]]]
<1>1. /\ pc[r] = "publishing" /\ byCollection'[r] = writes
      /\ unpublished'[r] = unpublished[r] \ {e}
      /\ pc'[r] = IF writes = <<>> THEN "publishing" ELSE "unifying"
      /\ buffer'[r] = buffer[r] /\ recordsByEntity'[r] = recordsByEntity[r]
      /\ fetched'[r] = fetched[r] /\ row'[r] = row[r]
  BY DEF TypeOK, Publish, Goto, batch, store, history
<1>2. \A w \in DOMAIN writes : writes[w].records = recordsByEntity[r][e]
  OBVIOUS
<1>3. row[r].status = "running"
  BY <1>1 DEF RowFollowsRun, Active, Suspended
<1> HIDE DEF writes
<1>4. HandBy(r)'
  BY <1>1, <1>2, <1>3 DEF HandBy, Flushed
<1>5. QED
  BY <1>1, <1>4 DEF writes

\* A collection is written.
LEMMA UnifyHand ==
  ASSUME TypeOK, RowFollowsRun, NEW r \in Runs, HandBy(r), Unify(r)
  PROVE  HandBy(r)'
<1>1. /\ pc[r] = "unifying" /\ byCollection[r] # <<>>
      /\ byCollection'[r] = Tail(byCollection[r])
      /\ pc'[r] = IF Len(byCollection[r]) = 1 THEN "publishing" ELSE "unifying"
      /\ unpublished'[r] = unpublished[r]
      /\ buffer'[r] = buffer[r] /\ recordsByEntity'[r] = recordsByEntity[r]
      /\ fetched'[r] = fetched[r] /\ row'[r] = row[r]
  BY DEF TypeOK, Unify, Goto, batch, history
<1>2. row[r].status = "running"
  BY <1>1 DEF RowFollowsRun, Active, Suspended
<1>3. PICK e \in Entities \ unpublished[r] :
        \A w \in DOMAIN byCollection[r] : byCollection[r][w].records = recordsByEntity[r][e]
  BY <1>1 DEF HandBy
<1>4. \A w \in DOMAIN byCollection'[r] : byCollection'[r][w].records = recordsByEntity[r][e]
  BY <1>1, <1>3, HeadWrite
<1>5. Len(byCollection[r]) = 1 => byCollection'[r] = <<>>
  <2>1. byCollection[r] \in Seq(Writes)
    BY DEF TypeOK
  <2>2. Tail(byCollection[r]) \in Seq(Writes)
    BY <1>1, <2>1, HeadTailProperties
  <2>3. QED
    BY <1>1, <2>2, HeadWrite, EmptySeq
<1>6. QED
  BY <1>1, <1>2, <1>3, <1>4, <1>5 DEF HandBy, Flushed

LEMMA OwnHand ==
  ASSUME TypeOK, RowFollowsRun, NEW r \in Runs, HandBy(r), StepOf(r)
  PROVE  HandBy(r)'
<1> USE DEF Goto, Fail, batch, event, store, history
<1>0. ASSUME Active(r) PROVE row[r].status = "running"
  BY <1>0 DEF RowFollowsRun
<1>1. CASE Start(r)
  <2>1. /\ HandUntouched(r) /\ pc[r] = "idle" /\ pc'[r] = "reading"
        /\ row'[r].status = "running"
    BY <1>1 DEF TypeOK, Start, HandUntouched, Rows
  <2>2. QED
    BY <2>1 DEF HandBy, HandUntouched, Flushed
<1>2. CASE StartFails(r) \/ FetchFails(r) \/ FinishFails(r)
  <2>1. /\ pc'[r] \in {"failing", "raised"} /\ row'[r] = row[r]
        /\ buffer'[r] = buffer[r] /\ recordsByEntity'[r] = recordsByEntity[r]
        /\ exhausted'[r] = exhausted[r] /\ fetched'[r] = fetched[r]
    BY <1>2 DEF TypeOK, StartFails, FetchFails, FinishFails
  <2>2. QED
    BY <2>1 DEF HandBy, Flushed
<1>3. ASSUME NEW rec \in Records, Fetch(r, rec) PROVE HandBy(r)'
  BY <1>3, FetchHand
<1>4. CASE FeedEnds(r)
  <2>1. /\ pc[r] = "reading" /\ row'[r] = row[r] /\ exhausted'[r] = TRUE
        /\ pc'[r] = IF buffer[r] = <<>> THEN "succeeding" ELSE "storing"
        /\ buffer'[r] = buffer[r] /\ recordsByEntity'[r] = recordsByEntity[r]
        /\ byCollection'[r] = byCollection[r] /\ fetched'[r] = fetched[r]
    BY <1>4 DEF TypeOK, FeedEnds
  <2>2. row[r].status = "running"
    BY <1>0, <2>1 DEF Active, Suspended
  <2>3. QED
    BY <2>1, <2>2 DEF HandBy, Flushed
<1>5. CASE Store(r)
  <2>1. /\ pc[r] = "storing" /\ pc'[r] = "publishing" /\ row'[r] = row[r]
        /\ buffer'[r] = buffer[r] /\ recordsByEntity'[r] = recordsByEntity[r]
        /\ exhausted'[r] = exhausted[r]
        /\ byCollection'[r] = byCollection[r] /\ fetched'[r] = fetched[r]
    BY <1>5 DEF TypeOK, Store
  <2>2. QED
    BY <2>1 DEF HandBy, Flushed
<1>6. CASE StoreFails(r) \/ UnifyFails(r) \/ \E e \in Entities : PublishFails(r, e)
  <2>1. /\ pc'[r] = "failing" /\ row'[r] = row[r]
        /\ buffer'[r] = buffer[r] /\ recordsByEntity'[r] = recordsByEntity[r]
        /\ exhausted'[r] = exhausted[r] /\ fetched'[r] = fetched[r]
    BY <1>6 DEF TypeOK, StoreFails, UnifyFails, PublishFails
  <2>2. QED
    BY <2>1 DEF HandBy, Flushed
<1>7. ASSUME NEW e \in Entities, Publish(r, e) PROVE HandBy(r)'
  BY <1>7, PublishHand
<1>8. CASE Unify(r)
  BY <1>8, UnifyHand
<1>9. CASE FlushEnds(r)
  <2>1. /\ pc[r] = "publishing" /\ row'[r] = row[r] /\ exhausted'[r] = exhausted[r]
        /\ pc'[r] = IF exhausted[r] THEN "succeeding" ELSE "reading"
        /\ buffer'[r] = <<>> /\ \A e \in Entities : recordsByEntity'[r][e] = <<>>
        /\ byCollection'[r] = byCollection[r] /\ fetched'[r] = fetched[r]
    BY <1>9 DEF TypeOK, FlushEnds
  <2>2. row[r].status = "running"
    BY <1>0, <2>1 DEF Active, Suspended
  <2>3. /\ Len(buffer'[r]) = 0 /\ DOMAIN buffer'[r] = {} /\ Len(fetched[r]) \in Nat
        /\ BatchSize \in Nat \ {0}
    BY <2>1, HandType, EmptySeq, ConstantsAssumption
  <2>4. \A e \in Entities : GroupOf(recordsByEntity'[r][e], buffer'[r], e)
    BY <2>1, GroupEmpty
  <2>5. QED
    BY <2>1, <2>2, <2>3, <2>4 DEF HandBy, Flushed
<1>10. CASE Finish(r)
  <2>1. /\ HandUntouched(r) /\ pc'[r] = "returned"
        /\ row'[r].status = "success" => pc[r] = "succeeding"
    BY <1>10 DEF TypeOK, Finish, HandUntouched, Rows
  <2>2. QED
    BY <2>1, HandCloses
<1>11. QED
  BY <1>1, <1>2, <1>3, <1>4, <1>5, <1>6, <1>7, <1>8, <1>9, <1>10 DEF StepOf, Progress, Failure

LEMMA InitHand == Init => Hand
<1> SUFFICES ASSUME Init, NEW r \in Runs PROVE HandBy(r)
  BY DEF Hand
<1>1. /\ pc[r] = "idle" /\ row[r].status = "absent" /\ buffer[r] = <<>> /\ fetched[r] = <<>>
      /\ byCollection[r] = <<>> /\ \A e \in Entities : recordsByEntity[r][e] = <<>>
  BY DEF Init
<1>2. Len(<<>>) = 0 /\ DOMAIN <<>> = {}
  OBVIOUS
<1>3. \A e \in Entities : GroupOf(recordsByEntity[r][e], buffer[r], e)
  BY <1>1, GroupEmpty
<1>4. QED
  BY <1>1, <1>2, <1>3, ConstantsAssumption DEF HandBy, Flushed

LEMMA NextHand == TypeOK /\ RowFollowsRun /\ Hand /\ [Next]_vars => Hand'
<1> SUFFICES ASSUME TypeOK, RowFollowsRun, Hand, [Next]_vars, NEW r \in Runs PROVE HandBy(r)'
  BY DEF Hand
<1>0. HandBy(r)
  BY DEF Hand
<1>1. ASSUME NEW q \in Runs, StepOf(q) PROVE HandBy(r)'
  BY <1>0, <1>1, OwnHand, OthersUntouched, HandStays
<1>2. CASE Crash
  <2>1. CASE pc'[r] = pc[r]
    BY <1>0, <1>2, <2>1, CrashUntouched, HandStays DEF Untouched
  <2>2. CASE pc'[r] = "lost"
    BY <1>0, <1>2, <2>2, CrashUntouched, HandCloses
  <2>3. QED
    BY <1>2, <2>1, <2>2, CrashUntouched
<1>3. ASSUME NEW k \in Keys, NEW p \in Payloads, Edit(k, p) PROVE HandBy(r)'
  BY <1>0, <1>3, EditUntouched, HandStays
<1>4. CASE UNCHANGED vars
  BY <1>0, <1>4, HandStays DEF vars, batch, event, history, Untouched, HandUntouched
<1>5. QED
  BY <1>1, <1>2, <1>3, <1>4, NextSteps

\* Spec => []BoundedMemory: a run holds no more than a batch, and its groups are its buffer,
\* by entity and in order.
THEOREM MemoryIsBounded == Spec => []BoundedMemory
<1>1. Init => TypeOK /\ RowFollowsRun /\ Hand
  BY InitType, InitRow, InitHand
<1>2. TypeOK /\ RowFollowsRun /\ Hand /\ [Next]_vars => (TypeOK /\ RowFollowsRun /\ Hand)'
  BY NextType, NextRow, NextHand
<1>3. Hand => BoundedMemory
  BY DEF Hand, HandBy, BoundedMemory
<1>4. QED
  BY <1>1, <1>2, <1>3, PTL DEF Spec

-----------------------------------------------------------------------------
(* What of a run is safe. *)

\* A record of the buffer that the flush has stored, and unified or is about to unify if
\* its entity is published.
Pending(r, c, k) ==
  \E w \in DOMAIN byCollection[r] :
     /\ byCollection[r][w].collection = c
     /\ byCollection[r][w].records = recordsByEntity[r][EntityOf[k]]

Carried(r, rec) ==
  /\ raw[rec.key] # Missing /\ rec.payload \in ingested[rec.key]
  /\ EntityOf[rec.key] \notin unpublished[r] =>
       /\ rec.payload \notin Odd
       /\ Accepted(rec) =>
            \A c \in TargetsOf(rec.key) : unified[c][rec.key] # Missing \/ Pending(r, c, rec.key)

\* What earlier flushes carried has landed, what the current one holds is carried.
LandedBy(r) ==
  /\ \A i \in 1..Flushed(r) : Landed(fetched[r][i]) /\ fetched[r][i].payload \notin Odd
  /\ pc[r] \in {"publishing", "unifying"} => \A j \in DOMAIN buffer[r] : Carried(r, buffer[r][j])

AllLanded == \A r \in Runs : LandedBy(r)

\* The collections a key maps to are collections.
LEMMA TargetsType ==
  ASSUME NEW k \in Keys
  PROVE  /\ Targets[EntityOf[k]] \in Seq(Collections)
         /\ TargetsOf(k) \subseteq Collections
<1>1. Targets[EntityOf[k]] \in Seq(Collections)
  BY ConstantsAssumption
<1>2. \A i \in DOMAIN Targets[EntityOf[k]] : Targets[EntityOf[k]][i] \in Collections
  BY <1>1, LenProperties, ElementOfSeq
<1>3. QED
  BY <1>1, <1>2 DEF TargetsOf

\* What has landed stays there.
LEMMA LandedGrows ==
  ASSUME Grows, NEW rec \in Records, Landed(rec)
  PROVE  /\ raw'[rec.key] # Missing /\ rec.payload \in ingested'[rec.key]
         /\ rec.payload \notin Odd \cup Unparseable =>
              \A c \in TargetsOf(rec.key) : unified'[c][rec.key] # Missing
<1>1. rec.key \in Keys
  BY DEF Records
<1>2. QED
  BY <1>1, TargetsType DEF Grows, Landed

\* So does what earlier flushes carried, for a run that fetches or waits.
LEMMA EarlierLanded ==
  ASSUME TypeOK, Grows, NEW r \in Runs, HandBy(r), LandedBy(r),
         Flushed(r)' = Flushed(r), \A i \in 1..Flushed(r) : fetched'[r][i] = fetched[r][i]
  PROVE  \A i \in 1..Flushed(r)' : Landed(fetched[r][i])' /\ fetched'[r][i].payload \notin Odd
<1> SUFFICES ASSUME NEW i \in 1..Flushed(r)
             PROVE  Landed(fetched[r][i])' /\ fetched'[r][i].payload \notin Odd
  OBVIOUS
<1>1. i \in DOMAIN fetched[r] /\ fetched[r][i] \in Records
  <2>1. i \in DOMAIN fetched[r]
    BY HandType DEF HandBy, Flushed
  <2>2. QED
    BY <2>1, HandType, SequenceType
<1>2. fetched'[r][i] = fetched[r][i] /\ Landed(fetched[r][i]) /\ fetched[r][i].payload \notin Odd
  BY DEF LandedBy
<1>3. QED
  BY <1>1, <1>2, LandedGrows DEF Landed

LEMMA LandedStays ==
  ASSUME TypeOK, Grows, NEW r \in Runs, HandBy(r), LandedBy(r), Untouched(r)
  PROVE  LandedBy(r)'
<1>1. /\ buffer'[r] = buffer[r] /\ fetched'[r] = fetched[r] /\ pc'[r] = pc[r]
      /\ unpublished'[r] = unpublished[r] /\ byCollection'[r] = byCollection[r]
      /\ recordsByEntity'[r] = recordsByEntity[r]
  BY DEF Untouched, HandUntouched
<1>2. \A i \in 1..Flushed(r)' : Landed(fetched[r][i])' /\ fetched'[r][i].payload \notin Odd
  BY <1>1, EarlierLanded DEF Flushed
<1>3. ASSUME pc[r] \in {"publishing", "unifying"}, NEW j \in DOMAIN buffer[r]
      PROVE  Carried(r, buffer[r][j])'
  <2>1. Carried(r, buffer[r][j]) /\ buffer[r][j].key \in Keys
    BY <1>3, HandType DEF LandedBy
  <2>2. \A c \in TargetsOf(buffer[r][j].key) :
           unified[c][buffer[r][j].key] # Missing => unified'[c][buffer[r][j].key] # Missing
    BY <2>1, TargetsType DEF Grows
  <2>3. /\ raw'[buffer[r][j].key] # Missing
        /\ buffer[r][j].payload \in ingested'[buffer[r][j].key]
    BY <2>1 DEF Grows, Carried
  <2>4. \A c \in TargetsOf(buffer[r][j].key) :
           Pending(r, c, buffer[r][j].key) => Pending(r, c, buffer[r][j].key)'
    BY <1>1 DEF Pending
  <2>5. QED
    BY <1>1, <2>1, <2>2, <2>3, <2>4 DEF Carried
<1>4. QED
  BY <1>1, <1>2, <1>3 DEF LandedBy

\* A run that does not flush has nothing to carry.
LEMMA LandedOutside ==
  ASSUME TypeOK, Grows, NEW r \in Runs, HandBy(r), LandedBy(r),
         buffer'[r] = buffer[r], fetched'[r] = fetched[r],
         pc'[r] \notin {"publishing", "unifying"}
  PROVE  LandedBy(r)'
<1>1. \A i \in 1..Flushed(r)' : Landed(fetched[r][i])' /\ fetched'[r][i].payload \notin Odd
  BY EarlierLanded DEF Flushed
<1>2. QED
  BY <1>1 DEF LandedBy

\* The entity of a record of the buffer has a group.
LEMMA GroupNotEmpty ==
  ASSUME TypeOK, NEW r \in Runs, HandBy(r), NEW j \in DOMAIN buffer[r]
  PROVE  recordsByEntity[r][EntityOf[buffer[r][j].key]] # <<>>
<1>1. PICK e \in Entities : EntityOf[buffer[r][j].key] = e
  BY HandType
<1>2. PICK recs \in Seq(Records), group \in Seq(Records) :
        /\ recs = buffer[r] /\ group = recordsByEntity[r][e]
        /\ GroupOf(group, recs, e)
  BY HandType DEF HandBy
<1>3. \E i \in DOMAIN group : group[i] = recs[j]
  BY <1>1, <1>2, GroupHas
<1>4. group # <<>>
  BY <1>3
<1>5. QED
  BY <1>1, <1>2, <1>4

\* A buffer is stored: everything in it is carried, with its entity still to publish.
LEMMA StoreLanded ==
  ASSUME TypeOK, Grows, NEW r \in Runs, HandBy(r), LandedBy(r), Store(r)
  PROVE  LandedBy(r)'
<1>1. /\ buffer'[r] = buffer[r] /\ fetched'[r] = fetched[r]
      /\ unpublished'[r] = {e \in Entities : recordsByEntity[r][e] # <<>>}
      /\ Ingest(buffer[r], DOMAIN buffer[r])
  BY DEF TypeOK, Store, batch
<1>2. \A i \in 1..Flushed(r)' : Landed(fetched[r][i])' /\ fetched'[r][i].payload \notin Odd
  BY <1>1, EarlierLanded DEF Flushed
<1>3. ASSUME NEW j \in DOMAIN buffer[r] PROVE Carried(r, buffer[r][j])'
  <2>1. /\ buffer[r][j].key \in Keys /\ EntityOf[buffer[r][j].key] \in Entities
        /\ buffer[r] \in Seq(Records) /\ raw \in [Keys -> Documents]
    BY <1>3, HandType DEF TypeOK
  <2>2. raw'[buffer[r][j].key] # Missing
    BY <1>1, <1>3, <2>1, UpsertedLast DEF Ingest
  <2>3. buffer[r][j].payload \in ingested'[buffer[r][j].key]
    BY <1>1, <1>3, <2>1, IngestGrows
  <2>4. EntityOf[buffer[r][j].key] \in unpublished'[r]
    BY <1>1, <1>3, <2>1, GroupNotEmpty
  <2>5. QED
    BY <1>1, <2>2, <2>3, <2>4 DEF Carried
<1>4. QED
  BY <1>1, <1>2, <1>3 DEF LandedBy

\* An entity is published: none of its records is odd, and the upserts of those its mapper
\* accepts are pending.
LEMMA PublishLanded ==
  ASSUME TypeOK, Grows, RowFollowsRun, NEW r \in Runs, HandBy(r), LandedBy(r),
         NEW e \in Entities, Publish(r, e)
  PROVE  LandedBy(r)'
<1>1. /\ buffer'[r] = buffer[r] /\ fetched'[r] = fetched[r] /\ pc[r] = "publishing"
      /\ recordsByEntity'[r] = recordsByEntity[r] /\ ~MapperRaises(r, e)
  BY DEF TypeOK, Publish, batch, history
<1>2. /\ unpublished'[r] = unpublished[r] \ {e} /\ byCollection[r] = <<>>
      /\ Mappable(recordsByEntity[r][e]) # {} =>
           byCollection'[r] = [i \in DOMAIN Targets[e] |->
             [collection |-> Targets[e][i], records |-> recordsByEntity[r][e]]]
  BY <1>1, PublishHand DEF HandBy
<1>3. \A i \in 1..Flushed(r)' : Landed(fetched[r][i])' /\ fetched'[r][i].payload \notin Odd
  BY <1>1, EarlierLanded DEF Flushed
<1>4. ASSUME NEW j \in DOMAIN buffer[r] PROVE Carried(r, buffer[r][j])'
  <2> DEFINE rec == buffer[r][j]
  <2>1. Carried(r, rec) /\ rec.key \in Keys /\ buffer[r] \in Seq(Records)
    BY <1>1, <1>4, HandType DEF LandedBy
  <2>2. raw'[rec.key] # Missing /\ rec.payload \in ingested'[rec.key]
    BY <2>1 DEF Carried, Grows
  <2>3. CASE EntityOf[rec.key] = e
    <3>1. GroupOf(recordsByEntity[r][e], buffer[r], e) /\ recordsByEntity[r][e] \in Seq(Records)
      BY HandType DEF HandBy
    <3>2. PICK i \in DOMAIN recordsByEntity[r][e] : recordsByEntity[r][e][i] = rec
      BY <1>4, <2>1, <2>3, <3>1, GroupHas
    <3>3. rec.payload \notin Odd
      BY <1>1, <3>2 DEF MapperRaises
    <3>4. ASSUME Accepted(rec), NEW c \in TargetsOf(rec.key)
          PROVE  \E w \in DOMAIN byCollection'[r] :
                   /\ byCollection'[r][w].collection = c
                   /\ byCollection'[r][w].records = recordsByEntity[r][EntityOf[rec.key]]
      <4>1. i \in Mappable(recordsByEntity[r][e])
        BY <3>2, <3>4 DEF Mappable, Accepted
      <4>2. PICK w \in DOMAIN Targets[e] : Targets[e][w] = c
        BY <2>3, <3>4 DEF TargetsOf
      <4>3. QED
        BY <1>2, <2>3, <4>1, <4>2
    <3>5. ASSUME Accepted(rec), NEW c \in TargetsOf(rec.key) PROVE Pending(r, c, rec.key)'
      BY <1>1, <3>4, <3>5 DEF Pending
    <3>6. QED
      BY <1>1, <2>2, <3>3, <3>5 DEF Carried
  <2>4. CASE EntityOf[rec.key] # e
    <3>1. ASSUME EntityOf[rec.key] \notin unpublished'[r]
          PROVE  /\ rec.payload \notin Odd
                 /\ Accepted(rec) => \A c \in TargetsOf(rec.key) : unified'[c][rec.key] # Missing
      <4>1. EntityOf[rec.key] \notin unpublished[r]
        BY <1>2, <2>4, <3>1
      <4>2. \A c \in TargetsOf(rec.key) : ~Pending(r, c, rec.key)
        BY <1>2 DEF Pending
      <4>3. \A c \in TargetsOf(rec.key) :
               unified[c][rec.key] # Missing => unified'[c][rec.key] # Missing
        BY <2>1, TargetsType DEF Grows
      <4>4. QED
        BY <2>1, <4>1, <4>2, <4>3 DEF Carried
    <3>2. QED
      BY <1>1, <2>2, <3>1 DEF Carried
  <2>5. QED
    BY <2>3, <2>4
<1>5. QED
  BY <1>1, <1>3, <1>4 DEF LandedBy

\* A collection is written: what was pending for it is there.
LEMMA UnifyLanded ==
  ASSUME TypeOK, Grows, NEW r \in Runs, HandBy(r), LandedBy(r), Unify(r)
  PROVE  LandedBy(r)'
<1> DEFINE write == Head(byCollection[r])
<1>1. /\ pc[r] = "unifying" /\ byCollection[r] # <<>>
      /\ byCollection'[r] = Tail(byCollection[r]) /\ unpublished'[r] = unpublished[r]
      /\ buffer'[r] = buffer[r] /\ recordsByEntity'[r] = recordsByEntity[r]
      /\ fetched'[r] = fetched[r]
  BY DEF TypeOK, Unify, batch, history
<1>2. \A i \in 1..Flushed(r)' : Landed(fetched[r][i])' /\ fetched'[r][i].payload \notin Odd
  BY <1>1, EarlierLanded DEF Flushed
<1>3. /\ write.collection \in Collections /\ write.records \in Seq(Records)
      /\ write = byCollection[r][1]
      /\ unified[write.collection] \in [Keys -> Documents]
      /\ unified'[write.collection] =
           Upserted(unified[write.collection], write.records, Mappable(write.records))
  BY <1>1, HeadWrite DEF TypeOK, Unify, Unified, Writes
<1>4. \A w \in DOMAIN byCollection[r] :
         w = 1 \/ (w - 1 \in DOMAIN byCollection'[r] /\ byCollection'[r][w-1] = byCollection[r][w])
  BY <1>1, HeadWrite
<1>5. ASSUME NEW j \in DOMAIN buffer[r] PROVE Carried(r, buffer[r][j])'
  <2> DEFINE rec == buffer[r][j]
             e == EntityOf[rec.key]
  <2>1. /\ Carried(r, rec) /\ rec.key \in Keys /\ e \in Entities
        /\ buffer[r] \in Seq(Records)
    BY <1>1, <1>5, HandType DEF LandedBy
  <2>2. raw'[rec.key] # Missing /\ rec.payload \in ingested'[rec.key]
    BY <2>1 DEF Carried, Grows
  <2>3. ASSUME Accepted(rec), NEW c \in TargetsOf(rec.key), unified'[c][rec.key] = Missing,
               e \notin unpublished[r]
        PROVE  \E w \in DOMAIN byCollection'[r] : /\ byCollection'[r][w].collection = c
                                                  /\ byCollection'[r][w].records = recordsByEntity[r][e]
    <3>1. PICK w \in DOMAIN byCollection[r] : /\ byCollection[r][w].collection = c
                                              /\ byCollection[r][w].records = recordsByEntity[r][e]
      BY <2>1, <2>3, TargetsType DEF Carried, Pending, Grows
    <3>2. ASSUME w = 1 PROVE FALSE
      <4>1. write.collection = c /\ GroupOf(write.records, buffer[r], e)
        BY <1>3, <2>1, <3>1, <3>2 DEF HandBy
      <4>2. unified'[c][rec.key] # Missing
        BY <1>3, <1>5, <2>1, <2>3, <4>1, GroupWritten
      <4>3. QED
        BY <2>3, <4>2
    <3>3. QED
      BY <1>4, <3>1, <3>2
  <2>4. e \notin unpublished[r] => rec.payload \notin Odd
    BY <2>1 DEF Carried
  <2>5. ASSUME Accepted(rec), NEW c \in TargetsOf(rec.key), e \notin unpublished[r]
        PROVE  unified'[c][rec.key] # Missing \/ Pending(r, c, rec.key)'
    BY <1>1, <2>3, <2>5 DEF Pending
  <2>6. QED
    BY <1>1, <2>2, <2>4, <2>5 DEF Carried
<1>6. QED
  BY <1>1, <1>2, <1>5 DEF LandedBy

\* A flush is over: what it carried has landed.
LEMMA FlushLanded ==
  ASSUME TypeOK, Grows, NEW r \in Runs, HandBy(r), LandedBy(r), FlushEnds(r)
  PROVE  LandedBy(r)'
<1>1. /\ pc[r] = "publishing" /\ unpublished[r] = {} /\ byCollection[r] = <<>>
      /\ pc'[r] \in {"reading", "succeeding"}
      /\ buffer'[r] = <<>> /\ fetched'[r] = fetched[r]
      /\ UNCHANGED <<raw, unified, ingested>>
  BY DEF TypeOK, FlushEnds, HandBy, Goto, store, history
<1>2. Flushed(r)' = Len(fetched[r])
  BY <1>1, HandType, EmptySeq DEF Flushed
<1>3. ASSUME NEW i \in 1..Len(fetched[r])
      PROVE  Landed(fetched[r][i]) /\ fetched[r][i].payload \notin Odd
  <2>1. CASE i \in 1..Flushed(r)
    BY <2>1 DEF LandedBy
  <2>2. CASE i \notin 1..Flushed(r)
    <3> DEFINE j == i - Flushed(r)
    <3>0. /\ Len(buffer[r]) \in Nat /\ Len(fetched[r]) \in Nat
          /\ DOMAIN buffer[r] = 1..Len(buffer[r])
          /\ Len(buffer[r]) <= Len(fetched[r])
      BY HandType DEF HandBy
    <3>1. Flushed(r) \in Nat /\ Flushed(r) + Len(buffer[r]) = Len(fetched[r])
      BY <3>0 DEF Flushed
    <3>2. /\ Flushed(r) \in Nat /\ Flushed(r) + Len(buffer[r]) = Len(fetched[r])
          /\ i \in Nat /\ i > Flushed(r) /\ i <= Len(fetched[r])
      BY <1>3, <2>2, <3>0, <3>1
    <3>3. j \in DOMAIN buffer[r] /\ Flushed(r) + j = i
      BY <3>0, <3>2
    <3>4. fetched[r][i] = buffer[r][j] /\ Carried(r, buffer[r][j])
      BY <1>1, <3>3 DEF HandBy, LandedBy
    <3>5. QED
      BY <1>1, <3>4 DEF Carried, Pending, Landed, Accepted
  <2>3. QED
    BY <2>1, <2>2
<1>4. QED
  BY <1>1, <1>2, <1>3 DEF LandedBy, Landed

LEMMA OwnLanded ==
  ASSUME TypeOK, RowFollowsRun, Grows, NEW r \in Runs, HandBy(r), LandedBy(r), StepOf(r)
  PROVE  LandedBy(r)'
<1> USE DEF Goto, Fail, batch, event, store, history
<1>1. CASE \/ Start(r) \/ StartFails(r) \/ FetchFails(r) \/ FeedEnds(r) \/ StoreFails(r)
           \/ UnifyFails(r) \/ Finish(r) \/ FinishFails(r) \/ \E e \in Entities : PublishFails(r, e)
  <2>1. /\ buffer'[r] = buffer[r] /\ fetched'[r] = fetched[r]
        /\ pc'[r] \notin {"publishing", "unifying"}
    BY <1>1 DEF TypeOK, Start, StartFails, FetchFails, FeedEnds, StoreFails, UnifyFails, Finish,
       FinishFails, PublishFails
  <2>2. QED
    BY <2>1, LandedOutside
<1>2. ASSUME NEW rec \in Records, Fetch(r, rec) PROVE LandedBy(r)'
  <2>1. /\ buffer'[r] = Append(buffer[r], rec) /\ fetched'[r] = Append(fetched[r], rec)
        /\ pc'[r] \notin {"publishing", "unifying"}
    BY <1>2 DEF TypeOK, Fetch
  <2>0. /\ Len(buffer[r]) \in Nat /\ Len(buffer'[r]) = Len(buffer[r]) + 1
        /\ Len(fetched[r]) \in Nat /\ Len(fetched'[r]) = Len(fetched[r]) + 1
        /\ \A i \in 1..Len(fetched[r]) : fetched'[r][i] = fetched[r][i]
    BY <2>1, HandType, Appended
  <2>2. /\ Flushed(r)' = Flushed(r)
        /\ \A i \in 1..Len(fetched[r]) : fetched'[r][i] = fetched[r][i]
    BY <2>0 DEF Flushed
  <2>3. \A i \in 1..Flushed(r) : i \in 1..Len(fetched[r])
    BY HandType DEF Flushed
  <2>4. \A i \in 1..Flushed(r)' : Landed(fetched[r][i])' /\ fetched'[r][i].payload \notin Odd
    BY <2>2, <2>3, EarlierLanded
  <2>5. QED
    BY <2>1, <2>4 DEF LandedBy
<1>3. ASSUME NEW e \in Entities, Publish(r, e) PROVE LandedBy(r)'
  BY <1>3, PublishLanded
<1>4. QED
  BY <1>1, <1>2, <1>3, StoreLanded, UnifyLanded, FlushLanded DEF StepOf, Progress, Failure

LEMMA NextLanded ==
  TypeOK /\ RowFollowsRun /\ Hand /\ AllLanded /\ [Next]_vars => AllLanded'
<1> SUFFICES ASSUME TypeOK, RowFollowsRun, Hand, AllLanded, [Next]_vars, NEW r \in Runs
             PROVE  LandedBy(r)'
  BY DEF AllLanded
<1>0. HandBy(r) /\ LandedBy(r) /\ Grows
  BY NextGrows DEF Hand, AllLanded
<1>1. ASSUME NEW q \in Runs, StepOf(q) PROVE LandedBy(r)'
  BY <1>0, <1>1, OwnLanded, OthersUntouched, LandedStays
<1>2. CASE Crash
  <2>1. CASE pc'[r] = pc[r]
    BY <1>0, <1>2, <2>1, CrashUntouched, LandedStays DEF Untouched
  <2>2. CASE pc'[r] = "lost"
    BY <1>0, <1>2, <2>2, CrashUntouched, LandedOutside DEF HandUntouched
  <2>3. QED
    BY <1>2, <2>1, <2>2, CrashUntouched
<1>3. ASSUME NEW k \in Keys, NEW p \in Payloads, Edit(k, p) PROVE LandedBy(r)'
  BY <1>0, <1>3, EditUntouched, LandedStays
<1>4. CASE UNCHANGED vars
  BY <1>0, <1>4, LandedStays DEF vars, batch, event, history, Untouched, HandUntouched
<1>5. QED
  BY <1>1, <1>2, <1>3, <1>4, NextSteps

LEMMA InitLanded == Init => AllLanded
<1> SUFFICES ASSUME Init, NEW r \in Runs PROVE LandedBy(r)
  BY DEF AllLanded
<1>1. pc[r] = "idle" /\ Len(buffer[r]) = 0 /\ Len(fetched[r]) = 0
  BY EmptySeq DEF Init
<1>2. QED
  BY <1>1 DEF LandedBy, Flushed

\* Spec => []OnlyTheBatchIsLost: however a run ends, all that its earlier flushes carried
\* is in the raw collection and in every unified collection it maps to.
THEOREM OnlyTheBatchCanBeLost == Spec => []OnlyTheBatchIsLost
<1> DEFINE Inv == TypeOK /\ RowFollowsRun /\ Hand /\ AllLanded
<1>1. Init => Inv
  BY InitType, InitRow, InitHand, InitLanded
<1>2. Inv /\ [Next]_vars => Inv'
  BY NextType, NextRow, NextHand, NextLanded
<1>3. Inv => OnlyTheBatchIsLost
  BY DEF AllLanded, LandedBy, OnlyTheBatchIsLost, Flushed
<1>4. QED
  BY <1>1, <1>2, <1>3, PTL DEF Spec

-----------------------------------------------------------------------------
(* What a row says. *)

\* The keys of the first n records.
KeysOf(recs, n) == {recs[i].key : i \in 1..n}

\* total lies between the keys and the records of what was stored, the cause of a failure is
\* known while it is written down, and a row that is closed says what the run knew.
CountedBy(r) ==
  /\ total[r] <= Len(fetched[r])
  /\ pc[r] \in {"idle", "reading", "storing"} =>
       total[r] <= Flushed(r) /\ Cardinality(KeysOf(fetched[r], Flushed(r))) <= total[r]
  /\ pc[r] \in {"publishing", "unifying", "succeeding"} \/ row[r].status = "success" =>
       Cardinality(KeysOf(fetched[r], Len(fetched[r]))) <= total[r]
  /\ pc[r] \in Suspended \cup {"idle"} => (error[r] # "none" <=> pc[r] = "failing")
  /\ row[r].status \in {"success", "failure"} =>
       /\ row[r].count = total[r] /\ row[r].error = error[r]
       /\ row[r].status = "success" <=> error[r] = "none"

AllCounted == \A r \in Runs : CountedBy(r)

\* A part of the records has no more than its keys, and two parts have those of both.
LEMMA KeysType ==
  ASSUME NEW recs \in Seq(Records), NEW n \in 0..Len(recs)
  PROVE  /\ IsFiniteSet(KeysOf(recs, n)) /\ Cardinality(KeysOf(recs, n)) \in Nat
         /\ Cardinality(KeysOf(recs, n)) <= Cardinality(KeysOf(recs, Len(recs)))
<1>1. IsFiniteSet(KeysOf(recs, Len(recs)))
  <2>1. Len(recs) \in Nat /\ DOMAIN recs = 1..Len(recs)
    BY LenProperties
  <2>2. IsFiniteSet({recs[i].key : i \in 1..Len(recs)})
    BY <2>1, WrittenBounds
  <2>3. QED
    BY <2>2 DEF KeysOf
<1>2. KeysOf(recs, n) \in SUBSET KeysOf(recs, Len(recs))
  BY LenProperties DEF KeysOf
<1>3. QED
  BY <1>1, <1>2, FS_Subset, FS_CardinalityType

LEMMA KeysJoin ==
  ASSUME NEW recs \in Seq(Records), NEW part \in Seq(Records), NEW n \in Nat,
         Len(recs) = n + Len(part), \A j \in DOMAIN part : recs[n + j] = part[j]
  PROVE  Cardinality(KeysOf(recs, Len(recs)))
           <= Cardinality(KeysOf(recs, n)) + Cardinality(KeysOf(part, Len(part)))
<1> DEFINE all == KeysOf(recs, Len(recs))
           old == KeysOf(recs, n)
           new == KeysOf(part, Len(part))
<1>0. Len(part) \in Nat /\ DOMAIN part = 1..Len(part) /\ Len(part) \in 0..Len(part)
      /\ n \in 0..Len(recs)
  BY LenProperties
<1>1. all \subseteq old \cup new
  <2> SUFFICES ASSUME NEW i \in 1..Len(recs) PROVE recs[i].key \in old \cup new
    BY DEF KeysOf
  <2>1. CASE i \in 1..n
    BY <2>1 DEF KeysOf
  <2>2. CASE i \notin 1..n
    <3>1. i - n \in 1..Len(part) /\ n + (i - n) = i
      BY <1>0, <2>2
    <3>2. QED
      BY <1>0, <3>1 DEF KeysOf
  <2>3. QED
    BY <2>1, <2>2
<1>2. /\ IsFiniteSet(old) /\ IsFiniteSet(new)
      /\ Cardinality(old) \in Nat /\ Cardinality(new) \in Nat
  BY <1>0, KeysType
<1> HIDE DEF all, old, new
<1>3. /\ IsFiniteSet(old \cup new) /\ Cardinality(old \cup new) \in Nat
      /\ Cardinality(old \cup new) = Cardinality(old) + Cardinality(new) - Cardinality(old \cap new)
  BY <1>2, FS_Union, FS_CardinalityType
<1>4. IsFiniteSet(old \cap new) /\ Cardinality(old \cap new) \in Nat
  <2>1. old \cap new \in SUBSET old
    OBVIOUS
  <2>2. QED
    BY <1>2, <2>1, FS_Subset, FS_CardinalityType
<1>5. IsFiniteSet(all) /\ Cardinality(all) <= Cardinality(old \cup new) /\ Cardinality(all) \in Nat
  BY <1>1, <1>3, FS_Subset, FS_CardinalityType
<1>6. Cardinality(all) <= Cardinality(old) + Cardinality(new)
  BY <1>2, <1>3, <1>4, <1>5
<1>7. QED
  BY <1>6 DEF all, old, new

LEMMA FlushedType ==
  ASSUME TypeOK, NEW r \in Runs, HandBy(r)
  PROVE  /\ Len(buffer[r]) \in Nat /\ Len(fetched[r]) \in Nat /\ total[r] \in Nat
         /\ Flushed(r) \in Nat /\ Flushed(r) + Len(buffer[r]) = Len(fetched[r])
         /\ Flushed(r) \in 0..Len(fetched[r])
<1>1. /\ Len(buffer[r]) \in Nat /\ Len(fetched[r]) \in Nat
      /\ Len(buffer[r]) <= Len(fetched[r])
  BY HandType DEF HandBy
<1>2. Flushed(r) \in Nat /\ Flushed(r) + Len(buffer[r]) = Len(fetched[r])
  BY <1>1 DEF Flushed
<1>3. QED
  BY <1>1, <1>2 DEF TypeOK

LEMMA CountedStays ==
  ASSUME NEW r \in Runs, CountedBy(r), Untouched(r)
  PROVE  CountedBy(r)'
BY DEF CountedBy, Untouched, HandUntouched, Flushed

\* A run that fails knows why; one that is gone leaves its row open.
LEMMA CountedCloses ==
  ASSUME NEW r \in Runs, CountedBy(r), row[r].status \notin {"success", "failure"},
         row'[r] = row[r], total'[r] = total[r], fetched'[r] = fetched[r],
         pc'[r] \in {"failing", "raised", "lost"},
         pc'[r] = "failing" => error'[r] # "none"
  PROVE  CountedBy(r)'
BY DEF CountedBy, Flushed, Suspended

\* A buffer is stored: its upserts and changes are counted.
LEMMA StoreCounted ==
  ASSUME TypeOK, RowFollowsRun, NEW r \in Runs, HandBy(r), CountedBy(r), Store(r)
  PROVE  CountedBy(r)'
<1>1. /\ pc[r] = "storing" /\ pc'[r] = "publishing" /\ row'[r] = row[r] /\ error'[r] = error[r]
      /\ fetched'[r] = fetched[r] /\ total'[r] = total[r] + Written(buffer[r])
  BY DEF TypeOK, Store, Goto
<1>2. row[r].status = "running" /\ error[r] = "none"
  BY <1>1 DEF RowFollowsRun, Active, Suspended, CountedBy
<1>3. /\ buffer[r] \in Seq(Records) /\ fetched[r] \in Seq(Records)
      /\ DOMAIN buffer[r] = 1..Len(buffer[r])
      /\ Len(buffer[r]) \in 0..Len(buffer[r])
  BY HandType
<1>4. /\ Written(buffer[r]) \in Nat /\ Written(buffer[r]) <= Len(buffer[r])
      /\ Cardinality({buffer[r][i].key : i \in 1..Len(buffer[r])}) <= Written(buffer[r])
  BY <1>3, FlushedType, WrittenBounds
<1>5. Cardinality(KeysOf(buffer[r], Len(buffer[r]))) <= Written(buffer[r])
  BY <1>4 DEF KeysOf
<1>6. total[r] <= Flushed(r) /\ Cardinality(KeysOf(fetched[r], Flushed(r))) <= total[r]
  BY <1>1 DEF CountedBy
<1>7. Cardinality(KeysOf(fetched[r], Len(fetched[r])))
        <= Cardinality(KeysOf(fetched[r], Flushed(r))) + Cardinality(KeysOf(buffer[r], Len(buffer[r])))
  <2>1. \A j \in DOMAIN buffer[r] : fetched[r][Flushed(r) + j] = buffer[r][j]
    BY DEF HandBy
  <2>2. Flushed(r) \in Nat /\ Len(fetched[r]) = Flushed(r) + Len(buffer[r])
    BY FlushedType
  <2>3. QED
    BY <1>3, <2>1, <2>2, KeysJoin
<1>8. /\ Cardinality(KeysOf(fetched[r], Len(fetched[r]))) \in Nat
      /\ Cardinality(KeysOf(fetched[r], Flushed(r))) \in Nat
      /\ Cardinality(KeysOf(buffer[r], Len(buffer[r]))) \in Nat
  BY <1>3, FlushedType, KeysType
<1>9. Cardinality(KeysOf(fetched[r], Len(fetched[r]))) <= total'[r]
  BY <1>1, <1>4, <1>5, <1>6, <1>7, <1>8, FlushedType
<1>10. total'[r] <= Len(fetched[r])
  BY <1>1, <1>4, <1>6, FlushedType
<1>11. QED
  BY <1>1, <1>2, <1>9, <1>10 DEF CountedBy, Suspended

LEMMA OwnCounted ==
  ASSUME TypeOK, RowFollowsRun, NEW r \in Runs, HandBy(r), CountedBy(r), StepOf(r)
  PROVE  CountedBy(r)'
<1> USE DEF Goto, Fail, batch, event, store, history
<1>0. ASSUME Active(r) PROVE row[r].status = "running"
  BY <1>0 DEF RowFollowsRun
<1>1. CASE Start(r)
  <2>1. /\ HandUntouched(r) /\ pc[r] = "idle" /\ pc'[r] = "reading"
        /\ row'[r].status = "running" /\ row[r].status = "absent"
    BY <1>1 DEF TypeOK, RowFollowsRun, Start, HandUntouched, Rows
  <2>2. QED
    BY <2>1 DEF CountedBy, HandUntouched, Flushed, Suspended
<1>2. CASE StartFails(r) \/ FetchFails(r) \/ FinishFails(r) \/ StoreFails(r) \/ UnifyFails(r)
           \/ \E e \in Entities : PublishFails(r, e)
  <2>1. /\ pc'[r] \in {"failing", "raised"} /\ row'[r] = row[r]
        /\ total'[r] = total[r] /\ fetched'[r] = fetched[r]
        /\ pc'[r] = "failing" => error'[r] # "none"
        /\ pc[r] = "idle" \/ Active(r)
    BY <1>2 DEF TypeOK, StartFails, FetchFails, FinishFails, StoreFails, UnifyFails, PublishFails,
       Active, Suspended
  <2>2. row[r].status \notin {"success", "failure"}
    BY <1>0, <2>1 DEF RowFollowsRun
  <2>3. QED
    BY <2>1, <2>2, CountedCloses
<1>3. ASSUME NEW rec \in Records, Fetch(r, rec) PROVE CountedBy(r)'
  <2>1. /\ buffer'[r] = Append(buffer[r], rec) /\ fetched'[r] = Append(fetched[r], rec)
        /\ pc[r] = "reading" /\ pc'[r] \in {"reading", "storing"}
        /\ row'[r] = row[r] /\ total'[r] = total[r] /\ error'[r] = error[r]
    BY <1>3 DEF TypeOK, Fetch
  <2>2. \A i \in 1..Len(fetched[r]) : fetched'[r][i] = fetched[r][i]
    BY <2>1, HandType, Appended
  <2>3. /\ Len(buffer[r]) \in Nat /\ Len(buffer'[r]) = Len(buffer[r]) + 1
        /\ Len(fetched[r]) \in Nat /\ Len(fetched'[r]) = Len(fetched[r]) + 1
    BY <2>1, HandType, Appended
  <2>4. Flushed(r)' = Flushed(r)
    BY <2>3 DEF Flushed
  <2>5. \A i \in 1..Flushed(r) : fetched'[r][i] = fetched[r][i]
    BY <2>2, FlushedType
  <2>6. KeysOf(fetched[r], Flushed(r))' = KeysOf(fetched[r], Flushed(r))
    BY <2>4, <2>5 DEF KeysOf
  <2>7. row[r].status = "running"
    BY <1>0, <2>1 DEF Active, Suspended
  <2>8. total[r] <= Flushed(r) /\ Cardinality(KeysOf(fetched[r], Flushed(r))) <= total[r]
        /\ error[r] = "none"
    BY <2>1 DEF CountedBy, Suspended
  <2>9. total'[r] <= Len(fetched'[r])
    BY <2>1, <2>3, <2>8, FlushedType
  <2>10. QED
    BY <2>1, <2>4, <2>6, <2>7, <2>8, <2>9 DEF CountedBy
<1>4. CASE FeedEnds(r)
  <2>1. /\ pc[r] = "reading" /\ pc'[r] = IF buffer[r] = <<>> THEN "succeeding" ELSE "storing"
        /\ row'[r] = row[r] /\ total'[r] = total[r] /\ error'[r] = error[r]
        /\ buffer'[r] = buffer[r] /\ fetched'[r] = fetched[r]
    BY <1>4 DEF TypeOK, FeedEnds
  <2>2. row[r].status = "running"
    BY <1>0, <2>1 DEF Active, Suspended
  <2>3. buffer[r] = <<>> => Flushed(r) = Len(fetched[r])
    BY FlushedType, EmptySeq
  <2>4. QED
    BY <2>1, <2>2, <2>3 DEF CountedBy, Flushed, Suspended
<1>5. CASE Store(r)
  BY <1>5, StoreCounted
<1>6. CASE Unify(r) \/ \E e \in Entities : Publish(r, e)
  <2>1. /\ pc[r] \in {"publishing", "unifying"} /\ pc'[r] \in {"publishing", "unifying"}
        /\ row'[r] = row[r] /\ total'[r] = total[r] /\ error'[r] = error[r]
        /\ fetched'[r] = fetched[r]
    BY <1>6 DEF TypeOK, Unify, Publish
  <2>2. QED
    BY <2>1 DEF CountedBy, Suspended
<1>7. CASE FlushEnds(r)
  <2>1. /\ pc[r] = "publishing" /\ pc'[r] \in {"reading", "succeeding"}
        /\ row'[r] = row[r] /\ total'[r] = total[r] /\ error'[r] = error[r]
        /\ buffer'[r] = <<>> /\ fetched'[r] = fetched[r]
    BY <1>7 DEF TypeOK, FlushEnds
  <2>2. row[r].status = "running"
    BY <1>0, <2>1 DEF Active, Suspended
  <2>3. Flushed(r)' = Len(fetched[r])
    BY <2>1, FlushedType, EmptySeq DEF Flushed
  <2>4. QED
    BY <2>1, <2>2, <2>3 DEF CountedBy, Suspended
<1>8. CASE Finish(r)
  <2>1. /\ HandUntouched(r) /\ pc'[r] = "returned" /\ pc[r] \in {"succeeding", "failing"}
        /\ row'[r] = [status |-> IF pc[r] = "succeeding" THEN "success" ELSE "failure",
                      count |-> total[r], error |-> error[r]]
    BY <1>8 DEF TypeOK, Finish, HandUntouched
  <2>2. QED
    BY <2>1 DEF CountedBy, HandUntouched, Suspended
<1>9. QED
  BY <1>1, <1>2, <1>3, <1>4, <1>5, <1>6, <1>7, <1>8 DEF StepOf, Progress, Failure

LEMMA NextCounted ==
  TypeOK /\ RowFollowsRun /\ Hand /\ AllCounted /\ [Next]_vars => AllCounted'
<1> SUFFICES ASSUME TypeOK, RowFollowsRun, Hand, AllCounted, [Next]_vars, NEW r \in Runs
             PROVE  CountedBy(r)'
  BY DEF AllCounted
<1>0. HandBy(r) /\ CountedBy(r)
  BY DEF Hand, AllCounted
<1>1. ASSUME NEW q \in Runs, StepOf(q) PROVE CountedBy(r)'
  BY <1>0, <1>1, OwnCounted, OthersUntouched, CountedStays
<1>2. CASE Crash
  <2>1. CASE pc'[r] = pc[r]
    BY <1>0, <1>2, <2>1, CrashUntouched, CountedStays DEF Untouched
  <2>2. CASE pc'[r] = "lost" /\ Active(r)
    <3>1. row[r].status = "running"
      BY <2>2 DEF RowFollowsRun
    <3>2. QED
      BY <1>0, <1>2, <2>2, <3>1, CrashUntouched, CountedCloses DEF HandUntouched
  <2>3. QED
    BY <1>2, <2>1, <2>2, CrashUntouched
<1>3. ASSUME NEW k \in Keys, NEW p \in Payloads, Edit(k, p) PROVE CountedBy(r)'
  BY <1>0, <1>3, EditUntouched, CountedStays
<1>4. CASE UNCHANGED vars
  BY <1>0, <1>4, CountedStays DEF vars, batch, event, history, Untouched, HandUntouched
<1>5. QED
  BY <1>1, <1>2, <1>3, <1>4, NextSteps

LEMMA InitCounted == Init => AllCounted
<1> SUFFICES ASSUME Init, NEW r \in Runs PROVE CountedBy(r)
  BY DEF AllCounted
<1>1. /\ pc[r] = "idle" /\ Len(buffer[r]) = 0 /\ Len(fetched[r]) = 0 /\ total[r] = 0
      /\ row[r].status = "absent" /\ error[r] = "none"
  BY EmptySeq DEF Init
<1>2. Flushed(r) = 0
  BY <1>1 DEF Flushed
<1>3. KeysOf(fetched[r], 0) = {}
  BY DEF KeysOf
<1>4. Cardinality(KeysOf(fetched[r], 0)) = 0
  BY <1>3, FS_EmptySet
<1>5. QED
  BY <1>1, <1>2, <1>4 DEF CountedBy, Suspended

\* Spec => []RowTellsTheTruth: a run that is said to have succeeded has read all of its source
\* and landed it, one that failed names the cause, and the count is in its bounds.
THEOREM RowsTellTheTruth == Spec => []RowTellsTheTruth
<1> DEFINE Inv == TypeOK /\ RowFollowsRun /\ Hand /\ AllLanded /\ AllCounted
<1>1. Init => Inv
  BY InitType, InitRow, InitHand, InitLanded, InitCounted
<1>2. Inv /\ [Next]_vars => Inv'
  BY NextType, NextRow, NextHand, NextLanded, NextCounted
<1>3. Inv => RowTellsTheTruth
  <2> SUFFICES ASSUME Inv, NEW r \in Runs
      PROVE  /\ row[r].status = "success" =>
                  /\ exhausted[r]
                  /\ \A i \in DOMAIN fetched[r] : /\ Landed(fetched[r][i])
                                                  /\ fetched[r][i].payload \notin Odd
             /\ row[r].status \in {"success", "failure"} =>
                  /\ row[r].status = "failure" <=> row[r].error # "none"
                  /\ row[r].count <= Len(fetched[r])
                  /\ row[r].status = "success" =>
                       row[r].count >= Cardinality({fetched[r][i].key : i \in DOMAIN fetched[r]})
    BY DEF RowTellsTheTruth
  <2>1. HandBy(r) /\ LandedBy(r) /\ CountedBy(r) /\ TypeOK
    BY DEF Hand, AllLanded, AllCounted
  <2>2. CASE row[r].status = "success"
    <3>1. buffer[r] = <<>> /\ exhausted[r]
      BY <2>1, <2>2 DEF HandBy
    <3>2. Flushed(r) = Len(fetched[r]) /\ DOMAIN fetched[r] = 1..Len(fetched[r])
      BY <2>1, <3>1, FlushedType, HandType, EmptySeq
    <3>3. \A i \in DOMAIN fetched[r] : Landed(fetched[r][i]) /\ fetched[r][i].payload \notin Odd
      BY <2>1, <3>2 DEF LandedBy
    <3>4. /\ row[r].count = total[r] /\ row[r].error = "none" /\ total[r] \in Nat
          /\ row[r].count <= Len(fetched[r])
          /\ Cardinality(KeysOf(fetched[r], Len(fetched[r]))) <= total[r]
      BY <2>1, <2>2, FlushedType DEF CountedBy
    <3>5. KeysOf(fetched[r], Len(fetched[r])) = {fetched[r][i].key : i \in DOMAIN fetched[r]}
      BY <3>2 DEF KeysOf
    <3>6. /\ Cardinality(KeysOf(fetched[r], Len(fetched[r]))) \in Nat
      BY <2>1, <3>2, FlushedType, HandType, KeysType
    <3>7. row[r].count >= Cardinality({fetched[r][i].key : i \in DOMAIN fetched[r]})
      BY <3>4, <3>5, <3>6
    <3>8. QED
      BY <2>2, <3>1, <3>3, <3>4, <3>7
  <2>3. CASE row[r].status = "failure"
    BY <2>1, <2>3 DEF CountedBy
  <2>4. QED
    BY <2>2, <2>3
<1>4. QED
  BY <1>1, <1>2, <1>3, PTL DEF Spec

-----------------------------------------------------------------------------
(* What a run leaves that nothing overlaps. *)

\* Of records 1..n the i-th is the last of its key.
LastOf(recs, i, n) == \A j \in i+1..n : recs[j].key # recs[i].key

Renewed(rec) ==
  /\ raw[rec.key] = rec.payload
  /\ Accepted(rec) => \A c \in TargetsOf(rec.key) : unified[c][rec.key] = rec.payload

\* A record of the buffer that the flush has stored, and unified or is about to.
Renewing(r, rec) ==
  /\ raw[rec.key] = rec.payload
  /\ Accepted(rec) /\ EntityOf[rec.key] \notin unpublished[r] =>
       \A c \in TargetsOf(rec.key) :
          unified[c][rec.key] = rec.payload \/ Pending(r, c, rec.key)

\* Between flushes the collections hold what the run read last of each key; during one they
\* hold it of the keys that are not in the buffer, and are getting it of those that are.
RenewedBy(r) ==
  /\ pc[r] \in {"reading", "storing", "succeeding"} =>
       \A i \in 1..Flushed(r) : LastOf(fetched[r], i, Flushed(r)) => Renewed(fetched[r][i])
  /\ pc[r] \in {"publishing", "unifying"} =>
       /\ \A i \in 1..Flushed(r) : LastOf(fetched[r], i, Len(fetched[r])) => Renewed(fetched[r][i])
       /\ \A j \in DOMAIN buffer[r] :
            LastOf(buffer[r], j, Len(buffer[r])) => Renewing(r, buffer[r][j])

AloneBy(r) ==
  /\ pc[r] = "idle" => fetched[r] = <<>>
  /\ solo[r] /\ Active(r) => RenewedBy(r) /\ \A q \in Runs : Active(q) => q = r

Alone == \A r \in Runs : AloneBy(r)

\* A record of an earlier flush that is the last of its key has none of that key after it.
LEMMA EarlierLast ==
  ASSUME TypeOK, NEW r \in Runs, HandBy(r), NEW i \in 1..Flushed(r),
         LastOf(fetched[r], i, Len(fetched[r]))
  PROVE  /\ \A j \in DOMAIN buffer[r] : buffer[r][j].key # fetched[r][i].key
         /\ LastOf(fetched[r], i, Flushed(r))
         /\ fetched[r][i] \in Records /\ fetched[r][i].key \in Keys
<1>0. /\ Flushed(r) \in Nat /\ Len(buffer[r]) \in Nat /\ Flushed(r) + Len(buffer[r]) = Len(fetched[r])
      /\ DOMAIN buffer[r] = 1..Len(buffer[r]) /\ DOMAIN fetched[r] = 1..Len(fetched[r])
      /\ fetched[r] \in Seq(Records) /\ Len(fetched[r]) \in Nat
  BY HandType, FlushedType
<1>1. ASSUME NEW j \in DOMAIN buffer[r] PROVE buffer[r][j].key # fetched[r][i].key
  <2>1. Flushed(r) + j \in i+1..Len(fetched[r])
    BY <1>0
  <2>2. fetched[r][Flushed(r) + j] = buffer[r][j]
    BY DEF HandBy
  <2>3. QED
    BY <2>1, <2>2 DEF LastOf
<1>2. LastOf(fetched[r], i, Flushed(r))
  <2>1. \A j \in i+1..Flushed(r) : j \in i+1..Len(fetched[r])
    BY <1>0
  <2>2. QED
    BY <2>1 DEF LastOf
<1>3. i \in DOMAIN fetched[r]
  BY <1>0
<1>4. QED
  BY <1>0, <1>1, <1>2, <1>3, SequenceType

\* A record of the buffer that is the last of its key there.
LEMMA BufferLast ==
  ASSUME TypeOK, NEW r \in Runs, NEW j \in DOMAIN buffer[r],
         LastOf(buffer[r], j, Len(buffer[r]))
  PROVE  /\ \A l \in DOMAIN buffer[r] : buffer[r][l].key = buffer[r][j].key => l <= j
         /\ buffer[r] \in Seq(Records) /\ buffer[r][j] \in Records
         /\ buffer[r][j].key \in Keys /\ EntityOf[buffer[r][j].key] \in Entities
<1>1. /\ buffer[r] \in Seq(Records) /\ Len(buffer[r]) \in Nat
      /\ DOMAIN buffer[r] = 1..Len(buffer[r])
  BY HandType
<1>2. ASSUME NEW l \in DOMAIN buffer[r], buffer[r][l].key = buffer[r][j].key, ~(l <= j)
      PROVE  FALSE
  <2>1. l \in j+1..Len(buffer[r])
    BY <1>1, <1>2
  <2>2. QED
    BY <1>2, <2>1 DEF LastOf
<1>3. QED
  BY <1>1, <1>2, HandType, SequenceType

\* The group of its entity is written to a collection: the document is the record's.
LEMMA LastWritten ==
  ASSUME TypeOK, NEW r \in Runs, HandBy(r), NEW j \in DOMAIN buffer[r],
         LastOf(buffer[r], j, Len(buffer[r])), Accepted(buffer[r][j]),
         NEW e \in Entities, EntityOf[buffer[r][j].key] = e, NEW c \in Collections
  PROVE  Upserted(unified[c], recordsByEntity[r][e], Mappable(recordsByEntity[r][e]))
           [buffer[r][j].key] = buffer[r][j].payload
<1>1. PICK recs \in Seq(Records), group \in Seq(Records), coll \in [Keys -> Documents] :
        /\ recs = buffer[r] /\ group = recordsByEntity[r][e] /\ coll = unified[c]
        /\ GroupOf(group, recs, e)
  BY HandType DEF HandBy, TypeOK
<1>2. \A l \in DOMAIN recs : recs[l].key = recs[j].key => l <= j
  BY <1>1, BufferLast
<1>3. j \in DOMAIN recs /\ EntityOf[recs[j].key] = e /\ Accepted(recs[j])
  BY <1>1 DEF Accepted
<1>4. GroupOf(group, recs, e)
  BY <1>1
<1>5. Upserted(coll, group, Mappable(group))[recs[j].key] = recs[j].payload
  <2>1. \A i \in DOMAIN recs :
           /\ EntityOf[recs[i].key] = e /\ Accepted(recs[i])
           /\ \A l \in DOMAIN recs : recs[l].key = recs[i].key => l <= i
           => Upserted(coll, group, Mappable(group))[recs[i].key] = recs[i].payload
    BY <1>4, GroupWritten
  <2>2. QED
    BY <1>2, <1>3, <2>1
<1>6. QED
  BY <1>1, <1>5

LEMMA RenewedStays ==
  ASSUME NEW r \in Runs, RenewedBy(r), Untouched(r), UNCHANGED <<raw, unified>>
  PROVE  RenewedBy(r)'
<1>1. /\ fetched'[r] = fetched[r] /\ buffer'[r] = buffer[r] /\ pc'[r] = pc[r]
      /\ recordsByEntity'[r] = recordsByEntity[r] /\ byCollection'[r] = byCollection[r]
      /\ unpublished'[r] = unpublished[r] /\ raw' = raw /\ unified' = unified
  BY DEF Untouched, HandUntouched
<1>2. Flushed(r)' = Flushed(r)
  BY <1>1 DEF Flushed
<1>3. ASSUME NEW rec PROVE Renewed(rec)' <=> Renewed(rec)
  BY <1>1 DEF Renewed
<1>4. ASSUME NEW rec PROVE Renewing(r, rec)' <=> Renewing(r, rec)
  BY <1>1 DEF Renewing, Pending
<1>5. (\A i \in 1..Flushed(r) : LastOf(fetched[r], i, Flushed(r)) => Renewed(fetched[r][i]))
        <=> (\A i \in 1..Flushed(r) : LastOf(fetched[r], i, Flushed(r)) => Renewed(fetched[r][i]))'
  BY <1>1, <1>2, <1>3
<1>6. (\A i \in 1..Flushed(r) : LastOf(fetched[r], i, Len(fetched[r])) => Renewed(fetched[r][i]))
        <=> (\A i \in 1..Flushed(r) :
               LastOf(fetched[r], i, Len(fetched[r])) => Renewed(fetched[r][i]))'
  BY <1>1, <1>2, <1>3
<1>7. (\A j \in DOMAIN buffer[r] :
         LastOf(buffer[r], j, Len(buffer[r])) => Renewing(r, buffer[r][j]))
        <=> (\A j \in DOMAIN buffer[r] :
               LastOf(buffer[r], j, Len(buffer[r])) => Renewing(r, buffer[r][j]))'
  BY <1>1, <1>4
<1>8. QED
  BY <1>1, <1>5, <1>6, <1>7 DEF RenewedBy

\* A buffer is stored.
LEMMA StoreRenewed ==
  ASSUME TypeOK, NEW r \in Runs, HandBy(r), RenewedBy(r), Store(r)
  PROVE  RenewedBy(r)'
<1>1. /\ pc[r] = "storing" /\ pc'[r] = "publishing"
      /\ buffer'[r] = buffer[r] /\ fetched'[r] = fetched[r] /\ unified' = unified
      /\ unpublished'[r] = {e \in Entities : recordsByEntity[r][e] # <<>>}
      /\ raw' = Upserted(raw, buffer[r], DOMAIN buffer[r])
      /\ raw \in [Keys -> Documents]
  BY DEF TypeOK, Store, batch, Ingest, Goto
<1>2. ASSUME NEW i \in 1..Flushed(r), LastOf(fetched[r], i, Len(fetched[r]))
      PROVE  Renewed(fetched[r][i])'
  <2>1. Renewed(fetched[r][i])
    BY <1>1, <1>2, EarlierLast DEF RenewedBy
  <2>2. raw'[fetched[r][i].key] = raw[fetched[r][i].key]
    BY <1>1, <1>2, EarlierLast, UpsertedElsewhere
  <2>3. QED
    BY <1>1, <2>1, <2>2 DEF Renewed
<1>3. ASSUME NEW j \in DOMAIN buffer[r], LastOf(buffer[r], j, Len(buffer[r]))
      PROVE  Renewing(r, buffer[r][j])'
  <2>0. /\ buffer[r] \in Seq(Records)
        /\ \A h \in DOMAIN buffer[r] : buffer[r][h].key = buffer[r][j].key => h <= j
    BY <1>3, BufferLast
  <2>1. raw'[buffer[r][j].key] = buffer[r][j].payload
    BY <1>1, <1>3, <2>0, UpsertedLast
  <2>2. /\ EntityOf[buffer[r][j].key] \in Entities
        /\ recordsByEntity[r][EntityOf[buffer[r][j].key]] # <<>>
    BY <1>3, BufferLast, GroupNotEmpty
  <2>3. QED
    BY <1>1, <2>1, <2>2 DEF Renewing
<1>4. QED
  BY <1>1, <1>2, <1>3 DEF RenewedBy, Flushed, LastOf

\* An entity is published.
LEMMA PublishRenewed ==
  ASSUME TypeOK, RowFollowsRun, NEW r \in Runs, HandBy(r), RenewedBy(r),
         NEW e \in Entities, Publish(r, e)
  PROVE  RenewedBy(r)'
<1>1. /\ pc[r] = "publishing" /\ pc'[r] \in {"publishing", "unifying"}
      /\ buffer'[r] = buffer[r] /\ fetched'[r] = fetched[r]
      /\ recordsByEntity'[r] = recordsByEntity[r] /\ UNCHANGED <<raw, unified>>
  BY DEF TypeOK, Publish, batch, store, history, Goto
<1>2. /\ unpublished'[r] = unpublished[r] \ {e} /\ byCollection[r] = <<>>
      /\ Mappable(recordsByEntity[r][e]) # {} =>
           byCollection'[r] = [i \in DOMAIN Targets[e] |->
             [collection |-> Targets[e][i], records |-> recordsByEntity[r][e]]]
  BY <1>1, PublishHand DEF HandBy
<1>3. ASSUME NEW j \in DOMAIN buffer[r], LastOf(buffer[r], j, Len(buffer[r]))
      PROVE  Renewing(r, buffer[r][j])'
  <2> DEFINE rec == buffer[r][j]
  <2>1. Renewing(r, rec) /\ rec.key \in Keys /\ buffer[r] \in Seq(Records)
    BY <1>1, <1>3, BufferLast DEF RenewedBy
  <2>2. raw'[rec.key] = rec.payload
    BY <1>1, <2>1 DEF Renewing
  <2>3. CASE EntityOf[rec.key] = e
    <3>1. GroupOf(recordsByEntity[r][e], buffer[r], e) /\ recordsByEntity[r][e] \in Seq(Records)
      BY HandType DEF HandBy
    <3>2. PICK i \in DOMAIN recordsByEntity[r][e] : recordsByEntity[r][e][i] = rec
      BY <1>3, <2>1, <2>3, <3>1, GroupHas
    <3>3. ASSUME Accepted(rec), NEW c \in TargetsOf(rec.key)
          PROVE  \E w \in DOMAIN byCollection'[r] :
                   /\ byCollection'[r][w].collection = c
                   /\ byCollection'[r][w].records = recordsByEntity[r][EntityOf[rec.key]]
      <4>1. i \in Mappable(recordsByEntity[r][e])
        BY <3>2, <3>3 DEF Mappable, Accepted
      <4>2. PICK w \in DOMAIN Targets[e] : Targets[e][w] = c
        BY <2>3, <3>3 DEF TargetsOf
      <4>3. QED
        BY <1>2, <2>3, <4>1, <4>2
    <3>4. QED
      BY <1>1, <2>2, <3>3 DEF Renewing, Pending
  <2>4. CASE EntityOf[rec.key] # e
    <3>1. ASSUME Accepted(rec), EntityOf[rec.key] \notin unpublished'[r],
                 NEW c \in TargetsOf(rec.key)
          PROVE  unified'[c][rec.key] = rec.payload
      BY <1>1, <1>2, <2>1, <2>4, <3>1 DEF Renewing, Pending
    <3>2. QED
      BY <1>1, <2>2, <3>1 DEF Renewing
  <2>5. QED
    BY <2>3, <2>4
<1>4. QED
  BY <1>1, <1>3 DEF RenewedBy, Flushed, LastOf, Renewed

\* A collection is written.
LEMMA UnifyRenewed ==
  ASSUME TypeOK, NEW r \in Runs, HandBy(r), RenewedBy(r), Unify(r)
  PROVE  RenewedBy(r)'
<1> DEFINE write == Head(byCollection[r])
<1>1. /\ pc[r] = "unifying" /\ pc'[r] \in {"publishing", "unifying"} /\ byCollection[r] # <<>>
      /\ byCollection'[r] = Tail(byCollection[r]) /\ unpublished'[r] = unpublished[r]
      /\ buffer'[r] = buffer[r] /\ recordsByEntity'[r] = recordsByEntity[r]
      /\ fetched'[r] = fetched[r] /\ raw' = raw
  BY DEF TypeOK, Unify, batch, history, Goto
<1>2. PICK d \in Entities :
        \A w \in DOMAIN byCollection[r] : byCollection[r][w].records = recordsByEntity[r][d]
  BY <1>1 DEF HandBy
<1>3. /\ write.collection \in Collections /\ write.records = recordsByEntity[r][d]
      /\ write = byCollection[r][1]
      /\ recordsByEntity[r][d] \in Seq(Records) /\ buffer[r] \in Seq(Records)
      /\ GroupOf(recordsByEntity[r][d], buffer[r], d)
  BY <1>1, <1>2, HeadWrite, HandType DEF HandBy, Writes
<1>4. \A c \in Collections :
         /\ unified[c] \in [Keys -> Documents]
         /\ unified'[c] = IF c = write.collection
              THEN Upserted(unified[c], recordsByEntity[r][d], Mappable(recordsByEntity[r][d]))
              ELSE unified[c]
  BY <1>3 DEF TypeOK, Unify, Unified
<1>5. \A w \in DOMAIN byCollection[r] :
         w = 1 \/ (w - 1 \in DOMAIN byCollection'[r] /\ byCollection'[r][w-1] = byCollection[r][w])
  BY <1>1, HeadWrite
<1> HIDE DEF write
\* A key of no record of the group is left alone.
<1>6. ASSUME NEW k \in Keys, \A j \in DOMAIN buffer[r] : buffer[r][j].key = k => EntityOf[k] # d,
             NEW c \in Collections
      PROVE  unified'[c][k] = unified[c][k]
  BY <1>3, <1>4, <1>6, GroupWritten
<1>7. ASSUME NEW i \in 1..Flushed(r), LastOf(fetched[r], i, Len(fetched[r]))
      PROVE  Renewed(fetched[r][i])'
  <2>1. Renewed(fetched[r][i]) /\ fetched[r][i].key \in Keys
    BY <1>1, <1>7, EarlierLast DEF RenewedBy
  <2>2. \A c \in Collections : unified'[c][fetched[r][i].key] = unified[c][fetched[r][i].key]
    BY <1>6, <1>7, <2>1, EarlierLast
  <2>3. QED
    BY <1>1, <2>1, <2>2, TargetsType DEF Renewed
<1>8. ASSUME NEW j \in DOMAIN buffer[r], LastOf(buffer[r], j, Len(buffer[r]))
      PROVE  Renewing(r, buffer[r][j])'
  <2> DEFINE rec == buffer[r][j]
             e == EntityOf[rec.key]
  <2>1. Renewing(r, rec) /\ rec.key \in Keys /\ e \in Entities
    BY <1>1, <1>8, BufferLast DEF RenewedBy
  <2>2. ASSUME Accepted(rec), NEW c \in TargetsOf(rec.key), e \notin unpublished[r],
               unified'[c][rec.key] # rec.payload
        PROVE  \E w \in DOMAIN byCollection'[r] : /\ byCollection'[r][w].collection = c
                                                  /\ byCollection'[r][w].records = recordsByEntity[r][e]
    <3>1. c \in Collections
      BY <2>1, <2>2, TargetsType
    \* Had the group of e been written to c, the document would be the record's.
    <3>2. d = e => c # write.collection
      <4>1. ASSUME d = e, c = write.collection PROVE FALSE
        <5>1. Upserted(unified[c], recordsByEntity[r][d], Mappable(recordsByEntity[r][d]))[rec.key]
                = rec.payload
          BY <1>8, <2>1, <2>2, <3>1, <4>1, LastWritten
        <5>2. QED
          BY <1>4, <2>2, <3>1, <4>1, <5>1
      <4>2. QED
        BY <4>1
    <3>3. unified'[c][rec.key] = unified[c][rec.key]
      BY <1>4, <1>6, <2>1, <3>1, <3>2
    <3>4. PICK w \in DOMAIN byCollection[r] : /\ byCollection[r][w].collection = c
                                              /\ byCollection[r][w].records = recordsByEntity[r][e]
      BY <2>1, <2>2, <3>3 DEF Renewing, Pending
    <3>5. w # 1
      <4>1. ASSUME w = 1 PROVE FALSE
        <5>1. c = write.collection /\ write.records = recordsByEntity[r][e]
          BY <1>3, <3>4, <4>1
        <5>2. Upserted(unified[c], recordsByEntity[r][e], Mappable(recordsByEntity[r][e]))[rec.key]
                = rec.payload
          BY <1>8, <2>1, <2>2, <3>1, LastWritten
        <5>3. QED
          BY <1>3, <1>4, <2>2, <3>1, <5>1, <5>2
      <4>2. QED
        BY <4>1
    <3>6. QED
      BY <1>5, <3>4, <3>5
  <2>3. raw'[rec.key] = rec.payload
    BY <1>1, <2>1 DEF Renewing
  <2>4. ASSUME Accepted(rec), NEW c \in TargetsOf(rec.key), e \notin unpublished[r]
        PROVE  unified'[c][rec.key] = rec.payload \/ Pending(r, c, rec.key)'
    BY <1>1, <2>2, <2>4 DEF Pending
  <2>5. QED
    BY <1>1, <2>3, <2>4 DEF Renewing
<1>9. QED
  BY <1>1, <1>7, <1>8 DEF RenewedBy, Flushed, LastOf

\* A flush is over.
LEMMA FlushRenewed ==
  ASSUME TypeOK, NEW r \in Runs, HandBy(r), RenewedBy(r), FlushEnds(r)
  PROVE  RenewedBy(r)'
<1>1. /\ pc[r] = "publishing" /\ unpublished[r] = {} /\ byCollection[r] = <<>>
      /\ pc'[r] \in {"reading", "succeeding"}
      /\ buffer'[r] = <<>> /\ fetched'[r] = fetched[r] /\ UNCHANGED <<raw, unified>>
  BY DEF TypeOK, FlushEnds, HandBy, Goto, store, history
<1>2. Flushed(r)' = Len(fetched[r])
  BY <1>1, HandType, EmptySeq DEF Flushed
<1>3. ASSUME NEW i \in 1..Len(fetched[r]), LastOf(fetched[r], i, Len(fetched[r]))
      PROVE  Renewed(fetched[r][i])
  <2>1. CASE i \in 1..Flushed(r)
    BY <1>1, <1>3, <2>1 DEF RenewedBy
  <2>2. CASE i \notin 1..Flushed(r)
    <3> DEFINE j == i - Flushed(r)
    <3>1. /\ Len(buffer[r]) \in Nat /\ Len(fetched[r]) \in Nat /\ Flushed(r) \in Nat
          /\ Flushed(r) + Len(buffer[r]) = Len(fetched[r])
          /\ DOMAIN buffer[r] = 1..Len(buffer[r])
      BY HandType, FlushedType
    <3>2. j \in DOMAIN buffer[r] /\ Flushed(r) + j = i
      BY <1>3, <2>2, <3>1
    <3>3. fetched[r][i] = buffer[r][j]
      BY <3>2 DEF HandBy
    <3>4. ASSUME NEW l \in j+1..Len(buffer[r]) PROVE buffer[r][l].key # buffer[r][j].key
      <4>1. l \in DOMAIN buffer[r] /\ Flushed(r) + l \in i+1..Len(fetched[r])
        BY <3>1, <3>2
      <4>2. fetched[r][Flushed(r) + l] = buffer[r][l]
        BY <4>1 DEF HandBy
      <4>3. QED
        BY <1>3, <3>3, <4>1, <4>2 DEF LastOf
    <3>5. Renewing(r, buffer[r][j])
      BY <1>1, <3>2, <3>4 DEF RenewedBy, LastOf
    <3>6. QED
      BY <1>1, <3>3, <3>5 DEF Renewing, Renewed, Pending
  <2>3. QED
    BY <2>1, <2>2
<1>4. QED
  BY <1>1, <1>2, <1>3 DEF RenewedBy, LastOf, Renewed

\* The steps of a run that has begun, whatever it is alone with.
LEMMA OwnRenewed ==
  ASSUME TypeOK, RowFollowsRun, NEW r \in Runs, HandBy(r), RenewedBy(r), Active(r),
         Progress(r) \/ Failure(r)
  PROVE  RenewedBy(r)' /\ solo'[r] = solo[r]
<1> USE DEF Goto, Fail, batch, event, store, history
<1>1. CASE StartFails(r) \/ FetchFails(r) \/ FinishFails(r) \/ StoreFails(r) \/ UnifyFails(r)
           \/ Finish(r) \/ \E e \in Entities : PublishFails(r, e)
  <2>1. pc'[r] \in {"failing", "raised", "returned"} /\ solo'[r] = solo[r]
    BY <1>1 DEF TypeOK, StartFails, FetchFails, FinishFails, StoreFails, UnifyFails, Finish, PublishFails
  <2>2. QED
    BY <2>1 DEF RenewedBy
<1>2. ASSUME NEW rec \in Records, Fetch(r, rec) PROVE RenewedBy(r)' /\ solo'[r] = solo[r]
  <2>1. /\ buffer'[r] = Append(buffer[r], rec) /\ fetched'[r] = Append(fetched[r], rec)
        /\ pc[r] = "reading" /\ pc'[r] \in {"reading", "storing"}
        /\ UNCHANGED <<raw, unified>> /\ solo'[r] = solo[r]
    BY <1>2 DEF TypeOK, Fetch
  <2>2. \A i \in 1..Len(fetched[r]) : fetched'[r][i] = fetched[r][i]
    BY <2>1, HandType, Appended
  <2>3. /\ Len(buffer[r]) \in Nat /\ Len(buffer'[r]) = Len(buffer[r]) + 1
        /\ Len(fetched[r]) \in Nat /\ Len(fetched'[r]) = Len(fetched[r]) + 1
    BY <2>1, HandType, Appended
  <2>4. Flushed(r)' = Flushed(r)
    BY <2>3 DEF Flushed
  <2>5. \A i \in 1..Flushed(r) : fetched'[r][i] = fetched[r][i]
    BY <2>2, FlushedType
  <2>6. ASSUME NEW i \in 1..Flushed(r), LastOf(fetched[r], i, Flushed(r))'
        PROVE  Renewed(fetched[r][i])'
    <3>1. LastOf(fetched[r], i, Flushed(r))
      <4>1. Flushed(r) \in Nat /\ \A j \in i+1..Flushed(r) : j \in 1..Flushed(r)
        BY FlushedType
      <4>2. QED
        BY <2>4, <2>5, <2>6, <4>1 DEF LastOf
    <3>2. Renewed(fetched[r][i])
      BY <2>1, <3>1 DEF RenewedBy
    <3>3. QED
      BY <2>1, <2>5, <3>2 DEF Renewed
  <2>7. QED
    BY <2>1, <2>4, <2>6 DEF RenewedBy
<1>3. CASE FeedEnds(r)
  <2>1. /\ buffer'[r] = buffer[r] /\ fetched'[r] = fetched[r]
        /\ pc[r] = "reading" /\ pc'[r] \in {"storing", "succeeding"}
        /\ UNCHANGED <<raw, unified>> /\ solo'[r] = solo[r]
    BY <1>3 DEF TypeOK, FeedEnds
  <2>2. QED
    BY <2>1 DEF RenewedBy, Flushed, LastOf, Renewed
<1>4. CASE Store(r)
  BY <1>4, StoreRenewed DEF Store
<1>5. ASSUME NEW e \in Entities, Publish(r, e) PROVE RenewedBy(r)' /\ solo'[r] = solo[r]
  BY <1>5, PublishRenewed DEF Publish
<1>6. CASE Unify(r)
  BY <1>6, UnifyRenewed DEF Unify
<1>7. CASE FlushEnds(r)
  BY <1>7, FlushRenewed DEF FlushEnds
<1>8. QED
  BY <1>1, <1>2, <1>3, <1>4, <1>5, <1>6, <1>7 DEF Progress, Failure

\* A run that has nothing to do with the collections yet.
LEMMA OwnAlone ==
  ASSUME TypeOK, RowFollowsRun, NEW r \in Runs, HandBy(r), AloneBy(r), StepOf(r)
  PROVE  AloneBy(r)'
<1>0. \A q \in Runs : q # r => pc'[q] = pc[q]
  BY OthersUntouched DEF Untouched
<1>1. CASE Start(r)
  <2>1. /\ pc[r] = "idle" /\ pc'[r] = "reading" /\ solo'[r] = (\A p \in Runs : ~Active(p))
        /\ buffer'[r] = buffer[r] /\ fetched'[r] = fetched[r]
    BY <1>1 DEF TypeOK, Start, Goto, batch
  <2>2. Flushed(r)' = 0
    <3>1. Len(fetched[r]) = 0 /\ Len(buffer[r]) <= Len(fetched[r]) /\ Len(buffer[r]) \in Nat
      BY <2>1, EmptySeq, HandType DEF AloneBy, HandBy
    <3>2. Len(buffer[r]) = 0
      BY <3>1
    <3>3. QED
      BY <2>1, <3>1, <3>2 DEF Flushed
  <2>3. RenewedBy(r)'
    BY <2>1, <2>2 DEF RenewedBy
  <2>4. QED
    BY <1>0, <2>1, <2>3 DEF AloneBy, Active
<1>2. CASE StartFails(r)
  <2>1. pc'[r] = "raised"
    BY <1>2 DEF TypeOK, StartFails, Goto
  <2>2. QED
    BY <2>1 DEF AloneBy, Active, Suspended
<1>3. CASE (Progress(r) \/ Failure(r)) /\ ~StartFails(r)
  <2>1. Active(r)
    BY <1>3 DEF Progress, Failure, Active, Suspended, Fetch, FeedEnds, Store, Publish, PublishFails,
       Unify, FlushEnds, Finish, FetchFails, StoreFails, UnifyFails, FinishFails
  <2>2. pc'[r] # "idle"
    BY <1>3 DEF TypeOK, Progress, Failure, Goto, Fail, Fetch, FeedEnds, Store, Publish, PublishFails,
       Unify, FlushEnds, Finish, FetchFails, StoreFails, UnifyFails, FinishFails
  <2>3. CASE solo[r]
    <3>1. RenewedBy(r) /\ \A q \in Runs : Active(q) => q = r
      BY <2>1, <2>3 DEF AloneBy
    <3>2. RenewedBy(r)'
      BY <1>3, <2>1, <3>1, OwnRenewed
    <3>3. QED
      BY <1>0, <2>2, <3>1, <3>2 DEF AloneBy, Active
  <2>4. CASE ~solo[r]
    <3>1. solo' = solo
      BY <1>3 DEF Progress, Failure, history, Fetch, FeedEnds, Store, Publish, PublishFails,
         Unify, FlushEnds, Finish, FetchFails, StoreFails, UnifyFails, FinishFails
    <3>2. QED
      BY <2>2, <2>4, <3>1 DEF AloneBy
  <2>5. QED
    BY <2>3, <2>4
<1>4. QED
  BY <1>1, <1>2, <1>3 DEF StepOf

\* Nobody else takes a step while a run is alone, but to fail before it has begun; a run
\* that starts ends the solitude of those under way.
LEMMA OtherAlone ==
  ASSUME TypeOK, NEW r \in Runs, AloneBy(r), NEW q \in Runs, q # r, StepOf(q)
  PROVE  AloneBy(r)'
<1>1. Untouched(r)
  BY OthersUntouched
<1>2. ASSUME solo'[r], Active(r)' PROVE RenewedBy(r)' /\ \A p \in Runs : Active(p)' => p = r
  <2>1. Active(r) /\ ~Start(q)
    BY <1>1, <1>2 DEF TypeOK, Start, Active, Untouched
  <2>2. CASE StartFails(q)
    <3>1. /\ UNCHANGED <<raw, unified>> /\ solo' = solo /\ pc'[q] = "raised"
          /\ \A p \in Runs : p # q => pc'[p] = pc[p]
      BY <2>2 DEF TypeOK, StartFails, Goto, store, history
    <3>2. RenewedBy(r) /\ \A p \in Runs : Active(p) => p = r
      BY <1>2, <2>1, <3>1 DEF AloneBy
    <3>3. RenewedBy(r)'
      BY <1>1, <3>1, <3>2, RenewedStays
    <3>4. QED
      BY <3>1, <3>2, <3>3 DEF Active, Suspended
  <2>3. CASE (Progress(q) \/ Failure(q)) /\ ~StartFails(q)
    <3>1. Active(q) /\ solo' = solo
      BY <2>3 DEF Progress, Failure, Active, Suspended, history, Fetch, FeedEnds, Store, Publish,
         PublishFails, Unify, FlushEnds, Finish, FetchFails, StoreFails, UnifyFails, FinishFails
    <3>2. QED
      BY <1>2, <2>1, <3>1 DEF AloneBy
  <2>4. QED
    BY <2>1, <2>2, <2>3 DEF StepOf
<1>3. QED
  BY <1>1, <1>2 DEF AloneBy, Untouched, HandUntouched

LEMMA NextAlone ==
  TypeOK /\ RowFollowsRun /\ Hand /\ Alone /\ [Next]_vars => Alone'
<1> SUFFICES ASSUME TypeOK, RowFollowsRun, Hand, Alone, [Next]_vars, NEW r \in Runs
             PROVE  AloneBy(r)'
  BY DEF Alone
<1>0. HandBy(r) /\ AloneBy(r)
  BY DEF Hand, Alone
<1>1. ASSUME NEW q \in Runs, StepOf(q) PROVE AloneBy(r)'
  BY <1>0, <1>1, OwnAlone, OtherAlone
<1>2. CASE Crash
  <2>1. pc'[r] \notin Suspended /\ (pc'[r] = "idle" => pc[r] = "idle") /\ fetched'[r] = fetched[r]
    BY <1>2 DEF TypeOK, Crash, Active, Suspended, history
  <2>2. QED
    BY <1>0, <2>1 DEF AloneBy, Active
<1>3. ASSUME NEW k \in Keys, NEW p \in Payloads, Edit(k, p) PROVE AloneBy(r)'
  <2>1. pc' = pc /\ fetched' = fetched /\ solo'[r] = (solo[r] /\ ~Active(r))
    BY <1>3 DEF Edit
  <2>2. QED
    BY <1>0, <2>1 DEF AloneBy, Active
<1>4. CASE UNCHANGED vars
  <2>1. Untouched(r) /\ UNCHANGED <<raw, unified, solo, pc>>
    BY <1>4 DEF vars, batch, event, store, history, Untouched, HandUntouched
  <2>2. solo[r] /\ Active(r) => RenewedBy(r)'
    BY <1>0, <2>1, RenewedStays DEF AloneBy
  <2>3. QED
    BY <1>0, <2>1, <2>2 DEF AloneBy, Active, Untouched, HandUntouched
<1>5. QED
  BY <1>1, <1>2, <1>3, <1>4, NextSteps

\* Only a run that is succeeding closes its row with "success".
LEMMA SuccessStep ==
  ASSUME TypeOK, RowFollowsRun, [Next]_vars, NEW r \in Runs,
         row[r].status = "running", row'[r].status = "success"
  PROVE  pc[r] = "succeeding"
<1>1. CASE StepOf(r)
  <2>1. CASE Start(r)
    BY <1>1, <2>1 DEF RowFollowsRun, Start
  <2>2. CASE Finish(r)
    BY <2>2 DEF TypeOK, Finish, Rows
  <2>3. CASE (Progress(r) \/ Failure(r)) /\ ~Finish(r)
    BY <2>3 DEF Progress, Failure, Fetch, FeedEnds, Store, Publish, PublishFails, Unify, FlushEnds,
       StartFails, FetchFails, StoreFails, UnifyFails, FinishFails
  <2>4. QED
    BY <1>1, <2>1, <2>2, <2>3 DEF StepOf
<1>2. ASSUME NEW q \in Runs, StepOf(q), q # r PROVE FALSE
  BY <1>2, OthersUntouched DEF Untouched
<1>3. CASE Crash
  BY <1>3, CrashUntouched
<1>4. ASSUME NEW k \in Keys, NEW p \in Payloads, Edit(k, p) PROVE FALSE
  BY <1>4, EditUntouched DEF Untouched
<1>5. CASE UNCHANGED vars
  BY <1>5 DEF vars
<1>6. QED
  BY <1>1, <1>2, <1>3, <1>4, <1>5, NextSteps

\* Spec => SoloRunRepairs: when a run that nothing overlapped succeeds, the collections hold
\* what it read last of each key.
THEOREM SoloRunsRepair == Spec => SoloRunRepairs
<1> DEFINE Inv == TypeOK /\ RowFollowsRun /\ Hand /\ Alone
           Repaired == \A r \in Runs :
             row[r].status = "running" /\ row'[r].status = "success" /\ solo[r] =>
               \A i \in DOMAIN fetched[r] :
                  LET rec == fetched[r][i] IN
                  (\A j \in i+1..Len(fetched[r]) : fetched[r][j].key # rec.key) =>
                     /\ raw[rec.key] = rec.payload
                     /\ rec.payload \notin Odd \cup Unparseable =>
                          \A c \in TargetsOf(rec.key) : unified[c][rec.key] = rec.payload
<1>1. Init => Inv
  <2>1. Init => Alone
    BY DEF Init, Alone, AloneBy, Active, Suspended
  <2>2. QED
    BY <2>1, InitType, InitRow, InitHand
<1>2. Inv /\ [Next]_vars => Inv'
  BY NextType, NextRow, NextHand, NextAlone
<1>3. Inv /\ [Next]_vars => Repaired
  <2> SUFFICES ASSUME Inv, [Next]_vars, NEW r \in Runs,
                      row[r].status = "running", row'[r].status = "success", solo[r],
                      NEW i \in DOMAIN fetched[r], LastOf(fetched[r], i, Len(fetched[r]))
               PROVE  Renewed(fetched[r][i])
    BY DEF LastOf, Renewed, Accepted
  <2>1. HandBy(r) /\ AloneBy(r) /\ pc[r] = "succeeding"
    BY SuccessStep DEF Hand, Alone
  <2>2. buffer[r] = <<>> /\ RenewedBy(r)
    BY <2>1 DEF HandBy, AloneBy, Active, Suspended
  <2>3. Flushed(r) = Len(fetched[r]) /\ DOMAIN fetched[r] = 1..Len(fetched[r])
    BY <2>1, <2>2, FlushedType, HandType, EmptySeq
  <2>4. QED
    BY <2>1, <2>2, <2>3 DEF RenewedBy
<1>4. QED
  <2>1. Spec => [][Repaired]_vars
    <3> HIDE DEF Inv, Repaired
    <3>1. QED
      BY <1>1, <1>2, <1>3, PTL DEF Spec
  <2>2. QED
    BY <2>1 DEF SoloRunRepairs
=============================================================================
