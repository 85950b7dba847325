----------------------------- MODULE StoreProofs -----------------------------
(* Theorems about Upsert, for every number of writers, fields and values, and *)
(* for bulk writes of any length under any keys; and about Browse: what a     *)
(* walk of the pages sees, for every page size and every number of writers.   *)
EXTENDS Browse, FiniteSetTheorems, SequenceTheorems, TLAPS

Ops == [on : Fields, value : DocValues, set : Records]
Docs == [Fields -> DocValues]

-----------------------------------------------------------------------------
(* Operations. *)

\* A record gives values to fields, and never to the synthetic key.
LEMMA RecordType ==
  ASSUME NEW r \in Records
  PROVE  /\ DOMAIN r \subseteq Fields \ {Synthetic}
         /\ \A f \in DOMAIN r : r[f] \in Values
BY DEF Records

\* An operation asks for the key that it sets, if it sets it.
LEMMA OperationType ==
  ASSUME NEW key \in (Fields \ {Synthetic}) \cup {NoKey}, NEW r \in Records
  PROVE  /\ Operation(key, r) \in Ops
         /\ Operation(key, r).on = IF key = NoKey THEN Synthetic ELSE key
         /\ Operation(key, r).value = IF key = NoKey THEN Printed[r]
                                      ELSE IF key \in DOMAIN r THEN r[key] ELSE None
         /\ Operation(key, r).set = r
         /\ Operation(key, r).on \in DOMAIN r => r[Operation(key, r).on] = Operation(key, r).value
<1>1. UpsertFilter(key, r).on = IF key = NoKey THEN Synthetic ELSE key
  BY DEF UpsertFilter
<1>2. UpsertFilter(key, r).value = IF key = NoKey THEN Printed[r]
                                   ELSE IF key \in DOMAIN r THEN r[key] ELSE None
  BY DEF UpsertFilter
<1>3. UpsertFilter(key, r).on \in Fields /\ UpsertFilter(key, r).value \in DocValues
  BY <1>1, <1>2, RecordType, UpsertAssumption DEF DocValues
<1>4. UpsertFilter(key, r).on \in DOMAIN r => r[UpsertFilter(key, r).on] = UpsertFilter(key, r).value
  BY <1>1, <1>2, RecordType
<1>5. QED
  BY <1>1, <1>2, <1>3, <1>4 DEF Operation, Ops

AnyJob == Jobs \cup {Nothing}
OnOf(job) == IF job.key = NoKey THEN Synthetic ELSE job.key

LEMMA JobType ==
  ASSUME NEW job \in AnyJob
  PROVE  job.key \in (Fields \ {Synthetic}) \cup {NoKey} /\ job.records \in Seq(Records)
<1>1. CASE job \in Jobs
  BY <1>1, UpsertAssumption
<1>2. CASE job = Nothing
  <2>1. job.key = NoKey /\ job.records = <<>>
    BY <1>2 DEF Nothing
  <2>2. QED
    BY <2>1
<1>3. QED
  BY <1>1, <1>2 DEF AnyJob

\* A function over an initial segment of the numbers is a sequence.
LEMMA FunctionIsSeq ==
  ASSUME NEW S, NEW n \in Nat, NEW f \in [1..n -> S]
  PROVE  f \in Seq(S) /\ Len(f) = n
OBVIOUS

\* The operations of a job, one for each of its records, all on one field.
LEMMA OperationsType ==
  ASSUME NEW job \in AnyJob
  PROVE  /\ Operations(job) \in Seq(Ops)
         /\ Len(Operations(job)) = Len(job.records)
         /\ \A i \in 1..Len(job.records) :
              /\ job.records[i] \in Records
              /\ Operations(job)[i] = Operation(job.key, job.records[i])
              /\ Operations(job)[i] \in Ops
              /\ Operations(job)[i].on = OnOf(job)
              /\ Operations(job)[i].set = job.records[i]
              /\ OnOf(job) \in DOMAIN job.records[i]
                   => job.records[i][OnOf(job)] = Operations(job)[i].value
<1> DEFINE n == Len(job.records)
           F == [i \in 1..n |-> Operation(job.key, job.records[i])]
<1>1. n \in Nat /\ DOMAIN job.records = 1..n
  BY JobType
<1>2. \A i \in 1..n : job.records[i] \in Records
  BY <1>1, JobType
<1>3. Operations(job) = F
  BY <1>1 DEF Operations
<1>4. ASSUME NEW i \in 1..n
      PROVE  /\ F[i] \in Ops /\ F[i].on = OnOf(job) /\ F[i].set = job.records[i]
             /\ OnOf(job) \in DOMAIN job.records[i] => job.records[i][OnOf(job)] = F[i].value
  <2>1. F[i] = Operation(job.key, job.records[i])
    OBVIOUS
  <2>2. job.records[i] \in Records /\ job.key \in (Fields \ {Synthetic}) \cup {NoKey}
    BY <1>2, JobType
  <2> HIDE DEF F, n
  <2>3. QED
    BY <2>1, <2>2, OperationType DEF OnOf
<1>5. F \in Seq(Ops) /\ Len(F) = n
  <2>1. F \in [1..n -> Ops]
    BY <1>4
  <2> HIDE DEF F
  <2>2. QED
    BY <2>1, <1>1, FunctionIsSeq
<1>6. QED
  BY <1>2, <1>3, <1>4, <1>5

\* A value that an operation sets, or asks for, is one that a document may have.
LEMMA ValueType ==
  ASSUME NEW op \in Ops
  PROVE  /\ op.on \in Fields /\ op.value \in DocValues /\ None \in DocValues
         /\ DOMAIN op.set \subseteq Fields
         /\ \A f \in DOMAIN op.set : op.set[f] \in DocValues
<1>1. op.set \in Records /\ op.on \in Fields /\ op.value \in DocValues
  BY DEF Ops
<1>2. QED
  BY <1>1, RecordType DEF DocValues

\* What an upsert makes of a document is one.
LEMMA ChangedType ==
  ASSUME NEW op \in Ops, NEW doc \in Docs
  PROVE  Changed(doc, op) \in Docs
BY ValueType DEF Changed, Docs

\* What an upsert inserts is a document.
LEMMA NewDocType ==
  ASSUME NEW op \in Ops
  PROVE  NewDoc(op) \in Docs
BY ValueType DEF NewDoc, Docs

-----------------------------------------------------------------------------
(* Type correctness. *)

\* The operations of a bulk write are those of its job, and one of them is next, or
\* none is left.
Follows ==
  \A w \in Writers : /\ bulk[w].ops = Operations(bulk[w].job)
                     /\ bulk[w].next <= Len(bulk[w].ops) + 1
                     /\ bulk[w].inserting => ~Idle(w)

\* What TypeOK says of one bulk write.
LEMMA BulkType ==
  ASSUME TypeOK, NEW w \in Writers
  PROVE  /\ bulk[w] \in Bulks
         /\ bulk[w].job \in AnyJob
         /\ bulk[w].ops \in Seq(Ops)
         /\ Len(bulk[w].ops) \in Nat
         /\ bulk[w].next \in Nat \ {0}
         /\ bulk[w].inserting \in BOOLEAN /\ bulk[w].alone \in BOOLEAN
         /\ bulk[w].again \in BOOLEAN
<1>1. bulk[w] \in Bulks
  BY DEF TypeOK
<1>2. bulk[w].ops \in Seq(Ops)
  BY <1>1 DEF Bulks, Ops
<1>3. QED
  BY <1>1, <1>2 DEF Bulks, AnyJob

\* The operation in progress.
LEMMA CurrentType ==
  ASSUME TypeOK, Follows, NEW w \in Writers, ~Idle(w)
  PROVE  /\ bulk[w].next \in 1..Len(bulk[w].job.records)
         /\ Current(w) = bulk[w].ops[bulk[w].next]
         /\ Current(w) \in Ops
         /\ Current(w).on = OnOf(bulk[w].job)
         /\ Current(w).set = bulk[w].job.records[bulk[w].next]
         /\ Current(w).on \in DOMAIN Current(w).set
              => Current(w).set[Current(w).on] = Current(w).value
<1> DEFINE job == bulk[w].job
<1>1. job \in AnyJob /\ bulk[w].ops = Operations(job)
  BY BulkType DEF Follows
<1>2. Len(bulk[w].ops) = Len(job.records) /\ Len(bulk[w].ops) \in Nat
  BY <1>1, OperationsType, BulkType
<1>3. bulk[w].next \in 1..Len(job.records)
  BY <1>2, BulkType DEF Idle
<1>4. QED
  BY <1>1, <1>3, OperationsType DEF Current

\* A new bulk write.
LEMMA NewBulkType ==
  ASSUME NEW job \in AnyJob, NEW alone \in BOOLEAN, NEW again \in BOOLEAN
  PROVE  /\ NewBulk(job, alone, again) \in Bulks
         /\ NewBulk(job, alone, again).job = job
         /\ NewBulk(job, alone, again).ops = Operations(job)
         /\ NewBulk(job, alone, again).next = 1
         /\ ~NewBulk(job, alone, again).inserting
         /\ NewBulk(job, alone, again).fate = "good"
         /\ NewBulk(job, alone, again).alone <=> alone
         /\ NewBulk(job, alone, again).again <=> again
<1>1. Operations(job) \in Seq([on : Fields, value : DocValues, set : Records])
  BY OperationsType DEF Ops
<1>2. QED
  BY <1>1 DEF NewBulk, Bulks, AnyJob

\* The initial state has its types.
LEMMA InitType == Init => TypeOK /\ Follows
<1> SUFFICES ASSUME Init PROVE TypeOK /\ Follows
  OBVIOUS
<1>1. Nothing \in AnyJob
  BY DEF AnyJob
<1>2. \A w \in Writers : bulk[w] = NewBulk(Nothing, TRUE, FALSE)
  BY DEF Init
<1>3. docs \in Seq([Fields -> DocValues]) /\ DOMAIN docs = {}
  BY DEF Init
<1>4. TypeOK
  <2>1. bulk \in [Writers -> Bulks]
    BY <1>1, NewBulkType DEF Init
  <2>2. begun \in 0..MaxBulks
    BY UpsertAssumption DEF Init
  <2>3. QED
    BY <2>1, <2>2, <1>3 DEF TypeOK, Init
<1>5. Follows
  <2>1. Len(Operations(Nothing)) \in Nat
    BY <1>1, OperationsType
  <2>2. ASSUME NEW w \in Writers
        PROVE  /\ bulk[w].ops = Operations(Nothing) /\ bulk[w].job = Nothing
               /\ bulk[w].next = 1 /\ ~bulk[w].inserting
    <3>1. TRUE \in BOOLEAN /\ FALSE \in BOOLEAN
      OBVIOUS
    <3>2. LET new == NewBulk(Nothing, TRUE, FALSE) IN
          /\ new.ops = Operations(Nothing) /\ new.job = Nothing
          /\ new.next = 1 /\ ~new.inserting
      BY <1>1, <3>1, NewBulkType
    <3>3. QED
      BY <1>2, <3>2
  <2>3. ASSUME NEW w \in Writers
        PROVE  bulk[w].ops = Operations(bulk[w].job) /\ bulk[w].next <= Len(bulk[w].ops) + 1
    BY <2>1, <2>2
  <2>4. QED
    BY <2>2, <2>3 DEF Follows
<1>6. QED
  BY <1>4, <1>5

\* A bulk write begins.
LEMMA BeginType ==
  ASSUME TypeOK, Follows, NEW w \in Writers, NEW job \in Jobs, Begin(w, job)
  PROVE  (TypeOK /\ Follows)'
<1> DEFINE alone == \A v \in Writers : Idle(v)
           again == bulk[w].job = job /\ bulk[w].alone /\ bulk[w].fate = "good"
           new == NewBulk(job, alone, again)
<1>1. job \in AnyJob
  BY DEF AnyJob
<1>2. alone \in BOOLEAN /\ again \in BOOLEAN
  OBVIOUS
<1>3. /\ new \in Bulks
      /\ new.job = job /\ new.ops = Operations(job) /\ new.next = 1
      /\ ~new.inserting /\ new.fate = "good" /\ (new.alone <=> alone)
  <2> HIDE DEF alone, again
  <2>1. QED
    BY <1>1, <1>2, NewBulkType
<1>4. /\ bulk' = [v \in Writers |-> IF v = w THEN new ELSE [bulk[v] EXCEPT !.alone = FALSE]]
      /\ docs' = docs /\ begun' = begun + 1 /\ begun < MaxBulks /\ collection' = collection
  BY DEF Begin
<1> HIDE DEF new, alone, again
<1>5. ASSUME NEW v \in Writers, v # w
      PROVE  /\ bulk'[v] \in Bulks
             /\ bulk'[v].job = bulk[v].job /\ bulk'[v].ops = bulk[v].ops
             /\ bulk'[v].next = bulk[v].next /\ bulk'[v].inserting = bulk[v].inserting
  BY <1>4, <1>5, BulkType DEF Bulks
<1>6. bulk'[w] = new
  BY <1>4
<1>7. TypeOK'
  <2>1. bulk' \in [Writers -> Bulks]
    BY <1>3, <1>4, <1>5
  <2>2. begun' \in 0..MaxBulks
    BY <1>4, UpsertAssumption DEF TypeOK
  <2>3. QED
    BY <2>1, <2>2, <1>4 DEF TypeOK
<1>8. Follows'
  <2>1. Len(Operations(job)) \in Nat
    BY <1>1, OperationsType
  <2>2. ASSUME NEW v \in Writers
        PROVE  /\ bulk'[v].ops = Operations(bulk'[v].job)
               /\ bulk'[v].next <= Len(bulk'[v].ops) + 1
               /\ bulk'[v].inserting => ~(bulk'[v].next > Len(bulk'[v].ops))
    <3>1. CASE v = w
      BY <1>3, <1>6, <2>1, <3>1
    <3>2. CASE v # w
      BY <1>5, <3>2 DEF Follows, Idle
    <3>3. QED
      BY <3>1, <3>2
  <2>3. QED
    BY <2>2 DEF Follows, Idle
<1>9. QED
  BY <1>7, <1>8

\* A step of the bulk write of w leaves its job, and the other writers, alone.
Moves(w) ==
  /\ bulk' \in [Writers -> Bulks]
  /\ bulk'[w].job = bulk[w].job /\ bulk'[w].ops = bulk[w].ops
  /\ bulk'[w].alone = bulk[w].alone /\ bulk'[w].again = bulk[w].again
  /\ \A v \in Writers \ {w} : bulk'[v] = bulk[v]
  /\ begun' = begun /\ collection' = collection

\* The operation of w ends.
LEMMA EndedMoves ==
  ASSUME TypeOK, Follows, NEW w \in Writers, ~Idle(w), NEW refused \in BOOLEAN,
         Ended(w, refused), UNCHANGED <<collection, begun>>
  PROVE  /\ Moves(w)
         /\ bulk'[w].next = bulk[w].next + 1 /\ ~bulk'[w].inserting
         /\ bulk'[w].fate = "good" => bulk[w].fate = "good" /\ ~refused
<1>1. bulk'[w] \in Bulks
  <2> DEFINE fate == IF refused THEN "refused" ELSE bulk[w].fate
  <2>1. bulk[w].next + 1 \in Nat \ {0} /\ bulk[w] \in Bulks
    BY BulkType
  <2>2. fate \in {"good", "refused", "broken"}
    BY <2>1 DEF Bulks
  <2>3. bulk'[w] = [bulk[w] EXCEPT !.next = @ + 1, !.inserting = FALSE, !.fate = fate]
    BY DEF Ended, TypeOK
  <2> HIDE DEF fate
  <2>4. QED
    BY <2>1, <2>2, <2>3 DEF Bulks
<1>2. QED
  BY <1>1, BulkType DEF Ended, Moves, TypeOK

\* The find of w finds nothing, or is repeated.
LEMMA FindMoves ==
  ASSUME TypeOK, Follows, NEW w \in Writers, NEW found \in BOOLEAN,
         bulk' = [bulk EXCEPT ![w].inserting = found], UNCHANGED <<collection, begun>>
  PROVE  /\ Moves(w)
         /\ bulk'[w].next = bulk[w].next /\ (bulk'[w].inserting <=> found)
         /\ bulk'[w].fate = bulk[w].fate
<1>1. bulk'[w] \in Bulks
  BY BulkType DEF Bulks, TypeOK
<1>2. QED
  BY <1>1, BulkType DEF Moves, TypeOK

\* The bulk write of w is broken off.
LEMMA BreakMoves ==
  ASSUME TypeOK, Follows, NEW w \in Writers, BreakOff(w)
  PROVE  /\ Moves(w)
         /\ bulk'[w].next = Len(bulk[w].ops) + 1 /\ ~bulk'[w].inserting
         /\ bulk'[w].fate = "broken"
<1>1. bulk'[w] \in Bulks
  <2>1. Len(bulk[w].ops) + 1 \in Nat \ {0} /\ bulk[w] \in Bulks
    BY BulkType
  <2>2. bulk'[w] = [bulk[w] EXCEPT !.next = Len(bulk[w].ops) + 1, !.inserting = FALSE,
                                   !.fate = "broken"]
    BY DEF BreakOff, TypeOK
  <2>3. QED
    BY <2>1, <2>2 DEF Bulks
<1>2. QED
  BY <1>1, BulkType DEF BreakOff, Moves, TypeOK

\* Such steps keep Follows.
LEMMA MovesFollow ==
  ASSUME TypeOK, Follows, NEW w \in Writers, Moves(w),
         bulk'[w].next <= Len(bulk[w].ops) + 1,
         bulk'[w].inserting => bulk'[w].next <= Len(bulk[w].ops)
  PROVE  Follows'
<1>1. bulk'[w].next \in Nat /\ Len(bulk[w].ops) \in Nat
  BY BulkType DEF Moves, Bulks
<1>2. QED
  BY <1>1 DEF Moves, Follows, Idle

Unique ==
  collection = "planned" =>
    \A i \in DOMAIN docs, j \in DOMAIN docs : docs[i][KeyField] = docs[j][KeyField] => i = j

\* What the collection is.
LEMMA DocsType ==
  ASSUME TypeOK
  PROVE  docs \in Seq(Docs) /\ Len(docs) \in Nat /\ DOMAIN docs = 1..Len(docs) /\ Unique
         /\ \A i \in DOMAIN docs : docs[i] \in Docs
BY DEF TypeOK, Docs, Unique

\* A change of a document, that no other's key forbids.
LEMMA ModifyDocs ==
  ASSUME TypeOK, NEW i \in DOMAIN docs, NEW doc \in Docs,
         ~Conflicts(doc, DOMAIN docs \ {i}), docs' = [docs EXCEPT ![i] = doc],
         collection' = collection
  PROVE  /\ docs' \in Seq(Docs) /\ Unique' /\ Len(docs') = Len(docs)
         /\ DOMAIN docs' = DOMAIN docs /\ docs'[i] = doc
         /\ \A j \in DOMAIN docs \ {i} : docs'[j] = docs[j]
<1>1. /\ docs' \in Seq(Docs) /\ Len(docs') = Len(docs)
      /\ DOMAIN docs' = DOMAIN docs /\ docs'[i] = doc
      /\ \A j \in DOMAIN docs \ {i} : docs'[j] = docs[j]
  BY DocsType
<1>2. collection = "planned" => \A j \in DOMAIN docs \ {i} : docs[j][KeyField] # doc[KeyField]
  BY DEF Conflicts, Indexed
<1>3. QED
  BY <1>1, <1>2, DocsType DEF Unique

\* A new document, that no other's key forbids.
LEMMA InsertDocs ==
  ASSUME TypeOK, NEW doc \in Docs,
         ~Conflicts(doc, DOMAIN docs), docs' = Append(docs, doc),
         collection' = collection
  PROVE  /\ docs' \in Seq(Docs) /\ Unique' /\ Len(docs') = Len(docs) + 1
         /\ DOMAIN docs' = 1..Len(docs) + 1 /\ docs'[Len(docs) + 1] = doc
         /\ \A j \in DOMAIN docs : docs'[j] = docs[j]
<1>1. /\ docs' \in Seq(Docs) /\ Len(docs') = Len(docs) + 1
      /\ DOMAIN docs' = 1..Len(docs) + 1 /\ docs'[Len(docs) + 1] = doc
      /\ \A j \in DOMAIN docs : docs'[j] = docs[j]
  BY DocsType
<1>2. collection = "planned" => \A j \in DOMAIN docs : docs[j][KeyField] # doc[KeyField]
  BY DEF Conflicts, Indexed
<1>3. QED
  BY <1>1, <1>2, DocsType DEF Unique

\* A document that matches is changed, or the change refused.
LEMMA ModifyStep ==
  ASSUME TypeOK, Follows, NEW w \in Writers, NEW i \in DOMAIN docs, Modify(w, i)
  PROVE  /\ ~Idle(w) /\ Moves(w)
         /\ bulk'[w].next = bulk[w].next + 1 /\ ~bulk'[w].inserting
         /\ bulk'[w].fate = "good" =>
              bulk[w].fate = "good" /\ docs'[i] = Changed(docs[i], Current(w))
         /\ Matches(docs[i], Current(w))
         /\ docs' \in Seq(Docs) /\ Unique' /\ Len(docs') = Len(docs)
         /\ DOMAIN docs' = DOMAIN docs
         /\ docs'[i] \in {docs[i], Changed(docs[i], Current(w))}
         /\ \A j \in DOMAIN docs \ {i} : docs'[j] = docs[j]
<1> DEFINE doc == Changed(docs[i], Current(w))
           refused == Conflicts(doc, DOMAIN docs \ {i})
<1>1. /\ ~Idle(w) /\ Matches(docs[i], Current(w))
      /\ begun' = begun /\ collection' = collection
  BY DEF Modify, Finding
<1>2. Ended(w, refused) /\ docs' = IF refused THEN docs ELSE [docs EXCEPT ![i] = doc]
  BY DEF Modify
<1>3. doc \in Docs
  BY <1>1, CurrentType, DocsType, ChangedType
<1>4. refused \in BOOLEAN
  BY DEF Conflicts
<1> HIDE DEF doc, refused
<1>5. /\ Moves(w)
      /\ bulk'[w].next = bulk[w].next + 1 /\ ~bulk'[w].inserting
      /\ bulk'[w].fate = "good" => bulk[w].fate = "good" /\ ~refused
  BY <1>1, <1>2, <1>4, EndedMoves
<1>6. CASE refused
  <2>1. docs' = docs
    BY <1>2, <1>6
  <2>2. QED
    BY <1>1, <1>5, <1>6, <2>1, DocsType DEF Unique, doc
<1>7. CASE ~refused
  <2>1. docs' = [docs EXCEPT ![i] = doc]
    BY <1>2, <1>7
  <2>2. QED
    BY <1>1, <1>3, <1>5, <1>7, <2>1, ModifyDocs DEF refused, doc
<1>8. QED
  BY <1>6, <1>7

\* A new document is inserted.
LEMMA InsertStep ==
  ASSUME TypeOK, Follows, NEW w \in Writers, Insert(w)
  PROVE  /\ ~Idle(w) /\ Moves(w)
         /\ bulk'[w].next = bulk[w].next + 1 /\ ~bulk'[w].inserting
         /\ bulk'[w].fate = "good" => bulk[w].fate = "good"
         /\ ~Conflicts(NewDoc(Current(w)), DOMAIN docs)
         /\ docs' = Append(docs, NewDoc(Current(w)))
         /\ docs' \in Seq(Docs) /\ Unique' /\ Len(docs') = Len(docs) + 1
         /\ DOMAIN docs' = 1..Len(docs) + 1
         /\ docs'[Len(docs) + 1] = NewDoc(Current(w))
         /\ \A j \in DOMAIN docs : docs'[j] = docs[j]
<1>1. ~Idle(w)
  BY DEF Insert, Follows
<1>2. NewDoc(Current(w)) \in Docs
  BY <1>1, CurrentType, NewDocType
<1>3. /\ Moves(w)
      /\ bulk'[w].next = bulk[w].next + 1 /\ ~bulk'[w].inserting
      /\ bulk'[w].fate = "good" => bulk[w].fate = "good"
  BY <1>1, EndedMoves DEF Insert
<1>4. QED
  BY <1>1, <1>2, <1>3, InsertDocs DEF Insert

\* An insert that conflicts: the find is repeated, or the operation refused.
LEMMA ConflictStep ==
  ASSUME TypeOK, Follows, NEW w \in Writers, InsertConflicts(w)
  PROVE  /\ ~Idle(w) /\ Moves(w) /\ docs' = docs /\ ~bulk'[w].inserting
         /\ \/ bulk'[w].next = bulk[w].next /\ bulk'[w].fate = bulk[w].fate
            \/ bulk'[w].next = bulk[w].next + 1 /\ bulk'[w].fate # "good"
<1>1. ~Idle(w) /\ docs' = docs /\ begun' = begun /\ collection' = collection
  BY DEF InsertConflicts, Follows
<1>2. CASE bulk' = [bulk EXCEPT ![w].inserting = FALSE]
  BY <1>1, <1>2, FindMoves
<1>3. CASE Ended(w, TRUE)
  BY <1>1, <1>3, EndedMoves
<1>4. QED
  BY <1>2, <1>3 DEF InsertConflicts

\* The find of an operation finds nothing.
LEMMA NothingStep ==
  ASSUME TypeOK, Follows, NEW w \in Writers, FindNothing(w)
  PROVE  /\ ~Idle(w) /\ Moves(w) /\ docs' = docs /\ bulk'[w].inserting
         /\ bulk'[w].next = bulk[w].next /\ bulk'[w].fate = bulk[w].fate
         /\ \A i \in DOMAIN docs : ~Matches(docs[i], Current(w))
BY FindMoves DEF FindNothing, Finding

\* Every step keeps the types.
LEMMA NextType == TypeOK /\ Follows /\ [Next]_vars => (TypeOK /\ Follows)'
<1> SUFFICES ASSUME TypeOK, Follows, [Next]_vars PROVE (TypeOK /\ Follows)'
  OBVIOUS
<1>1. ASSUME NEW w \in Writers, NEW job \in Jobs, Begin(w, job) PROVE (TypeOK /\ Follows)'
  BY <1>1, BeginType
<1>2. ASSUME NEW w \in Writers, Moves(w), docs' \in Seq(Docs), Unique', ~Idle(w),
             bulk'[w].next \in {bulk[w].next, bulk[w].next + 1, Len(bulk[w].ops) + 1},
             bulk'[w].inserting => bulk'[w].next = bulk[w].next
      PROVE  (TypeOK /\ Follows)'
  <2>1. /\ bulk[w].next \in Nat /\ Len(bulk[w].ops) \in Nat
        /\ bulk[w].next <= Len(bulk[w].ops)
    BY <1>2, BulkType DEF Idle
  <2>2. bulk'[w].next <= Len(bulk[w].ops) + 1
    <3>1. \/ bulk'[w].next = bulk[w].next
          \/ bulk'[w].next = bulk[w].next + 1
          \/ bulk'[w].next = Len(bulk[w].ops) + 1
      BY <1>2
    <3>2. QED
      BY <2>1, <3>1
  <2>3. bulk'[w].inserting => bulk'[w].next <= Len(bulk[w].ops)
    BY <1>2, <2>1
  <2>4. Follows'
    BY <1>2, <2>2, <2>3, MovesFollow
  <2>5. TypeOK'
    BY <1>2 DEF TypeOK, Moves, Unique, Docs
  <2>6. QED
    BY <2>4, <2>5
<1>3. ASSUME NEW w \in Writers, NEW i \in DOMAIN docs, Modify(w, i) PROVE (TypeOK /\ Follows)'
  BY <1>2, <1>3, ModifyStep
<1>4. ASSUME NEW w \in Writers, Insert(w) PROVE (TypeOK /\ Follows)'
  BY <1>2, <1>4, InsertStep
<1>5. ASSUME NEW w \in Writers, Moves(w), docs' = docs PROVE docs' \in Seq(Docs) /\ Unique'
  BY <1>5, DocsType DEF Unique, Moves
<1>6. ASSUME NEW w \in Writers, InsertConflicts(w) PROVE (TypeOK /\ Follows)'
  BY <1>2, <1>5, <1>6, ConflictStep
<1>7. ASSUME NEW w \in Writers, FindNothing(w) PROVE (TypeOK /\ Follows)'
  BY <1>2, <1>5, <1>7, NothingStep
<1>8. ASSUME NEW w \in Writers, BreakOff(w) PROVE (TypeOK /\ Follows)'
  BY <1>2, <1>5, <1>8, BreakMoves DEF BreakOff
<1>9. CASE UNCHANGED vars
  BY <1>9 DEF vars, TypeOK, Follows, Idle
<1>10. QED
  BY <1>1, <1>3, <1>4, <1>6, <1>7, <1>8, <1>9 DEF Next

\* The unique index holds against every writer: no two documents have one key, even where
\* a pipeline writes into the collection under another.
THEOREM UniqueKeys == Spec => []TypeOK
<1>1. Init => TypeOK /\ Follows
  BY InitType
<1>2. QED
  BY <1>1, NextType, PTL DEF Spec

-----------------------------------------------------------------------------
(* Who is alone. *)

\* While a bulk write is alone, no other is in progress; and when its find has found
\* nothing, there still is nothing.
Solitude ==
  /\ \A w, v \in Writers : w # v /\ bulk[w].alone => Idle(v)
  /\ \A w \in Writers : bulk[w].alone /\ bulk[w].inserting =>
        \A i \in DOMAIN docs : ~Matches(docs[i], Current(w))

\* A step of w leaves the operations, and the place in them, of the others.
LEMMA OthersStay ==
  ASSUME NEW w \in Writers, Moves(w), NEW v \in Writers, v # w
  PROVE  bulk'[v] = bulk[v] /\ (Idle(v)' <=> Idle(v)) /\ Current(v)' = Current(v)
BY DEF Moves, Idle, Current

\* Every step of a bulk write in progress, by what it does.
LEMMA NextSteps ==
  ASSUME TypeOK, Follows, Next
  PROVE  \E w \in Writers :
           \/ \E job \in Jobs : Begin(w, job)
           \/ /\ Moves(w) /\ ~Idle(w)
              /\ \/ \E i \in DOMAIN docs : Modify(w, i)
                 \/ FindNothing(w) \/ Insert(w) \/ InsertConflicts(w) \/ BreakOff(w)
BY ModifyStep, NothingStep, InsertStep, ConflictStep, BreakMoves DEF Next, BreakOff

\* What a beginning does.
LEMMA BeginStep ==
  ASSUME TypeOK, NEW w \in Writers, NEW job \in Jobs, Begin(w, job)
  PROVE  /\ Idle(w) /\ docs' = docs
         /\ bulk'[w].job = job /\ bulk'[w].ops = Operations(job) /\ bulk'[w].next = 1
         /\ ~bulk'[w].inserting /\ bulk'[w].fate = "good"
         /\ bulk'[w].alone <=> \A v \in Writers : Idle(v)
         /\ bulk'[w].again <=> bulk[w].job = job /\ bulk[w].alone /\ bulk[w].fate = "good"
         /\ \A v \in Writers \ {w} : bulk'[v] = [bulk[v] EXCEPT !.alone = FALSE]
<1> DEFINE alone == \A v \in Writers : Idle(v)
           again == bulk[w].job = job /\ bulk[w].alone /\ bulk[w].fate = "good"
<1>1. job \in AnyJob
  BY DEF AnyJob
<1>2. bulk'[w] = NewBulk(job, alone, again)
  BY DEF Begin
<1>3. alone \in BOOLEAN /\ again \in BOOLEAN
  OBVIOUS
<1>4. /\ bulk'[w].job = job /\ bulk'[w].ops = Operations(job) /\ bulk'[w].next = 1
      /\ ~bulk'[w].inserting /\ bulk'[w].fate = "good"
      /\ (bulk'[w].alone <=> alone) /\ (bulk'[w].again <=> again)
  <2> HIDE DEF alone, again
  <2>1. QED
    BY <1>1, <1>2, <1>3, NewBulkType
<1>5. QED
  BY <1>4 DEF Begin

\* After a beginning, the others are where they were, but no longer alone.
LEMMA BeginOthers ==
  ASSUME TypeOK, NEW w \in Writers, NEW job \in Jobs, Begin(w, job),
         NEW v \in Writers, v # w
  PROVE  ~bulk'[v].alone /\ (Idle(v)' <=> Idle(v))
<1>1. bulk'[v] = [bulk[v] EXCEPT !.alone = FALSE] /\ bulk[v] \in Bulks
  BY BeginStep, BulkType
<1>2. ~bulk'[v].alone /\ bulk'[v].ops = bulk[v].ops /\ bulk'[v].next = bulk[v].next
  BY <1>1 DEF Bulks
<1>3. QED
  BY <1>2 DEF Idle

\* Solitude is kept.
LEMMA NextSolitude == TypeOK /\ Follows /\ Solitude /\ [Next]_vars => Solitude'
<1> SUFFICES ASSUME TypeOK, Follows, Solitude, [Next]_vars PROVE Solitude'
  OBVIOUS
<1>1. ASSUME NEW w \in Writers, NEW job \in Jobs, Begin(w, job) PROVE Solitude'
  <2>1. \A v \in Writers : v # w => ~bulk'[v].alone /\ (Idle(v)' <=> Idle(v))
    BY <1>1, BeginOthers
  <2>2. ~bulk'[w].inserting /\ (bulk'[w].alone => \A v \in Writers : Idle(v))
    BY <1>1, BeginStep
  <2>3. QED
    BY <2>1, <2>2 DEF Solitude
<1>2. ASSUME NEW w \in Writers, Moves(w), ~Idle(w),
             bulk'[w].alone /\ bulk'[w].inserting =>
               \A i \in DOMAIN docs' : ~Matches(docs[i], Current(w))'
      PROVE  Solitude'
  <2>1. \A v \in Writers : v # w =>
           ~bulk[v].alone /\ bulk'[v] = bulk[v] /\ (Idle(v)' <=> Idle(v))
    BY <1>2, OthersStay DEF Solitude
  <2>2. bulk'[w].alone = bulk[w].alone
    BY <1>2 DEF Moves
  <2>3. QED
    BY <1>2, <2>1, <2>2 DEF Solitude
<1>3. ASSUME NEW w \in Writers, Moves(w), ~Idle(w),
             \/ \E i \in DOMAIN docs : Modify(w, i)
             \/ Insert(w) \/ InsertConflicts(w) \/ BreakOff(w)
      PROVE  Solitude'
  BY <1>2, <1>3, ModifyStep, InsertStep, ConflictStep, BreakMoves
<1>4. ASSUME NEW w \in Writers, Moves(w), ~Idle(w), FindNothing(w) PROVE Solitude'
  <2>1. docs' = docs /\ \A i \in DOMAIN docs : ~Matches(docs[i], Current(w))
    BY <1>4, NothingStep
  <2>2. Current(w)' = Current(w)
    BY <1>4, NothingStep DEF Moves, Current
  <2>3. \A i \in DOMAIN docs' : ~Matches(docs[i], Current(w))'
    BY <2>1, <2>2 DEF Matches
  <2>4. QED
    BY <1>2, <1>4, <2>3
<1>5. CASE UNCHANGED vars
  BY <1>5 DEF vars, Solitude, Idle, Current, Matches
<1>6. QED
  BY <1>1, <1>3, <1>4, <1>5, NextSteps

\* At the beginning everyone is alone.
LEMMA InitSolitude == Init => Solitude
<1> SUFFICES ASSUME Init PROVE Solitude
  OBVIOUS
<1>1. TypeOK /\ Follows
  BY InitType
<1>2. Nothing \in AnyJob /\ Nothing.records = <<>>
  BY DEF AnyJob, Nothing
<1>3. Len(Operations(Nothing)) = 0
  BY <1>2, OperationsType
<1>4. ASSUME NEW w \in Writers
      PROVE  bulk[w].ops = Operations(Nothing) /\ bulk[w].next = 1 /\ ~bulk[w].inserting
  BY <1>2, NewBulkType DEF Init
<1>5. QED
  BY <1>3, <1>4 DEF Solitude, Idle

-----------------------------------------------------------------------------
(* Upserts are atomic. *)

Abstract == [w \in Writers |-> [ops |-> bulk[w].ops, next |-> bulk[w].next,
                                alone |-> bulk[w].alone]]

LEMMA InitActs == Init => Atomic!Init
<1> SUFFICES ASSUME Init PROVE Atomic!Init
  OBVIOUS
<1>1. Nothing \in AnyJob /\ Nothing.records = <<>>
  BY DEF AnyJob, Nothing
<1>2. Operations(Nothing) = <<>>
  <2>1. Operations(Nothing) \in Seq(Ops) /\ Len(Operations(Nothing)) = 0
    BY <1>1, OperationsType
  <2>2. QED
    BY <2>1
<1>3. ASSUME NEW w \in Writers
      PROVE  bulk[w].ops = <<>> /\ bulk[w].next = 1 /\ bulk[w].alone = TRUE
  BY <1>2 DEF Init, NewBulk
<1>4. QED
  BY <1>3, UpsertAssumption DEF Init, Atomic!Init, Backed

\* A step within a bulk write shows the next place in it.
LEMMA AbstractStep ==
  ASSUME TypeOK, NEW w \in Writers, Moves(w)
  PROVE  Abstract' = [Abstract EXCEPT ![w].next = bulk'[w].next]
BY DEF Moves, Abstract

LEMMA ActsBegin ==
  ASSUME TypeOK, NEW w \in Writers, NEW job \in Jobs, Begin(w, job)
  PROVE  Atomic!Begin(w)
<1>1. Idle(w) /\ docs' = docs /\ bulk'[w].next = 1
  BY BeginStep
<1>2. ASSUME NEW v \in Writers \ {w}
      PROVE  /\ bulk'[v].ops = bulk[v].ops /\ bulk'[v].next = bulk[v].next
             /\ bulk'[v].alone = FALSE
  <2>1. bulk'[v] = [bulk[v] EXCEPT !.alone = FALSE] /\ bulk[v] \in Bulks
    BY BeginStep, BulkType
  <2>2. QED
    BY <2>1 DEF Bulks
<1>3. ASSUME NEW v \in Writers \ {w} PROVE Abstract'[v] = [Abstract[v] EXCEPT !.alone = FALSE]
  <2>1. Abstract'[v] = [ops |-> bulk'[v].ops, next |-> bulk'[v].next, alone |-> bulk'[v].alone]
    BY DEF Abstract
  <2>2. Abstract[v] = [ops |-> bulk[v].ops, next |-> bulk[v].next, alone |-> bulk[v].alone]
    BY DEF Abstract
  <2>3. \A x : [Abstract[v] EXCEPT !.alone = x] =
                 [ops |-> bulk[v].ops, next |-> bulk[v].next, alone |-> x]
    BY <2>2
  <2>4. [Abstract[v] EXCEPT !.alone = FALSE] =
          [ops |-> bulk[v].ops, next |-> bulk[v].next, alone |-> FALSE]
    BY <2>3, Zenon
  <2>5. QED
    BY <1>2, <2>1, <2>4, Zenon
<1>4. Abstract'[w].next = 1 /\ Abstract'[w].alone = \A v \in Writers : Idle(v)
  <2>1. bulk'[w].alone = \A v \in Writers : Idle(v)
    BY DEF Begin, NewBulk
  <2>2. QED
    BY <1>1, <2>1 DEF Abstract
<1>5. \A v \in Writers : Idle(v) <=> Abstract[v].next > Len(Abstract[v].ops)
  BY DEF Abstract, Idle
<1>6. QED
  BY <1>1, <1>3, <1>4, <1>5 DEF Atomic!Begin, Atomic!Idle, Abstract

LEMMA ActsApply ==
  ASSUME TypeOK, Follows, NEW w \in Writers, Moves(w), ~Idle(w),
         bulk'[w].next = bulk[w].next + 1,
         \/ \E i \in DOMAIN docs : Atomic!Change(w, i, Current(w))
         \/ Atomic!Add(w, Current(w))
         \/ UNCHANGED docs
  PROVE  Atomic!Apply(w)
<1>1. Abstract' = [Abstract EXCEPT ![w].next = @ + 1]
  BY AbstractStep DEF Abstract
<1>2. Abstract[w].ops[Abstract[w].next] = Current(w)
  BY DEF Abstract, Current
<1>3. QED
  BY <1>1, <1>2 DEF Abstract, Atomic!Apply, Atomic!Advance, Atomic!Idle, Idle

LEMMA ActsModify ==
  ASSUME TypeOK, Follows, NEW w \in Writers, NEW i \in DOMAIN docs, Modify(w, i)
  PROVE  Atomic!Apply(w)
<1>1. CASE docs' = docs
  BY <1>1, ModifyStep, ActsApply
<1>2. CASE docs' # docs
  <2>1. docs' = [docs EXCEPT ![i] = Changed(docs[i], Current(w))]
    BY <1>2 DEF Modify
  <2>2. docs[i][Current(w).on] = Current(w).value
    BY ModifyStep DEF Matches
  <2>3. Atomic!Change(w, i, Current(w))
    BY <2>1, <2>2 DEF Atomic!Change, Changed
  <2>4. QED
    BY <2>3, ModifyStep, ActsApply
<1>3. QED
  BY <1>1, <1>2

\* Neither under the indexed key, nor alone, is a document added next to one that matches.
LEMMA ActsInsert ==
  ASSUME TypeOK, Follows, Solitude, NEW w \in Writers, Insert(w)
  PROVE  Atomic!Apply(w)
<1> DEFINE op == Current(w)
           doc == NewDoc(op)
<1>1. ~Idle(w) /\ bulk[w].inserting
  BY InsertStep DEF Insert
<1>2. op \in Ops /\ (op.on \in DOMAIN op.set => op.set[op.on] = op.value)
  BY <1>1, CurrentType
<1>3. doc[op.on] = op.value
  BY <1>2, ValueType DEF NewDoc
<1>4. doc \in [Fields -> {None, op.value} \cup {op.set[f] : f \in DOMAIN op.set}]
  BY DEF NewDoc
<1>5. op.on \in Backed => \A i \in DOMAIN docs : docs[i][op.on] # op.value
  BY <1>3, InsertStep DEF Conflicts, Indexed, Backed
<1>6. bulk[w].alone => \A i \in DOMAIN docs : docs[i][op.on] # op.value
  BY <1>1 DEF Solitude, Matches
<1>7. docs' = Append(docs, doc)
  BY InsertStep
<1> HIDE DEF doc, op
<1>8. Atomic!Add(w, op)
  BY <1>3, <1>4, <1>5, <1>6, <1>7 DEF Atomic!Add
<1>9. QED
  BY <1>8, InsertStep, ActsApply DEF op

\* A step that shows nothing.
LEMMA ActsNot ==
  ASSUME TypeOK, NEW w \in Writers, Moves(w), docs' = docs, bulk'[w].next = bulk[w].next
  PROVE  UNCHANGED Atomic!vars
<1>1. Abstract' = Abstract
  <2>1. Abstract' = [Abstract EXCEPT ![w].next = bulk[w].next]
    BY AbstractStep
  <2>2. \A v \in Writers : Abstract'[v] = Abstract[v]
    BY <2>1 DEF Abstract
  <2>3. QED
    BY <2>2 DEF Abstract
<1>2. QED
  BY <1>1 DEF Atomic!vars, Abstract, Moves, Backed

LEMMA ActsBreakOff ==
  ASSUME TypeOK, Follows, NEW w \in Writers, BreakOff(w)
  PROVE  Atomic!BreakOff(w)
<1>1. Abstract' = [Abstract EXCEPT ![w].next = Len(Abstract[w].ops) + 1]
  BY AbstractStep, BreakMoves DEF Abstract
<1>2. QED
  BY <1>1 DEF BreakOff, Abstract, Atomic!BreakOff, Atomic!Idle, Idle

\* Every step is a step of atomic upserts, or shows nothing.
LEMMA NextActs ==
  TypeOK /\ Follows /\ Solitude /\ [Next]_vars => [Atomic!Next]_(Atomic!vars)
<1> SUFFICES ASSUME TypeOK, Follows, Solitude, [Next]_vars
             PROVE  [Atomic!Next]_(Atomic!vars)
  OBVIOUS
<1>0. Backed' = Backed
  BY DEF Next, vars, Begin, Modify, FindNothing, Insert, InsertConflicts, BreakOff, Backed
<1>1. ASSUME NEW w \in Writers, NEW job \in Jobs, Begin(w, job) PROVE Atomic!Next
  BY <1>0, <1>1, ActsBegin DEF Atomic!Next
<1>2. ASSUME NEW w \in Writers, (\E i \in DOMAIN docs : Modify(w, i)) \/ Insert(w)
      PROVE  Atomic!Next
  BY <1>0, <1>2, ActsModify, ActsInsert DEF Atomic!Next
<1>3. ASSUME NEW w \in Writers, BreakOff(w) PROVE Atomic!Next
  BY <1>0, <1>3, ActsBreakOff DEF Atomic!Next
<1>4. ASSUME NEW w \in Writers, FindNothing(w) PROVE UNCHANGED Atomic!vars
  BY <1>4, NothingStep, ActsNot
<1>5. ASSUME NEW w \in Writers, InsertConflicts(w) PROVE [Atomic!Next]_(Atomic!vars)
  <2>1. CASE bulk'[w].next = bulk[w].next
    BY <1>5, <2>1, ConflictStep, ActsNot
  <2>2. CASE bulk'[w].next = bulk[w].next + 1
    <3>1. Atomic!Apply(w)
      BY <1>5, <2>2, ConflictStep, ActsApply
    <3>2. QED
      BY <1>0, <3>1 DEF Atomic!Next
  <2>3. QED
    BY <1>5, <2>1, <2>2, ConflictStep
<1>6. CASE UNCHANGED vars
  BY <1>6 DEF vars, Atomic!vars, Backed
<1>7. QED
  BY <1>1, <1>2, <1>3, <1>4, <1>5, <1>6, NextSteps

\* The find and the insert of an upsert are one step to everyone else, whatever other
\* writers do in between, under the indexed key, and under any key to who writes alone.
THEOREM UpsertsActAtomically == Spec => ActsAtomically
<1>1. Init => TypeOK /\ Follows /\ Solitude /\ Atomic!Init
  BY InitType, InitSolitude, InitActs
<1>2. QED
  BY <1>1, NextType, NextSolitude, NextActs, PTL DEF Spec, ActsAtomically, Atomic!Spec

-----------------------------------------------------------------------------
(* What a bulk write leaves behind. *)

\* The collection has a document that the filter of the operation finds.
Found(op) == \E d \in DOMAIN docs : Matches(docs[d], op)

\* And one that holds the record too.
Held(op) == \E d \in DOMAIN docs : /\ Matches(docs[d], op)
                                   /\ \A f \in DOMAIN op.set : docs[d][f] = op.set[f]

\* A later record, before place n, has the key of record i.
Replaced(w, i, n) ==
  \E j \in i+1..n-1 : SameIdentity(bulk[w].job.key, bulk[w].job.records[i], bulk[w].job.records[j])

\* The operations that a bulk write has behind it stand, while it is alone.
Stand(w) ==
  bulk[w].alone /\ bulk[w].fate = "good" =>
     \A i \in 1..bulk[w].next - 1 :
        Found(bulk[w].ops[i]) /\ (Held(bulk[w].ops[i]) \/ Replaced(w, i, bulk[w].next))

\* Who repeats a bulk write finds all that it looks for.
Repeats(w) ==
  bulk[w].alone /\ bulk[w].again =>
     /\ ~bulk[w].inserting
     /\ \A i \in DOMAIN bulk[w].ops : Found(bulk[w].ops[i])

Standing == \A w \in Writers : Stand(w) /\ Repeats(w)

\* Two records whose operations ask for the same value have the same key, or none.
LEMMA SameValue ==
  ASSUME NEW key \in (Fields \ {Synthetic}) \cup {NoKey}, NEW r \in Records, NEW s \in Records,
         Operation(key, r).value = Operation(key, s).value
  PROVE  SameIdentity(key, r, s)
<1>1. \A x \in Records : Operation(key, x).value = IF key = NoKey THEN Printed[x]
                            ELSE IF key \in DOMAIN x THEN x[key] ELSE None
  BY OperationType
<1>2. CASE key = NoKey
  <2>1. Operation(key, r).value = Printed[r] /\ Operation(key, s).value = Printed[s]
    BY <1>1, <1>2
  <2>2. r = s
    BY <2>1, UpsertAssumption
  <2>3. QED
    BY <1>2, <2>2 DEF SameIdentity
<1>3. CASE key # NoKey
  <2>1. (IF key \in DOMAIN r THEN r[key] ELSE None) = (IF key \in DOMAIN s THEN s[key] ELSE None)
    BY <1>1, <1>3
  <2>2. /\ key \in DOMAIN r => r[key] \in Values
        /\ key \in DOMAIN s => s[key] \in Values
    BY RecordType
  <2>3. None \notin Values
    BY UpsertAssumption
  <2>4. QED
    BY <1>3, <2>1, <2>2, <2>3 DEF SameIdentity
<1>4. QED
  BY <1>2, <1>3

\* Operations of one job that ask for the same are of records of the same key.
LEMMA SameKey ==
  ASSUME NEW job \in AnyJob, NEW i \in 1..Len(job.records), NEW j \in 1..Len(job.records),
         Operations(job)[i].value = Operations(job)[j].value
  PROVE  SameIdentity(job.key, job.records[i], job.records[j])
<1>1. /\ job.records[i] \in Records /\ job.records[j] \in Records
      /\ job.key \in (Fields \ {Synthetic}) \cup {NoKey}
  BY OperationsType, JobType
<1>2. Operation(job.key, job.records[i]).value = Operation(job.key, job.records[j]).value
  BY OperationsType
<1>3. QED
  BY <1>1, <1>2, SameValue

\* The operations of a bulk write, all on one field.
LEMMA OpsOfBulk ==
  ASSUME TypeOK, Follows, NEW w \in Writers
  PROVE  /\ bulk[w].job \in AnyJob /\ bulk[w].ops = Operations(bulk[w].job)
         /\ Len(bulk[w].ops) = Len(bulk[w].job.records) /\ Len(bulk[w].ops) \in Nat
         /\ DOMAIN bulk[w].ops = 1..Len(bulk[w].ops)
         /\ \A i \in 1..Len(bulk[w].ops) :
              /\ bulk[w].ops[i] \in Ops
              /\ bulk[w].ops[i].on = OnOf(bulk[w].job)
              /\ bulk[w].ops[i].set = bulk[w].job.records[i]
BY BulkType, OperationsType DEF Follows

\* An upsert keeps what a filter on its field finds.
LEMMA ModifyKeeps ==
  ASSUME TypeOK, Follows, NEW w \in Writers, NEW i \in DOMAIN docs, Modify(w, i),
         NEW op \in Ops, op.on = OnOf(bulk[w].job), NEW d \in DOMAIN docs, Matches(docs[d], op)
  PROVE  d \in DOMAIN docs' /\ Matches(docs'[d], op)
<1>1. ~Idle(w) /\ Current(w).on = op.on
  BY ModifyStep, CurrentType
<1>2. CASE docs'[d] = docs[d]
  BY <1>2, ModifyStep DEF Matches
<1>3. CASE docs'[d] # docs[d]
  <2>1. d = i /\ docs'[d] = Changed(docs[d], Current(w))
    BY <1>3, ModifyStep
  <2>2. docs[d][op.on] = Current(w).value /\ docs[d][op.on] = op.value
    BY <1>1, <2>1, ModifyStep DEF Matches
  <2>3. docs'[d][op.on] = op.value
    <3>1. /\ Current(w).on \in DOMAIN Current(w).set
               => Current(w).set[Current(w).on] = Current(w).value
          /\ op.on \in Fields
      BY <1>1, CurrentType, ValueType
    <3>2. QED
      BY <1>1, <2>1, <2>2, <3>1 DEF Changed
  <2>4. QED
    BY <2>3, ModifyStep DEF Matches
<1>4. QED
  BY <1>2, <1>3

LEMMA ModifyFinds ==
  ASSUME TypeOK, Follows, NEW w \in Writers, NEW i \in DOMAIN docs, Modify(w, i),
         NEW op \in Ops, op.on = OnOf(bulk[w].job), Found(op)
  PROVE  Found(op)'
BY ModifyKeeps DEF Found, Matches

\* What a bulk write holds of an earlier record stays, or the record is replaced.
LEMMA ModifyHolds ==
  ASSUME TypeOK, Follows, NEW w \in Writers, NEW i \in DOMAIN docs, Modify(w, i),
         NEW k \in 1..bulk[w].next - 1, Held(bulk[w].ops[k])
  PROVE  Held(bulk[w].ops[k])' \/ Replaced(w, k, bulk[w].next + 1)
<1> DEFINE op == bulk[w].ops[k]
           n == bulk[w].next
<1>1. ~Idle(w) /\ n \in 1..Len(bulk[w].job.records) /\ Len(bulk[w].ops) \in Nat
      /\ Len(bulk[w].ops) = Len(bulk[w].job.records)
  BY ModifyStep, CurrentType, OpsOfBulk
<1>2. k \in 1..Len(bulk[w].ops) /\ op \in Ops /\ op.on = OnOf(bulk[w].job)
  BY <1>1, OpsOfBulk
<1>3. PICK d \in DOMAIN docs : Matches(docs[d], op) /\ \A f \in DOMAIN op.set : docs[d][f] = op.set[f]
  BY DEF Held
<1>4. CASE docs'[d] = docs[d]
  <2>1. bulk'[w].ops = bulk[w].ops /\ d \in DOMAIN docs'
    BY ModifyStep DEF Moves
  <2>2. /\ Matches(docs'[d], op)
        /\ \A f \in DOMAIN op.set : docs'[d][f] = op.set[f]
    <3> HIDE DEF op, n
    <3>1. QED
      BY <1>3, <1>4
  <2>3. Held(op)'
    BY <2>1, <2>2 DEF Held, Matches
  <2>4. QED
    BY <2>3
<1>5. CASE docs'[d] # docs[d]
  <2>1. d = i
    BY <1>5, ModifyStep
  <2>2. docs[d][op.on] = op.value /\ docs[d][Current(w).on] = Current(w).value
    BY <1>3, <2>1, ModifyStep DEF Matches
  <2>3. Current(w) = bulk[w].ops[n] /\ Current(w).on = op.on
    BY <1>1, <1>2, CurrentType
  <2>4. bulk[w].ops[k].value = bulk[w].ops[n].value
    BY <2>2, <2>3
  <2>5. SameIdentity(bulk[w].job.key, bulk[w].job.records[k], bulk[w].job.records[n])
    BY <1>1, <1>2, <2>4, OpsOfBulk, SameKey
  <2>6. n \in k+1..n+1-1
    BY <1>1
  <2>7. QED
    BY <2>5, <2>6 DEF Replaced
<1>6. QED
  BY <1>4, <1>5

\* The operation that has just ended holds its record.
LEMMA ModifyDone ==
  ASSUME TypeOK, Follows, NEW w \in Writers, NEW i \in DOMAIN docs, Modify(w, i),
         bulk'[w].fate = "good", NEW op, op = Current(w)
  PROVE  Held(op)'
<1>1. ~Idle(w) /\ docs'[i] = Changed(docs[i], op) /\ i \in DOMAIN docs'
  BY ModifyStep
<1>2. op \in Ops /\ op.on \in Fields /\ DOMAIN op.set \subseteq Fields
  BY <1>1, CurrentType, ValueType
<1>3. \A f \in DOMAIN op.set : docs'[i][f] = op.set[f]
  BY <1>1, <1>2 DEF Changed
<1>4. docs'[i][op.on] = op.value
  BY <1>1, <1>2, CurrentType, ModifyStep DEF Changed, Matches
<1>5. QED
  BY <1>1, <1>3, <1>4 DEF Held, Matches

\* An insert keeps every document, and adds one that holds its record.
LEMMA InsertDone ==
  ASSUME TypeOK, Follows, NEW w \in Writers, Insert(w)
  PROVE  /\ \A op \in Ops : (Found(op) => Found(op)') /\ (Held(op) => Held(op)')
         /\ \A op \in Ops : op = Current(w) => Held(op)'
<1>1. DOMAIN docs \subseteq DOMAIN docs' /\ \A d \in DOMAIN docs : docs'[d] = docs[d]
  BY InsertStep, DocsType
<1>2. ASSUME NEW op \in Ops PROVE (Found(op) => Found(op)') /\ (Held(op) => Held(op)')
  BY <1>1 DEF Found, Held, Matches
<1>3. ASSUME NEW op \in Ops, op = Current(w) PROVE Held(op)'
  <2> DEFINE d == Len(docs) + 1
  <2>1. d \in DOMAIN docs' /\ docs'[d] = NewDoc(op)
    BY <1>3, InsertStep, DocsType
  <2>2. /\ op.on \in Fields /\ DOMAIN op.set \subseteq Fields
        /\ op.on \in DOMAIN op.set => op.set[op.on] = op.value
    BY <1>3, InsertStep, CurrentType, ValueType
  <2>3. docs'[d][op.on] = op.value /\ \A f \in DOMAIN op.set : docs'[d][f] = op.set[f]
    BY <2>1, <2>2 DEF NewDoc
  <2> HIDE DEF d
  <2>4. QED
    BY <2>1, <2>3 DEF Held, Matches
<1>4. QED
  BY <1>2, <1>3

\* An operation that changes or adds its document makes the bulk write stand.
LEMMA DoneStands ==
  ASSUME TypeOK, Follows, Standing, NEW w \in Writers,
         (\E i \in DOMAIN docs : Modify(w, i)) \/ Insert(w)
  PROVE  Stand(w)'
<1> DEFINE n == bulk[w].next
           ops == bulk[w].ops
<1>1. ~Idle(w) /\ n \in 1..Len(ops) /\ bulk'[w].next = n + 1 /\ Current(w) = ops[n]
  BY ModifyStep, InsertStep, CurrentType, OpsOfBulk
<1>2. bulk'[w].ops = ops /\ bulk'[w].job = bulk[w].job /\ bulk'[w].alone = bulk[w].alone
  BY ModifyStep, InsertStep DEF Moves
<1>3. SUFFICES ASSUME bulk'[w].alone, bulk'[w].fate = "good", NEW k \in 1..n
               PROVE  Found(ops[k])' /\ (Held(ops[k])' \/ Replaced(w, k, n + 1))
  <2>1. bulk'[w].next - 1 = n
    BY <1>1
  <2>2. \A k \in 1..n : Replaced(w, k, n + 1) => Replaced(w, k, bulk[w].next)'
    BY <1>1, <1>2 DEF Replaced
  <2>3. QED
    BY <1>2, <1>3, <2>1, <2>2 DEF Stand
<1>4. ops[k] \in Ops /\ ops[k].on = OnOf(bulk[w].job)
  BY <1>1, <1>3, OpsOfBulk
<1>5. CASE k = n
  BY <1>1, <1>2, <1>3, <1>4, <1>5, ModifyDone, InsertDone DEF Held, Found
<1>6. CASE k # n
  <2>1. k \in 1..n-1 /\ bulk[w].alone /\ bulk[w].fate = "good"
    BY <1>1, <1>2, <1>3, <1>6, ModifyStep, InsertStep
  <2>2. Found(ops[k]) /\ (Held(ops[k]) \/ Replaced(w, k, n))
    BY <2>1 DEF Standing, Stand
  <2>3. Found(ops[k])'
    BY <1>2, <1>4, <2>2, ModifyFinds, InsertDone DEF Found
  <2>4. Replaced(w, k, n) => Replaced(w, k, n + 1)
    BY <1>1, <2>1 DEF Replaced
  <2>5. Held(ops[k]) => Held(ops[k])' \/ Replaced(w, k, n + 1)
    BY <1>2, <1>4, <2>1, ModifyHolds, InsertDone DEF Held
  <2>6. QED
    BY <2>2, <2>3, <2>4, <2>5
<1>7. QED
  BY <1>5, <1>6

\* A step that leaves the documents, and does not go on, keeps all that stands.
LEMMA PauseStands ==
  ASSUME Standing, NEW w \in Writers, Moves(w), docs' = docs,
         \/ bulk'[w].next = bulk[w].next /\ bulk'[w].fate = bulk[w].fate
         \/ bulk'[w].fate # "good"
  PROVE  Stand(w)'
<1> SUFFICES ASSUME bulk'[w].alone, bulk'[w].fate = "good" PROVE Stand(w)'
  BY DEF Stand
<1>1. /\ bulk[w].alone /\ bulk[w].fate = "good" /\ bulk'[w].next = bulk[w].next
      /\ bulk'[w].ops = bulk[w].ops /\ bulk'[w].job = bulk[w].job
  BY DEF Moves
<1>2. \A i \in 1..bulk[w].next - 1 :
         Found(bulk[w].ops[i]) /\ (Held(bulk[w].ops[i]) \/ Replaced(w, i, bulk[w].next))
  BY <1>1 DEF Standing, Stand
<1>3. ASSUME NEW i \in 1..bulk[w].next - 1
      PROVE  /\ Found(bulk[w].ops[i]) => Found(bulk[w].ops[i])'
             /\ Held(bulk[w].ops[i]) => Held(bulk[w].ops[i])'
             /\ Replaced(w, i, bulk[w].next) => Replaced(w, i, bulk[w].next)'
  BY <1>1 DEF Found, Held, Matches, Replaced
<1>4. QED
  BY <1>1, <1>2, <1>3 DEF Stand

\* Who repeats a bulk write neither finds nothing nor inserts.
LEMMA RepeatsFinds ==
  ASSUME TypeOK, Follows, Standing, NEW w \in Writers, ~Idle(w), bulk[w].alone, bulk[w].again
  PROVE  ~bulk[w].inserting /\ ~FindNothing(w) /\ ~Insert(w) /\ ~InsertConflicts(w)
<1>1. ~bulk[w].inserting /\ Found(Current(w))
  BY CurrentType, OpsOfBulk DEF Standing, Repeats
<1>2. QED
  BY <1>1 DEF FindNothing, Insert, InsertConflicts, Found

\* A step of a repeated bulk write.
LEMMA StepRepeats ==
  ASSUME TypeOK, Follows, Standing, NEW w \in Writers, Moves(w), ~Idle(w),
         \/ \E i \in DOMAIN docs : Modify(w, i)
         \/ FindNothing(w) \/ Insert(w) \/ InsertConflicts(w) \/ BreakOff(w)
  PROVE  Repeats(w)'
<1> SUFFICES ASSUME bulk'[w].alone, bulk'[w].again PROVE Repeats(w)'
  BY DEF Repeats
<1>1. /\ bulk[w].alone /\ bulk[w].again
      /\ bulk'[w].ops = bulk[w].ops /\ bulk'[w].job = bulk[w].job
  BY DEF Moves
<1>2. \A i \in DOMAIN bulk[w].ops : Found(bulk[w].ops[i])
  BY <1>1 DEF Standing, Repeats
<1>3. CASE \E i \in DOMAIN docs : Modify(w, i)
  <2>1. \A k \in DOMAIN bulk[w].ops : Found(bulk[w].ops[k])'
    <3>1. ASSUME NEW k \in DOMAIN bulk[w].ops, NEW op, op = bulk[w].ops[k] PROVE Found(op)'
      BY <1>2, <1>3, <3>1, ModifyFinds, OpsOfBulk
    <3>2. QED
      BY <1>1, <3>1 DEF Found, Matches
  <2>2. ~bulk'[w].inserting
    BY <1>3, ModifyStep
  <2>3. QED
    BY <1>1, <2>1, <2>2 DEF Repeats
<1>4. CASE BreakOff(w)
  <2>1. docs' = docs /\ ~bulk'[w].inserting
    BY <1>4, BreakMoves DEF BreakOff
  <2>2. QED
    BY <1>1, <1>2, <2>1 DEF Repeats, Found, Matches
<1>5. QED
  BY <1>1, <1>3, <1>4, RepeatsFinds

\* What stands is kept by every step.
LEMMA NextStanding ==
  TypeOK /\ Follows /\ Solitude /\ Standing /\ [Next]_vars => Standing'
<1> SUFFICES ASSUME TypeOK, Follows, Solitude, Standing, [Next]_vars PROVE Standing'
  OBVIOUS
<1>1. ASSUME NEW w \in Writers, NEW job \in Jobs, Begin(w, job) PROVE Standing'
  <2>1. \A v \in Writers : v # w => ~bulk'[v].alone
    BY <1>1, BeginOthers
  <2>2. Stand(w)'
    BY <1>1, BeginStep DEF Stand
  <2>3. Repeats(w)'
    <3> SUFFICES ASSUME bulk'[w].alone, bulk'[w].again PROVE Repeats(w)'
      BY DEF Repeats
    <3>1. /\ Idle(w) /\ docs' = docs /\ ~bulk'[w].inserting
          /\ bulk[w].alone /\ bulk[w].fate = "good" /\ bulk[w].job = job
          /\ bulk'[w].ops = Operations(job)
      BY <1>1, BeginStep
    <3>2. bulk'[w].ops = bulk[w].ops
      BY <3>1 DEF Follows
    <3>3. bulk[w].next - 1 = Len(bulk[w].ops) /\ DOMAIN bulk[w].ops = 1..Len(bulk[w].ops)
      BY <3>1, BulkType, OpsOfBulk DEF Follows, Idle
    <3>4. \A i \in DOMAIN bulk[w].ops : Found(bulk[w].ops[i])
      BY <3>1, <3>3 DEF Standing, Stand
    <3>5. QED
      BY <3>1, <3>2, <3>4 DEF Repeats, Found, Matches
  <2>4. QED
    BY <2>1, <2>2, <2>3 DEF Standing, Stand, Repeats
<1>2. ASSUME NEW w \in Writers, Moves(w), ~Idle(w), Stand(w)', Repeats(w)' PROVE Standing'
  <2>1. \A v \in Writers : v # w => ~bulk'[v].alone
    BY <1>2 DEF Solitude, Moves
  <2>2. QED
    BY <1>2, <2>1 DEF Standing, Stand, Repeats
<1>3. ASSUME NEW w \in Writers, Moves(w), ~Idle(w),
             \/ \E i \in DOMAIN docs : Modify(w, i)
             \/ FindNothing(w) \/ Insert(w) \/ InsertConflicts(w) \/ BreakOff(w)
      PROVE  Standing'
  <2>1. Stand(w)'
    <3>1. CASE (\E i \in DOMAIN docs : Modify(w, i)) \/ Insert(w)
      BY <1>3, <3>1, DoneStands
    <3>2. CASE FindNothing(w) \/ InsertConflicts(w)
      BY <1>3, <3>2, NothingStep, ConflictStep, PauseStands
    <3>3. CASE BreakOff(w)
      BY <1>3, <3>3, BreakMoves, PauseStands DEF BreakOff
    <3>4. QED
      BY <1>3, <3>1, <3>2, <3>3
  <2>2. Repeats(w)'
    BY <1>3, StepRepeats
  <2>3. QED
    BY <1>2, <1>3, <2>1, <2>2
<1>4. CASE UNCHANGED vars
  BY <1>4 DEF vars, Standing, Stand, Repeats, Found, Held, Matches, Replaced
<1>5. QED
  BY <1>1, <1>3, <1>4, NextSteps

LEMMA InitStanding == Init => Standing
<1> SUFFICES ASSUME Init PROVE Standing
  OBVIOUS
<1>1. Nothing \in AnyJob
  BY DEF AnyJob
<1>2. ASSUME NEW w \in Writers PROVE bulk[w].next = 1 /\ ~bulk[w].again
  BY <1>1, NewBulkType DEF Init
<1>3. \A i \in 1..1-1 : FALSE
  OBVIOUS
<1>4. QED
  BY <1>2, <1>3 DEF Standing, Stand, Repeats

Inv == TypeOK /\ Follows /\ Solitude /\ Standing

LEMMA Invariance == Spec => []Inv
<1>1. Init => Inv
  BY InitType, InitSolitude, InitStanding DEF Inv
<1>2. Inv /\ [Next]_vars => Inv'
  BY NextType, NextSolitude, NextStanding DEF Inv
<1>3. QED
  BY <1>1, <1>2, PTL DEF Spec

\* A bulk write that was alone, and of which nothing was refused, has written every record
\* but for those that it has itself written over.
THEOREM AloneStands == Spec => []BulkStands
<1>1. Inv => BulkStands
  <2> SUFFICES ASSUME Inv, NEW w \in Writers, Idle(w), bulk[w].alone, bulk[w].fate = "good",
                      NEW i \in DOMAIN bulk[w].job.records
               PROVE  \/ \E j \in i+1..Len(bulk[w].job.records) :
                           SameIdentity(bulk[w].job.key, bulk[w].job.records[i],
                                        bulk[w].job.records[j])
                      \/ \E d \in DOMAIN docs :
                           \A f \in DOMAIN bulk[w].job.records[i] :
                              docs[d][f] = bulk[w].job.records[i][f]
    BY DEF BulkStands
  <2>1. /\ DOMAIN bulk[w].job.records = 1..Len(bulk[w].ops)
        /\ Len(bulk[w].ops) = Len(bulk[w].job.records) /\ Len(bulk[w].ops) \in Nat
    BY OpsOfBulk, JobType DEF Inv
  <2>2. bulk[w].next = Len(bulk[w].ops) + 1
    <3>1. bulk[w].next > Len(bulk[w].ops) /\ bulk[w].next \in Nat
      BY BulkType DEF Inv, Idle
    <3>2. bulk[w].next <= Len(bulk[w].ops) + 1
      BY DEF Inv, Follows
    <3>3. Len(bulk[w].ops) \in Nat
      BY <2>1
    <3>4. QED
      BY <3>1, <3>2, <3>3
  <2>3. Held(bulk[w].ops[i]) \/ Replaced(w, i, bulk[w].next)
    BY <2>1, <2>2 DEF Inv, Standing, Stand
  <2>4. bulk[w].ops[i].set = bulk[w].job.records[i]
    BY <2>1, OpsOfBulk DEF Inv
  <2>5. Replaced(w, i, bulk[w].next) =>
          \E j \in i+1..Len(bulk[w].job.records) :
             SameIdentity(bulk[w].job.key, bulk[w].job.records[i], bulk[w].job.records[j])
    BY <2>1, <2>2 DEF Replaced
  <2>6. QED
    BY <2>3, <2>4, <2>5 DEF Held
<1>2. QED
  BY <1>1, Invariance, PTL

\* Who repeats a bulk write, alone both times, adds no document.
THEOREM RepeatsQuietly == Spec => RepeatIsQuiet
<1>1. Inv /\ [Next]_vars =>
        [ \A w \in Writers : ~Idle(w) /\ bulk[w].alone /\ bulk[w].again
                               => Len(docs') = Len(docs) ]_vars
  <2> SUFFICES ASSUME Inv, Next, NEW w \in Writers, ~Idle(w), bulk[w].alone, bulk[w].again
               PROVE  Len(docs') = Len(docs)
    OBVIOUS
  <2>1. ASSUME NEW v \in Writers, NEW job \in Jobs, Begin(v, job) PROVE Len(docs') = Len(docs)
    BY <2>1 DEF Begin
  <2>2. ASSUME NEW v \in Writers, ~Idle(v) PROVE v = w
    BY <2>2 DEF Inv, Solitude
  <2>3. CASE \E i \in DOMAIN docs : Modify(w, i)
    BY <2>3, ModifyStep DEF Inv
  <2>4. CASE BreakOff(w)
    BY <2>4 DEF BreakOff
  <2>5. QED
    BY <2>1, <2>2, <2>3, <2>4, RepeatsFinds, NextSteps DEF Inv
<1>2. QED
  BY <1>1, Invariance, PTL DEF Spec, RepeatIsQuiet

-----------------------------------------------------------------------------
(* Walks. *)

Sorts == SortFields \cup {Natural}

\* What is seen of a document.
Items == [place : Nat, shown : BOOLEAN]

Walks ==
  [stage : {"none", "count", "find", "done"}, size : Nat \ {0}, sort : Sorts,
   down : BOOLEAN, ref : Values \cup {AnyRef}, page : Nat \ {0}, total : Nat,
   seen : Seq(Items), due : SUBSET Nat, still : BOOLEAN]

-----------------------------------------------------------------------------
(* Pages. *)

\* A page that is not the last one ends before the total, and the last one does not.
LEMMA Pages ==
  ASSUME NEW total \in Nat, NEW size \in Nat \ {0}, NEW page \in Nat \ {0}
  PROVE  /\ page < PageCount(total, size) => page * size < total
         /\ ~(page < PageCount(total, size)) => total <= page * size
         /\ page * size = (page - 1) * size + size
         /\ (page - 1) * size \in Nat /\ page * size \in Nat
<1>1. page < (total + size - 1) \div size => page * size < total
  OBVIOUS
<1>2. ~(page < (total + size - 1) \div size) => total <= page * size
  OBVIOUS
<1>3. page * size = (page - 1) * size + size
  OBVIOUS
<1>4. (page - 1) * size \in Nat /\ page * size \in Nat
  OBVIOUS
<1>5. QED
  BY <1>1, <1>2, <1>3, <1>4 DEF PageCount

IsPart(cut, order, skipped, last) ==
  Len(cut) = last - skipped /\ \A i \in 1..Len(cut) : cut[i] = order[skipped + i]

\* A page of an order is the part of it that follows what was skipped.
LEMMA CutIsPart ==
  ASSUME NEW n \in Nat, NEW order \in [1..n -> 1..n],
         NEW size \in Nat \ {0}, NEW page \in Nat \ {0}, (page - 1) * size <= n,
         NEW skipped, skipped = (page - 1) * size,
         NEW last, last = IF page * size < n THEN page * size ELSE n
  PROVE  /\ Cut(order, page, size) \in Seq(1..n)
         /\ IsPart(Cut(order, page, size), order, skipped, last)
<1> DEFINE cut == SubSeq(order, skipped + 1, last)
<1>1. skipped \in Nat /\ skipped <= last /\ last <= n /\ last \in Nat
  BY Pages
<1>2. Len(order) = n /\ order \in Seq(1..n)
  BY FunctionIsSeq
<1>3. Cut(order, page, size) = cut
  BY <1>2 DEF Cut
<1>4. \A i \in skipped + 1 .. last : order[i] \in 1..n
  BY <1>1
<1>5. /\ cut \in Seq(1..n)
      /\ Len(cut) = IF skipped + 1 <= last THEN last - (skipped + 1) + 1 ELSE 0
      /\ \A i \in 1..last - (skipped + 1) + 1 : cut[i] = order[skipped + 1 + i - 1]
  <2>1. skipped + 1 \in Int /\ last \in Int
    BY <1>1
  <2>2. QED
    BY <1>4, <2>1, SubSeqProperties
<1>6. Len(cut) = last - skipped /\ \A i \in 1..last - skipped : cut[i] = order[skipped + i]
  BY <1>1, <1>5
<1>7. QED
  BY <1>3, <1>5, <1>6 DEF IsPart

-----------------------------------------------------------------------------
(* Orders. *)

\* The key of a document is a value, or null.
KeyHasValue == \A i \in DOMAIN docs : docs[i][KeyField] \in Values \cup {None}

Inj(order, n) == \A i \in 1..n, j \in 1..n : order[i] = order[j] => i = j

\* A permutation of the first n numbers reaches each of them.
LEMMA Reaches ==
  ASSUME NEW n \in Nat, NEW order \in [1..n -> 1..n], Inj(order, n), NEW p \in 1..n
  PROVE  \E i \in 1..n : order[i] = p
<1>1. order \in Injection(1..n, 1..n)
  BY DEF Inj, Injection, IsInjective
<1>2. IsFiniteSet(1..n)
  BY FS_Interval
<1>3. order \in Surjection(1..n, 1..n)
  BY <1>1, <1>2, FS_Injection
<1>4. QED
  BY <1>3 DEF Surjection

\* Keys are compared as numbers, and Rises says that they do not descend along an order,
\* or not ascend.
Rises(order, n, key, down) ==
  \A i \in 1..n, j \in 1..n :
     i < j => IF down THEN key[order[i]] >= key[order[j]] ELSE key[order[i]] <= key[order[j]]

\* Two orders agree up to a place; an order puts a number after it.
Agree(one, other, m) == \A i \in 1..m-1 : one[i] = other[i]
After(order, n, m, p) == \E i \in 1..n : m < i /\ order[i] = p

\* At the first place where two orders differ, the one puts later what the other has there.
LEMMA LaterThere ==
  ASSUME NEW n \in Nat, NEW one \in [1..n -> 1..n], NEW other \in [1..n -> 1..n],
         Inj(one, n), Inj(other, n), NEW m \in 1..n, one[m] # other[m], Agree(one, other, m)
  PROVE  After(other, n, m, one[m])
<1>1. PICK i \in 1..n : other[i] = one[m]
  BY Reaches
<1>2. i # m
  BY <1>1
<1>3. ~(i < m)
  <2>1. SUFFICES ASSUME i < m PROVE FALSE
    OBVIOUS
  <2>2. one[i] = other[i]
    BY <2>1 DEF Agree
  <2>3. QED
    BY <1>1, <1>2, <2>2 DEF Inj
<1>4. QED
  BY <1>1, <1>2, <1>3 DEF After

\* Two functions that differ do so at a first place.
LEMMA FirstDifference ==
  ASSUME NEW n \in Nat, NEW one \in [1..n -> 1..n], NEW other \in [1..n -> 1..n],
         one # other
  PROVE  \E m \in 1..n : one[m] # other[m] /\ Agree(one, other, m)
<1> DEFINE D == {i \in 1..n : one[i] # other[i]}
           R == {p \in Nat \X Nat : p[1] < p[2]}
<1>1. D # {}
  <2>1. \E i \in 1..n : one[i] # other[i]
    OBVIOUS
  <2>2. QED
    BY <2>1
<1>2. IsWellFoundedOn(R, Nat) /\ D \subseteq Nat
  BY NatLessThanWellFounded DEF OpToRel
<1>3. \E m \in D : \A j \in D : <<j, m>> \notin R
  <2> HIDE DEF R, D
  <2>1. QED
    BY <1>1, <1>2, WFMin
<1>4. PICK m \in D : \A j \in D : <<j, m>> \notin R
  BY <1>3
<1>5. m \in 1..n /\ one[m] # other[m]
  BY <1>4
<1>6. ASSUME NEW i \in 1..m-1 PROVE one[i] = other[i]
  <2>1. i \in 1..n /\ i \in Nat /\ m \in Nat /\ i < m
    BY <1>5
  <2>2. <<i, m>> \in R
    BY <2>1
  <2>3. i \notin D
    BY <1>4, <2>2
  <2>4. QED
    BY <2>1, <2>3
<1>7. QED
  BY <1>5, <1>6 DEF Agree

LEMMA Squeezed == ASSUME NEW a \in Nat, NEW b \in Nat, a <= b, b <= a PROVE a = b
OBVIOUS

\* Distinct keys can be sorted in one way only.
LEMMA OneOrder ==
  ASSUME NEW n \in Nat, NEW one \in [1..n -> 1..n], NEW other \in [1..n -> 1..n],
         Inj(one, n), Inj(other, n), NEW key \in [1..n -> Nat], Inj(key, n), NEW down,
         Rises(one, n, key, down), Rises(other, n, key, down)
  PROVE  one = other
<1>1. SUFFICES ASSUME one # other PROVE FALSE
  OBVIOUS
<1>2. PICK m \in 1..n : one[m] # other[m] /\ Agree(one, other, m)
  BY <1>1, FirstDifference
<1>3. Agree(other, one, m)
  BY <1>2 DEF Agree
<1>4. After(other, n, m, one[m]) /\ After(one, n, m, other[m])
  BY <1>2, <1>3, LaterThere
<1>5. PICK i \in 1..n : m < i /\ other[i] = one[m]
  BY <1>4 DEF After
<1>6. PICK j \in 1..n : m < j /\ one[j] = other[m]
  BY <1>4 DEF After
<1>7. one[m] \in 1..n /\ other[m] \in 1..n
  OBVIOUS
<1>8. key[one[m]] \in Nat /\ key[other[m]] \in Nat
  BY <1>7
<1>9. key[other[m]] = key[one[m]]
  <2>1. CASE down
    <3>1. key[other[m]] >= key[one[m]] /\ key[one[m]] >= key[other[m]]
      BY <1>5, <1>6, <2>1 DEF Rises
    <3>2. key[one[m]] <= key[other[m]] /\ key[other[m]] <= key[one[m]]
      BY <1>8, <3>1
    <3>3. QED
      BY <1>8, <3>2, Squeezed
  <2>2. CASE ~down
    <3>1. key[other[m]] <= key[one[m]] /\ key[one[m]] <= key[other[m]]
      BY <1>5, <1>6, <2>2 DEF Rises
    <3>2. QED
      BY <1>8, <3>1, Squeezed
  <2>3. QED
    BY <2>1, <2>2
<1>10. QED
  BY <1>2, <1>7, <1>9 DEF Inj

\* An order is a permutation of the places of the documents.
LEMMA OrderType ==
  ASSUME TypeOK, NEW order \in Orders
  PROVE  /\ order \in [1..Len(docs) -> 1..Len(docs)]
         /\ Inj(order, Len(docs))
<1>1. DOMAIN docs = 1..Len(docs)
  BY DocsType
<1>2. CASE walk.sort = Natural
  BY <1>1, <1>2 DEF Orders, Inj
<1>3. CASE walk.sort # Natural
  BY <1>1, <1>3 DEF Orders, Inj
<1>4. QED
  BY <1>2, <1>3

\* Without a sort, and under a sort by the key, there is one order.
LEMMA OrderIsOne ==
  ASSUME TypeOK, KeyHasValue, walk \in Walks, collection = "planned",
         walk.sort \in {Natural, KeyField},
         NEW one \in Orders, NEW other \in Orders
  PROVE  one = other
<1> DEFINE n == Len(docs)
           key == [i \in 1..n |-> docs[i][KeyField]]
<1>1. DOMAIN docs = 1..n /\ n \in Nat /\ Unique
  BY DocsType
<1>2. CASE walk.sort = Natural
  BY <1>2 DEF Orders
<1>3. CASE walk.sort = KeyField /\ walk.sort # Natural
  <2>1. key \in [1..n -> Nat]
    BY <1>1, BrowseAssumption DEF KeyHasValue
  <2>2. Inj(key, n)
    BY <1>1 DEF Inj, Unique
  <2>3. /\ one \in [1..n -> 1..n] /\ Inj(one, n)
        /\ other \in [1..n -> 1..n] /\ Inj(other, n)
    BY OrderType
  <2>4. walk.down \in BOOLEAN
    BY DEF Walks
  <2>5. ASSUME NEW order \in Orders PROVE Rises(order, n, key, walk.down)
    <3>1. order \in [1..n -> 1..n]
      BY OrderType
    <3>2. \A i \in 1..n, j \in 1..n :
             i < j => IF walk.down
                      THEN docs[order[i]][KeyField] >= docs[order[j]][KeyField]
                      ELSE docs[order[i]][KeyField] <= docs[order[j]][KeyField]
      BY <1>1, <1>3 DEF Orders
    <3>3. QED
      BY <3>1, <3>2 DEF Rises
  <2> HIDE DEF key, n
  <2>6. Rises(one, n, key, walk.down) /\ Rises(other, n, key, walk.down)
    BY <2>5
  <2>7. QED
    BY <1>1, <2>1, <2>2, <2>3, <2>6, OneOrder
<1>4. QED
  BY <1>2, <1>3

-----------------------------------------------------------------------------
(* Documents while they are read. *)

\* What an upsert sets under the key is a value, and what it inserts there is one or null.
LEMMA KeyOfOperation ==
  ASSUME TypeOK, Follows, NEW w \in Writers, ~Idle(w), NEW doc \in Docs,
         doc[KeyField] \in Values \cup {None}
  PROVE  /\ Changed(doc, Current(w))[KeyField] \in Values \cup {None}
         /\ NewDoc(Current(w))[KeyField] \in Values \cup {None}
<1> DEFINE job == bulk[w].job
           record == job.records[bulk[w].next]
<1>1. job \in AnyJob /\ bulk[w].ops = Operations(job)
  BY BulkType DEF Follows
<1>2. bulk[w].next \in 1..Len(job.records) /\ Current(w) = bulk[w].ops[bulk[w].next]
  BY CurrentType
<1>3. record \in Records /\ Current(w) = Operation(job.key, record)
  BY <1>1, <1>2, OperationsType
<1>4. job.key \in (Fields \ {Synthetic}) \cup {NoKey}
  BY <1>1, JobType
<1>5. \A f \in DOMAIN record : record[f] \in Values
  BY <1>3, RecordType
<1> HIDE DEF job, record
<1>6. Current(w).set = record
  BY <1>3, <1>4, OperationType
<1>7. Current(w).on = KeyField /\ KeyField \notin DOMAIN record => Current(w).value = None
  BY <1>3, <1>4, OperationType, UpsertAssumption
<1>8. KeyField \in Fields
  BY UpsertAssumption
<1>9. Changed(doc, Current(w))[KeyField] \in Values \cup {None}
  BY <1>5, <1>6, <1>8 DEF Changed
<1>10. NewDoc(Current(w))[KeyField] \in Values \cup {None}
  BY <1>5, <1>6, <1>7, <1>8 DEF NewDoc
<1>11. QED
  BY <1>9, <1>10

\* The documents only become more, and each stays at its place.
Grows == /\ Len(docs') \in Nat /\ Len(docs) <= Len(docs')
         /\ DOMAIN docs' = 1..Len(docs') /\ DOMAIN docs = 1..Len(docs)
         /\ collection' = collection

LEMMA UpsertGrows ==
  ASSUME TypeOK, Follows, KeyHasValue, [Next]_vars
  PROVE  Grows /\ KeyHasValue'
<1>1. Len(docs) \in Nat /\ DOMAIN docs = 1..Len(docs) /\ \A i \in DOMAIN docs : docs[i] \in Docs
  BY DocsType
<1>2. ASSUME docs' = docs, collection' = collection PROVE Grows /\ KeyHasValue'
  BY <1>1, <1>2 DEF Grows, KeyHasValue
<1>3. ASSUME NEW w \in Writers, NEW i \in DOMAIN docs, Modify(w, i)
      PROVE  Grows /\ KeyHasValue'
  <2>1. /\ ~Idle(w) /\ Moves(w) /\ Len(docs') = Len(docs) /\ DOMAIN docs' = DOMAIN docs
        /\ docs'[i] \in {docs[i], Changed(docs[i], Current(w))}
        /\ \A j \in DOMAIN docs \ {i} : docs'[j] = docs[j]
    BY <1>3, ModifyStep
  <2>2. Changed(docs[i], Current(w))[KeyField] \in Values \cup {None}
    BY <1>1, <1>3, <2>1, KeyOfOperation DEF KeyHasValue
  <2>3. KeyHasValue'
    BY <1>3, <2>1, <2>2 DEF KeyHasValue
  <2>4. Grows
    BY <1>1, <2>1 DEF Grows, Moves
  <2>5. QED
    BY <2>3, <2>4
<1>4. ASSUME NEW w \in Writers, Insert(w) PROVE Grows /\ KeyHasValue'
  <2>1. /\ ~Idle(w) /\ Moves(w) /\ Len(docs') = Len(docs) + 1
        /\ DOMAIN docs' = 1..Len(docs) + 1
        /\ docs'[Len(docs) + 1] = NewDoc(Current(w))
        /\ \A j \in DOMAIN docs : docs'[j] = docs[j]
    BY <1>4, InsertStep
  <2>2. NewDoc(Current(w))[KeyField] \in Values \cup {None}
    <3>1. [f \in Fields |-> None] \in Docs /\ [f \in Fields |-> None][KeyField] = None
      BY UpsertAssumption DEF Docs, DocValues
    <3>2. QED
      BY <2>1, <3>1, KeyOfOperation
  <2>3. KeyHasValue'
    BY <1>1, <2>1, <2>2 DEF KeyHasValue
  <2>4. Grows
    BY <1>1, <2>1 DEF Grows, Moves
  <2>5. QED
    BY <2>3, <2>4
<1>5. CASE Next
  <2>1. PICK w \in Writers :
           \/ \E job \in Jobs : Begin(w, job)
           \/ /\ Moves(w) /\ ~Idle(w)
              /\ \/ \E i \in DOMAIN docs : Modify(w, i)
                 \/ FindNothing(w) \/ Insert(w) \/ InsertConflicts(w) \/ BreakOff(w)
    BY <1>5, NextSteps
  <2>2. QED
    BY <1>2, <1>3, <1>4, <2>1 DEF Begin, FindNothing, InsertConflicts, BreakOff
<1>6. CASE UNCHANGED vars
  BY <1>2, <1>6 DEF vars
<1>7. QED
  BY <1>5, <1>6

-----------------------------------------------------------------------------
(* The walk. *)

\* The walk is without a sort, or by the key while nothing is written: there is one order.
InOrder == walk.sort = Natural \/ (walk.sort = KeyField /\ walk.still)

\* How far the walk is: every page but the last is full, and lies before the total of its
\* count; the documents are no fewer than the total, and as many while nothing is written.
Progress ==
  /\ walk.stage = "none" => walk.seen = <<>> /\ walk.due = {} /\ walk.sort = Natural
  /\ walk.stage # "none" => collection = "planned"
  /\ walk.stage \in {"count", "find"} => Len(walk.seen) = (walk.page - 1) * walk.size
  /\ walk.stage = "done" => Len(walk.seen) >= walk.total
  /\ Len(walk.seen) <= Len(docs)
  /\ walk.stage \in {"find", "done"} =>
       /\ walk.total <= Len(docs)
       /\ walk.still => walk.total = Len(docs)
       /\ \A i \in walk.due : i <= walk.total

\* What it has seen is the beginning of the order.
InTheirPlaces ==
  /\ InOrder => \A order \in Orders, n \in DOMAIN walk.seen : walk.seen[n].place = order[n]
  /\ walk.stage = "done" => Orders # {}

\* What it is due is there, is wanted, and was shown where it was seen.
DueIsShown ==
  /\ \A i \in walk.due : i \in DOMAIN docs /\ Wanted(docs[i])
  /\ \A n \in DOMAIN walk.seen : walk.seen[n].place \in walk.due => walk.seen[n].shown

BrowseInv ==
  /\ TypeOK /\ Follows /\ KeyHasValue
  /\ walk \in Walks /\ Progress /\ InTheirPlaces /\ DueIsShown

\* The fields of the walk.
LEMMA WalkType ==
  ASSUME walk \in Walks
  PROVE  /\ walk.stage \in {"none", "count", "find", "done"}
         /\ walk.size \in Nat \ {0} /\ walk.page \in Nat \ {0} /\ walk.total \in Nat
         /\ walk.sort \in Sorts /\ walk.down \in BOOLEAN /\ walk.still \in BOOLEAN
         /\ walk.ref \in Values \cup {AnyRef}
         /\ walk.seen \in Seq(Items) /\ Len(walk.seen) \in Nat
         /\ DOMAIN walk.seen = 1..Len(walk.seen)
         /\ walk.due \in SUBSET Nat
<1>1. walk.seen \in Seq(Items)
  BY DEF Walks
<1>2. Len(walk.seen) \in Nat /\ DOMAIN walk.seen = 1..Len(walk.seen)
  BY <1>1
<1>3. QED
  BY <1>1, <1>2 DEF Walks

LEMMA NoWalkType == NoWalk \in Walks /\ NoWalk.seen = <<>> /\ NoWalk.due = {}
<1>1. <<>> \in Seq(Items)
  OBVIOUS
<1>2. QED
  BY <1>1 DEF NoWalk, Walks, Sorts

\* A step without a write.
LEMMA SameDocs ==
  ASSUME BrowseInv, UNCHANGED vars
  PROVE  /\ TypeOK' /\ Follows' /\ KeyHasValue'
         /\ docs' = docs /\ collection' = collection
<1>1. docs' = docs /\ collection' = collection
  BY DEF vars
<1>2. [Next]_vars
  OBVIOUS
<1>3. QED
  BY <1>1, <1>2, NextType, UpsertGrows DEF BrowseInv

\* The walk begins.
LEMMA BeginsWalk ==
  ASSUME BrowseInv, NEW size \in Sizes, NEW sort \in Sorts, NEW down \in BOOLEAN,
         NEW ref \in Values \cup {AnyRef}, BeginWalk(size, sort, down, ref)
  PROVE  BrowseInv'
<1> DEFINE due == {i \in DOMAIN docs : ref = AnyRef \/ docs[i][KeyField] = ref}
<1>1. /\ walk' = [NoWalk EXCEPT !.stage = "count", !.size = size, !.sort = sort, !.down = down,
                                !.ref = ref, !.due = due]
      /\ collection = "planned" /\ UNCHANGED vars
  BY DEF BeginWalk
<1>2. TypeOK' /\ Follows' /\ KeyHasValue' /\ docs' = docs /\ collection' = collection
  BY <1>1, SameDocs
<1>3. Len(docs) \in Nat /\ DOMAIN docs = 1..Len(docs)
  BY DocsType DEF BrowseInv
<1>4. due \in SUBSET Nat /\ due \subseteq DOMAIN docs
  BY <1>3
<1>5. size \in Nat \ {0}
  BY BrowseAssumption
<1>6. \A i \in due : ref = AnyRef \/ docs[i][KeyField] = ref
  OBVIOUS
<1> HIDE DEF due
<1>7. /\ walk'.stage = "count" /\ walk'.size = size /\ walk'.ref = ref /\ walk'.due = due
      /\ walk'.page = 1 /\ walk'.seen = <<>>
  BY <1>1 DEF NoWalk
<1>8. walk' \in Walks
  BY <1>1, <1>4, <1>5, NoWalkType DEF Walks
<1>9. Len(walk'.seen) = 0 /\ DOMAIN walk'.seen = {}
  BY <1>7
<1>10. Progress'
  BY <1>1, <1>2, <1>3, <1>5, <1>7, <1>9 DEF Progress
<1>11. InTheirPlaces'
  BY <1>7, <1>9 DEF InTheirPlaces
<1>12. DueIsShown'
  BY <1>2, <1>4, <1>6, <1>7, <1>9 DEF DueIsShown, Wanted
<1>13. QED
  BY <1>2, <1>8, <1>10, <1>11, <1>12 DEF BrowseInv

\* The documents are counted.
LEMMA Counts ==
  ASSUME BrowseInv, Count
  PROVE  BrowseInv'
<1>1. /\ walk.stage = "count" /\ walk' = [walk EXCEPT !.stage = "find", !.total = Len(docs)]
      /\ UNCHANGED vars
  BY DEF Count
<1>2. TypeOK' /\ Follows' /\ KeyHasValue' /\ docs' = docs /\ collection' = collection
  BY <1>1, SameDocs
<1>3. Len(docs) \in Nat /\ DOMAIN docs = 1..Len(docs) /\ walk \in Walks
  BY DocsType DEF BrowseInv
<1>4. walk' \in Walks
  BY <1>1, <1>3 DEF Walks
<1>5. /\ walk'.stage = "find" /\ walk'.total = Len(docs) /\ walk'.size = walk.size
      /\ walk'.sort = walk.sort /\ walk'.down = walk.down /\ walk'.ref = walk.ref
      /\ walk'.page = walk.page /\ walk'.seen = walk.seen /\ walk'.due = walk.due
      /\ walk'.still = walk.still
  BY <1>1, <1>3 DEF Walks
<1>6. Progress'
  BY <1>1, <1>2, <1>3, <1>5 DEF Progress, BrowseInv, DueIsShown
<1>7. Orders' = Orders
  BY <1>2, <1>5 DEF Orders
<1>8. InTheirPlaces'
  BY <1>5, <1>7 DEF InTheirPlaces, InOrder, BrowseInv
<1>9. DueIsShown'
  BY <1>2, <1>5 DEF DueIsShown, Wanted, BrowseInv
<1>10. QED
  BY <1>2, <1>4, <1>6, <1>8, <1>9 DEF BrowseInv

\* Documents are upserted while the walk is under way.
LEMMA Writes ==
  ASSUME BrowseInv, Write
  PROVE  BrowseInv'
<1>1. /\ walk.stage # "done" /\ Next
      /\ walk' = [walk EXCEPT !.still = @ /\ docs' = docs,
                              !.due = {i \in @ : Wanted(docs'[i])}]
  BY DEF Write
<1>2. TypeOK' /\ Follows' /\ KeyHasValue' /\ Grows
  BY <1>1, NextType, UpsertGrows DEF BrowseInv
<1>3. Len(docs) \in Nat /\ DOMAIN docs = 1..Len(docs) /\ walk \in Walks
  BY DocsType DEF BrowseInv
<1>4. /\ walk'.stage = walk.stage /\ walk'.total = walk.total /\ walk'.size = walk.size
      /\ walk'.sort = walk.sort /\ walk'.down = walk.down /\ walk'.ref = walk.ref
      /\ walk'.page = walk.page /\ walk'.seen = walk.seen
      /\ walk'.due = {i \in walk.due : Wanted(docs'[i])}
  BY <1>1, <1>3 DEF Walks
<1>5. walk'.still <=> (walk.still /\ docs' = docs)
  BY <1>1, <1>3 DEF Walks
<1>6. walk' \in Walks
  <2>1. (walk.still /\ docs' = docs) \in BOOLEAN /\ {i \in walk.due : Wanted(docs'[i])} \in SUBSET Nat
    BY <1>3, WalkType
  <2>2. QED
    BY <1>1, <1>3, <2>1 DEF Walks
<1>7. Progress'
  <2>1. Len(walk.seen) \in Nat /\ walk.total \in Nat /\ Len(docs) <= Len(docs') /\ Len(docs') \in Nat
    BY <1>2, <1>3, WalkType DEF Grows
  <2>2. collection' = collection
    BY <1>2 DEF Grows
  <2>3. Progress
    BY DEF BrowseInv
  <2>4. Len(walk'.seen) <= Len(docs')
    BY <1>3, <1>4, <2>1, <2>3 DEF Progress
  <2>5. walk'.stage = "none" => walk'.seen = <<>> /\ walk'.due = {} /\ walk'.sort = Natural
    BY <1>4, <2>3 DEF Progress
  <2>6. walk'.stage \in {"find", "done"} =>
          /\ walk'.total <= Len(docs')
          /\ walk'.still => walk'.total = Len(docs')
          /\ \A i \in walk'.due : i <= walk'.total
    BY <1>3, <1>4, <1>5, <2>1, <2>3 DEF Progress
  <2>7. QED
    BY <1>1, <1>4, <2>2, <2>3, <2>4, <2>5, <2>6 DEF Progress
<1>8. InTheirPlaces'
  <2>1. CASE docs' = docs
    <3>1. Orders' = Orders
      BY <1>4, <2>1 DEF Orders
    <3>2. QED
      BY <1>1, <1>4, <1>5, <3>1 DEF InTheirPlaces, InOrder, BrowseInv
  <2>2. CASE docs' # docs
    <3>1. SUFFICES ASSUME walk.sort = Natural,
                          NEW order \in Orders', NEW n \in DOMAIN walk'.seen
                   PROVE  walk'.seen[n].place = order[n]
      BY <1>1, <1>4, <1>5, <2>2 DEF InTheirPlaces, InOrder
    <3>2. order = [i \in DOMAIN docs' |-> i]
      BY <1>4, <3>1 DEF Orders
    <3>3. [i \in DOMAIN docs |-> i] \in Orders
      BY <3>1 DEF Orders
    <3>4. n \in DOMAIN docs /\ n \in DOMAIN docs'
      BY <1>2, <1>3, <1>4, <3>1, WalkType DEF Grows, Progress, BrowseInv
    <3>5. walk.seen[n].place = n
      BY <1>4, <3>1, <3>3, <3>4 DEF InTheirPlaces, InOrder, BrowseInv
    <3>6. QED
      BY <1>4, <3>2, <3>4, <3>5
  <2>3. QED
    BY <2>1, <2>2
<1>9. DueIsShown'
  <2>1. \A i \in walk'.due : i \in walk.due /\ Wanted(docs'[i])
    BY <1>4
  <2>2. \A i \in walk'.due : i \in DOMAIN docs' /\ Wanted(docs[i])'
    BY <1>2, <1>3, <1>4, <2>1 DEF DueIsShown, Wanted, BrowseInv, Grows
  <2>3. \A n \in DOMAIN walk'.seen : walk'.seen[n].place \in walk'.due => walk'.seen[n].shown
    BY <1>4, <2>1 DEF DueIsShown, BrowseInv
  <2>4. QED
    BY <2>2, <2>3 DEF DueIsShown
<1>10. QED
  BY <1>2, <1>6, <1>7, <1>8, <1>9 DEF BrowseInv

Item(place, shown) == [place |-> place, shown |-> shown]

LEMMA ItemType ==
  ASSUME NEW place \in Nat, NEW shown \in BOOLEAN
  PROVE  /\ Item(place, shown) \in Items
         /\ Item(place, shown).place = place
         /\ Item(place, shown).shown <=> shown
BY DEF Item, Items

Shows(page, items) ==
  /\ Len(page) = Len(items)
  /\ \A i \in 1..Len(items) : page[i] = Item(items[i], Wanted(docs[items[i]]))

\* What a page shows: the places of an order, and whether each is wanted.
LEMMA ShownType ==
  ASSUME NEW n \in Nat, NEW items \in Seq(1..n)
  PROVE  Shown(items) \in Seq(Items) /\ Shows(Shown(items), items)
<1> DEFINE m == Len(items)
           F == [i \in 1..m |-> Item(items[i], Wanted(docs[items[i]]))]
<1>1. m \in Nat /\ DOMAIN items = 1..m /\ \A i \in 1..m : items[i] \in Nat
  OBVIOUS
<1>2. Shown(items) = F
  BY <1>1 DEF Shown, Item
<1>3. \A i \in 1..m : items[i] \in Nat /\ Wanted(docs[items[i]]) \in BOOLEAN
  BY <1>1 DEF Wanted
<1>4. \A i \in 1..m : /\ F[i] \in Items
                      /\ F[i] = Item(items[i], Wanted(docs[items[i]]))
  BY <1>3, ItemType
<1> HIDE DEF F
<1>5. F \in Seq(Items) /\ Len(F) = m
  <2>1. F \in [1..m -> Items]
    BY <1>4 DEF F
  <2>2. QED
    BY <1>1, <2>1, FunctionIsSeq
<1>6. QED
  BY <1>2, <1>4, <1>5 DEF Shows

\* One sequence behind another.
Joined(both, first, second) ==
  /\ Len(both) = Len(first) + Len(second) /\ DOMAIN both = 1..Len(both)
  /\ \A n \in 1..Len(first) : both[n] = first[n]
  /\ \A n \in 1..Len(both) : n > Len(first) => both[n] = second[n - Len(first)]

LEMMA JoinedIs ==
  ASSUME NEW S, NEW first \in Seq(S), NEW second \in Seq(S)
  PROVE  first \o second \in Seq(S) /\ Joined(first \o second, first, second)
<1>1. /\ first \o second \in Seq(S)
      /\ Len(first \o second) = Len(first) + Len(second)
      /\ \A n \in 1..Len(first) + Len(second) :
           (first \o second)[n] = IF n <= Len(first) THEN first[n] ELSE second[n - Len(first)]
  BY ConcatProperties
<1>2. Len(first) \in Nat /\ Len(second) \in Nat
  OBVIOUS
<1> DEFINE both == first \o second
<1> HIDE DEF both
<1>3. /\ both \in Seq(S) /\ Len(both) = Len(first) + Len(second)
      /\ \A n \in 1..Len(first) + Len(second) :
           both[n] = IF n <= Len(first) THEN first[n] ELSE second[n - Len(first)]
  BY <1>1 DEF both
<1>4. \A n \in 1..Len(first) : both[n] = first[n]
  BY <1>2, <1>3
<1>5. \A n \in 1..Len(both) : n > Len(first) => both[n] = second[n - Len(first)]
  BY <1>2, <1>3
<1>6. DOMAIN both = 1..Len(both)
  BY <1>3
<1>7. both \in Seq(S) /\ Joined(both, first, second)
  BY <1>3, <1>4, <1>5, <1>6 DEF Joined
<1>8. QED
  BY <1>7 DEF both

\* A page is read: what was seen before, and the part of the order that follows it.
LEMMA Finds ==
  ASSUME BrowseInv, NEW order \in Orders, walk.stage = "find",
         NEW page, page = Shown(Cut(order, walk.page, walk.size))
  PROVE  LET seen == walk.seen \o page
             more == walk.page < PageCount(walk.total, walk.size)
         IN /\ seen \in Seq(Items)
            /\ DOMAIN seen = 1..Len(seen) /\ Len(seen) <= Len(docs)
            /\ more => Len(seen) = walk.page * walk.size
            /\ ~more => Len(seen) >= walk.total
            /\ \A n \in 1..Len(walk.seen) : seen[n] = walk.seen[n]
            /\ \A n \in 1..Len(seen) : n > Len(walk.seen) =>
                 /\ seen[n].place = order[n]
                 /\ seen[n].shown <=> Wanted(docs[order[n]])
<1> DEFINE N == Len(docs)
           p == walk.page
           size == walk.size
           skipped == (p - 1) * size
           last == IF p * size < N THEN p * size ELSE N
           cut == Cut(order, p, size)
           seen == walk.seen \o page
           more == p < PageCount(walk.total, size)
<1>1. /\ N \in Nat /\ order \in [1..N -> 1..N]
      /\ p \in Nat \ {0} /\ size \in Nat \ {0} /\ walk.total \in Nat
      /\ walk.seen \in Seq(Items) /\ Len(walk.seen) \in Nat
  BY DocsType, OrderType, WalkType DEF BrowseInv
<1>2. Len(walk.seen) = skipped /\ Len(walk.seen) <= N /\ walk.total <= N
  BY DEF BrowseInv, Progress
<1>3. /\ more => p * size < walk.total
      /\ ~more => walk.total <= p * size
      /\ skipped \in Nat /\ p * size \in Nat
  BY <1>1, Pages
<1>4. /\ cut \in Seq(1..N) /\ Len(cut) = last - skipped
      /\ \A i \in 1..Len(cut) : cut[i] = order[skipped + i]
  <2> HIDE DEF skipped, last
  <2>1. skipped = (p - 1) * size /\ last = IF p * size < N THEN p * size ELSE N
    BY DEF skipped, last
  <2> HIDE DEF N, size, p
  <2>2. cut \in Seq(1..N) /\ IsPart(cut, order, skipped, last)
    BY <1>1, <1>2, <2>1, CutIsPart
  <2>3. QED
    BY <2>2 DEF IsPart
<1>5. last \in Nat /\ last <= N
  BY <1>1, <1>3
<1>6. more => last = p * size
  BY <1>1, <1>2, <1>3
<1>7. ~more => last >= walk.total
  BY <1>1, <1>2, <1>3
<1> HIDE DEF N, skipped, last, cut, more
<1>8. page \in Seq(Items) /\ Shows(page, cut)
  <2>1. page = Shown(cut)
    BY DEF cut
  <2>2. QED
    BY <1>1, <1>4, <2>1, ShownType
<1>9. Len(cut) \in Nat /\ Len(page) = Len(cut)
  BY <1>4, <1>8 DEF Shows
<1>10. seen \in Seq(Items) /\ Joined(seen, walk.seen, page)
  <2> HIDE DEF size, p
  <2>1. QED
    BY <1>1, <1>8, JoinedIs
<1>11. Len(seen) = last
  BY <1>1, <1>2, <1>3, <1>4, <1>5, <1>9, <1>10 DEF Joined
<1>12. ASSUME NEW n \in 1..Len(seen), n > Len(walk.seen)
       PROVE  /\ seen[n].place = order[n]
              /\ seen[n].shown <=> Wanted(docs[order[n]])
  <2> DEFINE i == n - Len(walk.seen)
  <2>1. n \in Nat /\ n <= Len(walk.seen) + Len(cut)
    BY <1>1, <1>9, <1>10, <1>12 DEF Joined
  <2>2. i \in 1..Len(cut) /\ skipped + i = n
    BY <1>1, <1>2, <1>3, <1>9, <1>12, <2>1
  <2>3. seen[n] = page[i]
    BY <1>10, <1>12 DEF Joined
  <2> HIDE DEF i, seen
  <2>4. cut[i] = order[n]
    BY <1>4, <2>2
  <2>5. page[i] = Item(order[n], Wanted(docs[order[n]]))
    BY <1>8, <2>2, <2>4 DEF Shows
  <2>6. order[n] \in Nat /\ Wanted(docs[order[n]]) \in BOOLEAN
    BY <1>1, <1>5, <1>11, <2>1 DEF Wanted, seen
  <2>7. /\ Item(order[n], Wanted(docs[order[n]])).place = order[n]
        /\ Item(order[n], Wanted(docs[order[n]])).shown <=> Wanted(docs[order[n]])
    BY <2>6, ItemType
  <2>8. QED
    BY <2>3, <2>5, <2>7
<1>13. QED
  BY <1>2, <1>5, <1>6, <1>7, <1>10, <1>11, <1>12 DEF more, N, Joined

LEMMA FindsPage ==
  ASSUME BrowseInv, Find
  PROVE  BrowseInv'
<1>1. walk.stage = "find" /\ UNCHANGED vars
  BY DEF Find
<1>2. PICK order \in Orders :
        walk' = [walk EXCEPT !.seen = @ \o Shown(Cut(order, walk.page, walk.size)),
                             !.page = @ + 1,
                             !.stage = IF walk.page < PageCount(walk.total, walk.size)
                                       THEN "count" ELSE "done"]
  BY DEF Find
<1> DEFINE page == Shown(Cut(order, walk.page, walk.size))
           seen == walk.seen \o page
           more == walk.page < PageCount(walk.total, walk.size)
           stage == IF more THEN "count" ELSE "done"
<1>3. walk' = [walk EXCEPT !.seen = seen, !.page = walk.page + 1, !.stage = stage]
  BY <1>2
<1> HIDE DEF page
<1>4. /\ seen \in Seq(Items)
      /\ DOMAIN seen = 1..Len(seen) /\ Len(seen) <= Len(docs)
      /\ more => Len(seen) = walk.page * walk.size
      /\ ~more => Len(seen) >= walk.total
      /\ \A n \in 1..Len(walk.seen) : seen[n] = walk.seen[n]
      /\ \A n \in 1..Len(seen) : n > Len(walk.seen) =>
           /\ seen[n].place = order[n]
           /\ seen[n].shown <=> Wanted(docs[order[n]])
  BY <1>1, <1>2, Finds DEF page
<1> HIDE DEF seen, more
<1>5. TypeOK' /\ Follows' /\ KeyHasValue' /\ docs' = docs /\ collection' = collection
  BY <1>1, SameDocs
<1>6. /\ Len(docs) \in Nat /\ DOMAIN docs = 1..Len(docs) /\ walk \in Walks
      /\ Len(seen) \in Nat /\ Len(walk.seen) \in Nat /\ DOMAIN walk.seen = 1..Len(walk.seen)
      /\ walk.page \in Nat \ {0} /\ walk.page + 1 - 1 = walk.page
  BY <1>4, DocsType, WalkType DEF BrowseInv
<1>7. stage \in {"count", "done"} /\ (stage = "count" => more) /\ (stage = "done" => ~more)
  OBVIOUS
<1> HIDE DEF stage
<1>8. walk' \in Walks
  <2>1. stage \in {"none", "count", "find", "done"} /\ walk.page + 1 \in Nat \ {0}
    BY <1>6, <1>7
  <2>2. QED
    BY <1>3, <1>4, <1>6, <2>1 DEF Walks
<1>9. /\ walk'.stage = stage /\ walk'.total = walk.total /\ walk'.size = walk.size
      /\ walk'.sort = walk.sort /\ walk'.down = walk.down /\ walk'.ref = walk.ref
      /\ walk'.page = walk.page + 1 /\ walk'.seen = seen /\ walk'.due = walk.due
      /\ walk'.still = walk.still
  BY <1>3, <1>6 DEF Walks
<1>10. Progress'
  <2>1. Progress
    BY DEF BrowseInv
  <2>2. walk'.stage = "count" => Len(walk'.seen) = (walk'.page - 1) * walk'.size
    BY <1>4, <1>6, <1>7, <1>9
  <2>3. walk'.stage = "done" => /\ Len(walk'.seen) >= walk'.total
                                /\ walk'.total <= Len(docs')
                                /\ walk'.still => walk'.total = Len(docs')
                                /\ \A i \in walk'.due : i <= walk'.total
    BY <1>1, <1>4, <1>5, <1>7, <1>9, <2>1 DEF Progress
  <2>4. QED
    BY <1>1, <1>4, <1>5, <1>7, <1>9, <2>1, <2>2, <2>3 DEF Progress
<1>11. Orders' = Orders
  BY <1>5, <1>9 DEF Orders
<1>12. InTheirPlaces'
  <2>1. ASSUME InOrder, NEW other \in Orders, NEW n \in 1..Len(seen)
        PROVE  seen[n].place = other[n]
    <3>1. other = order
      BY <1>1, <1>2, <2>1, OrderIsOne DEF InOrder, BrowseInv, Progress
    <3>2. CASE n \in 1..Len(walk.seen)
      <4>1. walk.seen[n].place = other[n]
        BY <1>6, <2>1, <3>2 DEF InTheirPlaces, BrowseInv
      <4>2. QED
        BY <1>4, <3>2, <4>1
    <3>3. CASE n \notin 1..Len(walk.seen)
      <4>1. n > Len(walk.seen)
        BY <1>6, <2>1, <3>3
      <4>2. QED
        BY <1>4, <2>1, <3>1, <4>1
    <3>4. QED
      BY <3>2, <3>3
  <2>2. InOrder' <=> InOrder
    BY <1>9 DEF InOrder
  <2>3. Orders # {}
    BY <1>2
  <2>4. DOMAIN walk'.seen = 1..Len(seen)
    BY <1>4, <1>9
  <2>5. InOrder' => \A other \in Orders', n \in DOMAIN walk'.seen :
                       walk'.seen[n].place = other[n]
    BY <1>9, <1>11, <2>1, <2>2, <2>4
  <2>6. QED
    BY <1>11, <2>3, <2>5 DEF InTheirPlaces
<1>13. DueIsShown'
  <2>1. \A i \in walk'.due : i \in DOMAIN docs' /\ Wanted(docs[i])'
    BY <1>5, <1>9 DEF DueIsShown, Wanted, BrowseInv
  <2>2. ASSUME NEW n \in 1..Len(seen), seen[n].place \in walk.due
        PROVE  seen[n].shown
    <3>1. CASE n \in 1..Len(walk.seen)
      BY <1>4, <1>6, <2>2, <3>1 DEF DueIsShown, BrowseInv
    <3>2. CASE n \notin 1..Len(walk.seen)
      <4>1. n > Len(walk.seen)
        BY <1>6, <2>2, <3>2
      <4>2. seen[n].place = order[n] /\ (seen[n].shown <=> Wanted(docs[order[n]]))
        BY <1>4, <2>2, <4>1
      <4>3. QED
        BY <2>2, <4>2 DEF DueIsShown, BrowseInv
    <3>3. QED
      BY <3>1, <3>2
  <2>3. QED
    BY <1>4, <1>9, <2>1, <2>2 DEF DueIsShown
<1>14. QED
  BY <1>5, <1>8, <1>10, <1>12, <1>13 DEF BrowseInv

\* The first state.
LEMMA BrowseBegins == BrowseInit => BrowseInv
<1> SUFFICES ASSUME BrowseInit PROVE BrowseInv
  OBVIOUS
<1>1. TypeOK /\ Follows
  BY InitType DEF BrowseInit
<1>2. docs = <<>> /\ walk = NoWalk
  BY DEF BrowseInit, Init
<1>3. DOMAIN docs = {} /\ Len(docs) = 0
  BY <1>2
<1>4. KeyHasValue
  BY <1>3 DEF KeyHasValue
<1>5. walk \in Walks /\ walk.seen = <<>> /\ walk.due = {} /\ walk.stage = "none"
      /\ walk.sort = Natural
  BY <1>2, NoWalkType DEF NoWalk
<1>6. DOMAIN walk.seen = {} /\ Len(walk.seen) = 0
  BY <1>5
<1>7. Progress
  BY <1>3, <1>5, <1>6 DEF Progress
<1>8. InTheirPlaces
  BY <1>5, <1>6 DEF InTheirPlaces
<1>9. DueIsShown
  BY <1>5, <1>6 DEF DueIsShown
<1>10. QED
  BY <1>1, <1>4, <1>5, <1>7, <1>8, <1>9 DEF BrowseInv

\* Every step.
LEMMA BrowseContinues == BrowseInv /\ [BrowseNext]_allvars => BrowseInv'
<1> SUFFICES ASSUME BrowseInv, [BrowseNext]_allvars PROVE BrowseInv'
  OBVIOUS
<1>1. ASSUME NEW size \in Sizes, NEW sort \in Sorts, NEW down \in BOOLEAN,
             NEW ref \in Values \cup {AnyRef}, BeginWalk(size, sort, down, ref)
      PROVE  BrowseInv'
  BY <1>1, BeginsWalk
<1>2. CASE UNCHANGED allvars
  <2>1. walk' = walk /\ UNCHANGED vars
    BY <1>2 DEF allvars
  <2>2. TypeOK' /\ Follows' /\ KeyHasValue' /\ docs' = docs /\ collection' = collection
    BY <2>1, SameDocs
  <2>3. Orders' = Orders /\ (InOrder' <=> InOrder)
    BY <2>1, <2>2 DEF Orders, InOrder
  <2>4. Progress' /\ InTheirPlaces'
    BY <2>1, <2>2, <2>3 DEF BrowseInv, Progress, InTheirPlaces
  <2>5. DueIsShown'
    BY <2>1, <2>2 DEF BrowseInv, DueIsShown, Wanted
  <2>6. QED
    BY <2>1, <2>2, <2>4, <2>5 DEF BrowseInv
<1>3. QED
  BY <1>1, <1>2, Counts, Writes, FindsPage DEF BrowseNext, Sorts

\* The pages are read next to the upserts, which know nothing of them: what is proved of
\* Upsert holds of Browse.
THEOREM UpsertsAreTheSame == BrowseSpec => Spec
<1>1. BrowseInit => Init
  BY DEF BrowseInit
<1>2. [BrowseNext]_allvars => [Next]_vars
  BY DEF BrowseNext, allvars, Write, Count, Find, BeginWalk
<1>3. QED
  BY <1>1, <1>2, PTL DEF BrowseSpec, Spec

\* A set of one place, or of none, has at most one element.
LEMMA AtMostOne ==
  ASSUME NEW i, NEW S \in SUBSET {i}
  PROVE  Cardinality(S) \in {0, 1} /\ (i \in S => Cardinality(S) = 1)
<1>1. CASE i \in S
  <2>1. S = {i}
    BY <1>1
  <2>2. QED
    BY <2>1, FS_Singleton
<1>2. CASE i \notin S
  <2>1. S = {}
    BY <1>2
  <2>2. QED
    BY <1>2, <2>1, FS_EmptySet
<1>3. QED
  BY <1>1, <1>2

Seen(i) == {n \in DOMAIN walk.seen : walk.seen[n].place = i /\ walk.seen[n].shown}

\* What the invariant says of a finished walk.
LEMMA SeenOnce ==
  ASSUME BrowseInv, walk.stage = "done", InOrder, NEW i \in walk.due
  PROVE  TimesSeen(i) = 1
<1> DEFINE N == Len(docs)
<1>1. /\ N \in Nat /\ DOMAIN docs = 1..N /\ Len(walk.seen) \in Nat /\ walk.total \in Nat
      /\ DOMAIN walk.seen = 1..Len(walk.seen) /\ walk.still \in BOOLEAN
  BY DocsType, WalkType DEF BrowseInv
<1>2. /\ Len(walk.seen) >= walk.total /\ Len(walk.seen) <= N /\ i <= walk.total
      /\ walk.still => walk.total = N
  BY DEF BrowseInv, Progress
<1>3. i \in 1..N
  BY <1>1 DEF BrowseInv, DueIsShown
<1>4. PICK order \in Orders : \A n \in DOMAIN walk.seen : walk.seen[n].place = order[n]
  BY DEF BrowseInv, InTheirPlaces
<1>5. order \in [1..N -> 1..N] /\ Inj(order, N)
  BY OrderType DEF BrowseInv
<1> HIDE DEF N
<1>6. PICK n \in 1..N : order[n] = i
  BY <1>1, <1>3, <1>5, Reaches
<1>7. n \in DOMAIN walk.seen
  <2>1. CASE walk.sort = Natural
    <3>1. n = i
      BY <1>1, <1>6, <2>1 DEF Orders, N
    <3>2. QED
      BY <1>1, <1>2, <3>1
  <2>2. CASE walk.still
    BY <1>1, <1>2, <2>2
  <2>3. QED
    BY <2>1, <2>2 DEF InOrder
<1>8. walk.seen[n].place = i
  BY <1>4, <1>6, <1>7
<1>9. walk.seen[n].shown
  BY <1>7, <1>8 DEF BrowseInv, DueIsShown
<1>10. n \in Seen(i)
  BY <1>7, <1>8, <1>9 DEF Seen
<1>11. Seen(i) \subseteq {n}
  <2>1. SUFFICES ASSUME NEW m \in DOMAIN walk.seen, walk.seen[m].place = i PROVE m = n
    BY DEF Seen
  <2>2. order[m] = order[n] /\ m \in 1..N
    BY <1>1, <1>2, <1>4, <1>6, <2>1
  <2>3. QED
    BY <1>5, <2>2 DEF Inj
<1>12. Cardinality(Seen(i)) = 1
  BY <1>10, <1>11, AtMostOne
<1>13. QED
  BY <1>12 DEF Seen, TimesSeen

LEMMA NeverTwice ==
  ASSUME BrowseInv, walk.sort = Natural, NEW i
  PROVE  TimesSeen(i) <= 1
<1>1. Len(docs) \in Nat /\ DOMAIN docs = 1..Len(docs) /\ Len(walk.seen) \in Nat
      /\ DOMAIN walk.seen = 1..Len(walk.seen) /\ Len(walk.seen) <= Len(docs)
  BY DocsType, WalkType DEF BrowseInv, Progress
<1>2. [p \in DOMAIN docs |-> p] \in Orders
  BY DEF Orders
<1>3. \A n \in DOMAIN walk.seen : walk.seen[n].place = n
  <2>1. \A n \in DOMAIN walk.seen : walk.seen[n].place = [p \in DOMAIN docs |-> p][n]
    BY <1>2 DEF BrowseInv, InTheirPlaces, InOrder
  <2>2. \A n \in DOMAIN walk.seen : n \in DOMAIN docs
    BY <1>1
  <2>3. QED
    BY <2>1, <2>2
<1>4. Seen(i) \in SUBSET {i}
  BY <1>3 DEF Seen
<1>5. Cardinality(Seen(i)) \in {0, 1}
  BY <1>4, AtMostOne
<1>6. QED
  BY <1>5 DEF Seen, TimesSeen

\* A walk of the pages, of any size, over a collection of any size that others write to,
\* shows what it is due once, and what it is told the total of.
THEOREM WalksSeeEachOnce == BrowseSpec => []WalkSeesEachOnce
<1>1. BrowseInv => WalkSeesEachOnce
  <2> SUFFICES ASSUME BrowseInv PROVE WalkSeesEachOnce
    OBVIOUS
  <2>1. walk.sort = Natural => \A i \in DOMAIN docs : TimesSeen(i) <= 1
    BY NeverTwice
  <2>2. (walk.stage = "done" /\ (walk.sort = Natural \/ (walk.sort = KeyField /\ walk.still))) =>
          \A i \in walk.due : TimesSeen(i) = 1
    BY SeenOnce DEF InOrder
  <2>3. walk.stage = "done" => Len(walk.seen) >= walk.total
    BY DEF BrowseInv, Progress
  <2>4. QED
    BY <2>1, <2>2, <2>3 DEF WalkSeesEachOnce
<1>2. QED
  BY <1>1, BrowseBegins, BrowseContinues, PTL DEF BrowseSpec
=============================================================================
