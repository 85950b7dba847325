------------------------------- MODULE Upsert -------------------------------
(***************************************************************************)
(* Bulk upserts into one collection as the server carries them out: one    *)
(* operation after another, each a find, and when it finds nothing an      *)
(* insert, with the operations of other writers in between.  The writers   *)
(* are repositories, whose key is uniquely indexed, and commit runs of     *)
(* pipelines, whose upsert_key is any field, or none, and whose target is  *)
(* a planned collection, or one of their own, which has no index.          *)
(*                                                                         *)
(* A field stands for a key of several fields too.  A document is never    *)
(* deleted by the program.  A field without an index is looked up in the   *)
(* order of insertion.                                                     *)
(***************************************************************************)
EXTENDS Naturals, Sequences

CONSTANTS
  Writers, Fields, Values,
  None,       \* null, or no such field: the same to a filter and to an index
  NoKey,      \* upsert_key of a pipeline that has none
  Jobs,       \* what writers may write: a key, and records
  KeyField,   \* the field that identifies the documents of the collection
  Synthetic,  \* _pipeline_synthetic_key
  Printed,    \* str(sorted(record.items())), which is another for another record
  MaxBulks    \* bound: bulk writes

Records == UNION {[F -> Values] : F \in SUBSET (Fields \ {Synthetic})}

ASSUME UpsertAssumption ==
  /\ KeyField \in Fields /\ Synthetic \in Fields /\ KeyField # Synthetic
  /\ NoKey \notin Fields /\ None \notin Values
  /\ None \notin {Printed[r] : r \in Records}
  /\ \A r, s \in Records : Printed[r] = Printed[s] => r = s
  /\ \A job \in Jobs : /\ job.key \in (Fields \ {Synthetic}) \cup {NoKey}
                       /\ job.records \in Seq(Records)
  /\ MaxBulks \in Nat

VARIABLES
  collection,  \* "planned", or one that a pipeline has named: "own"
  docs,    \* its documents, in the order in which they were inserted
  bulk,    \* of each writer, its last bulk write (see NewBulk)
  begun    \* the number of bulk writes

vars == <<collection, docs, bulk, begun>>

-----------------------------------------------------------------------------
(* Operations. *)

\* Mutant: all records of a pipeline without key share one.
UpsertFilterShared(key, record) ==
  [on |-> IF key = NoKey THEN Synthetic ELSE key,
   value |-> IF key \in DOMAIN record THEN record[key] ELSE None]

\* _upsert_filter, and the _key of a repository.
UpsertFilter(key, record) ==
  IF key = NoKey THEN [on |-> Synthetic, value |-> Printed[record]]
  ELSE [on |-> key, value |-> IF key \in DOMAIN record THEN record[key] ELSE None]

Operation(key, record) ==
  LET filter == UpsertFilter(key, record)
  IN [on |-> filter.on, value |-> filter.value, set |-> record]

Operations(job) ==
  [i \in DOMAIN job.records |-> Operation(job.key, job.records[i])]

Matches(doc, op) == doc[op.on] = op.value

\* $set.
Changed(doc, op) == [f \in Fields |-> IF f \in DOMAIN op.set THEN op.set[f] ELSE doc[f]]

\* Mutant: what the filter asks for is not part of the new document.
NewDocBare(op) == [f \in Fields |-> IF f \in DOMAIN op.set THEN op.set[f] ELSE None]

\* An upsert inserts the fields of its filter, and those that it sets.
NewDoc(op) ==
  [f \in Fields |-> IF f \in DOMAIN op.set THEN op.set[f]
                    ELSE IF f = op.on THEN op.value ELSE None]

\* Mutant: the unique indices are not ensured.
NoIndex == {}

\* The fields with a unique index: those that ensure_indices plans.
Indexed == IF collection = "planned" THEN {KeyField} ELSE {}

\* A unique index refuses doc next to the documents at the other places.
Conflicts(doc, places) == \E f \in Indexed, i \in places : docs[i][f] = doc[f]

-----------------------------------------------------------------------------
(* A bulk write. *)

\* job: what it writes; next: the operation in progress; inserting: it has found
\* nothing; fate: "good" until an operation is refused, or the call broken off; alone: no
\* other writer has written since it began; again: it repeats what its writer has just
\* written, alone and with a good fate.
NewBulk(job, alone, again) ==
  [job |-> job, ops |-> Operations(job), next |-> 1, inserting |-> FALSE,
   fate |-> "good", alone |-> alone, again |-> again]

Nothing == [key |-> NoKey, records |-> <<>>]

Init ==
  /\ collection \in {"planned", "own"}
  /\ docs = <<>>
  /\ bulk = [w \in Writers |-> NewBulk(Nothing, TRUE, FALSE)]
  /\ begun = 0

Idle(w) == bulk[w].next > Len(bulk[w].ops)
Current(w) == bulk[w].ops[bulk[w].next]

Begin(w, job) ==
  /\ Idle(w)
  /\ begun < MaxBulks
  /\ begun' = begun + 1
  /\ LET alone == \A v \in Writers : Idle(v)
         again == bulk[w].job = job /\ bulk[w].alone /\ bulk[w].fate = "good"
     IN bulk' = [v \in Writers |-> IF v = w THEN NewBulk(job, alone, again)
                                   ELSE [bulk[v] EXCEPT !.alone = FALSE]]
  /\ UNCHANGED <<collection, docs>>

Finding(w) == ~Idle(w) /\ ~bulk[w].inserting

\* The operation has ended, and the next one is tried: ordered=False.
Ended(w, refused) ==
  bulk' = [bulk EXCEPT ![w].next = @ + 1, ![w].inserting = FALSE,
                       ![w].fate = IF refused THEN "refused" ELSE @]

\* The first document that matches is changed, unless that would give it another's key.
Modify(w, i) ==
  /\ Finding(w)
  /\ Matches(docs[i], Current(w)) /\ \A j \in 1..i-1 : ~Matches(docs[j], Current(w))
  /\ LET doc == Changed(docs[i], Current(w))
         refused == Conflicts(doc, DOMAIN docs \ {i})
     IN /\ docs' = IF refused THEN docs ELSE [docs EXCEPT ![i] = doc]
        /\ Ended(w, refused)
  /\ UNCHANGED <<collection, begun>>

FindNothing(w) ==
  /\ Finding(w)
  /\ \A i \in DOMAIN docs : ~Matches(docs[i], Current(w))
  /\ bulk' = [bulk EXCEPT ![w].inserting = TRUE]
  /\ UNCHANGED <<collection, docs, begun>>

Insert(w) ==
  /\ bulk[w].inserting
  /\ ~Conflicts(NewDoc(Current(w)), DOMAIN docs)
  /\ docs' = Append(docs, NewDoc(Current(w)))
  /\ Ended(w, FALSE)
  /\ UNCHANGED <<collection, begun>>

\* Another has inserted the key.  The server repeats the find if the filter is the
\* indexed key itself; else the operation is refused.
InsertConflicts(w) ==
  /\ bulk[w].inserting
  /\ Conflicts(NewDoc(Current(w)), DOMAIN docs)
  /\ \/ /\ Current(w).on \in Indexed
        /\ bulk' = [bulk EXCEPT ![w].inserting = FALSE]
     \/ /\ Current(w).on \notin Indexed
        /\ Ended(w, TRUE)
  /\ UNCHANGED <<collection, docs, begun>>

\* The connection is lost, and the rest with it.
BreakOff(w) ==
  /\ ~Idle(w)
  /\ bulk' = [bulk EXCEPT ![w].next = Len(bulk[w].ops) + 1, ![w].inserting = FALSE,
                          ![w].fate = "broken"]
  /\ UNCHANGED <<collection, docs, begun>>

Next ==
  \E w \in Writers :
    \/ \E job \in Jobs : Begin(w, job)
    \/ \E i \in DOMAIN docs : Modify(w, i)
    \/ FindNothing(w) \/ Insert(w) \/ InsertConflicts(w) \/ BreakOff(w)

Spec == Init /\ [][Next]_vars

-----------------------------------------------------------------------------
(* Properties. *)

DocValues == Values \cup {None} \cup {Printed[r] : r \in Records}

Bulks ==
  [job : Jobs \cup {Nothing},
   ops : Seq([on : Fields, value : DocValues, set : Records]),
   next : Nat \ {0}, inserting : BOOLEAN, fate : {"good", "refused", "broken"}, alone : BOOLEAN,
   again : BOOLEAN]

\* "Unique indices encode the per-collection upsert key so duplicates are impossible at
\* the storage layer" (mongo.py), next to the types: even where a pipeline writes into
\* the collection under another key.
TypeOK ==
  /\ collection \in {"planned", "own"}
  /\ docs \in Seq([Fields -> DocValues])
  /\ bulk \in [Writers -> Bulks]
  /\ begun \in 0..MaxBulks
  /\ collection = "planned" =>
       \A i \in DOMAIN docs, j \in DOMAIN docs : docs[i][KeyField] = docs[j][KeyField] => i = j

\* A find and an insert are one step to everyone else, whatever other writers do in
\* between, where the unique index backs the key: the twin that both would insert is
\* refused to one, which then changes the other's document.
Backed == IF collection = "planned" THEN {KeyField} ELSE {}
Atomic == INSTANCE AtomicUpsert
            WITH backed <- Backed,
                 bulk <- [w \in Writers |-> [ops |-> bulk[w].ops, next |-> bulk[w].next,
                                             alone |-> bulk[w].alone]]
ActsAtomically == Atomic!Spec

SameIdentity(key, r, s) ==
  IF key = NoKey THEN r = s
  ELSE \/ key \in DOMAIN r \cap DOMAIN s /\ r[key] = s[key]
       \/ key \notin DOMAIN r \cup DOMAIN s

\* A bulk write of which nothing was refused, and that was alone, has written every
\* record, but for those that a later record of the same key was written over: nulls
\* included, and whatever earlier writers have left.
BulkStands ==
  \A w \in Writers :
    LET job == bulk[w].job
        records == job.records
    IN Idle(w) /\ bulk[w].alone /\ bulk[w].fate = "good" =>
         \A i \in DOMAIN records :
            \/ \E j \in i+1..Len(records) : SameIdentity(job.key, records[i], records[j])
            \/ \E d \in DOMAIN docs : \A f \in DOMAIN records[i] : docs[d][f] = records[i][f]

\* "so we still upsert rather than blindly insert duplicates" (executor.py): who repeats
\* a bulk write, alone both times, adds no document, under whatever key.
RepeatIsQuiet ==
  [][ \A w \in Writers :
        ~Idle(w) /\ bulk[w].alone /\ bulk[w].again => Len(docs') = Len(docs) ]_vars
=============================================================================
