----------------------------- MODULE BulkWrite -----------------------------
(***************************************************************************)
(* Mongo's bulk_write of UpdateOne(filter, {"$set": doc}, upsert=True), as *)
(* every repository of the program and the pipeline executor use it.  A    *)
(* collection maps each key its filters may name to what was last set      *)
(* under it, an operation is a record with a key and a payload.            *)
(*                                                                         *)
(* Operations are applied in the order given, so that the last one of a    *)
(* key wins: ordered=False only says that those after a refused one are    *)
(* tried all the same.  A call that fails has applied any part of them.    *)
(***************************************************************************)
EXTENDS Naturals, Sequences, FiniteSets

\* The positions of the operations of ops on key k.
On(ops, k) == {i \in DOMAIN ops : ops[i].key = k}

\* Mutant: the batch is deduplicated by key and keeps the first record of each.
UpsertedFirstWins(coll, ops, done) ==
  [k \in DOMAIN coll |->
     IF On(ops, k) \cap done = {} THEN coll[k]
     ELSE ops[CHOOSE i \in On(ops, k) \cap done :
                 \A j \in On(ops, k) \cap done : i <= j].payload]

\* The collection after the operations at the positions done were applied.
Upserted(coll, ops, done) ==
  [k \in DOMAIN coll |->
     IF On(ops, k) \cap done = {} THEN coll[k]
     ELSE ops[CHOOSE i \in On(ops, k) \cap done :
                 \A j \in On(ops, k) \cap done : j <= i].payload]

\* upserted_count + modified_count of a batch of documents that carry the time
\* of the batch: an operation counts unless the batch itself has just written
\* the same document.
Written(ops) ==
  Cardinality({i \in DOMAIN ops :
     \A j \in 1..i-1 :
        ops[j].key = ops[i].key /\ (\A m \in j+1..i-1 : ops[m].key # ops[i].key)
          => ops[j].payload # ops[i].payload})
=============================================================================
