--------------------------- MODULE RecordPipeline ---------------------------
(***************************************************************************)
(* One commit run seen from inside a process: the steps are built once,    *)
(* every source document is copied and threaded through them, and what     *)
(* they made of it is kept until all of it is written.                     *)
(*                                                                         *)
(* PipelineExecutor has the awaits, the failures and the other runs; here  *)
(* are the values, and the dicts they share.                               *)
(***************************************************************************)
EXTENDS TransformSteps

CONSTANTS
  Pipelines,  \* step configs in order; a dict literal is [tree |-> its dicts]
  Documents,  \* the source documents in the order of the cursor, each with its dicts
  FailFast    \* error_mode

ASSUME RecordAssumption ==
  /\ MaxDepth \in Nat
  /\ \A p \in Pipelines : p \in Seq(ToSet(p)) /\ \A i \in DOMAIN p : IsConfig(p[i])
  /\ Documents \in Seq(ToSet(Documents))
  /\ \A i \in DOMAIN Documents : IsDocument(Documents[i])

VARIABLES
  pc,       \* where the run is
  pipeline, \* the definition
  steps,    \* the steps built, with their configs
  heap,     \* every dict of the process
  done,     \* how many documents have been read
  record,   \* working
  applied,  \* how many steps have been applied to it
  lineage,  \* its lineage so far
  outputs,  \* write_ops: the record, and what it was when it was put there
  target,   \* what the bulk write encodes, for each of them
  crossed   \* history: the paths of scalars that a path which was set led through

vars == <<pc, pipeline, steps, heap, done, record, applied, lineage, outputs, target, crossed>>

\* The dicts of the literals of the first n configs.
Literals(configs) ==
  LET heaps[n \in 0..Len(configs)] ==
        IF n = 0 THEN <<>>
        ELSE IF HasTree(configs[n]) THEN CopyTo(heaps[n-1], configs[n].value.tree)
        ELSE heaps[n-1]
  IN heaps

Build(configs) ==
  [i \in DOMAIN configs |->
     IF HasTree(configs[i])
     THEN [configs[i] EXCEPT !.value = Dict(Len(Literals(configs)[i-1]) + 1)]
     ELSE configs[i]]

Init ==
  /\ pipeline \in Pipelines
  /\ steps = Build(pipeline)
  /\ heap = Literals(pipeline)[Len(pipeline)]
  /\ pc = "reading"
  /\ done = 0
  /\ record = 0
  /\ applied = 0
  /\ lineage = <<>>
  /\ outputs = <<>>
  /\ target = <<>>
  /\ crossed = {}

\* Mutant: the working record is made once, and updated with each document.
ReadInPlace ==
  /\ pc = "reading" /\ done < Len(Documents)
  /\ pc' = "transforming"
  /\ done' = done + 1
  /\ LET copied == CopyTo(heap, Documents[done + 1])
     IN IF record = 0
        THEN record' = Len(heap) + 1 /\ heap' = copied
        ELSE record' = record /\ heap' = [copied EXCEPT ![record] = copied[Len(heap) + 1]]
  /\ applied' = 0
  /\ lineage' = <<>>
  /\ crossed' = {}
  /\ UNCHANGED <<pipeline, steps, outputs, target>>

\* The cursor yields a document, and transform_record starts from a deep copy.
Read ==
  /\ pc = "reading" /\ done < Len(Documents)
  /\ pc' = "transforming"
  /\ done' = done + 1
  /\ record' = Len(heap) + 1
  /\ heap' = CopyTo(heap, Documents[done + 1])
  /\ applied' = 0
  /\ lineage' = <<>>
  /\ crossed' = {}
  /\ UNCHANGED <<pipeline, steps, outputs, target>>

Transformed == apply(heap, record, steps[applied + 1])

\* Has an entry's step set a path through the field that p is, which has a scalar?  A
\* drop sets nothing, and a rename has moved its source away before.
LeadsThrough(entry, p) ==
  LET dict == Follow(heap, record, Front(p))
  IN /\ Leaf(heap, record, p) # None
     /\ entry.target # <<>> /\ entry.type # "drop"
     /\ ~(entry.type = "rename" /\ entry.sources = <<p>>)
     /\ Uses(heap, record, Front(entry.target), dict.ref, Last(p))

\* History: what a step sets a path through, if no entry before has kept it.
Crossed(entries) ==
  {p \in Paths : \E i \in DOMAIN entries :
     /\ i > Len(lineage) /\ LeadsThrough(entries[i], p)
     /\ \A j \in 1..i-1 : entries[j].target # p}

\* The next step changes the record and reports it.
Step ==
  /\ pc = "transforming" /\ applied < Len(steps)
  /\ Transformed # Raised
  /\ heap' = Transformed.heap
  /\ lineage' = lineage \o Transformed.lineage
  /\ crossed' = crossed \cup Crossed(lineage')
  /\ applied' = applied + 1
  /\ pc' = IF Transformed.dropped THEN "reading" ELSE "transforming"
  /\ UNCHANGED <<pipeline, steps, done, record, outputs, target>>

\* The next step raises; what the steps before it did to shared dicts stays done.
StepRaises ==
  /\ pc = "transforming" /\ applied < Len(steps)
  /\ Transformed = Raised
  /\ pc' = IF FailFast THEN "answered" ELSE "reading"
  /\ UNCHANGED <<pipeline, steps, heap, done, record, applied, lineage, outputs, target, crossed>>

\* Mutant: the loop goes on with the same document.
OutputAgain ==
  /\ pc = "transforming" /\ applied = Len(steps)
  /\ outputs' = Append(outputs, [record |-> record, shown |-> Shown(heap, record)])
  /\ UNCHANGED <<pc, pipeline, steps, heap, done, record, applied, lineage, target, crossed>>

\* The record is put among the upserts, as it is: not copied.
Output ==
  /\ pc = "transforming" /\ applied = Len(steps)
  /\ outputs' = Append(outputs, [record |-> record, shown |-> Shown(heap, record)])
  /\ pc' = "reading"
  /\ UNCHANGED <<pipeline, steps, heap, done, record, applied, lineage, target, crossed>>

\* The bulk write encodes every record.
Write ==
  /\ pc = "reading" /\ done = Len(Documents)
  /\ target' = [i \in DOMAIN outputs |-> Shown(heap, outputs[i].record)]
  /\ pc' = "answered"
  /\ UNCHANGED <<pipeline, steps, heap, done, record, applied, lineage, outputs, crossed>>

Next == Read \/ Step \/ StepRaises \/ Output \/ Write

Spec == Init /\ [][Next]_vars

-----------------------------------------------------------------------------
(* Properties. *)

\* Every dict a record leads to exists, and the run has no more outputs than it
\* has read documents.
TypeOK ==
  /\ pc \in {"reading", "transforming", "answered"}
  /\ done \in 0..Len(Documents) /\ applied \in 0..Len(steps)
  /\ Closed(heap, DOMAIN heap)
  /\ record \in 0..Len(heap)
  /\ Len(outputs) <= done

\* Does an entry name a path through, or to, a field of a dict?
Names(h, root, entry, ref, field) ==
  \/ Uses(h, root, entry.target, ref, field)
  \/ \E i \in DOMAIN entry.sources : Uses(h, root, entry.sources[i], ref, field)

\* "A step that mutates data without emitting lineage is incorrect" (contract.py):
\* whatever a step changes in any dict, the lineage it emits names, if only by one of the
\* paths to the dict: a change of a duplicate is one of the original too.
EveryChangeIsNamed ==
  [][pc = "transforming" =>
       \A r \in DOMAIN heap, f \in Fields : heap'[r][f] # heap[r][f] =>
          \E i \in DOMAIN lineage' :
             i > Len(lineage) /\ Names(heap, record, lineage'[i], r, f)]_vars

\* A field as an entry remembers it: None is no field.
Restored(h, path, value) ==
  IF value = None THEN delete_path(h, record, path) ELSE set_path(h, record, path, value)

\* One entry taken back.
Undo(h, entry) ==
  CASE entry.target = <<>> -> h
    [] entry.type = "rename" ->
         Restored(Restored(h, entry.target, entry.before), entry.sources[1], entry.after)
    [] OTHER -> Restored(h, entry.target, entry.before)

\* "every transform records before/after for every field" (README): the lineage leads
\* back from the record to the document it was made of, through dicts that two paths lead
\* to as well; but for a scalar that a step has replaced by a dict, to set a path that leads
\* through it.  The code records the path that is set, and nothing of the scalar: it is lost,
\* unless an entry before has it.
LineageLeadsBack ==
  pc = "transforming" =>
    LET document == Documents[done]
        original == FoldLeft(Undo, heap, Reverse(lineage))
    IN \A p \in Paths \ crossed : Leaf(original, record, p) = Leaf(document, 1, p)

\* What is written of a document is what the steps made of it, whatever they made
\* of the documents after it, unless a config has a dict: that one is in all of them.
WrittenAsTransformed ==
  (\A i \in DOMAIN pipeline : ~HasTree(pipeline[i])) =>
     \A i \in DOMAIN target : target[i] = outputs[i].shown
=============================================================================
