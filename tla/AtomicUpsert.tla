---------------------------- MODULE AtomicUpsert ----------------------------
(***************************************************************************)
(* What an upsert promises to who reads the collection: one step that      *)
(* changes a document, or adds one when none matches.  BulkWrite, and with *)
(* it Ingestion and PipelineExecutor, take upserts to be such steps.       *)
(* Only who writes under a key of no unique index, while another writes,   *)
(* may add a document next to one that matches.                            *)
(***************************************************************************)
EXTENDS Naturals, Sequences

CONSTANTS Writers, Fields, None

VARIABLES
  backed,  \* the fields with a unique index
  docs,    \* the collection, in the order in which documents were inserted
  bulk     \* of each writer: the operations of its bulk write, the next of them,
           \* and whether it has been alone since it began

vars == <<backed, docs, bulk>>

Init ==
  /\ backed \subseteq Fields
  /\ docs = <<>>
  /\ bulk = [w \in Writers |-> [ops |-> <<>>, next |-> 1, alone |-> TRUE]]

Idle(w) == bulk[w].next > Len(bulk[w].ops)

Begin(w) ==
  /\ Idle(w)
  /\ bulk'[w].next = 1
  /\ bulk'[w].alone = \A v \in Writers : Idle(v)
  /\ \A v \in Writers \ {w} : bulk'[v] = [bulk[v] EXCEPT !.alone = FALSE]
  /\ UNCHANGED docs

Advance(w) == bulk' = [bulk EXCEPT ![w].next = @ + 1]

Change(w, i, op) ==
  /\ docs[i][op.on] = op.value
  /\ docs' = [docs EXCEPT ![i] = [f \in Fields |-> IF f \in DOMAIN op.set THEN op.set[f]
                                                                           ELSE @[f]]]

Add(w, op) ==
  /\ (op.on \in backed \/ bulk[w].alone) => \A i \in DOMAIN docs : docs[i][op.on] # op.value
  /\ \E doc \in [Fields -> {None, op.value} \cup {op.set[f] : f \in DOMAIN op.set}] :
        /\ doc[op.on] = op.value
        /\ docs' = Append(docs, doc)

Apply(w) ==
  /\ ~Idle(w)
  /\ LET op == bulk[w].ops[bulk[w].next]
     IN \/ \E i \in DOMAIN docs : Change(w, i, op)
        \/ Add(w, op)
        \/ UNCHANGED docs      \* it is refused
  /\ Advance(w)

\* The rest of a bulk write is lost.
BreakOff(w) ==
  /\ ~Idle(w)
  /\ bulk' = [bulk EXCEPT ![w].next = Len(bulk[w].ops) + 1]
  /\ UNCHANGED docs

Next ==
  /\ \E w \in Writers : Begin(w) \/ Apply(w) \/ BreakOff(w)
  /\ UNCHANGED backed

Spec == Init /\ [][Next]_vars
=============================================================================
