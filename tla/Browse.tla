------------------------------- MODULE Browse -------------------------------
(***************************************************************************)
(* The list endpoints (browse.py, raw.py, unified.py): a count, then the   *)
(* page of a cursor, and between the two, and between one page and the     *)
(* next, the upserts of Upsert.  A client walks the pages until "pages".   *)
(*                                                                         *)
(* Values are numbers and None is the least of them, for the sort.  A page *)
(* is at most 200 documents, and is read at once.                          *)
(***************************************************************************)
EXTENDS Upsert, FiniteSets

CONSTANTS
  Sizes,      \* page sizes
  SortFields, \* the fields of the allow-list
  Natural,    \* no sort
  AnyRef      \* no source_ref asked for

ASSUME BrowseAssumption ==
  /\ Values \cup {None} \subseteq Nat /\ \A v \in Values : None < v
  /\ Sizes \subseteq Nat \ {0} /\ SortFields \subseteq Fields \ {Synthetic}
  /\ Natural \notin Fields

VARIABLE walk   \* the walk of the client, see NoWalk

allvars == <<vars, walk>>

\* stage: "none", "count", "find" or "done"; seen: the places of the documents of the pages,
\* and whether it was shown them; due: the places of those that it wants, since the walk
\* began; still: nothing was written since.
NoWalk == [stage |-> "none", size |-> 1, sort |-> Natural, down |-> FALSE,
           ref |-> AnyRef, page |-> 1, total |-> 0, seen |-> <<>>, due |-> {}, still |-> TRUE]

BrowseInit == Init /\ walk = NoWalk

Wanted(doc) == walk.ref = AnyRef \/ doc[KeyField] = walk.ref

\* An upsert while pages are being read.  Bound: none after a walk is done.
Write ==
  /\ walk.stage # "done"
  /\ Next
  /\ walk' = [walk EXCEPT !.still = @ /\ docs' = docs,
                          !.due = {i \in @ : Wanted(docs'[i])}]

\* The endpoints are of planned collections only.
BeginWalk(size, sort, down, ref) ==
  /\ walk.stage = "none" /\ collection = "planned"
  /\ sort = Natural => ~down
  /\ walk' = [NoWalk EXCEPT
                !.stage = "count", !.size = size, !.sort = sort, !.down = down,
                !.ref = ref,
                !.due = {i \in DOMAIN docs : ref = AnyRef \/ docs[i][KeyField] = ref}]
  /\ UNCHANGED vars

\* Mutant: the documents of the source_ref are counted.
CountWanted ==
  /\ walk.stage = "count"
  /\ walk' = [walk EXCEPT !.stage = "find",
                          !.total = Cardinality({i \in DOMAIN docs : Wanted(docs[i])})]
  /\ UNCHANGED vars

\* count_documents, of the documents of an entity: source_ref has no part in it.
Count ==
  /\ walk.stage = "count"
  /\ walk' = [walk EXCEPT !.stage = "find", !.total = Len(docs)]
  /\ UNCHANGED vars

\* The orders in which a cursor may give the documents: the natural one, which is that of
\* insertion, or any in which the field does not descend, or not ascend.
Orders ==
  LET places == DOMAIN docs
      At(order, i) == docs[order[i]][walk.sort]
      Sorted(order) ==
        \A i, j \in places :
           i < j => IF walk.down THEN At(order, i) >= At(order, j) ELSE At(order, i) <= At(order, j)
  IN IF walk.sort = Natural THEN {[i \in places |-> i]}
     ELSE {order \in [places -> places] :
             (\A i, j \in places : order[i] = order[j] => i = j) /\ Sorted(order)}

\* skip((page - 1) * size).limit(size).
Cut(order, page, size) ==
  SubSeq(order, (page - 1) * size + 1,
         IF page * size < Len(order) THEN page * size ELSE Len(order))

PageCount(total, size) == (total + size - 1) \div size

\* list_raw compares source_ref with the documents of the page.
Shown(items) ==
  [n \in DOMAIN items |-> [place |-> items[n], shown |-> Wanted(docs[items[n]])]]

Find ==
  /\ walk.stage = "find"
  /\ \E order \in Orders :
       walk' = [walk EXCEPT
                  !.seen = @ \o Shown(Cut(order, walk.page, walk.size)),
                  !.page = @ + 1,
                  !.stage = IF walk.page < PageCount(walk.total, walk.size)
                            THEN "count" ELSE "done"]
  /\ UNCHANGED vars

BrowseNext ==
  \/ Write \/ Count \/ Find
  \/ \E size \in Sizes, sort \in SortFields \cup {Natural}, down \in BOOLEAN,
        ref \in Values \cup {AnyRef} :
       BeginWalk(size, sort, down, ref)

BrowseSpec == BrowseInit /\ [][BrowseNext]_allvars

-----------------------------------------------------------------------------
(* Properties. *)

TimesSeen(i) ==
  Cardinality({n \in DOMAIN walk.seen : walk.seen[n].place = i /\ walk.seen[n].shown})

\* A walk shows every document that it wants and that was there when it began, once,
\* and none twice: without a sort, whatever is written meanwhile; with one, if the field
\* is the key and nothing is written.  The one document of a source_ref is found too, on
\* whatever page it is, for the total does not know of the source_ref.  A walk without a
\* source_ref shows, under any sort, at least as many documents as the total it was last
\* told: the count comes first, and documents only become more.
WalkSeesEachOnce ==
  /\ walk.sort = Natural => \A i \in DOMAIN docs : TimesSeen(i) <= 1
  /\ (walk.stage = "done" /\ (walk.sort = Natural \/ (walk.sort = KeyField /\ walk.still))) =>
        \A i \in walk.due : TimesSeen(i) = 1
  /\ (walk.stage = "done" /\ walk.ref = AnyRef) => Len(walk.seen) >= walk.total
=============================================================================
