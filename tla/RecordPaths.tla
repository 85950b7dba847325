---------------------------- MODULE RecordPaths ----------------------------
(***************************************************************************)
(* The working record of a pipeline and the dot-paths into it (paths.py).  *)
(*                                                                         *)
(* Python passes dicts by reference, and the steps rely on it, so a record *)
(* is a root in a heap of dicts: two fields may hold the same dict.  A     *)
(* heap is a sequence of dicts, and an allocation appends to it.  A text   *)
(* is the sequence of its words, what split(" ") makes of it; a list       *)
(* behaves like a scalar for every path.                                   *)
(***************************************************************************)
EXTENDS Naturals, Sequences, SequencesExt

CONSTANTS
  Fields,   \* the keys of dicts, and the segments of paths
  MaxDepth  \* bound: how deep a record is looked into

None == [none |-> TRUE]        \* None
Missing == [missing |-> TRUE]  \* no such key
Text(words) == [text |-> words]
Number(n) == [number |-> n]
Dict(ref) == [ref |-> ref]

IsText(v) == "text" \in DOMAIN v
IsNumber(v) == "number" \in DOMAIN v
IsDict(v) == "ref" \in DOMAIN v

EmptyDict == [f \in Fields |-> Missing]

\* What split(".") makes of a path: at least one segment.
DotPaths == Seq(Fields) \ {<<>>}

\* A sequence of dicts with fields, each of which may be missing.
IsHeap(heap) ==
  /\ heap \in Seq(ToSet(heap))
  /\ \A r \in DOMAIN heap : heap[r] = [f \in Fields |-> heap[r][f]]

\* The dicts refs hold no others.
Closed(heap, refs) ==
  \A r \in refs : \A f \in Fields : IsDict(heap[r][f]) => heap[r][f].ref \in refs

\* A dict of its own, with those in it: the first is its root.
IsDocument(heap) == IsHeap(heap) /\ heap # <<>> /\ Closed(heap, DOMAIN heap)

\* What a path leads to, or Missing.
Follow(heap, root, path) ==
  LET at[n \in 0..Len(path)] ==
        IF n = 0 THEN Dict(root)
        ELSE LET v == at[n-1] IN IF IsDict(v) THEN heap[v.ref][path[n]] ELSE Missing
  IN at[Len(path)]

has_path(heap, root, path) == Follow(heap, root, path) # Missing

get_path(heap, root, path) ==
  IF has_path(heap, root, path) THEN Follow(heap, root, path) ELSE None

\* One field of one dict.
Put(heap, ref, field, value) == [heap EXCEPT ![ref] = [heap[ref] EXCEPT ![field] = value]]

\* One segment further on the way to a leaf that is to be set: whatever is there
\* and is not a dict makes room for one.
Enter(at, segment) ==
  LET next == at.heap[at.ref][segment]
      new == Len(at.heap) + 1
  IN IF IsDict(next)
     THEN [heap |-> at.heap, ref |-> next.ref]
     ELSE [heap |-> Append(Put(at.heap, at.ref, segment, Dict(new)), EmptyDict), ref |-> new]

set_path(heap, root, path, value) ==
  LET way[n \in 0..Len(path)-1] ==
        IF n = 0 THEN [heap |-> heap, ref |-> root] ELSE Enter(way[n-1], path[n])
      at == way[Len(path)-1]
  IN Put(at.heap, at.ref, path[Len(path)], value)

delete_path(heap, root, path) ==
  LET parent == Follow(heap, root, Front(path))
  IN IF IsDict(parent) THEN Put(heap, parent.ref, Last(path), Missing) ELSE heap

\* A document of its own, copied to the end of the heap: its dicts keep their shape.
CopyTo(heap, document) ==
  heap \o [i \in DOMAIN document |-> [f \in Fields |->
             LET v == document[i][f] IN IF IsDict(v) THEN Dict(Len(heap) + v.ref) ELSE v]]

-----------------------------------------------------------------------------
(* What a reader of the record sees. *)

Paths == UNION {[1..n -> Fields] : n \in 1..MaxDepth}

\* The scalars of a record, at their paths.
Leaf(heap, root, path) ==
  LET v == get_path(heap, root, path) IN IF IsDict(v) THEN None ELSE v

Shown(heap, root) == [p \in Paths |-> Leaf(heap, root, p)]

\* Does a path lead through a field of a dict, or to it?
Uses(heap, root, path, ref, field) ==
  \E n \in DOMAIN path :
    LET dict == Follow(heap, root, SubSeq(path, 1, n-1))
    IN IsDict(dict) /\ dict.ref = ref /\ path[n] = field
=============================================================================
