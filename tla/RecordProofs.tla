---------------------------- MODULE RecordProofs ----------------------------
(***************************************************************************)
(* Proofs about RecordPipeline.                                            *)
(***************************************************************************)
EXTENDS RecordPipeline, DataProofs

-----------------------------------------------------------------------------
(* Heaps. *)

LEMMA HeapFacts ==
  ASSUME NEW h, IsHeap(h)
  PROVE  /\ Len(h) \in Nat /\ DOMAIN h = 1..Len(h)
         /\ h = [r \in 1..Len(h) |-> h[r]]
         /\ \A r \in 1..Len(h) : h[r] = [f \in Fields |-> h[r][f]]
<1> DEFINE S == ToSet(h)
<1>1. h \in Seq(S) /\ \A r \in DOMAIN h : h[r] = [f \in Fields |-> h[r][f]]
  BY DEF IsHeap
<1> HIDE DEF S
<1>2. Len(h) \in Nat /\ DOMAIN h = 1..Len(h) /\ h \in [1..Len(h) -> S]
  BY <1>1, LenProperties
<1>3. QED
  BY <1>1, <1>2

\* A function on the numbers up to n, of functions on the fields.
LEMMA HeapFrom ==
  ASSUME NEW n \in Nat, NEW h, h = [r \in 1..n |-> h[r]],
         \A r \in 1..n : h[r] = [f \in Fields |-> h[r][f]]
  PROVE  IsHeap(h) /\ Len(h) = n
<1> DEFINE S == ToSet(h)
<1>1. \A r \in 1..n : h[r] \in S
  BY DEF ToSet
<1> HIDE DEF S
<1>2. h \in [1..n -> S]
  BY <1>1
<1>3. h \in Seq(S)
  BY <1>2, SeqDef
<1>4. Len(h) = n /\ DOMAIN h = 1..n
  BY <1>2, <1>3, LenProperties
<1>5. QED
  BY <1>3, <1>4 DEF IsHeap, S

LEMMA PutFacts ==
  ASSUME NEW h, IsHeap(h), NEW r \in 1..Len(h), NEW field \in Fields, NEW value
  PROVE  /\ IsHeap(Put(h, r, field, value)) /\ Len(Put(h, r, field, value)) = Len(h)
         /\ \A s \in 1..Len(h) : \A f \in Fields :
              Put(h, r, field, value)[s][f] = IF s = r /\ f = field THEN value ELSE h[s][f]
         /\ \A s \in 1..Len(h) : s # r => Put(h, r, field, value)[s] = h[s]
<1> DEFINE n == Len(h)
           dict == [h[r] EXCEPT ![field] = value]
           g == [h EXCEPT ![r] = dict]
<1>1. n \in Nat /\ DOMAIN h = 1..n /\ h = [s \in 1..n |-> h[s]]
      /\ \A s \in 1..n : h[s] = [f \in Fields |-> h[s][f]]
  BY HeapFacts
<1>2. dict = [f \in Fields |-> dict[f]]
      /\ \A f \in Fields : dict[f] = IF f = field THEN value ELSE h[r][f]
  BY <1>1
<1> HIDE DEF n, dict
<1>3. g = [s \in 1..n |-> g[s]] /\ \A s \in 1..n : g[s] = IF s = r THEN dict ELSE h[s]
  BY <1>1 DEF n
<1> HIDE DEF g
<1>4. \A s \in 1..n : g[s] = [f \in Fields |-> g[s][f]]
  <2>1. ASSUME NEW s \in 1..n PROVE g[s] = [f \in Fields |-> g[s][f]]
    <3>1. CASE s = r
      <4>1. g[s] = dict
        BY <1>3, <3>1
      <4>2. QED
        BY <1>2, <4>1
    <3>2. CASE s # r
      <4>1. g[s] = h[s]
        BY <1>3, <3>2
      <4>2. QED
        BY <1>1, <4>1
    <3>3. QED
      BY <3>1, <3>2
  <2>2. QED
    BY <2>1
<1>5. IsHeap(g) /\ Len(g) = n
  BY <1>1, <1>3, <1>4, HeapFrom
<1>6. \A s \in 1..n : \A f \in Fields : g[s][f] = IF s = r /\ f = field THEN value ELSE h[s][f]
  <2>1. ASSUME NEW s \in 1..n, NEW f \in Fields
        PROVE  g[s][f] = IF s = r /\ f = field THEN value ELSE h[s][f]
    <3>1. CASE s = r
      <4>1. g[s] = dict
        BY <1>3, <3>1
      <4>2. QED
        BY <1>2, <3>1, <4>1
    <3>2. CASE s # r
      BY <1>3, <3>2
    <3>3. QED
      BY <3>1, <3>2
  <2>2. QED
    BY <2>1
<1>7. g = Put(h, r, field, value)
  BY DEF Put, g, dict
<1>8. QED
  BY <1>3, <1>5, <1>6, <1>7 DEF n

\* The empty dict that is made room with.
LEMMA GrowFacts ==
  ASSUME NEW h, IsHeap(h)
  PROVE  LET g == Append(h, EmptyDict)
         IN /\ IsHeap(g) /\ Len(g) = Len(h) + 1
            /\ \A r \in 1..Len(h) : g[r] = h[r]
            /\ \A f \in Fields : g[Len(h) + 1][f] = Missing
<1> DEFINE n == Len(h)
           S == ToSet(h) \cup {EmptyDict}
           g == Append(h, EmptyDict)
<1>1. n \in Nat /\ DOMAIN h = 1..n /\ h \in Seq(ToSet(h))
      /\ \A s \in 1..n : h[s] = [f \in Fields |-> h[s][f]]
  BY HeapFacts DEF IsHeap
<1>2. h \in Seq(S) /\ EmptyDict \in S
  <2>1. \A s \in 1..n : h[s] \in S
    BY <1>1 DEF ToSet
  <2>2. h \in [1..n -> ToSet(h)]
    BY <1>1, LenProperties
  <2> HIDE DEF S, n
  <2>3. h \in [1..n -> S]
    BY <1>1, <2>1, <2>2
  <2>4. QED
    BY <1>1, <2>3, SeqDef DEF S
<1> HIDE DEF S
<1>3. /\ g \in Seq(S) /\ Len(g) = n + 1
      /\ \A r \in 1..n : g[r] = h[r]
      /\ g[n+1] = EmptyDict
  BY <1>1, <1>2, AppendProperties
<1>4. n + 1 \in Nat /\ g = [r \in 1..n+1 |-> g[r]]
  <2>1. g \in [1..n+1 -> S]
    BY <1>3, LenProperties
  <2> HIDE DEF g
  <2>2. QED
    BY <1>1, <2>1
<1>5. \A r \in 1..n+1 : g[r] = [f \in Fields |-> g[r][f]]
  <2>1. ASSUME NEW r \in 1..n+1 PROVE g[r] = [f \in Fields |-> g[r][f]]
    <3>1. CASE r = n + 1
      <4>1. g[r] = EmptyDict
        BY <1>3, <3>1
      <4>2. EmptyDict = [f \in Fields |-> EmptyDict[f]]
        BY DEF EmptyDict
      <4> HIDE DEF g
      <4>3. QED
        BY <4>1, <4>2
    <3>2. CASE r # n + 1
      <4>1. r \in 1..n
        BY <1>1, <3>2
      <4>2. g[r] = h[r]
        BY <1>3, <4>1
      <4> HIDE DEF g
      <4>3. QED
        BY <1>1, <4>1, <4>2
    <3>3. QED
      BY <3>1, <3>2
  <2>2. QED
    BY <2>1
<1> HIDE DEF g
<1>6. IsHeap(g) /\ Len(g) = n + 1
  BY <1>4, <1>5, HeapFrom
<1>7. \A f \in Fields : g[n+1][f] = Missing
  BY <1>3 DEF EmptyDict
<1>8. QED
  BY <1>3, <1>6, <1>7 DEF n, g

\* A copy of a document behind the dicts that are there refers to itself only.
LEMMA CopyFacts ==
  ASSUME NEW h, IsHeap(h), NEW document, IsDocument(document)
  PROVE  LET g == CopyTo(h, document)
         IN /\ IsHeap(g) /\ Len(g) = Len(h) + Len(document) /\ Len(document) \in Nat \ {0}
            /\ \A r \in 1..Len(h) : g[r] = h[r]
            /\ Closed(g, Len(h)+1..Len(g))
<1> DEFINE n == Len(h)
           m == Len(document)
           Moved(v) == IF IsDict(v) THEN Dict(n + v.ref) ELSE v
           copy == [i \in DOMAIN document |-> [f \in Fields |-> Moved(document[i][f])]]
           g == h \o copy
<1>1. /\ n \in Nat /\ DOMAIN h = 1..n /\ h \in Seq(ToSet(h))
      /\ \A s \in 1..n : h[s] = [f \in Fields |-> h[s][f]]
      /\ \A s \in 1..n : h[s] \in ToSet(h)
  BY HeapFacts DEF IsHeap, ToSet
<1>2. m \in Nat \ {0} /\ DOMAIN document = 1..m
  <2>1. m \in Nat /\ DOMAIN document = 1..m /\ document \in Seq(ToSet(document))
        /\ document # <<>>
    BY HeapFacts DEF IsHeap, IsDocument
  <2>2. m # 0
    BY <2>1, EmptySeq
  <2>3. QED
    BY <2>1, <2>2
<1> DEFINE C == {[f \in Fields |-> Moved(document[i][f])] : i \in 1..m}
           S == ToSet(h) \cup C
<1>3. copy \in [1..m -> C]
  BY <1>2
<1> HIDE DEF m
<1>4. h \in Seq(S) /\ copy \in Seq(S) /\ Len(copy) = m
  <2>1. h \in [1..n -> ToSet(h)]
    BY <1>1, LenProperties
  <2> HIDE DEF C, copy, n
  <2>2. h \in [1..n -> S] /\ copy \in [1..m -> S]
    BY <1>1, <1>3, <2>1
  <2> HIDE DEF S
  <2>3. h \in Seq(S) /\ copy \in Seq(S)
    BY <1>1, <1>2, <2>2, SeqDef
  <2>4. QED
    BY <1>2, <1>3, <2>3, LenProperties
<1> HIDE DEF S, C, copy, n
<1>5. /\ g \in Seq(S) /\ Len(g) = n + m
      /\ \A r \in 1..n+m : g[r] = IF r <= n THEN h[r] ELSE copy[r-n]
  BY <1>4, ConcatProperties DEF n
<1> HIDE DEF g
<1>6. n + m \in Nat /\ g = [r \in 1..n+m |-> g[r]]
  <2>1. n + m \in Nat
    BY <1>1, <1>2
  <2>2. QED
    BY <1>5, <2>1, LenProperties
<1>7. \A r \in 1..n : g[r] = h[r]
  BY <1>1, <1>2, <1>5
<1>8. ASSUME NEW r \in n+1..n+m
      PROVE  /\ r - n \in 1..m
             /\ g[r] = [f \in Fields |-> Moved(document[r-n][f])]
  <2>1. r \in 1..n+m /\ ~(r <= n) /\ r - n \in 1..m
    BY <1>1, <1>2
  <2>2. g[r] = copy[r-n]
    BY <1>5, <2>1
  <2> HIDE DEF Moved
  <2>3. copy[r-n] = [f \in Fields |-> Moved(document[r-n][f])]
    BY <1>2, <2>1 DEF copy
  <2>4. QED
    BY <2>1, <2>2, <2>3
<1>9. \A r \in 1..n+m : g[r] = [f \in Fields |-> g[r][f]]
  <2>1. ASSUME NEW r \in 1..n+m PROVE g[r] = [f \in Fields |-> g[r][f]]
    <3>1. CASE r \in 1..n
      BY <1>1, <1>7, <3>1
    <3>2. CASE r \notin 1..n
      <4>1. r \in n+1..n+m
        BY <1>1, <1>2, <3>2
      <4> HIDE DEF Moved
      <4>2. g[r] = [f \in Fields |-> Moved(document[r-n][f])]
        BY <1>8, <4>1
      <4>3. QED
        BY <4>2
    <3>3. QED
      BY <3>1, <3>2
  <2>2. QED
    BY <2>1
<1>10. IsHeap(g) /\ Len(g) = n + m
  BY <1>6, <1>9, HeapFrom
<1>11. Closed(g, n+1..n+m)
  <2>1. ASSUME NEW r \in n+1..n+m, NEW f \in Fields, IsDict(g[r][f])
        PROVE  g[r][f].ref \in n+1..n+m
    <3> DEFINE v == document[r-n][f]
    <3>1. g[r][f] = Moved(v) /\ r - n \in 1..m
      <4> HIDE DEF Moved
      <4>1. g[r] = [e \in Fields |-> Moved(document[r-n][e])] /\ r - n \in 1..m
        BY <1>8
      <4>2. QED
        BY <4>1
    <3>2. IsDict(v) => v.ref \in 1..m
      BY <1>2, <3>1 DEF IsDocument, Closed
    <3> HIDE DEF v
    <3>3. IsDict(v) /\ Moved(v) = Dict(n + v.ref)
      BY <2>1, <3>1
    <3>4. g[r][f].ref = n + v.ref
      <4> HIDE DEF Moved
      <4>1. g[r][f] = Dict(n + v.ref)
        BY <3>1, <3>3
      <4>2. QED
        BY <4>1 DEF Dict
    <3>5. v.ref \in 1..m
      BY <3>2, <3>3
    <3>6. n + v.ref \in n+1..n+m
      BY <1>1, <1>2, <3>5
    <3>7. QED
      BY <3>4, <3>6
  <2>2. QED
    BY <2>1 DEF Closed
<1>12. g = CopyTo(h, document)
  BY DEF CopyTo, g, copy, n
<1>13. QED
  BY <1>2, <1>7, <1>10, <1>11, <1>12 DEF n, m

-----------------------------------------------------------------------------
(* Paths. *)

Fits(v, refs) == IsDict(v) => v.ref \in refs

\* The values on a path, from a root in refs, which are closed.
Walk(h, root, path, refs, at) ==
  /\ at[0] = Dict(root)
  /\ \A m \in 1..Len(path) :
       at[m] = IF IsDict(at[m-1]) THEN h[at[m-1].ref][path[m]] ELSE Missing
  /\ \A m \in 0..Len(path) : Fits(at[m], refs)
  /\ Follow(h, root, path) = at[Len(path)]

LEMMA DictIs ==
  ASSUME NEW r
  PROVE  IsDict(Dict(r)) /\ Dict(r).ref = r
BY DEF IsDict, Dict

LEMMA ScalarsFit ==
  ASSUME NEW refs
  PROVE  /\ Fits(None, refs) /\ Fits(Missing, refs) /\ \A x : Fits(Text(x), refs) /\ Fits(Number(x), refs)
BY DEF Fits, IsDict, None, Missing, Text, Number

LEMMA FollowWalk ==
  ASSUME NEW h, NEW refs, Closed(h, refs), NEW root \in refs, NEW path \in Seq(Fields)
  PROVE  \E at : Walk(h, root, path, refs, at)
<1> DEFINE n == Len(path)
           next(v, m) == IF IsDict(v) THEN h[v.ref][path[m]] ELSE Missing
           V == {Dict(root), Missing} \cup {h[r][f] : r \in refs, f \in Fields}
           step == [m \in 1..n |-> [v \in V |-> next(v, m)]]
           Steps(f) == f = [m \in 0..n |->
                             IF m = 0 THEN Dict(root)
                             ELSE LET v == f[m-1]
                                  IN IF IsDict(v) THEN h[v.ref][path[m]] ELSE Missing]
           at == CHOOSE f : Steps(f)
<1>1. n \in Nat /\ \A m \in 1..n : path[m] \in Fields
  BY LenProperties, ElementOfSeq
<1>2. \A v \in V : Fits(v, refs)
  <2>1. ASSUME NEW v \in V PROVE Fits(v, refs)
    <3>1. CASE v = Dict(root) \/ v = Missing
      BY <3>1, DictIs, ScalarsFit DEF Fits
    <3>2. CASE \E r \in refs, f \in Fields : v = h[r][f]
      BY <3>2 DEF Closed, Fits
    <3>3. QED
      BY <3>1, <3>2
  <2>2. QED
    BY <2>1
<1>3. \A v \in V : \A m \in 1..n : next(v, m) \in V
  <2>1. ASSUME NEW v \in V, NEW m \in 1..n PROVE next(v, m) \in V
    <3>1. CASE IsDict(v)
      <4>1. v.ref \in refs /\ path[m] \in Fields
        BY <1>1, <1>2, <3>1 DEF Fits
      <4>2. QED
        BY <3>1, <4>1
    <3>2. CASE ~IsDict(v)
      BY <3>2
    <3>3. QED
      BY <3>1, <3>2
  <2>2. QED
    BY <2>1
<1>4. Dict(root) \in V
  OBVIOUS
<1>5. step \in [1..n -> [V -> V]]
  <2> HIDE DEF V, next
  <2>1. QED
    BY <1>3
<1>6. \A m \in 1..n : \A v \in V : step[m][v] = next(v, m)
  OBVIOUS
<1> HIDE DEF V, step, n, next
<1>7. PICK f : f \in [0..n -> V] /\ f[0] = Dict(root) /\ \A m \in 1..n : f[m] = step[m][f[m-1]]
  <2>1. \E f : Recursive(n, V, Dict(root), step, f)
    BY <1>1, <1>4, <1>5, RecursionExists
  <2>2. QED
    BY <2>1 DEF Recursive
<1>8. Steps(f)
  <2>1. ASSUME NEW m \in 0..n
        PROVE  f[m] = IF m = 0 THEN Dict(root) ELSE next(f[m-1], m)
    <3>1. CASE m = 0
      BY <1>7, <3>1
    <3>2. CASE m # 0
      <4>1. m \in 1..n /\ m - 1 \in 0..n
        BY <1>1, <3>2
      <4>2. f[m-1] \in V /\ f[m] = step[m][f[m-1]]
        BY <1>7, <4>1
      <4>3. QED
        BY <1>6, <3>2, <4>1, <4>2
    <3>3. QED
      BY <3>1, <3>2
  <2>2. f = [m \in 0..n |-> IF m = 0 THEN Dict(root) ELSE next(f[m-1], m)]
    BY <1>7, <2>1
  <2>3. QED
    BY <2>2 DEF next
<1>9. Steps(at)
  <2> HIDE DEF Steps
  <2>1. QED
    BY <1>8
<1>10. at = [m \in 0..n |-> IF m = 0 THEN Dict(root) ELSE next(at[m-1], m)]
  BY <1>9 DEF next
<1>11. Follow(h, root, path) = at[n]
  BY DEF Follow, n
<1> HIDE DEF at, Steps
<1>12. at[0] = Dict(root) /\ \A m \in 1..n : at[m] = next(at[m-1], m)
  <2>1. 0 \in 0..n /\ \A m \in 1..n : m \in 0..n /\ m # 0
    BY <1>1
  <2>2. at[0] = Dict(root)
    BY <1>10, <2>1
  <2>3. ASSUME NEW m \in 1..n PROVE at[m] = next(at[m-1], m)
    BY <1>10, <2>1
  <2>4. QED
    BY <2>2, <2>3
<1>13. \A m \in 0..n : at[m] \in V
  <2> DEFINE T == {m \in 0..n : at[m] \in V}
  <2>1. T \in SUBSET (0..n) /\ 0 \in T
    BY <1>1, <1>4, <1>12
  <2>2. ASSUME NEW m \in 0..n-1, m \in T PROVE m + 1 \in T
    <3>1. m + 1 \in 1..n /\ (m + 1) - 1 = m /\ m + 1 \in 0..n
      BY <1>1
    <3>2. at[m+1] = next(at[m], m + 1)
      BY <1>12, <3>1
    <3>3. at[m] \in V
      BY <2>2
    <3>4. QED
      BY <1>3, <3>1, <3>2, <3>3
  <2> HIDE DEF T
  <2>3. T = 0..n
    BY <1>1, <2>1, <2>2, Induction
  <2>4. QED
    BY <2>3 DEF T
<1>14. QED
  BY <1>2, <1>11, <1>12, <1>13 DEF Walk, n, next

\* Where a path leads from a root in closed dicts stays among them.
LEMMA FollowFits ==
  ASSUME NEW h, NEW refs, Closed(h, refs), NEW root \in refs, NEW path \in Seq(Fields)
  PROVE  Fits(Follow(h, root, path), refs) /\ Fits(get_path(h, root, path), refs)
<1>1. PICK at : Walk(h, root, path, refs, at)
  BY FollowWalk
<1>2. Len(path) \in Nat /\ Len(path) \in 0..Len(path)
  BY LenProperties
<1>3. Fits(Follow(h, root, path), refs)
  BY <1>1, <1>2 DEF Walk
<1>4. QED
  BY <1>3, ScalarsFit DEF get_path

\* And depends on them only.
LEMMA FollowSame ==
  ASSUME NEW h, NEW g, NEW refs, Closed(h, refs), \A r \in refs : g[r] = h[r],
         NEW root \in refs, NEW path \in Seq(Fields)
  PROVE  Follow(g, root, path) = Follow(h, root, path)
<1> DEFINE n == Len(path)
<1>1. n \in Nat
  BY LenProperties
<1>2. PICK at : Walk(h, root, path, refs, at)
  BY FollowWalk
<1>3. Closed(g, refs)
  BY DEF Closed
<1>4. PICK to : Walk(g, root, path, refs, to)
  BY <1>3, FollowWalk
<1> DEFINE T == {m \in 0..n : at[m] = to[m]}
<1>5. T \in SUBSET (0..n) /\ 0 \in T
  BY <1>1, <1>2, <1>4 DEF Walk
<1>6. ASSUME NEW m \in 0..n-1, m \in T PROVE m + 1 \in T
  <2>1. m + 1 \in 1..n /\ (m + 1) - 1 = m /\ m + 1 \in 0..n /\ m \in 0..n
    BY <1>1
  <2>2. /\ at[m+1] = IF IsDict(at[m]) THEN h[at[m].ref][path[m+1]] ELSE Missing
        /\ to[m+1] = IF IsDict(to[m]) THEN g[to[m].ref][path[m+1]] ELSE Missing
    BY <1>2, <1>4, <2>1 DEF Walk
  <2>3. at[m] = to[m]
    BY <1>6
  <2>4. IsDict(at[m]) => at[m].ref \in refs
    BY <1>2, <2>1 DEF Walk, Fits
  <2>5. at[m+1] = to[m+1]
    BY <2>2, <2>3, <2>4
  <2>6. QED
    BY <2>1, <2>5
<1> HIDE DEF T
<1>7. T = 0..n
  BY <1>1, <1>5, <1>6, Induction
<1>8. at[n] = to[n]
  <2>1. n \in 0..n
    BY <1>1
  <2>2. QED
    BY <1>7, <2>1 DEF T
<1>9. QED
  BY <1>2, <1>4, <1>8 DEF Walk

\* What a change from the dict lo on may do: dicts may be added and changed, those below
\* stay as they were, and those from lo on hold none of them.
From(h, lo) == lo..Len(h)

Keeps(h, g, lo) ==
  /\ IsHeap(g)
  /\ Len(h) <= Len(g)
  /\ Closed(g, From(g, lo))
  /\ \A r \in 1..lo-1 : g[r] = h[r]

LEMMA KeepsSelf ==
  ASSUME NEW h, IsHeap(h), NEW lo \in Nat, Closed(h, From(h, lo))
  PROVE  Keeps(h, h, lo)
BY HeapFacts DEF Keeps

LEMMA KeepsOn ==
  ASSUME NEW h, IsHeap(h), NEW g, NEW k, NEW lo, Keeps(h, g, lo), Keeps(g, k, lo)
  PROVE  Keeps(h, k, lo)
<1>1. Len(h) \in Nat /\ Len(g) \in Nat /\ Len(k) \in Nat
  BY HeapFacts DEF Keeps
<1>2. QED
  BY <1>1 DEF Keeps

\* A root stays where it was.
LEMMA KeepsRoot ==
  ASSUME NEW h, IsHeap(h), NEW g, NEW lo \in Nat, Keeps(h, g, lo)
  PROVE  \A r \in From(h, lo) : r \in From(g, lo)
<1>1. Len(h) \in Nat /\ Len(g) \in Nat /\ Len(h) <= Len(g)
  BY HeapFacts DEF Keeps
<1>2. QED
  BY <1>1 DEF From

LEMMA PutKeeps ==
  ASSUME NEW h, IsHeap(h), NEW lo \in Nat \ {0}, Closed(h, From(h, lo)),
         NEW r \in From(h, lo), NEW field \in Fields, NEW value, Fits(value, From(h, lo))
  PROVE  Keeps(h, Put(h, r, field, value), lo)
<1> DEFINE g == Put(h, r, field, value)
<1>1. Len(h) \in Nat /\ r \in 1..Len(h)
  BY HeapFacts DEF From
<1>2. /\ IsHeap(g) /\ Len(g) = Len(h)
      /\ \A s \in 1..Len(h) : \A f \in Fields :
           g[s][f] = IF s = r /\ f = field THEN value ELSE h[s][f]
      /\ \A s \in 1..Len(h) : s # r => g[s] = h[s]
  BY <1>1, PutFacts
<1> HIDE DEF g
<1>3. From(g, lo) = From(h, lo)
  BY <1>2 DEF From
<1>4. Closed(g, From(h, lo))
  <2>1. ASSUME NEW s \in From(h, lo), NEW f \in Fields, IsDict(g[s][f])
        PROVE  g[s][f].ref \in From(h, lo)
    <3>1. s \in 1..Len(h)
      BY <1>1 DEF From
    <3>2. g[s][f] = value \/ g[s][f] = h[s][f]
      BY <1>2, <3>1
    <3>3. QED
      BY <2>1, <3>2 DEF Fits, Closed
  <2>2. QED
    BY <2>1 DEF Closed
<1>5. \A s \in 1..lo-1 : g[s] = h[s]
  <2>1. ASSUME NEW s \in 1..lo-1 PROVE g[s] = h[s]
    <3>1. s \in 1..Len(h) /\ s # r
      BY <1>1 DEF From
    <3>2. QED
      BY <1>2, <3>1
  <2>2. QED
    BY <2>1
<1>6. QED
  BY <1>1, <1>2, <1>3, <1>4, <1>5 DEF Keeps, g

LEMMA EnterKeeps ==
  ASSUME NEW h, IsHeap(h), NEW lo \in Nat \ {0}, Closed(h, From(h, lo)),
         NEW r \in From(h, lo), NEW segment \in Fields
  PROVE  LET b == Enter([heap |-> h, ref |-> r], segment)
         IN /\ b = [heap |-> b.heap, ref |-> b.ref]
            /\ Keeps(h, b.heap, lo)
            /\ b.ref \in From(b.heap, lo)
<1> DEFINE next == h[r][segment]
           new == Len(h) + 1
           g == Put(h, r, segment, Dict(new))
           k == Append(g, EmptyDict)
           b == Enter([heap |-> h, ref |-> r], segment)
<1>1. Len(h) \in Nat /\ r \in 1..Len(h)
  BY HeapFacts DEF From
<1>2. b = IF IsDict(next) THEN [heap |-> h, ref |-> next.ref] ELSE [heap |-> k, ref |-> new]
  BY DEF Enter
<1>3. CASE IsDict(next)
  <2>1. next.ref \in From(h, lo)
    BY <1>3 DEF Closed
  <2>2. Keeps(h, h, lo)
    BY KeepsSelf
  <2> HIDE DEF next, b
  <2>3. b = [heap |-> h, ref |-> next.ref]
    BY <1>2, <1>3
  <2>4. QED
    BY <2>1, <2>2, <2>3 DEF b
<1>4. CASE ~IsDict(next)
  <2> HIDE DEF next
  <2>1. b = [heap |-> k, ref |-> new]
    BY <1>2, <1>4
  <2>2. /\ IsHeap(g) /\ Len(g) = Len(h)
        /\ \A s \in 1..Len(h) : \A f \in Fields :
             g[s][f] = IF s = r /\ f = segment THEN Dict(new) ELSE h[s][f]
        /\ \A s \in 1..Len(h) : s # r => g[s] = h[s]
    <3> HIDE DEF new
    <3>1. QED
      BY <1>1, PutFacts
  <2> HIDE DEF g
  <2>3. /\ IsHeap(k) /\ Len(k) = new
        /\ \A s \in 1..Len(h) : k[s] = g[s]
        /\ \A f \in Fields : k[new][f] = Missing
    BY <2>2, GrowFacts
  <2>4. From(k, lo) = lo..new /\ new \in lo..new /\ new \in Nat
    BY <1>1, <2>3 DEF From
  <2> HIDE DEF k, b
  <2>5. ASSUME NEW s \in lo..new, NEW f \in Fields, IsDict(k[s][f])
        PROVE  k[s][f].ref \in lo..new
    <3>1. CASE s = new
      BY <2>3, <2>5, <3>1 DEF IsDict, Missing
    <3>2. CASE s # new
      <4>1. s \in 1..Len(h) /\ s \in From(h, lo)
        BY <1>1, <3>2 DEF From
      <4>2. k[s][f] = Dict(new) \/ k[s][f] = h[s][f]
        BY <2>2, <2>3, <4>1
      <4>3. CASE k[s][f] = Dict(new)
        BY <2>4, <4>3, DictIs
      <4>4. CASE k[s][f] = h[s][f]
        <5>1. k[s][f].ref \in From(h, lo)
          BY <2>5, <4>1, <4>4 DEF Closed
        <5>2. QED
          BY <1>1, <5>1 DEF From
      <4>5. QED
        BY <4>2, <4>3, <4>4
    <3>3. QED
      BY <3>1, <3>2
  <2>6. \A s \in 1..lo-1 : k[s] = h[s]
    <3>1. ASSUME NEW s \in 1..lo-1 PROVE k[s] = h[s]
      <4>1. s \in 1..Len(h) /\ s # r
        BY <1>1 DEF From
      <4>2. QED
        BY <2>2, <2>3, <4>1
    <3>2. QED
      BY <3>1
  <2>7. Len(h) <= Len(k)
    BY <1>1, <2>3
  <2>8. Keeps(h, k, lo)
    BY <2>3, <2>4, <2>5, <2>6, <2>7 DEF Keeps, Closed
  <2>9. b.heap = k /\ b.ref = new
    BY <2>1
  <2>10. QED
    BY <2>1, <2>4, <2>8, <2>9 DEF b
<1>5. QED
  BY <1>3, <1>4

\* The dicts that set_path goes through, and makes, on its way.
Way(h, root, path, value, way) ==
  /\ way[0] = [heap |-> h, ref |-> root]
  /\ \A m \in 1..Len(path)-1 : way[m] = Enter(way[m-1], path[m])
  /\ set_path(h, root, path, value) =
       Put(way[Len(path)-1].heap, way[Len(path)-1].ref, path[Len(path)], value)

LEMMA SetWay ==
  ASSUME NEW h, NEW root, NEW path \in DotPaths, NEW value
  PROVE  \E way : Way(h, root, path, value, way)
<1> DEFINE n == Len(path) - 1
           start == [heap |-> h, ref |-> root]
           Steps(f) == f = [m \in 0..n |->
                             IF m = 0 THEN [heap |-> h, ref |-> root] ELSE Enter(f[m-1], path[m])]
           Upto(f, k) == f[0] = start /\ \A m \in 1..k : f[m] = Enter(f[m-1], path[m])
           way == CHOOSE f : Steps(f)
           T == {k \in 0..n : \E f : Upto(f, k)}
<1>1. n \in Nat
  BY EmptySeq, LenProperties DEF DotPaths
<1>2. set_path(h, root, path, value) = Put(way[n].heap, way[n].ref, path[Len(path)], value)
  BY DEF set_path
<1> HIDE DEF n, start
<1>3. T \in SUBSET (0..n) /\ 0 \in T
  <2>1. Upto([m \in 0..0 |-> start], 0)
    OBVIOUS
  <2> HIDE DEF Upto
  <2>2. 0 \in 0..n
    BY <1>1
  <2>3. QED
    BY <2>1, <2>2
<1>4. ASSUME NEW k \in 0..n-1, k \in T PROVE k + 1 \in T
  <2>1. PICK f : Upto(f, k)
    BY <1>4
  <2>2. k \in Nat /\ k + 1 \in 0..n /\ (k + 1) - 1 = k
    BY <1>1
  <2> DEFINE g == [m \in 0..k+1 |-> IF m = k + 1 THEN Enter(f[k], path[k+1]) ELSE f[m]]
  <2>3. g[0] = start
    BY <2>1, <2>2
  <2>4. ASSUME NEW m \in 1..k+1 PROVE g[m] = Enter(g[m-1], path[m])
    <3>1. m - 1 \in 0..k+1 /\ m - 1 # k + 1 /\ m \in 0..k+1
      BY <2>2
    <3>2. g[m-1] = f[m-1]
      BY <3>1
    <3>3. CASE m = k + 1
      BY <2>2, <3>1, <3>2, <3>3
    <3>4. CASE m # k + 1
      <4>1. m \in 1..k
        BY <2>2, <3>4
      <4>2. f[m] = Enter(f[m-1], path[m])
        BY <2>1, <4>1
      <4>3. g[m] = f[m]
        BY <3>1, <3>4
      <4>4. QED
        BY <3>2, <4>2, <4>3
    <3>5. QED
      BY <3>3, <3>4
  <2>5. Upto(g, k + 1)
    <3> HIDE DEF g
    <3>1. QED
      BY <2>3, <2>4
  <2> HIDE DEF Upto, g
  <2>6. QED
    BY <2>2, <2>5
<1>5. PICK f : Upto(f, n)
  <2> HIDE DEF T, Upto
  <2>1. T = 0..n
    BY <1>1, <1>3, <1>4, Induction
  <2>2. n \in T
    BY <1>1, <2>1
  <2>3. QED
    BY <2>2 DEF T
<1> DEFINE g == [m \in 0..n |-> f[m]]
<1>6. Steps(g)
  <2>1. ASSUME NEW m \in 0..n
        PROVE  f[m] = IF m = 0 THEN start ELSE Enter(g[m-1], path[m])
    <3>1. CASE m = 0
      BY <1>5, <3>1
    <3>2. CASE m # 0
      <4>1. m \in 1..n /\ m - 1 \in 0..n
        BY <1>1, <3>2
      <4>2. g[m-1] = f[m-1] /\ f[m] = Enter(f[m-1], path[m])
        BY <1>5, <4>1
      <4>3. QED
        BY <3>2, <4>2
    <3>3. QED
      BY <3>1, <3>2
  <2>2. g = [m \in 0..n |-> IF m = 0 THEN start ELSE Enter(g[m-1], path[m])]
    BY <2>1
  <2>3. QED
    BY <2>2 DEF start
<1>7. Steps(way)
  <2> HIDE DEF Steps
  <2>1. QED
    BY <1>6
<1> HIDE DEF way
<1>8. way = [m \in 0..n |-> IF m = 0 THEN start ELSE Enter(way[m-1], path[m])]
  BY <1>7 DEF start
<1>9. 0 \in 0..n /\ \A m \in 1..n : m \in 0..n /\ m # 0
  BY <1>1
<1>10. way[0] = start /\ \A m \in 1..n : way[m] = Enter(way[m-1], path[m])
  BY <1>8, <1>9
<1>11. QED
  BY <1>2, <1>10 DEF Way, n, start

LEMMA SetKeeps ==
  ASSUME NEW h, IsHeap(h), NEW lo \in Nat \ {0}, Closed(h, From(h, lo)),
         NEW root \in From(h, lo), NEW path \in DotPaths,
         NEW value, Fits(value, From(h, lo))
  PROVE  Keeps(h, set_path(h, root, path, value), lo)
<1> DEFINE n == Len(path) - 1
<1>1. n \in Nat /\ path[Len(path)] \in Fields /\ \A m \in 1..n : path[m] \in Fields
  <2>1. path \in Seq(Fields) /\ path # <<>> /\ Len(path) \in Nat
    BY LenProperties DEF DotPaths
  <2>2. Len(path) # 0
    BY <2>1, EmptySeq
  <2>3. n \in Nat /\ Len(path) \in 1..Len(path) /\ \A m \in 1..n : m \in 1..Len(path)
    BY <2>1, <2>2
  <2>4. QED
    BY <2>1, <2>3, ElementOfSeq
<1>2. PICK way : Way(h, root, path, value, way)
  BY SetWay
<1> HIDE DEF n
<1> DEFINE Good(a) == /\ a = [heap |-> a.heap, ref |-> a.ref]
                      /\ Keeps(h, a.heap, lo)
                      /\ a.ref \in From(a.heap, lo)
           T == {m \in 0..n : Good(way[m])}
<1>3. T \in SUBSET (0..n) /\ 0 \in T
  <2>1. Keeps(h, h, lo)
    BY KeepsSelf
  <2>2. way[0] = [heap |-> h, ref |-> root]
    BY <1>2 DEF Way
  <2>3. Good(way[0])
    BY <2>1, <2>2
  <2> HIDE DEF Good
  <2>4. QED
    BY <1>1, <2>3
<1>4. ASSUME NEW m \in 0..n-1, m \in T PROVE m + 1 \in T
  <2>1. m + 1 \in 1..n /\ (m + 1) - 1 = m /\ m + 1 \in 0..n
    BY <1>1
  <2>2. way[m+1] = Enter(way[m], path[m+1])
    BY <1>2, <2>1 DEF Way, n
  <2> DEFINE a == way[m]
             b == way[m+1]
  <2>3. Good(a)
    BY <1>4
  <2> HIDE DEF a
  <2>4. /\ b = [heap |-> b.heap, ref |-> b.ref]
        /\ Keeps(a.heap, b.heap, lo)
        /\ b.ref \in From(b.heap, lo)
    <3> DEFINE k == a.heap
               r == a.ref
    <3>1. /\ IsHeap(k) /\ Closed(k, From(k, lo)) /\ r \in From(k, lo)
          /\ a = [heap |-> k, ref |-> r]
      BY <2>3 DEF Keeps
    <3>2. path[m+1] \in Fields
      BY <1>1, <2>1
    <3> HIDE DEF k, r
    <3>3. b = Enter([heap |-> k, ref |-> r], path[m+1])
      BY <2>2, <3>1 DEF a
    <3> HIDE DEF b
    <3>4. QED
      BY <3>1, <3>2, <3>3, EnterKeeps DEF k
  <2>5. Keeps(h, b.heap, lo)
    BY <2>3, <2>4, KeepsOn
  <2>6. Good(b)
    BY <2>4, <2>5
  <2> HIDE DEF Good
  <2>7. QED
    BY <2>1, <2>6
<1> DEFINE a == way[n]
<1>5. Good(a)
  <2> HIDE DEF T, Good
  <2>1. T = 0..n
    BY <1>1, <1>3, <1>4, Induction
  <2>2. n \in T
    BY <1>1, <2>1
  <2>3. QED
    BY <2>2 DEF T
<1> HIDE DEF a
<1>6. Fits(value, From(a.heap, lo))
  BY <1>5, KeepsRoot DEF Fits
<1>7. Keeps(a.heap, Put(a.heap, a.ref, path[Len(path)], value), lo)
  BY <1>1, <1>5, <1>6, PutKeeps DEF Keeps
<1>8. set_path(h, root, path, value) = Put(a.heap, a.ref, path[Len(path)], value)
  BY <1>2 DEF Way, n, a
<1>9. QED
  BY <1>5, <1>7, <1>8, KeepsOn

LEMMA DeleteKeeps ==
  ASSUME NEW h, IsHeap(h), NEW lo \in Nat \ {0}, Closed(h, From(h, lo)),
         NEW root \in From(h, lo), NEW path \in DotPaths
  PROVE  Keeps(h, delete_path(h, root, path), lo)
<1> DEFINE parent == Follow(h, root, Front(path))
<1>1. Front(path) \in Seq(Fields) /\ Last(path) \in Fields
  <2>1. path \in Seq(Fields) /\ path # <<>> /\ Len(path) \in Nat
    BY LenProperties DEF DotPaths
  <2>2. Len(path) # 0
    BY <2>1, EmptySeq
  <2>3. Len(path) \in 1..Len(path) /\ 1 \in 1..Len(path)+1 /\ Len(path)-1 \in 1-1..Len(path)
    BY <2>1, <2>2
  <2>4. Front(path) \in Seq(Fields)
    BY <2>1, <2>3, SubSeqProperties DEF Front
  <2>5. Last(path) \in Fields
    BY <2>1, <2>3, ElementOfSeq DEF Last
  <2>6. QED
    BY <2>4, <2>5
<1>2. Fits(parent, From(h, lo))
  BY <1>1, FollowFits
<1>3. delete_path(h, root, path) =
        IF IsDict(parent) THEN Put(h, parent.ref, Last(path), Missing) ELSE h
  BY DEF delete_path
<1> HIDE DEF parent
<1>4. CASE IsDict(parent)
  <2>1. parent.ref \in From(h, lo) /\ Fits(Missing, From(h, lo))
    BY <1>2, <1>4, ScalarsFit DEF Fits
  <2>2. Keeps(h, Put(h, parent.ref, Last(path), Missing), lo)
    BY <1>1, <2>1, PutKeeps
  <2>3. QED
    BY <1>3, <1>4, <2>2
<1>5. CASE ~IsDict(parent)
  BY <1>3, <1>5, KeepsSelf
<1>6. QED
  BY <1>4, <1>5

-----------------------------------------------------------------------------
(* Steps. *)

\* A step that was built: its paths are paths, and its literals are among the dicts refs.
Ready(c, refs) ==
  /\ c.type \in {"extract", "rename", "duplicate", "constant", "default", "cast", "trim",
                 "lookup", "concat", "split", "drop", "filter"}
  /\ c.type # "split" => c.target \in DotPaths
  /\ c.type \in {"extract", "rename", "duplicate", "lookup", "split"} => c.source \in DotPaths
  /\ c.type = "split" => c.targets \in Seq(DotPaths)
  /\ c.type \in {"constant", "default"} => Fits(c.value, refs)
  /\ c.type = "lookup" => \A w \in DOMAIN c.table : ~IsDict(c.table[w])

\* Where a step works.
At(h, root, lo) ==
  IsHeap(h) /\ lo \in Nat \ {0} /\ Closed(h, From(h, lo)) /\ root \in From(h, lo)

LEMMA GetFits ==
  ASSUME NEW h, NEW root, NEW lo, At(h, root, lo), NEW path \in DotPaths
  PROVE  Fits(get_path(h, root, path), From(h, lo))
BY FollowFits DEF At, DotPaths

LEMMA AssignKeeps ==
  ASSUME NEW h, NEW root, NEW lo, At(h, root, lo), NEW c, c.target \in DotPaths,
         NEW sources, NEW after, Fits(after, From(h, lo))
  PROVE  Keeps(h, Assign(h, root, c, sources, after).heap, lo)
<1>1. Assign(h, root, c, sources, after).heap = set_path(h, root, c.target, after)
  BY DEF Assign, Result
<1>2. QED
  BY <1>1, SetKeeps DEF At

LEMMA RenameKeeps ==
  ASSUME NEW h, NEW root, NEW lo, At(h, root, lo), NEW c,
         c.target \in DotPaths, c.source \in DotPaths
  PROVE  Keeps(h, RenameStep(h, root, c).heap, lo)
<1> DEFINE value == get_path(h, root, c.source)
           g == delete_path(h, root, c.source)
<1>1. Fits(value, From(h, lo))
  BY GetFits
<1>2. Keeps(h, g, lo)
  BY DeleteKeeps DEF At
<1>3. RenameStep(h, root, c).heap = set_path(g, root, c.target, value)
  BY DEF RenameStep, Result
<1> HIDE DEF value, g
<1>4. \A r \in From(h, lo) : r \in From(g, lo)
  BY <1>2, KeepsRoot DEF At
<1>5. root \in From(g, lo) /\ Fits(value, From(g, lo))
  BY <1>1, <1>4 DEF At, Fits
<1>6. Keeps(g, set_path(g, root, c.target, value), lo)
  BY <1>2, <1>5, SetKeeps DEF At, Keeps
<1>7. QED
  BY <1>2, <1>3, <1>6, KeepsOn DEF At

\* The heaps of a split.
Heaps(h, root, c, value, heaps) ==
  /\ heaps[0] = h
  /\ \A m \in 1..Len(c.targets) :
       heaps[m] = set_path(heaps[m-1], root, c.targets[m], Part(value, m))

LEMMA SplitWay ==
  ASSUME NEW h, NEW root, NEW c, NEW value, Len(c.targets) \in Nat
  PROVE  Heaps(h, root, c, value, SplitHeaps(h, root, c, value))
<1> DEFINE n == Len(c.targets)
           next(k, m) == set_path(k, root, c.targets[m], Part(value, m))
           Steps(f) == f = [m \in 0..n |->
                             IF m = 0 THEN h
                             ELSE set_path(f[m-1], root, c.targets[m], Part(value, m))]
           Upto(f, k) == f[0] = h /\ \A m \in 1..k : f[m] = next(f[m-1], m)
           heaps == CHOOSE f : Steps(f)
           T == {k \in 0..n : \E f : Upto(f, k)}
<1>1. n \in Nat
  OBVIOUS
<1>2. SplitHeaps(h, root, c, value) = heaps
  BY DEF SplitHeaps
<1> HIDE DEF n, next
<1>3. T \in SUBSET (0..n) /\ 0 \in T
  <2>1. Upto([m \in 0..0 |-> h], 0)
    OBVIOUS
  <2> HIDE DEF Upto
  <2>2. 0 \in 0..n
    BY <1>1
  <2>3. QED
    BY <2>1, <2>2
<1>4. ASSUME NEW k \in 0..n-1, k \in T PROVE k + 1 \in T
  <2>1. PICK f : Upto(f, k)
    BY <1>4
  <2>2. k \in Nat /\ k + 1 \in 0..n /\ (k + 1) - 1 = k
    BY <1>1
  <2> DEFINE g == [m \in 0..k+1 |-> IF m = k + 1 THEN next(f[k], k + 1) ELSE f[m]]
  <2>3. g[0] = h
    BY <2>1, <2>2
  <2>4. ASSUME NEW m \in 1..k+1 PROVE g[m] = next(g[m-1], m)
    <3>1. m - 1 \in 0..k+1 /\ m - 1 # k + 1 /\ m \in 0..k+1
      BY <2>2
    <3>2. g[m-1] = f[m-1]
      BY <3>1
    <3>3. CASE m = k + 1
      BY <2>2, <3>1, <3>2, <3>3
    <3>4. CASE m # k + 1
      <4>1. m \in 1..k
        BY <2>2, <3>4
      <4>2. f[m] = next(f[m-1], m)
        BY <2>1, <4>1
      <4>3. g[m] = f[m]
        BY <3>1, <3>4
      <4>4. QED
        BY <3>2, <4>2, <4>3
    <3>5. QED
      BY <3>3, <3>4
  <2>5. Upto(g, k + 1)
    <3> HIDE DEF g
    <3>1. QED
      BY <2>3, <2>4
  <2> HIDE DEF Upto, g
  <2>6. QED
    BY <2>2, <2>5
<1>5. PICK f : Upto(f, n)
  <2> HIDE DEF T, Upto
  <2>1. T = 0..n
    BY <1>1, <1>3, <1>4, Induction
  <2>2. n \in T
    BY <1>1, <2>1
  <2>3. QED
    BY <2>2 DEF T
<1> DEFINE g == [m \in 0..n |-> f[m]]
<1>6. Steps(g)
  <2>1. ASSUME NEW m \in 0..n PROVE f[m] = IF m = 0 THEN h ELSE next(g[m-1], m)
    <3>1. CASE m = 0
      BY <1>5, <3>1
    <3>2. CASE m # 0
      <4>1. m \in 1..n /\ m - 1 \in 0..n
        BY <1>1, <3>2
      <4>2. g[m-1] = f[m-1] /\ f[m] = next(f[m-1], m)
        BY <1>5, <4>1
      <4>3. QED
        BY <3>2, <4>2
    <3>3. QED
      BY <3>1, <3>2
  <2>2. g = [m \in 0..n |-> IF m = 0 THEN h ELSE next(g[m-1], m)]
    BY <2>1
  <2>3. QED
    BY <2>2 DEF next
<1>7. Steps(heaps)
  <2> HIDE DEF Steps
  <2>1. QED
    BY <1>6
<1> HIDE DEF heaps
<1>8. heaps = [m \in 0..n |-> IF m = 0 THEN h ELSE next(heaps[m-1], m)]
  BY <1>7 DEF next
<1>9. 0 \in 0..n /\ \A m \in 1..n : m \in 0..n /\ m # 0
  BY <1>1
<1>10. heaps[0] = h /\ \A m \in 1..n : heaps[m] = next(heaps[m-1], m)
  BY <1>8, <1>9
<1>11. QED
  BY <1>2, <1>10 DEF Heaps, n, next

LEMMA SplitKeeps ==
  ASSUME NEW h, NEW root, NEW lo, At(h, root, lo), NEW c, c.targets \in Seq(DotPaths)
  PROVE  Keeps(h, SplitStep(h, root, c).heap, lo)
<1> DEFINE n == Len(c.targets)
           value == get_path(h, root, c.source)
           heaps == SplitHeaps(h, root, c, value)
<1>1. n \in Nat /\ \A m \in 1..n : c.targets[m] \in DotPaths
  BY LenProperties, ElementOfSeq
<1>2. SplitStep(h, root, c).heap = heaps[n]
  BY DEF SplitStep, Result
<1>3. /\ heaps[0] = h
      /\ \A m \in 1..n : heaps[m] = set_path(heaps[m-1], root, c.targets[m], Part(value, m))
  <2> HIDE DEF value
  <2>1. Heaps(h, root, c, value, heaps)
    BY <1>1, SplitWay
  <2>2. QED
    BY <2>1 DEF Heaps
<1> HIDE DEF n, value, heaps
<1> DEFINE T == {m \in 0..n : Keeps(h, heaps[m], lo)}
<1>4. T \in SUBSET (0..n) /\ 0 \in T
  BY <1>1, <1>3, KeepsSelf DEF At
<1>5. ASSUME NEW m \in 0..n-1, m \in T PROVE m + 1 \in T
  <2>0. n \in Nat
    BY <1>1
  <2>1. m + 1 \in 1..n /\ (m + 1) - 1 = m /\ m + 1 \in 0..n
    BY <2>0
  <2> DEFINE g == heaps[m]
             after == Part(value, m + 1)
  <2>2. Keeps(h, g, lo)
    BY <1>5
  <2>3. heaps[m+1] = set_path(g, root, c.targets[m+1], after)
    BY <1>3, <2>1
  <2>4. Fits(after, From(g, lo))
    BY ScalarsFit DEF Part
  <2> HIDE DEF g, after
  <2>5. root \in From(g, lo)
    BY <2>2, KeepsRoot DEF At
  <2>6. Keeps(g, heaps[m+1], lo)
    BY <1>1, <2>1, <2>2, <2>3, <2>4, <2>5, SetKeeps DEF At, Keeps
  <2>7. Keeps(h, heaps[m+1], lo)
    BY <2>2, <2>6, KeepsOn DEF At
  <2>8. QED
    BY <2>1, <2>7
<1> HIDE DEF T
<1>6. T = 0..n
  BY <1>1, <1>4, <1>5, Induction
<1>7. n \in T
  BY <1>1, <1>6
<1>8. QED
  BY <1>2, <1>7 DEF T

\* Whatever a step does, it does to its record, and to what it makes for it.
LEMMA ApplyKeeps ==
  ASSUME NEW h, NEW root, NEW lo, At(h, root, lo), NEW c, Ready(c, From(h, lo)),
         apply(h, root, c) # Raised
  PROVE  Keeps(h, apply(h, root, c).heap, lo)
<1> DEFINE refs == From(h, lo)
<1>1. c.type # "split" => c.target \in DotPaths
  BY DEF Ready
<1>2. CASE c.type = "extract"
  <2>1. Fits(get_path(h, root, c.source), refs)
    BY <1>2, GetFits DEF Ready
  <2>2. apply(h, root, c) = ExtractStep(h, root, c)
    BY <1>2 DEF apply
  <2>3. QED
    BY <1>1, <1>2, <2>1, <2>2, AssignKeeps DEF ExtractStep
<1>3. CASE c.type = "rename"
  <2>1. apply(h, root, c) = RenameStep(h, root, c)
    BY <1>3 DEF apply
  <2>2. QED
    BY <1>1, <1>3, <2>1, RenameKeeps DEF Ready
<1>4. CASE c.type = "duplicate"
  <2>1. Fits(get_path(h, root, c.source), refs)
    BY <1>4, GetFits DEF Ready
  <2>2. apply(h, root, c) = DuplicateStep(h, root, c)
    BY <1>4 DEF apply
  <2>3. QED
    BY <1>1, <1>4, <2>1, <2>2, AssignKeeps DEF DuplicateStep
<1>5. CASE c.type = "constant"
  <2>1. apply(h, root, c) = ConstantStep(h, root, c)
    BY <1>5 DEF apply
  <2>2. QED
    BY <1>1, <1>5, <2>1, AssignKeeps DEF ConstantStep, Ready
<1>6. CASE c.type = "default"
  <2>1. apply(h, root, c) = DefaultStep(h, root, c)
    BY <1>6 DEF apply
  <2>2. CASE get_path(h, root, c.target) # None
    <3>1. DefaultStep(h, root, c).heap = h
      BY <2>2 DEF DefaultStep, Result
    <3>2. QED
      BY <2>1, <3>1, KeepsSelf DEF At
  <2>3. CASE get_path(h, root, c.target) = None
    <3>1. DefaultStep(h, root, c) = Assign(h, root, c, <<>>, c.value)
      BY <2>3 DEF DefaultStep
    <3>2. QED
      BY <1>1, <1>6, <2>1, <3>1, AssignKeeps DEF Ready
  <2>4. QED
    BY <2>2, <2>3
<1>7. CASE c.type = "cast"
  <2> DEFINE v == get_path(h, root, c.target)
             after == Coerce(v, c.to)
  <2>1. apply(h, root, c) = CastStep(h, root, c)
    BY <1>7 DEF apply
  <2>2. CastStep(h, root, c) =
          IF after = Raised THEN Raised ELSE Assign(h, root, c, <<c.target>>, after)
    BY DEF CastStep
  <2>3. Fits(v, refs)
    BY <1>1, <1>7, GetFits
  <2> HIDE DEF v
  <2>4. after # Raised => Fits(after, refs)
    BY <2>3, ScalarsFit DEF Coerce
  <2> HIDE DEF after
  <2>5. after # Raised
    BY <2>1, <2>2
  <2>6. QED
    BY <1>1, <1>7, <2>1, <2>2, <2>4, <2>5, AssignKeeps
<1>8. CASE c.type = "trim"
  <2> DEFINE before == get_path(h, root, c.target)
             bare == Strip(before.text)
             after == IF ~IsText(before) THEN before
                      ELSE IF Len(bare) = 1 /\ bare[1] \in DOMAIN Unquoted
                           THEN Text(<<Unquoted[bare[1]]>>) ELSE Text(bare)
  <2>1. apply(h, root, c) = TrimStep(h, root, c)
    BY <1>8 DEF apply
  <2>2. TrimStep(h, root, c) = Assign(h, root, c, <<c.target>>, after)
    BY DEF TrimStep
  <2>3. Fits(before, refs)
    BY <1>1, <1>8, GetFits
  <2> HIDE DEF before, bare
  <2>4. Fits(after, refs)
    BY <2>3, ScalarsFit
  <2> HIDE DEF after
  <2>5. QED
    BY <1>1, <1>8, <2>1, <2>2, <2>4, AssignKeeps
<1>9. CASE c.type = "lookup"
  <2> DEFINE value == get_path(h, root, c.source)
             after == IF Words(value) \in DOMAIN c.table THEN c.table[Words(value)]
                      ELSE IF c.keep THEN value ELSE None
  <2>1. apply(h, root, c) = LookupStep(h, root, c)
    BY <1>9 DEF apply
  <2>2. LookupStep(h, root, c) = Assign(h, root, c, <<c.source>>, after)
    BY DEF LookupStep
  <2>3. Fits(value, refs)
    BY <1>9, GetFits DEF Ready
  <2> HIDE DEF value
  <2>4. Fits(after, refs)
    BY <1>9, <2>3, ScalarsFit DEF Ready, Fits
  <2> HIDE DEF after
  <2>5. QED
    BY <1>1, <1>9, <2>1, <2>2, <2>4, AssignKeeps
<1>10. CASE c.type = "concat"
  <2>1. apply(h, root, c) = ConcatStep(h, root, c)
    BY <1>10 DEF apply
  <2>2. PICK words : ConcatStep(h, root, c) = Assign(h, root, c, c.sources, Text(words))
    BY DEF ConcatStep
  <2>3. QED
    BY <1>1, <1>10, <2>1, <2>2, ScalarsFit, AssignKeeps
<1>11. CASE c.type = "split"
  <2>1. apply(h, root, c) = SplitStep(h, root, c)
    BY <1>11 DEF apply
  <2>2. QED
    BY <1>11, <2>1, SplitKeeps DEF Ready
<1>12. CASE c.type = "drop"
  <2>1. apply(h, root, c) = DropStep(h, root, c)
    BY <1>12 DEF apply
  <2>2. DropStep(h, root, c).heap = delete_path(h, root, c.target)
    BY DEF DropStep, Result
  <2>3. QED
    BY <1>1, <1>12, <2>1, <2>2, DeleteKeeps DEF At
<1>13. CASE c.type = "filter"
  <2>1. apply(h, root, c) = FilterStep(h, root, c)
    BY <1>13 DEF apply
  <2>2. FilterStep(h, root, c).heap = h
    BY <2>1 DEF FilterStep
  <2>3. QED
    BY <2>1, <2>2, KeepsSelf DEF At
<1>14. QED
  BY <1>2, <1>3, <1>4, <1>5, <1>6, <1>7, <1>8, <1>9, <1>10, <1>11, <1>12, <1>13 DEF Ready

-----------------------------------------------------------------------------
(* The literals, and the steps that are built with them. *)

LEMMA AppendFacts ==
  ASSUME NEW s, s \in Seq(ToSet(s)), NEW e
  PROVE  LET t == Append(s, e)
         IN /\ t \in Seq(ToSet(t)) /\ Len(s) \in Nat /\ Len(t) = Len(s) + 1
            /\ DOMAIN s = 1..Len(s) /\ DOMAIN t = 1..Len(s)+1
            /\ \A i \in 1..Len(s) : t[i] = s[i]
            /\ t[Len(s)+1] = e
<1> DEFINE n == Len(s)
           S == ToSet(s) \cup {e}
           t == Append(s, e)
<1>1. n \in Nat /\ DOMAIN s = 1..n /\ s \in [1..n -> ToSet(s)]
  BY LenProperties
<1> HIDE DEF n
<1>2. s \in Seq(S) /\ e \in S
  <2>1. \A i \in 1..n : s[i] \in ToSet(s)
    BY <1>1
  <2>2. s \in [1..n -> S]
    BY <1>1, <2>1
  <2> HIDE DEF S
  <2>3. s \in Seq(S)
    BY <1>1, <2>2, SeqDef
  <2>4. QED
    BY <2>3 DEF S
<1> HIDE DEF S
<1>3. /\ t \in Seq(S) /\ Len(t) = n + 1
      /\ \A i \in 1..n : t[i] = s[i]
      /\ t[n+1] = e
  BY <1>2, AppendProperties DEF n
<1> HIDE DEF t
<1>4. n + 1 \in Nat /\ t \in [1..n+1 -> S] /\ DOMAIN t = 1..n+1
  <2>1. n + 1 \in Nat
    BY <1>1
  <2>2. QED
    BY <1>3, <2>1, LenProperties
<1>5. \A i \in 1..n+1 : t[i] \in ToSet(t)
  BY <1>4 DEF ToSet
<1>6. t \in [1..n+1 -> ToSet(t)]
  <2> DEFINE R == ToSet(t)
  <2>1. \A i \in 1..n+1 : t[i] \in R
    BY <1>5
  <2> HIDE DEF R
  <2>2. t \in [1..n+1 -> R]
    BY <1>4, <2>1
  <2>3. QED
    BY <2>2 DEF R
<1>7. t \in Seq(ToSet(t))
  BY <1>4, <1>6, SeqDef
<1>8. QED
  BY <1>1, <1>3, <1>4, <1>7 DEF n, t

LEMMA EmptyHeap == IsHeap(<<>>) /\ Len(<<>>) = 0
<1>1. <<>> \in Seq(ToSet(<<>>)) /\ Len(<<>>) = 0
  BY EmptySeq
<1>2. DOMAIN <<>> = {}
  OBVIOUS
<1>3. QED
  BY <1>1, <1>2 DEF IsHeap

\* The literals, config by config.
Filled(configs, heaps) ==
  /\ heaps[0] = <<>>
  /\ \A m \in 1..Len(configs) :
       heaps[m] = IF HasTree(configs[m]) THEN CopyTo(heaps[m-1], configs[m].value.tree)
                  ELSE heaps[m-1]

LEMMA LiteralsWay ==
  ASSUME NEW configs, Len(configs) \in Nat
  PROVE  Filled(configs, Literals(configs))
<1> DEFINE n == Len(configs)
           next(k, m) == IF HasTree(configs[m]) THEN CopyTo(k, configs[m].value.tree) ELSE k
           Steps(f) == f = [m \in 0..n |->
                             IF m = 0 THEN <<>>
                             ELSE IF HasTree(configs[m]) THEN CopyTo(f[m-1], configs[m].value.tree)
                             ELSE f[m-1]]
           Upto(f, k) == f[0] = <<>> /\ \A m \in 1..k : f[m] = next(f[m-1], m)
           heaps == CHOOSE f : Steps(f)
           T == {k \in 0..n : \E f : Upto(f, k)}
<1>1. n \in Nat
  OBVIOUS
<1>2. Literals(configs) = heaps
  BY DEF Literals
<1> HIDE DEF n, next
<1>3. T \in SUBSET (0..n) /\ 0 \in T
  <2>1. Upto([m \in 0..0 |-> <<>>], 0)
    OBVIOUS
  <2> HIDE DEF Upto
  <2>2. 0 \in 0..n
    BY <1>1
  <2>3. QED
    BY <2>1, <2>2
<1>4. ASSUME NEW k \in 0..n-1, k \in T PROVE k + 1 \in T
  <2>1. PICK f : Upto(f, k)
    BY <1>4
  <2>2. k \in Nat /\ k + 1 \in 0..n /\ (k + 1) - 1 = k
    BY <1>1
  <2> DEFINE g == [m \in 0..k+1 |-> IF m = k + 1 THEN next(f[k], k + 1) ELSE f[m]]
  <2>3. g[0] = <<>>
    BY <2>1, <2>2
  <2>4. ASSUME NEW m \in 1..k+1 PROVE g[m] = next(g[m-1], m)
    <3>1. m - 1 \in 0..k+1 /\ m - 1 # k + 1 /\ m \in 0..k+1
      BY <2>2
    <3>2. g[m-1] = f[m-1]
      BY <3>1
    <3>3. CASE m = k + 1
      BY <2>2, <3>1, <3>2, <3>3
    <3>4. CASE m # k + 1
      <4>1. m \in 1..k
        BY <2>2, <3>4
      <4>2. f[m] = next(f[m-1], m)
        BY <2>1, <4>1
      <4>3. g[m] = f[m]
        BY <3>1, <3>4
      <4>4. QED
        BY <3>2, <4>2, <4>3
    <3>5. QED
      BY <3>3, <3>4
  <2>5. Upto(g, k + 1)
    <3> HIDE DEF g
    <3>1. QED
      BY <2>3, <2>4
  <2> HIDE DEF Upto, g
  <2>6. QED
    BY <2>2, <2>5
<1>5. PICK f : Upto(f, n)
  <2> HIDE DEF T, Upto
  <2>1. T = 0..n
    BY <1>1, <1>3, <1>4, Induction
  <2>2. n \in T
    BY <1>1, <2>1
  <2>3. QED
    BY <2>2 DEF T
<1> DEFINE g == [m \in 0..n |-> f[m]]
<1>6. Steps(g)
  <2>1. ASSUME NEW m \in 0..n PROVE f[m] = IF m = 0 THEN <<>> ELSE next(g[m-1], m)
    <3>1. CASE m = 0
      BY <1>5, <3>1
    <3>2. CASE m # 0
      <4>1. m \in 1..n /\ m - 1 \in 0..n
        BY <1>1, <3>2
      <4>2. g[m-1] = f[m-1] /\ f[m] = next(f[m-1], m)
        BY <1>5, <4>1
      <4>3. QED
        BY <3>2, <4>2
    <3>3. QED
      BY <3>1, <3>2
  <2>2. g = [m \in 0..n |-> IF m = 0 THEN <<>> ELSE next(g[m-1], m)]
    BY <2>1
  <2>3. QED
    BY <2>2 DEF next
<1>7. Steps(heaps)
  <2> HIDE DEF Steps
  <2>1. QED
    BY <1>6
<1> HIDE DEF heaps
<1>8. heaps = [m \in 0..n |-> IF m = 0 THEN <<>> ELSE next(heaps[m-1], m)]
  BY <1>7 DEF next
<1>9. 0 \in 0..n /\ \A m \in 1..n : m \in 0..n /\ m # 0
  BY <1>1
<1>10. heaps[0] = <<>> /\ \A m \in 1..n : heaps[m] = next(heaps[m-1], m)
  BY <1>8, <1>9
<1>11. QED
  BY <1>2, <1>10 DEF Filled, n, next

\* A copy leaves closed what was closed.
LEMMA CopyCloses ==
  ASSUME NEW h, IsHeap(h), Closed(h, From(h, 1)), NEW document, IsDocument(document)
  PROVE  LET g == CopyTo(h, document)
         IN IsHeap(g) /\ Len(h) < Len(g) /\ Closed(g, From(g, 1)) /\ Closed(g, 1..Len(h))
<1> DEFINE g == CopyTo(h, document)
<1>1. /\ IsHeap(g) /\ Len(g) = Len(h) + Len(document) /\ Len(document) \in Nat \ {0}
      /\ \A r \in 1..Len(h) : g[r] = h[r]
      /\ Closed(g, Len(h)+1..Len(g))
  BY CopyFacts
<1>2. Len(h) \in Nat /\ Len(g) \in Nat /\ Len(h) < Len(g)
  BY <1>1, HeapFacts
<1> HIDE DEF g
<1>3. Closed(g, 1..Len(h))
  BY <1>1 DEF Closed, From
<1>4. Closed(g, From(g, 1))
  <2>1. ASSUME NEW r \in From(g, 1), NEW f \in Fields, IsDict(g[r][f])
        PROVE  g[r][f].ref \in From(g, 1)
    <3>1. r \in 1..Len(h) \/ r \in Len(h)+1..Len(g)
      BY <1>2 DEF From
    <3>2. g[r][f].ref \in 1..Len(h) \/ g[r][f].ref \in Len(h)+1..Len(g)
      BY <1>1, <1>3, <2>1, <3>1 DEF Closed
    <3>3. QED
      BY <1>2, <3>2 DEF From
  <2>2. QED
    BY <2>1 DEF Closed
<1>5. QED
  BY <1>1, <1>2, <1>3, <1>4 DEF g

\* The dicts of the first m configs, and a config's own among them.
LiteralsAt(configs, m) ==
  LET h == Literals(configs)[m]
  IN /\ IsHeap(h) /\ Closed(h, From(h, 1))
     /\ \A i \in 1..m : HasTree(configs[i]) => Len(Literals(configs)[i-1]) + 1 \in From(h, 1)

LEMMA LiteralsHeap ==
  ASSUME NEW configs, Len(configs) \in Nat, \A i \in 1..Len(configs) : IsConfig(configs[i])
  PROVE  LiteralsAt(configs, Len(configs))
<1> DEFINE n == Len(configs)
           heaps == Literals(configs)
           T == {m \in 0..n : LiteralsAt(configs, m)}
<1>1. n \in Nat /\ Filled(configs, heaps)
  BY LiteralsWay
<1>2. T \in SUBSET (0..n) /\ 0 \in T
  <2>1. heaps[0] = <<>> /\ 0 \in 0..n
    BY <1>1 DEF Filled
  <2>2. Closed(heaps[0], From(heaps[0], 1))
    BY <2>1, EmptyHeap DEF Closed, From
  <2>3. IsHeap(heaps[0])
    BY <2>1, EmptyHeap
  <2>4. LiteralsAt(configs, 0)
    BY <2>2, <2>3 DEF LiteralsAt
  <2>5. QED
    BY <2>1, <2>4
<1>3. ASSUME NEW m \in 0..n-1, m \in T PROVE m + 1 \in T
  <2>1. m \in Nat /\ m + 1 \in 1..n /\ m + 1 \in 0..n /\ (m + 1) - 1 = m
    BY <1>1
  <2> DEFINE h == heaps[m]
             g == heaps[m+1]
             c == configs[m+1]
  <2>2. LiteralsAt(configs, m)
    BY <1>3
  <2>3. /\ IsHeap(h) /\ Closed(h, From(h, 1))
        /\ \A i \in 1..m : HasTree(configs[i]) => Len(heaps[i-1]) + 1 \in From(h, 1)
    BY <2>2 DEF LiteralsAt
  <2>4. g = IF HasTree(c) THEN CopyTo(h, c.value.tree) ELSE h
    BY <1>1, <2>1 DEF Filled
  <2>5. HasTree(c) => IsDocument(c.value.tree)
    BY <2>1 DEF IsConfig, HasTree
  <2>6. LiteralsAt(configs, m + 1)
    <3>1. /\ IsHeap(g) /\ Closed(g, From(g, 1)) /\ Len(h) \in Nat /\ Len(g) \in Nat
          /\ Len(h) <= Len(g) /\ (HasTree(c) => Len(h) < Len(g))
      <4> HIDE DEF h, g, c, heaps
      <4>1. CASE HasTree(c)
        BY <2>3, <2>4, <2>5, <4>1, CopyCloses, HeapFacts
      <4>2. CASE ~HasTree(c)
        BY <2>3, <2>4, <4>2, HeapFacts
      <4>3. QED
        BY <4>1, <4>2
    <3>2. ASSUME NEW i \in 1..m+1, HasTree(configs[i])
          PROVE  Len(heaps[i-1]) + 1 \in From(g, 1)
      <4>1. CASE i = m + 1
        <5>1. Len(heaps[i-1]) + 1 = Len(h) + 1 /\ HasTree(c)
          BY <2>1, <3>2, <4>1
        <5> HIDE DEF h, g, c, heaps
        <5>2. QED
          BY <3>1, <5>1 DEF From
      <4>2. CASE i # m + 1
        <5>1. i \in 1..m
          BY <2>1, <4>2
        <5>2. Len(heaps[i-1]) + 1 \in From(h, 1)
          BY <2>3, <3>2, <5>1
        <5> HIDE DEF h, g, c, heaps
        <5>3. QED
          BY <3>1, <5>2 DEF From
      <4>3. QED
        BY <4>1, <4>2
    <3>3. QED
      BY <3>1, <3>2 DEF LiteralsAt
  <2>7. QED
    BY <2>1, <2>6
<1> HIDE DEF T
<1>4. T = 0..n
  BY <1>1, <1>2, <1>3, Induction
<1>5. n \in T
  BY <1>1, <1>4
<1>6. QED
  BY <1>5 DEF T

\* A step built refers to the literals only, and to nothing when no config has a dict.
LEMMA BuildReady ==
  ASSUME NEW configs, configs \in Seq(ToSet(configs)),
         \A i \in DOMAIN configs : IsConfig(configs[i])
  PROVE  LET h == Literals(configs)[Len(configs)]
         IN /\ IsHeap(h) /\ Closed(h, From(h, 1))
            /\ Len(configs) \in Nat /\ Len(Build(configs)) = Len(configs)
            /\ \A i \in 1..Len(configs) : Ready(Build(configs)[i], From(h, 1))
            /\ (\A i \in DOMAIN configs : ~HasTree(configs[i])) =>
                  \A i \in 1..Len(configs) : \A refs : Ready(Build(configs)[i], refs)
<1> DEFINE n == Len(configs)
           h == Literals(configs)[n]
           b == Build(configs)
<1>1. n \in Nat /\ DOMAIN configs = 1..n
  BY LenProperties
<1>2. LiteralsAt(configs, n)
  BY <1>1, LiteralsHeap
<1>3. /\ IsHeap(h) /\ Closed(h, From(h, 1))
      /\ \A i \in 1..n : HasTree(configs[i]) => Len(Literals(configs)[i-1]) + 1 \in From(h, 1)
  BY <1>2 DEF LiteralsAt
<1>4. Len(b) = n
  <2>1. DOMAIN b = 1..n
    BY <1>1 DEF Build
  <2>2. b = [i \in 1..n |-> b[i]]
    BY <1>1 DEF Build
  <2> HIDE DEF b, n
  <2> DEFINE S == {b[i] : i \in 1..n}
  <2>3. \A i \in 1..n : b[i] \in S
    OBVIOUS
  <2> HIDE DEF S
  <2>4. b \in Seq(S)
    <3>1. b \in [1..n -> S]
      BY <2>2, <2>3
    <3>2. QED
      BY <1>1, <3>1, SeqDef
  <2>5. QED
    BY <1>1, <2>1, <2>4, LenProperties
<1>5. ASSUME NEW i \in 1..n, ~HasTree(configs[i]), NEW refs PROVE Ready(b[i], refs)
  <2> DEFINE c == configs[i]
  <2>1. b[i] = c
    BY <1>1, <1>5 DEF Build
  <2>2. IsConfig(c) /\ ~HasTree(c)
    BY <1>1, <1>5
  <2> HIDE DEF c, b
  <2>3. Ready(c, refs)
    BY <2>2 DEF IsConfig, Ready, Fits
  <2>4. QED
    BY <2>1, <2>3
<1>6. ASSUME NEW i \in 1..n, HasTree(configs[i]) PROVE Ready(b[i], From(h, 1))
  <2> DEFINE c == configs[i]
             ref == Len(Literals(configs)[i-1]) + 1
             step == [c EXCEPT !.value = Dict(ref)]
  <2>1. b[i] = step
    BY <1>1, <1>6 DEF Build
  <2>2. IsConfig(c) /\ HasTree(c) /\ ref \in From(h, 1)
    BY <1>1, <1>3, <1>6
  <2>3. c.type \in {"constant", "default"}
    BY <2>2 DEF HasTree
  <2> HIDE DEF c, ref, b, h
  <2>4. DOMAIN c = {"type", "target", "value"} /\ c.target \in DotPaths
    BY <2>2, <2>3 DEF IsConfig
  <2>5. step.type = c.type /\ step.target = c.target /\ step.value = Dict(ref)
    BY <2>4
  <2> HIDE DEF step
  <2>6. Fits(step.value, From(h, 1))
    BY <2>2, <2>5, DictIs DEF Fits
  <2>7. Ready(step, From(h, 1))
    BY <2>3, <2>4, <2>5, <2>6 DEF Ready
  <2>8. QED
    BY <2>1, <2>7
<1>7. \A i \in 1..n : Ready(b[i], From(h, 1))
  <2> HIDE DEF b, h, n
  <2>1. QED
    BY <1>5, <1>6
<1>8. (\A i \in DOMAIN configs : ~HasTree(configs[i])) =>
         \A i \in 1..n : \A refs : Ready(b[i], refs)
  <2> HIDE DEF b
  <2>1. QED
    BY <1>1, <1>5
<1>9. QED
  BY <1>1, <1>3, <1>4, <1>7, <1>8

-----------------------------------------------------------------------------
(* What a reader sees of a record depends on its dicts only. *)

LEMMA ShownSame ==
  ASSUME NEW h, NEW g, NEW refs, Closed(h, refs), \A r \in refs : g[r] = h[r],
         NEW root \in refs
  PROVE  Shown(g, root) = Shown(h, root)
<1>1. ASSUME NEW p \in Paths PROVE Leaf(g, root, p) = Leaf(h, root, p)
  <2>1. p \in Seq(Fields)
    <3>1. PICK n \in 1..MaxDepth : p \in [1..n -> Fields]
      BY DEF Paths
    <3>2. n \in Nat
      BY RecordAssumption
    <3>3. QED
      BY <3>1, <3>2, SeqDef
  <2>2. Follow(g, root, p) = Follow(h, root, p)
    BY <2>1, FollowSame
  <2>3. get_path(g, root, p) = get_path(h, root, p)
    BY <2>2 DEF get_path, has_path
  <2>4. QED
    BY <2>3 DEF Leaf
<1>2. QED
  BY <1>1 DEF Shown

\* What a config refers to may be among more.
LEMMA ReadyAmong ==
  ASSUME NEW c, NEW refs, NEW more, refs \subseteq more, Ready(c, refs)
  PROVE  Ready(c, more)
BY DEF Ready, Fits

-----------------------------------------------------------------------------
(* What the paths of a step name. *)

\* The first k segments of a path lead to the k-th value on it.
LEMMA WalkPrefix ==
  ASSUME NEW h, NEW refs, Closed(h, refs), NEW root \in refs, NEW path \in Seq(Fields),
         NEW at, Walk(h, root, path, refs, at), NEW k \in 0..Len(path)
  PROVE  Follow(h, root, SubSeq(path, 1, k)) = at[k]
<1> DEFINE p == SubSeq(path, 1, k)
           n == Len(path)
<1>1. n \in Nat /\ k \in Nat /\ k \in 0..n
  BY LenProperties
<1>2. p \in Seq(Fields) /\ Len(p) = k /\ \A m \in 1..k : p[m] = path[m]
  <2>1. \A m \in 1..k : path[m] \in Fields
    BY <1>1, ElementOfSeq
  <2>2. /\ p \in Seq(Fields)
        /\ Len(p) = IF 1 <= k THEN k-1+1 ELSE 0
        /\ \A m \in 1..k-1+1 : p[m] = path[1+m-1]
    BY <1>1, <2>1, SubSeqProperties
  <2> HIDE DEF p
  <2>3. k-1+1 = k /\ \A m \in 1..k : 1+m-1 = m
    BY <1>1
  <2>4. QED
    BY <1>1, <2>2, <2>3
<1>3. \A m \in 1..k : m \in 1..n
  BY <1>1
<1> HIDE DEF p, n
<1>4. PICK to : Walk(h, root, p, refs, to)
  BY <1>2, FollowWalk
<1> DEFINE T == {m \in 0..k : at[m] = to[m]}
<1>5. T \in SUBSET (0..k) /\ 0 \in T
  BY <1>1, <1>4 DEF Walk
<1>6. ASSUME NEW m \in 0..k-1, m \in T PROVE m + 1 \in T
  <2>1. m + 1 \in 1..k /\ (m + 1) - 1 = m /\ m + 1 \in 0..k
    BY <1>1
  <2>2. /\ at[m+1] = IF IsDict(at[m]) THEN h[at[m].ref][path[m+1]] ELSE Missing
        /\ to[m+1] = IF IsDict(to[m]) THEN h[to[m].ref][p[m+1]] ELSE Missing
    BY <1>2, <1>3, <1>4, <2>1 DEF Walk, n
  <2>3. at[m] = to[m]
    BY <1>6
  <2>4. at[m+1] = to[m+1]
    BY <1>2, <2>1, <2>2, <2>3
  <2>5. QED
    BY <2>1, <2>4
<1> HIDE DEF T
<1>7. T = 0..k
  BY <1>1, <1>5, <1>6, Induction
<1>8. at[k] = to[k]
  <2>1. k \in 0..k
    BY <1>1
  <2>2. QED
    BY <1>7, <2>1 DEF T
<1>9. QED
  BY <1>2, <1>4, <1>8 DEF Walk, p

\* One segment further.
LEMMA FollowOn ==
  ASSUME NEW h, NEW refs, Closed(h, refs), NEW root \in refs, NEW path \in Seq(Fields),
         NEW k \in 0..Len(path)-1
  PROVE  LET v == Follow(h, root, SubSeq(path, 1, k))
         IN /\ Fits(v, refs)
            /\ Follow(h, root, SubSeq(path, 1, k+1)) =
                 IF IsDict(v) THEN h[v.ref][path[k+1]] ELSE Missing
<1>1. PICK at : Walk(h, root, path, refs, at)
  BY FollowWalk
<1>2. Len(path) \in Nat
  BY LenProperties
<1>3. k \in 0..Len(path) /\ k + 1 \in 0..Len(path) /\ k + 1 \in 1..Len(path) /\ (k + 1) - 1 = k
  BY <1>2
<1>4. /\ Follow(h, root, SubSeq(path, 1, k)) = at[k]
      /\ Follow(h, root, SubSeq(path, 1, k+1)) = at[k+1]
  BY <1>1, <1>3, WalkPrefix
<1>5. at[k+1] = IF IsDict(at[k]) THEN h[at[k].ref][path[k+1]] ELSE Missing
  BY <1>1, <1>3 DEF Walk
<1>6. Fits(at[k], refs)
  BY <1>1, <1>3 DEF Walk
<1>7. QED
  BY <1>4, <1>5, <1>6

\* No segments lead to the root.
LEMMA FollowNone ==
  ASSUME NEW h, NEW root, NEW path \in Seq(Fields)
  PROVE  Follow(h, root, SubSeq(path, 1, 0)) = Dict(root)
<1>1. SubSeq(path, 1, 0) = <<>>
  BY SubSeqEmpty
<1>2. Len(<<>>) = 0
  BY EmptySeq
<1> DEFINE Steps(f) == f = [m \in 0..0 |->
                             IF m = 0 THEN Dict(root)
                             ELSE LET v == f[m-1]
                                  IN IF IsDict(v) THEN h[v.ref][<<>>[m]] ELSE Missing]
           at == CHOOSE f : Steps(f)
<1>3. Follow(h, root, <<>>) = at[0]
  BY <1>2 DEF Follow
<1>4. Steps([m \in 0..0 |-> Dict(root)])
  OBVIOUS
<1>5. Steps(at)
  <2> HIDE DEF Steps
  <2>1. QED
    BY <1>4
<1> HIDE DEF at
<1>6. at[0] = Dict(root)
  BY <1>5
<1>7. QED
  BY <1>1, <1>3, <1>6

\* Each field of a dict of h that g has changed is on one of the paths.
Covers(h, g, root, paths) ==
  \A s \in 1..Len(h) : \A f \in Fields :
     g[s][f] # h[s][f] => \E p \in paths : Uses(h, root, p, s, f)

\* In g, the dicts of h are where they were in h, if they are there at all.
Fewer(h, g) ==
  \A s \in 1..Len(g) : \A f \in Fields :
     IsDict(g[s][f]) /\ g[s][f].ref \in 1..Len(h) => s \in 1..Len(h) /\ g[s][f] = h[s][f]

LEMMA SelfCovers ==
  ASSUME NEW h, NEW root, NEW paths
  PROVE  Covers(h, h, root, paths) /\ Fewer(h, h)
BY DEF Covers, Fewer

LEMMA PutCovers ==
  ASSUME NEW h, IsHeap(h), NEW g, IsHeap(g), Len(h) <= Len(g), NEW root, NEW paths,
         Covers(h, g, root, paths), NEW r \in 1..Len(g), NEW field \in Fields, NEW value,
         r \in 1..Len(h) => \E p \in paths : Uses(h, root, p, r, field)
  PROVE  LET k == Put(g, r, field, value)
         IN /\ Covers(h, k, root, paths)
            /\ Fewer(h, g) /\ (IsDict(value) => value.ref \notin 1..Len(h)) => Fewer(h, k)
<1> DEFINE k == Put(g, r, field, value)
<1>1. /\ IsHeap(k) /\ Len(k) = Len(g)
      /\ \A s \in 1..Len(g) : \A f \in Fields :
           k[s][f] = IF s = r /\ f = field THEN value ELSE g[s][f]
  BY PutFacts
<1> HIDE DEF k
<1>2. \A s \in 1..Len(h) : s \in 1..Len(g)
  <2>1. Len(h) \in Nat /\ Len(g) \in Nat
    BY HeapFacts
  <2>2. QED
    BY <2>1
<1>3. Covers(h, k, root, paths)
  <2>1. ASSUME NEW s \in 1..Len(h), NEW f \in Fields, k[s][f] # h[s][f]
        PROVE  \E p \in paths : Uses(h, root, p, s, f)
    <3>1. CASE s = r /\ f = field
      BY <3>1
    <3>2. CASE ~(s = r /\ f = field)
      <4>1. k[s][f] = g[s][f]
        BY <1>1, <1>2, <3>2
      <4>2. QED
        BY <2>1, <4>1 DEF Covers
    <3>3. QED
      BY <3>1, <3>2
  <2>2. QED
    BY <2>1 DEF Covers
<1>4. ASSUME Fewer(h, g), IsDict(value) => value.ref \notin 1..Len(h) PROVE Fewer(h, k)
  <2>1. ASSUME NEW s \in 1..Len(g), NEW f \in Fields, IsDict(k[s][f]), k[s][f].ref \in 1..Len(h)
        PROVE  s \in 1..Len(h) /\ k[s][f] = h[s][f]
    <3>1. CASE s = r /\ f = field
      BY <1>1, <1>4, <2>1, <3>1
    <3>2. CASE ~(s = r /\ f = field)
      <4>1. k[s][f] = g[s][f]
        BY <1>1, <3>2
      <4>2. QED
        BY <1>4, <2>1, <4>1 DEF Fewer
    <3>3. QED
      BY <3>1, <3>2
  <2>2. QED
    BY <1>1, <2>1 DEF Fewer
<1>5. QED
  BY <1>3, <1>4 DEF k

LEMMA GrowCovers ==
  ASSUME NEW h, IsHeap(h), NEW g, IsHeap(g), Len(h) <= Len(g), NEW root, NEW paths,
         Covers(h, g, root, paths), Fewer(h, g)
  PROVE  LET k == Append(g, EmptyDict) IN Covers(h, k, root, paths) /\ Fewer(h, k)
<1> DEFINE k == Append(g, EmptyDict)
<1>1. /\ IsHeap(k) /\ Len(k) = Len(g) + 1
      /\ \A s \in 1..Len(g) : k[s] = g[s]
      /\ \A f \in Fields : k[Len(g) + 1][f] = Missing
  BY GrowFacts
<1> HIDE DEF k
<1>2. Len(h) \in Nat /\ Len(g) \in Nat /\ \A s \in 1..Len(h) : s \in 1..Len(g)
  <2>1. Len(h) \in Nat /\ Len(g) \in Nat
    BY HeapFacts
  <2>2. QED
    BY <2>1
<1>3. Covers(h, k, root, paths)
  BY <1>1, <1>2 DEF Covers
<1>4. ASSUME NEW s \in 1..Len(k), NEW f \in Fields, IsDict(k[s][f]), k[s][f].ref \in 1..Len(h)
      PROVE  s \in 1..Len(h) /\ k[s][f] = h[s][f]
  <2>1. CASE s \in 1..Len(g)
    BY <1>1, <1>4, <2>1 DEF Fewer
  <2>2. CASE s \notin 1..Len(g)
    <3>1. s = Len(g) + 1
      BY <1>1, <1>2, <2>2
    <3>2. QED
      BY <1>1, <1>4, <3>1 DEF IsDict, Missing
  <2>3. QED
    BY <2>1, <2>2
<1>5. QED
  BY <1>3, <1>4 DEF k, Fewer

\* The m-th dict on the way to what is set: where the path leads to, until there is nothing
\* there, and then one that was made.
OnWay(h, root, path, m, a) ==
  /\ a = [heap |-> a.heap, ref |-> a.ref]
  /\ Keeps(h, a.heap, 1) /\ a.ref \in From(a.heap, 1)
  /\ Covers(h, a.heap, root, {path}) /\ Fewer(h, a.heap)
  /\ \/ /\ a.heap = h
        /\ IsDict(Follow(h, root, SubSeq(path, 1, m)))
        /\ Follow(h, root, SubSeq(path, 1, m)).ref = a.ref
     \/ a.ref \notin 1..Len(h) /\ \A f \in Fields : ~IsDict(a.heap[a.ref][f])

\* What is put there next is on the path.
LEMMA OnWayUses ==
  ASSUME NEW h, NEW root, NEW path \in DotPaths, NEW m \in 0..Len(path)-1, NEW a,
         OnWay(h, root, path, m, a)
  PROVE  a.ref \in 1..Len(h) => \E p \in {path} : Uses(h, root, p, a.ref, path[m+1])
<1>1. Len(path) \in Nat /\ DOMAIN path = 1..Len(path)
  BY LenProperties DEF DotPaths
<1>2. m + 1 \in 1..Len(path) /\ (m + 1) - 1 = m
  BY <1>1
<1>3. ASSUME a.ref \in 1..Len(h) PROVE Uses(h, root, path, a.ref, path[m+1])
  <2> DEFINE v == Follow(h, root, SubSeq(path, 1, m))
  <2>1. IsDict(v) /\ v.ref = a.ref
    BY <1>3 DEF OnWay
  <2>2. v = Follow(h, root, SubSeq(path, 1, (m + 1) - 1))
    BY <1>2
  <2> HIDE DEF v
  <2>3. m + 1 \in DOMAIN path
    BY <1>1, <1>2
  <2>4. QED
    BY <2>1, <2>2, <2>3 DEF Uses
<1>4. QED
  BY <1>3

LEMMA OnWayStart ==
  ASSUME NEW h, NEW root, At(h, root, 1), NEW path \in DotPaths
  PROVE  OnWay(h, root, path, 0, [heap |-> h, ref |-> root])
<1>1. Follow(h, root, SubSeq(path, 1, 0)) = Dict(root)
  BY FollowNone DEF DotPaths
<1>2. Keeps(h, h, 1) /\ root \in From(h, 1)
  BY KeepsSelf DEF At
<1>3. QED
  BY <1>1, <1>2, SelfCovers, DictIs DEF OnWay

LEMMA OnWayEnter ==
  ASSUME NEW h, NEW root, At(h, root, 1), NEW path \in DotPaths,
         NEW m \in 0..Len(path)-2, NEW a, OnWay(h, root, path, m, a)
  PROVE  OnWay(h, root, path, m + 1, Enter(a, path[m+1]))
<1> DEFINE g == a.heap
           r == a.ref
           segment == path[m+1]
           next == g[r][segment]
           new == Len(g) + 1
           k == Put(g, r, segment, Dict(new))
           b == Enter(a, segment)
<1>1. Len(path) \in Nat /\ path \in Seq(Fields)
  BY LenProperties DEF DotPaths
<1>2. m \in 0..Len(path)-1 /\ m + 1 \in 1..Len(path)
  BY <1>1
<1>3. segment \in Fields
  BY <1>1, <1>2, ElementOfSeq
<1>4. /\ IsHeap(h) /\ IsHeap(g) /\ Len(h) <= Len(g) /\ Len(h) \in Nat /\ Len(g) \in Nat
      /\ Closed(g, From(g, 1)) /\ r \in From(g, 1) /\ r \in 1..Len(g)
  <2>1. IsHeap(h) /\ IsHeap(g) /\ Len(h) <= Len(g) /\ Closed(g, From(g, 1)) /\ r \in From(g, 1)
    BY DEF OnWay, Keeps, At
  <2> HIDE DEF g, r
  <2>2. QED
    BY <2>1, HeapFacts DEF From
<1>5. b = IF IsDict(next) THEN [heap |-> g, ref |-> next.ref]
          ELSE [heap |-> Append(k, EmptyDict), ref |-> new]
  BY DEF Enter
<1>6. b = [heap |-> b.heap, ref |-> b.ref] /\ Keeps(h, b.heap, 1) /\ b.ref \in From(b.heap, 1)
  <2>1. a = [heap |-> g, ref |-> r] /\ Keeps(h, g, 1)
    BY DEF OnWay
  <2> HIDE DEF g, r, segment
  <2>2. /\ b = [heap |-> b.heap, ref |-> b.ref]
        /\ Keeps(g, b.heap, 1)
        /\ b.ref \in From(b.heap, 1)
    BY <1>3, <1>4, <2>1, EnterKeeps
  <2> HIDE DEF b
  <2>3. QED
    BY <1>4, <2>1, <2>2, KeepsOn
<1>7. Covers(h, g, root, {path}) /\ Fewer(h, g)
  BY DEF OnWay
<1>8. CASE IsDict(next)
  <2>1. b.heap = g /\ b.ref = next.ref
    <3> HIDE DEF next
    <3>1. QED
      BY <1>5, <1>8
  <2> HIDE DEF b
  <2>2. CASE g = h /\ IsDict(Follow(h, root, SubSeq(path, 1, m)))
             /\ Follow(h, root, SubSeq(path, 1, m)).ref = r
    <3>1. Closed(h, From(h, 1)) /\ root \in From(h, 1)
      BY DEF At
    <3>2. Follow(h, root, SubSeq(path, 1, m+1)) = next
      BY <1>1, <1>2, <2>2, <3>1, FollowOn
    <3>3. QED
      BY <1>6, <1>7, <1>8, <2>1, <2>2, <3>2 DEF OnWay, b
  <2>3. CASE r \notin 1..Len(h) /\ \A f \in Fields : ~IsDict(g[r][f])
    BY <1>3, <1>8, <2>3
  <2>4. QED
    BY <2>2, <2>3 DEF OnWay
<1>9. CASE ~IsDict(next)
  <2>1. b = [heap |-> Append(k, EmptyDict), ref |-> new]
    <3> HIDE DEF next, k, new
    <3>1. QED
      BY <1>5, <1>9
  <2>2. r \in 1..Len(h) => \E p \in {path} : Uses(h, root, p, r, segment)
    BY <1>2, OnWayUses
  <2>3. IsDict(Dict(new)) => Dict(new).ref \notin 1..Len(h)
    BY <1>4, DictIs
  <2> DEFINE value == Dict(new)
  <2>4. /\ Covers(h, k, root, {path}) /\ Fewer(h, k)
        /\ IsHeap(k) /\ Len(k) = Len(g)
    <3> DEFINE paths == {path}
    <3>1. k = Put(g, r, segment, value) /\ (IsDict(value) => value.ref \notin 1..Len(h))
      BY <2>3
    <3>2. Covers(h, g, root, paths) /\ (r \in 1..Len(h) => \E p \in paths : Uses(h, root, p, r, segment))
      BY <1>7, <2>2
    <3> HIDE DEF paths, value, g, r, segment, k
    <3>3. Covers(h, k, root, paths) /\ Fewer(h, k)
      BY <1>3, <1>4, <1>7, <3>1, <3>2, PutCovers
    <3>4. IsHeap(k) /\ Len(k) = Len(g)
      BY <1>3, <1>4, <3>1, PutFacts
    <3>5. QED
      BY <3>3, <3>4 DEF paths
  <2>5. /\ Covers(h, Append(k, EmptyDict), root, {path}) /\ Fewer(h, Append(k, EmptyDict))
        /\ \A f \in Fields : Append(k, EmptyDict)[new][f] = Missing
    <3> HIDE DEF k, g
    <3>1. Len(h) <= Len(k)
      BY <1>4, <2>4
    <3>2. QED
      BY <1>4, <2>4, <3>1, GrowCovers, GrowFacts
  <2>6. new \notin 1..Len(h)
    <3> HIDE DEF g
    <3>1. QED
      BY <1>4
  <2> HIDE DEF k, new, b
  <2>7. b.heap = Append(k, EmptyDict) /\ b.ref = new
    BY <2>1
  <2>8. \A f \in Fields : ~IsDict(b.heap[b.ref][f])
    <3>1. \A f \in Fields : b.heap[b.ref][f] = Missing
      BY <2>5, <2>7
    <3>2. ~IsDict(Missing)
      BY DEF IsDict, Missing
    <3>3. QED
      BY <3>1, <3>2
  <2>9. QED
    BY <1>6, <2>5, <2>6, <2>7, <2>8 DEF OnWay, b
<1>10. QED
  BY <1>8, <1>9

\* A path that is set names what setting it changes.
LEMMA SetCovers ==
  ASSUME NEW h, NEW root, At(h, root, 1), NEW path \in DotPaths, NEW value
  PROVE  /\ Covers(h, set_path(h, root, path, value), root, {path})
         /\ ~IsDict(value) => Fewer(h, set_path(h, root, path, value))
<1> DEFINE n == Len(path) - 1
<1>1. n \in Nat /\ n + 1 = Len(path) /\ path[n+1] \in Fields /\ n \in 0..Len(path)-1
  <2>1. path \in Seq(Fields) /\ path # <<>> /\ Len(path) \in Nat
    BY LenProperties DEF DotPaths
  <2>2. Len(path) # 0
    BY <2>1, EmptySeq
  <2>3. n \in Nat /\ n + 1 = Len(path) /\ n + 1 \in 1..Len(path)
    BY <2>1, <2>2
  <2>4. QED
    BY <2>1, <2>3, ElementOfSeq
<1>2. PICK way : Way(h, root, path, value, way)
  BY SetWay
<1> DEFINE T == {m \in 0..n : OnWay(h, root, path, m, way[m])}
<1>3. T \in SUBSET (0..n) /\ 0 \in T
  <2>1. way[0] = [heap |-> h, ref |-> root]
    BY <1>2 DEF Way
  <2>2. OnWay(h, root, path, 0, way[0])
    BY <2>1, OnWayStart
  <2> HIDE DEF n
  <2>3. QED
    BY <1>1, <2>2
<1>4. ASSUME NEW m \in 0..n-1, m \in T PROVE m + 1 \in T
  <2>1. /\ m + 1 \in 1..n /\ (m + 1) - 1 = m /\ m + 1 \in 0..n /\ m \in 0..Len(path)-2
    BY <1>1
  <2>2. way[m+1] = Enter(way[m], path[m+1])
    BY <1>2, <2>1 DEF Way
  <2>3. OnWay(h, root, path, m, way[m])
    BY <1>4
  <2>4. OnWay(h, root, path, m + 1, way[m+1])
    BY <2>1, <2>2, <2>3, OnWayEnter
  <2> HIDE DEF n
  <2>5. QED
    BY <2>1, <2>4
<1> DEFINE a == way[n]
           g == a.heap
           r == a.ref
           segment == path[n+1]
           k == Put(g, r, segment, value)
<1>5. OnWay(h, root, path, n, a)
  <2> HIDE DEF T, n
  <2>1. T = 0..n
    BY <1>1, <1>3, <1>4, Induction
  <2>2. n \in T
    BY <1>1, <2>1
  <2>3. QED
    BY <2>2 DEF T
<1>6. set_path(h, root, path, value) = k
  BY <1>1, <1>2 DEF Way
<1> HIDE DEF a, n
<1>7. r \in 1..Len(h) => \E p \in {path} : Uses(h, root, p, r, segment)
  BY <1>1, <1>5, OnWayUses
<1>8. /\ IsHeap(h) /\ IsHeap(g) /\ Len(h) <= Len(g) /\ r \in 1..Len(g)
      /\ Covers(h, g, root, {path}) /\ Fewer(h, g)
  BY <1>5 DEF OnWay, Keeps, At, From
<1> DEFINE paths == {path}
<1>9. Covers(h, g, root, paths) /\ (r \in 1..Len(h) => \E p \in paths : Uses(h, root, p, r, segment))
  BY <1>7, <1>8
<1>10. segment \in Fields
  BY <1>1
<1> HIDE DEF paths, g, r, segment
<1>11. /\ Covers(h, k, root, paths)
       /\ ~IsDict(value) => Fewer(h, k)
  BY <1>8, <1>9, <1>10, PutCovers
<1> HIDE DEF k
<1>12. QED
  BY <1>6, <1>11 DEF paths

\* So does a path that is deleted.
LEMMA DeleteCovers ==
  ASSUME NEW h, NEW root, At(h, root, 1), NEW path \in DotPaths
  PROVE  /\ Covers(h, delete_path(h, root, path), root, {path})
         /\ Fewer(h, delete_path(h, root, path))
<1> DEFINE parent == Follow(h, root, Front(path))
           n == Len(path)
           paths == {path}
<1>1. /\ n \in Nat /\ n \in 1..n /\ DOMAIN path = 1..n
      /\ Front(path) = SubSeq(path, 1, n-1) /\ Last(path) = path[n] /\ path[n] \in Fields
      /\ path \in Seq(Fields) /\ n - 1 \in 0..n-1
  <2>1. path \in Seq(Fields) /\ path # <<>> /\ n \in Nat /\ DOMAIN path = 1..n
    BY LenProperties DEF DotPaths
  <2>2. n # 0
    BY <2>1, EmptySeq
  <2>3. n \in 1..n /\ n - 1 \in 0..n-1
    BY <2>1, <2>2
  <2>4. QED
    BY <2>1, <2>3, ElementOfSeq DEF Front, Last
<1>2. delete_path(h, root, path) =
        IF IsDict(parent) THEN Put(h, parent.ref, Last(path), Missing) ELSE h
  BY DEF delete_path
<1>3. Fits(parent, From(h, 1)) /\ IsHeap(h) /\ Len(h) \in Nat
  <2>1. IsHeap(h) /\ Closed(h, From(h, 1)) /\ root \in From(h, 1)
    BY DEF At
  <2>2. Fits(parent, From(h, 1))
    BY <1>1, <2>1, FollowOn
  <2>3. QED
    BY <2>1, <2>2, HeapFacts
<1>4. IsDict(parent) => Uses(h, root, path, parent.ref, path[n])
  BY <1>1 DEF Uses
<1> HIDE DEF parent, n
<1>5. Covers(h, h, root, paths) /\ Fewer(h, h)
  BY SelfCovers
<1>6. CASE IsDict(parent)
  <2> DEFINE r == parent.ref
             field == path[n]
             value == Missing
             k == Put(h, r, field, value)
  <2>1. delete_path(h, root, path) = k
    BY <1>1, <1>2, <1>6
  <2>2. r \in 1..Len(h) /\ field \in Fields /\ ~IsDict(value)
    BY <1>1, <1>3, <1>6 DEF Fits, From, IsDict, Missing
  <2>3. \E p \in paths : Uses(h, root, p, r, field)
    BY <1>4, <1>6
  <2>4. Len(h) <= Len(h)
    BY <1>3
  <2> HIDE DEF r, field, value, paths
  <2>5. Covers(h, k, root, paths) /\ Fewer(h, k)
    BY <1>3, <1>5, <2>2, <2>3, <2>4, PutCovers
  <2> HIDE DEF k
  <2>6. QED
    BY <2>1, <2>5 DEF paths
<1>7. CASE ~IsDict(parent)
  BY <1>2, <1>5, <1>7
<1>8. QED
  BY <1>6, <1>7

\* A path that still leads to an old dict led to it before.
LEMMA FewerFollow ==
  ASSUME NEW h, NEW root, At(h, root, 1), NEW g, Keeps(h, g, 1), Fewer(h, g),
         NEW path \in Seq(Fields), NEW k \in 0..Len(path),
         IsDict(Follow(g, root, SubSeq(path, 1, k))),
         Follow(g, root, SubSeq(path, 1, k)).ref \in 1..Len(h)
  PROVE  Follow(h, root, SubSeq(path, 1, k)) = Follow(g, root, SubSeq(path, 1, k))
<1> DEFINE n == Len(path)
           there(m) == Follow(g, root, SubSeq(path, 1, m))
           here(m) == Follow(h, root, SubSeq(path, 1, m))
           T == {m \in 0..n : IsDict(there(m)) /\ there(m).ref \in 1..Len(h) => here(m) = there(m)}
<1>1. n \in Nat /\ \A m \in 1..n : path[m] \in Fields
  BY LenProperties, ElementOfSeq
<1>2. /\ Closed(h, From(h, 1)) /\ root \in From(h, 1)
      /\ Closed(g, From(g, 1)) /\ root \in From(g, 1)
  BY KeepsRoot DEF At, Keeps
<1>3. T \in SUBSET (0..n) /\ 0 \in T
  <2>1. there(0) = Dict(root) /\ here(0) = Dict(root)
    BY FollowNone
  <2> HIDE DEF there, here, n
  <2>2. QED
    BY <1>1, <2>1
<1>4. ASSUME NEW m \in 0..n-1, m \in T PROVE m + 1 \in T
  <2>1. m + 1 \in 1..n /\ m + 1 \in 0..n
    BY <1>1
  <2>2. /\ Fits(there(m), From(g, 1))
        /\ there(m+1) = IF IsDict(there(m)) THEN g[there(m).ref][path[m+1]] ELSE Missing
        /\ here(m+1) = IF IsDict(here(m)) THEN h[here(m).ref][path[m+1]] ELSE Missing
    BY <1>2, FollowOn
  <2>3. IsDict(there(m)) /\ there(m).ref \in 1..Len(h) => here(m) = there(m)
    BY <1>4
  <2>4. path[m+1] \in Fields
    BY <1>1, <2>1
  <2> HIDE DEF there, here, n
  <2>5. ASSUME IsDict(there(m+1)), there(m+1).ref \in 1..Len(h)
        PROVE  here(m+1) = there(m+1)
    <3> DEFINE v == there(m)
               field == path[m+1]
    <3>1. IsDict(v)
      BY <2>2, <2>5 DEF IsDict, Missing
    <3>2. there(m+1) = g[v.ref][field] /\ v.ref \in 1..Len(g)
      BY <2>2, <3>1 DEF Fits, From
    <3> HIDE DEF v
    <3>3. v.ref \in 1..Len(h) /\ g[v.ref][field] = h[v.ref][field]
      BY <2>4, <2>5, <3>2 DEF Fewer
    <3>4. here(m) = v
      BY <2>3, <3>1, <3>3 DEF v
    <3>5. QED
      BY <2>2, <3>1, <3>2, <3>3, <3>4
  <2>6. QED
    BY <2>1, <2>5
<1> HIDE DEF T
<1>5. T = 0..n
  BY <1>1, <1>3, <1>4, Induction
<1>6. k \in T
  BY <1>5
<1>7. QED
  BY <1>6 DEF T

\* What one change names of what it finds, was named before the change before it.
LEMMA CoversOn ==
  ASSUME NEW h, NEW root, At(h, root, 1), NEW g, Keeps(h, g, 1), NEW k,
         NEW paths, Covers(h, g, root, paths), Fewer(h, g),
         NEW more \in SUBSET Seq(Fields), Covers(g, k, root, more)
  PROVE  Covers(h, k, root, paths \cup more)
<1>1. \A s \in 1..Len(h) : s \in 1..Len(g)
  <2>1. Len(h) \in Nat /\ Len(g) \in Nat /\ Len(h) <= Len(g)
    BY HeapFacts DEF At, Keeps
  <2>2. QED
    BY <2>1
<1>2. ASSUME NEW p \in more, NEW s \in 1..Len(h), NEW f \in Fields, Uses(g, root, p, s, f)
      PROVE  Uses(h, root, p, s, f)
  <2>1. PICK n \in DOMAIN p : LET dict == Follow(g, root, SubSeq(p, 1, n-1))
                              IN IsDict(dict) /\ dict.ref = s /\ p[n] = f
    BY <1>2 DEF Uses
  <2>2. p \in Seq(Fields) /\ Len(p) \in Nat /\ DOMAIN p = 1..Len(p)
    BY LenProperties
  <2>3. n - 1 \in 0..Len(p)
    BY <2>2
  <2>4. Follow(h, root, SubSeq(p, 1, n-1)) = Follow(g, root, SubSeq(p, 1, n-1))
    BY <2>1, <2>2, <2>3, FewerFollow
  <2>5. QED
    BY <2>1, <2>4 DEF Uses
<1>3. ASSUME NEW s \in 1..Len(h), NEW f \in Fields, k[s][f] # h[s][f]
      PROVE  \E p \in paths \cup more : Uses(h, root, p, s, f)
  <2>1. CASE g[s][f] # h[s][f]
    BY <2>1 DEF Covers
  <2>2. CASE g[s][f] = h[s][f]
    <3>1. PICK p \in more : Uses(g, root, p, s, f)
      BY <1>1, <1>3, <2>2 DEF Covers
    <3>2. QED
      BY <1>2, <3>1
  <2>3. QED
    BY <2>1, <2>2
<1>4. QED
  BY <1>3 DEF Covers

LEMMA FewerOn ==
  ASSUME NEW h, IsHeap(h), NEW g, IsHeap(g), Len(h) <= Len(g), NEW k,
         Fewer(h, g), Fewer(g, k)
  PROVE  Fewer(h, k)
<1>1. \A r \in 1..Len(h) : r \in 1..Len(g)
  <2>1. Len(h) \in Nat /\ Len(g) \in Nat
    BY HeapFacts
  <2>2. QED
    BY <2>1
<1>2. ASSUME NEW s \in 1..Len(k), NEW f \in Fields, IsDict(k[s][f]), k[s][f].ref \in 1..Len(h)
      PROVE  s \in 1..Len(h) /\ k[s][f] = h[s][f]
  <2>1. s \in 1..Len(g) /\ k[s][f] = g[s][f]
    BY <1>1, <1>2 DEF Fewer
  <2>2. QED
    BY <1>2, <2>1 DEF Fewer
<1>3. QED
  BY <1>2 DEF Fewer

\* Lineage that names every field of a dict of h that g has changed.
Explains(h, root, g, entries) ==
  /\ entries \in Seq(ToSet(entries))
  /\ \A s \in 1..Len(h) : \A f \in Fields :
       g[s][f] # h[s][f] => \E i \in 1..Len(entries) : Names(h, root, entries[i], s, f)

LEMMA OneEntry ==
  ASSUME NEW e
  PROVE  <<e>> \in Seq(ToSet(<<e>>)) /\ Len(<<e>>) = 1 /\ <<e>>[1] = e
<1>1. <<e>> \in Seq({e}) /\ Len(<<e>>) = 1 /\ <<e>>[1] = e
  OBVIOUS
<1>2. ToSet(<<e>>) = {e}
  <2>1. DOMAIN <<e>> = 1..1
    OBVIOUS
  <2>2. 1..1 = {1}
    OBVIOUS
  <2>3. QED
    BY <1>1, <2>1, <2>2 DEF ToSet
<1>3. QED
  BY <1>1, <1>2

LEMMA EntryIs ==
  ASSUME NEW c, NEW sources, NEW path, NEW before, NEW after
  PROVE  /\ Entry(c, sources, path, before, after).target = path
         /\ Entry(c, sources, path, before, after).sources = sources
BY DEF Entry

\* An entry for each of the paths, or for both.
LEMMA EntryExplains ==
  ASSUME NEW h, NEW root, NEW g, NEW e, NEW paths, Covers(h, g, root, paths),
         \A p \in paths : p = e.target \/ \E i \in DOMAIN e.sources : p = e.sources[i]
  PROVE  Explains(h, root, g, <<e>>)
<1>1. <<e>> \in Seq(ToSet(<<e>>)) /\ Len(<<e>>) = 1 /\ <<e>>[1] = e
  BY OneEntry
<1>2. ASSUME NEW s \in 1..Len(h), NEW f \in Fields, g[s][f] # h[s][f]
      PROVE  Names(h, root, e, s, f)
  <2>1. PICK p \in paths : Uses(h, root, p, s, f)
    BY <1>2 DEF Covers
  <2>2. p = e.target \/ \E i \in DOMAIN e.sources : p = e.sources[i]
    OBVIOUS
  <2>3. QED
    BY <2>1, <2>2 DEF Names
<1> DEFINE entries == <<e>>
<1>3. entries \in Seq(ToSet(entries)) /\ Len(entries) = 1 /\ entries[1] = e
  BY <1>1
<1>4. 1 \in 1..1
  OBVIOUS
<1> HIDE DEF entries
<1>5. Explains(h, root, g, entries)
  BY <1>2, <1>3, <1>4 DEF Explains
<1>6. QED
  BY <1>5 DEF entries

LEMMA AssignExplains ==
  ASSUME NEW h, NEW root, At(h, root, 1), NEW c, c.target \in DotPaths, NEW sources, NEW after
  PROVE  Explains(h, root, Assign(h, root, c, sources, after).heap,
                  Assign(h, root, c, sources, after).lineage)
<1> DEFINE e == Entry(c, sources, c.target, get_path(h, root, c.target), after)
           paths == {c.target}
           g == set_path(h, root, c.target, after)
<1>1. Assign(h, root, c, sources, after).heap = g
  BY DEF Assign, Result
<1>2. Assign(h, root, c, sources, after).lineage = <<e>>
  BY DEF Assign, Result
<1>3. Covers(h, g, root, paths)
  BY SetCovers
<1>4. \A p \in paths : p = e.target
  BY EntryIs
<1> HIDE DEF e, paths, g
<1>5. Explains(h, root, g, <<e>>)
  BY <1>3, <1>4, EntryExplains
<1>6. QED
  BY <1>1, <1>2, <1>5

LEMMA RenameExplains ==
  ASSUME NEW h, NEW root, At(h, root, 1), NEW c,
         c.target \in DotPaths, c.source \in DotPaths
  PROVE  Explains(h, root, RenameStep(h, root, c).heap, RenameStep(h, root, c).lineage)
<1> DEFINE value == get_path(h, root, c.source)
           e == Entry(c, <<c.source>>, c.target, get_path(h, root, c.target), value)
           g == delete_path(h, root, c.source)
           k == set_path(g, root, c.target, value)
           paths == {c.source}
           more == {c.target}
<1>1. RenameStep(h, root, c).heap = k
  BY DEF RenameStep, Result
<1>2. RenameStep(h, root, c).lineage = <<e>>
  BY DEF RenameStep, Result
<1>3. Covers(h, g, root, paths) /\ Fewer(h, g)
  BY DeleteCovers
<1>4. Keeps(h, g, 1)
  BY DeleteKeeps DEF At
<1>5. more \in SUBSET Seq(Fields)
  BY DEF DotPaths
<1>6. /\ e.target = c.target /\ e.sources = <<c.source>>
      /\ 1 \in DOMAIN <<c.source>> /\ <<c.source>>[1] = c.source
  <2>1. e.target = c.target /\ e.sources = <<c.source>>
    BY EntryIs
  <2> HIDE DEF e
  <2>2. QED
    BY <2>1
<1> HIDE DEF value, g, e
<1>7. At(g, root, 1)
  BY <1>4, KeepsRoot DEF At, Keeps
<1>8. Covers(g, k, root, more)
  BY <1>7, SetCovers
<1> HIDE DEF k
<1>9. \A p \in paths \cup more : p = e.target \/ \E i \in DOMAIN e.sources : p = e.sources[i]
  BY <1>6
<1> HIDE DEF paths, more
<1>10. Covers(h, k, root, paths \cup more)
  BY <1>3, <1>4, <1>5, <1>8, CoversOn
<1>11. Explains(h, root, k, <<e>>)
  BY <1>9, <1>10, EntryExplains
<1>12. QED
  BY <1>1, <1>2, <1>11

\* As the targets of a split are set, one after the other.
LEMMA SplitCovers ==
  ASSUME NEW h, NEW root, At(h, root, 1), NEW c, c.targets \in Seq(DotPaths), NEW value
  PROVE  Covers(h, SplitHeaps(h, root, c, value)[Len(c.targets)], root,
                {c.targets[i] : i \in 1..Len(c.targets)})
<1> DEFINE n == Len(c.targets)
           heaps == SplitHeaps(h, root, c, value)
           set(m) == {c.targets[i] : i \in 1..m}
<1>1. n \in Nat /\ \A m \in 1..n : c.targets[m] \in DotPaths
  BY LenProperties, ElementOfSeq
<1>2. /\ heaps[0] = h
      /\ \A m \in 1..n : heaps[m] = set_path(heaps[m-1], root, c.targets[m], Part(value, m))
  <2>1. Heaps(h, root, c, value, heaps)
    BY <1>1, SplitWay
  <2>2. QED
    BY <2>1 DEF Heaps
<1> HIDE DEF n, heaps
<1> DEFINE T == {m \in 0..n : /\ Keeps(h, heaps[m], 1) /\ Fewer(h, heaps[m])
                              /\ Covers(h, heaps[m], root, set(m))}
<1>3. T \in SUBSET (0..n) /\ 0 \in T
  <2>1. Keeps(h, h, 1)
    BY KeepsSelf DEF At
  <2>2. Fewer(h, h) /\ Covers(h, h, root, set(0))
    BY SelfCovers
  <2> HIDE DEF set
  <2>3. QED
    BY <1>1, <1>2, <2>1, <2>2
<1>4. ASSUME NEW m \in 0..n-1, m \in T PROVE m + 1 \in T
  <2>1. m \in Nat /\ m + 1 \in 1..n /\ (m + 1) - 1 = m /\ m + 1 \in 0..n
    BY <1>1
  <2> DEFINE g == heaps[m]
             k == heaps[m+1]
             path == c.targets[m+1]
             after == Part(value, m + 1)
             paths == set(m)
             more == {path}
  <2>2. Keeps(h, g, 1) /\ Fewer(h, g) /\ Covers(h, g, root, paths)
    BY <1>4
  <2>3. k = set_path(g, root, path, after) /\ path \in DotPaths
    BY <1>1, <1>2, <2>1
  <2>4. ~IsDict(after) /\ \A refs : Fits(after, refs)
    BY DEF Part, Fits, IsDict, Text, None
  <2>5. paths \cup more = set(m + 1)
    <3>1. \A i : i \in 1..m+1 <=> (i \in 1..m \/ i = m + 1)
      BY <2>1
    <3>2. QED
      BY <3>1
  <2>6. more \in SUBSET Seq(Fields)
    BY <2>3 DEF DotPaths
  <2>7. path \in more
    OBVIOUS
  <2> HIDE DEF g, k, path, after, paths, set
  <2>8. At(g, root, 1)
    BY <2>2, KeepsRoot DEF At, Keeps
  <2>9. Covers(g, k, root, more) /\ Fewer(g, k)
    BY <2>3, <2>4, <2>8, SetCovers
  <2>10. Keeps(g, k, 1)
    BY <2>3, <2>4, <2>8, SetKeeps DEF At
  <2> HIDE DEF more
  <2>11. Keeps(h, k, 1)
    BY <2>2, <2>10, KeepsOn DEF At
  <2>12. Fewer(h, k)
    BY <2>2, <2>9, FewerOn DEF At, Keeps
  <2>13. Covers(h, k, root, paths \cup more)
    BY <2>2, <2>6, <2>9, CoversOn
  <2>14. QED
    BY <2>1, <2>5, <2>11, <2>12, <2>13 DEF k
<1> HIDE DEF T
<1>5. T = 0..n
  BY <1>1, <1>3, <1>4, Induction
<1>6. n \in T
  BY <1>1, <1>5
<1>7. QED
  BY <1>6 DEF T, n, heaps

LEMMA SplitExplains ==
  ASSUME NEW h, NEW root, At(h, root, 1), NEW c, c.targets \in Seq(DotPaths)
  PROVE  Explains(h, root, SplitStep(h, root, c).heap, SplitStep(h, root, c).lineage)
<1> DEFINE n == Len(c.targets)
           value == get_path(h, root, c.source)
           heaps == SplitHeaps(h, root, c, value)
           g == heaps[n]
           entry(i) == Entry(c, <<c.source>>, c.targets[i],
                             get_path(heaps[i-1], root, c.targets[i]), Part(value, i))
           entries == [i \in DOMAIN c.targets |-> entry(i)]
<1>1. SplitStep(h, root, c).heap = g /\ SplitStep(h, root, c).lineage = entries
  BY DEF SplitStep, Result
<1>2. n \in Nat /\ DOMAIN c.targets = 1..n
  BY LenProperties
<1>3. Covers(h, g, root, {c.targets[i] : i \in 1..n})
  BY SplitCovers
<1>4. \A i \in 1..n : entry(i).target = c.targets[i]
  BY EntryIs
<1> HIDE DEF entry, g
<1>5. DOMAIN entries = 1..n /\ \A i \in 1..n : entries[i] = entry(i)
  BY <1>2
<1>6. entries \in [1..n -> ToSet(entries)]
  BY <1>2, <1>5 DEF ToSet
<1> HIDE DEF entries, n
<1>7. entries \in Seq(ToSet(entries)) /\ Len(entries) = n
  <2> DEFINE S == ToSet(entries)
  <2>1. entries \in [1..n -> S]
    BY <1>6
  <2> HIDE DEF S
  <2>2. entries \in Seq(S)
    BY <1>2, <2>1, SeqDef
  <2>3. Len(entries) = n
    BY <1>2, <1>5, <2>2, LenProperties
  <2>4. QED
    BY <2>2, <2>3 DEF S
<1>8. ASSUME NEW s \in 1..Len(h), NEW f \in Fields, g[s][f] # h[s][f]
      PROVE  \E i \in 1..n : Names(h, root, entries[i], s, f)
  <2>1. PICK i \in 1..n : Uses(h, root, c.targets[i], s, f)
    BY <1>3, <1>8 DEF Covers
  <2>2. Names(h, root, entries[i], s, f)
    BY <1>4, <1>5, <2>1 DEF Names
  <2>3. QED
    BY <2>2
<1>9. QED
  BY <1>1, <1>7, <1>8 DEF Explains

\* What changes nothing needs no entry, and may have one.
LEMMA NothingExplains ==
  ASSUME NEW h, NEW root, NEW e
  PROVE  Explains(h, root, h, <<e>>)
BY OneEntry DEF Explains

\* The steps that end with a field set.
Assigning == {"extract", "duplicate", "constant", "cast", "trim", "lookup", "concat"}

LEMMA ApplyAssigns ==
  ASSUME NEW h, NEW root, NEW c, c.type \in Assigning, apply(h, root, c) # Raised
  PROVE  \E sources, after : apply(h, root, c) = Assign(h, root, c, sources, after)
<1>1. CASE c.type = "extract"
  BY <1>1 DEF apply, ExtractStep
<1>2. CASE c.type = "duplicate"
  BY <1>2 DEF apply, DuplicateStep
<1>3. CASE c.type = "constant"
  BY <1>3 DEF apply, ConstantStep
<1>4. CASE c.type = "cast"
  <2> DEFINE after == Coerce(get_path(h, root, c.target), c.to)
  <2>1. apply(h, root, c) = CastStep(h, root, c)
    BY <1>4 DEF apply
  <2>2. CastStep(h, root, c) =
          IF after = Raised THEN Raised ELSE Assign(h, root, c, <<c.target>>, after)
    BY DEF CastStep
  <2> HIDE DEF after
  <2>3. apply(h, root, c) = Assign(h, root, c, <<c.target>>, after)
    BY <2>1, <2>2
  <2>4. QED
    BY <2>3
<1>5. CASE c.type = "trim"
  <2>1. apply(h, root, c) = TrimStep(h, root, c)
    BY <1>5 DEF apply
  <2>2. \E sources, after : TrimStep(h, root, c) = Assign(h, root, c, sources, after)
    BY DEF TrimStep
  <2>3. QED
    BY <2>1, <2>2
<1>6. CASE c.type = "lookup"
  <2>1. apply(h, root, c) = LookupStep(h, root, c)
    BY <1>6 DEF apply
  <2>2. \E sources, after : LookupStep(h, root, c) = Assign(h, root, c, sources, after)
    BY DEF LookupStep
  <2>3. QED
    BY <2>1, <2>2
<1>7. CASE c.type = "concat"
  <2>1. apply(h, root, c) = ConcatStep(h, root, c)
    BY <1>7 DEF apply
  <2>2. \E sources, after : ConcatStep(h, root, c) = Assign(h, root, c, sources, after)
    BY DEF ConcatStep
  <2>3. QED
    BY <2>1, <2>2
<1>8. QED
  BY <1>1, <1>2, <1>3, <1>4, <1>5, <1>6, <1>7 DEF Assigning

\* Whatever a step does to a dict, it says.
LEMMA ApplyExplains ==
  ASSUME NEW h, NEW root, At(h, root, 1), NEW c, NEW refs, Ready(c, refs),
         apply(h, root, c) # Raised
  PROVE  Explains(h, root, apply(h, root, c).heap, apply(h, root, c).lineage)
<1>1. c.type # "split" => c.target \in DotPaths
  BY DEF Ready
<1>2. CASE c.type \in Assigning
  <2>1. PICK sources, after : apply(h, root, c) = Assign(h, root, c, sources, after)
    BY <1>2, ApplyAssigns
  <2>2. c.target \in DotPaths
    BY <1>1, <1>2 DEF Assigning
  <2>3. QED
    BY <2>1, <2>2, AssignExplains
<1>3. CASE c.type = "default"
  <2>1. apply(h, root, c) = DefaultStep(h, root, c)
    BY <1>3 DEF apply
  <2>2. CASE get_path(h, root, c.target) # None
    <3> DEFINE current == get_path(h, root, c.target)
               e == Entry(c, <<>>, c.target, current, current)
    <3>1. DefaultStep(h, root, c).heap = h /\ DefaultStep(h, root, c).lineage = <<e>>
      BY <2>2 DEF DefaultStep, Result
    <3> HIDE DEF e
    <3>2. QED
      BY <2>1, <3>1, NothingExplains
  <2>3. CASE get_path(h, root, c.target) = None
    <3>1. DefaultStep(h, root, c) = Assign(h, root, c, <<>>, c.value)
      BY <2>3 DEF DefaultStep
    <3>2. QED
      BY <1>1, <1>3, <2>1, <3>1, AssignExplains
  <2>4. QED
    BY <2>2, <2>3
<1>4. CASE c.type = "rename"
  <2>1. apply(h, root, c) = RenameStep(h, root, c)
    BY <1>4 DEF apply
  <2>2. QED
    BY <1>1, <1>4, <2>1, RenameExplains DEF Ready
<1>5. CASE c.type = "split"
  <2>1. apply(h, root, c) = SplitStep(h, root, c)
    BY <1>5 DEF apply
  <2>2. QED
    BY <1>5, <2>1, SplitExplains DEF Ready
<1>6. CASE c.type = "drop"
  <2> DEFINE e == Entry(c, <<c.target>>, c.target, get_path(h, root, c.target), None)
             g == delete_path(h, root, c.target)
             paths == {c.target}
  <2>1. apply(h, root, c) = DropStep(h, root, c)
    BY <1>6 DEF apply
  <2>2. DropStep(h, root, c).heap = g /\ DropStep(h, root, c).lineage = <<e>>
    BY DEF DropStep, Result
  <2>3. Covers(h, g, root, paths)
    BY <1>1, <1>6, DeleteCovers
  <2>4. \A p \in paths : p = e.target
    BY EntryIs
  <2> HIDE DEF e, g, paths
  <2>5. Explains(h, root, g, <<e>>)
    BY <2>3, <2>4, EntryExplains
  <2>6. QED
    BY <2>1, <2>2, <2>5
<1>7. CASE c.type = "filter"
  <2> DEFINE e == Entry(c, <<c.target>>, <<>>, get_path(h, root, c.target), None)
  <2>1. apply(h, root, c) = FilterStep(h, root, c)
    BY <1>7 DEF apply
  <2>2. apply(h, root, c).heap = h /\ apply(h, root, c).lineage = <<e>>
    BY <2>1 DEF FilterStep
  <2> HIDE DEF e
  <2>3. QED
    BY <2>2, NothingExplains
<1>8. QED
  BY <1>2, <1>3, <1>4, <1>5, <1>6, <1>7 DEF Ready, Assigning

LEMMA ConcatFacts ==
  ASSUME NEW s, s \in Seq(ToSet(s)), NEW t, t \in Seq(ToSet(t))
  PROVE  /\ s \o t \in Seq(ToSet(s \o t))
         /\ Len(s) \in Nat /\ Len(t) \in Nat /\ DOMAIN (s \o t) = 1..Len(s)+Len(t)
         /\ \A i \in 1..Len(t) : (s \o t)[Len(s)+i] = t[i]
<1> DEFINE n == Len(s)
           m == Len(t)
           S == ToSet(s) \cup ToSet(t)
           u == s \o t
<1>1. /\ n \in Nat /\ DOMAIN s = 1..n /\ s \in [1..n -> ToSet(s)]
      /\ m \in Nat /\ DOMAIN t = 1..m /\ t \in [1..m -> ToSet(t)]
  BY LenProperties
<1>2. s \in Seq(S) /\ t \in Seq(S)
  <2>1. (\A i \in 1..n : s[i] \in S) /\ (\A i \in 1..m : t[i] \in S)
    BY <1>1
  <2> HIDE DEF S, n, m
  <2>2. s \in [1..n -> S] /\ t \in [1..m -> S]
    BY <1>1, <2>1
  <2>3. QED
    BY <1>1, <2>2, SeqDef
<1> HIDE DEF S
<1>3. /\ u \in Seq(S) /\ Len(u) = n + m
      /\ \A i \in 1..n+m : u[i] = IF i <= n THEN s[i] ELSE t[i-n]
  BY <1>2, ConcatProperties
<1> HIDE DEF u, n, m
<1>4. n + m \in Nat
  BY <1>1
<1>5. u \in [1..n+m -> S] /\ DOMAIN u = 1..n+m
  BY <1>3, <1>4, LenProperties
<1>6. u \in Seq(ToSet(u))
  <2> DEFINE R == ToSet(u)
  <2>1. \A i \in 1..n+m : u[i] \in R
    BY <1>5 DEF ToSet
  <2> HIDE DEF R
  <2>2. u \in [1..n+m -> R]
    BY <1>5, <2>1
  <2>3. u \in Seq(R)
    BY <1>4, <2>2, SeqDef
  <2>4. QED
    BY <2>3 DEF R
<1>7. ASSUME NEW i \in 1..m PROVE u[n+i] = t[i]
  <2>1. n + i \in 1..n+m /\ ~(n + i <= n) /\ (n + i) - n = i
    BY <1>1
  <2>2. QED
    BY <1>3, <2>1
<1>8. QED
  BY <1>1, <1>5, <1>6, <1>7 DEF u, n, m

-----------------------------------------------------------------------------
(* The run. *)

\* Every dict that the record, the steps or a dict of the heap refers to is in the heap.
RecordTyped ==
  /\ pipeline \in Pipelines /\ steps = Build(pipeline)
  /\ pc \in {"reading", "transforming", "answered"}
  /\ IsHeap(heap) /\ Closed(heap, From(heap, 1))
  /\ Len(Literals(pipeline)[Len(pipeline)]) <= Len(heap)
  /\ done \in 0..Len(Documents)
  /\ applied \in 0..Len(steps)
  /\ record \in 0..Len(heap)
  /\ outputs \in Seq(ToSet(outputs)) /\ Len(outputs) <= done
  /\ pc = "transforming" => record # 0 /\ Len(outputs) < done

\* The dicts that are there when a document is read are not in the record that is made
\* of it, and whatever the steps do to the record, they do not do to them.
Separated ==
  /\ pc = "transforming" =>
       /\ Closed(heap, From(heap, record)) /\ Closed(heap, 1..record-1)
       /\ \A i \in DOMAIN outputs : outputs[i].record \in 1..record-1
  /\ \A i \in DOMAIN outputs :
       /\ outputs[i].record \in From(heap, 1)
       /\ outputs[i].shown = Shown(heap, outputs[i].record)
  /\ \A i \in DOMAIN target : target[i] = outputs[i].shown
  /\ pc # "answered" => target = <<>>

\* No config of the pipeline has a dict.
Plain == \A i \in DOMAIN pipeline : ~HasTree(pipeline[i])

LEMMA StepsReady ==
  ASSUME RecordTyped
  PROVE  /\ Len(steps) \in Nat
         /\ \A i \in 1..Len(steps) : Ready(steps[i], From(heap, 1))
         /\ Plain => \A i \in 1..Len(steps) : \A refs : Ready(steps[i], refs)
<1> DEFINE h == Literals(pipeline)[Len(pipeline)]
<1>1. /\ pipeline \in Seq(ToSet(pipeline)) /\ \A i \in DOMAIN pipeline : IsConfig(pipeline[i])
      /\ steps = Build(pipeline) /\ IsHeap(heap) /\ Len(h) <= Len(heap)
  BY RecordAssumption DEF RecordTyped
<1>2. /\ IsHeap(h) /\ Len(pipeline) \in Nat /\ Len(steps) = Len(pipeline)
      /\ \A i \in 1..Len(pipeline) : Ready(steps[i], From(h, 1))
      /\ Plain => \A i \in 1..Len(pipeline) : \A refs : Ready(steps[i], refs)
  BY <1>1, BuildReady DEF Plain
<1> HIDE DEF h
<1>3. From(h, 1) \subseteq From(heap, 1)
  <2>1. Len(h) \in Nat /\ Len(heap) \in Nat
    BY <1>1, <1>2, HeapFacts
  <2>2. QED
    BY <1>1, <2>1 DEF From
<1>4. QED
  BY <1>2, <1>3, ReadyAmong

LEMMA RecordTypedInit ==
  ASSUME Init
  PROVE  RecordTyped
<1>1. pipeline \in Seq(ToSet(pipeline)) /\ \A i \in DOMAIN pipeline : IsConfig(pipeline[i])
  BY RecordAssumption DEF Init
<1>2. /\ IsHeap(heap) /\ Closed(heap, From(heap, 1))
      /\ Len(pipeline) \in Nat /\ Len(steps) = Len(pipeline)
  BY <1>1, BuildReady DEF Init
<1>3. Len(heap) \in Nat /\ Len(Documents) \in Nat
  BY <1>2, HeapFacts, RecordAssumption, LenProperties
<1>4. outputs \in Seq(ToSet(outputs)) /\ Len(outputs) = 0
  BY EmptySeq DEF Init
<1>5. QED
  BY <1>2, <1>3, <1>4 DEF Init, RecordTyped

LEMMA SeparatedInit ==
  ASSUME Init
  PROVE  Separated
<1>1. DOMAIN <<>> = {}
  OBVIOUS
<1>2. QED
  BY <1>1 DEF Init, Separated

LEMMA ReadTyped ==
  ASSUME RecordTyped, Read
  PROVE  RecordTyped'
<1>1. Len(Documents) \in Nat /\ IsDocument(Documents[done+1]) /\ done + 1 \in 1..Len(Documents)
  <2>1. Len(Documents) \in Nat /\ DOMAIN Documents = 1..Len(Documents)
    BY RecordAssumption, LenProperties
  <2>2. done + 1 \in 1..Len(Documents)
    BY <2>1 DEF RecordTyped, Read
  <2>3. QED
    BY <2>1, <2>2, RecordAssumption
<1>2. /\ IsHeap(heap') /\ Len(heap) < Len(heap') /\ Closed(heap', From(heap', 1))
      /\ Len(heap) \in Nat /\ Len(heap') \in Nat
  BY <1>1, CopyCloses, HeapFacts DEF RecordTyped, Read
<1>3. Len(Literals(pipeline)[Len(pipeline)]) <= Len(heap')
  <2> DEFINE h == Literals(pipeline)[Len(pipeline)]
  <2>1. IsHeap(h) /\ Len(h) <= Len(heap)
    BY RecordAssumption, BuildReady DEF RecordTyped
  <2>2. Len(h) \in Nat
    BY <2>1, HeapFacts
  <2> HIDE DEF h
  <2>3. Len(h) <= Len(heap')
    BY <1>2, <2>1, <2>2
  <2>4. QED
    BY <2>3 DEF h
<1>4. 0 \in 0..Len(steps)
  BY StepsReady
<1>5. Len(outputs) \in Nat
  BY LenProperties DEF RecordTyped
<1>6. /\ done' \in 0..Len(Documents) /\ record' \in 0..Len(heap') /\ record' # 0
      /\ Len(outputs') < done' /\ Len(outputs') <= done'
  <2>1. /\ done' = done + 1 /\ record' = Len(heap) + 1 /\ outputs' = outputs
        /\ done \in 0..Len(Documents) /\ Len(outputs) <= done
    BY DEF RecordTyped, Read
  <2> DEFINE n == Len(outputs)
             d == Len(Documents)
             old == Len(heap)
             new == Len(heap')
  <2>2. /\ n \in Nat /\ d \in Nat /\ done + 1 \in 1..d /\ done \in 0..d /\ n <= done
        /\ old \in Nat /\ new \in Nat /\ old < new
    BY <1>1, <1>2, <1>5, <2>1
  <2> HIDE DEF n, d, old, new
  <2>3. done + 1 \in 0..d /\ old + 1 \in 0..new /\ old + 1 # 0 /\ n < done + 1 /\ n <= done + 1
    BY <2>2
  <2>4. QED
    BY <2>1, <2>3 DEF n, d, old, new
<1>7. QED
  BY <1>2, <1>3, <1>4, <1>6 DEF RecordTyped, Read

LEMMA ReadSeparated ==
  ASSUME RecordTyped, Separated, Read
  PROVE  Separated'
<1> DEFINE n == Len(heap)
<1>1. Len(Documents) \in Nat /\ IsDocument(Documents[done+1])
  <2>1. Len(Documents) \in Nat /\ DOMAIN Documents = 1..Len(Documents)
    BY RecordAssumption, LenProperties
  <2>2. done + 1 \in 1..Len(Documents)
    BY <2>1 DEF RecordTyped, Read
  <2>3. QED
    BY <2>1, <2>2, RecordAssumption
<1>2. heap' = CopyTo(heap, Documents[done+1]) /\ record' = n + 1
  BY DEF Read
<1>3. /\ IsHeap(heap) /\ n \in Nat /\ Closed(heap, From(heap, 1))
  BY HeapFacts DEF RecordTyped
<1>4. /\ \A r \in 1..n : heap'[r] = heap[r]
      /\ Closed(heap', n+1..Len(heap')) /\ Closed(heap', 1..n)
      /\ n < Len(heap') /\ Len(heap') \in Nat
  <2> DEFINE document == Documents[done+1]
             g == CopyTo(heap, document)
  <2>1. IsDocument(document) /\ heap' = g
    BY <1>1, <1>2
  <2> HIDE DEF document
  <2>2. /\ IsHeap(g) /\ n < Len(g) /\ Closed(g, 1..n)
    BY <1>3, <2>1, CopyCloses
  <2>3. /\ \A r \in 1..n : g[r] = heap[r]
        /\ Closed(g, n+1..Len(g))
    BY <1>3, <2>1, CopyFacts
  <2> HIDE DEF g, n
  <2>4. Len(g) \in Nat
    BY <2>2, HeapFacts
  <2>5. QED
    BY <2>1, <2>2, <2>3, <2>4
<1> HIDE DEF n
<1>5. From(heap', record') = n+1..Len(heap') /\ 1..record'-1 = 1..n /\ From(heap, 1) = 1..n
  BY <1>2, <1>3 DEF From, n
<1>6. ASSUME NEW i \in DOMAIN outputs
      PROVE  /\ outputs[i].record \in 1..n /\ outputs[i].record \in From(heap', 1)
             /\ outputs[i].shown = Shown(heap', outputs[i].record)
  <2>1. outputs[i].record \in 1..n /\ outputs[i].shown = Shown(heap, outputs[i].record)
    BY <1>5 DEF Separated
  <2>2. Shown(heap', outputs[i].record) = Shown(heap, outputs[i].record)
    BY <1>3, <1>4, <1>5, <2>1, ShownSame
  <2>3. outputs[i].record \in From(heap', 1)
    BY <1>3, <1>4, <2>1 DEF From
  <2>4. QED
    BY <2>1, <2>2, <2>3
<1>7. outputs' = outputs /\ target' = target /\ pc = "reading" /\ pc' = "transforming"
  BY DEF Read
<1>8. QED
  BY <1>4, <1>5, <1>6, <1>7 DEF Separated

\* Where a step leaves the heap, for the part of it from lo on.
LEMMA StepKeeps ==
  ASSUME RecordTyped, Step, NEW lo \in 1..record, Closed(heap, From(heap, lo)),
         Ready(steps[applied+1], From(heap, lo))
  PROVE  Keeps(heap, heap', lo)
<1> DEFINE c == steps[applied+1]
<1>1. IsHeap(heap) /\ Len(heap) \in Nat /\ record \in 1..Len(heap)
  BY HeapFacts DEF RecordTyped, Step
<1>2. lo \in Nat \ {0} /\ record \in From(heap, lo)
  BY <1>1 DEF From
<1>3. At(heap, record, lo)
  BY <1>1, <1>2 DEF At
<1>4. heap' = apply(heap, record, c).heap /\ apply(heap, record, c) # Raised
  BY DEF Step, Transformed
<1> HIDE DEF c
<1>5. Keeps(heap, apply(heap, record, c).heap, lo)
  BY <1>3, <1>4, ApplyKeeps DEF c
<1>6. QED
  BY <1>4, <1>5

LEMMA NextStepReady ==
  ASSUME RecordTyped, Step
  PROVE  /\ applied + 1 \in 1..Len(steps)
         /\ Ready(steps[applied+1], From(heap, 1))
         /\ Plain => \A refs : Ready(steps[applied+1], refs)
<1>1. Len(steps) \in Nat /\ applied \in 0..Len(steps) /\ applied < Len(steps)
  BY StepsReady DEF RecordTyped, Step
<1>2. applied + 1 \in 1..Len(steps)
  BY <1>1
<1>3. QED
  BY <1>2, StepsReady

LEMMA StepTyped ==
  ASSUME RecordTyped, Step
  PROVE  RecordTyped'
<1>1. applied + 1 \in 1..Len(steps) /\ Len(steps) \in Nat
      /\ Ready(steps[applied+1], From(heap, 1))
  BY NextStepReady, StepsReady
<1>2. /\ IsHeap(heap) /\ Closed(heap, From(heap, 1)) /\ record \in 0..Len(heap) /\ record # 0
      /\ Len(heap) \in Nat
  BY HeapFacts DEF RecordTyped, Step
<1>3. 1 \in 1..record
  BY <1>2
<1>4. Keeps(heap, heap', 1)
  BY <1>1, <1>2, <1>3, StepKeeps
<1>5. IsHeap(heap') /\ Len(heap) <= Len(heap') /\ Closed(heap', From(heap', 1))
  BY <1>4 DEF Keeps
<1>6. Len(heap') \in Nat
  BY <1>5, HeapFacts
<1>7. Len(Literals(pipeline)[Len(pipeline)]) <= Len(heap')
  <2> DEFINE h == Literals(pipeline)[Len(pipeline)]
  <2>1. IsHeap(h) /\ Len(h) <= Len(heap)
    BY RecordAssumption, BuildReady DEF RecordTyped
  <2>2. Len(h) \in Nat
    BY <2>1, HeapFacts
  <2> HIDE DEF h
  <2>3. Len(h) <= Len(heap')
    BY <1>2, <1>5, <1>6, <2>1, <2>2
  <2>4. QED
    BY <2>3 DEF h
<1>8. record' \in 0..Len(heap') /\ record' # 0 /\ applied' \in 0..Len(steps')
  BY <1>1, <1>2, <1>5, <1>6 DEF Step
<1>9. /\ pipeline' = pipeline /\ steps' = steps /\ done' = done /\ outputs' = outputs
      /\ pc = "transforming" /\ pc' \in {"reading", "transforming"}
  BY DEF Step
<1>10. QED
  BY <1>5, <1>7, <1>8, <1>9 DEF RecordTyped

LEMMA StepSeparated ==
  ASSUME RecordTyped, Plain, Separated, Step
  PROVE  Separated'
<1>1. /\ Closed(heap, From(heap, record)) /\ Closed(heap, 1..record-1)
      /\ \A i \in DOMAIN outputs : outputs[i].record \in 1..record-1
      /\ record \in 1..Len(heap) /\ record \in 1..record /\ Len(heap) \in Nat
  <2>1. /\ Closed(heap, From(heap, record)) /\ Closed(heap, 1..record-1)
        /\ \A i \in DOMAIN outputs : outputs[i].record \in 1..record-1
    BY DEF Separated, Step
  <2>2. record \in 0..Len(heap) /\ record # 0 /\ Len(heap) \in Nat
    BY HeapFacts DEF RecordTyped, Step
  <2>3. record \in 1..Len(heap) /\ record \in 1..record
    BY <2>2
  <2>4. QED
    BY <2>1, <2>2, <2>3
<1>2. Keeps(heap, heap', record)
  BY <1>1, NextStepReady, StepKeeps
<1>3. /\ IsHeap(heap') /\ Len(heap) <= Len(heap') /\ Closed(heap', From(heap', record))
      /\ \A r \in 1..record-1 : heap'[r] = heap[r]
  BY <1>2 DEF Keeps
<1>4. Len(heap') \in Nat
  BY <1>3, HeapFacts
<1>5. Closed(heap', 1..record-1)
  BY <1>1, <1>3 DEF Closed
<1>6. ASSUME NEW i \in DOMAIN outputs
      PROVE  /\ outputs[i].record \in From(heap', 1)
             /\ outputs[i].shown = Shown(heap', outputs[i].record)
  <2>1. outputs[i].record \in 1..record-1 /\ outputs[i].shown = Shown(heap, outputs[i].record)
    BY <1>1 DEF Separated
  <2>2. Shown(heap', outputs[i].record) = Shown(heap, outputs[i].record)
    BY <1>1, <1>3, <2>1, ShownSame
  <2>3. outputs[i].record \in From(heap', 1)
    BY <1>1, <1>3, <1>4, <2>1 DEF From
  <2>4. QED
    BY <2>1, <2>2, <2>3
<1>7. /\ outputs' = outputs /\ target' = target /\ record' = record
      /\ pc = "transforming" /\ pc' \in {"reading", "transforming"}
  BY DEF Step
<1>8. QED
  BY <1>1, <1>3, <1>5, <1>6, <1>7 DEF Separated

LEMMA OutputTyped ==
  ASSUME RecordTyped, Output
  PROVE  RecordTyped'
<1> DEFINE o == [record |-> record, shown |-> Shown(heap, record)]
<1>1. outputs \in Seq(ToSet(outputs)) /\ outputs' = Append(outputs, o)
  BY DEF RecordTyped, Output
<1> HIDE DEF o
<1>2. /\ outputs' \in Seq(ToSet(outputs')) /\ Len(outputs') = Len(outputs) + 1
      /\ Len(outputs) \in Nat
  BY <1>1, AppendFacts
<1>3. done \in 0..Len(Documents) /\ Len(outputs) < done /\ Len(Documents) \in Nat
  BY RecordAssumption, LenProperties DEF RecordTyped, Output
<1>4. Len(outputs') <= done
  BY <1>2, <1>3
<1>5. QED
  BY <1>2, <1>4 DEF RecordTyped, Output

LEMMA OutputSeparated ==
  ASSUME RecordTyped, Separated, Output
  PROVE  Separated'
<1> DEFINE o == [record |-> record, shown |-> Shown(heap, record)]
           n == Len(outputs)
<1>1. outputs \in Seq(ToSet(outputs)) /\ outputs' = Append(outputs, o)
  BY DEF RecordTyped, Output
<1>2. o.record = record /\ o.shown = Shown(heap, record)
  OBVIOUS
<1> HIDE DEF o
<1>3. /\ n \in Nat /\ DOMAIN outputs = 1..n /\ DOMAIN outputs' = 1..n+1
      /\ \A i \in 1..n : outputs'[i] = outputs[i]
      /\ outputs'[n+1] = o
  BY <1>1, AppendFacts
<1>4. record \in From(heap, 1)
  <2>1. record \in 0..Len(heap) /\ record # 0 /\ Len(heap) \in Nat
    BY HeapFacts DEF RecordTyped, Output
  <2>2. QED
    BY <2>1 DEF From
<1>5. /\ heap' = heap /\ target' = target /\ target = <<>> /\ pc' = "reading"
  BY DEF Output, Separated
<1> HIDE DEF n
<1>6. ASSUME NEW i \in DOMAIN outputs'
      PROVE  /\ outputs'[i].record \in From(heap, 1)
             /\ outputs'[i].shown = Shown(heap, outputs'[i].record)
  <2>1. CASE i \in 1..n
    BY <1>3, <2>1 DEF Separated
  <2>2. CASE i = n + 1
    BY <1>2, <1>3, <1>4, <2>2
  <2>3. QED
    BY <1>3, <2>1, <2>2
<1>7. DOMAIN <<>> = {}
  OBVIOUS
<1>8. QED
  BY <1>5, <1>6, <1>7 DEF Separated

LEMMA WriteSeparated ==
  ASSUME RecordTyped, Separated, Write
  PROVE  Separated'
<1>1. /\ target' = [i \in DOMAIN outputs |-> Shown(heap, outputs[i].record)]
      /\ heap' = heap /\ outputs' = outputs /\ pc' = "answered"
  BY DEF Write
<1>2. \A i \in DOMAIN target' : target'[i] = outputs[i].shown
  BY <1>1 DEF Separated
<1>3. QED
  BY <1>1, <1>2 DEF Separated

\* The lineage is a sequence.
LineageTyped == lineage \in Seq(ToSet(lineage))

LEMMA StepExplains ==
  ASSUME RecordTyped, Step
  PROVE  /\ IsHeap(heap) /\ DOMAIN heap = 1..Len(heap)
         /\ Explains(heap, record, heap', Transformed.lineage)
<1> DEFINE c == steps[applied+1]
<1>1. Ready(c, From(heap, 1))
  BY NextStepReady
<1>2. IsHeap(heap) /\ Len(heap) \in Nat /\ DOMAIN heap = 1..Len(heap)
      /\ Closed(heap, From(heap, 1)) /\ record \in 0..Len(heap) /\ record # 0
  BY HeapFacts DEF RecordTyped, Step
<1>3. At(heap, record, 1)
  BY <1>2 DEF At, From
<1>4. heap' = apply(heap, record, c).heap /\ apply(heap, record, c) # Raised
      /\ Transformed = apply(heap, record, c)
  BY DEF Step, Transformed
<1> HIDE DEF c
<1>5. Explains(heap, record, apply(heap, record, c).heap, apply(heap, record, c).lineage)
  BY <1>1, <1>3, <1>4, ApplyExplains
<1>6. QED
  BY <1>2, <1>4, <1>5

LEMMA StepNames ==
  ASSUME RecordTyped, LineageTyped, Step
  PROVE  /\ LineageTyped'
         /\ \A r \in DOMAIN heap, f \in Fields : heap'[r][f] # heap[r][f] =>
              \E i \in DOMAIN lineage' :
                 i > Len(lineage) /\ Names(heap, record, lineage'[i], r, f)
<1> DEFINE new == Transformed.lineage
           n == Len(lineage)
           m == Len(new)
<1>1. DOMAIN heap = 1..Len(heap) /\ Explains(heap, record, heap', new)
  BY StepExplains
<1>2. lineage' = lineage \o new /\ lineage \in Seq(ToSet(lineage)) /\ new \in Seq(ToSet(new))
  BY <1>1 DEF Step, LineageTyped, Explains
<1> HIDE DEF new
<1>3. /\ lineage \o new \in Seq(ToSet(lineage \o new))
      /\ n \in Nat /\ m \in Nat /\ DOMAIN (lineage \o new) = 1..n+m
      /\ \A i \in 1..m : (lineage \o new)[n+i] = new[i]
  BY <1>2, ConcatFacts
<1>4. /\ lineage' \in Seq(ToSet(lineage')) /\ DOMAIN lineage' = 1..n+m
      /\ \A i \in 1..m : lineage'[n+i] = new[i]
  BY <1>2, <1>3
<1>5. ASSUME NEW r \in DOMAIN heap, NEW f \in Fields, heap'[r][f] # heap[r][f]
      PROVE  \E i \in DOMAIN lineage' : i > n /\ Names(heap, record, lineage'[i], r, f)
  <2>1. PICK i \in 1..m : Names(heap, record, new[i], r, f)
    BY <1>1, <1>5 DEF Explains
  <2> HIDE DEF n, m
  <2>2. n + i \in 1..n+m /\ n + i > n
    BY <1>3
  <2>3. lineage'[n+i] = new[i] /\ n + i \in DOMAIN lineage'
    BY <1>4, <2>2
  <2>4. QED
    BY <2>1, <2>2, <2>3
<1>6. QED
  BY <1>4, <1>5 DEF LineageTyped

-----------------------------------------------------------------------------

\* Every dict a record leads to exists, for every pipeline and every document, and no
\* document gives two outputs.
THEOREM RecordTypes == Spec => []TypeOK
<1>1. Init => RecordTyped
  BY RecordTypedInit
<1>2. RecordTyped /\ [Next]_vars => RecordTyped'
  <2> SUFFICES ASSUME RecordTyped, [Next]_vars PROVE RecordTyped'
    OBVIOUS
  <2>1. CASE Read
    BY <2>1, ReadTyped
  <2>2. CASE Step
    BY <2>2, StepTyped
  <2>3. CASE StepRaises
    BY <2>3 DEF StepRaises, RecordTyped
  <2>4. CASE Output
    BY <2>4, OutputTyped
  <2>5. CASE Write
    BY <2>5 DEF Write, RecordTyped
  <2>6. CASE UNCHANGED vars
    BY <2>6 DEF vars, RecordTyped
  <2>7. QED
    BY <2>1, <2>2, <2>3, <2>4, <2>5, <2>6 DEF Next
<1>3. RecordTyped => TypeOK
  <2> SUFFICES ASSUME RecordTyped PROVE TypeOK
    OBVIOUS
  <2>1. DOMAIN heap = From(heap, 1)
    BY HeapFacts DEF RecordTyped, From
  <2>2. QED
    BY <2>1 DEF RecordTyped, TypeOK
<1>4. QED
  BY <1>1, <1>2, <1>3, PTL DEF Spec

\* What is written of a document is what the steps made of it, whatever they make of the
\* documents after it: no step reaches a dict of a record that is already put by.
THEOREM RecordsAreSeparate == Spec => []WrittenAsTransformed
<1> DEFINE Inv == RecordTyped /\ (Plain => Separated)
<1>1. Init => Inv
  BY RecordTypedInit, SeparatedInit
<1>2. Inv /\ [Next]_vars => Inv'
  <2> SUFFICES ASSUME RecordTyped, Plain => Separated, [Next]_vars PROVE Inv'
    OBVIOUS
  <2>1. Plain' => Plain
    BY DEF Next, Read, Step, StepRaises, Output, Write, vars, Plain
  <2>2. CASE Read
    BY <2>1, <2>2, ReadTyped, ReadSeparated
  <2>3. CASE Step
    BY <2>1, <2>3, StepTyped, StepSeparated
  <2>4. CASE StepRaises
    <3>1. RecordTyped'
      BY <2>4 DEF StepRaises, RecordTyped
    <3>2. Separated => Separated'
      BY <2>4 DEF StepRaises, Separated
    <3>3. QED
      BY <2>1, <3>1, <3>2
  <2>5. CASE Output
    BY <2>1, <2>5, OutputTyped, OutputSeparated
  <2>6. CASE Write
    <3>1. RecordTyped'
      BY <2>6 DEF Write, RecordTyped
    <3>2. QED
      BY <2>1, <2>6, <3>1, WriteSeparated
  <2>7. CASE UNCHANGED vars
    <3>1. RecordTyped'
      BY <2>7 DEF vars, RecordTyped
    <3>2. Separated => Separated'
      BY <2>7 DEF vars, Separated
    <3>3. QED
      BY <2>1, <3>1, <3>2
  <2>8. QED
    BY <2>2, <2>3, <2>4, <2>5, <2>6, <2>7 DEF Next
<1>3. Inv => WrittenAsTransformed
  BY DEF Plain, Separated, WrittenAsTransformed
<1>4. QED
  BY <1>1, <1>2, <1>3, PTL DEF Spec

\* Whatever a step changes in any dict, the lineage that it emits names, for every
\* pipeline and every document, and at any depth.
THEOREM RecordChangesAreNamed == Spec => EveryChangeIsNamed
<1> DEFINE Inv == RecordTyped /\ LineageTyped
           Act == pc = "transforming" =>
                    \A r \in DOMAIN heap, f \in Fields : heap'[r][f] # heap[r][f] =>
                       \E i \in DOMAIN lineage' :
                          i > Len(lineage) /\ Names(heap, record, lineage'[i], r, f)
<1>1. Init => Inv
  <2> SUFFICES ASSUME Init PROVE Inv
    OBVIOUS
  <2>1. lineage \in Seq(ToSet(lineage))
    BY EmptySeq DEF Init
  <2>2. QED
    BY <2>1, RecordTypedInit DEF LineageTyped
<1>2. Inv /\ [Next]_vars => Inv' /\ [Act]_vars
  <2> SUFFICES ASSUME RecordTyped, LineageTyped, [Next]_vars
               PROVE  RecordTyped' /\ LineageTyped' /\ [Act]_vars
    OBVIOUS
  <2>1. CASE Read
    <3>1. lineage' = <<>> /\ pc = "reading"
      BY <2>1 DEF Read
    <3>2. LineageTyped'
      <4>1. <<>> \in Seq(ToSet(<<>>))
        BY EmptySeq
      <4>2. QED
        BY <3>1, <4>1 DEF LineageTyped
    <3>3. Act
      BY <3>1
    <3>4. RecordTyped'
      BY <2>1, ReadTyped
    <3>5. QED
      BY <3>2, <3>3, <3>4
  <2>2. CASE Step
    <3>1. LineageTyped' /\ Act
      BY <2>2, StepNames
    <3>2. RecordTyped'
      BY <2>2, StepTyped
    <3>3. QED
      BY <3>1, <3>2
  <2>3. CASE StepRaises
    <3>1. heap' = heap /\ lineage' = lineage
      BY <2>3 DEF StepRaises
    <3>2. RecordTyped'
      BY <2>3 DEF StepRaises, RecordTyped
    <3>3. QED
      BY <3>1, <3>2 DEF LineageTyped
  <2>4. CASE Output
    <3>1. heap' = heap /\ lineage' = lineage
      BY <2>4 DEF Output
    <3>2. RecordTyped'
      BY <2>4, OutputTyped
    <3>3. QED
      BY <3>1, <3>2 DEF LineageTyped
  <2>5. CASE Write
    <3>1. heap' = heap /\ lineage' = lineage
      BY <2>5 DEF Write
    <3>2. RecordTyped'
      BY <2>5 DEF Write, RecordTyped
    <3>3. QED
      BY <3>1, <3>2 DEF LineageTyped
  <2>6. CASE UNCHANGED vars
    <3>1. heap' = heap /\ lineage' = lineage
      BY <2>6 DEF vars
    <3>2. RecordTyped'
      BY <2>6 DEF vars, RecordTyped
    <3>3. QED
      BY <2>6, <3>1, <3>2 DEF LineageTyped
  <2>7. QED
    BY <2>1, <2>2, <2>3, <2>4, <2>5, <2>6 DEF Next
<1>3. [Act]_vars => [pc = "transforming" =>
         \A r \in DOMAIN heap, f \in Fields : heap'[r][f] # heap[r][f] =>
            \E i \in DOMAIN lineage' :
               i > Len(lineage) /\ Names(heap, record, lineage'[i], r, f)]_vars
  OBVIOUS
<1> HIDE DEF Act
<1>4. QED
  BY <1>1, <1>2, <1>3, PTL DEF Spec, EveryChangeIsNamed
=============================================================================
