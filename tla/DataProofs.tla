---------------------------- MODULE DataProofs -----------------------------
(* Positions, recursion over them, and what a bulk write does to a         *)
(* collection, for every collection and batch.                             *)
EXTENDS BulkWrite, FiniteSetTheorems, SequenceTheorems, WellFoundedInduction, TLAPS

\* A set of positions that is not empty has a last one.
LEMMA LastPosition ==
  ASSUME NEW n \in Nat, NEW S \in SUBSET (1..n), S # {}
  PROVE  \E m \in S : \A j \in S : j <= m
<1> DEFINE U == {u \in Nat : \A j \in S : j <= u}
           R == {p \in Nat \X Nat : p[1] < p[2]}
<1>1. U \subseteq Nat /\ n \in U
  OBVIOUS
<1>2. IsWellFoundedOn(R, Nat)
  BY NatLessThanWellFounded DEF OpToRel
<1>3. \E u \in U : \A v \in U : <<v, u>> \notin R
  <2> HIDE DEF U, R
  <2>1. QED
    BY <1>1, <1>2, WFMin
<1>4. PICK u \in U : \A v \in U : <<v, u>> \notin R
  BY <1>3
<1>5. ASSUME NEW v \in U PROVE u <= v
  <2>1. v < u => <<v, u>> \in R
    BY <1>1
  <2>2. QED
    BY <1>1, <1>4, <2>1
<1>6. CASE u \notin S
  <2>1. PICK j \in S : j <= u
    OBVIOUS
  <2>2. u - 1 \in U
    BY <1>6, <2>1
  <2>3. QED
    BY <1>5, <2>2
<1>7. QED
  BY <1>6

\* What holds of 0, and of m + 1 when it holds of m, holds of every number up to n: a
\* number that it does not hold of would have a least one among its like.
LEMMA Induction ==
  ASSUME NEW n \in Nat, NEW T \in SUBSET (0..n), 0 \in T,
         \A m \in 0..n-1 : m \in T => m + 1 \in T
  PROVE  T = 0..n
<1> DEFINE U == (0..n) \ T
           R == {p \in Nat \X Nat : p[1] < p[2]}
<1>1. U \subseteq Nat
  OBVIOUS
<1>2. IsWellFoundedOn(R, Nat)
  BY NatLessThanWellFounded DEF OpToRel
<1>3. SUFFICES ASSUME U # {} PROVE FALSE
  OBVIOUS
<1>4. \E u \in U : \A v \in U : <<v, u>> \notin R
  <2> HIDE DEF U, R
  <2>1. QED
    BY <1>1, <1>2, <1>3, WFMin
<1>5. PICK u \in U : \A v \in U : <<v, u>> \notin R
  BY <1>4
<1>6. u \in 0..n /\ u # 0 /\ u \notin T
  OBVIOUS
<1>7. u - 1 \in 0..n-1 /\ u - 1 \in Nat /\ u \in Nat /\ u - 1 < u
  BY <1>6
<1>8. u - 1 \notin U
  BY <1>5, <1>7
<1>9. u - 1 \in T
  BY <1>7, <1>8
<1>10. QED
  BY <1>6, <1>7, <1>9

Recursive(n, V, b, step, f) ==
  /\ f \in [0..n -> V]
  /\ f[0] = b
  /\ \A i \in 1..n : f[i] = step[i][f[i-1]]

\* A function that is defined by what each step makes of the value before it exists.
LEMMA RecursionExists ==
  ASSUME NEW n \in Nat, NEW V, NEW b \in V, NEW step \in [1..n -> [V -> V]]
  PROVE  \E f : Recursive(n, V, b, step, f)
<1> DEFINE Upto(m, f) == f[0] = b /\ \A i \in 1..m : f[i] = step[i][f[i-1]]
           T == {m \in 0..n : \E f \in [0..n -> V] : Upto(m, f)}
<1>1. 0 \in T
  <2> DEFINE g == [i \in 0..n |-> b]
  <2>1. g \in [0..n -> V] /\ g[0] = b
    OBVIOUS
  <2>2. Upto(0, g)
    BY <2>1
  <2>3. 0 \in 0..n
    OBVIOUS
  <2> HIDE DEF g, Upto
  <2>4. QED
    BY <2>1, <2>2, <2>3
<1>2. ASSUME NEW m \in 0..n-1, m \in T PROVE m + 1 \in T
  <2>1. PICK f \in [0..n -> V] : Upto(m, f)
    BY <1>2
  <2> DEFINE v == step[m+1][f[m]]
             g == [i \in 0..n |-> IF i = m + 1 THEN v ELSE f[i]]
  <2>2. m + 1 \in 1..n /\ m \in 0..n /\ m + 1 \in 0..n /\ m + 1 # 0
    OBVIOUS
  <2>3. v \in V
    BY <2>2
  <2>4. g \in [0..n -> V]
    BY <2>3
  <2>5. g[0] = b
    BY <2>1, <2>2
  <2>6. ASSUME NEW i \in 1..m+1 PROVE g[i] = step[i][g[i-1]]
    <3>1. i \in 0..n /\ i - 1 \in 0..n /\ i - 1 # m + 1
      BY <2>2
    <3>2. g[i-1] = f[i-1]
      BY <3>1
    <3>3. CASE i = m + 1
      <4>1. i - 1 = m
        BY <3>3
      <4>2. QED
        BY <3>1, <3>2, <3>3, <4>1
    <3>4. CASE i # m + 1
      <4>1. i \in 1..m
        BY <3>4
      <4>2. QED
        BY <2>1, <3>1, <3>2, <3>4, <4>1
    <3>5. QED
      BY <3>3, <3>4
  <2>7. Upto(m + 1, g)
    BY <2>5, <2>6
  <2> HIDE DEF g, Upto
  <2>8. QED
    BY <2>2, <2>4, <2>7
<1>3. T = 0..n
  <2> HIDE DEF T
  <2>1. T \in SUBSET (0..n)
    BY DEF T
  <2>2. \A m \in 0..n-1 : m \in T => m + 1 \in T
    BY <1>2
  <2>3. QED
    BY <1>1, <2>1, <2>2, Induction
<1>4. n \in T
  <2>1. n \in 0..n
    OBVIOUS
  <2> HIDE DEF T
  <2>2. QED
    BY <1>3, <2>1
<1>5. QED
  BY <1>4 DEF Recursive

\* A bulk write leaves a key as it was, or gives it the payload of one of the
\* operations on it that were applied, with no later one among them.
THEOREM UpsertedValue ==
  ASSUME NEW coll, NEW S, NEW ops \in Seq(S),
         NEW done \in SUBSET DOMAIN ops, NEW k \in DOMAIN coll
  PROVE  \/ /\ On(ops, k) \cap done = {}
            /\ Upserted(coll, ops, done)[k] = coll[k]
         \/ \E i \in done :
               /\ ops[i].key = k
               /\ Upserted(coll, ops, done)[k] = ops[i].payload
               /\ \A j \in done : ops[j].key = k => j <= i
<1> DEFINE P == On(ops, k) \cap done
           n == Len(ops)
<1>0. n \in Nat /\ DOMAIN ops = 1..n
  BY LenProperties
<1> HIDE DEF n
<1>1. CASE P = {}
  BY <1>1 DEF Upserted
<1>2. CASE P # {}
  <2>1. P \in SUBSET (1..n)
    BY <1>0 DEF On
  <2>2. \E m \in P : \A j \in P : j <= m
    BY <1>0, <1>2, <2>1, LastPosition
  <2> DEFINE m == CHOOSE i \in P : \A j \in P : j <= i
  <2>3. m \in P /\ \A j \in P : j <= m
    BY <2>2
  <2>4. Upserted(coll, ops, done)[k] = ops[m].payload
    BY <1>2 DEF Upserted
  <2> HIDE DEF m
  <2>5. QED
    BY <2>3, <2>4 DEF On
<1>3. QED
  BY <1>1, <1>2

\* upserted_count + modified_count is a natural number.
THEOREM WrittenType ==
  ASSUME NEW n \in Nat, NEW ops, DOMAIN ops = 1..n
  PROVE  Written(ops) \in Nat
<1> DEFINE W == {i \in DOMAIN ops :
     \A j \in 1..i-1 :
        ops[j].key = ops[i].key /\ (\A m \in j+1..i-1 : ops[m].key # ops[i].key)
          => ops[j].payload # ops[i].payload}
<1>1. IsFiniteSet(1..n)
  BY FS_Interval
<1>2. IsFiniteSet(W)
  BY <1>1, FS_Subset
<1>3. QED
  BY <1>2, FS_CardinalityType DEF Written

\* A set of positions that is not empty has a first one.
LEMMA FirstPosition ==
  ASSUME NEW n \in Nat, NEW S \in SUBSET (1..n), S # {}
  PROVE  \E m \in S : \A j \in S : m <= j
<1> DEFINE R == {p \in Nat \X Nat : p[1] < p[2]}
<1>1. IsWellFoundedOn(R, Nat) /\ S \subseteq Nat
  BY NatLessThanWellFounded DEF OpToRel
<1>2. \E m \in S : \A j \in S : <<j, m>> \notin R
  <2> HIDE DEF R
  <2>1. QED
    BY <1>1, WFMin
<1>3. PICK m \in S : \A j \in S : <<j, m>> \notin R
  BY <1>2
<1>4. ASSUME NEW j \in S PROVE m <= j
  <2>1. j < m => <<j, m>> \in R
    BY <1>1
  <2>2. QED
    BY <1>1, <1>3, <2>1
<1>5. QED
  BY <1>4

\* It lies between the keys of the batch and its operations.
THEOREM WrittenBounds ==
  ASSUME NEW n \in Nat, NEW ops, DOMAIN ops = 1..n
  PROVE  /\ Written(ops) \in Nat /\ Written(ops) <= n
         /\ IsFiniteSet({ops[i].key : i \in 1..n})
         /\ Cardinality({ops[i].key : i \in 1..n}) \in Nat
         /\ Cardinality({ops[i].key : i \in 1..n}) <= Written(ops)
<1> DEFINE Counts(i) ==
             \A j \in 1..i-1 :
                ops[j].key = ops[i].key /\ (\A m \in j+1..i-1 : ops[m].key # ops[i].key)
                  => ops[j].payload # ops[i].payload
           W == {i \in 1..n : Counts(i)}
           K == {ops[i].key : i \in 1..n}
           f == [i \in W |-> ops[i].key]
<1>1. Written(ops) = Cardinality(W)
  BY DEF Written
<1>2. ASSUME NEW i \in 1..n, \A j \in 1..n : ops[j].key = ops[i].key => i <= j
      PROVE  Counts(i)
  BY <1>2
<1> HIDE DEF Counts
<1>3. IsFiniteSet(1..n) /\ Cardinality(1..n) = n
  BY FS_Interval
<1>4. W \in SUBSET (1..n)
  OBVIOUS
<1>5. IsFiniteSet(W) /\ Cardinality(W) <= n /\ Cardinality(W) \in Nat
  <2> DEFINE N == 1..n
  <2>1. IsFiniteSet(N) /\ Cardinality(N) = n /\ W \in SUBSET N
    BY <1>3, <1>4
  <2> HIDE DEF W, N
  <2>2. IsFiniteSet(W) /\ Cardinality(W) <= Cardinality(N)
    BY <2>1, FS_Subset
  <2>3. QED
    BY <2>1, <2>2, FS_CardinalityType
<1>6. ASSUME NEW k \in K PROVE \E i \in W : f[i] = k
  <2>1. PICK h \in 1..n : ops[h].key = k
    OBVIOUS
  <2> DEFINE S == {i \in 1..n : ops[i].key = k}
  <2>2. S \in SUBSET (1..n) /\ S # {}
    BY <2>1
  <2>3. \E i \in S : \A j \in S : i <= j
    <3> HIDE DEF S
    <3>1. QED
      BY <2>2, FirstPosition
  <2>4. PICK i \in S : \A j \in S : i <= j
    BY <2>3
  <2>5. Counts(i)
    BY <1>2, <2>4
  <2>6. QED
    BY <2>4, <2>5
<1>7. f \in [W -> K]
  OBVIOUS
<1>8. f \in Surjection(W, K)
  <2> HIDE DEF f, W, K
  <2>1. QED
    BY <1>6, <1>7 DEF Surjection
<1>9. IsFiniteSet(K) /\ Cardinality(K) <= Cardinality(W)
  <2> HIDE DEF f, W, K
  <2>1. QED
    BY <1>5, <1>8, FS_Surjection
<1>10. Cardinality(K) \in Nat
  <2> HIDE DEF K
  <2>1. QED
    BY <1>9, FS_CardinalityType
<1>11. QED
  BY <1>1, <1>5, <1>9, <1>10
=============================================================================
