--------------------- MODULE EigenTopologyTrackerProofs ---------------------
(***************************************************************************)
(* Theorems about the topology tracker, for any set of addresses, any      *)
(* number of ports, and conflicting addresses or none: the graph is in     *)
(* order after every update, whatever cycles it has, and a node that is on *)
(* none and below none is one deeper than its parent.                      *)
(*                                                                         *)
(* The operations of the tracker fold steps over sequences, so the first   *)
(* part shows that the recursive functions behind those folds exist, with  *)
(* the steps as functions (the provers do not instantiate operators).      *)
(***************************************************************************)
EXTENDS EigenTopologyTracker, SequenceTheorems, FiniteSetTheorems,
        WellFoundedInduction, TLAPS

-----------------------------------------------------------------------------
(***************************************************************************)
(* Induction over an interval, and functions defined by recursion over it. *)
(***************************************************************************)

(* A set that is closed under the successor holds the interval it begins. *)
LEMMA Inductively ==
  ASSUME NEW m \in Nat, NEW n \in Nat, NEW T, m \in T,
         \A k \in m..n : k \in T /\ k < n => k + 1 \in T
  PROVE  m..n \subseteq T
<1> DEFINE Bad == {k \in Nat : k \in m..n /\ k \notin T}
<1>1. SUFFICES ASSUME Bad # {} PROVE FALSE
  OBVIOUS
<1>2. PICK x \in Bad : \A y \in Bad : ~(<<y, x>> \in OpToRel(<, Nat))
  BY <1>1, NatLessThanWellFounded, WFMin
<1>3. \A y \in Bad : ~(y < x)
  BY <1>2 DEF OpToRel
<1>4. x \in m..n /\ x \notin T /\ x # m
  BY <1>2
<1>5. x - 1 \in m..n /\ x - 1 \in Nat /\ x - 1 < n /\ (x - 1) + 1 = x
  BY <1>4
<1>6. x - 1 \in T
  BY <1>3, <1>5
<1>7. QED
  BY <1>4, <1>5, <1>6

(* Values that follow each other in steps 1 to n, from the value b.          *)
Follows(f, n, V, b, F) ==
  /\ f \in [0..n -> V]
  /\ f[0] = b
  /\ \A k \in 1..n : f[k] = F[<<k, f[k - 1]>>]

(* A first value and the step from each value to the next give a function. *)
LEMMA Iteration ==
  ASSUME NEW n \in Nat, NEW V, NEW b \in V, NEW F \in [(1..n) \X V -> V]
  PROVE  \E f : Follows(f, n, V, b, F)
<1> DEFINE Upto(k, f) == Follows(f, k, V, b, F)
           T == {k \in 0..n : \E f : Upto(k, f)}
<1>1. 0 \in T
  <2>1. Upto(0, [k \in 0..0 |-> b])
    BY DEF Follows
  <2>2. QED
    BY <2>1
<1>2. ASSUME NEW k \in 0..n, k \in T, k < n
      PROVE  k + 1 \in T
  <2>1. PICK f : Upto(k, f)
    BY <1>2
  <2>2. f \in [0..k -> V] /\ f[0] = b /\ \A j \in 1..k : f[j] = F[<<j, f[j - 1]>>]
    BY <2>1 DEF Follows
  <2>3. k + 1 \in 1..n /\ f[k] \in V /\ F[<<k + 1, f[k]>>] \in V
    BY <1>2, <2>2
  <2> DEFINE g == [j \in 0..k + 1 |-> IF j = k + 1 THEN F[<<k + 1, f[k]>>] ELSE f[j]]
  <2>4. g \in [0..k + 1 -> V]
    BY <1>2, <2>2, <2>3
  <2>5. g[0] = b
    BY <1>2, <2>2
  <2>6. ASSUME NEW j \in 1..k + 1
        PROVE  g[j] = F[<<j, g[j - 1]>>]
    <3>1. CASE j = k + 1
      <4>1. g[j] = F[<<k + 1, f[k]>>] /\ g[j - 1] = f[k]
        BY <1>2, <3>1
      <4>2. QED
        BY <3>1, <4>1
    <3>2. CASE j # k + 1
      <4>1. j \in 1..k /\ j - 1 \in 0..k
        BY <1>2, <3>2
      <4>2. g[j] = f[j] /\ g[j - 1] = f[j - 1]
        BY <1>2, <4>1
      <4>3. QED
        BY <2>2, <4>1, <4>2
    <3>3. QED
      BY <3>1, <3>2
  <2>7. Upto(k + 1, g)
    BY <2>4, <2>5, <2>6 DEF Follows
  <2>8. k + 1 \in 0..n
    BY <1>2
  <2>9. QED
    BY <2>7, <2>8
<1> HIDE DEF T
<1>3. n \in T
  <2>1. 0..n \subseteq T
    BY <1>1, <1>2, Inductively
  <2>2. QED
    BY <2>1
<1>4. QED
  BY <1>3 DEF T

(* A set of numbers with a bound has a largest one. *)
LEMMA Largest ==
  ASSUME NEW n \in Nat, NEW s \in SUBSET (0..n), s # {}
  PROVE  \E x \in s : \A y \in s : y <= x
<1> DEFINE D == {z \in Nat : z <= n /\ n - z \in s}
<1>1. D # {} /\ D \subseteq Nat
  <2>1. PICK y \in s : TRUE
    OBVIOUS
  <2>2. n - y \in D
    BY <2>1
  <2>3. QED
    BY <2>2
<1> HIDE DEF D
<1>2. PICK x \in D : \A y \in D : ~(<<y, x>> \in OpToRel(<, Nat))
  BY <1>1, NatLessThanWellFounded, WFMin
<1>3. \A y \in D : ~(y < x)
  BY <1>1, <1>2 DEF OpToRel
<1>4. n - x \in s
  BY DEF D
<1>5. ASSUME NEW y \in s
      PROVE  y <= n - x
  <2>1. n - y \in D
    BY DEF D
  <2>2. QED
    BY <1>1, <1>3, <2>1
<1>6. QED
  BY <1>4, <1>5

LEMMA MaxFacts ==
  ASSUME NEW n \in Nat, NEW s \in SUBSET (1..n), s # {}
  PROVE  Max(s) \in s /\ \A y \in s : y <= Max(s)
<1>1. s \in SUBSET (0..n)
  OBVIOUS
<1>2. PICK w \in s : \A y \in s : y <= w
  BY <1>1, Largest
<1>3. \A y \in s : w >= y
  BY <1>2
<1>4. Max(s) \in s /\ \A y \in s : Max(s) >= y
  BY <1>3, Zenon DEF Max
<1>5. QED
  BY <1>4

LEMMA MaxInterval ==
  ASSUME NEW n \in Nat, NEW k \in 1..n
  PROVE  Max(1..k) = k
<1>1. 1..k \in SUBSET (1..n) /\ k \in 1..k
  OBVIOUS
<1>2. Max(1..k) \in 1..k /\ \A y \in 1..k : y <= Max(1..k)
  BY <1>1, MaxFacts, Zenon
<1>3. QED
  BY <1>1, <1>2

(* The function of a fold: on a set of indices, what the largest index does *)
(* to the value on the others.                                              *)
Folds(it, n, V, b, F) ==
  /\ it \in [SUBSET (1..n) -> V]
  /\ \A s \in SUBSET (1..n) :
       it[s] = IF s = {} THEN b ELSE F[<<Max(s), it[s \ {Max(s)}]>>]

LEMMA FoldRecursion ==
  ASSUME NEW n \in Nat, NEW V, NEW b \in V, NEW F \in [(1..n) \X V -> V]
  PROVE  \E it : Folds(it, n, V, b, F)
<1> DEFINE I == SUBSET (1..n)
           W == [I -> V]
           Step(g) == [s \in I |-> IF s = {} THEN b ELSE F[<<Max(s), g[s \ {Max(s)}]>>]]
           base == [s \in I |-> b]
           G == [p \in (1..n) \X W |-> Step(p[2])]
<1>1. ASSUME NEW g \in W
      PROVE  Step(g) \in W
  <2>1. ASSUME NEW s \in I, s # {}
        PROVE  F[<<Max(s), g[s \ {Max(s)}]>>] \in V
    <3>1. Max(s) \in 1..n /\ s \ {Max(s)} \in I
      BY <2>1, MaxFacts
    <3>2. QED
      BY <3>1
  <2>2. QED
    BY <2>1
<1> HIDE DEF Step
<1>2. base \in W /\ G \in [(1..n) \X W -> W]
  <2>1. base \in W
    OBVIOUS
  <2> HIDE DEF W
  <2>2. \A p \in (1..n) \X W : p[2] \in W
    OBVIOUS
  <2>3. \A p \in (1..n) \X W : Step(p[2]) \in W
    BY <1>1, <2>2
  <2>4. QED
    BY <2>1, <2>3
<1>3. PICK f : Follows(f, n, W, base, G)
  <2> HIDE DEF base, G, W
  <2>1. QED
    BY <1>2, Iteration
<1>4. f[0] = base /\ \A k \in 1..n : f[k - 1] \in W /\ f[k] = Step(f[k - 1])
  <2> HIDE DEF base, W
  <2>1. f \in [0..n -> W] /\ f[0] = base
    BY <1>3 DEF Follows
  <2>2. ASSUME NEW k \in 1..n
        PROVE  f[k - 1] \in W /\ f[k] = Step(f[k - 1])
    <3>1. f[k] = G[<<k, f[k - 1]>>]
      <4> HIDE DEF G
      <4>1. QED
        BY <1>3 DEF Follows
    <3>2. f[k - 1] \in W
      BY <2>1
    <3>3. QED
      BY <3>1, <3>2
  <2>3. QED
    BY <2>1, <2>2
<1> DEFINE T == {k \in 0..n : \A s \in I : Cardinality(s) <= k => Step(f[k])[s] = f[k][s]}
<1>5. \A s \in I : IsFiniteSet(s) /\ Cardinality(s) \in Nat /\ Cardinality(s) <= n
  <2>1. IsFiniteSet(1..n) /\ Cardinality(1..n) = n
    BY FS_Interval
  <2>2. ASSUME NEW s \in I
        PROVE  IsFiniteSet(s) /\ Cardinality(s) <= n
    <3>1. s \in SUBSET (1..n)
      OBVIOUS
    <3>2. IsFiniteSet(s) /\ Cardinality(s) <= Cardinality(1..n)
      BY <2>1, <3>1, FS_Subset, Zenon
    <3>3. QED
      BY <2>1, <3>2
  <2>3. QED
    BY <2>2, FS_CardinalityType
<1>6. 0 \in T
  <2>1. ASSUME NEW s \in I, Cardinality(s) <= 0
        PROVE  Step(f[0])[s] = f[0][s]
    <3>1. s = {}
      BY <1>5, <2>1, FS_EmptySet
    <3>2. QED
      BY <1>4, <3>1 DEF Step
  <2>2. QED
    BY <2>1
<1>7. ASSUME NEW k \in 0..n, k \in T, k < n
      PROVE  k + 1 \in T
  <2>1. ASSUME NEW s \in I, Cardinality(s) <= k + 1
        PROVE  Step(f[k + 1])[s] = f[k + 1][s]
    <3>1. f[k + 1] = Step(f[k])
      <4>1. k + 1 \in 1..n /\ (k + 1) - 1 = k
        BY <1>7
      <4>2. QED
        BY <1>4, <4>1
    <3>2. CASE s = {}
      BY <3>1, <3>2 DEF Step
    <3>3. CASE s # {}
      <4> DEFINE x == Max(s)
                 t == s \ {x}
      <4>1. x \in s /\ t \in I
        BY <3>3, MaxFacts
      <4>2. Cardinality(t) <= k
        <5>1. Cardinality(t) = Cardinality(s) - 1
          BY <1>5, <4>1, FS_RemoveElement
        <5>2. QED
          BY <1>5, <1>7, <2>1, <5>1
      <4>3. Step(f[k])[t] = f[k][t]
        BY <1>7, <4>1, <4>2
      <4>4. Step(f[k + 1])[s] = F[<<x, f[k + 1][t]>>] /\ Step(f[k])[s] = F[<<x, f[k][t]>>]
        BY <3>3 DEF Step
      <4>5. QED
        BY <3>1, <4>3, <4>4
    <3>4. QED
      BY <3>2, <3>3
  <2>2. k + 1 \in 0..n
    BY <1>7
  <2>3. QED
    BY <2>1, <2>2
<1> HIDE DEF T
<1>8. n \in T
  <2>1. 0..n \subseteq T
    BY <1>6, <1>7, Inductively
  <2>2. QED
    BY <2>1
<1>9. f[n] \in W /\ \A s \in I : Step(f[n])[s] = f[n][s]
  BY <1>3, <1>5, <1>8 DEF T, Follows
<1>10. Step(f[n]) = f[n]
  <2>1. Step(f[n]) \in [I -> V] /\ f[n] \in [I -> V]
    BY <1>1, <1>9
  <2> HIDE DEF I
  <2>2. QED
    BY <1>9, <2>1
<1>11. Folds(f[n], n, V, b, F)
  BY <1>9, <1>10 DEF Step, Folds
<1>12. QED
  BY <1>11

(* The values of such a function on the first indices follow each other. *)
FoldsWhere(it, n, V, b, F) ==
  /\ it[{}] = b
  /\ \A s \in SUBSET (1..n) :
       s # {} /\ it[s \ {Max(s)}] \in V => it[s] = F[<<Max(s), it[s \ {Max(s)}]>>]

Computes(it, n, V, b, F) == \E f : Follows(f, n, V, b, F) /\ f[n] = it[1..n]

LEMMA FoldFollows ==
  ASSUME NEW n \in Nat, NEW V, NEW b \in V, NEW F \in [(1..n) \X V -> V],
         NEW it, FoldsWhere(it, n, V, b, F)
  PROVE  Computes(it, n, V, b, F)
<1> DEFINE f == [k \in 0..n |-> it[1..k]]
           T == {k \in 0..n : f[k] \in V}
<1>1. f[0] = b
  <2>1. 1..0 = {} /\ 0 \in 0..n
    OBVIOUS
  <2>2. QED
    BY <2>1 DEF FoldsWhere
<1>2. ASSUME NEW k \in 1..n, f[k - 1] \in V
      PROVE  f[k] = F[<<k, f[k - 1]>>]
  <2>1. 1..k \in SUBSET (1..n) /\ 1..k # {} /\ k \in 0..n /\ k - 1 \in 0..n
    OBVIOUS
  <2>2. Max(1..k) = k
    BY MaxInterval
  <2>3. (1..k) \ {k} = 1..k - 1
    OBVIOUS
  <2>4. f[k] = it[1..k] /\ f[k - 1] = it[1..k - 1]
    BY <2>1
  <2> HIDE DEF f
  <2>5. QED
    BY <1>2, <2>1, <2>2, <2>3, <2>4 DEF FoldsWhere
<1>3. f[n] = it[1..n]
  OBVIOUS
<1> HIDE DEF f
<1>4. 0..n \subseteq T
  <2>1. 0 \in T
    BY <1>1
  <2>2. ASSUME NEW k \in 0..n, k \in T, k < n
        PROVE  k + 1 \in T
    <3>1. k + 1 \in 1..n /\ (k + 1) - 1 = k
      BY <2>2
    <3>2. f[k + 1] = F[<<k + 1, f[k]>>] /\ f[k] \in V
      BY <1>2, <2>2, <3>1
    <3>3. QED
      BY <3>1, <3>2
  <2> HIDE DEF T
  <2>3. QED
    BY <2>1, <2>2, Inductively
<1>5. f \in [0..n -> V]
  BY <1>4 DEF f
<1>6. ASSUME NEW k \in 1..n
      PROVE  f[k] = F[<<k, f[k - 1]>>]
  <2>1. f[k - 1] \in V
    BY <1>5
  <2>2. QED
    BY <1>2, <2>1
<1>7. Follows(f, n, V, b, F)
  BY <1>1, <1>5, <1>6 DEF Follows
<1>8. QED
  BY <1>3, <1>7 DEF Computes

-----------------------------------------------------------------------------
(***************************************************************************)
(* The folds of the tracker, as sequences of states of the graph.          *)
(***************************************************************************)

(* update_depth goes through states, one for each node it visits. *)
LEMMA UpdateDepthSteps ==
  ASSUME NEW V, NEW g \in V, NEW first, NEW S, NEW v \in Seq(S), v = Visit(g, first),
         \A h \in V, n \in S : SetDepth(h, n) \in V
  PROVE  \E f \in [0..Len(v) -> V] :
           /\ f[0] = g
           /\ \A k \in 1..Len(v) : f[k] = SetDepth(f[k - 1], v[k])
           /\ UpdateDepth(g, first) = f[Len(v)]
<1> DEFINE n == Len(v)
           Rec(it) == it = [s \in SUBSET DOMAIN v |->
                              IF s = {} THEN g ELSE SetDepth(it[s \ {Max(s)}], v[Max(s)])]
           fold == CHOOSE it : Rec(it)
           F == [p \in (1..n) \X V |-> SetDepth(p[2], v[p[1]])]
<1>1. UpdateDepth(g, first) = fold[DOMAIN v]
  BY DEF UpdateDepth, FoldLeft, MapThenFoldSet
<1>2. n \in Nat /\ DOMAIN v = 1..n /\ \A i \in 1..n : v[i] \in S
  OBVIOUS
<1> HIDE DEF n
<1>3. F \in [(1..n) \X V -> V] /\ \A i \in 1..n, h \in V : F[<<i, h>>] = SetDepth(h, v[i])
  BY <1>2
<1> HIDE DEF F
<1>4. PICK it : Folds(it, n, V, g, F)
  BY <1>2, <1>3, FoldRecursion
<1>5. \A s \in SUBSET (1..n) : s # {} => Max(s) \in 1..n /\ s \ {Max(s)} \in SUBSET (1..n)
  BY <1>2, MaxFacts
<1>6. Rec(it)
  <2>1. it \in [SUBSET (1..n) -> V] /\ it[{}] = g
    BY <1>4 DEF Folds
  <2>2. ASSUME NEW s \in SUBSET (1..n), s # {}
        PROVE  it[s] = SetDepth(it[s \ {Max(s)}], v[Max(s)])
    <3>1. it[s] = F[<<Max(s), it[s \ {Max(s)}]>>]
      BY <1>4, <2>2 DEF Folds
    <3>2. it[s \ {Max(s)}] \in V
      BY <1>5, <2>1, <2>2
    <3>3. QED
      BY <1>3, <1>5, <2>2, <3>1, <3>2
  <2>3. QED
    BY <1>2, <2>1, <2>2
<1>7. Rec(fold)
  <2> HIDE DEF Rec
  <2>1. QED
    BY <1>6
<1>8. FoldsWhere(fold, n, V, g, F)
  <2> HIDE DEF fold
  <2>1. fold[{}] = g
    BY <1>2, <1>7
  <2>2. \A s \in SUBSET (1..n) : s # {} => fold[s] = SetDepth(fold[s \ {Max(s)}], v[Max(s)])
    BY <1>2, <1>7
  <2>3. ASSUME NEW s \in SUBSET (1..n), s # {}, fold[s \ {Max(s)}] \in V
        PROVE  fold[s] = F[<<Max(s), fold[s \ {Max(s)}]>>]
    <3>1. Max(s) \in 1..n
      BY <1>5, <2>3
    <3>2. QED
      BY <1>3, <2>2, <2>3, <3>1
  <2>4. QED
    BY <2>1, <2>3 DEF FoldsWhere
<1> HIDE DEF fold
<1>9. PICK f : Follows(f, n, V, g, F) /\ f[n] = fold[1..n]
  <2>1. Computes(fold, n, V, g, F)
    BY <1>2, <1>3, <1>8, FoldFollows
  <2>2. QED
    BY <2>1 DEF Computes
<1>10. f \in [0..n -> V] /\ f[0] = g
  BY <1>9 DEF Follows
<1>11. UpdateDepth(g, first) = f[n]
  BY <1>1, <1>2, <1>9
<1>12. ASSUME NEW k \in 1..n
       PROVE  f[k] = SetDepth(f[k - 1], v[k])
  <2>1. f[k] = F[<<k, f[k - 1]>>]
    BY <1>9 DEF Follows
  <2>2. f[k - 1] \in V
    BY <1>2, <1>10
  <2>3. QED
    BY <1>3, <2>1, <2>2
<1>13. QED
  BY <1>10, <1>11, <1>12 DEF n

(* The graph without the edge to a node, and its place in the lists. *)
Detached(g, a) == RemoveDepth(RemoveChild(g, g.parent[a], a), a)

(* The graph without a node that has no edges left. *)
Without(m, a) ==
  [m EXCEPT !.nodes = @ \ {a}, !.parent[a] = None, !.children[a] = {}, !.depth[a] = 0]

(* remove_node goes through states, one for each child of the node. *)
LEMMA RemoveNodeSteps ==
  ASSUME NEW V, NEW g, NEW a, NEW S, NEW alone \in V,
         alone = Detached(g, a),
         NEW v \in Seq(S), v = Ascending(alone.children[a]),
         \A h \in V, c \in S : AddChild(h, Root, c) \in V
  PROVE  \E f \in [0..Len(v) -> V] :
           /\ f[0] = alone
           /\ \A k \in 1..Len(v) : f[k] = AddChild(f[k - 1], Root, v[k])
           /\ RemoveNode(g, a) = Without(f[Len(v)], a)
<1> DEFINE n == Len(v)
           Rec(it) == it = [s \in SUBSET DOMAIN v |->
                              IF s = {} THEN alone ELSE AddChild(it[s \ {Max(s)}], Root, v[Max(s)])]
           fold == CHOOSE it : Rec(it)
           F == [p \in (1..n) \X V |-> AddChild(p[2], Root, v[p[1]])]
<1>1. RemoveNode(g, a) = Without(fold[DOMAIN v], a)
  BY DEF RemoveNode, FoldLeft, MapThenFoldSet, Without, Detached
<1>2. n \in Nat /\ DOMAIN v = 1..n /\ \A i \in 1..n : v[i] \in S
  OBVIOUS
<1> HIDE DEF n
<1>3. F \in [(1..n) \X V -> V] /\ \A i \in 1..n, h \in V : F[<<i, h>>] = AddChild(h, Root, v[i])
  BY <1>2
<1> HIDE DEF F
<1>4. PICK it : Folds(it, n, V, alone, F)
  BY <1>2, <1>3, FoldRecursion
<1>5. \A s \in SUBSET (1..n) : s # {} => Max(s) \in 1..n /\ s \ {Max(s)} \in SUBSET (1..n)
  BY <1>2, MaxFacts
<1>6. Rec(it)
  <2>1. it \in [SUBSET (1..n) -> V] /\ it[{}] = alone
    BY <1>4 DEF Folds
  <2>2. ASSUME NEW s \in SUBSET (1..n), s # {}
        PROVE  it[s] = AddChild(it[s \ {Max(s)}], Root, v[Max(s)])
    <3>1. it[s] = F[<<Max(s), it[s \ {Max(s)}]>>]
      BY <1>4, <2>2 DEF Folds
    <3>2. it[s \ {Max(s)}] \in V
      BY <1>5, <2>1, <2>2
    <3>3. QED
      BY <1>3, <1>5, <2>2, <3>1, <3>2
  <2>3. QED
    BY <1>2, <2>1, <2>2
<1>7. Rec(fold)
  <2> HIDE DEF Rec
  <2>1. QED
    BY <1>6
<1>8. FoldsWhere(fold, n, V, alone, F)
  <2> HIDE DEF fold
  <2>1. fold[{}] = alone
    BY <1>2, <1>7
  <2>2. \A s \in SUBSET (1..n) : s # {} => fold[s] = AddChild(fold[s \ {Max(s)}], Root, v[Max(s)])
    BY <1>2, <1>7
  <2>3. ASSUME NEW s \in SUBSET (1..n), s # {}, fold[s \ {Max(s)}] \in V
        PROVE  fold[s] = F[<<Max(s), fold[s \ {Max(s)}]>>]
    <3>1. Max(s) \in 1..n
      BY <1>5, <2>3
    <3>2. QED
      BY <1>3, <2>2, <2>3, <3>1
  <2>4. QED
    BY <2>1, <2>3 DEF FoldsWhere
<1> HIDE DEF fold
<1>9. PICK f : Follows(f, n, V, alone, F) /\ f[n] = fold[1..n]
  <2>1. Computes(fold, n, V, alone, F)
    BY <1>2, <1>3, <1>8, FoldFollows
  <2>2. QED
    BY <2>1 DEF Computes
<1>10. f \in [0..n -> V] /\ f[0] = alone
  BY <1>9 DEF Follows
<1>11. RemoveNode(g, a) = Without(f[n], a)
  <2>1. fold[DOMAIN v] = f[n]
    BY <1>2, <1>9
  <2>2. QED
    BY <1>1, <2>1
<1>12. ASSUME NEW k \in 1..n
       PROVE  f[k] = AddChild(f[k - 1], Root, v[k])
  <2>1. f[k] = F[<<k, f[k - 1]>>]
    BY <1>9 DEF Follows
  <2>2. f[k - 1] \in V
    BY <1>2, <1>10
  <2>3. QED
    BY <1>3, <2>1, <2>2
<1>13. QED
  BY <1>10, <1>11, <1>12 DEF n

(* A MODULE_DOWNSTREAM update goes through states, one for each port. *)
LEMMA DownstreamSteps ==
  ASSUME NEW V, NEW g \in V, NEW a \in g.nodes, NEW u, u.type = "downstream", u.addr = a,
         NEW S, NEW v \in Seq(S), v = downstream[a],
         \A h \in V, c \in S : AttachPort(h, a, c) \in V
  PROVE  \E f \in [0..Len(v) -> V] :
           /\ f[0] = g
           /\ \A k \in 1..Len(v) : f[k] = AttachPort(f[k - 1], a, v[k])
           /\ Processed(g, u) = f[Len(v)]
<1> DEFINE n == Len(v)
           Rec(it) == it = [s \in SUBSET DOMAIN v |->
                              IF s = {} THEN g ELSE AttachPort(it[s \ {Max(s)}], a, v[Max(s)])]
           fold == CHOOSE it : Rec(it)
           F == [p \in (1..n) \X V |-> AttachPort(p[2], a, v[p[1]])]
<1>1. Processed(g, u) = fold[DOMAIN v]
  BY DEF Processed, FoldLeft, MapThenFoldSet
<1>2. n \in Nat /\ DOMAIN v = 1..n /\ \A i \in 1..n : v[i] \in S
  OBVIOUS
<1> HIDE DEF n
<1>3. F \in [(1..n) \X V -> V] /\ \A i \in 1..n, h \in V : F[<<i, h>>] = AttachPort(h, a, v[i])
  BY <1>2
<1> HIDE DEF F
<1>4. PICK it : Folds(it, n, V, g, F)
  BY <1>2, <1>3, FoldRecursion
<1>5. \A s \in SUBSET (1..n) : s # {} => Max(s) \in 1..n /\ s \ {Max(s)} \in SUBSET (1..n)
  BY <1>2, MaxFacts
<1>6. Rec(it)
  <2>1. it \in [SUBSET (1..n) -> V] /\ it[{}] = g
    BY <1>4 DEF Folds
  <2>2. ASSUME NEW s \in SUBSET (1..n), s # {}
        PROVE  it[s] = AttachPort(it[s \ {Max(s)}], a, v[Max(s)])
    <3>1. it[s] = F[<<Max(s), it[s \ {Max(s)}]>>]
      BY <1>4, <2>2 DEF Folds
    <3>2. it[s \ {Max(s)}] \in V
      BY <1>5, <2>1, <2>2
    <3>3. QED
      BY <1>3, <1>5, <2>2, <3>1, <3>2
  <2>3. QED
    BY <1>2, <2>1, <2>2
<1>7. Rec(fold)
  <2> HIDE DEF Rec
  <2>1. QED
    BY <1>6
<1>8. FoldsWhere(fold, n, V, g, F)
  <2> HIDE DEF fold
  <2>1. fold[{}] = g
    BY <1>2, <1>7
  <2>2. \A s \in SUBSET (1..n) : s # {} => fold[s] = AttachPort(fold[s \ {Max(s)}], a, v[Max(s)])
    BY <1>2, <1>7
  <2>3. ASSUME NEW s \in SUBSET (1..n), s # {}, fold[s \ {Max(s)}] \in V
        PROVE  fold[s] = F[<<Max(s), fold[s \ {Max(s)}]>>]
    <3>1. Max(s) \in 1..n
      BY <1>5, <2>3
    <3>2. QED
      BY <1>3, <2>2, <2>3, <3>1
  <2>4. QED
    BY <2>1, <2>3 DEF FoldsWhere
<1> HIDE DEF fold
<1>9. PICK f : Follows(f, n, V, g, F) /\ f[n] = fold[1..n]
  <2>1. Computes(fold, n, V, g, F)
    BY <1>2, <1>3, <1>8, FoldFollows
  <2>2. QED
    BY <2>1 DEF Computes
<1>10. f \in [0..n -> V] /\ f[0] = g
  BY <1>9 DEF Follows
<1>11. Processed(g, u) = f[n]
  BY <1>1, <1>2, <1>9
<1>12. ASSUME NEW k \in 1..n
       PROVE  f[k] = AttachPort(f[k - 1], a, v[k])
  <2>1. f[k] = F[<<k, f[k - 1]>>]
    BY <1>9 DEF Follows
  <2>2. f[k - 1] \in V
    BY <1>2, <1>10
  <2>3. QED
    BY <1>3, <2>1, <2>2
<1>13. QED
  BY <1>10, <1>11, <1>12 DEF n

-----------------------------------------------------------------------------
(***************************************************************************)
(* The sequences the folds run over.                                       *)
(***************************************************************************)

(* The first sequences of ss, one after the other. *)
Joins(fl, ss, N) ==
  /\ fl \in [0..Len(ss) -> Seq(N)]
  /\ fl[0] = <<>>
  /\ \A k \in 1..Len(ss) : fl[k] = fl[k - 1] \o ss[k]

LEMMA FlattenSteps ==
  ASSUME NEW N, NEW ss \in Seq(Seq(N))
  PROVE  \E fl : Joins(fl, ss, N) /\ FlattenSeq(ss) = fl[Len(ss)]
<1> DEFINE n == Len(ss)
           V == Seq(N)
           Rec(it) == it = [i \in 1..n |-> IF i = 1 THEN ss[i] ELSE it[i - 1] \o ss[i]]
           flat == CHOOSE it : Rec(it)
           F == [p \in (1..n) \X V |-> p[2] \o ss[p[1]]]
<1>1. n \in Nat /\ \A i \in 1..n : ss[i] \in V
  OBVIOUS
<1>2. CASE n = 0
  <2>1. FlattenSeq(ss) = ss /\ ss = <<>>
    BY <1>2 DEF FlattenSeq
  <2>2. Joins([k \in 0..0 |-> <<>>], ss, N)
    BY <1>2 DEF Joins
  <2>3. QED
    BY <1>2, <2>1, <2>2
<1>3. CASE n # 0
  <2>1. FlattenSeq(ss) = flat[n]
    BY <1>3 DEF FlattenSeq
  <2> HIDE DEF n, V
  <2>2. F \in [(1..n) \X V -> V] /\ <<>> \in V /\ \A i \in 1..n, h \in V : F[<<i, h>>] = h \o ss[i]
    <3>1. \A x, y \in V : x \o y \in V
      BY DEF V
    <3>2. <<>> \in V
      BY DEF V
    <3>3. \A p \in (1..n) \X V : p[2] \in V /\ ss[p[1]] \in V
      BY <1>1
    <3>4. \A p \in (1..n) \X V : p[2] \o ss[p[1]] \in V
      BY <3>1, <3>3
    <3>5. F \in [(1..n) \X V -> V]
      BY <3>4
    <3>6. \A i \in 1..n, h \in V : <<i, h>> \in (1..n) \X V /\ F[<<i, h>>] = h \o ss[i]
      OBVIOUS
    <3>7. QED
      BY <3>2, <3>5, <3>6
  <2> HIDE DEF F
  <2>3. PICK f : Follows(f, n, V, <<>>, F)
    BY <1>1, <2>2, Iteration
  <2>4. /\ f \in [0..n -> V] /\ f[0] = <<>>
        /\ \A k \in 1..n : f[k] = F[<<k, f[k - 1]>>]
    BY <2>3 DEF Follows
  <2> DEFINE it == [i \in 1..n |-> f[i]]
  <2>5. Rec(it)
    <3>1. ASSUME NEW i \in 1..n
          PROVE  f[i] = IF i = 1 THEN ss[i] ELSE it[i - 1] \o ss[i]
      <4>1. f[i - 1] \in V
        BY <1>1, <2>4
      <4>2. f[i] = f[i - 1] \o ss[i]
        BY <2>2, <2>4, <4>1
      <4>3. CASE i = 1
        <5>1. i - 1 = 0
          BY <4>3
        <5>2. f[i] = <<>> \o ss[i]
          BY <2>4, <4>2, <5>1
        <5>3. ss[i] \in Seq(N)
          BY <1>1 DEF V
        <5>4. QED
          BY <4>3, <5>2, <5>3
      <4>4. CASE i # 1
        <5>1. it[i - 1] = f[i - 1]
          BY <1>1, <4>4
        <5>2. QED
          BY <4>2, <4>4, <5>1
      <4>5. QED
        BY <4>3, <4>4
    <3>2. QED
      BY <3>1
  <2>6. Rec(flat)
    <3> HIDE DEF Rec, it
    <3>1. QED
      BY <2>5
  <2> DEFINE T == {k \in 1..n : flat[k] \in V}
  <2> HIDE DEF flat
  <2>7. 1 \in T
    BY <1>1, <1>3, <2>6
  <2>8. ASSUME NEW k \in 1..n, k \in T, k < n
        PROVE  k + 1 \in T
    <3>1. k + 1 \in 1..n /\ k + 1 # 1 /\ (k + 1) - 1 = k
      BY <1>1, <2>8
    <3>2. flat[k + 1] = flat[k] \o ss[k + 1]
      BY <2>6, <3>1
    <3>3. flat[k] \in Seq(N) /\ ss[k + 1] \in Seq(N)
      BY <1>1, <2>8, <3>1 DEF V
    <3>4. flat[k + 1] \in V
      BY <3>2, <3>3 DEF V
    <3>5. QED
      BY <3>1, <3>4
  <2> HIDE DEF T
  <2>9. 1..n \subseteq T
    BY <1>1, <2>7, <2>8, Inductively
  <2>10. n \in 1..n
    BY <1>1, <1>3
  <2> DEFINE fl == [k \in 0..n |-> IF k = 0 THEN <<>> ELSE flat[k]]
  <2>11. fl \in [0..n -> V] /\ fl[0] = <<>> /\ FlattenSeq(ss) = fl[n]
    <3>1. \A k \in 0..n : k = 0 \/ k \in 1..n
      OBVIOUS
    <3>2. <<>> \in V
      BY DEF V
    <3>3. 0 \in 0..n /\ n \in 0..n
      BY <1>1
    <3>4. QED
      BY <1>3, <2>1, <2>9, <3>1, <3>2, <3>3 DEF T
  <2>12. ASSUME NEW k \in 1..n
         PROVE  fl[k] = fl[k - 1] \o ss[k]
    <3>1. k \in 0..n /\ k - 1 \in 0..n /\ k # 0
      BY <1>1
    <3>2. fl[k] = flat[k]
      BY <3>1
    <3>3. CASE k = 1
      <4>1. fl[k - 1] = <<>> /\ flat[k] = ss[k]
        BY <2>6, <3>1, <3>3
      <4>2. PICK y \in Seq(N) : y = ss[k]
        BY <1>1 DEF V
      <4>3. <<>> \o y = y
        OBVIOUS
      <4> HIDE DEF fl
      <4>4. QED
        BY <3>2, <4>1, <4>2, <4>3
    <3>4. CASE k # 1
      <4>1. flat[k] = flat[k - 1] \o ss[k]
        BY <2>6, <3>4
      <4>2. k - 1 \in 0..n /\ k - 1 # 0
        BY <3>1, <3>4
      <4>3. fl[k - 1] = flat[k - 1]
        BY <4>2
      <4> HIDE DEF fl
      <4>4. QED
        BY <3>2, <4>1, <4>3
    <3>5. QED
      BY <3>3, <3>4
  <2> HIDE DEF fl
  <2>13. Joins(fl, ss, N)
    BY <2>11, <2>12 DEF Joins, n, V
  <2>14. QED
    BY <2>11, <2>13 DEF n
<1>4. QED
  BY <1>2, <1>3

LEMMA FlattenType ==
  ASSUME NEW N, NEW ss \in Seq(Seq(N))
  PROVE  FlattenSeq(ss) \in Seq(N)
<1>1. PICK fl : Joins(fl, ss, N) /\ FlattenSeq(ss) = fl[Len(ss)]
  BY FlattenSteps
<1>2. fl \in [0..Len(ss) -> Seq(N)] /\ Len(ss) \in 0..Len(ss)
  BY <1>1 DEF Joins
<1>3. QED
  BY <1>1, <1>2

(* A set of addresses is finite, and its ascending enumeration exists. *)
Enumerates(s, n, S) ==
  s \in [1..n -> S] /\ \A i, j \in 1..n : i < j => s[i] < s[j]

LEMMA AddressesFinite ==
  ASSUME NEW S \in SUBSET (0..255)
  PROVE  IsFiniteSet(S) /\ Cardinality(S) \in Nat /\ Cardinality(S) <= 256
<1>1. IsFiniteSet(0..255) /\ Cardinality(0..255) = 256
  <2>1. PICK b \in Nat : b = 255
    OBVIOUS
  <2>2. IsFiniteSet(0..b) /\ Cardinality(0..b) = b + 1
    BY FS_Interval
  <2>3. QED
    BY <2>1, <2>2
<1>2. IsFiniteSet(S) /\ Cardinality(S) <= Cardinality(0..255)
  BY <1>1, FS_Subset, Zenon
<1>3. QED
  BY <1>1, <1>2, FS_CardinalityType

LEMMA EnumerationExists ==
  ASSUME NEW S \in SUBSET (0..255)
  PROVE  \E s : Enumerates(s, Cardinality(S), S)
<1> DEFINE T == {k \in 0..256 : \A R \in SUBSET (0..255) :
                                   Cardinality(R) = k => \E s : Enumerates(s, k, R)}
<1>1. 0 \in T
  <2>1. ASSUME NEW R \in SUBSET (0..255), Cardinality(R) = 0
        PROVE  \E s : Enumerates(s, 0, R)
    <3>1. Enumerates(<<>>, 0, R)
      BY DEF Enumerates
    <3>2. QED
      BY <3>1
  <2>2. QED
    BY <2>1
<1>2. ASSUME NEW k \in 0..256, k \in T, k < 256
      PROVE  k + 1 \in T
  <2>1. ASSUME NEW R \in SUBSET (0..255), Cardinality(R) = k + 1
        PROVE  \E s : Enumerates(s, k + 1, R)
    <3>1. R # {}
      BY <2>1, FS_EmptySet
    <3>2. PICK x \in R : \A y \in R : y <= x
      <4>1. 255 \in Nat
        OBVIOUS
      <4>2. QED
        BY <3>1, <4>1, Largest
    <3> DEFINE Q == R \ {x}
    <3>3. Q \in SUBSET (0..255) /\ Cardinality(Q) = k
      <4>1. Cardinality(Q) = Cardinality(R) - 1
        BY <3>2, AddressesFinite, FS_RemoveElement
      <4>2. QED
        BY <2>1, <4>1
    <3>4. PICK q : Enumerates(q, k, Q)
      <4> HIDE DEF Q
      <4>1. QED
        BY <1>2, <3>3
    <3>5. q \in [1..k -> Q] /\ \A i, j \in 1..k : i < j => q[i] < q[j]
      BY <3>4 DEF Enumerates
    <3>6. ASSUME NEW i \in 1..k
          PROVE  q[i] \in R /\ q[i] < x
      <4>1. q[i] \in R /\ q[i] # x
        BY <3>5
      <4>2. \A y \in R : y # x => y < x
        BY <3>2
      <4>3. QED
        BY <4>1, <4>2
    <3> HIDE DEF Q
    <3> DEFINE s == [i \in 1..k + 1 |-> IF i = k + 1 THEN x ELSE q[i]]
    <3>7. ASSUME NEW i \in 1..k + 1
          PROVE  s[i] \in R /\ (i # k + 1 => i \in 1..k /\ s[i] = q[i])
      BY <3>6
    <3>8. s[k + 1] = x
      OBVIOUS
    <3>9. s \in [1..k + 1 -> R]
      BY <3>7
    <3> HIDE DEF s
    <3>10. ASSUME NEW i \in 1..k + 1, NEW j \in 1..k + 1, i < j
           PROVE  s[i] < s[j]
      <4>1. i \in 1..k /\ s[i] = q[i]
        BY <3>7, <3>10
      <4>2. CASE j = k + 1
        BY <3>6, <3>8, <4>1, <4>2
      <4>3. CASE j # k + 1
        BY <3>5, <3>7, <3>10, <4>1, <4>3
      <4>4. QED
        BY <4>2, <4>3
    <3>11. Enumerates(s, k + 1, R)
      BY <3>9, <3>10 DEF Enumerates
    <3>12. QED
      BY <3>11
  <2>2. k + 1 \in 0..256
    BY <1>2
  <2>3. QED
    BY <2>1, <2>2
<1> HIDE DEF T
<1>3. 0..256 \subseteq T
  BY <1>1, <1>2, Inductively
<1>4. Cardinality(S) \in 0..256
  BY AddressesFinite
<1>5. QED
  BY <1>3, <1>4 DEF T

LEMMA NodesFinite ==
  /\ Nodes \in SUBSET (0..255)
  /\ IsFiniteSet(Nodes) /\ Cardinality(Nodes) \in Nat /\ Cardinality(Nodes) <= 256
<1>1. Nodes \in SUBSET (0..255)
  BY TopologyAssumption DEF Nodes, Root
<1>2. QED
  BY <1>1, AddressesFinite

(* More indices than values. *)
LEMMA Collision ==
  ASSUME NEW n \in Nat, NEW Q, IsFiniteSet(Q), Cardinality(Q) < n, NEW s \in [1..n -> Q]
  PROVE  \E i, j \in 1..n : i # j /\ s[i] = s[j]
<1>1. n # 0 /\ Cardinality(Q) \in Nat
  BY FS_CardinalityType
<1>2. IsFiniteSet(1..n) /\ Cardinality(1..n) = n
  BY <1>1, FS_Interval
<1>3. Cardinality(Q) < Cardinality(1..n)
  BY <1>2
<1>4. PICK I : I = 1..n
  OBVIOUS
<1>5. IsFiniteSet(I) /\ Cardinality(Q) < Cardinality(I) /\ s \in [I -> Q]
  BY <1>2, <1>3, <1>4
<1>6. \E i, j \in I : i # j /\ s[i] = s[j]
  BY <1>5, FS_PigeonHole, Zenon
<1>7. QED
  BY <1>4, <1>6

(* The children of a node, in order, are all of them. *)
LEMMA AscendingFacts ==
  ASSUME NEW S \in SUBSET (0..255)
  PROVE  /\ Ascending(S) \in Seq(S)
         /\ \A x \in S : \E i \in 1..Len(Ascending(S)) : Ascending(S)[i] = x
<1> DEFINE n == Cardinality(S)
           s == Ascending(S)
<1>1. IsFiniteSet(S) /\ n \in Nat
  BY AddressesFinite
<1>2. s \in [1..n -> S] /\ \A i, j \in 1..n : i < j => s[i] < s[j]
  <2>1. \E t : t \in [1..n -> S] /\ \A i, j \in 1..n : i < j => t[i] < t[j]
    BY EnumerationExists DEF Enumerates
  <2> HIDE DEF n
  <2>2. \E t \in [1..n -> S] : \A i, j \in 1..n : i < j => t[i] < t[j]
    BY <2>1
  <2>3. s = CHOOSE t \in [1..n -> S] : \A i, j \in 1..n : i < j => t[i] < t[j]
    BY DEF Ascending, n
  <2> HIDE DEF s
  <2>4. QED
    BY <2>2, <2>3
<1> HIDE DEF n, s
<1>3. s \in Seq(S) /\ Len(s) = n
  BY <1>1, <1>2
<1>4. ASSUME NEW x \in S, \A i \in 1..n : s[i] # x
      PROVE  FALSE
  <2> DEFINE Q == S \ {x}
  <2>1. IsFiniteSet(Q) /\ Cardinality(Q) = n - 1
    BY <1>1, FS_RemoveElement DEF n
  <2>2. s \in [1..n -> Q]
    BY <1>2, <1>4
  <2> HIDE DEF Q
  <2>3. Cardinality(Q) < n
    BY <1>1, <2>1
  <2>4. IsFiniteSet(Q)
    BY <2>1
  <2>5. PICK i, j \in 1..n : i # j /\ s[i] = s[j]
    BY <1>1, <2>2, <2>3, <2>4, Collision
  <2>6. s[i] \in Nat /\ s[j] \in Nat
    <3>1. s[i] \in S /\ s[j] \in S
      <4>1. \A k \in 1..n : s[k] \in S
        BY <1>2
      <4>2. i \in 1..n /\ j \in 1..n
        BY <2>5
      <4>3. QED
        BY <4>1, <4>2
    <3>2. \A y \in S : y \in Nat
      OBVIOUS
    <3>3. QED
      BY <3>1, <3>2
  <2>7. QED
    BY <1>1, <1>2, <2>5, <2>6
<1>5. \A x \in S : \E i \in 1..n : s[i] = x
  BY <1>4
<1>6. QED
  BY <1>3, <1>5 DEF s

(* A node, and what is visited below each of its children in turn. *)
Below(n, nx, h) == <<n>> \o FlattenSeq([i \in 1..Len(nx) |-> h[nx[i]]])

LEMMA VisitStep ==
  ASSUME NEW N, NEW n \in N, NEW nx \in Seq(N), NEW h, \A x \in N : h[x] \in Seq(N)
  PROVE  Below(n, nx, h) \in Seq(N) /\ Below(n, nx, h) # <<>> /\ Below(n, nx, h)[1] = n
<1> DEFINE ss == [i \in 1..Len(nx) |-> h[nx[i]]]
<1>1. ss \in Seq(Seq(N))
  <2>1. Len(nx) \in Nat /\ \A i \in 1..Len(nx) : nx[i] \in N
    OBVIOUS
  <2>2. \A i \in 1..Len(nx) : h[nx[i]] \in Seq(N)
    BY <2>1
  <2>3. QED
    BY <2>1, <2>2
<1> HIDE DEF ss
<1>2. FlattenSeq(ss) \in Seq(N)
  BY <1>1, FlattenType
<1>3. Below(n, nx, h) = <<n>> \o FlattenSeq(ss)
  BY DEF ss, Below
<1>4. PICK w \in Seq(N) : w = FlattenSeq(ss)
  BY <1>2
<1>5. <<n>> \in Seq(N) /\ Len(<<n>>) = 1 /\ <<n>>[1] = n /\ Len(w) \in Nat
  OBVIOUS
<1>6. PICK v : v = <<n>> \o w
  OBVIOUS
<1>7. v \in Seq(N) /\ Len(v) = Len(<<n>>) + Len(w) /\ v[1] = n
  BY <1>5, <1>6, ConcatProperties
<1>8. v # <<>>
  BY <1>5, <1>7
<1>9. QED
  BY <1>3, <1>4, <1>6, <1>7, <1>8

(* What is visited below each node, as far as k steps down, when nothing is  *)
(* visited below first again.                                               *)
Descents(it, g, first) ==
  \A k \in 0..Cardinality(Nodes) : \A n \in Nodes :
    it[k][n] = IF k = 0 THEN <<n>>
               ELSE Below(n, Ascending(g.children[n] \ {first}), it[k - 1])

NextType(g, first) ==
  \A M \in SUBSET Nodes : \A n \in M :
    g.children[n] \subseteq M => Ascending(g.children[n] \ {first}) \in Seq(M)

(* The recursive function behind Visit exists.                              *)
LEMMA VisitRecursion ==
  ASSUME NEW g, g.children \in [Nodes -> SUBSET Addresses], NEW first
  PROVE  /\ NextType(g, first)
         /\ \E it : Descents(it, g, first) /\ Visit(g, first) = it[Cardinality(Nodes)][first]
<1> DEFINE C == Cardinality(Nodes)
           next(n) == Ascending(g.children[n] \ {first})
           Rec(it) == it = [k \in 0..C |->
                             [n \in Nodes |->
                               IF k = 0 THEN <<n>> ELSE Below(n, next(n), it[k - 1])]]
           below == CHOOSE it : Rec(it)
           W == [Nodes -> Seq(Nodes)]
           Down(h) == [n \in Nodes |-> Below(n, next(n), h)]
           base == [n \in Nodes |-> <<n>>]
           F == [p \in (1..C) \X W |-> Down(p[2])]
<1>1. Visit(g, first) = below[C][first]
  BY DEF Visit, Below
<1>2. C \in Nat
  <2>1. Nodes \in SUBSET (0..255)
    BY TopologyAssumption DEF Nodes, Root
  <2>2. QED
    BY <2>1, AddressesFinite
<1>3. ASSUME NEW M \in SUBSET Nodes, NEW n \in M, g.children[n] \subseteq M
      PROVE  next(n) \in Seq(M)
  <2>1. g.children[n] \ {first} \subseteq M
    BY <1>3
  <2>2. M \subseteq 0..255
    BY TopologyAssumption DEF Nodes, Root
  <2>3. g.children[n] \ {first} \in SUBSET (0..255)
    BY <2>1, <2>2
  <2>4. next(n) \in Seq(g.children[n] \ {first})
    BY <2>3, AscendingFacts
  <2>5. QED
    BY <2>1, <2>4, SeqMonotonic, Zenon
<1> HIDE DEF C, next
<1>4. ASSUME NEW h \in W
      PROVE  Down(h) \in W
  <2>1. ASSUME NEW n \in Nodes
        PROVE  Below(n, next(n), h) \in Seq(Nodes)
    <3>1. g.children[n] \subseteq Nodes
      BY DEF Nodes
    <3>2. next(n) \in Seq(Nodes)
      BY <1>3, <3>1
    <3>3. \A x \in Nodes : h[x] \in Seq(Nodes)
      OBVIOUS
    <3>4. QED
      BY <3>2, <3>3, VisitStep
  <2>2. QED
    BY <2>1
<1>5. base \in W
  OBVIOUS
<1> HIDE DEF Down, base
<1>6. F \in [(1..C) \X W -> W] /\ \A k \in 1..C, h \in W : F[<<k, h>>] = Down(h)
  <2> HIDE DEF W
  <2>1. \A p \in (1..C) \X W : p[2] \in W
    OBVIOUS
  <2>2. QED
    BY <1>4, <2>1
<1> HIDE DEF W, F
<1>7. PICK f : Follows(f, C, W, base, F)
  BY <1>2, <1>5, <1>6, Iteration
<1>8. Rec(f)
  <2>1. /\ f \in [0..C -> W] /\ f[0] = base
        /\ \A k \in 1..C : f[k] = F[<<k, f[k - 1]>>]
    BY <1>7 DEF Follows
  <2>2. ASSUME NEW k \in 1..C
        PROVE  f[k] = Down(f[k - 1])
    <3>1. f[k - 1] \in W
      BY <1>2, <2>1
    <3>2. QED
      BY <1>6, <2>1, <3>1
  <2>3. \A k \in 0..C :
          f[k] = [n \in Nodes |-> IF k = 0 THEN <<n>> ELSE Below(n, next(n), f[k - 1])]
    <3>1. ASSUME NEW k \in 0..C, k = 0
          PROVE  f[k] = [n \in Nodes |-> IF k = 0 THEN <<n>> ELSE Below(n, next(n), f[k - 1])]
      BY <2>1, <3>1 DEF base
    <3>2. ASSUME NEW k \in 0..C, k # 0
          PROVE  f[k] = [n \in Nodes |-> IF k = 0 THEN <<n>> ELSE Below(n, next(n), f[k - 1])]
      <4>1. f[k] = Down(f[k - 1])
        BY <1>2, <2>2, <3>2
      <4>2. QED
        BY <3>2, <4>1 DEF Down
    <3>3. QED
      BY <3>1, <3>2
  <2>4. QED
    BY <2>1, <2>3
<1>9. Rec(below)
  <2> HIDE DEF Rec
  <2>1. QED
    BY <1>8
<1> HIDE DEF below
<1>10. \A k \in 0..C, n \in Nodes :
         below[k][n] = IF k = 0 THEN <<n>> ELSE Below(n, next(n), below[k - 1])
  <2>1. \A k \in 0..C :
          below[k] = [n \in Nodes |-> IF k = 0 THEN <<n>> ELSE Below(n, next(n), below[k - 1])]
    BY <1>9
  <2> HIDE DEF Rec
  <2>2. QED
    BY <2>1
<1>11. NextType(g, first)
  BY <1>3 DEF NextType, next
<1>12. Descents(below, g, first)
  BY <1>10 DEF Descents, C, next
<1>13. QED
  BY <1>1, <1>11, <1>12 DEF C

Begins(v, n, N) == v \in Seq(N) /\ v # <<>> /\ v[1] = n

(* A descent begins with its node and stays in a set that holds the         *)
(* children of its members.                                                 *)
LEMMA DescentFacts ==
  ASSUME NEW g, g.children \in [Nodes -> SUBSET Addresses], NEW first,
         NEW N \in SUBSET Nodes, \A n \in N : g.children[n] \subseteq N,
         NEW below, Descents(below, g, first),
         NEW j \in 0..Cardinality(Nodes), NEW n \in N
  PROVE  Begins(below[j][n], n, N)
<1> DEFINE C == Cardinality(Nodes)
           next(m) == Ascending(g.children[m] \ {first})
<1>1. NextType(g, first)
  BY VisitRecursion
<1>2. C \in Nat
  <2>1. Nodes \in SUBSET (0..255)
    BY TopologyAssumption DEF Nodes, Root
  <2>2. QED
    BY <2>1, AddressesFinite
<1>3. \A m \in N : next(m) \in Seq(N)
  BY <1>1 DEF NextType
<1>4. \A k \in 0..C, m \in Nodes :
        below[k][m] = IF k = 0 THEN <<m>> ELSE Below(m, next(m), below[k - 1])
  BY DEF Descents
<1> HIDE DEF C, next
<1> DEFINE Fine(k) == \A m \in N : /\ below[k][m] \in Seq(N)
                                   /\ below[k][m] # <<>> /\ below[k][m][1] = m
           T == {k \in 0..C : Fine(k)}
<1>5. 0 \in T
  <2>1. 0 \in 0..C
    BY <1>2
  <2>2. \A m \in N : below[0][m] = <<m>>
    BY <1>4, <2>1
  <2>3. \A m \in N : <<m>> \in Seq(N) /\ <<m>> # <<>> /\ <<m>>[1] = m
    OBVIOUS
  <2>4. QED
    BY <2>1, <2>2, <2>3
<1>6. ASSUME NEW k \in 0..C, k \in T, k < C
       PROVE  k + 1 \in T
  <2>1. k + 1 \in 0..C /\ k + 1 # 0 /\ (k + 1) - 1 = k
    BY <1>2, <1>6
  <2>2. ASSUME NEW m \in N
        PROVE  /\ below[k + 1][m] \in Seq(N)
               /\ below[k + 1][m] # <<>> /\ below[k + 1][m][1] = m
    <3>1. below[k + 1][m] = Below(m, next(m), below[k])
      <4>1. m \in Nodes
        OBVIOUS
      <4>2. QED
        BY <1>4, <2>1, <4>1
    <3>2. next(m) \in Seq(N)
      BY <1>3
    <3>3. \A x \in N : below[k][x] \in Seq(N)
      BY <1>6
    <3>4. QED
      BY <3>1, <3>2, <3>3, VisitStep
  <2>3. QED
    BY <2>1, <2>2
<1>7. 0..C \subseteq T
  <2> HIDE DEF T
  <2>1. QED
    BY <1>2, <1>5, <1>6, Inductively
<1>8. j \in T
  BY <1>7 DEF C
<1>9. QED
  BY <1>8 DEF Begins

(* update_depth visits the node it is called for first, and never leaves a  *)
(* set that holds the children of its members.                              *)
LEMMA VisitFacts ==
  ASSUME NEW g, g.children \in [Nodes -> SUBSET Addresses],
         NEW N \in SUBSET Nodes, NEW first \in N, \A n \in N : g.children[n] \subseteq N
  PROVE  /\ Visit(g, first) \in Seq(N)
         /\ Visit(g, first) # <<>>
         /\ Visit(g, first)[1] = first
<1>1. PICK below : /\ Descents(below, g, first)
                   /\ Visit(g, first) = below[Cardinality(Nodes)][first]
  BY VisitRecursion
<1>2. Cardinality(Nodes) \in 0..Cardinality(Nodes)
  BY NodesFinite
<1>3. PICK C : C = Cardinality(Nodes)
  OBVIOUS
<1>4. C \in 0..Cardinality(Nodes) /\ Descents(below, g, first) /\ Visit(g, first) = below[C][first]
  BY <1>1, <1>2, <1>3
<1>5. Begins(below[C][first], first, N)
  BY <1>4, DescentFacts
<1>6. QED
  BY <1>4, <1>5 DEF Begins

-----------------------------------------------------------------------------
(***************************************************************************)
(* Chains: from a node to a child of it, to a child of that, and so on.    *)
(***************************************************************************)

(* f leads in k steps down from b, and never to x. *)
Chain(f, k, g, b, x) ==
  /\ f \in [0..k -> Nodes]
  /\ f[0] = b
  /\ \A i \in 1..k : f[i] \in g.children[f[i - 1]] \ {x}

(* Among the nodes of S each has one parent, and the root node none. *)
Forest(g, S) ==
  \A p \in S : /\ g.children[p] \subseteq S \ {Root}
               /\ \A n \in g.children[p] : g.parent[n] = p

LEMMA ChainStays ==
  ASSUME NEW g, NEW S \in SUBSET Nodes, Forest(g, S), NEW b \in S, NEW x,
         NEW k \in Nat, NEW f, Chain(f, k, g, b, x)
  PROVE  f \in [0..k -> S]
<1> DEFINE T == {i \in 0..k : f[i] \in S}
<1>1. f \in [0..k -> Nodes] /\ f[0] = b /\ \A i \in 1..k : f[i] \in g.children[f[i - 1]]
  BY DEF Chain
<1>2. 0 \in T
  BY <1>1
<1>3. ASSUME NEW i \in 0..k, i \in T, i < k
      PROVE  i + 1 \in T
  <2>1. i + 1 \in 1..k /\ i + 1 \in 0..k /\ (i + 1) - 1 = i
    BY <1>3
  <2>2. f[i + 1] \in g.children[f[i]]
    BY <1>1, <2>1
  <2>3. QED
    BY <1>3, <2>1, <2>2 DEF Forest
<1> HIDE DEF T
<1>4. 0..k \subseteq T
  BY <1>2, <1>3, Inductively
<1>5. QED
  BY <1>1, <1>4 DEF T

(* A chain meets no node twice, when it does not come back to its first. *)
LEMMA ChainInjective ==
  ASSUME NEW g, NEW S \in SUBSET Nodes, Forest(g, S), NEW b \in S, NEW x, x = b \/ b = Root,
         NEW k \in Nat, NEW f, Chain(f, k, g, b, x)
  PROVE  \A i, j \in 0..k : i < j => f[i] # f[j]
<1>1. f \in [0..k -> S]
  BY ChainStays
<1>2. f[0] = b /\ \A i \in 1..k : f[i] \in g.children[f[i - 1]] \ {x}
  BY DEF Chain
<1>3. \A i \in 1..k : f[i - 1] \in S
  BY <1>1
<1>4. \A i \in 1..k : g.parent[f[i]] = f[i - 1] /\ f[i] # b
  BY <1>2, <1>3 DEF Forest
<1> DEFINE T == {i \in 0..k : \A j \in 0..k : i < j => f[i] # f[j]}
<1>5. 0 \in T
  <2>1. \A j \in 0..k : 0 < j => j \in 1..k
    OBVIOUS
  <2>2. QED
    BY <1>2, <1>4, <2>1
<1>6. ASSUME NEW i \in 0..k, i \in T, i < k
      PROVE  i + 1 \in T
  <2>1. i + 1 \in 1..k /\ i + 1 \in 0..k /\ (i + 1) - 1 = i
    BY <1>6
  <2>2. ASSUME NEW j \in 0..k, i + 1 < j, f[i + 1] = f[j]
        PROVE  FALSE
    <3>1. j \in 1..k /\ j - 1 \in 0..k /\ i < j - 1
      BY <2>2
    <3>2. f[i] = f[j - 1]
      BY <1>4, <2>1, <2>2, <3>1
    <3>3. QED
      BY <1>6, <3>1, <3>2
  <2>3. QED
    BY <2>1, <2>2
<1> HIDE DEF T
<1>7. 0..k \subseteq T
  BY <1>5, <1>6, Inductively
<1>8. QED
  BY <1>7 DEF T

(* So it is shorter than there are nodes. *)
LEMMA ChainShort ==
  ASSUME NEW g, NEW S \in SUBSET Nodes, Forest(g, S), NEW b \in S, NEW x, x = b \/ b = Root,
         NEW k \in Nat, NEW f, Chain(f, k, g, b, x)
  PROVE  k < Cardinality(Nodes)
<1>1. SUFFICES ASSUME ~(k < Cardinality(Nodes)) PROVE FALSE
  OBVIOUS
<1>2. \A i, j \in 0..k : i < j => f[i] # f[j]
  BY ChainInjective
<1>3. f \in [0..k -> Nodes]
  BY DEF Chain
<1> DEFINE s == [i \in 1..k + 1 |-> f[i - 1]]
<1>4. \A i \in 1..k + 1 : i - 1 \in 0..k
  OBVIOUS
<1>5. s \in [1..k + 1 -> Nodes]
  BY <1>3, <1>4
<1>6. \A i, j \in 1..k + 1 : i < j => s[i] # s[j]
  <2>1. ASSUME NEW i \in 1..k + 1, NEW j \in 1..k + 1, i < j
        PROVE  s[i] # s[j]
    <3>1. i - 1 \in 0..k /\ j - 1 \in 0..k /\ i - 1 < j - 1
      BY <2>1
    <3>2. QED
      BY <1>2, <3>1
  <2>2. QED
    BY <2>1
<1> HIDE DEF s
<1>7. k + 1 \in Nat /\ Cardinality(Nodes) < k + 1
  BY <1>1, NodesFinite
<1>8. PICK i, j \in 1..k + 1 : i # j /\ s[i] = s[j]
  BY <1>5, <1>7, NodesFinite, Collision
<1>9. i < j \/ j < i
  BY <1>8
<1>10. QED
  BY <1>6, <1>8, <1>9

LEMMA ChainPrefix ==
  ASSUME NEW g, NEW b, NEW x, NEW k \in Nat, NEW f, Chain(f, k, g, b, x), NEW j \in 0..k
  PROVE  Chain([i \in 0..j |-> f[i]], j, g, b, x)
<1> DEFINE e == [i \in 0..j |-> f[i]]
<1>1. f \in [0..k -> Nodes] /\ f[0] = b /\ \A i \in 1..k : f[i] \in g.children[f[i - 1]] \ {x}
  BY DEF Chain
<1>2. \A i \in 0..j : i \in 0..k /\ e[i] = f[i]
  OBVIOUS
<1>3. e \in [0..j -> Nodes] /\ e[0] = b
  BY <1>1, <1>2
<1>4. ASSUME NEW i \in 1..j
      PROVE  e[i] \in g.children[e[i - 1]] \ {x}
  <2>1. i \in 1..k /\ i \in 0..j /\ i - 1 \in 0..j
    OBVIOUS
  <2>2. QED
    BY <1>1, <1>2, <2>1
<1> HIDE DEF e
<1>5. Chain(e, j, g, b, x)
  BY <1>3, <1>4 DEF Chain
<1>6. QED
  BY <1>5 DEF e

LEMMA ChainExtends ==
  ASSUME NEW g, NEW b, NEW x, NEW k \in Nat, NEW f, Chain(f, k, g, b, x),
         NEW n \in Nodes, n \in g.children[f[k]] \ {x}
  PROVE  Chain([i \in 0..k + 1 |-> IF i = k + 1 THEN n ELSE f[i]], k + 1, g, b, x)
<1> DEFINE e == [i \in 0..k + 1 |-> IF i = k + 1 THEN n ELSE f[i]]
<1>1. f \in [0..k -> Nodes] /\ f[0] = b /\ \A i \in 1..k : f[i] \in g.children[f[i - 1]] \ {x}
  BY DEF Chain
<1>2. e[k + 1] = n /\ \A i \in 0..k : e[i] = f[i] /\ i \in 0..k + 1
  OBVIOUS
<1>3. e \in [0..k + 1 -> Nodes] /\ e[0] = b
  <2>1. \A i \in 0..k + 1 : i = k + 1 \/ i \in 0..k
    OBVIOUS
  <2>2. QED
    BY <1>1, <1>2, <2>1
<1> HIDE DEF e
<1>4. ASSUME NEW i \in 1..k + 1
      PROVE  e[i] \in g.children[e[i - 1]] \ {x}
  <2>1. CASE i = k + 1
    <3>1. i - 1 = k /\ k \in 0..k
      BY <2>1
    <3>2. QED
      BY <1>2, <2>1, <3>1
  <2>2. CASE i # k + 1
    <3>1. i \in 1..k /\ i \in 0..k /\ i - 1 \in 0..k
      BY <2>2
    <3>2. QED
      BY <1>1, <1>2, <3>1
  <2>3. QED
    BY <2>1, <2>2
<1>5. Chain(e, k + 1, g, b, x)
  BY <1>3, <1>4 DEF Chain
<1>6. QED
  BY <1>5 DEF e

-----------------------------------------------------------------------------
(***************************************************************************)
(* Children are visited after their parents.                               *)
(***************************************************************************)

(* After each of its elements w has the members of G for it, later on. *)
Later(w, G) ==
  \A i \in 1..Len(w) : \A x \in G[w[i]] : \E j \in 1..Len(w) : i < j /\ w[j] = x

Meets(w, y) == \E i \in 1..Len(w) : w[i] = y

LEMMA LaterConcat ==
  ASSUME NEW N, NEW u \in Seq(N), NEW w \in Seq(N), NEW G
  PROVE  /\ Later(u, G) /\ Later(w, G) => Later(u \o w, G)
         /\ \A y : Meets(u, y) \/ Meets(w, y) => Meets(u \o w, y)
<1> DEFINE m == Len(u)
           n == Len(w)
<1>1. PICK v : v = u \o w
  OBVIOUS
<1>2. m \in Nat /\ n \in Nat
  OBVIOUS
<1>3. /\ v \in Seq(N) /\ Len(v) = m + n
      /\ \A i \in 1..m + n : v[i] = IF i <= m THEN u[i] ELSE w[i - m]
  BY <1>1, ConcatProperties
<1> HIDE DEF m, n
<1>4. \A i \in 1..m : i \in 1..Len(v) /\ v[i] = u[i]
  BY <1>2, <1>3
<1>5. ASSUME NEW i \in 1..n
      PROVE  i + m \in 1..Len(v) /\ v[i + m] = w[i]
  <2>1. i + m \in 1..m + n /\ ~(i + m <= m) /\ (i + m) - m = i
    BY <1>2
  <2>2. QED
    BY <1>3, <2>1
<1>6. ASSUME NEW i \in 1..Len(v), ~(i <= m)
      PROVE  i - m \in 1..n /\ v[i] = w[i - m] /\ (i - m) + m = i
  BY <1>2, <1>3, <1>6
<1>7. ASSUME Later(u, G), Later(w, G), NEW i \in 1..Len(v), NEW x \in G[v[i]]
      PROVE  \E j \in 1..Len(v) : i < j /\ v[j] = x
  <2>1. CASE i <= m
    <3>1. i \in 1..m /\ v[i] = u[i]
      BY <1>2, <1>3, <1>4, <2>1
    <3>2. PICK j \in 1..m : i < j /\ u[j] = x
      BY <1>7, <3>1 DEF Later, m
    <3>3. QED
      BY <1>4, <3>2
  <2>2. CASE ~(i <= m)
    <3>1. i - m \in 1..n /\ v[i] = w[i - m]
      BY <1>6, <2>2
    <3>2. PICK j \in 1..n : i - m < j /\ w[j] = x
      BY <1>7, <3>1 DEF Later, n
    <3>3. i < j + m
      BY <1>2, <1>3, <3>2
    <3>4. QED
      BY <1>5, <3>2, <3>3
  <2>3. QED
    BY <2>1, <2>2
<1>8. Later(u, G) /\ Later(w, G) => Later(v, G)
  BY <1>7 DEF Later
<1>9. \A y : Meets(u, y) => Meets(v, y)
  BY <1>4 DEF Meets, m
<1>10. \A y : Meets(w, y) => Meets(v, y)
  BY <1>5 DEF Meets, n
<1>11. QED
  BY <1>1, <1>8, <1>9, <1>10

LEMMA FlattenLater ==
  ASSUME NEW N, NEW ss \in Seq(Seq(N)), NEW G, \A m \in 1..Len(ss) : Later(ss[m], G)
  PROVE  /\ Later(FlattenSeq(ss), G)
         /\ \A y : \A m \in 1..Len(ss) : Meets(ss[m], y) => Meets(FlattenSeq(ss), y)
<1> DEFINE n == Len(ss)
<1>1. n \in Nat /\ \A m \in 1..n : ss[m] \in Seq(N)
  OBVIOUS
<1>2. PICK fl : Joins(fl, ss, N) /\ FlattenSeq(ss) = fl[n]
  BY FlattenSteps
<1>3. fl \in [0..n -> Seq(N)] /\ fl[0] = <<>> /\ \A k \in 1..n : fl[k] = fl[k - 1] \o ss[k]
  BY <1>2 DEF Joins
<1> DEFINE Good(k) == /\ Later(fl[k], G)
                      /\ \A y : \A m \in 1..k : Meets(ss[m], y) => Meets(fl[k], y)
           T == {k \in 0..n : Good(k)}
<1> HIDE DEF n
<1>4. 0 \in T
  <2>1. Later(fl[0], G)
    BY <1>3 DEF Later
  <2>2. 0 \in 0..n /\ 1..0 = {}
    BY <1>1
  <2>3. QED
    BY <2>1, <2>2
<1>5. ASSUME NEW k \in 0..n, k \in T, k < n
      PROVE  k + 1 \in T
  <2>1. k + 1 \in 1..n /\ k + 1 \in 0..n /\ (k + 1) - 1 = k
    BY <1>1, <1>5
  <2>2. PICK u \in Seq(N), w \in Seq(N) : u = fl[k] /\ w = ss[k + 1]
    BY <1>1, <1>3, <2>1
  <2>3. fl[k + 1] = u \o w
    BY <1>3, <2>1, <2>2
  <2>4. Later(w, G)
    BY <2>1, <2>2 DEF n
  <2>5. Later(u, G) /\ \A y : \A m \in 1..k : Meets(ss[m], y) => Meets(u, y)
    BY <1>5, <2>2
  <2>6. Later(u \o w, G) /\ \A y : Meets(u, y) \/ Meets(w, y) => Meets(u \o w, y)
    BY <2>4, <2>5, LaterConcat
  <2>7. \A m \in 1..k + 1 : m \in 1..k \/ m = k + 1
    BY <1>1
  <2>8. \A y : \A m \in 1..k + 1 : Meets(ss[m], y) => Meets(u \o w, y)
    BY <2>2, <2>5, <2>6, <2>7
  <2>9. QED
    BY <2>1, <2>3, <2>6, <2>8
<1> HIDE DEF T
<1>6. 0..n \subseteq T
  BY <1>1, <1>4, <1>5, Inductively
<1>7. n \in T
  BY <1>1, <1>6
<1>8. QED
  BY <1>2, <1>7 DEF T, n

LEMMA BelowLater ==
  ASSUME NEW N, NEW n \in N, NEW nx \in Seq(N), NEW h, NEW G,
         \A x \in N : Begins(h[x], x, N),
         \A i \in 1..Len(nx) : Later(h[nx[i]], G),
         \A x \in G[n] : Meets(nx, x)
  PROVE  Later(Below(n, nx, h), G)
<1> DEFINE ss == [i \in 1..Len(nx) |-> h[nx[i]]]
<1>1. Len(nx) \in Nat /\ \A i \in 1..Len(nx) : nx[i] \in N
  OBVIOUS
<1>2. ss \in Seq(Seq(N)) /\ Len(ss) = Len(nx)
  <2>1. \A i \in 1..Len(nx) : h[nx[i]] \in Seq(N)
    BY <1>1 DEF Begins
  <2>2. QED
    BY <1>1, <2>1
<1>3. \A i \in 1..Len(nx) : ss[i] = h[nx[i]]
  OBVIOUS
<1>4. Below(n, nx, h) = <<n>> \o FlattenSeq(ss)
  BY DEF Below
<1> HIDE DEF ss
<1>5. PICK w \in Seq(N) : w = FlattenSeq(ss)
  BY <1>2, FlattenType
<1>6. Later(w, G) /\ \A y : \A i \in 1..Len(nx) : Meets(ss[i], y) => Meets(w, y)
  <2>1. \A i \in 1..Len(ss) : Later(ss[i], G)
    BY <1>2, <1>3
  <2>2. QED
    BY <1>2, <1>5, <2>1, FlattenLater
<1>7. ASSUME NEW x \in G[n]
      PROVE  Meets(w, x)
  <2>1. PICK i \in 1..Len(nx) : nx[i] = x
    BY <1>7 DEF Meets
  <2>2. Begins(ss[i], x, N)
    BY <1>1, <1>3, <2>1
  <2>3. Meets(ss[i], x)
    <3>1. PICK t \in Seq(N) : t = ss[i] /\ t # <<>> /\ t[1] = x
      BY <2>2 DEF Begins
    <3>2. 1 \in 1..Len(t)
      BY <3>1
    <3>3. QED
      BY <3>1, <3>2 DEF Meets
  <2>4. QED
    BY <1>6, <2>3
<1>8. PICK v : v = <<n>> \o w
  OBVIOUS
<1>9. <<n>> \in Seq(N) /\ Len(<<n>>) = 1 /\ <<n>>[1] = n /\ Len(w) \in Nat
  OBVIOUS
<1>10. /\ Len(v) = 1 + Len(w)
       /\ \A i \in 1..1 + Len(w) : v[i] = IF i <= 1 THEN <<n>>[i] ELSE w[i - 1]
  BY <1>8, <1>9, ConcatProperties
<1>11. v[1] = n /\ \A i \in 1..Len(w) : i + 1 \in 1..Len(v) /\ v[i + 1] = w[i]
  <2>1. 1 \in 1..1 + Len(w) /\ v[1] = <<n>>[1]
    BY <1>9, <1>10
  <2>2. ASSUME NEW i \in 1..Len(w)
        PROVE  i + 1 \in 1..Len(v) /\ v[i + 1] = w[i]
    <3>1. i + 1 \in 1..1 + Len(w) /\ ~(i + 1 <= 1) /\ (i + 1) - 1 = i
      BY <1>9
    <3>2. QED
      BY <1>10, <3>1
  <2>3. QED
    BY <1>9, <2>1, <2>2
<1>12. ASSUME NEW i \in 1..Len(v), NEW x \in G[v[i]]
       PROVE  \E j \in 1..Len(v) : i < j /\ v[j] = x
  <2>1. CASE i = 1
    <3>1. PICK j \in 1..Len(w) : w[j] = x
      BY <1>7, <1>11, <1>12, <2>1 DEF Meets
    <3>2. i < j + 1
      BY <2>1
    <3>3. QED
      BY <1>11, <3>1, <3>2
  <2>2. CASE i # 1
    <3>1. i - 1 \in 1..Len(w) /\ (i - 1) + 1 = i
      BY <1>9, <1>10, <2>2
    <3>2. v[i] = w[i - 1]
      BY <1>11, <3>1
    <3>3. PICK j \in 1..Len(w) : i - 1 < j /\ w[j] = x
      BY <1>6, <1>12, <3>1, <3>2 DEF Later
    <3>4. i < j + 1
      BY <3>1, <3>3
    <3>5. QED
      BY <1>11, <3>3, <3>4
  <2>3. QED
    BY <2>1, <2>2
<1>13. Later(v, G)
  BY <1>12 DEF Later
<1>14. QED
  BY <1>4, <1>5, <1>8, <1>13

(* The children that update_depth visits next. *)
Onward(g, first) == [n \in Nodes |-> g.children[n] \ {first}]

(* A child is visited after each visit of its parent: the walk is long      *)
(* enough, as no chain that avoids first meets a node twice.               *)
LEMMA VisitLater ==
  ASSUME NEW g, g.children \in [Nodes -> SUBSET Addresses],
         NEW S \in SUBSET Nodes, Forest(g, S), NEW first \in S
  PROVE  Later(Visit(g, first), Onward(g, first))
<1> DEFINE C == Cardinality(Nodes)
           G == Onward(g, first)
           next(n) == Ascending(g.children[n] \ {first})
<1>1. PICK below : Descents(below, g, first) /\ Visit(g, first) = below[C][first]
  BY VisitRecursion
<1>2. NextType(g, first)
  BY VisitRecursion
<1>3. C \in Nat
  BY NodesFinite
<1>4. \A n \in S : g.children[n] \subseteq S
  BY DEF Forest
<1>5. ASSUME NEW n \in S
      PROVE  next(n) \in Seq(S) /\ \A x \in G[n] : Meets(next(n), x)
  <2>1. next(n) \in Seq(S)
    BY <1>2, <1>4 DEF NextType
  <2>2. n \in Nodes /\ G[n] = g.children[n] \ {first}
    BY DEF Onward
  <2>3. g.children[n] \ {first} \in SUBSET (0..255)
    BY <2>2, NodesFinite DEF Nodes
  <2>4. \A x \in g.children[n] \ {first} : \E i \in 1..Len(next(n)) : next(n)[i] = x
    BY <2>3, AscendingFacts
  <2> HIDE DEF next, G
  <2>5. QED
    BY <2>1, <2>2, <2>4 DEF Meets
<1>6. \A k \in 0..C, n \in Nodes :
        below[k][n] = IF k = 0 THEN <<n>> ELSE Below(n, next(n), below[k - 1])
  BY <1>1 DEF Descents
<1> DEFINE Reached(n, k) == \E f : Chain(f, k, g, first, first) /\ f[k] = n
           T == {k \in 0..C : \A n \in S : Reached(n, C - k) => Later(below[k][n], G)}
<1> HIDE DEF C, G, next
<1>7. 0 \in T
  <2>1. ASSUME NEW f, Chain(f, C, g, first, first)
        PROVE  FALSE
    <3>1. C < Cardinality(Nodes)
      BY <1>3, <2>1, ChainShort
    <3>2. QED
      BY <1>3, <3>1 DEF C
  <2>2. 0 \in 0..C /\ C - 0 = C
    BY <1>3
  <2>3. \A n \in S : ~Reached(n, C - 0)
    BY <2>1, <2>2
  <2>4. QED
    BY <2>2, <2>3
<1>8. ASSUME NEW k \in 0..C, k \in T, k < C
      PROVE  k + 1 \in T
  <2>1. /\ k + 1 \in 0..C /\ k + 1 # 0 /\ (k + 1) - 1 = k
        /\ C - (k + 1) \in Nat /\ (C - (k + 1)) + 1 = C - k
    BY <1>3, <1>8
  <2>2. ASSUME NEW n \in S, Reached(n, C - (k + 1))
        PROVE  Later(below[k + 1][n], G)
    <3>1. PICK q \in Nat : q = C - (k + 1)
      BY <2>1
    <3>2. PICK f : Chain(f, q, g, first, first) /\ f[q] = n
      BY <2>2, <3>1
    <3>3. PICK nx \in Seq(S) : nx = next(n)
      BY <1>5
    <3>4. Len(nx) \in Nat /\ \A i \in 1..Len(nx) : nx[i] \in S
      OBVIOUS
    <3>5. ASSUME NEW i \in 1..Len(nx)
          PROVE  nx[i] \in g.children[n] \ {first}
      <4>1. g.children[n] \ {first} \in SUBSET (0..255)
        BY NodesFinite DEF Nodes
      <4>2. nx \in Seq(g.children[n] \ {first})
        BY <3>3, <4>1, AscendingFacts DEF next
      <4>3. QED
        BY <4>2
    <3>6. ASSUME NEW i \in 1..Len(nx)
          PROVE  Later(below[k][nx[i]], G)
      <4>1. PICK y \in S : y = nx[i] /\ y \in g.children[n] \ {first}
        BY <3>4, <3>5
      <4>2. PICK e : e = [j \in 0..q + 1 |-> IF j = q + 1 THEN y ELSE f[j]]
        OBVIOUS
      <4>3. y \in Nodes /\ y \in g.children[f[q]] \ {first}
        BY <3>2, <4>1
      <4>4. Chain(e, q + 1, g, first, first)
        BY <3>2, <4>2, <4>3, ChainExtends
      <4>5. e[q + 1] = y
        BY <4>2
      <4>6. Reached(y, C - k)
        BY <2>1, <3>1, <4>4, <4>5
      <4>7. QED
        BY <1>8, <4>1, <4>6
    <3>7. below[k + 1][n] = Below(n, nx, below[k])
      <4>1. n \in Nodes
        OBVIOUS
      <4>2. QED
        BY <1>6, <2>1, <3>3, <4>1
    <3>8. \A x \in S : Begins(below[k][x], x, S)
      <4>1. k \in 0..Cardinality(Nodes)
        BY DEF C
      <4>2. QED
        BY <1>1, <1>4, <4>1, DescentFacts
    <3>9. \A x \in G[n] : Meets(nx, x)
      BY <1>5, <3>3
    <3>10. PICK h : h = below[k]
      OBVIOUS
    <3>11. Later(Below(n, nx, h), G)
      BY <3>6, <3>8, <3>9, <3>10, BelowLater
    <3>12. QED
      BY <3>7, <3>10, <3>11
  <2>3. QED
    BY <2>1, <2>2
<1>9. C \in T
  <2> HIDE DEF T
  <2>1. 0..C \subseteq T
    BY <1>3, <1>7, <1>8, Inductively
  <2>2. QED
    BY <1>3, <2>1
<1>10. Reached(first, C - C)
  <2> DEFINE e == [j \in 0..0 |-> first]
  <2>1. C - C = 0
    BY <1>3
  <2>2. Chain(e, 0, g, first, first) /\ e[0] = first
    BY DEF Chain
  <2> HIDE DEF e
  <2>3. QED
    BY <2>1, <2>2
<1>11. Later(below[C][first], G)
  BY <1>9, <1>10
<1>12. QED
  BY <1>1, <1>11 DEF G

-----------------------------------------------------------------------------
(***************************************************************************)
(* The depth lists.                                                        *)
(***************************************************************************)

(* The lists hold the nodes of X, each in the list of its depth. *)
Listed(g, X) ==
  /\ \A d \in 1..Len(g.lists) : g.lists[d] = {n \in X : g.depth[n] = d - 1}
  /\ \A n \in X : g.depth[n] < Len(g.lists)

SameEdges(g, h) ==
  /\ h \in Graph
  /\ h.nodes = g.nodes /\ h.parent = g.parent /\ h.children = g.children

LEMMA GraphFields ==
  ASSUME NEW g \in Graph
  PROVE  /\ g.nodes \in SUBSET Addresses /\ g.parent \in [Nodes -> Nodes \cup {None}]
         /\ g.children \in [Nodes -> SUBSET Addresses] /\ g.depth \in [Nodes -> 0..255]
         /\ g.lists \in Seq(SUBSET Nodes)
         /\ Len(g.lists) \in Nat
         /\ \A n \in Nodes : g.depth[n] \in Nat /\ g.depth[n] \in 0..255
<1>1. /\ g.nodes \in SUBSET Addresses /\ g.parent \in [Nodes -> Nodes \cup {None}]
      /\ g.children \in [Nodes -> SUBSET Addresses] /\ g.depth \in [Nodes -> 0..255]
      /\ g.lists \in Seq(SUBSET Nodes)
  BY DEF Graph
<1>2. \A n \in Nodes : g.depth[n] \in 0..255
  BY <1>1
<1>3. ASSUME NEW n \in Nodes
      PROVE  g.depth[n] \in Nat
  <2>1. \A m \in 0..255 : m \in Nat
    OBVIOUS
  <2>2. QED
    BY <1>2, <2>1
<1>4. Len(g.lists) \in Nat
  BY <1>1
<1>5. QED
  BY <1>1, <1>2, <1>3, <1>4

(* Only the lists change, to ones that are lists of nodes again. *)
LEMMA NewLists ==
  ASSUME NEW g \in Graph, NEW L \in Seq(SUBSET Nodes), NEW r, r = [g EXCEPT !.lists = L]
  PROVE  SameEdges(g, r) /\ r.depth = g.depth /\ r.lists = L
BY DEF Graph, SameEdges

LEMMA RemoveDepthLists ==
  ASSUME NEW g \in Graph, NEW n \in Nodes, NEW X \in SUBSET Nodes
  PROVE  /\ SameEdges(g, RemoveDepth(g, n))
         /\ RemoveDepth(g, n).depth = g.depth
         /\ Listed(g, X) => Listed(RemoveDepth(g, n), X \ {n})
<1> DEFINE L == g.lists
           d == g.depth[n] + 1
           without == [L EXCEPT ![d] = @ \ {n}]
           r == RemoveDepth(g, n)
<1>1. /\ L \in Seq(SUBSET Nodes) /\ Len(L) \in Nat
      /\ d \in Nat /\ d >= 1 /\ \A m \in Nodes : g.depth[m] \in Nat
  BY GraphFields
<1>2. CASE d > Len(L)
  <2>1. r = g
    BY <1>2 DEF RemoveDepth
  <2>2. ASSUME Listed(g, X)
        PROVE  X \ {n} = X
    <3>1. ~(g.depth[n] < Len(L))
      BY <1>1, <1>2
    <3>2. n \notin X
      BY <2>2, <3>1 DEF Listed
    <3>3. QED
      BY <3>2
  <2>3. QED
    BY <2>1, <2>2 DEF SameEdges
<1>3. CASE ~(d > Len(L))
  <2>1. d \in 1..Len(L)
    BY <1>1, <1>3
  <2>2. L[d] \in SUBSET Nodes /\ L[d] \ {n} \in SUBSET Nodes
    BY <1>1, <2>1
  <2>3. /\ without \in Seq(SUBSET Nodes) /\ Len(without) = Len(L)
        /\ \A i \in 1..Len(L) : without[i] = IF i = d THEN L[d] \ {n} ELSE L[i]
    BY <1>1, <2>1, <2>2
  <2> HIDE DEF without
  <2>4. ASSUME Listed(g, X), NEW i \in 1..Len(L)
        PROVE  without[i] = {m \in X \ {n} : g.depth[m] = i - 1}
    <3>1. L[i] = {m \in X : g.depth[m] = i - 1}
      BY <2>4 DEF Listed
    <3>2. CASE i = d
      BY <2>3, <3>1, <3>2
    <3>3. CASE i # d
      <4>1. g.depth[n] # i - 1
        BY <1>1, <3>3
      <4>2. QED
        BY <2>3, <3>1, <3>3, <4>1
    <3>4. QED
      BY <3>2, <3>3
  <2>5. CASE d = Len(without) /\ without[d] = {}
    <3> DEFINE front == Front(without)
    <3>1. r = [g EXCEPT !.lists = front]
      BY <1>3, <2>5 DEF RemoveDepth, without
    <3>2. /\ front \in Seq(SUBSET Nodes) /\ Len(front) = Len(L) - 1
          /\ \A i \in 1..Len(front) : front[i] = without[i]
      BY <1>1, <2>1, <2>3 DEF Front
    <3> HIDE DEF front
    <3>3. SameEdges(g, r) /\ r.depth = g.depth /\ r.lists = front
      <4>1. front \in Seq(SUBSET Nodes)
        BY <3>2
      <4> HIDE DEF r
      <4>2. QED
        BY <3>1, <4>1, NewLists
    <3>4. ASSUME Listed(g, X)
          PROVE  Listed(r, X \ {n})
      <4>1. \A i \in 1..Len(front) : front[i] = {m \in X \ {n} : g.depth[m] = i - 1}
        BY <1>1, <2>4, <3>2, <3>4
      <4>2. ASSUME NEW m \in X \ {n}
            PROVE  g.depth[m] < Len(front)
        <5>1. g.depth[m] < Len(L) /\ g.depth[m] \in Nat
          BY <1>1, <3>4 DEF Listed
        <5>2. g.depth[m] # d - 1
          BY <2>1, <2>4, <2>5, <3>4
        <5>3. QED
          BY <1>1, <2>3, <2>5, <3>2, <5>1, <5>2
      <4>3. QED
        BY <3>3, <4>1, <4>2 DEF Listed
    <3>5. QED
      BY <3>3, <3>4
  <2>6. CASE ~(d = Len(without) /\ without[d] = {})
    <3>1. r = [g EXCEPT !.lists = without]
      BY <1>3, <2>6 DEF RemoveDepth, without
    <3>2. SameEdges(g, r) /\ r.depth = g.depth /\ r.lists = without
      BY <2>3, <3>1, NewLists
    <3>3. ASSUME Listed(g, X)
          PROVE  Listed(r, X \ {n})
      <4>1. \A m \in X \ {n} : g.depth[m] < Len(without)
        BY <2>3, <3>3 DEF Listed
      <4>2. QED
        BY <2>3, <2>4, <3>2, <3>3, <4>1 DEF Listed
    <3>4. QED
      BY <3>2, <3>3
  <2>7. QED
    BY <2>5, <2>6
<1>4. QED
  BY <1>2, <1>3

LEMMA AddDepthLists ==
  ASSUME NEW g \in Graph, NEW n \in Nodes, NEW X \in SUBSET Nodes
  PROVE  /\ SameEdges(g, AddDepth(g, n))
         /\ AddDepth(g, n).depth = g.depth
         /\ Listed(g, X) => Listed(AddDepth(g, n), X \cup {n})
<1> DEFINE L == g.lists
           d == g.depth[n] + 1
           k == IF d > Len(L) THEN d - Len(L) ELSE 0
           missing == [i \in 1..k |-> {}]
           M == L \o missing
           new == [M EXCEPT ![d] = @ \cup {n}]
           r == AddDepth(g, n)
<1>1. /\ L \in Seq(SUBSET Nodes) /\ Len(L) \in Nat
      /\ d \in Nat /\ d >= 1 /\ \A m \in Nodes : g.depth[m] \in Nat
  BY GraphFields
<1>2. k \in Nat /\ (d > Len(L) => k = d - Len(L)) /\ d <= Len(L) + k
  BY <1>1
<1>3. r = [g EXCEPT !.lists = new]
  BY DEF AddDepth
<1> HIDE DEF k
<1>4. /\ missing \in Seq(SUBSET Nodes) /\ Len(missing) = k
      /\ \A i \in 1..k : missing[i] = {}
  BY <1>2
<1> HIDE DEF missing
<1>5. /\ M \in Seq(SUBSET Nodes) /\ Len(M) = Len(L) + k
      /\ \A i \in 1..Len(L) + k : M[i] = IF i <= Len(L) THEN L[i] ELSE {}
  <2>1. /\ M \in Seq(SUBSET Nodes) /\ Len(M) = Len(L) + Len(missing)
        /\ \A i \in 1..Len(L) + Len(missing) :
             M[i] = IF i <= Len(L) THEN L[i] ELSE missing[i - Len(L)]
    <3> HIDE DEF L
    <3>1. QED
      BY <1>1, <1>4, ConcatProperties
  <2>2. \A i \in 1..Len(L) + k : ~(i <= Len(L)) => i - Len(L) \in 1..k
    BY <1>1, <1>2
  <2>3. QED
    BY <1>4, <2>1, <2>2
<1> HIDE DEF M
<1>6. d \in 1..Len(M) /\ M[d] \cup {n} \in SUBSET Nodes
  BY <1>1, <1>2, <1>5
<1>7. /\ new \in Seq(SUBSET Nodes) /\ Len(new) = Len(M)
      /\ \A i \in 1..Len(M) : new[i] = IF i = d THEN M[d] \cup {n} ELSE M[i]
  BY <1>5, <1>6
<1> HIDE DEF new
<1>8. SameEdges(g, r) /\ r.depth = g.depth /\ r.lists = new
  BY <1>3, <1>7, NewLists
<1>9. ASSUME Listed(g, X)
      PROVE  Listed(r, X \cup {n})
  <2>1. ASSUME NEW i \in 1..Len(M)
        PROVE  M[i] = {m \in X : g.depth[m] = i - 1}
    <3>1. CASE i <= Len(L)
      <4>1. i \in 1..Len(L)
        BY <3>1
      <4>2. QED
        BY <1>5, <1>9, <3>1, <4>1 DEF Listed
    <3>2. CASE ~(i <= Len(L))
      <4>1. \A m \in X : g.depth[m] # i - 1
        BY <1>1, <1>9, <3>2 DEF Listed
      <4>2. QED
        BY <1>5, <3>2, <4>1
    <3>3. QED
      BY <3>1, <3>2
  <2>2. ASSUME NEW i \in 1..Len(new)
        PROVE  new[i] = {m \in X \cup {n} : g.depth[m] = i - 1}
    <3>1. CASE i = d
      <4>1. g.depth[n] = i - 1
        BY <1>1, <3>1
      <4>2. QED
        BY <1>7, <2>1, <3>1, <4>1
    <3>2. CASE i # d
      <4>1. g.depth[n] # i - 1
        BY <1>1, <3>2
      <4>2. QED
        BY <1>7, <2>1, <3>2, <4>1
    <3>3. QED
      BY <3>1, <3>2
  <2>3. ASSUME NEW m \in X \cup {n}
        PROVE  g.depth[m] < Len(new)
    <3>1. CASE m = n
      BY <1>1, <1>2, <1>5, <1>7, <3>1
    <3>2. CASE m \in X
      <4>1. g.depth[m] < Len(L)
        BY <1>9, <3>2 DEF Listed
      <4>2. g.depth[m] \in Nat
        BY <1>1, <3>2
      <4>3. QED
        BY <1>1, <1>2, <1>5, <1>7, <4>1, <4>2
    <3>3. QED
      BY <3>1, <3>2
  <2>4. QED
    BY <1>8, <2>2, <2>3 DEF Listed
<1>10. QED
  BY <1>8, <1>9

(* The node is listed at its new depth, and what is below it stays. *)
LEMMA SetDepthLists ==
  ASSUME NEW g \in Graph, NEW n \in Nodes, NEW X \in SUBSET Nodes
  PROVE  /\ SameEdges(g, SetDepth(g, n))
         /\ Listed(g, X) => Listed(SetDepth(g, n), X \cup {n})
<1> DEFINE d == IF g.parent[n] = None THEN 0 ELSE (g.depth[g.parent[n]] + 1) % 256
           r == RemoveDepth(g, n)
           s == [r EXCEPT !.depth[n] = d]
<1>1. d \in 0..255
  <2>1. CASE g.parent[n] = None
    BY <2>1
  <2>2. CASE g.parent[n] # None
    <3>1. g.parent[n] \in Nodes
      BY <2>2 DEF Graph
    <3>2. g.depth[g.parent[n]] \in Nat
      BY <3>1, GraphFields
    <3>3. QED
      BY <2>2, <3>2
  <2>3. QED
    BY <2>1, <2>2
<1>2. SetDepth(g, n) = AddDepth(s, n)
  BY DEF SetDepth
<1> HIDE DEF d
<1>3. /\ SameEdges(g, r) /\ r.depth = g.depth
      /\ Listed(g, X) => Listed(r, X \ {n})
  BY RemoveDepthLists
<1> HIDE DEF r
<1>4. /\ s \in Graph /\ s.nodes = r.nodes /\ s.parent = r.parent
      /\ s.children = r.children /\ s.lists = r.lists
      /\ \A m \in Nodes \ {n} : s.depth[m] = r.depth[m]
  <2>1. r \in Graph
    BY <1>3 DEF SameEdges
  <2>2. QED
    BY <1>1, <2>1 DEF Graph
<1> HIDE DEF s
<1>5. Listed(g, X) => Listed(s, X \ {n})
  <2>1. ASSUME Listed(r, X \ {n})
        PROVE  Listed(s, X \ {n})
    <3>1. \A m \in X \ {n} : s.depth[m] = r.depth[m]
      BY <1>4
    <3>2. QED
      BY <1>4, <2>1, <3>1 DEF Listed
  <2>2. QED
    BY <1>3, <2>1
<1>6. /\ SameEdges(s, AddDepth(s, n))
      /\ Listed(s, X \ {n}) => Listed(AddDepth(s, n), (X \ {n}) \cup {n})
  <2>1. X \ {n} \in SUBSET Nodes
    OBVIOUS
  <2>2. QED
    BY <1>4, <2>1, AddDepthLists
<1>7. (X \ {n}) \cup {n} = X \cup {n}
  OBVIOUS
<1>8. SameEdges(g, AddDepth(s, n))
  BY <1>3, <1>4, <1>6 DEF SameEdges
<1>9. QED
  BY <1>2, <1>5, <1>6, <1>7, <1>8

(* update_depth lists every node of a set it does not leave, when the node  *)
(* it is called for is the only one that may not be listed yet.             *)
LEMMA UpdateDepthLists ==
  ASSUME NEW g \in Graph, NEW N \in SUBSET Nodes, NEW first \in N,
         \A n \in N : g.children[n] \subseteq N,
         NEW X \in SUBSET N, X \cup {first} = N, Listed(g, X)
  PROVE  SameEdges(g, UpdateDepth(g, first)) /\ Listed(UpdateDepth(g, first), N)
<1> DEFINE V == {h \in Graph : SameEdges(g, h)}
<1>1. g \in V
  BY DEF SameEdges
<1>2. \A h \in V, n \in N : SetDepth(h, n) \in V
  <2>1. ASSUME NEW h \in V, NEW n \in N
        PROVE  SetDepth(h, n) \in V
    <3>1. h \in Graph /\ n \in Nodes /\ {} \in SUBSET Nodes /\ SameEdges(g, h)
      OBVIOUS
    <3>2. SameEdges(h, SetDepth(h, n))
      BY <3>1, SetDepthLists
    <3>3. QED
      BY <3>1, <3>2 DEF SameEdges
  <2>2. QED
    BY <2>1
<1>3. PICK v : v = Visit(g, first)
  OBVIOUS
<1>4. v \in Seq(N) /\ v # <<>> /\ v[1] = first
  BY <1>3, GraphFields, VisitFacts
<1>5. Len(v) \in Nat /\ Len(v) # 0 /\ \A i \in 1..Len(v) : v[i] \in N
  BY <1>4
<1> HIDE DEF V
<1>6. PICK f \in [0..Len(v) -> V] :
        /\ f[0] = g
        /\ \A k \in 1..Len(v) : f[k] = SetDepth(f[k - 1], v[k])
        /\ UpdateDepth(g, first) = f[Len(v)]
  BY <1>1, <1>2, <1>3, <1>4, UpdateDepthSteps
<1>7. \A k \in 0..Len(v) : f[k] \in V
  BY <1>6
<1> DEFINE T == {k \in 1..Len(v) : Listed(f[k], N)}
<1>8. 1 \in T
  <2>1. 1 \in 1..Len(v) /\ f[1] = SetDepth(g, first)
    BY <1>4, <1>5, <1>6
  <2>2. X \in SUBSET Nodes /\ first \in Nodes
    OBVIOUS
  <2>3. Listed(SetDepth(g, first), X \cup {first})
    BY <2>2, SetDepthLists
  <2>4. QED
    BY <2>1, <2>3
<1>9. ASSUME NEW k \in 1..Len(v), k \in T, k < Len(v)
      PROVE  k + 1 \in T
  <2>1. k + 1 \in 1..Len(v) /\ (k + 1) - 1 = k /\ k \in 0..Len(v)
    BY <1>5, <1>9
  <2>2. f[k + 1] = SetDepth(f[k], v[k + 1]) /\ v[k + 1] \in N
    BY <1>5, <1>6, <2>1
  <2>3. f[k] \in Graph /\ Listed(f[k], N) /\ v[k + 1] \in Nodes
    BY <1>7, <1>9, <2>1, <2>2 DEF V
  <2>4. Listed(SetDepth(f[k], v[k + 1]), N \cup {v[k + 1]})
    BY <2>3, SetDepthLists
  <2>5. N \cup {v[k + 1]} = N
    BY <2>2
  <2>6. QED
    BY <2>1, <2>2, <2>4, <2>5
<1> HIDE DEF T
<1>10. 1..Len(v) \subseteq T
  BY <1>5, <1>8, <1>9, Inductively
<1>11. Len(v) \in 1..Len(v) /\ Len(v) \in 0..Len(v)
  BY <1>5
<1>12. QED
  BY <1>6, <1>7, <1>10, <1>11 DEF T, V

-----------------------------------------------------------------------------
(***************************************************************************)
(* Depths below the root node.                                             *)
(***************************************************************************)

(* Every node that is reached from the root node by a chain that avoids x   *)
(* is as deep as the chain is long.                                         *)
DeepBut(g, x) == \A k \in Nat : \A f : Chain(f, k, g, Root, x) => g.depth[f[k]] = k

(* The root node is nobody's child. *)
Deep(g) == DeepBut(g, Root)

Stepped(g, n) == IF g.parent[n] = None THEN 0 ELSE (g.depth[g.parent[n]] + 1) % 256

LEMMA SetDepthValue ==
  ASSUME NEW g \in Graph, NEW n \in Nodes, NEW m \in Nodes
  PROVE  SetDepth(g, n).depth[m] = IF m = n THEN Stepped(g, n) ELSE g.depth[m]
<1> DEFINE d == Stepped(g, n)
           r == RemoveDepth(g, n)
           s == [r EXCEPT !.depth[n] = d]
<1>1. d \in 0..255
  <2>1. CASE g.parent[n] = None
    BY <2>1 DEF Stepped
  <2>2. CASE g.parent[n] # None
    <3>1. g.parent[n] \in Nodes
      BY <2>2 DEF Graph
    <3>2. g.depth[g.parent[n]] \in Nat
      BY <3>1, GraphFields
    <3>3. QED
      BY <2>2, <3>2 DEF Stepped
  <2>3. QED
    BY <2>1, <2>2
<1>2. SetDepth(g, n) = AddDepth(s, n)
  BY DEF SetDepth, Stepped
<1> HIDE DEF d
<1>3. r \in Graph /\ r.depth = g.depth
  <2>1. {} \in SUBSET Nodes
    OBVIOUS
  <2>2. QED
    BY <2>1, RemoveDepthLists DEF SameEdges
<1> HIDE DEF r
<1>4. s \in Graph /\ s.depth[m] = IF m = n THEN d ELSE r.depth[m]
  BY <1>1, <1>3 DEF Graph
<1> HIDE DEF s
<1>5. AddDepth(s, n).depth = s.depth
  <2>1. {} \in SUBSET Nodes
    OBVIOUS
  <2>2. QED
    BY <1>4, <2>1, AddDepthLists
<1>6. QED
  BY <1>2, <1>3, <1>4, <1>5 DEF d

(* The graphs between the visits of a walk through the nodes of v. *)
Walk(f, v, g, r) ==
  /\ v \in Seq(Nodes)
  /\ f \in [0..Len(v) -> Graph] /\ f[0] = g /\ r = f[Len(v)]
  /\ \A k \in 0..Len(v) : SameEdges(g, f[k])
  /\ \A k \in 1..Len(v) : \A m \in Nodes :
       f[k].depth[m] = IF m = v[k] THEN Stepped(f[k - 1], m) ELSE f[k - 1].depth[m]

LEMMA WalkExists ==
  ASSUME NEW g \in Graph, NEW first \in Nodes
  PROVE  \E f : Walk(f, Visit(g, first), g, UpdateDepth(g, first))
<1> DEFINE V == {h \in Graph : SameEdges(g, h)}
<1>1. g \in V
  BY DEF SameEdges
<1>2. \A h \in V, n \in Nodes : SetDepth(h, n) \in V
  <2>1. ASSUME NEW h \in V, NEW n \in Nodes
        PROVE  SetDepth(h, n) \in V
    <3>1. h \in Graph /\ {} \in SUBSET Nodes /\ SameEdges(g, h)
      OBVIOUS
    <3>2. SameEdges(h, SetDepth(h, n))
      BY <3>1, SetDepthLists
    <3>3. QED
      BY <3>1, <3>2 DEF SameEdges
  <2>2. QED
    BY <2>1
<1>3. PICK v : v = Visit(g, first)
  OBVIOUS
<1>4. v \in Seq(Nodes)
  <2>1. g.children \in [Nodes -> SUBSET Addresses] /\ \A n \in Nodes : g.children[n] \subseteq Nodes
    BY GraphFields DEF Nodes
  <2>2. Nodes \in SUBSET Nodes
    OBVIOUS
  <2>3. QED
    BY <1>3, <2>1, <2>2, VisitFacts
<1>5. Len(v) \in Nat /\ \A i \in 1..Len(v) : v[i] \in Nodes
  BY <1>4
<1> HIDE DEF V
<1>6. PICK f \in [0..Len(v) -> V] :
        /\ f[0] = g
        /\ \A k \in 1..Len(v) : f[k] = SetDepth(f[k - 1], v[k])
        /\ UpdateDepth(g, first) = f[Len(v)]
  BY <1>1, <1>2, <1>3, <1>4, UpdateDepthSteps
<1>7. \A k \in 0..Len(v) : f[k] \in Graph /\ SameEdges(g, f[k])
  BY <1>6 DEF V
<1>8. f \in [0..Len(v) -> Graph]
  BY <1>6, <1>7
<1>9. ASSUME NEW k \in 1..Len(v), NEW m \in Nodes
      PROVE  f[k].depth[m] = IF m = v[k] THEN Stepped(f[k - 1], m) ELSE f[k - 1].depth[m]
  <2>1. k - 1 \in 0..Len(v) /\ v[k] \in Nodes
    BY <1>5
  <2>2. PICK h \in Graph : h = f[k - 1]
    BY <1>7, <2>1
  <2>3. f[k] = SetDepth(h, v[k])
    BY <1>6, <2>2
  <2>4. SetDepth(h, v[k]).depth[m] = IF m = v[k] THEN Stepped(h, v[k]) ELSE h.depth[m]
    BY <2>1, SetDepthValue
  <2>5. QED
    BY <2>2, <2>3, <2>4
<1>10. Walk(f, v, g, UpdateDepth(g, first))
  BY <1>4, <1>6, <1>7, <1>8, <1>9 DEF Walk
<1>11. QED
  BY <1>3, <1>10

(* A node keeps its depth when it is not visited any more. *)
LEMMA NotVisited ==
  ASSUME NEW g, NEW v, NEW f, NEW r, Walk(f, v, g, r), NEW m \in Nodes,
         NEW a \in 0..Len(v), \A i \in 1..Len(v) : a < i => v[i] # m
  PROVE  r.depth[m] = f[a].depth[m]
<1> DEFINE n == Len(v)
           T == {k \in 0..n : f[k].depth[m] = f[a].depth[m]}
<1>1. /\ n \in Nat /\ r = f[n]
      /\ \A k \in 1..n : m # v[k] => f[k].depth[m] = f[k - 1].depth[m]
  BY DEF Walk
<1> HIDE DEF n
<1>2. a \in T
  BY DEF n
<1>3. ASSUME NEW k \in a..n, k \in T, k < n
      PROVE  k + 1 \in T
  <2>1. k + 1 \in 1..n /\ a < k + 1 /\ (k + 1) - 1 = k /\ k + 1 \in 0..n
    BY <1>1, <1>3
  <2>2. m # v[k + 1]
    BY <2>1 DEF n
  <2>3. f[k + 1].depth[m] = f[k].depth[m]
    BY <1>1, <2>1, <2>2
  <2>4. QED
    BY <1>3, <2>1, <2>3
<1> HIDE DEF T
<1>4. a \in Nat /\ a <= n
  BY DEF n
<1>5. a..n \subseteq T
  BY <1>1, <1>2, <1>3, <1>4, Inductively
<1>6. n \in T
  BY <1>1, <1>4, <1>5
<1>7. QED
  BY <1>1, <1>6 DEF T

(* A node that is visited, and visited again after every visit of its       *)
(* parent, ends one deeper than its parent.                                 *)
LEMMA LastVisit ==
  ASSUME NEW g, NEW v, NEW f, NEW r, Walk(f, v, g, r),
         NEW n \in Nodes, NEW p \in Nodes, g.parent[n] = p, Meets(v, n),
         \A i \in 1..Len(v) : v[i] = p => \E j \in 1..Len(v) : i < j /\ v[j] = n
  PROVE  r.depth[n] = (r.depth[p] + 1) % 256
<1> DEFINE Q == {i \in 1..Len(v) : v[i] = n}
<1>1. Len(v) \in Nat
  BY DEF Walk
<1>2. Q # {} /\ Q \in SUBSET (0..Len(v))
  BY <1>1 DEF Meets
<1>3. PICK q \in Q : \A y \in Q : y <= q
  BY <1>1, <1>2, Largest
<1>4. q \in 1..Len(v) /\ v[q] = n /\ \A i \in 1..Len(v) : v[i] = n => i <= q
  BY <1>3
<1> HIDE DEF Q
<1>5. q \in 0..Len(v) /\ q - 1 \in 0..Len(v)
  BY <1>1, <1>4
<1>6. r.depth[n] = f[q].depth[n]
  <2>1. \A i \in 1..Len(v) : q < i => v[i] # n
    BY <1>4
  <2>2. QED
    BY <1>5, <2>1, NotVisited
<1>7. f[q].depth[n] = Stepped(f[q - 1], n)
  BY <1>4 DEF Walk
<1>8. f[q - 1].parent = g.parent
  BY <1>5 DEF Walk, SameEdges
<1>9. p # None
  <2>1. \A y \in Nodes : y \in 0..255
    BY NodesFinite
  <2>2. p \in 0..255
    BY <2>1
  <2>3. 256 \notin 0..255
    OBVIOUS
  <2>4. None \notin 0..255
    BY <2>3 DEF None
  <2>5. QED
    BY <2>2, <2>4, Zenon
<1>10. Stepped(f[q - 1], n) = (f[q - 1].depth[p] + 1) % 256
  BY <1>8, <1>9 DEF Stepped
<1>11. r.depth[p] = f[q - 1].depth[p]
  <2>1. ASSUME NEW i \in 1..Len(v), q - 1 < i, v[i] = p
        PROVE  FALSE
    <3>1. PICK j \in 1..Len(v) : i < j /\ v[j] = n
      BY <2>1
    <3>2. j <= q
      BY <1>4, <3>1
    <3>3. QED
      BY <1>4, <2>1, <3>1, <3>2
  <2>2. \A i \in 1..Len(v) : q - 1 < i => v[i] # p
    BY <2>1
  <2>3. PICK a \in 0..Len(v) : a = q - 1
    BY <1>5
  <2>4. r.depth[p] = f[a].depth[p]
    BY <2>2, <2>3, NotVisited
  <2>5. QED
    BY <2>3, <2>4
<1>12. QED
  BY <1>6, <1>7, <1>10, <1>11

(* What lies above the node that moves is not visited and keeps its depth. *)
LEMMA AboveDeep ==
  ASSUME NEW g \in Graph, NEW S \in SUBSET Nodes, Root \in S, Forest(g, S),
         NEW c \in S \ {Root}, DeepBut(g, c),
         NEW k \in Nat, NEW e, Chain(e, k, g, Root, Root), \A i \in 0..k : e[i] # c
  PROVE  ~Meets(Visit(g, c), e[k]) /\ UpdateDepth(g, c).depth[e[k]] = k
<1> DEFINE N == S \ {e[i] : i \in 0..k}
           v == Visit(g, c)
           r == UpdateDepth(g, c)
<1>1. e \in [0..k -> S] /\ e[0] = Root /\ \A i \in 1..k : e[i] \in g.children[e[i - 1]]
  BY ChainStays DEF Chain
<1>2. ASSUME NEW n \in N
      PROVE  g.children[n] \subseteq N
  <2>1. n \in S /\ \A i \in 0..k : e[i] # n
    OBVIOUS
  <2>2. ASSUME NEW x \in g.children[n], NEW i \in 0..k, e[i] = x
        PROVE  FALSE
    <3>1. x # Root /\ g.parent[x] = n
      BY <2>1, <2>2 DEF Forest
    <3>2. i \in 1..k /\ i - 1 \in 0..k
      BY <1>1, <2>2, <3>1
    <3>3. e[i - 1] \in S /\ e[i] \in g.children[e[i - 1]]
      BY <1>1, <3>2
    <3>4. g.parent[x] = e[i - 1]
      BY <2>2, <3>3 DEF Forest
    <3>5. QED
      BY <2>1, <3>1, <3>2, <3>4
  <2>3. g.children[n] \subseteq S
    BY <2>1 DEF Forest
  <2>4. QED
    BY <2>2, <2>3
<1>3. c \in N /\ N \in SUBSET Nodes /\ e[k] \notin N
  <2>1. k \in 0..k
    OBVIOUS
  <2>2. QED
    BY <2>1
<1> HIDE DEF N
<1>4. v \in Seq(N)
  BY <1>2, <1>3, GraphFields, VisitFacts
<1>5. ~Meets(v, e[k])
  <2>1. \A i \in 1..Len(v) : v[i] \in N
    BY <1>4
  <2>2. QED
    BY <1>3, <2>1 DEF Meets
<1> HIDE DEF v, r
<1>6. PICK f : Walk(f, v, g, r)
  <2>1. c \in Nodes
    OBVIOUS
  <2>2. QED
    BY <2>1, WalkExists DEF v, r
<1>7. r.depth[e[k]] = g.depth[e[k]]
  <2>1. PICK m \in Nodes : m = e[k]
    BY <1>1
  <2>2. \A i \in 1..Len(v) : 0 < i => v[i] # m
    BY <1>5, <2>1 DEF Meets
  <2>3. Len(v) \in Nat /\ 0 \in 0..Len(v) /\ f[0] = g
    BY <1>6 DEF Walk
  <2>4. r.depth[m] = f[0].depth[m]
    BY <1>6, <2>2, <2>3, NotVisited
  <2>5. QED
    BY <2>1, <2>3, <2>4
<1>8. g.depth[e[k]] = k
  <2>1. Chain(e, k, g, Root, c)
    <3>1. \A i \in 1..k : e[i] # c
      OBVIOUS
    <3>2. QED
      BY <3>1 DEF Chain
  <2>2. QED
    BY <2>1 DEF DeepBut
<1>9. QED
  BY <1>5, <1>7, <1>8 DEF v, r

(* After update_depth(c) every node below the root node has its depth, when *)
(* those that are there without c had theirs.                              *)
LEMMA UpdateDepthDeep ==
  ASSUME NEW g \in Graph, NEW S \in SUBSET Nodes, Root \in S, Forest(g, S),
         NEW c \in S \ {Root}, DeepBut(g, c), NEW r, r = UpdateDepth(g, c)
  PROVE  Deep(r)
<1>1. SUFFICES ASSUME NEW k \in Nat, NEW e, Chain(e, k, r, Root, Root)
               PROVE  r.depth[e[k]] = k
  BY DEF Deep, DeepBut
<1>2. c \in Nodes
  OBVIOUS
<1>3. PICK v, f : v = Visit(g, c) /\ Walk(f, v, g, r)
  BY <1>2, WalkExists
<1>4. r.children = g.children
  <2>1. Len(v) \in 0..Len(v) /\ r = f[Len(v)]
    BY <1>3 DEF Walk
  <2>2. QED
    BY <1>3, <2>1 DEF Walk, SameEdges
<1>5. Chain(e, k, g, Root, Root)
  BY <1>1, <1>4 DEF Chain
<1>6. /\ e \in [0..k -> S] /\ e[0] = Root
      /\ \A i \in 1..k : e[i] \in g.children[e[i - 1]]
  BY <1>5, ChainStays DEF Chain
<1>7. CASE \A i \in 0..k : e[i] # c
  BY <1>5, <1>7, AboveDeep
<1>8. CASE ~(\A i \in 0..k : e[i] # c)
  <2>1. PICK m \in 0..k : e[m] = c
    BY <1>8
  <2>2. m \in 1..k /\ m - 1 \in 0..k /\ m - 1 \in Nat
    BY <1>6, <2>1
  <2>3. \A i, j \in 0..k : i < j => e[i] # e[j]
    BY <1>5, ChainInjective
  <2>4. \A i \in 1..k : e[i - 1] \in S /\ g.parent[e[i]] = e[i - 1]
    BY <1>6 DEF Forest
  <2>5. ~Meets(v, e[m - 1]) /\ r.depth[e[m - 1]] = m - 1
    <3>1. PICK d : d = [i \in 0..m - 1 |-> e[i]]
      OBVIOUS
    <3>2. Chain(d, m - 1, g, Root, Root)
      BY <1>5, <2>2, <3>1, ChainPrefix
    <3>3. \A i \in 0..m - 1 : d[i] = e[i] /\ e[i] # c
      <4>1. ASSUME NEW i \in 0..m - 1
            PROVE  e[i] # c
        <5>1. i \in 0..k /\ i < m
          BY <2>2
        <5>2. QED
          BY <2>1, <2>3, <5>1
      <4>2. QED
        BY <3>1, <4>1
    <3>4. m - 1 \in 0..m - 1
      BY <2>2
    <3>5. ~Meets(Visit(g, c), d[m - 1]) /\ UpdateDepth(g, c).depth[d[m - 1]] = m - 1
      BY <2>2, <3>2, <3>3, AboveDeep
    <3>6. QED
      BY <1>3, <3>3, <3>4, <3>5
  <2>6. k <= 255
    <3>1. k < Cardinality(Nodes)
      BY <1>5, ChainShort
    <3>2. QED
      BY <3>1, NodesFinite
  <2>7. Later(v, Onward(g, c))
    BY <1>3, GraphFields, VisitLater
  <2> DEFINE T == {j \in m..k : Meets(v, e[j]) /\ r.depth[e[j]] = j}
  <2>8. m \in T
    <3>1. Meets(v, c)
      <4>1. v \in Seq(S) /\ v # <<>> /\ v[1] = c
        <5>1. \A n \in S : g.children[n] \subseteq S
          BY DEF Forest
        <5>2. QED
          BY <1>3, <5>1, GraphFields, VisitFacts
      <4>2. 1 \in 1..Len(v)
        BY <4>1
      <4>3. QED
        BY <4>1, <4>2 DEF Meets
    <3>2. PICK n \in Nodes, p \in Nodes : n = e[m] /\ p = e[m - 1] /\ g.parent[n] = p
      BY <1>6, <2>2, <2>4
    <3>3. Meets(v, n)
      BY <2>1, <3>1, <3>2
    <3>4. \A i \in 1..Len(v) : v[i] = p => \E j \in 1..Len(v) : i < j /\ v[j] = n
      BY <2>5, <3>2 DEF Meets
    <3>5. r.depth[n] = (r.depth[p] + 1) % 256
      BY <1>3, <3>2, <3>3, <3>4, LastVisit
    <3>6. r.depth[n] = m
      <4>1. ((m - 1) + 1) % 256 = m
        BY <2>2, <2>6
      <4>2. QED
        BY <2>5, <3>2, <3>5, <4>1
    <3>7. m \in m..k
      BY <2>2
    <3>8. QED
      BY <3>2, <3>3, <3>6, <3>7
  <2>9. ASSUME NEW j \in m..k, j \in T, j < k
        PROVE  j + 1 \in T
    <3>1. /\ j + 1 \in 1..k /\ j + 1 \in m..k /\ j + 1 \in 0..k /\ (j + 1) - 1 = j
          /\ j \in 0..k /\ m < j + 1
      BY <2>2, <2>9
    <3>2. PICK n \in Nodes, p \in Nodes : n = e[j + 1] /\ p = e[j] /\ g.parent[n] = p
      BY <1>6, <2>4, <3>1
    <3>3. n \in Onward(g, c)[p]
      <4>1. n \in g.children[p]
        BY <1>6, <3>1, <3>2
      <4>2. n # c
        BY <2>1, <2>3, <3>1, <3>2
      <4>3. QED
        BY <4>1, <4>2 DEF Onward
    <3>4. \A i \in 1..Len(v) : v[i] = p => \E h \in 1..Len(v) : i < h /\ v[h] = n
      BY <2>7, <3>3 DEF Later
    <3>5. Meets(v, n)
      <4>1. Meets(v, p)
        BY <2>9, <3>2
      <4>2. QED
        BY <3>4, <4>1 DEF Meets
    <3>6. r.depth[n] = (r.depth[p] + 1) % 256
      BY <1>3, <3>2, <3>4, <3>5, LastVisit
    <3>7. r.depth[n] = j + 1
      <4>1. (j + 1) % 256 = j + 1
        BY <2>6, <3>1
      <4>2. r.depth[p] = j
        BY <2>9, <3>2
      <4>3. QED
        BY <3>6, <4>1, <4>2
    <3>8. QED
      BY <3>1, <3>2, <3>5, <3>7
  <2> HIDE DEF T
  <2>10. m..k \subseteq T
    <3>1. m \in Nat
      OBVIOUS
    <3>2. QED
      BY <2>8, <2>9, <3>1, Inductively
  <2>11. k \in T
    BY <2>2, <2>10
  <2>12. QED
    BY <2>11 DEF T
<1>9. QED
  BY <1>7, <1>8

(* No node of S has c for a child. *)
Loose(g, S, c) ==
  \A q \in S : /\ g.children[q] \subseteq S \ {Root, c}
               /\ \A n \in g.children[q] : g.parent[n] = q

(* So it is when an edge to c is all that is new. *)
LEMMA MovedDeep ==
  ASSUME NEW g, Deep(g), NEW h \in Graph, h.depth = g.depth,
         NEW S \in SUBSET Nodes, Root \in S, NEW c \in S \ {Root}, Loose(g, S, c), Forest(h, S),
         \A q \in S : h.children[q] \ {c} \subseteq g.children[q],
         NEW r, r = UpdateDepth(h, c)
  PROVE  Deep(r)
<1>1. ASSUME NEW k \in Nat, NEW f, Chain(f, k, h, Root, c)
      PROVE  Chain(f, k, g, Root, Root)
  <2>1. f \in [0..k -> S] /\ f[0] = Root /\ \A i \in 1..k : f[i] \in h.children[f[i - 1]] \ {c}
    BY <1>1, ChainStays DEF Chain
  <2>2. f \in [0..k -> Nodes]
    BY <1>1 DEF Chain
  <2>3. ASSUME NEW i \in 1..k
        PROVE  f[i] \in g.children[f[i - 1]] \ {Root}
    <3>1. f[i - 1] \in S
      BY <2>1
    <3>2. f[i] \in g.children[f[i - 1]]
      BY <2>1, <3>1
    <3>3. QED
      BY <3>1, <3>2 DEF Loose
  <2>4. QED
    BY <2>1, <2>2, <2>3 DEF Chain
<1>2. DeepBut(h, c)
  BY <1>1 DEF Deep, DeepBut
<1>3. QED
  BY <1>2, UpdateDepthDeep

LEMMA SetParentDeep ==
  ASSUME NEW g \in Graph, Deep(g), NEW S \in SUBSET Nodes, Root \in S,
         NEW c \in S \ {Root}, NEW p \in S, Loose(g, S, c), NEW r, r = SetParent(g, c, p)
  PROVE  Deep(r)
<1> DEFINE h == [g EXCEPT !.parent[c] = p]
<1>1. /\ h \in Graph /\ h.children = g.children /\ h.depth = g.depth
      /\ \A n \in Nodes \ {c} : h.parent[n] = g.parent[n]
  BY DEF Graph
<1>2. r = UpdateDepth(h, c)
  BY DEF SetParent
<1> HIDE DEF h
<1>3. Forest(h, S)
  BY <1>1 DEF Forest, Loose
<1>4. \A q \in S : h.children[q] \ {c} \subseteq g.children[q]
  BY <1>1
<1>5. QED
  BY <1>1, <1>2, <1>3, <1>4, MovedDeep

LEMMA AddChildDeep ==
  ASSUME NEW g \in Graph, Deep(g), NEW S \in SUBSET Nodes, Root \in S,
         NEW c \in S \ {Root}, c \in Addresses, NEW p \in S, Loose(g, S, c),
         NEW r, r = AddChild(g, p, c)
  PROVE  Deep(r)
<1> DEFINE h == [[g EXCEPT !.children[p] = @ \cup {c}] EXCEPT !.parent[c] = p]
<1>1. /\ h \in Graph /\ h.depth = g.depth /\ h.parent[c] = p
      /\ \A q \in Nodes : h.children[q] = IF q = p THEN g.children[q] \cup {c} ELSE g.children[q]
      /\ \A n \in Nodes \ {c} : h.parent[n] = g.parent[n]
  <2>1. PICK d : d = [g EXCEPT !.children[p] = @ \cup {c}]
    OBVIOUS
  <2>2. /\ d \in Graph /\ d.depth = g.depth /\ d.parent = g.parent
        /\ \A q \in Nodes : d.children[q] = IF q = p THEN g.children[q] \cup {c} ELSE g.children[q]
    BY <2>1 DEF Graph
  <2>3. h = [d EXCEPT !.parent[c] = p]
    BY <2>1
  <2> HIDE DEF h
  <2>4. /\ h \in Graph /\ h.children = d.children /\ h.depth = d.depth /\ h.parent[c] = p
        /\ \A n \in Nodes \ {c} : h.parent[n] = d.parent[n]
    BY <2>2, <2>3 DEF Graph
  <2>5. QED
    BY <2>2, <2>4
<1>2. r = UpdateDepth(h, c)
  <2>1. c \notin g.children[p]
    BY DEF Loose
  <2>2. QED
    BY <2>1 DEF AddChild, SetParent
<1> HIDE DEF h
<1>3. Forest(h, S)
  <2>1. ASSUME NEW q \in S
        PROVE  /\ h.children[q] \subseteq S \ {Root}
               /\ \A n \in h.children[q] : h.parent[n] = q
    <3>1. g.children[q] \subseteq S \ {Root, c} /\ \A n \in g.children[q] : g.parent[n] = q
      BY DEF Loose
    <3>2. h.children[q] \subseteq g.children[q] \cup {c} /\ (c \in h.children[q] => q = p)
      BY <1>1, <3>1
    <3>3. ASSUME NEW n \in h.children[q]
          PROVE  h.parent[n] = q
      <4>1. CASE n = c
        BY <1>1, <3>2, <4>1
      <4>2. CASE n # c
        <5>1. n \in Nodes \ {c} /\ n \in g.children[q]
          BY <3>1, <3>2, <4>2
        <5>2. QED
          BY <1>1, <3>1, <5>1
      <4>3. QED
        BY <4>1, <4>2
    <3>4. QED
      BY <3>1, <3>2, <3>3
  <2>2. QED
    BY <2>1 DEF Forest
<1>4. \A q \in S : h.children[q] \ {c} \subseteq g.children[q]
  BY <1>1
<1>5. QED
  BY <1>1, <1>2, <1>3, <1>4, MovedDeep

-----------------------------------------------------------------------------
(***************************************************************************)
(* Edges.                                                                  *)
(***************************************************************************)

Closed(g, N) == \A n \in N : g.children[n] \subseteq N

LEMMA SetParentLists ==
  ASSUME NEW g \in Graph, NEW N \in SUBSET Nodes, Closed(g, N), NEW c \in N, NEW p \in Nodes,
         NEW X \in SUBSET N, X \cup {c} = N, Listed(g, X),
         NEW r, r = SetParent(g, c, p)
  PROVE  /\ r \in Graph
         /\ r.nodes = g.nodes
         /\ r.parent = [g.parent EXCEPT ![c] = p]
         /\ r.children = g.children
         /\ Listed(r, N)
<1> DEFINE h == [g EXCEPT !.parent[c] = p]
<1>1. /\ h \in Graph /\ h.nodes = g.nodes /\ h.parent = [g.parent EXCEPT ![c] = p]
      /\ h.children = g.children /\ h.depth = g.depth /\ h.lists = g.lists
  BY DEF Graph
<1>2. r = UpdateDepth(h, c)
  BY DEF SetParent
<1> HIDE DEF h
<1>3. \A n \in N : h.children[n] \subseteq N
  BY <1>1 DEF Closed
<1>4. Listed(h, X)
  BY <1>1 DEF Listed
<1>5. SameEdges(h, UpdateDepth(h, c)) /\ Listed(UpdateDepth(h, c), N)
  BY <1>1, <1>3, <1>4, UpdateDepthLists
<1>6. QED
  BY <1>1, <1>2, <1>5 DEF SameEdges

LEMMA AddChildLists ==
  ASSUME NEW g \in Graph, NEW N \in SUBSET Nodes, Closed(g, N), NEW c \in N, NEW p \in N,
         NEW X \in SUBSET N, X \cup {c} = N, Listed(g, X),
         c \in Addresses, c \notin g.children[p],
         NEW r, r = AddChild(g, p, c)
  PROVE  /\ r \in Graph
         /\ r.nodes = g.nodes
         /\ r.parent = [g.parent EXCEPT ![c] = p]
         /\ r.children = [g.children EXCEPT ![p] = @ \cup {c}]
         /\ Listed(r, N)
<1> DEFINE h == [g EXCEPT !.children[p] = @ \cup {c}]
<1>1. /\ h \in Graph /\ h.nodes = g.nodes /\ h.parent = g.parent
      /\ h.children = [g.children EXCEPT ![p] = @ \cup {c}]
      /\ h.depth = g.depth /\ h.lists = g.lists
  BY DEF Graph
<1>2. r = SetParent(h, c, p)
  BY DEF AddChild
<1> HIDE DEF h
<1>3. Closed(h, N)
  <2>1. \A n \in N : h.children[n] = IF n = p THEN g.children[p] \cup {c} ELSE g.children[n]
    BY <1>1, GraphFields
  <2>2. QED
    BY <2>1 DEF Closed
<1>4. Listed(h, X)
  BY <1>1 DEF Listed
<1>5. p \in Nodes
  OBVIOUS
<1>6. QED
  BY <1>1, <1>2, <1>3, <1>4, <1>5, SetParentLists

(* The edges are in order, and the lists hold all nodes. *)
Edges(g) ==
  /\ \A n \in g.nodes : g.parent[n] \in g.nodes \cup {Root}
  /\ \A n \in g.nodes : \A p \in Nodes : n \in g.children[p] <=> g.parent[n] = p
  /\ \A p \in Nodes : g.children[p] \subseteq g.nodes

Orderly(g) == g \in Graph /\ Edges(g) /\ Listed(g, g.nodes \cup {Root}) /\ Deep(g)

LEMMA EdgesMeans ==
  ASSUME NEW g \in Graph, Edges(g), NEW q \in Nodes
  PROVE  /\ g.children[q] \subseteq g.nodes
         /\ g.children[q] \subseteq Nodes \ {Root}
         /\ \A n \in g.children[q] : g.parent[n] = q
<1>1. g.nodes \subseteq Addresses /\ Addresses \subseteq Nodes \ {Root}
  <2>1. Root \notin Addresses
    BY TopologyAssumption DEF Root
  <2>2. QED
    BY <2>1, GraphFields DEF Nodes
<1>2. QED
  BY <1>1 DEF Edges

(* Depths stay right when children are taken away. *)
LEMMA SmallerDeep ==
  ASSUME NEW g, Deep(g), NEW h, \A q \in Nodes : h.children[q] \subseteq g.children[q],
         h.depth[Root] = g.depth[Root],
         \A q \in Nodes : \A n \in h.children[q] : h.depth[n] = g.depth[n]
  PROVE  Deep(h)
<1>1. SUFFICES ASSUME NEW k \in Nat, NEW f, Chain(f, k, h, Root, Root)
               PROVE  h.depth[f[k]] = k
  BY DEF Deep, DeepBut
<1>2. /\ f \in [0..k -> Nodes] /\ f[0] = Root
      /\ \A i \in 1..k : f[i] \in h.children[f[i - 1]] \ {Root}
  BY <1>1 DEF Chain
<1>3. \A i \in 1..k : f[i - 1] \in Nodes
  BY <1>2
<1>4. Chain(f, k, g, Root, Root)
  BY <1>2, <1>3 DEF Chain
<1>5. g.depth[f[k]] = k
  BY <1>4 DEF Deep, DeepBut
<1>6. h.depth[f[k]] = g.depth[f[k]]
  <2>1. CASE k = 0
    BY <1>2, <2>1
  <2>2. CASE k # 0
    <3>1. k \in 1..k
      BY <2>2
    <3>2. QED
      BY <1>2, <1>3, <3>1
  <2>3. QED
    BY <2>1, <2>2
<1>7. QED
  BY <1>5, <1>6

LEMMA AddTopNodeOrderly ==
  ASSUME NEW g, Orderly(g), NEW a \in Addresses \ g.nodes, NEW r, r = AddTopNode(g, a)
  PROVE  Orderly(r) /\ r.nodes = g.nodes \cup {a}
<1> DEFINE h == [g EXCEPT !.nodes = @ \cup {a}]
           N == g.nodes \cup {a, Root}
           X == g.nodes \cup {Root}
<1>1. g \in Graph /\ Edges(g) /\ Listed(g, X) /\ Root \in Nodes /\ a \in Nodes
  BY DEF Orderly, Nodes
<1>2. /\ h \in Graph /\ h.nodes = g.nodes \cup {a} /\ h.parent = g.parent
      /\ h.children = g.children /\ h.depth = g.depth /\ h.lists = g.lists
  BY <1>1 DEF Graph
<1>3. r = AddChild(h, Root, a)
  BY DEF AddTopNode
<1> HIDE DEF h
<1>4. N \in SUBSET Nodes /\ X \in SUBSET N /\ X \cup {a} = N /\ a \in N /\ Root \in N
  BY <1>1, GraphFields DEF Nodes
<1>5. Closed(h, N)
  BY <1>1, <1>2, <1>4 DEF Closed, Edges
<1>6. Listed(h, X)
  BY <1>1, <1>2 DEF Listed
<1>7. a \notin h.children[Root]
  BY <1>1, <1>2 DEF Edges
<1> HIDE DEF N, X
<1>8. /\ r \in Graph /\ r.nodes = h.nodes
      /\ r.parent = [h.parent EXCEPT ![a] = Root]
      /\ r.children = [h.children EXCEPT ![Root] = @ \cup {a}]
      /\ Listed(r, N)
  BY <1>2, <1>3, <1>4, <1>5, <1>6, <1>7, AddChildLists
<1>9. /\ r.nodes = g.nodes \cup {a}
      /\ \A n \in Nodes : r.parent[n] = IF n = a THEN Root ELSE g.parent[n]
      /\ \A n \in Nodes : r.children[n] = IF n = Root THEN g.children[Root] \cup {a} ELSE g.children[n]
  BY <1>1, <1>2, <1>8, GraphFields
<1>10. g.nodes \subseteq Nodes
  BY <1>1, GraphFields DEF Nodes
<1>11. Edges(r)
  <2>1. \A n \in r.nodes : r.parent[n] \in r.nodes \cup {Root}
    BY <1>1, <1>9, <1>10 DEF Edges
  <2>2. ASSUME NEW n \in r.nodes, NEW p \in Nodes
        PROVE  n \in r.children[p] <=> r.parent[n] = p
    <3>1. CASE n = a
      BY <1>1, <1>9, <3>1 DEF Edges
    <3>2. CASE n # a
      BY <1>1, <1>9, <1>10, <3>2 DEF Edges
    <3>3. QED
      BY <3>1, <3>2
  <2>3. \A p \in Nodes : r.children[p] \subseteq r.nodes
    BY <1>1, <1>9 DEF Edges
  <2>4. QED
    BY <2>1, <2>2, <2>3 DEF Edges
<1>12. r.nodes \cup {Root} = N
  BY <1>9 DEF N
<1>13. Deep(r)
  <2>1. Deep(h)
    BY <1>2, SmallerDeep DEF Orderly
  <2>2. Loose(h, Nodes, a)
    BY <1>1, <1>2, EdgesMeans DEF Loose
  <2>3. Nodes \in SUBSET Nodes /\ a \in Nodes \ {Root} /\ a \in Addresses
    BY <1>1, TopologyAssumption DEF Root
  <2>4. QED
    BY <1>1, <1>2, <1>3, <2>1, <2>2, <2>3, AddChildDeep
<1>14. QED
  BY <1>8, <1>9, <1>11, <1>12, <1>13 DEF Orderly

(* A port of a MODULE_DOWNSTREAM update: the module there is new, or moves. *)
LEMMA AttachPortOrderly ==
  ASSUME NEW g, Orderly(g), NEW a \in g.nodes, NEW c \in Nodes, NEW r, r = AttachPort(g, a, c)
  PROVE  Orderly(r) /\ g.nodes \subseteq r.nodes
<1> DEFINE X == g.nodes \cup {Root}
<1>1. g \in Graph /\ Edges(g) /\ Listed(g, X)
  BY DEF Orderly
<1>2. g.nodes \subseteq Nodes /\ X \in SUBSET Nodes /\ a \in Nodes /\ Root \in Nodes
  BY <1>1, GraphFields DEF Nodes
<1>3. CASE c = Root \/ c \in g.children[a]
  <2>1. r = g
    BY <1>3 DEF AttachPort
  <2>2. QED
    BY <2>1
<1>4. CASE ~(c = Root \/ c \in g.children[a]) /\ c \notin g.nodes
  <2> DEFINE h == [g EXCEPT !.nodes = @ \cup {c}, !.parent[c] = a]
             N == g.nodes \cup {c, Root}
  <2>1. c \in Addresses
    BY <1>4 DEF Nodes
  <2>2. /\ h \in Graph /\ h.nodes = g.nodes \cup {c} /\ h.parent = [g.parent EXCEPT ![c] = a]
        /\ h.children = g.children /\ h.depth = g.depth /\ h.lists = g.lists
    BY <1>1, <1>2, <2>1 DEF Graph
  <2>3. r = AddChild(h, a, c)
    BY <1>4 DEF AttachPort, AddNodeBelow
  <2> HIDE DEF h
  <2>4. N \in SUBSET Nodes /\ X \in SUBSET N /\ X \cup {c} = N /\ c \in N /\ a \in N
    BY <1>2
  <2>5. Closed(h, N)
    BY <1>1, <2>2, <2>4 DEF Closed, Edges
  <2>6. Listed(h, X)
    BY <1>1, <2>2 DEF Listed
  <2>7. c \notin h.children[a]
    BY <1>4, <2>2
  <2> HIDE DEF N, X
  <2>8. /\ r \in Graph /\ r.nodes = h.nodes
        /\ r.parent = [h.parent EXCEPT ![c] = a]
        /\ r.children = [h.children EXCEPT ![a] = @ \cup {c}]
        /\ Listed(r, N)
    BY <2>1, <2>2, <2>3, <2>4, <2>5, <2>6, <2>7, AddChildLists
  <2>9. /\ r.nodes = g.nodes \cup {c}
        /\ \A n \in Nodes : r.parent[n] = IF n = c THEN a ELSE g.parent[n]
        /\ \A n \in Nodes : r.children[n] = IF n = a THEN g.children[a] \cup {c} ELSE g.children[n]
    BY <1>1, <2>2, <2>8, GraphFields
  <2>10. Edges(r)
    <3>1. \A n \in r.nodes : r.parent[n] \in r.nodes \cup {Root}
      BY <1>1, <1>2, <2>9 DEF Edges
    <3>2. ASSUME NEW n \in r.nodes, NEW p \in Nodes
          PROVE  n \in r.children[p] <=> r.parent[n] = p
      <4>1. CASE n = c
        BY <1>1, <1>2, <1>4, <2>9, <4>1 DEF Edges
      <4>2. CASE n # c
        BY <1>1, <1>2, <2>9, <4>2 DEF Edges
      <4>3. QED
        BY <4>1, <4>2
    <3>3. \A p \in Nodes : r.children[p] \subseteq r.nodes
      BY <1>1, <2>9 DEF Edges
    <3>4. QED
      BY <3>1, <3>2, <3>3 DEF Edges
  <2>11. r.nodes \cup {Root} = N
    BY <2>9 DEF N
  <2>12. Deep(r)
    <3>1. Deep(h)
      BY <2>2, SmallerDeep DEF Orderly
    <3>2. Loose(h, Nodes, c)
      <4>1. ASSUME NEW q \in Nodes
            PROVE  /\ h.children[q] \subseteq Nodes \ {Root, c}
                   /\ \A n \in h.children[q] : h.parent[n] = q
        <5>1. /\ g.children[q] \subseteq g.nodes /\ g.children[q] \subseteq Nodes \ {Root}
              /\ \A n \in g.children[q] : g.parent[n] = q
          BY <1>1, EdgesMeans
        <5>2. \A n \in Nodes \ {c} : h.parent[n] = g.parent[n]
          BY <2>2
        <5>3. QED
          BY <1>4, <2>2, <5>1, <5>2
      <4>2. QED
        BY <4>1 DEF Loose
    <3>3. Nodes \in SUBSET Nodes /\ c \in Nodes \ {Root}
      BY <1>4
    <3>4. QED
      BY <1>2, <2>1, <2>2, <2>3, <3>1, <3>2, <3>3, AddChildDeep
  <2>13. QED
    BY <2>8, <2>9, <2>10, <2>11, <2>12 DEF Orderly
<1>5. CASE ~(c = Root \/ c \in g.children[a]) /\ c \in g.nodes
  <2> DEFINE p == g.parent[c]
             h0 == RemoveChild(g, p, c)
             h == SetParent(h0, c, a)
  <2>1. p \in g.nodes \cup {Root} /\ p \in Nodes /\ p # a /\ c \in Addresses
    BY <1>1, <1>2, <1>5, GraphFields DEF Edges
  <2>2. r = AddChild(h, a, c)
    BY <1>5, <2>1 DEF AttachPort, AddNodeBelow
  <2> HIDE DEF p
  <2>3. /\ h0 \in Graph /\ h0.nodes = g.nodes /\ h0.parent = g.parent
        /\ h0.children = [g.children EXCEPT ![p] = @ \ {c}]
        /\ h0.depth = g.depth /\ h0.lists = g.lists
    BY <1>1, <2>1 DEF Graph, RemoveChild
  <2> HIDE DEF h0
  <2>4. X \in SUBSET X /\ X \cup {c} = X /\ c \in X /\ a \in X /\ c \in Nodes
    BY <1>5
  <2>5. \A n \in Nodes : h0.children[n] = IF n = p THEN g.children[p] \ {c} ELSE g.children[n]
    BY <1>1, <2>3, GraphFields
  <2>6. Closed(h0, X)
    BY <1>1, <1>2, <2>5 DEF Closed, Edges
  <2>7. Listed(h0, X)
    BY <1>1, <2>3 DEF Listed
  <2> HIDE DEF X
  <2>8. /\ h \in Graph /\ h.nodes = h0.nodes
        /\ h.parent = [h0.parent EXCEPT ![c] = a]
        /\ h.children = h0.children
        /\ Listed(h, X)
    BY <1>2, <2>3, <2>4, <2>6, <2>7, SetParentLists
  <2> HIDE DEF h
  <2>9. Closed(h, X) /\ c \notin h.children[a]
    BY <1>2, <1>5, <2>1, <2>5, <2>6, <2>8 DEF Closed
  <2>10. /\ r \in Graph /\ r.nodes = h.nodes
         /\ r.parent = [h.parent EXCEPT ![c] = a]
         /\ r.children = [h.children EXCEPT ![a] = @ \cup {c}]
         /\ Listed(r, X)
    BY <1>2, <2>1, <2>2, <2>4, <2>8, <2>9, AddChildLists
  <2>11. /\ r.nodes = g.nodes
         /\ \A n \in Nodes : r.parent[n] = IF n = c THEN a ELSE g.parent[n]
         /\ \A n \in Nodes : r.children[n] = IF n = a THEN g.children[a] \cup {c}
                                             ELSE IF n = p THEN g.children[p] \ {c} ELSE g.children[n]
    <3>1. r.nodes = g.nodes
      BY <2>3, <2>8, <2>10
    <3>2. \A n \in Nodes : r.parent[n] = IF n = c THEN a ELSE g.parent[n]
      BY <1>1, <2>3, <2>8, <2>10, GraphFields
    <3>3. h.children \in [Nodes -> SUBSET Addresses]
      BY <2>8, GraphFields
    <3>4. \A n \in Nodes : r.children[n] = IF n = a THEN h.children[a] \cup {c} ELSE h.children[n]
      BY <2>10, <3>3
    <3>5. \A n \in Nodes : h.children[n] = IF n = p THEN g.children[p] \ {c} ELSE g.children[n]
      BY <2>5, <2>8
    <3>6. h.children[a] = g.children[a]
      BY <1>2, <2>1, <3>5
    <3>7. QED
      BY <3>1, <3>2, <3>4, <3>5, <3>6
  <2>12. Edges(r)
    <3>1. \A n \in r.nodes : r.parent[n] \in r.nodes \cup {Root}
      BY <1>1, <1>2, <2>11 DEF Edges
    <3>2. ASSUME NEW n \in r.nodes, NEW q \in Nodes
          PROVE  n \in r.children[q] <=> r.parent[n] = q
      <4>1. n \in g.nodes /\ n \in Nodes
        BY <1>2, <2>11
      <4>2. n \in g.children[q] <=> g.parent[n] = q
        BY <1>1, <4>1 DEF Edges
      <4>3. CASE n = c
        BY <1>2, <1>5, <2>1, <2>11, <4>1, <4>2, <4>3 DEF p
      <4>4. CASE n # c
        BY <1>2, <2>1, <2>11, <4>1, <4>2, <4>4
      <4>5. QED
        BY <4>3, <4>4
    <3>3. \A q \in Nodes : r.children[q] \subseteq r.nodes
      BY <1>1, <1>5, <2>11 DEF Edges
    <3>4. QED
      BY <3>1, <3>2, <3>3 DEF Edges
  <2>13. r.nodes \cup {Root} = X
    BY <2>11 DEF X
  <2>14. Deep(r)
    <3>1. Nodes \in SUBSET Nodes /\ c \in Nodes \ {Root}
      BY <1>5
    <3>2. ASSUME NEW q \in Nodes
          PROVE  /\ h0.children[q] \subseteq g.children[q]
                 /\ h0.children[q] \subseteq Nodes \ {Root, c}
                 /\ \A n \in h0.children[q] : g.parent[n] = q
      <4>1. /\ g.children[q] \subseteq Nodes \ {Root}
            /\ \A n \in g.children[q] : g.parent[n] = q
        BY <1>1, EdgesMeans
      <4>2. h0.children[q] \subseteq g.children[q]
        BY <2>5
      <4>3. c \notin h0.children[q]
        BY <2>5, <4>1 DEF p
      <4>4. QED
        BY <4>1, <4>2, <4>3
    <3>3. Loose(h0, Nodes, c)
      BY <2>3, <3>2 DEF Loose
    <3>4. Deep(h0)
      BY <2>3, <3>2, SmallerDeep DEF Orderly
    <3>5. Deep(h)
      BY <1>2, <2>3, <3>1, <3>3, <3>4, SetParentDeep DEF h
    <3>6. Loose(h, Nodes, c)
      <4>1. ASSUME NEW q \in Nodes
            PROVE  /\ h.children[q] \subseteq Nodes \ {Root, c}
                   /\ \A n \in h.children[q] : h.parent[n] = q
        <5>1. h.children[q] = h0.children[q] /\ \A n \in Nodes \ {c} : h.parent[n] = g.parent[n]
          BY <2>3, <2>8
        <5>2. QED
          BY <3>2, <5>1
      <4>2. QED
        BY <4>1 DEF Loose
    <3>7. QED
      BY <1>2, <2>1, <2>2, <2>8, <3>1, <3>5, <3>6, AddChildDeep
  <2>15. QED
    BY <2>10, <2>11, <2>12, <2>13, <2>14 DEF Orderly
<1>6. QED
  BY <1>3, <1>4, <1>5

(* Between two orphans of a node that goes: everything is in order but the  *)
(* children A of the node a, some of which are below the root node already. *)
Orphaning(h, g, a, A) ==
  /\ h \in Graph
  /\ h.nodes = g.nodes
  /\ h.children[a] = A
  /\ \A n \in g.nodes \ {a} : \A q \in Nodes \ {a} : n \in h.children[q] <=> h.parent[n] = q
  /\ \A n \in g.nodes \ {a} : h.parent[n] \in g.nodes \cup {Root}
  /\ \A n \in g.nodes \ {a} : h.parent[n] = a => n \in A
  /\ \A c \in A : h.parent[c] \in {a, Root}
  /\ \A q \in Nodes : h.children[q] \subseteq g.nodes \ {a}
  /\ Listed(h, (g.nodes \ {a}) \cup {Root})
  /\ Deep(h)

LEMMA OrphanMoves ==
  ASSUME NEW g \in Graph, NEW a \in g.nodes, a # Root, NEW A \in SUBSET (g.nodes \ {a}),
         NEW h, Orphaning(h, g, a, A), NEW c \in A, NEW r, r = AddChild(h, Root, c)
  PROVE  /\ Orphaning(r, g, a, A)
         /\ r.parent[c] = Root
         /\ \A x \in Nodes : h.parent[x] = Root => r.parent[x] = Root
<1> DEFINE N == (g.nodes \ {a}) \cup {Root}
<1>1. g.nodes \subseteq Nodes /\ Root \in Nodes /\ g.nodes \subseteq Addresses
  BY GraphFields DEF Nodes
<1>2. /\ h \in Graph /\ h.nodes = g.nodes /\ Listed(h, N)
      /\ \A q \in Nodes : h.children[q] \subseteq g.nodes \ {a}
  BY DEF Orphaning
<1>3. CASE c \in h.children[Root]
  <2>1. r = h
    BY <1>3 DEF AddChild
  <2>2. h.parent[c] = Root
    BY <1>1, <1>3 DEF Orphaning
  <2>3. QED
    BY <2>1, <2>2
<1>4. CASE c \notin h.children[Root]
  <2>1. N \in SUBSET Nodes /\ N \in SUBSET N /\ c \in N /\ N \cup {c} = N /\ Root \in N /\ c \in Addresses
    BY <1>1
  <2>2. Closed(h, N)
    BY <1>2, <2>1 DEF Closed
  <2> HIDE DEF N
  <2>3. /\ r \in Graph /\ r.nodes = h.nodes
        /\ r.parent = [h.parent EXCEPT ![c] = Root]
        /\ r.children = [h.children EXCEPT ![Root] = @ \cup {c}]
        /\ Listed(r, N)
    BY <1>2, <1>4, <2>1, <2>2, AddChildLists
  <2>4. /\ r.nodes = g.nodes
        /\ \A n \in Nodes : r.parent[n] = IF n = c THEN Root ELSE h.parent[n]
        /\ \A n \in Nodes : r.children[n] = IF n = Root THEN h.children[Root] \cup {c} ELSE h.children[n]
    BY <1>1, <1>2, <2>3, GraphFields
  <2>5. \A q \in Nodes : r.children[q] \subseteq g.nodes \ {a}
    BY <1>2, <2>4
  <2>6. r.children[a] = A
    BY <1>1, <2>4 DEF Orphaning
  <2>7. ASSUME NEW n \in g.nodes \ {a}, NEW q \in Nodes \ {a}
        PROVE  n \in r.children[q] <=> r.parent[n] = q
    <3>1. (n \in h.children[q] <=> h.parent[n] = q) /\ n \in Nodes
      BY <1>1 DEF Orphaning
    <3>2. CASE n = c
      <4>1. h.parent[c] \in {a, Root}
        BY DEF Orphaning
      <4>2. QED
        BY <1>1, <2>4, <3>1, <3>2, <4>1
    <3>3. CASE n # c
      BY <2>4, <3>1, <3>3
    <3>4. QED
      BY <3>2, <3>3
  <2>8. ASSUME NEW n \in g.nodes \ {a}
        PROVE  r.parent[n] \in g.nodes \cup {Root} /\ (r.parent[n] = a => n \in A)
    BY <1>1, <2>4 DEF Orphaning
  <2>9. \A x \in A : r.parent[x] \in {a, Root}
    BY <1>1, <2>4 DEF Orphaning
  <2>10. Deep(r)
    <3>1. PICK S : S = Nodes \ {a}
      OBVIOUS
    <3>2. S \in SUBSET Nodes /\ Root \in S /\ c \in S
      BY <1>1, <3>1
    <3>3. ASSUME NEW q \in S
          PROVE  /\ h.children[q] \subseteq S \ {Root, c}
                 /\ \A n \in h.children[q] : h.parent[n] = q
      <4>1. h.children[q] \subseteq g.nodes \ {a} /\ Root \notin g.nodes
        BY <1>1, <1>2, <3>1, TopologyAssumption DEF Root
      <4>2. \A n \in h.children[q] : h.parent[n] = q
        BY <3>1, <4>1 DEF Orphaning
      <4>3. c \notin h.children[q]
        <5>1. h.parent[c] \in {a, Root}
          BY DEF Orphaning
        <5>2. QED
          BY <1>4, <3>1, <4>2, <5>1
      <4>4. QED
        BY <1>1, <3>1, <4>1, <4>2, <4>3
    <3>4. Loose(h, S, c)
      BY <3>3 DEF Loose
    <3>5. c # Root /\ Deep(h)
      BY <1>1, TopologyAssumption DEF Root, Orphaning
    <3>6. QED
      BY <1>2, <2>1, <3>2, <3>4, <3>5, AddChildDeep
  <2>11. Orphaning(r, g, a, A)
    BY <2>3, <2>4, <2>5, <2>6, <2>7, <2>8, <2>9, <2>10 DEF Orphaning, N
  <2>12. QED
    BY <1>1, <2>4, <2>11
<1>5. QED
  BY <1>3, <1>4

(* A node goes, and its children are below the root node then. *)
LEMMA RemoveNodeOrderly ==
  ASSUME NEW g, Orderly(g), NEW a \in g.nodes, NEW r, r = RemoveNode(g, a)
  PROVE  Orderly(r) /\ r.nodes = g.nodes \ {a}
<1> DEFINE p == g.parent[a]
           h0 == RemoveChild(g, p, a)
           alone == RemoveDepth(h0, a)
           A == alone.children[a]
           X == g.nodes \cup {Root}
           N == (g.nodes \ {a}) \cup {Root}
<1>1. g \in Graph /\ Edges(g) /\ Listed(g, X)
  BY DEF Orderly
<1>2. /\ g.nodes \subseteq Nodes /\ Root \in Nodes /\ a \in Nodes /\ a # Root
      /\ X \in SUBSET Nodes /\ X \ {a} = N /\ g.nodes \subseteq Addresses
  <2>1. a # Root
    BY <1>1, GraphFields, TopologyAssumption DEF Root
  <2>2. QED
    BY <1>1, <2>1, GraphFields DEF Nodes
<1>3. p \in g.nodes \cup {Root} /\ p \in Nodes
  BY <1>1, <1>2 DEF Edges
<1> HIDE DEF p
<1>4. /\ h0 \in Graph /\ h0.nodes = g.nodes /\ h0.parent = g.parent
      /\ h0.children = [g.children EXCEPT ![p] = @ \ {a}]
      /\ h0.depth = g.depth /\ h0.lists = g.lists
  BY <1>1, <1>3 DEF Graph, RemoveChild
<1> HIDE DEF h0
<1>5. Listed(h0, X)
  BY <1>1, <1>4 DEF Listed
<1>6. SameEdges(h0, alone) /\ Listed(alone, X \ {a})
  BY <1>2, <1>4, <1>5, RemoveDepthLists
<1> HIDE DEF alone
<1>7. /\ alone \in Graph /\ alone.nodes = g.nodes /\ alone.parent = g.parent
      /\ \A n \in Nodes : alone.children[n] = IF n = p THEN g.children[p] \ {a} ELSE g.children[n]
      /\ Listed(alone, N)
  <2>1. alone \in Graph /\ alone.nodes = g.nodes /\ alone.parent = g.parent /\ alone.children = h0.children
    BY <1>4, <1>6 DEF SameEdges
  <2>2. \A n \in Nodes : h0.children[n] = IF n = p THEN g.children[p] \ {a} ELSE g.children[n]
    BY <1>1, <1>3, <1>4, GraphFields
  <2>3. Listed(alone, N)
    BY <1>2, <1>6
  <2> HIDE DEF N
  <2>4. QED
    BY <2>1, <2>2, <2>3
<1>8. \A q \in Nodes : alone.children[q] \subseteq g.nodes \ {a}
  <2>1. ASSUME NEW q \in Nodes
        PROVE  alone.children[q] \subseteq g.nodes \ {a}
    <3>1. g.children[q] \subseteq g.nodes /\ (a \in g.children[q] <=> p = q)
      BY <1>1 DEF Edges, p
    <3>2. QED
      BY <1>7, <3>1
  <2>2. QED
    BY <2>1
<1>9. Orphaning(alone, g, a, A)
  <2>1. ASSUME NEW n \in g.nodes \ {a}, NEW q \in Nodes
        PROVE  n \in alone.children[q] <=> alone.parent[n] = q
    BY <1>1, <1>7 DEF Edges
  <2>2. ASSUME NEW c \in A
        PROVE  alone.parent[c] = a
    <3>1. c \in g.nodes \ {a}
      BY <1>2, <1>8
    <3>2. QED
      BY <1>2, <2>1, <3>1
  <2>3. \A n \in g.nodes \ {a} : alone.parent[n] \in g.nodes \cup {Root}
    BY <1>1, <1>7 DEF Edges
  <2>4. Deep(alone)
    <3>1. alone.depth = g.depth
      BY <1>2, <1>4, <1>5, RemoveDepthLists DEF alone
    <3>2. \A q \in Nodes : alone.children[q] \subseteq g.children[q]
      BY <1>7
    <3>3. QED
      BY <3>1, <3>2, SmallerDeep DEF Orderly
  <2>5. QED
    BY <1>2, <1>7, <1>8, <2>1, <2>2, <2>3, <2>4 DEF Orphaning
<1>10. A \in SUBSET (g.nodes \ {a})
  BY <1>2, <1>8
<1>11. PICK v : v = Ascending(A)
  OBVIOUS
<1>12. v \in Seq(A) /\ \A x \in A : \E i \in 1..Len(v) : v[i] = x
  <2>1. A \in SUBSET (0..255)
    <3>1. \A x \in Addresses : x \in 0..255
      BY TopologyAssumption
    <3>2. QED
      BY <1>2, <1>10, <3>1
  <2>2. QED
    BY <1>11, <2>1, AscendingFacts
<1>13. Len(v) \in Nat /\ \A i \in 1..Len(v) : v[i] \in A
  BY <1>12
<1>14. v = Ascending(alone.children[a])
  BY <1>11
<1> HIDE DEF A
<1> DEFINE V == {h \in Graph : Orphaning(h, g, a, A)}
<1>15. alone \in V
  BY <1>7, <1>9
<1>16. \A h \in V, c \in A : AddChild(h, Root, c) \in V
  <2>1. ASSUME NEW h \in V, NEW c \in A
        PROVE  AddChild(h, Root, c) \in V
    <3>1. Orphaning(AddChild(h, Root, c), g, a, A)
      BY <1>1, <1>2, <1>10, OrphanMoves
    <3>2. AddChild(h, Root, c) \in Graph
      BY <3>1 DEF Orphaning
    <3>3. QED
      BY <3>1, <3>2
  <2>2. QED
    BY <2>1
<1>17. alone = Detached(g, a)
  BY DEF alone, h0, p, Detached
<1> HIDE DEF V
<1>18. PICK f \in [0..Len(v) -> V] :
         /\ f[0] = alone
         /\ \A k \in 1..Len(v) : f[k] = AddChild(f[k - 1], Root, v[k])
         /\ RemoveNode(g, a) = Without(f[Len(v)], a)
  <2>1. v \in Seq(A)
    BY <1>12
  <2> HIDE DEF X, N
  <2>2. QED
    BY <1>14, <1>15, <1>16, <1>17, <2>1, RemoveNodeSteps
<1>19. \A k \in 0..Len(v) : Orphaning(f[k], g, a, A)
  <2>1. \A k \in 0..Len(v) : f[k] \in V
    BY <1>18
  <2>2. QED
    BY <2>1 DEF V
<1> DEFINE T == {k \in 0..Len(v) : \A i \in 1..k : f[k].parent[v[i]] = Root}
<1>20. 0 \in T
  BY <1>13
<1>21. ASSUME NEW k \in 0..Len(v), k \in T, k < Len(v)
       PROVE  k + 1 \in T
  <2>1. k + 1 \in 1..Len(v) /\ k + 1 \in 0..Len(v) /\ (k + 1) - 1 = k
    BY <1>13, <1>21
  <2>2. f[k + 1] = AddChild(f[k], Root, v[k + 1]) /\ v[k + 1] \in A
    BY <1>13, <1>18, <2>1
  <2>3. /\ f[k + 1].parent[v[k + 1]] = Root
        /\ \A x \in Nodes : f[k].parent[x] = Root => f[k + 1].parent[x] = Root
    <3>1. PICK h, c, m : h = f[k] /\ c = v[k + 1] /\ m = f[k + 1]
      OBVIOUS
    <3>2. c \in A /\ m = AddChild(h, Root, c) /\ Orphaning(h, g, a, A)
      BY <1>19, <2>2, <3>1
    <3> HIDE DEF X, N, T
    <3>3. m.parent[c] = Root /\ \A x \in Nodes : h.parent[x] = Root => m.parent[x] = Root
      <4>1. g \in Graph /\ a # Root
        BY <1>1, <1>2
      <4>2. QED
        BY <1>10, <3>2, <4>1, OrphanMoves
    <3>4. QED
      BY <3>1, <3>3
  <2>4. ASSUME NEW i \in 1..k + 1
        PROVE  f[k + 1].parent[v[i]] = Root
    <3>1. CASE i = k + 1
      BY <2>3, <3>1
    <3>2. CASE i # k + 1
      <4>1. i \in 1..k /\ i \in 1..Len(v)
        BY <1>13, <2>1, <3>2
      <4>2. v[i] \in Nodes
        BY <1>2, <1>10, <1>13, <4>1
      <4>3. f[k].parent[v[i]] = Root
        BY <1>21, <4>1
      <4>4. QED
        BY <2>3, <4>2, <4>3
    <3>3. QED
      BY <3>1, <3>2
  <2>5. QED
    BY <2>1, <2>4
<1> HIDE DEF T
<1>22. 0..Len(v) \subseteq T
  BY <1>13, <1>20, <1>21, Inductively
<1>23. PICK m : m = f[Len(v)]
  OBVIOUS
<1>24. Orphaning(m, g, a, A) /\ \A c \in A : m.parent[c] = Root
  <2>1. Len(v) \in 0..Len(v)
    BY <1>13
  <2>2. Orphaning(m, g, a, A) /\ \A i \in 1..Len(v) : m.parent[v[i]] = Root
    BY <1>19, <1>22, <1>23, <2>1 DEF T
  <2>3. QED
    BY <1>12, <2>2
<1>25. m \in Graph /\ m.nodes = g.nodes /\ Listed(m, N)
  BY <1>24 DEF Orphaning
<1>26. r = [m EXCEPT !.nodes = @ \ {a}, !.parent[a] = None, !.children[a] = {}, !.depth[a] = 0]
  BY <1>18, <1>23 DEF Without
<1>27. /\ r \in Graph /\ r.nodes = g.nodes \ {a} /\ r.lists = m.lists
       /\ \A n \in Nodes \ {a} : /\ r.parent[n] = m.parent[n] /\ r.children[n] = m.children[n]
                                 /\ r.depth[n] = m.depth[n]
       /\ r.children[a] = {}
  <2>1. /\ r.nodes = m.nodes \ {a} /\ r.lists = m.lists
        /\ r.parent = [m.parent EXCEPT ![a] = None]
        /\ r.children = [m.children EXCEPT ![a] = {}]
        /\ r.depth = [m.depth EXCEPT ![a] = 0]
    BY <1>25, <1>26 DEF Graph
  <2>2. r \in Graph
    <3> DEFINE m1 == [m EXCEPT !.nodes = @ \ {a}]
               m2 == [m1 EXCEPT !.parent[a] = None]
               m3 == [m2 EXCEPT !.children[a] = {}]
               m4 == [m3 EXCEPT !.depth[a] = 0]
    <3>1. m1 \in Graph
      BY <1>25 DEF Graph
    <3>2. r = m4
      BY <1>26
    <3> HIDE DEF m1
    <3>3. m2 \in Graph
      BY <1>2, <3>1 DEF Graph
    <3> HIDE DEF m2
    <3>4. m3 \in Graph
      BY <1>2, <3>3 DEF Graph
    <3> HIDE DEF m3
    <3>5. m4 \in Graph
      <4>1. m3.depth \in [Nodes -> 0..255]
        BY <3>4, GraphFields
      <4>2. \A D : m3.depth \in [Nodes -> D] /\ 0 \in D => [m3.depth EXCEPT ![a] = 0] \in [Nodes -> D]
        OBVIOUS
      <4>3. 0 \in 0..255
        OBVIOUS
      <4>4. [m3.depth EXCEPT ![a] = 0] \in [Nodes -> 0..255]
        BY <4>1, <4>2, <4>3
      <4>5. QED
        BY <3>4, <4>4 DEF Graph
    <3>6. QED
      BY <3>2, <3>5
  <2>3. QED
    BY <1>2, <1>25, <2>1, <2>2, GraphFields
<1>28. Listed(r, N)
  <2>1. \A n \in N : r.depth[n] = m.depth[n]
    BY <1>2, <1>27
  <2>2. QED
    BY <1>25, <1>27, <2>1 DEF Listed
<1>29. Edges(r)
  <2>1. ASSUME NEW n \in r.nodes
        PROVE  r.parent[n] \in r.nodes \cup {Root} /\ r.parent[n] # a
    <3>1. n \in g.nodes \ {a} /\ r.parent[n] = m.parent[n]
      BY <1>2, <1>27
    <3>2. m.parent[n] \in g.nodes \cup {Root} /\ (m.parent[n] = a => n \in A)
      BY <1>24, <3>1 DEF Orphaning
    <3>3. m.parent[n] # a
      BY <1>2, <1>24, <3>2
    <3>4. QED
      BY <1>27, <3>1, <3>2, <3>3
  <2>2. ASSUME NEW n \in r.nodes, NEW q \in Nodes
        PROVE  n \in r.children[q] <=> r.parent[n] = q
    <3>1. CASE q = a
      BY <1>27, <2>1, <3>1
    <3>2. CASE q # a
      <4>1. n \in g.nodes \ {a} /\ r.parent[n] = m.parent[n] /\ r.children[q] = m.children[q]
        BY <1>2, <1>27, <3>2
      <4>2. QED
        BY <1>24, <3>2, <4>1 DEF Orphaning
    <3>3. QED
      BY <3>1, <3>2
  <2>3. ASSUME NEW q \in Nodes
        PROVE  r.children[q] \subseteq r.nodes
    <3>1. m.children[q] \subseteq g.nodes \ {a}
      BY <1>24 DEF Orphaning
    <3>2. QED
      BY <1>27, <3>1
  <2>4. QED
    BY <2>1, <2>2, <2>3 DEF Edges
<1>30. r.nodes \cup {Root} = N
  BY <1>27
<1>31. Deep(r)
  <2>1. ASSUME NEW q \in Nodes
        PROVE  r.children[q] \subseteq m.children[q] /\ a \notin r.children[q]
    <3>1. r.children[q] \subseteq m.children[q]
      BY <1>27
    <3>2. m.children[q] \subseteq g.nodes \ {a}
      BY <1>24 DEF Orphaning
    <3>3. QED
      BY <3>1, <3>2
  <2>2. r.depth[Root] = m.depth[Root]
    BY <1>2, <1>27
  <2>3. \A q \in Nodes : \A n \in r.children[q] : r.depth[n] = m.depth[n]
    <3>1. \A q \in Nodes : \A n \in r.children[q] : n \in Nodes
      BY <1>2, <1>27, <1>29 DEF Edges
    <3>2. QED
      BY <1>27, <2>1, <3>1
  <2>4. Deep(m)
    BY <1>24 DEF Orphaning
  <2>5. QED
    BY <2>1, <2>2, <2>3, <2>4, SmallerDeep
<1>32. QED
  BY <1>27, <1>28, <1>29, <1>30, <1>31 DEF Orderly

(* After any update the graph is in order; an addition adds its node, and   *)
(* only a removal takes one away.                                           *)
LEMMA ProcessedOrderly ==
  ASSUME NEW g, Orderly(g), NEW u \in Update, downstream[u.addr] \in [1..Ports -> Nodes],
         NEW r, r = Processed(g, u)
  PROVE  /\ Orderly(r)
         /\ u.type = "added" => u.addr \in r.nodes
         /\ u.type # "removed" => g.nodes \subseteq r.nodes
         /\ g.nodes \ {u.addr} \subseteq r.nodes
<1> DEFINE a == u.addr
<1>1. a \in Addresses /\ u.type \in {"added", "removed", "downstream"}
  BY DEF Update
<1>2. CASE u.type = "added"
  <2>1. CASE a \in g.nodes
    <3>1. r = g
      BY <1>2, <2>1 DEF Processed
    <3>2. QED
      BY <1>2, <2>1, <3>1
  <2>2. CASE a \notin g.nodes
    <3>1. r = AddTopNode(g, a)
      BY <1>2, <2>2 DEF Processed
    <3>2. Orderly(r) /\ r.nodes = g.nodes \cup {a}
      BY <1>1, <2>2, <3>1, AddTopNodeOrderly
    <3>3. QED
      BY <3>2
  <2>3. QED
    BY <2>1, <2>2
<1>3. CASE u.type = "removed"
  <2>1. CASE a \in g.nodes
    <3>1. r = RemoveNode(g, a)
      BY <1>3, <2>1 DEF Processed
    <3>2. Orderly(r) /\ r.nodes = g.nodes \ {a}
      BY <2>1, <3>1, RemoveNodeOrderly
    <3>3. QED
      BY <1>3, <3>2
  <2>2. CASE a \notin g.nodes
    <3>1. r = g
      BY <1>3, <2>2 DEF Processed
    <3>2. QED
      BY <1>3, <3>1
  <2>3. QED
    BY <2>1, <2>2
<1>4. CASE u.type = "downstream" /\ a \notin g.nodes
  <2>1. r = g
    BY <1>4 DEF Processed
  <2>2. QED
    BY <1>4, <2>1
<1>5. CASE u.type = "downstream" /\ a \in g.nodes
  <2> DEFINE V == {h \in Graph : Orderly(h) /\ g.nodes \subseteq h.nodes}
  <2>1. g \in V
    BY DEF Orderly
  <2>2. ASSUME NEW h \in V, NEW c \in Nodes
        PROVE  AttachPort(h, a, c) \in V
    <3>1. Orderly(h) /\ a \in h.nodes
      BY <1>5
    <3>2. Orderly(AttachPort(h, a, c)) /\ h.nodes \subseteq AttachPort(h, a, c).nodes
      BY <3>1, AttachPortOrderly
    <3>3. QED
      BY <3>2 DEF Orderly
  <2>3. PICK v : v = downstream[a]
    OBVIOUS
  <2>4. v \in Seq(Nodes) /\ Len(v) \in Nat
    BY <2>3, TopologyAssumption
  <2> HIDE DEF V
  <2>5. PICK f \in [0..Len(v) -> V] :
          /\ f[0] = g
          /\ \A k \in 1..Len(v) : f[k] = AttachPort(f[k - 1], a, v[k])
          /\ Processed(g, u) = f[Len(v)]
    BY <1>5, <2>1, <2>2, <2>3, <2>4, DownstreamSteps
  <2>6. r \in V
    <3>1. Len(v) \in 0..Len(v)
      BY <2>4
    <3>2. QED
      BY <2>5, <3>1
  <2>7. QED
    BY <1>5, <2>6 DEF V
<1>6. QED
  BY <1>1, <1>2, <1>3, <1>4, <1>5

-----------------------------------------------------------------------------
(***************************************************************************)
(* The way down from a node ends.                                          *)
(***************************************************************************)

(* The nodes met k steps below a node, without going below it again. *)
Levels(it, g, first) ==
  it = [k \in 0..Cardinality(Nodes) |->
         IF k = 0 THEN {first} ELSE (UNION {g.children[n] : n \in it[k - 1]}) \ {first}]

LEMMA LevelsExist ==
  ASSUME NEW g \in Graph, NEW first \in Nodes
  PROVE  \E it : Levels(it, g, first)
<1> DEFINE C == Cardinality(Nodes)
           W == SUBSET Nodes
           Next1(s) == (UNION {g.children[n] : n \in s}) \ {first}
           F == [p \in (1..C) \X W |-> Next1(p[2])]
<1>1. C \in Nat
  BY NodesFinite
<1>2. \A s \in W : Next1(s) \in W
  <2>1. \A n \in Nodes : g.children[n] \subseteq Nodes
    BY GraphFields DEF Nodes
  <2>2. QED
    BY <2>1
<1> HIDE DEF C
<1>3. {first} \in W
  OBVIOUS
<1> HIDE DEF Next1
<1>4. F \in [(1..C) \X W -> W] /\ \A k \in 1..C, s \in W : F[<<k, s>>] = Next1(s)
  <2> HIDE DEF W
  <2>1. \A p \in (1..C) \X W : p[2] \in W
    OBVIOUS
  <2>2. QED
    BY <1>2, <2>1
<1> HIDE DEF W, F
<1>5. PICK f : Follows(f, C, W, {first}, F)
  BY <1>1, <1>3, <1>4, Iteration
<1>6. /\ f \in [0..C -> W] /\ f[0] = {first}
      /\ \A k \in 1..C : f[k] = F[<<k, f[k - 1]>>]
  BY <1>5 DEF Follows
<1>7. ASSUME NEW k \in 1..C
      PROVE  f[k] = Next1(f[k - 1])
  <2>1. f[k - 1] \in W
    BY <1>1, <1>6
  <2>2. QED
    BY <1>4, <1>6, <2>1
<1>8. ASSUME NEW k \in 0..C
      PROVE  f[k] = IF k = 0 THEN {first} ELSE Next1(f[k - 1])
  <2>1. CASE k = 0
    BY <1>6, <2>1
  <2>2. CASE k # 0
    <3>1. k \in 1..C
      BY <1>1, <2>2
    <3>2. QED
      BY <1>7, <2>2, <3>1
  <2>3. QED
    BY <2>1, <2>2
<1>9. f = [k \in 0..C |-> IF k = 0 THEN {first} ELSE Next1(f[k - 1])]
  BY <1>6, <1>8
<1>10. Levels(f, g, first)
  BY <1>9 DEF Levels, Next1, C
<1>11. QED
  BY <1>10

(* A node has one parent, so no node is on two levels, and there are more   *)
(* levels than nodes.                                                       *)
LEMMA LevelsEnd ==
  ASSUME NEW g \in Graph, Edges(g), NEW first \in g.nodes, NEW level, Levels(level, g, first)
  PROVE  level[Cardinality(Nodes)] = {}
<1> DEFINE C == Cardinality(Nodes)
<1>1. C \in Nat /\ IsFiniteSet(Nodes) /\ g.nodes \subseteq Nodes
  BY NodesFinite, GraphFields DEF Nodes
<1>2. \A k \in 0..C :
        level[k] = IF k = 0 THEN {first} ELSE (UNION {g.children[n] : n \in level[k - 1]}) \ {first}
  BY DEF Levels
<1>3. level[0] = {first}
  <2>1. 0 \in 0..C
    BY <1>1
  <2> HIDE DEF C
  <2>2. QED
    BY <1>2, <2>1
<1>4. ASSUME NEW k \in 0..C, k < C
      PROVE  level[k + 1] = (UNION {g.children[n] : n \in level[k]}) \ {first}
  <2>1. k + 1 \in 0..C /\ k + 1 # 0 /\ (k + 1) - 1 = k
    BY <1>1, <1>4
  <2>2. QED
    BY <1>2, <2>1
<1> HIDE DEF C
<1>5. \A k \in 0..C : level[k] \subseteq g.nodes
  <2> DEFINE T == {k \in 0..C : level[k] \subseteq g.nodes}
  <2>1. 0 \in T
    BY <1>1, <1>3
  <2>2. ASSUME NEW k \in 0..C, k \in T, k < C
        PROVE  k + 1 \in T
    <3>1. k + 1 \in 0..C
      BY <1>1, <2>2
    <3>2. \A n \in level[k] : g.children[n] \subseteq g.nodes
      BY <1>1, <2>2 DEF Edges
    <3>3. QED
      BY <1>4, <2>2, <3>1, <3>2
  <2> HIDE DEF T
  <2>3. 0..C \subseteq T
    BY <1>1, <2>1, <2>2, Inductively
  <2>4. QED
    BY <2>3 DEF T
<1>6. ASSUME NEW k \in 0..C, level[k] = {}
      PROVE  level[C] = {}
  <2> DEFINE T == {j \in k..C : level[j] = {}}
  <2>1. k \in T /\ k \in Nat
    BY <1>1, <1>6
  <2>2. ASSUME NEW j \in k..C, j \in T, j < C
        PROVE  j + 1 \in T
    <3>1. j \in 0..C /\ j + 1 \in k..C
      BY <1>1, <2>2
    <3>2. QED
      BY <1>4, <2>2, <3>1
  <2> HIDE DEF T
  <2>3. k..C \subseteq T
    BY <1>1, <2>1, <2>2, Inductively
  <2>4. C \in k..C
    BY <1>1
  <2>5. QED
    BY <2>3, <2>4 DEF T
<1>7. \A j, k \in 0..C : j < k => level[j] \cap level[k] = {}
  <2> DEFINE T == {j \in 0..C : \A k \in 0..C : j < k => level[j] \cap level[k] = {}}
  <2>1. ASSUME NEW k \in 0..C, 0 < k
        PROVE  first \notin level[k]
    <3>1. k # 0
      BY <2>1
    <3>2. level[k] = (UNION {g.children[n] : n \in level[k - 1]}) \ {first}
      BY <1>2, <3>1
    <3>3. QED
      BY <3>2
  <2>2. 0 \in T
    BY <1>1, <1>3, <2>1
  <2>3. ASSUME NEW j \in 0..C, j \in T, j < C
        PROVE  j + 1 \in T
    <3>1. ASSUME NEW k \in 0..C, j + 1 < k, NEW n \in level[j + 1], n \in level[k]
          PROVE  FALSE
      <4>1. k - 1 \in 0..C /\ k - 1 < C /\ j < k - 1 /\ (k - 1) + 1 = k
        BY <1>1, <2>3, <3>1
      <4>2. PICK p \in level[j] : n \in g.children[p]
        BY <1>4, <2>3, <3>1
      <4>3. PICK q \in level[k - 1] : n \in g.children[q]
        BY <1>4, <3>1, <4>1
      <4>4. p \in Nodes /\ q \in Nodes
        BY <1>1, <1>5, <4>1, <4>2, <4>3
      <4>5. n \in g.nodes
        BY <4>2, <4>4 DEF Edges
      <4>6. g.parent[n] = p /\ g.parent[n] = q
        BY <4>2, <4>3, <4>4, <4>5 DEF Edges
      <4>7. level[j] \cap level[k - 1] = {}
        BY <2>3, <4>1
      <4>8. QED
        BY <4>2, <4>3, <4>6, <4>7
    <3>2. j + 1 \in 0..C
      BY <1>1, <2>3
    <3>3. QED
      BY <3>1, <3>2
  <2> HIDE DEF T
  <2>4. 0..C \subseteq T
    BY <1>1, <2>2, <2>3, Inductively
  <2>5. QED
    BY <2>4 DEF T
<1>8. SUFFICES ASSUME level[C] # {} PROVE FALSE
  BY DEF C
<1>9. \A k \in 0..C : level[k] # {}
  BY <1>6, <1>8
<1> DEFINE e == [k \in 1..C + 1 |-> CHOOSE n : n \in level[k - 1]]
<1>10. ASSUME NEW k \in 1..C + 1
       PROVE  e[k] \in level[k - 1] /\ k - 1 \in 0..C
  <2>1. k - 1 \in 0..C
    BY <1>1
  <2>2. QED
    BY <1>9, <2>1
<1>11. e \in [1..C + 1 -> Nodes]
  <2>1. \A k \in 1..C + 1 : e[k] \in Nodes
    BY <1>1, <1>5, <1>10
  <2>2. QED
    BY <2>1
<1> HIDE DEF e
<1>12. Cardinality(Nodes) < C + 1
  BY <1>1 DEF C
<1>13. PICK m \in Nat : m = C + 1
  BY <1>1
<1>14. PICK x, y \in 1..m : x # y /\ e[x] = e[y]
  BY <1>1, <1>11, <1>12, <1>13, Collision
<1>15. e[x] \in level[x - 1] /\ e[x] \in level[y - 1] /\ x - 1 \in 0..C /\ y - 1 \in 0..C
  BY <1>10, <1>13, <1>14
<1>16. x - 1 < y - 1 \/ y - 1 < x - 1
  BY <1>13, <1>14
<1>17. QED
  BY <1>7, <1>15, <1>16

-----------------------------------------------------------------------------
(***************************************************************************)
(* Ancestors.                                                              *)
(***************************************************************************)
Upward(g, n) == IF n = None THEN None ELSE g.parent[n]

(* f leads k steps up from n. *)
Climbs(f, k, n) ==
  /\ DOMAIN f = 0..k
  /\ f[0] = n
  /\ \A i \in 1..k : f[i] = Upward(graph, f[i - 1])

LEMMA AncestorIs ==
  ASSUME NEW n, NEW k \in Nat, NEW f, Climbs(f, k, n)
  PROVE  Ancestor(n, k) = f[k]
<1> DEFINE Rec(up) == up = [i \in 0..k |->
                             IF i = 0 THEN n
                             ELSE IF up[i - 1] = None THEN None ELSE graph.parent[up[i - 1]]]
           up == CHOOSE u : Rec(u)
           e == [i \in 0..k |-> f[i]]
<1>1. Ancestor(n, k) = up[k]
  BY DEF Ancestor
<1>2. f[0] = n /\ \A i \in 1..k : f[i] = Upward(graph, f[i - 1])
  BY DEF Climbs
<1>3. Rec(e)
  <2>1. ASSUME NEW i \in 0..k
        PROVE  f[i] = IF i = 0 THEN n
                      ELSE IF e[i - 1] = None THEN None ELSE graph.parent[e[i - 1]]
    <3>1. CASE i = 0
      BY <1>2, <3>1
    <3>2. CASE i # 0
      <4>1. i \in 1..k /\ i - 1 \in 0..k
        BY <3>2
      <4>2. e[i - 1] = f[i - 1]
        BY <4>1
      <4>3. QED
        BY <1>2, <3>2, <4>1, <4>2 DEF Upward
    <3>3. QED
      BY <3>1, <3>2
  <2>2. QED
    BY <2>1
<1>4. Rec(up)
  <2> HIDE DEF Rec, e
  <2>1. QED
    BY <1>3
<1> DEFINE T == {i \in 0..k : up[i] = f[i]}
<1> HIDE DEF up
<1>5. 0 \in T
  BY <1>2, <1>4
<1>6. ASSUME NEW i \in 0..k, i \in T, i < k
      PROVE  i + 1 \in T
  <2>1. i + 1 \in 1..k /\ i + 1 \in 0..k /\ i + 1 # 0 /\ (i + 1) - 1 = i
    BY <1>6
  <2>2. up[i + 1] = IF up[i] = None THEN None ELSE graph.parent[up[i]]
    BY <1>4, <2>1
  <2>3. f[i + 1] = Upward(graph, f[i])
    BY <1>2, <2>1
  <2>4. QED
    BY <1>6, <2>1, <2>2, <2>3 DEF Upward
<1> HIDE DEF T
<1>7. 0..k \subseteq T
  BY <1>5, <1>6, Inductively
<1>8. k \in T
  BY <1>7
<1>9. QED
  BY <1>1, <1>8 DEF T

LEMMA ClimbsPart ==
  ASSUME NEW n, NEW k \in Nat, NEW f, Climbs(f, k, n), NEW a \in 0..k, NEW b \in 0..k - a
  PROVE  Climbs([i \in 0..b |-> f[a + i]], b, f[a])
<1> DEFINE e == [i \in 0..b |-> f[a + i]]
<1>1. \A i \in 1..k : f[i] = Upward(graph, f[i - 1])
  BY DEF Climbs
<1>2. DOMAIN e = 0..b /\ e[0] = f[a]
  BY DEF Climbs
<1>3. ASSUME NEW i \in 1..b
      PROVE  e[i] = Upward(graph, e[i - 1])
  <2>1. a + i \in 1..k /\ (a + i) - 1 = a + (i - 1) /\ i \in 0..b /\ i - 1 \in 0..b
    OBVIOUS
  <2>2. e[i] = f[a + i] /\ e[i - 1] = f[a + (i - 1)]
    BY <2>1
  <2> HIDE DEF e
  <2>3. QED
    BY <1>1, <2>1, <2>2
<1> HIDE DEF e
<1>4. Climbs(e, b, f[a])
  BY <1>2, <1>3 DEF Climbs
<1>5. QED
  BY <1>4 DEF e

LEMMA AncestorsMeet ==
  ASSUME NEW n, NEW k \in Nat, NEW f, Climbs(f, k, n), NEW a \in 0..k, NEW b \in 0..k - a
  PROVE  Ancestor(f[a], b) = f[a + b]
<1>1. PICK e : e = [i \in 0..b |-> f[a + i]]
  OBVIOUS
<1>2. Climbs(e, b, f[a])
  BY <1>1, ClimbsPart
<1>3. Ancestor(f[a], b) = e[b]
  BY <1>2, AncestorIs
<1>4. e[b] = f[a + b]
  BY <1>1
<1>5. QED
  BY <1>3, <1>4

LEMMA ClimbExists ==
  ASSUME NEW n \in Nodes, NEW k \in Nat, graph \in Graph
  PROVE  \E f \in [0..k -> Nodes \cup {None}] : Climbs(f, k, n)
<1> DEFINE V == Nodes \cup {None}
           F == [p \in (1..k) \X V |-> Upward(graph, p[2])]
<1>1. \A x \in V : Upward(graph, x) \in V
  BY GraphFields DEF Upward
<1> HIDE DEF V
<1>2. F \in [(1..k) \X V -> V] /\ n \in V
  BY <1>1 DEF V
<1>3. \A i \in 1..k, x \in V : F[<<i, x>>] = Upward(graph, x)
  OBVIOUS
<1> HIDE DEF F
<1>4. PICK f : Follows(f, k, V, n, F)
  BY <1>2, Iteration
<1>5. f \in [0..k -> V] /\ f[0] = n /\ \A i \in 1..k : f[i] = F[<<i, f[i - 1]>>]
  BY <1>4 DEF Follows
<1>6. ASSUME NEW i \in 1..k
      PROVE  f[i] = Upward(graph, f[i - 1])
  <2>1. f[i - 1] \in V
    BY <1>5
  <2>2. QED
    BY <1>3, <1>5, <2>1
<1>7. Climbs(f, k, n)
  BY <1>5, <1>6 DEF Climbs
<1>8. QED
  BY <1>5, <1>7 DEF V

(* A way up that ends at the root node is a chain, read backwards. *)
LEMMA ClimbIsChain ==
  ASSUME graph \in Graph, Edges(graph), NEW n \in graph.nodes, NEW k \in Nat, NEW f,
         Climbs(f, k, n), f[k] = Root, \A i \in 0..k : i < k => f[i] \in graph.nodes
  PROVE  Chain([i \in 0..k |-> f[k - i]], k, graph, Root, Root)
<1> DEFINE e == [i \in 0..k |-> f[k - i]]
<1>1. graph.nodes \subseteq Nodes \ {Root} /\ Root \in Nodes
  <2>1. Root \notin Addresses
    BY TopologyAssumption DEF Root
  <2>2. QED
    BY <2>1, GraphFields DEF Nodes
<1>2. \A i \in 0..k : k - i \in 0..k /\ e[i] = f[k - i]
  OBVIOUS
<1>3. e \in [0..k -> Nodes] /\ e[0] = Root
  <2>1. \A i \in 0..k : f[i] \in Nodes
    BY <1>1
  <2>2. QED
    BY <1>2, <2>1
<1>4. ASSUME NEW i \in 1..k
      PROVE  e[i] \in graph.children[e[i - 1]] \ {Root}
  <2>1. /\ i \in 0..k /\ i - 1 \in 0..k /\ k - i \in 0..k /\ k - i < k
        /\ k - (i - 1) \in 1..k /\ k - (i - 1) = (k - i) + 1 /\ (k - (i - 1)) - 1 = k - i
    OBVIOUS
  <2>2. e[i] = f[k - i] /\ e[i - 1] = f[k - (i - 1)] /\ e[i - 1] \in Nodes
    BY <1>2, <1>3, <2>1
  <2>3. PICK x, y : x = f[k - i] /\ y = f[k - (i - 1)]
    OBVIOUS
  <2>4. x \in graph.nodes
    BY <2>1, <2>3
  <2>5. y = Upward(graph, x)
    BY <2>1, <2>3 DEF Climbs
  <2>6. y = graph.parent[x] /\ y \in Nodes
    <3>1. x # None
      BY <2>4, TopologyAssumption, GraphFields DEF None
    <3>2. QED
      BY <2>2, <2>3, <2>5, <3>1 DEF Upward
  <2>7. x \in graph.children[y] /\ x # Root
    BY <1>1, <2>4, <2>6 DEF Edges
  <2> HIDE DEF e
  <2>8. QED
    BY <2>2, <2>3, <2>7
<1> HIDE DEF e
<1>5. Chain(e, k, graph, Root, Root)
  BY <1>3, <1>4 DEF Chain
<1>6. QED
  BY <1>5 DEF e

(* A node that is on no cycle, and below none, comes to the root node on    *)
(* the way up.                                                             *)
LEMMA RootIsAbove ==
  ASSUME graph \in Graph, Edges(graph), NEW n \in graph.nodes, ~OnCycle(n),
         \A k \in 1..Cardinality(Nodes) : Ancestor(n, k) # None => ~OnCycle(Ancestor(n, k)),
         NEW f \in [0..Cardinality(Nodes) -> Nodes \cup {None}], Climbs(f, Cardinality(Nodes), n)
  PROVE  \E k \in 1..Cardinality(Nodes) :
           f[k] = Root /\ \A i \in 0..k : i < k => f[i] \in graph.nodes
<1> DEFINE C == Cardinality(Nodes)
<1>1. C \in Nat
  BY NodesFinite
<1>2. /\ graph.nodes \subseteq Nodes /\ None \notin graph.nodes /\ Root \notin graph.nodes
  <2>1. Root \notin Addresses /\ None \notin Addresses
    BY TopologyAssumption DEF Root, None
  <2>2. QED
    BY <2>1, GraphFields DEF Nodes
<1>3. f[0] = n /\ \A i \in 1..C : f[i] = Upward(graph, f[i - 1])
  BY DEF Climbs
<1>4. \A a \in 0..C : \A b \in 0..C - a : Ancestor(f[a], b) = f[a + b]
  BY <1>1, AncestorsMeet
<1>5. ASSUME NEW i \in 1..C, f[i - 1] \in graph.nodes
      PROVE  f[i] \in graph.nodes \cup {Root}
  BY <1>2, <1>3, <1>5 DEF Upward, Edges
<1> HIDE DEF C
<1>6. ~(\A i \in 0..C : f[i] \in graph.nodes)
  <2>1. SUFFICES ASSUME \A i \in 0..C : f[i] \in graph.nodes PROVE FALSE
    OBVIOUS
  <2> DEFINE s == [i \in 1..C + 1 |-> f[i - 1]]
  <2>2. \A i \in 1..C + 1 : i - 1 \in 0..C
    BY <1>1
  <2>3. s \in [1..C + 1 -> Nodes]
    BY <1>2, <2>1, <2>2
  <2>4. \A i \in 1..C + 1 : s[i] = f[i - 1]
    OBVIOUS
  <2> HIDE DEF s
  <2>5. C + 1 \in Nat /\ Cardinality(Nodes) < C + 1
    BY <1>1 DEF C
  <2>6. PICK i, j \in 1..C + 1 : i # j /\ s[i] = s[j]
    BY <2>3, <2>5, NodesFinite, Collision
  <2>7. PICK a \in 0..C, b \in 0..C : a < b /\ f[a] = f[b]
    <3>1. f[i - 1] = f[j - 1] /\ i - 1 \in 0..C /\ j - 1 \in 0..C
      BY <2>2, <2>4, <2>6
    <3>2. i - 1 < j - 1 \/ j - 1 < i - 1
      BY <1>1, <2>6
    <3>3. QED
      BY <3>1, <3>2
  <2>8. b - a \in 1..C /\ b - a \in 0..C - a /\ a + (b - a) = b
    BY <1>1, <2>7
  <2>9. Ancestor(f[a], b - a) = f[a]
    BY <1>4, <2>7, <2>8
  <2>10. OnCycle(f[a])
    BY <2>8, <2>9 DEF OnCycle, C
  <2>11. CASE a = 0
    BY <1>3, <2>10, <2>11
  <2>12. CASE a # 0
    <3>1. a \in 1..C /\ 0 \in 0..C /\ a \in 0..C - 0
      BY <1>1, <2>12
    <3>2. Ancestor(f[0], a) = f[0 + a]
      BY <1>4, <3>1
    <3>3. Ancestor(n, a) = f[a]
      BY <1>3, <3>1, <3>2
    <3>4. f[a] # None
      BY <1>2, <2>1
    <3>5. QED
      BY <2>10, <3>1, <3>3, <3>4 DEF C
  <2>13. QED
    BY <2>11, <2>12
<1> DEFINE D == {i \in Nat : i \in 0..C /\ f[i] \notin graph.nodes}
<1>7. D # {} /\ D \subseteq Nat
  BY <1>1, <1>6
<1>8. PICK k \in D : \A y \in D : ~(<<y, k>> \in OpToRel(<, Nat))
  BY <1>7, NatLessThanWellFounded, WFMin
<1>9. k \in 0..C /\ f[k] \notin graph.nodes /\ \A i \in 0..C : i < k => f[i] \in graph.nodes
  <2>1. \A y \in D : ~(y < k)
    BY <1>7, <1>8 DEF OpToRel
  <2>2. k \in 0..C /\ f[k] \notin graph.nodes
    BY <1>8
  <2>3. ASSUME NEW i \in 0..C, i < k, f[i] \notin graph.nodes
        PROVE  FALSE
    <3>1. i \in D
      BY <1>1, <2>3
    <3>2. QED
      BY <2>1, <2>3, <3>1
  <2> HIDE DEF D
  <2>4. QED
    BY <2>2, <2>3
<1> HIDE DEF D
<1>10. k # 0
  BY <1>3, <1>9
<1>11. k \in 1..C /\ k - 1 \in 0..C /\ k - 1 < k
  BY <1>1, <1>9, <1>10
<1>12. f[k] = Root
  BY <1>5, <1>9, <1>11
<1>13. \A i \in 0..k : i < k => f[i] \in graph.nodes
  BY <1>1, <1>9
<1>14. QED
  BY <1>11, <1>12, <1>13 DEF C

LEMMA DepthsFollow ==
  ASSUME graph \in Graph, Orderly(graph), NEW n \in graph.nodes, ~OnCycle(n),
         \A k \in 1..Cardinality(Nodes) : Ancestor(n, k) # None => ~OnCycle(Ancestor(n, k))
  PROVE  graph.depth[n] = graph.depth[graph.parent[n]] + 1
<1> DEFINE C == Cardinality(Nodes)
<1>1. C \in Nat /\ Edges(graph) /\ Deep(graph) /\ n \in Nodes /\ n # None
  <2>1. n \in Addresses
    BY GraphFields
  <2>2. n # None
    BY <2>1, TopologyAssumption DEF None
  <2>3. QED
    BY <2>1, <2>2, NodesFinite DEF Orderly, Nodes
<1>2. PICK f \in [0..C -> Nodes \cup {None}] : Climbs(f, C, n)
  BY <1>1, ClimbExists
<1>3. PICK k \in 1..C : f[k] = Root /\ \A i \in 0..k : i < k => f[i] \in graph.nodes
  BY <1>1, <1>2, RootIsAbove
<1> HIDE DEF C
<1>4. PICK d : d = [i \in 0..k |-> f[0 + i]]
  OBVIOUS
<1>5. Climbs(d, k, n)
  <2>1. 0 \in 0..C /\ k \in 0..C - 0 /\ f[0] = n
    BY <1>1, <1>2 DEF Climbs
  <2>2. Climbs(d, k, f[0])
    BY <1>1, <1>2, <1>4, <2>1, ClimbsPart
  <2>3. QED
    BY <2>1, <2>2
<1>6. k \in Nat /\ k - 1 \in 0..k /\ k - 1 \in Nat /\ 1 \in 0..k /\ 0 \in 0..k /\ k - (k - 1) = 1 /\ k \in 0..k /\ k - k = 0
  BY <1>1
<1>7. \A i \in 0..k : d[i] = f[i]
  BY <1>4
<1>8. PICK e : e = [i \in 0..k |-> d[k - i]]
  OBVIOUS
<1>9. Chain(e, k, graph, Root, Root)
  BY <1>1, <1>3, <1>5, <1>6, <1>7, <1>8, ClimbIsChain
<1>10. e[k] = n /\ e[k - 1] = graph.parent[n]
  <2>1. d[0] = n
    BY <1>5 DEF Climbs
  <2>2. d[1] = Upward(graph, d[0])
    <3>1. 1 \in 1..k /\ 1 - 1 = 0
      BY <1>6
    <3>2. QED
      BY <1>5, <3>1 DEF Climbs
  <2>3. e[k] = d[0] /\ e[k - 1] = d[1]
    BY <1>6, <1>8
  <2>4. QED
    BY <1>1, <2>1, <2>2, <2>3 DEF Upward
<1>11. graph.depth[e[k]] = k
  BY <1>1, <1>6, <1>9 DEF Deep, DeepBut
<1>12. graph.depth[e[k - 1]] = k - 1
  <2>1. PICK c : c = [i \in 0..k - 1 |-> e[i]]
    OBVIOUS
  <2>2. Chain(c, k - 1, graph, Root, Root)
    BY <1>6, <1>9, <2>1, ChainPrefix
  <2>3. graph.depth[c[k - 1]] = k - 1
    BY <1>1, <1>6, <2>2 DEF Deep, DeepBut
  <2>4. k - 1 \in 0..k - 1
    BY <1>6
  <2>5. c[k - 1] = e[k - 1]
    BY <2>1, <2>4
  <2>6. QED
    BY <2>3, <2>5
<1>13. QED
  BY <1>6, <1>10, <1>11, <1>12

-----------------------------------------------------------------------------
(***************************************************************************)
(* The invariant.                                                          *)
(***************************************************************************)

Adds(u, a) == u.type = "added" /\ u.addr = a
Removes(u, a) == u.type = "removed" /\ u.addr = a

(* A published module has its node, or its addition is still to be          *)
(* processed, and no removal of it is.  Removals are reported after the     *)
(* sweep and processed before the next.                                     *)
Announced ==
  /\ \A a \in published : \/ a \in graph.nodes
                          \/ \E i \in 1..Len(updates) : Adds(updates[i], a)
  /\ \A a \in published : \A i \in 1..Len(updates) : ~Removes(updates[i], a)
  /\ phase = "sweep" => \A i \in 1..Len(updates) : updates[i].type # "removed"

Safe == TypeOK /\ Orderly(graph) /\ Announced

LEMMA InitSafe == Init => Safe
<1> SUFFICES ASSUME Init PROVE Safe
  OBVIOUS
<1> USE DEF Init
<1>1. graph \in Graph
  <2>1. graph.nodes \in SUBSET Addresses /\ graph.parent \in [Nodes -> Nodes \cup {None}]
    OBVIOUS
  <2>2. graph.children \in [Nodes -> SUBSET Addresses]
    OBVIOUS
  <2>3. graph.depth \in [Nodes -> 0..255]
    <3>1. 0 \in 0..255
      OBVIOUS
    <3>2. \A D : 0 \in D => graph.depth \in [Nodes -> D]
      OBVIOUS
    <3>3. QED
      BY <3>1, <3>2
  <2>4. graph.lists \in Seq(SUBSET Nodes)
    BY DEF Nodes
  <2>5. QED
    BY <2>1, <2>2, <2>3, <2>4 DEF Graph
<1>2. TypeOK
  <2>1. downstream \in [Addresses -> [1..Ports -> Nodes]]
    BY DEF NoPorts, Nodes
  <2>2. changes \in 0..MaxChanges
    BY TopologyAssumption
  <2>3. updates \in Seq(Update)
    OBVIOUS
  <2>4. QED
    BY <1>1, <2>1, <2>2, <2>3 DEF TypeOK
<1>3. Edges(graph)
  BY DEF Edges
<1>4. Listed(graph, graph.nodes \cup {Root})
  <2>1. graph.lists = <<{Root}>> /\ Len(graph.lists) = 1 /\ graph.lists[1] = {Root}
    OBVIOUS
  <2>2. graph.nodes \cup {Root} = {Root} /\ graph.depth[Root] = 0
    BY DEF Nodes
  <2>3. \A d \in 1..1 : d = 1 /\ d - 1 = 0
    OBVIOUS
  <2>4. QED
    BY <2>1, <2>2, <2>3 DEF Listed
<1>5. Announced
  BY DEF Announced
<1>6. Deep(graph)
  <2>1. SUFFICES ASSUME NEW k \in Nat, NEW f, Chain(f, k, graph, Root, Root)
                 PROVE  graph.depth[f[k]] = k
    BY DEF Deep, DeepBut
  <2>2. /\ f \in [0..k -> Nodes] /\ f[0] = Root
        /\ \A i \in 1..k : f[i] \in graph.children[f[i - 1]] \ {Root}
    BY <2>1 DEF Chain
  <2>3. k = 0
    <3>1. SUFFICES ASSUME k # 0 PROVE FALSE
      OBVIOUS
    <3>2. k \in 1..k /\ k - 1 \in 0..k
      BY <3>1
    <3>3. f[k - 1] \in Nodes
      BY <2>2, <3>2
    <3>4. graph.children[f[k - 1]] = {}
      BY <3>3
    <3>5. QED
      BY <2>2, <3>2, <3>4
  <2>4. graph.depth[Root] = 0
    BY DEF Nodes
  <2>5. QED
    BY <2>2, <2>3, <2>4
<1>7. QED
  BY <1>1, <1>2, <1>3, <1>4, <1>5, <1>6 DEF Safe, Orderly

(* A report goes to the end of the updates. *)
LEMMA Reported ==
  ASSUME NEW q \in Seq(Update), NEW t \in {"added", "removed", "downstream"}, NEW a \in Addresses,
         NEW u, u = [type |-> t, addr |-> a], NEW r, r = Append(q, u)
  PROVE  /\ r \in Seq(Update)
         /\ Len(r) = Len(q) + 1 /\ Len(q) \in Nat
         /\ r[Len(q) + 1] = u
         /\ \A i \in 1..Len(q) : i \in 1..Len(r) /\ r[i] = q[i]
         /\ \A i \in 1..Len(r) : i \in 1..Len(q) \/ i = Len(q) + 1
<1>1. u \in Update
  BY DEF Update
<1>2. QED
  BY <1>1

LEMMA PublishSafe ==
  ASSUME Safe, NEW a \in Addresses, Publish(a) \/ PublishLeft(a)
  PROVE  Safe'
<1>1. /\ updates \in Seq(Update) /\ phase = "sweep"
      /\ published' = published \cup {a}
      /\ current' \subseteq Addresses /\ left' \subseteq Addresses
      /\ updates' = Append(updates, [type |-> "added", addr |-> a])
      /\ UNCHANGED <<graph, known, downstream, phase, changes>>
  BY DEF Safe, TypeOK, Publish, PublishLeft, Published, Report
<1>2. /\ updates' \in Seq(Update)
      /\ Len(updates') = Len(updates) + 1 /\ Len(updates) \in Nat
      /\ updates'[Len(updates) + 1] = [type |-> "added", addr |-> a]
      /\ \A i \in 1..Len(updates) : i \in 1..Len(updates') /\ updates'[i] = updates[i]
      /\ \A i \in 1..Len(updates') : i \in 1..Len(updates) \/ i = Len(updates) + 1
  <2>1. "added" \in {"added", "removed", "downstream"}
    OBVIOUS
  <2>2. QED
    BY <1>1, <2>1, Reported
<1>3. TypeOK'
  BY <1>1, <1>2 DEF Safe, TypeOK
<1>4. Orderly(graph)'
  BY <1>1 DEF Safe
<1>5. Announced'
  <2>1. \A i \in 1..Len(updates') : updates'[i].type # "removed"
    <3>1. \A i \in 1..Len(updates) : updates[i].type # "removed"
      BY <1>1 DEF Safe, Announced
    <3>2. QED
      BY <1>2, <3>1
  <2>2. ASSUME NEW b \in published'
        PROVE  b \in graph.nodes \/ \E i \in 1..Len(updates') : Adds(updates'[i], b)
    <3>1. CASE b = a
      <4>1. Len(updates) + 1 \in 1..Len(updates')
        BY <1>2
      <4>2. Adds(updates'[Len(updates) + 1], b)
        BY <1>2, <3>1 DEF Adds
      <4>3. QED
        BY <4>1, <4>2
    <3>2. CASE b # a
      <4>1. b \in graph.nodes \/ \E i \in 1..Len(updates) : Adds(updates[i], b)
        BY <1>1, <3>2 DEF Safe, Announced
      <4>2. QED
        BY <1>2, <4>1
    <3>3. QED
      BY <3>1, <3>2
  <2>3. QED
    BY <1>1, <2>1, <2>2 DEF Announced, Removes
<1>6. QED
  BY <1>3, <1>4, <1>5 DEF Safe

LEMMA HearSafe ==
  ASSUME Safe, NEW a \in Addresses, Hear(a)
  PROVE  Safe'
<1>1. /\ known' = known \cup {a}
      /\ UNCHANGED <<graph, updates, published, current, left, downstream, phase, changes>>
  BY DEF Hear
<1>2. TypeOK'
  BY <1>1 DEF Safe, TypeOK
<1>3. QED
  BY <1>1, <1>2 DEF Safe, Announced

LEMMA ChangePortSafe ==
  ASSUME Safe, NEW a \in Addresses, NEW i \in 1..Ports, NEW c \in Nodes, ChangePort(a, i, c)
  PROVE  Safe'
<1>1. /\ updates \in Seq(Update) /\ phase = "receive"
      /\ downstream \in [Addresses -> [1..Ports -> Nodes]]
      /\ downstream' = [downstream EXCEPT ![a][i] = c]
      /\ updates' = Append(updates, [type |-> "downstream", addr |-> a])
      /\ changes' = changes + 1 /\ changes < MaxChanges
      /\ UNCHANGED <<graph, known, published, current, left, phase>>
  BY DEF Safe, TypeOK, ChangePort, Report, listVars
<1>2. /\ updates' \in Seq(Update)
      /\ Len(updates') = Len(updates) + 1 /\ Len(updates) \in Nat
      /\ updates'[Len(updates) + 1] = [type |-> "downstream", addr |-> a]
      /\ \A j \in 1..Len(updates) : j \in 1..Len(updates') /\ updates'[j] = updates[j]
      /\ \A j \in 1..Len(updates') : j \in 1..Len(updates) \/ j = Len(updates) + 1
  <2>1. "downstream" \in {"added", "removed", "downstream"}
    OBVIOUS
  <2>2. QED
    BY <1>1, <2>1, Reported
<1>3. TypeOK'
  <2>1. downstream' \in [Addresses -> [1..Ports -> Nodes]]
    BY <1>1
  <2>2. changes' \in 0..MaxChanges
    BY <1>1, TopologyAssumption DEF Safe, TypeOK
  <2>3. QED
    BY <1>1, <1>2, <2>1, <2>2 DEF Safe, TypeOK
<1>4. Orderly(graph)'
  BY <1>1 DEF Safe
<1>5. Announced'
  <2>1. \A b \in published : b \in graph.nodes \/ \E j \in 1..Len(updates') : Adds(updates'[j], b)
    BY <1>2 DEF Safe, Announced
  <2>2. ASSUME NEW b \in published, NEW j \in 1..Len(updates')
        PROVE  ~Removes(updates'[j], b)
    <3>1. CASE j \in 1..Len(updates)
      BY <1>2, <3>1 DEF Safe, Announced
    <3>2. CASE j = Len(updates) + 1
      BY <1>2, <3>2 DEF Removes
    <3>3. QED
      BY <1>2, <3>1, <3>2
  <2>3. QED
    BY <1>1, <2>1, <2>2 DEF Announced
<1>6. QED
  BY <1>3, <1>4, <1>5 DEF Safe

\* What clear_old reports goes to the end of the updates.
RemovedTo(q, S, r) ==
  /\ r \in Seq(Update)
  /\ \A i \in 1..Len(q) : i \in 1..Len(r) /\ r[i] = q[i]
  /\ \A i \in 1..Len(r) : i \in 1..Len(q) \/ (r[i].type = "removed" /\ r[i].addr \in S)

LEMMA Removed ==
  ASSUME NEW q \in Seq(Update), NEW S \in SUBSET Addresses
  PROVE  RemovedTo(q, S, q \o Removals(S))
<1> PICK r : r = q \o Removals(S)
  OBVIOUS
<1>1. PICK s : s = Ascending(S)
  OBVIOUS
<1>2. s \in Seq(S) /\ Len(s) \in Nat /\ \A i \in 1..Len(s) : s[i] \in S
  <2>1. S \in SUBSET (0..255)
    BY TopologyAssumption DEF TopologyAssumption
  <2>2. s \in Seq(S)
    BY <1>1, <2>1, AscendingFacts
  <2>3. QED
    BY <2>2
<1>3. PICK t : t = [i \in 1..Len(s) |-> [type |-> "removed", addr |-> s[i]]]
  OBVIOUS
<1>4. \A i \in 1..Len(s) : [type |-> "removed", addr |-> s[i]] \in Update
  BY <1>2 DEF Update
<1>5. t \in Seq(Update) /\ Len(t) = Len(s)
      /\ \A i \in 1..Len(t) : t[i].type = "removed" /\ t[i].addr \in S
  BY <1>2, <1>3, <1>4
<1>6. r = q \o t
  BY <1>1, <1>3 DEF Removals
<1>7. /\ r \in Seq(Update) /\ Len(r) = Len(q) + Len(t) /\ Len(q) \in Nat /\ Len(t) \in Nat
      /\ \A i \in 1..Len(q) : r[i] = q[i]
      /\ \A i \in 1..Len(t) : r[Len(q) + i] = t[i]
  <2> HIDE DEF Update
  <2>1. q \in Seq(Update) /\ t \in Seq(Update)
    BY <1>5
  <2>2. r \in Seq(Update) /\ Len(r) = Len(q) + Len(t) /\ Len(q) \in Nat /\ Len(t) \in Nat
    BY <1>6, <2>1
  <2>3. \A i \in 1..Len(q) : r[i] = q[i]
    BY <1>6, <2>1
  <2>4. ASSUME NEW i \in 1..Len(t)
        PROVE  r[Len(q) + i] = t[i]
    BY <1>6, <2>1, <2>2
  <2>5. QED
    BY <2>2, <2>3, <2>4
<1>8. ASSUME NEW i \in 1..Len(r), i \notin 1..Len(q)
      PROVE  r[i].type = "removed" /\ r[i].addr \in S
  <2>1. i - Len(q) \in 1..Len(t) /\ Len(q) + (i - Len(q)) = i
    BY <1>7, <1>8
  <2>2. PICK k : k = i - Len(q)
    OBVIOUS
  <2>3. k \in 1..Len(t) /\ r[i] = t[k]
    BY <1>7, <2>1, <2>2
  <2>4. QED
    BY <1>5, <2>3
<1>9. \A i \in 1..Len(q) : i \in 1..Len(r)
  BY <1>7
<1>10. QED
  BY <1>7, <1>8, <1>9 DEF RemovedTo

LEMMA ClearPublishedSafe ==
  ASSUME Safe, NEW S \in SUBSET published, ClearPublished(S)
  PROVE  Safe'
<1>1. /\ updates \in Seq(Update) /\ S \in SUBSET Addresses
      /\ published' = published \ S /\ updates' = updates \o Removals(S)
      /\ phase' = "clearList"
      /\ UNCHANGED <<graph, known, current, left, downstream, changes>>
  BY DEF Safe, TypeOK, ClearPublished
<1>2. /\ updates' \in Seq(Update)
      /\ \A i \in 1..Len(updates) : i \in 1..Len(updates') /\ updates'[i] = updates[i]
      /\ \A i \in 1..Len(updates') : \/ i \in 1..Len(updates)
                                     \/ updates'[i].type = "removed" /\ updates'[i].addr \in S
  <2>1. RemovedTo(updates, S, updates \o Removals(S))
    BY <1>1, Removed
  <2>2. RemovedTo(updates, S, updates')
    BY <1>1, <2>1
  <2>3. QED
    BY <2>2 DEF RemovedTo
<1>3. TypeOK'
  BY <1>1, <1>2 DEF Safe, TypeOK
<1>4. Orderly(graph)'
  BY <1>1 DEF Safe
<1>5. Announced'
  <2>1. \A b \in published' : b \in published /\ b \notin S
    BY <1>1
  <2>2. \A b \in published' : b \in graph.nodes \/ \E i \in 1..Len(updates') : Adds(updates'[i], b)
    BY <1>2, <2>1 DEF Safe, Announced
  <2>3. ASSUME NEW b \in published', NEW i \in 1..Len(updates')
        PROVE  ~Removes(updates'[i], b)
    <3>1. CASE i \in 1..Len(updates)
      BY <1>2, <2>1, <3>1 DEF Safe, Announced
    <3>2. CASE updates'[i].addr \in S
      BY <2>1, <3>2 DEF Removes
    <3>3. QED
      BY <1>2, <3>1, <3>2
  <2>4. QED
    BY <1>1, <2>2, <2>3 DEF Announced
<1>6. QED
  BY <1>3, <1>4, <1>5 DEF Safe

LEMMA ClearKnownSafe ==
  ASSUME Safe, NEW S \in SUBSET known, ClearKnown(S)
  PROVE  Safe'
<1>1. /\ phase' = "process" /\ known' = known \ S /\ current' = current \ S
      /\ left' = left \cup (S \ current)
      /\ UNCHANGED <<graph, updates, published, downstream, changes>>
  BY DEF ClearKnown
<1>2. TypeOK'
  BY <1>1 DEF Safe, TypeOK
<1>3. QED
  BY <1>1, <1>2 DEF Safe, Announced

LEMMA NextPhaseSafe ==
  ASSUME Safe, NextPhase
  PROVE  Safe'
<1>1. /\ phase' \in {"receive", "clearPub"}
      /\ UNCHANGED <<graph, updates, known, published, current, left, downstream, changes>>
  BY DEF NextPhase, listVars
<1>2. TypeOK' /\ phase' # "sweep"
  BY <1>1 DEF Safe, TypeOK
<1>3. QED
  BY <1>1, <1>2 DEF Safe, Announced

LEMMA ProcessUpdateSafe ==
  ASSUME Safe, ProcessUpdate
  PROVE  Safe'
<1>1. /\ updates \in Seq(Update) /\ updates # <<>> /\ phase = "process"
      /\ downstream \in [Addresses -> [1..Ports -> Nodes]]
      /\ graph' = Processed(graph, Head(updates))
      /\ updates' = Tail(updates)
      /\ UNCHANGED <<known, published, current, left, downstream, phase, changes>>
      /\ Orderly(graph)
  BY DEF Safe, TypeOK, ProcessUpdate, listVars
<1>2. PICK u : u = Head(updates)
  OBVIOUS
<1>3. /\ u \in Update /\ u = updates[1] /\ 1 \in 1..Len(updates)
      /\ updates' \in Seq(Update) /\ Len(updates') = Len(updates) - 1 /\ Len(updates) \in Nat
      /\ \A i \in 1..Len(updates') : updates'[i] = updates[i + 1] /\ i + 1 \in 1..Len(updates)
  BY <1>1, <1>2
<1>4. downstream[u.addr] \in [1..Ports -> Nodes]
  <2>1. u.addr \in Addresses
    BY <1>3 DEF Update
  <2>2. QED
    BY <1>1, <2>1
<1>5. PICK r : r = Processed(graph, u)
  OBVIOUS
<1>6. /\ Orderly(r)
      /\ u.type = "added" => u.addr \in r.nodes
      /\ u.type # "removed" => graph.nodes \subseteq r.nodes
      /\ graph.nodes \ {u.addr} \subseteq r.nodes
  BY <1>1, <1>3, <1>4, <1>5, ProcessedOrderly
<1>7. graph' = r
  BY <1>1, <1>2, <1>5
<1>8. Orderly(graph)'
  BY <1>6, <1>7
<1>9. TypeOK'
  <2>1. graph' \in Graph
    BY <1>6, <1>7 DEF Orderly
  <2>2. QED
    BY <1>1, <1>3, <2>1 DEF Safe, TypeOK
<1>10. Announced'
  <2>1. ASSUME NEW b \in published
        PROVE  b \in r.nodes \/ \E i \in 1..Len(updates') : Adds(updates'[i], b)
    <3>1. ~Removes(u, b)
      BY <1>3 DEF Safe, Announced
    <3>2. CASE b \in graph.nodes
      <4>1. u.type # "removed" \/ u.addr # b
        BY <3>1 DEF Removes
      <4>2. QED
        BY <1>6, <3>2, <4>1
    <3>3. CASE b \notin graph.nodes
      <4>1. PICK i \in 1..Len(updates) : Adds(updates[i], b)
        BY <3>3 DEF Safe, Announced
      <4>2. CASE i = 1
        BY <1>3, <1>6, <4>1, <4>2 DEF Adds
      <4>3. CASE i # 1
        <5>1. i - 1 \in 1..Len(updates') /\ (i - 1) + 1 = i
          BY <1>3, <4>1, <4>3
        <5>2. updates'[i - 1] = updates[i]
          BY <1>3, <5>1
        <5>3. QED
          BY <4>1, <5>1, <5>2
      <4>4. QED
        BY <4>2, <4>3
    <3>4. QED
      BY <3>2, <3>3
  <2>2. ASSUME NEW b \in published, NEW i \in 1..Len(updates')
        PROVE  ~Removes(updates'[i], b)
    BY <1>3 DEF Safe, Announced
  <2>3. QED
    BY <1>1, <1>7, <2>1, <2>2 DEF Announced
<1>11. QED
  BY <1>8, <1>9, <1>10 DEF Safe

LEMMA ProcessingDoneSafe ==
  ASSUME Safe, ProcessingDone
  PROVE  Safe'
<1>1. /\ updates = <<>> /\ phase' = "sweep"
      /\ downstream \in [Addresses -> [1..Ports -> Nodes]]
      /\ downstream' = [a \in Addresses |-> IF a \in known THEN downstream[a] ELSE NoPorts]
      /\ UNCHANGED <<graph, updates, known, published, current, left, changes>>
  BY DEF Safe, TypeOK, ProcessingDone, listVars
<1>2. downstream' \in [Addresses -> [1..Ports -> Nodes]]
  <2>1. NoPorts \in [1..Ports -> Nodes]
    BY DEF NoPorts, Nodes
  <2>2. QED
    BY <1>1, <2>1
<1>3. TypeOK'
  BY <1>1, <1>2 DEF Safe, TypeOK
<1>4. Announced'
  BY <1>1 DEF Safe, Announced
<1>5. QED
  BY <1>1, <1>3, <1>4 DEF Safe

LEMMA SafeStep == Safe /\ [Next]_vars => Safe'
<1> SUFFICES ASSUME Safe, [Next]_vars PROVE Safe'
  OBVIOUS
<1>1. ASSUME NEW a \in Addresses, Publish(a) \/ PublishLeft(a) PROVE Safe'
  BY <1>1, PublishSafe
<1>2. ASSUME NEW a \in Addresses, Hear(a) PROVE Safe'
  BY <1>2, HearSafe
<1>3. ASSUME NEW S \in SUBSET published, ClearPublished(S) PROVE Safe'
  BY <1>3, ClearPublishedSafe
<1>4. ASSUME NEW a \in Addresses, NEW i \in 1..Ports, NEW c \in Nodes, ChangePort(a, i, c)
      PROVE  Safe'
  BY <1>4, ChangePortSafe
<1>5. CASE NextPhase
  BY <1>5, NextPhaseSafe
<1>6. CASE ProcessUpdate
  BY <1>6, ProcessUpdateSafe
<1>7. CASE ProcessingDone
  BY <1>7, ProcessingDoneSafe
<1>8. CASE UNCHANGED vars
  BY <1>8 DEF vars, Safe, TypeOK, Announced
<1>9. ASSUME NEW S \in SUBSET known, ClearKnown(S) PROVE Safe'
  BY <1>9, ClearKnownSafe
<1>10. QED
  BY <1>1, <1>2, <1>3, <1>4, <1>5, <1>6, <1>7, <1>8, <1>9 DEF Next

LEMMA AlwaysSafe == Spec => []Safe
BY InitSafe, SafeStep, PTL DEF Spec

-----------------------------------------------------------------------------
(***************************************************************************)
(* The theorems.                                                           *)
(***************************************************************************)

(* The fields of the graph keep their types: depths stay bytes, parents and *)
(* children are addresses, the lists hold nodes, for any set of addresses.  *)
THEOREM GraphTypes == Spec => []TypeOK
<1>1. Safe => TypeOK
  BY DEF Safe
<1>2. QED
  BY <1>1, AlwaysSafe, PTL

(* After every update, whatever modules appear, move, form cycles and       *)
(* disappear: a node is among the children of its parent and of nobody      *)
(* else, it is in the list of its depth and in no other, no pointer and no  *)
(* list has a deleted node, and update_depth returns.                       *)
THEOREM GraphInOrder == Spec => []GraphAgrees
<1>1. ASSUME Safe PROVE GraphAgrees
  <2>1. graph \in Graph /\ Edges(graph) /\ Listed(graph, graph.nodes \cup {Root})
    BY <1>1 DEF Safe, Orderly
  <2>2. EdgesAgree
    BY <2>1 DEF Edges, EdgesAgree
  <2>3. ListsAgree
    BY <2>1 DEF Listed, ListsAgree
  <2>4. UpdateDepthReturns
    <3>1. ASSUME NEW first \in graph.nodes
          PROVE  (CHOOSE it : Levels(it, graph, first))[Cardinality(Nodes)] = {}
      <4>1. first \in Nodes
        BY <2>1, GraphFields DEF Nodes
      <4>2. \E it : Levels(it, graph, first)
        BY <2>1, <4>1, LevelsExist
      <4>3. PICK level : level = CHOOSE it : Levels(it, graph, first)
        OBVIOUS
      <4>4. Levels(level, graph, first)
        BY <4>2, <4>3
      <4>5. QED
        BY <2>1, <4>3, <4>4, LevelsEnd
    <3>2. QED
      BY <3>1 DEF UpdateDepthReturns, Levels
  <2>5. QED
    BY <2>2, <2>3, <2>4 DEF GraphAgrees
<1>2. QED
  BY <1>1, AlwaysSafe, PTL

(* The depths that were calculated when an edge changed are still right     *)
(* after any later change elsewhere: a node that is on no cycle and below   *)
(* none is one deeper than its parent, however often modules were moved,    *)
(* removed with others below them, or reported at two places.               *)
THEOREM DepthsAreRight == Spec => []DepthFollowsParent
<1>1. Safe => DepthFollowsParent
  <2> SUFFICES ASSUME Safe, NEW n \in graph.nodes, ~OnCycle(n),
                      \A k \in 1..Cardinality(Nodes) :
                        Ancestor(n, k) # None => ~OnCycle(Ancestor(n, k))
               PROVE  graph.depth[n] = graph.depth[graph.parent[n]] + 1
    BY DEF DepthFollowsParent
  <2>1. graph \in Graph /\ Orderly(graph)
    BY DEF Safe, Orderly
  <2>2. QED
    BY <2>1, DepthsFollow
<1>2. QED
  BY <1>1, AlwaysSafe, PTL

(* Between two calls of the service every published module has its node: a  *)
(* removal that was reported for an earlier module at the address is        *)
(* processed before the address is published again.                         *)
THEOREM PublishedNodes == Spec => []PublishedHaveNodes
<1>1. ASSUME Safe PROVE PublishedHaveNodes
  <2>1. ASSUME updates = <<>>, NEW a \in published
        PROVE  a \in graph.nodes
    BY <1>1, <2>1 DEF Safe, Announced
  <2>2. QED
    BY <2>1 DEF PublishedHaveNodes
<1>2. QED
  BY <1>1, AlwaysSafe, PTL
=============================================================================
