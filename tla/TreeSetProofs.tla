----------------------------- MODULE TreeSetProofs -----------------------------
(***************************************************************************)
(* Proofs about TreeSet.  After the recursions of the module come what a   *)
(* node over two AVL trees is (Build, Split), what the two rotations make  *)
(* of one that leans too far (Rebalanced), and from these what insert and  *)
(* remove make of an AVL tree of any size (InsertShape, RemoveShape), what *)
(* the walks and the queries find in one, and at last the invariant and    *)
(* the properties.                                                         *)
(***************************************************************************)
EXTENDS TreeSet, DataInduction

MaxHeight == Cardinality(Element)

LEMMA MaxHeightIs == MaxHeight \in Nat
BY TreeSetAssumption, FS_CardinalityType DEF MaxHeight

(* The function that defines the trees exists.                             *)
LEMMA TreeLevels ==
  /\ Tree[0] = {NULL}
  /\ \A n \in 1..MaxHeight : Tree[n] = {NULL} \cup NodesOver(Tree[n - 1])
<1> DEFINE N == MaxHeight
           Levels(f, n) ==
             f = [k \in 0..n |-> IF k = 0 THEN {NULL} ELSE {NULL} \cup NodesOver(f[k - 1])]
           S == {n \in 0..N : \E f : Levels(f, n)}
<1>1. N \in Nat
  BY MaxHeightIs
<1>2. 0 \in S
  <2> DEFINE f == [k \in 0..0 |-> {NULL}]
  <2>1. Levels(f, 0)
    <3>1. \A k \in 0..0 : k = 0
      OBVIOUS
    <3>2. QED
      BY <3>1
  <2>2. \E g : Levels(g, 0)
    <3> HIDE DEF f, Levels
    <3>1. QED
      BY <2>1
  <2>3. QED
    BY <1>1, <2>2
<1>3. ASSUME NEW n \in 0..(N - 1), n \in S PROVE n + 1 \in S
  <2>1. PICK f : Levels(f, n)
    BY <1>3
  <2> DEFINE g == [k \in 0..(n + 1) |-> IF k = 0 THEN {NULL} ELSE {NULL} \cup NodesOver(f[k - 1])]
  <2> DEFINE level(h, k) == IF k = 0 THEN {NULL} ELSE {NULL} \cup NodesOver(h[k - 1])
  <2>2. n \in Nat /\ \A k \in 0..n : f[k] = level(f, k)
    <3>1. n \in Nat
      BY <1>1
    <3>2. f = [k \in 0..n |-> level(f, k)]
      BY <2>1
    <3> HIDE DEF level
    <3>3. \A k \in 0..n : [j \in 0..n |-> level(f, j)][k] = level(f, k)
      OBVIOUS
    <3>4. QED
      BY <3>1, <3>2, <3>3
  <2>3. \A k \in 0..n : k \in 0..(n + 1) /\ g[k] = f[k]
    <3>1. \A k \in 0..n : k \in 0..(n + 1)
      BY <2>2
    <3>2. \A k \in 0..n : g[k] = level(f, k)
      BY <3>1
    <3> HIDE DEF g, level
    <3>3. QED
      BY <2>2, <3>1, <3>2
  <2>4. \A k \in 0..(n + 1) : k # 0 => k - 1 \in 0..n
    BY <2>2
  <2>5. \A k \in 0..(n + 1) : g[k] = IF k = 0 THEN {NULL} ELSE {NULL} \cup NodesOver(g[k - 1])
    BY <2>3, <2>4
  <2>6. Levels(g, n + 1)
    <3>1. g = [k \in 0..(n + 1) |-> g[k]]
      OBVIOUS
    <3> HIDE DEF g
    <3>2. QED
      BY <2>5, <3>1
  <2>7. \E h : Levels(h, n + 1)
    <3> HIDE DEF g, Levels
    <3>1. QED
      BY <2>6
  <2>8. QED
    BY <1>1, <2>7
<1>4. 0..N \subseteq S
  <2> HIDE DEF S
  <2>1. QED
    BY <1>1, <1>2, <1>3, InductionUpTo
<1>5. \E f : Levels(f, N)
  <2>1. N \in 0..N
    BY <1>1
  <2>2. QED
    BY <1>4, <2>1
<1>6. Tree = CHOOSE f : Levels(f, N)
  BY DEF Tree, MaxHeight
<1>7. Levels(Tree, N)
  <2> HIDE DEF Levels, N
  <2>1. QED
    BY <1>5, <1>6
<1>8. ASSUME NEW n \in 0..N
      PROVE  Tree[n] = IF n = 0 THEN {NULL} ELSE {NULL} \cup NodesOver(Tree[n - 1])
  <2> DEFINE level(k) == IF k = 0 THEN {NULL} ELSE {NULL} \cup NodesOver(Tree[k - 1])
  <2>1. Tree = [k \in 0..N |-> level(k)]
    BY <1>7
  <2> HIDE DEF level
  <2>2. [k \in 0..N |-> level(k)][n] = level(n)
    OBVIOUS
  <2>3. Tree[n] = level(n)
    BY <2>1, <2>2
  <2>4. QED
    BY <2>3 DEF level
<1>9. 0 \in 0..N /\ \A n \in 1..N : n \in 0..N /\ n # 0
  BY <1>1
<1>10. QED
  BY <1>8, <1>9

LEMMA NodesOverWider ==
  ASSUME NEW A, NEW B, A \subseteq B
  PROVE  NodesOver(A) \subseteq NodesOver(B)
BY DEF NodesOver

LEMMA NodeFields ==
  ASSUME NEW T, NEW t \in NodesOver(T)
  PROVE  /\ t.element \in Int /\ t.balance \in Int /\ t.link \in [0..1 -> T]
         /\ t.link[0] \in T /\ t.link[1] \in T
         /\ t = [element |-> t.element, balance |-> t.balance, link |-> t.link]
<1>1. t.element \in Int /\ t.balance \in Int /\ t.link \in [0..1 -> T]
  BY DEF NodesOver
<1>2. t = [element |-> t.element, balance |-> t.balance, link |-> t.link]
  BY DEF NodesOver
<1>3. 0 \in 0..1 /\ 1 \in 0..1
  OBVIOUS
<1>4. QED
  BY <1>1, <1>2, <1>3

(* A tree of some height is a tree of any larger one.                      *)
LEMMA TreesGrow ==
  /\ \A n \in 1..MaxHeight : Tree[n - 1] \subseteq Tree[n]
  /\ \A n \in 0..MaxHeight : NULL \in Tree[n] /\ Tree[n] \subseteq Trees
<1> DEFINE N == MaxHeight
           S == {n \in 0..N : n > 0 => Tree[n - 1] \subseteq Tree[n]}
           R == {k \in 0..N : Tree[N - k] \subseteq Tree[N]}
<1>1. N \in Nat
  BY MaxHeightIs
<1>2. Tree[0] = {NULL} /\ \A n \in 1..N : Tree[n] = {NULL} \cup NodesOver(Tree[n - 1])
  BY TreeLevels
<1> HIDE DEF N
<1>3. ASSUME NEW n \in 0..(N - 1), n \in S PROVE n + 1 \in S
  <2>1. n + 1 \in 1..N /\ (n + 1) - 1 = n /\ n + 1 \in 0..N
    BY <1>1
  <2>2. Tree[n + 1] = {NULL} \cup NodesOver(Tree[n])
    BY <1>2, <2>1
  <2>3. CASE n = 0
    BY <1>2, <2>1, <2>2, <2>3
  <2>4. CASE n > 0
    <3>1. Tree[n - 1] \subseteq Tree[n] /\ n \in 1..N
      BY <1>1, <1>3, <2>4
    <3>2. NodesOver(Tree[n - 1]) \subseteq NodesOver(Tree[n])
      BY <3>1, NodesOverWider
    <3>3. Tree[n] = {NULL} \cup NodesOver(Tree[n - 1])
      BY <1>2, <3>1
    <3>4. QED
      BY <2>1, <2>2, <3>2, <3>3
  <2>5. QED
    BY <1>1, <2>3, <2>4
<1>4. 0..N \subseteq S
  <2>1. 0 \in S
    BY <1>1
  <2> HIDE DEF S
  <2>2. QED
    BY <1>1, <1>3, <2>1, InductionUpTo
<1>5. \A n \in 1..N : Tree[n - 1] \subseteq Tree[n]
  BY <1>1, <1>4
<1>6. ASSUME NEW k \in 0..(N - 1), k \in R PROVE k + 1 \in R
  <2>1. PICK n \in 1..N : n = N - k
    BY <1>1
  <2>2. n - 1 = N - (k + 1) /\ k + 1 \in 0..N
    BY <1>1, <2>1
  <2>3. Tree[n - 1] \subseteq Tree[n] /\ Tree[n] \subseteq Tree[N]
    BY <1>5, <1>6, <2>1
  <2>4. QED
    BY <2>2, <2>3
<1>7. 0..N \subseteq R
  <2>1. 0 \in R
    <3>1. N - 0 = N /\ 0 \in 0..N
      BY <1>1
    <3>2. QED
      BY <3>1
  <2> HIDE DEF R
  <2>2. QED
    BY <1>1, <1>6, <2>1, InductionUpTo
<1>8. ASSUME NEW n \in 0..N PROVE NULL \in Tree[n] /\ Tree[n] \subseteq Tree[N]
  <2>1. PICK k \in 0..N : k = N - n
    BY <1>1
  <2>2. N - k = n
    BY <1>1, <2>1
  <2>3. Tree[n] \subseteq Tree[N]
    BY <1>7, <2>2
  <2>4. n = 0 \/ n \in 1..N
    OBVIOUS
  <2>5. QED
    BY <1>2, <2>3, <2>4
<1>9. QED
  BY <1>5, <1>8 DEF N, Trees, MaxHeight

(* What a tree that is not empty consists of.                              *)
LEMMA TreeNodes ==
  /\ NULL \in Trees
  /\ \A t \in Trees : t # NULL => t \in NodesOver(Trees)
  /\ \A t \in NodesOver(Trees) : t # NULL
<1> DEFINE N == MaxHeight
<1>1. N \in Nat /\ Trees = Tree[N]
  BY MaxHeightIs DEF Trees, MaxHeight
<1>2. ASSUME NEW t \in Trees, t # NULL PROVE t \in NodesOver(Trees)
  <2>1. N \in 1..N
    <3>1. N # 0
      BY <1>1, <1>2, TreeLevels
    <3>2. QED
      BY <1>1, <3>1
  <2>2. t \in NodesOver(Tree[N - 1])
    BY <1>1, <1>2, <2>1, TreeLevels
  <2>3. Tree[N - 1] \subseteq Trees
    BY <1>1, <2>1, TreesGrow
  <2>4. QED
    BY <2>2, <2>3, NodesOverWider
<1>3. NULL \in Trees
  <2>1. N \in 0..N
    BY <1>1
  <2>2. QED
    BY <1>1, <2>1, TreesGrow
<1>4. QED
  BY <1>2, <1>3, TreeSetAssumption

LEMMA Children ==
  ASSUME NEW t \in Trees, t # NULL
  PROVE  /\ t.element \in Int /\ t.balance \in Int
         /\ \A d \in 0..1 : t.link[d] \in Trees
BY TreeNodes, NodeFields

LEMMA Nodes01 == \A d \in 0..1 : d = 0 \/ d = 1
OBVIOUS

(* Induction over trees: a set that has the empty tree and every tree      *)
(* whose subtrees it has, has all trees.                                   *)
LEMMA TreeInduction ==
  ASSUME NEW S, NULL \in S,
         \A t \in Trees : t # NULL /\ t.link[0] \in S /\ t.link[1] \in S => t \in S
  PROVE  Trees \subseteq S
<1> DEFINE N == MaxHeight
           R == {n \in 0..N : Tree[n] \subseteq S}
<1>1. N \in Nat
  BY MaxHeightIs
<1> HIDE DEF N
<1>2. 0 \in R
  BY <1>1, TreeLevels
<1>3. ASSUME NEW n \in 0..(N - 1), n \in R PROVE n + 1 \in R
  <2>1. n + 1 \in 1..N /\ (n + 1) - 1 = n /\ n + 1 \in 0..N
    BY <1>1
  <2>2. Tree[n + 1] = {NULL} \cup NodesOver(Tree[n]) /\ Tree[n + 1] \subseteq Trees
    BY <2>1, TreeLevels, TreesGrow DEF N
  <2>3. ASSUME NEW t \in Tree[n + 1], t # NULL PROVE t \in S
    <3>1. t \in NodesOver(Tree[n])
      BY <2>2, <2>3
    <3>2. t.link[0] \in Tree[n] /\ t.link[1] \in Tree[n]
      BY <3>1, NodeFields
    <3>3. QED
      BY <1>3, <2>2, <2>3, <3>2
  <2>4. QED
    BY <2>1, <2>3
<1>4. 0..N \subseteq R
  <2> HIDE DEF R
  <2>1. QED
    BY <1>1, <1>2, <1>3, InductionUpTo
<1>5. N \in R
  BY <1>1, <1>4
<1>6. QED
  BY <1>5 DEF N, Trees, MaxHeight

(* What a recursion gives for a tree, from what it gives for the subtrees. *)
TreeSteps(X, step) ==
  \A t \in Trees : \A a, b \in X : t # NULL => step[<<t, a, b>>] \in X

IsTreeRecursion(f, X, c, step) ==
  /\ f \in [Trees -> X] /\ f[NULL] = c
  /\ \A t \in Trees : t # NULL => f[t] = step[<<t, f[t.link[0]], f[t.link[1]]>>]

(* A recursion over trees whose steps stay in a set has a solution.        *)
LEMMA TreeRecursion ==
  ASSUME NEW X, NEW c \in X, NEW step, TreeSteps(X, step)
  PROVE  \E f : IsTreeRecursion(f, X, c, step)
<1> USE DEF TreeSteps
<1> DEFINE N == MaxHeight
           Value(f, t) == IF t = NULL THEN c ELSE step[<<t, f[t.link[0]], f[t.link[1]]>>]
           Solves(f, n) == f \in [Tree[n] -> X] /\ \A t \in Tree[n] : f[t] = Value(f, t)
           S == {n \in 0..N : \E f : Solves(f, n)}
<1>1. N \in Nat /\ Trees = Tree[N]
  BY MaxHeightIs DEF Trees, MaxHeight
<1> HIDE DEF N
<1>2. 0 \in S
  <2> DEFINE f == [t \in Tree[0] |-> c]
  <2>1. Solves(f, 0)
    BY TreeLevels
  <2>2. \E g : Solves(g, 0)
    <3> HIDE DEF f, Solves
    <3>1. QED
      BY <2>1
  <2>3. QED
    BY <1>1, <2>2
<1>3. ASSUME NEW n \in 0..(N - 1), n \in S PROVE n + 1 \in S
  <2>1. PICK f : Solves(f, n)
    BY <1>3
  <2> DEFINE g == [t \in Tree[n + 1] |-> Value(f, t)]
  <2>2. n + 1 \in 1..N /\ (n + 1) - 1 = n /\ n + 1 \in 0..N
    BY <1>1
  <2>3. /\ Tree[n + 1] = {NULL} \cup NodesOver(Tree[n]) /\ Tree[n + 1] \subseteq Trees
        /\ Tree[n] \subseteq Tree[n + 1]
    <3>1. Tree[n + 1] = {NULL} \cup NodesOver(Tree[n]) /\ Tree[n + 1] \subseteq Trees
      BY <2>2, TreeLevels, TreesGrow DEF N
    <3>2. Tree[(n + 1) - 1] \subseteq Tree[n + 1]
      BY <2>2, TreesGrow DEF N
    <3>3. QED
      BY <2>2, <3>1, <3>2
  <2>4. \A t \in Tree[n] : g[t] = f[t]
    BY <2>1, <2>3
  <2>5. ASSUME NEW t \in Tree[n + 1], t # NULL
        PROVE  /\ f[t.link[0]] \in X /\ f[t.link[1]] \in X
               /\ g[t.link[0]] = f[t.link[0]] /\ g[t.link[1]] = f[t.link[1]]
    <3>1. t \in NodesOver(Tree[n])
      BY <2>3, <2>5
    <3>2. t.link[0] \in Tree[n] /\ t.link[1] \in Tree[n]
      BY <3>1, NodeFields
    <3> HIDE DEF g
    <3>3. QED
      BY <2>1, <2>4, <3>2
  <2>6. \A t \in Tree[n + 1] : Value(f, t) \in X /\ Value(f, t) = Value(g, t)
    <3> HIDE DEF g, Solves
    <3>1. QED
      BY <2>3, <2>5
  <2>7. Solves(g, n + 1)
    <3> HIDE DEF Value
    <3>1. g \in [Tree[n + 1] -> X] /\ \A t \in Tree[n + 1] : g[t] = Value(f, t)
      BY <2>6
    <3> HIDE DEF g
    <3>2. QED
      BY <2>6, <3>1
  <2>8. \E h : Solves(h, n + 1)
    <3> HIDE DEF g, Solves
    <3>1. QED
      BY <2>7
  <2>9. QED
    BY <2>2, <2>8
<1>4. 0..N \subseteq S
  <2> HIDE DEF S
  <2>1. QED
    BY <1>1, <1>2, <1>3, InductionUpTo
<1>5. PICK f : Solves(f, N)
  <2>1. N \in 0..N
    BY <1>1
  <2>2. QED
    BY <1>4, <2>1
<1>6. IsTreeRecursion(f, X, c, step)
  <2>1. NULL \in Trees
    BY TreeNodes
  <2>2. QED
    BY <1>1, <1>5, <2>1 DEF IsTreeRecursion
<1>7. QED
  BY <1>6

(* The values of a function on trees are in a set that its recursion       *)
(* leads from the subtrees to the tree.                                    *)
LEMMA TreeValues ==
  ASSUME NEW X, NEW f, f[NULL] \in X,
         \A t \in Trees : t # NULL /\ f[t.link[0]] \in X /\ f[t.link[1]] \in X => f[t] \in X
  PROVE  \A t \in Trees : f[t] \in X
<1> DEFINE S == {t \in Trees : f[t] \in X}
<1>1. NULL \in S
  BY TreeNodes
<1>2. \A t \in Trees : t # NULL /\ t.link[0] \in S /\ t.link[1] \in S => t \in S
  OBVIOUS
<1>3. Trees \subseteq S
  <2> HIDE DEF S
  <2>1. QED
    BY <1>1, <1>2, TreeInduction
<1>4. QED
  BY <1>3

(* The two subtrees of a tree.                                             *)
LEMMA Subtrees ==
  ASSUME NEW t \in Trees, t # NULL
  PROVE  t.link[0] \in Trees /\ t.link[1] \in Trees
<1>1. 0 \in 0..1 /\ 1 \in 0..1
  OBVIOUS
<1>2. QED
  BY <1>1, Children

(* The infix order of a tree.                                              *)
LEMMA PopulateIs ==
  /\ populate(NULL) = << >>
  /\ \A t \in Trees : populate(t) \in Seq(Int)
  /\ \A t \in Trees : t # NULL => 
       populate(t) = populate(t.link[0]) \o <<t.element>> \o populate(t.link[1])
<1> DEFINE X == Seq(Int)
           c == << >>
           val(t, a, b) == a \o <<t.element>> \o b
           step == [p \in Trees \X X \X X |-> val(p[1], p[2], p[3])]
           rhs(f, t) == IF t = NULL THEN c ELSE val(t, f[t.link[0]], f[t.link[1]])
           Solves(f) == f = [t \in Trees |-> rhs(f, t)]
           walk == CHOOSE f : Solves(f)
<1>1. ASSUME NEW t \in Trees, NEW a \in X, NEW b \in X, t # NULL
      PROVE  val(t, a, b) \in X
  <2>1. <<t.element>> \in Seq(Int) /\ a \in Seq(Int) /\ b \in Seq(Int)
    BY <1>1, Children
  <2>2. QED
    BY <2>1, ConcatProperties
<1>2. c \in X
  OBVIOUS
<1>3. \A t \in Trees, a \in X, b \in X : step[<<t, a, b>>] = val(t, a, b)
  OBVIOUS
<1>4. \A t : populate(t) = walk[t]
  BY DEF populate
<1> HIDE DEF X, c, val, step
<1>5. \E f : Solves(f)
  <2>1. TreeSteps(X, step)
    BY <1>1, <1>3 DEF TreeSteps
  <2>2. PICK f : IsTreeRecursion(f, X, c, step)
    BY <1>2, <2>1, TreeRecursion
  <2>3. ASSUME NEW t \in Trees PROVE f[t] = rhs(f, t)
    <3>1. CASE t = NULL
      BY <2>2, <3>1 DEF IsTreeRecursion
    <3>2. CASE t # NULL
      <4>1. f[t.link[0]] \in X /\ f[t.link[1]] \in X
        BY <2>2, <3>2, Subtrees DEF IsTreeRecursion
      <4>2. QED
        BY <1>3, <2>2, <3>2, <4>1 DEF IsTreeRecursion
    <3>3. QED
      BY <3>1, <3>2
  <2>4. f = [t \in Trees |-> f[t]]
    BY <2>2 DEF IsTreeRecursion
  <2> HIDE DEF rhs
  <2>5. QED
    BY <2>3, <2>4
<1>6. \A t \in Trees : walk[t] = rhs(walk, t)
  <2>1. Solves(walk)
    <3> HIDE DEF Solves
    <3>1. QED
      BY <1>5
  <2> HIDE DEF walk, rhs
  <2>2. QED
    BY <2>1
<1> HIDE DEF walk
<1>7. \A t \in Trees : walk[t] \in X
  <2>1. walk[NULL] = c /\ \A t \in Trees : t # NULL =>
          walk[t] = val(t, walk[t.link[0]], walk[t.link[1]])
    BY <1>6, TreeNodes
  <2> HIDE DEF rhs, Solves
  <2>2. QED
    BY <1>1, <1>2, <2>1, TreeValues
<1>8. QED
  BY <1>4, <1>6, <1>7, TreeNodes DEF X, c, val

(* The postfix order of a tree.                                            *)
LEMMA PostpurgeIs ==
  /\ postpurge(NULL) = << >>
  /\ \A t \in Trees : postpurge(t) \in Seq(Int)
  /\ \A t \in Trees : t # NULL => 
       postpurge(t) = postpurge(t.link[0]) \o postpurge(t.link[1]) \o <<t.element>>
<1> DEFINE X == Seq(Int)
           c == << >>
           val(t, a, b) == a \o b \o <<t.element>>
           step == [p \in Trees \X X \X X |-> val(p[1], p[2], p[3])]
           rhs(f, t) == IF t = NULL THEN c ELSE val(t, f[t.link[0]], f[t.link[1]])
           Solves(f) == f = [t \in Trees |-> rhs(f, t)]
           walk == CHOOSE f : Solves(f)
<1>1. ASSUME NEW t \in Trees, NEW a \in X, NEW b \in X, t # NULL
      PROVE  val(t, a, b) \in X
  <2>1. <<t.element>> \in Seq(Int) /\ a \in Seq(Int) /\ b \in Seq(Int)
    BY <1>1, Children
  <2>2. QED
    BY <2>1, ConcatProperties
<1>2. c \in X
  OBVIOUS
<1>3. \A t \in Trees, a \in X, b \in X : step[<<t, a, b>>] = val(t, a, b)
  OBVIOUS
<1>4. \A t : postpurge(t) = walk[t]
  BY DEF postpurge
<1> HIDE DEF X, c, val, step
<1>5. \E f : Solves(f)
  <2>1. TreeSteps(X, step)
    BY <1>1, <1>3 DEF TreeSteps
  <2>2. PICK f : IsTreeRecursion(f, X, c, step)
    BY <1>2, <2>1, TreeRecursion
  <2>3. ASSUME NEW t \in Trees PROVE f[t] = rhs(f, t)
    <3>1. CASE t = NULL
      BY <2>2, <3>1 DEF IsTreeRecursion
    <3>2. CASE t # NULL
      <4>1. f[t.link[0]] \in X /\ f[t.link[1]] \in X
        BY <2>2, <3>2, Subtrees DEF IsTreeRecursion
      <4>2. QED
        BY <1>3, <2>2, <3>2, <4>1 DEF IsTreeRecursion
    <3>3. QED
      BY <3>1, <3>2
  <2>4. f = [t \in Trees |-> f[t]]
    BY <2>2 DEF IsTreeRecursion
  <2> HIDE DEF rhs
  <2>5. QED
    BY <2>3, <2>4
<1>6. \A t \in Trees : walk[t] = rhs(walk, t)
  <2>1. Solves(walk)
    <3> HIDE DEF Solves
    <3>1. QED
      BY <1>5
  <2> HIDE DEF walk, rhs
  <2>2. QED
    BY <2>1
<1> HIDE DEF walk
<1>7. \A t \in Trees : walk[t] \in X
  <2>1. walk[NULL] = c /\ \A t \in Trees : t # NULL =>
          walk[t] = val(t, walk[t.link[0]], walk[t.link[1]])
    BY <1>6, TreeNodes
  <2> HIDE DEF rhs, Solves
  <2>2. QED
    BY <1>1, <1>2, <2>1, TreeValues
<1>8. QED
  BY <1>4, <1>6, <1>7, TreeNodes DEF X, c, val

\* The height of a tree.
LEMMA HeightIs ==
  /\ Height(NULL) = 0
  /\ \A t \in Trees : Height(t) \in Nat
  /\ \A t \in Trees : t # NULL => 
       Height(t) = 1 + (IF Height(t.link[0]) > Height(t.link[1])
                        THEN Height(t.link[0]) ELSE Height(t.link[1]))
<1> DEFINE X == Nat
           c == 0
           val(t, a, b) == 1 + (IF a > b THEN a ELSE b)
           step == [p \in Trees \X X \X X |-> val(p[1], p[2], p[3])]
           rhs(f, t) == IF t = NULL THEN c ELSE val(t, f[t.link[0]], f[t.link[1]])
           Solves(f) == f = [t \in Trees |-> rhs(f, t)]
           high == CHOOSE f : Solves(f)
<1>1. ASSUME NEW t \in Trees, NEW a \in X, NEW b \in X, t # NULL
      PROVE  val(t, a, b) \in X
  OBVIOUS
<1>2. c \in X
  OBVIOUS
<1>3. \A t \in Trees, a \in X, b \in X : step[<<t, a, b>>] = val(t, a, b)
  OBVIOUS
<1>4. \A t : Height(t) = high[t]
  BY DEF Height
<1> HIDE DEF X, c, val, step
<1>5. \E f : Solves(f)
  <2>1. TreeSteps(X, step)
    BY <1>1, <1>3 DEF TreeSteps
  <2>2. PICK f : IsTreeRecursion(f, X, c, step)
    BY <1>2, <2>1, TreeRecursion
  <2>3. ASSUME NEW t \in Trees PROVE f[t] = rhs(f, t)
    <3>1. CASE t = NULL
      BY <2>2, <3>1 DEF IsTreeRecursion
    <3>2. CASE t # NULL
      <4>1. f[t.link[0]] \in X /\ f[t.link[1]] \in X
        BY <2>2, <3>2, Subtrees DEF IsTreeRecursion
      <4>2. QED
        BY <1>3, <2>2, <3>2, <4>1 DEF IsTreeRecursion
    <3>3. QED
      BY <3>1, <3>2
  <2>4. f = [t \in Trees |-> f[t]]
    BY <2>2 DEF IsTreeRecursion
  <2> HIDE DEF rhs
  <2>5. QED
    BY <2>3, <2>4
<1>6. \A t \in Trees : high[t] = rhs(high, t)
  <2>1. Solves(high)
    <3> HIDE DEF Solves
    <3>1. QED
      BY <1>5
  <2> HIDE DEF high, rhs
  <2>2. QED
    BY <2>1
<1> HIDE DEF high
<1>7. \A t \in Trees : high[t] \in X
  <2>1. high[NULL] = c /\ \A t \in Trees : t # NULL =>
          high[t] = val(t, high[t.link[0]], high[t.link[1]])
    BY <1>6, TreeNodes
  <2> HIDE DEF rhs, Solves
  <2>2. QED
    BY <1>1, <1>2, <2>1, TreeValues
<1>8. QED
  BY <1>4, <1>6, <1>7, TreeNodes DEF X, c, val

\* The nodes of a tree.
LEMMA NodesIs ==
  /\ Nodes(NULL) = {}
  /\ \A t \in Trees : Nodes(t) \in SUBSET Trees
  /\ \A t \in Trees : t # NULL => 
       Nodes(t) = {t} \cup Nodes(t.link[0]) \cup Nodes(t.link[1])
<1> DEFINE X == SUBSET Trees
           c == {}
           val(t, a, b) == {t} \cup a \cup b
           step == [p \in Trees \X X \X X |-> val(p[1], p[2], p[3])]
           rhs(f, t) == IF t = NULL THEN c ELSE val(t, f[t.link[0]], f[t.link[1]])
           Solves(f) == f = [t \in Trees |-> rhs(f, t)]
           below == CHOOSE f : Solves(f)
<1>1. ASSUME NEW t \in Trees, NEW a \in X, NEW b \in X, t # NULL
      PROVE  val(t, a, b) \in X
  OBVIOUS
<1>2. c \in X
  OBVIOUS
<1>3. \A t \in Trees, a \in X, b \in X : step[<<t, a, b>>] = val(t, a, b)
  OBVIOUS
<1>4. \A t : Nodes(t) = below[t]
  BY DEF Nodes
<1> HIDE DEF X, c, val, step
<1>5. \E f : Solves(f)
  <2>1. TreeSteps(X, step)
    BY <1>1, <1>3 DEF TreeSteps
  <2>2. PICK f : IsTreeRecursion(f, X, c, step)
    BY <1>2, <2>1, TreeRecursion
  <2>3. ASSUME NEW t \in Trees PROVE f[t] = rhs(f, t)
    <3>1. CASE t = NULL
      BY <2>2, <3>1 DEF IsTreeRecursion
    <3>2. CASE t # NULL
      <4>1. f[t.link[0]] \in X /\ f[t.link[1]] \in X
        BY <2>2, <3>2, Subtrees DEF IsTreeRecursion
      <4>2. QED
        BY <1>3, <2>2, <3>2, <4>1 DEF IsTreeRecursion
    <3>3. QED
      BY <3>1, <3>2
  <2>4. f = [t \in Trees |-> f[t]]
    BY <2>2 DEF IsTreeRecursion
  <2> HIDE DEF rhs
  <2>5. QED
    BY <2>3, <2>4
<1>6. \A t \in Trees : below[t] = rhs(below, t)
  <2>1. Solves(below)
    <3> HIDE DEF Solves
    <3>1. QED
      BY <1>5
  <2> HIDE DEF below, rhs
  <2>2. QED
    BY <2>1
<1> HIDE DEF below
<1>7. \A t \in Trees : below[t] \in X
  <2>1. below[NULL] = c /\ \A t \in Trees : t # NULL =>
          below[t] = val(t, below[t.link[0]], below[t.link[1]])
    BY <1>6, TreeNodes
  <2> HIDE DEF rhs, Solves
  <2>2. QED
    BY <1>1, <1>2, <2>1, TreeValues
<1>8. QED
  BY <1>4, <1>6, <1>7, TreeNodes DEF X, c, val

\* What find returns.
LEMMA FindIs ==
  ASSUME NEW element
  PROVE  /\ find(element, NULL) = NULL
         /\ \A t \in Trees : find(element, t) \in Trees
         /\ \A t \in Trees : t # NULL => 
           find(element, t) = CASE element < t.element -> find(element, t.link[0])
                                [] element > t.element -> find(element, t.link[1])
                                [] OTHER -> t
<1> DEFINE X == Trees
           c == NULL
           val(t, a, b) == CASE element < t.element -> a
                             [] element > t.element -> b
                             [] OTHER -> t
           step == [p \in Trees \X X \X X |-> val(p[1], p[2], p[3])]
           rhs(f, t) == IF t = NULL THEN c ELSE val(t, f[t.link[0]], f[t.link[1]])
           Solves(f) == f = [t \in Trees |-> rhs(f, t)]
           search == CHOOSE f : Solves(f)
<1>1. ASSUME NEW t \in Trees, NEW a \in X, NEW b \in X, t # NULL
      PROVE  val(t, a, b) \in X
  OBVIOUS
<1>2. c \in X
  BY TreeNodes
<1>3. \A t \in Trees, a \in X, b \in X : step[<<t, a, b>>] = val(t, a, b)
  OBVIOUS
<1>4. \A t : find(element, t) = search[t]
  BY DEF find
<1> HIDE DEF X, c, val, step
<1>5. \E f : Solves(f)
  <2>1. TreeSteps(X, step)
    BY <1>1, <1>3 DEF TreeSteps
  <2>2. PICK f : IsTreeRecursion(f, X, c, step)
    BY <1>2, <2>1, TreeRecursion
  <2>3. ASSUME NEW t \in Trees PROVE f[t] = rhs(f, t)
    <3>1. CASE t = NULL
      BY <2>2, <3>1 DEF IsTreeRecursion
    <3>2. CASE t # NULL
      <4>1. f[t.link[0]] \in X /\ f[t.link[1]] \in X
        BY <2>2, <3>2, Subtrees DEF IsTreeRecursion
      <4>2. QED
        BY <1>3, <2>2, <3>2, <4>1 DEF IsTreeRecursion
    <3>3. QED
      BY <3>1, <3>2
  <2>4. f = [t \in Trees |-> f[t]]
    BY <2>2 DEF IsTreeRecursion
  <2> HIDE DEF rhs
  <2>5. QED
    BY <2>3, <2>4
<1>6. \A t \in Trees : search[t] = rhs(search, t)
  <2>1. Solves(search)
    <3> HIDE DEF Solves
    <3>1. QED
      BY <1>5
  <2> HIDE DEF search, rhs
  <2>2. QED
    BY <2>1
<1> HIDE DEF search
<1>7. \A t \in Trees : search[t] \in X
  <2>1. search[NULL] = c /\ \A t \in Trees : t # NULL =>
          search[t] = val(t, search[t.link[0]], search[t.link[1]])
    BY <1>6, TreeNodes
  <2> HIDE DEF rhs, Solves
  <2>2. QED
    BY <1>1, <1>2, <2>1, TreeValues
<1>8. QED
  BY <1>4, <1>6, <1>7, TreeNodes DEF X, c, val

\* What findMin and findMax return.
LEMMA OutermostIs ==
  ASSUME NEW dir \in 0..1
  PROVE  /\ Outermost(NULL, dir) = NULL
         /\ \A t \in Trees : Outermost(t, dir) \in Trees
         /\ \A t \in Trees : t # NULL => 
           Outermost(t, dir) =
             IF t.link[dir] = NULL THEN t ELSE Outermost(t.link[dir], dir)
<1> DEFINE X == Trees
           c == NULL
           val(t, a, b) == IF t.link[dir] = NULL THEN t ELSE IF dir = 0 THEN a ELSE b
           step == [p \in Trees \X X \X X |-> val(p[1], p[2], p[3])]
           rhs(f, t) == IF t = NULL THEN t ELSE IF t.link[dir] = NULL THEN t ELSE f[t.link[dir]]
           Solves(f) == f = [t \in Trees |-> rhs(f, t)]
           last == CHOOSE f : Solves(f)
<1>1. ASSUME NEW t \in Trees, NEW a \in X, NEW b \in X, t # NULL
      PROVE  val(t, a, b) \in X
  OBVIOUS
<1>2. c \in X
  BY TreeNodes
<1>3. \A t \in Trees, a \in X, b \in X : step[<<t, a, b>>] = val(t, a, b)
  OBVIOUS
<1>4. \A f, t : rhs(f, t) = IF t = NULL THEN c ELSE val(t, f[t.link[0]], f[t.link[1]])
  <2>1. dir = 0 \/ dir = 1
    OBVIOUS
  <2>2. QED
    BY <2>1
<1>5. \A t : Outermost(t, dir) = last[t]
  BY DEF Outermost
<1> HIDE DEF X, c, val, step, rhs
<1>6. \E f : Solves(f)
  <2>1. TreeSteps(X, step)
    BY <1>1, <1>3 DEF TreeSteps
  <2>2. PICK f : IsTreeRecursion(f, X, c, step)
    BY <1>2, <2>1, TreeRecursion
  <2>3. ASSUME NEW t \in Trees PROVE f[t] = rhs(f, t)
    <3>1. CASE t = NULL
      BY <1>4, <2>2, <3>1 DEF IsTreeRecursion
    <3>2. CASE t # NULL
      <4>1. f[t.link[0]] \in X /\ f[t.link[1]] \in X
        BY <2>2, <3>2, Subtrees DEF IsTreeRecursion
      <4>2. QED
        BY <1>3, <1>4, <2>2, <3>2, <4>1 DEF IsTreeRecursion
    <3>3. QED
      BY <3>1, <3>2
  <2>4. f = [t \in Trees |-> f[t]]
    BY <2>2 DEF IsTreeRecursion
  <2>5. QED
    BY <2>3, <2>4
<1>7. \A t \in Trees : last[t] = rhs(last, t)
  <2>1. Solves(last)
    <3> HIDE DEF Solves
    <3>1. QED
      BY <1>6
  <2> HIDE DEF last
  <2>2. QED
    BY <2>1
<1> HIDE DEF last
<1>8. \A t \in Trees : last[t] \in X
  <2>1. last[NULL] = c /\ \A t \in Trees : t # NULL =>
          last[t] = val(t, last[t.link[0]], last[t.link[1]])
    BY <1>4, <1>7, TreeNodes
  <2> HIDE DEF Solves
  <2>2. QED
    BY <1>1, <1>2, <2>1, TreeValues
<1>9. QED
  BY <1>4, <1>5, <1>7, <1>8, TreeNodes DEF X, c, val

(* The loop of the queries for the elements above a given one, from a tree *)
(* and the candidate that it was reached with.                             *)
AboveLoop(loop, element, equal) ==
  /\ \A t \in Trees : loop[t] \in [Trees -> Trees]
  /\ \A t \in Trees : Above(t, element, equal) = loop[t][NULL]
  /\ \A n \in Trees : loop[NULL][n] = n
  /\ \A t, n \in Trees : t # NULL =>
       loop[t][n] = IF equal /\ element = t.element THEN t
                    ELSE IF element < t.element THEN loop[t.link[0]][Min(t, n)]
                    ELSE loop[t.link[1]][n]

LEMMA AboveIs ==
  ASSUME NEW element, NEW equal
  PROVE  \E loop : AboveLoop(loop, element, equal)
<1> DEFINE X == [Trees -> Trees]
           c == [current \in Trees |-> current]
           val(t, a, b) == [current \in Trees |->
                             IF equal /\ element = t.element THEN t
                             ELSE IF element < t.element THEN a[Min(t, current)]
                             ELSE b[current]]
           step == [p \in Trees \X X \X X |-> val(p[1], p[2], p[3])]
           rhs(f, t) ==
             [current \in Trees |->
               IF t = NULL THEN current
               ELSE IF equal /\ element = t.element THEN t
               ELSE IF element < t.element THEN f[t.link[0]][Min(t, current)]
               ELSE f[t.link[1]][current]]
           Solves(f) == f = [t \in Trees |-> rhs(f, t)]
           loop == CHOOSE f : Solves(f)
<1>1. ASSUME NEW t \in Trees, NEW a \in X, NEW b \in X, t # NULL
      PROVE  val(t, a, b) \in X
  <2>1. \A current \in Trees : Min(t, current) \in Trees
    BY DEF Min
  <2>2. QED
    BY <2>1
<1>2. c \in X
  OBVIOUS
<1>3. \A t \in Trees, a \in X, b \in X : step[<<t, a, b>>] = val(t, a, b)
  OBVIOUS
<1>4. \A f, t : rhs(f, t) = IF t = NULL THEN c ELSE val(t, f[t.link[0]], f[t.link[1]])
  OBVIOUS
<1>5. \A t : Above(t, element, equal) = loop[t][NULL]
  BY DEF Above
<1> HIDE DEF X, c, val, step, rhs
<1>6. \E f : Solves(f)
  <2>1. TreeSteps(X, step)
    BY <1>1, <1>3 DEF TreeSteps
  <2>2. PICK f : IsTreeRecursion(f, X, c, step)
    BY <1>2, <2>1, TreeRecursion
  <2>3. ASSUME NEW t \in Trees PROVE f[t] = rhs(f, t)
    <3>1. CASE t = NULL
      BY <1>4, <2>2, <3>1 DEF IsTreeRecursion
    <3>2. CASE t # NULL
      <4>1. f[t.link[0]] \in X /\ f[t.link[1]] \in X
        BY <2>2, <3>2, Subtrees DEF IsTreeRecursion
      <4>2. QED
        BY <1>3, <1>4, <2>2, <3>2, <4>1 DEF IsTreeRecursion
    <3>3. QED
      BY <3>1, <3>2
  <2>4. f = [t \in Trees |-> f[t]]
    BY <2>2 DEF IsTreeRecursion
  <2>5. QED
    BY <2>3, <2>4
<1>7. \A t \in Trees : loop[t] = rhs(loop, t)
  <2>1. Solves(loop)
    <3> HIDE DEF Solves
    <3>1. QED
      BY <1>6
  <2> HIDE DEF loop
  <2>2. QED
    BY <2>1
<1> HIDE DEF loop
<1>8. \A t \in Trees : loop[t] \in X
  <2>1. loop[NULL] = c /\ \A t \in Trees : t # NULL =>
          loop[t] = val(t, loop[t.link[0]], loop[t.link[1]])
    BY <1>4, <1>7, TreeNodes
  <2> HIDE DEF Solves
  <2>2. QED
    BY <1>1, <1>2, <2>1, TreeValues
<1>9. ASSUME NEW t \in Trees, NEW n \in Trees
      PROVE  /\ loop[NULL][n] = n
             /\ t # NULL => loop[t][n] = val(t, loop[t.link[0]], loop[t.link[1]])[n]
  BY <1>4, <1>7, TreeNodes DEF c
<1>10. AboveLoop(loop, element, equal)
  BY <1>5, <1>8, <1>9 DEF AboveLoop, val, X
<1>11. QED
  BY <1>10

(* The loop of the queries for the elements below a given one, from a tree *)
(* and the candidate that it was reached with.                             *)
BelowLoop(loop, element, equal) ==
  /\ \A t \in Trees : loop[t] \in [Trees -> Trees]
  /\ \A t \in Trees : Below(t, element, equal) = loop[t][NULL]
  /\ \A n \in Trees : loop[NULL][n] = n
  /\ \A t, n \in Trees : t # NULL =>
       loop[t][n] = IF equal /\ element = t.element THEN t
                    ELSE IF element > t.element THEN loop[t.link[1]][Max(t, n)]
                    ELSE loop[t.link[0]][n]

LEMMA BelowIs ==
  ASSUME NEW element, NEW equal
  PROVE  \E loop : BelowLoop(loop, element, equal)
<1> DEFINE X == [Trees -> Trees]
           c == [current \in Trees |-> current]
           val(t, a, b) == [current \in Trees |->
                             IF equal /\ element = t.element THEN t
                             ELSE IF element > t.element THEN b[Max(t, current)]
                             ELSE a[current]]
           step == [p \in Trees \X X \X X |-> val(p[1], p[2], p[3])]
           rhs(f, t) ==
             [current \in Trees |->
               IF t = NULL THEN current
               ELSE IF equal /\ element = t.element THEN t
               ELSE IF element > t.element THEN f[t.link[1]][Max(t, current)]
               ELSE f[t.link[0]][current]]
           Solves(f) == f = [t \in Trees |-> rhs(f, t)]
           loop == CHOOSE f : Solves(f)
<1>1. ASSUME NEW t \in Trees, NEW a \in X, NEW b \in X, t # NULL
      PROVE  val(t, a, b) \in X
  <2>1. \A current \in Trees : Max(t, current) \in Trees
    BY DEF Max
  <2>2. QED
    BY <2>1
<1>2. c \in X
  OBVIOUS
<1>3. \A t \in Trees, a \in X, b \in X : step[<<t, a, b>>] = val(t, a, b)
  OBVIOUS
<1>4. \A f, t : rhs(f, t) = IF t = NULL THEN c ELSE val(t, f[t.link[0]], f[t.link[1]])
  OBVIOUS
<1>5. \A t : Below(t, element, equal) = loop[t][NULL]
  BY DEF Below
<1> HIDE DEF X, c, val, step, rhs
<1>6. \E f : Solves(f)
  <2>1. TreeSteps(X, step)
    BY <1>1, <1>3 DEF TreeSteps
  <2>2. PICK f : IsTreeRecursion(f, X, c, step)
    BY <1>2, <2>1, TreeRecursion
  <2>3. ASSUME NEW t \in Trees PROVE f[t] = rhs(f, t)
    <3>1. CASE t = NULL
      BY <1>4, <2>2, <3>1 DEF IsTreeRecursion
    <3>2. CASE t # NULL
      <4>1. f[t.link[0]] \in X /\ f[t.link[1]] \in X
        BY <2>2, <3>2, Subtrees DEF IsTreeRecursion
      <4>2. QED
        BY <1>3, <1>4, <2>2, <3>2, <4>1 DEF IsTreeRecursion
    <3>3. QED
      BY <3>1, <3>2
  <2>4. f = [t \in Trees |-> f[t]]
    BY <2>2 DEF IsTreeRecursion
  <2>5. QED
    BY <2>3, <2>4
<1>7. \A t \in Trees : loop[t] = rhs(loop, t)
  <2>1. Solves(loop)
    <3> HIDE DEF Solves
    <3>1. QED
      BY <1>6
  <2> HIDE DEF loop
  <2>2. QED
    BY <2>1
<1> HIDE DEF loop
<1>8. \A t \in Trees : loop[t] \in X
  <2>1. loop[NULL] = c /\ \A t \in Trees : t # NULL =>
          loop[t] = val(t, loop[t.link[0]], loop[t.link[1]])
    BY <1>4, <1>7, TreeNodes
  <2> HIDE DEF Solves
  <2>2. QED
    BY <1>1, <1>2, <2>1, TreeValues
<1>9. ASSUME NEW t \in Trees, NEW n \in Trees
      PROVE  /\ loop[NULL][n] = n
             /\ t # NULL => loop[t][n] = val(t, loop[t.link[0]], loop[t.link[1]])[n]
  BY <1>4, <1>7, TreeNodes DEF c
<1>10. BelowLoop(loop, element, equal)
  BY <1>5, <1>8, <1>9 DEF BelowLoop, val, X
<1>11. QED
  BY <1>10

\* What insert returns.
LEMMA InsertIs ==
  ASSUME NEW element
  PROVE  /\ insert(NULL, element) = [root |-> newNode(element), done |-> FALSE]
         /\ \A t \in Trees : t # NULL =>
              LET dir == IF t.element < element THEN 1 ELSE 0
              IN  insert(t, element) = Inserted(t, dir, insert(t.link[dir], element))
<1> DEFINE N == MaxHeight
           dir(t) == IF t.element < element THEN 1 ELSE 0
           c == [root |-> newNode(element), done |-> FALSE]
           val(t, a, b) == Inserted(t, dir(t), IF dir(t) = 0 THEN a ELSE b)
           rhs(f, t) == IF t = NULL THEN c ELSE Inserted(t, dir(t), f[t.link[dir(t)]])
           Solves(f, n) == f = [t \in Tree[n] |-> rhs(f, t)]
           S == {n \in 0..N : \E f : Solves(f, n)}
           ins == CHOOSE f : Solves(f, N)
<1>1. N \in Nat /\ Trees = Tree[N]
  BY MaxHeightIs DEF Trees, MaxHeight
<1>2. \A f, t : rhs(f, t) = IF t = NULL THEN c ELSE val(t, f[t.link[0]], f[t.link[1]])
  <2>1. \A t : dir(t) = 0 \/ dir(t) = 1
    OBVIOUS
  <2> HIDE DEF dir, c
  <2>2. QED
    BY <2>1
<1>3. \A t : insert(t, element) = ins[t]
  BY DEF insert, Trees, MaxHeight
<1> HIDE DEF N, c, val, rhs
<1>4. 0 \in S
  <2> DEFINE f == [t \in Tree[0] |-> c]
  <2>1. \A t \in Tree[0] : rhs(f, t) = c
    BY <1>2, TreeLevels
  <2>2. \E g : Solves(g, 0)
    <3>1. f = [t \in Tree[0] |-> rhs(f, t)]
      BY <2>1
    <3>2. QED
      BY <3>1
  <2>3. QED
    BY <1>1, <2>2
<1>5. ASSUME NEW n \in 0..(N - 1), n \in S PROVE n + 1 \in S
  <2>1. PICK f : Solves(f, n)
    BY <1>5
  <2> DEFINE g == [t \in Tree[n + 1] |-> rhs(f, t)]
  <2>2. n + 1 \in 1..N /\ (n + 1) - 1 = n /\ n + 1 \in 0..N
    BY <1>1
  <2>3. Tree[n + 1] = {NULL} \cup NodesOver(Tree[n]) /\ Tree[n] \subseteq Tree[n + 1]
    <3>1. Tree[n + 1] = {NULL} \cup NodesOver(Tree[n])
      BY <2>2, TreeLevels DEF N
    <3>2. Tree[(n + 1) - 1] \subseteq Tree[n + 1]
      BY <2>2, TreesGrow DEF N
    <3>3. QED
      BY <2>2, <3>1, <3>2
  <2>4. \A t \in Tree[n] : f[t] = rhs(f, t)
    BY <2>1
  <2>5. \A t \in Tree[n] : g[t] = f[t]
    <3> HIDE DEF Solves
    <3>1. QED
      BY <2>3, <2>4
  <2> HIDE DEF Solves
  <2>6. ASSUME NEW t \in Tree[n + 1] PROVE rhs(f, t) = rhs(g, t)
    <3>1. CASE t = NULL
      BY <1>2, <3>1
    <3>2. CASE t # NULL
      <4>1. t \in NodesOver(Tree[n])
        BY <2>3, <3>2
      <4>2. t.link[0] \in Tree[n] /\ t.link[1] \in Tree[n]
        BY <4>1, NodeFields
      <4> HIDE DEF g
      <4>3. QED
        BY <1>2, <2>5, <4>2
    <3>3. QED
      BY <3>1, <3>2
  <2>7. g = [t \in Tree[n + 1] |-> rhs(g, t)]
    BY <2>6
  <2>8. \E h : Solves(h, n + 1)
    <3> HIDE DEF g
    <3>1. QED
      BY <2>7 DEF Solves
  <2>9. QED
    BY <2>2, <2>8
<1>6. 0..N \subseteq S
  <2> HIDE DEF S
  <2>1. QED
    BY <1>1, <1>4, <1>5, InductionUpTo
<1>7. \A t \in Trees : ins[t] = rhs(ins, t)
  <2>1. N \in 0..N
    BY <1>1
  <2>2. \E f : Solves(f, N)
    BY <1>6, <2>1
  <2>3. Solves(ins, N)
    <3> HIDE DEF Solves
    <3>1. QED
      BY <2>2
  <2> HIDE DEF ins
  <2>4. QED
    BY <1>1, <2>3
<1> HIDE DEF ins
<1>8. QED
  BY <1>3, <1>7, TreeNodes DEF c, rhs

\* What remove returns.
LEMMA RemoveIs ==
  /\ \A x \in Int : remove(NULL, x) = [root |-> NULL, done |-> FALSE, uf |-> << >>]
  /\ \A t \in Trees, x \in Int : t # NULL =>
       remove(t, x) =
         IF x = t.element /\ (t.link[0] = NULL \/ t.link[1] = NULL)
         THEN [root |-> IF t.link[0] = NULL THEN t.link[1] ELSE t.link[0],
               done |-> FALSE, uf |-> <<t.element>>]
         ELSE LET e == IF x = t.element THEN Heir(t).element ELSE x
                  top == IF x = t.element THEN [t EXCEPT !.element = e] ELSE t
                  dir == IF top.element < e THEN 1 ELSE 0
              IN  Removed(top, dir, remove(t.link[dir], e))
<1> DEFINE N == MaxHeight
           leaf(t) == [root |-> IF t.link[0] = NULL THEN t.link[1] ELSE t.link[0],
                       done |-> FALSE, uf |-> <<t.element>>]
           low(t, x) == x = t.element /\ (t.link[0] = NULL \/ t.link[1] = NULL)
           e(t, x) == IF x = t.element THEN Heir(t).element ELSE x
           top(t, x) == IF x = t.element THEN [t EXCEPT !.element = e(t, x)] ELSE t
           dir(t, x) == IF top(t, x).element < e(t, x) THEN 1 ELSE 0
           none == [root |-> NULL, done |-> FALSE, uf |-> << >>]
           c == [x \in Int |-> none]
           val(t, a, b) ==
             [x \in Int |-> IF low(t, x) THEN leaf(t)
                            ELSE Removed(top(t, x), dir(t, x),
                                         IF dir(t, x) = 0 THEN a[e(t, x)] ELSE b[e(t, x)])]
           rhs(f, t) == [x \in Int |->
             IF t = NULL THEN none
             ELSE IF low(t, x) THEN leaf(t)
             ELSE Removed(top(t, x), dir(t, x), f[t.link[dir(t, x)]][e(t, x)])]
           Solves(f, n) == f = [t \in Tree[n] |-> rhs(f, t)]
           S == {n \in 0..N : \E f : Solves(f, n)}
           rem == CHOOSE f : Solves(f, N)
<1>1. N \in Nat /\ Trees = Tree[N]
  BY MaxHeightIs DEF Trees, MaxHeight
<1>2. \A f, t : rhs(f, t) = IF t = NULL THEN c ELSE val(t, f[t.link[0]], f[t.link[1]])
  <2>1. \A t, x : dir(t, x) = 0 \/ dir(t, x) = 1
    OBVIOUS
  <2> HIDE DEF dir, low, e, top, none, leaf
  <2>2. \A f, t, x : f[t.link[dir(t, x)]][e(t, x)]
                    = IF dir(t, x) = 0 THEN f[t.link[0]][e(t, x)] ELSE f[t.link[1]][e(t, x)]
    BY <2>1
  <2>3. QED
    BY <2>2
<1>3. \A t, x : remove(t, x) = rem[t][x]
  BY DEF remove, Trees, MaxHeight
<1> HIDE DEF N, c, val, rhs
<1>4. 0 \in S
  <2> DEFINE f == [t \in Tree[0] |-> c]
  <2>1. \A t \in Tree[0] : rhs(f, t) = c
    BY <1>2, TreeLevels
  <2>2. \E g : Solves(g, 0)
    <3>1. f = [t \in Tree[0] |-> rhs(f, t)]
      BY <2>1
    <3>2. QED
      BY <3>1
  <2>3. QED
    BY <1>1, <2>2
<1>5. ASSUME NEW n \in 0..(N - 1), n \in S PROVE n + 1 \in S
  <2>1. PICK f : Solves(f, n)
    BY <1>5
  <2> DEFINE g == [t \in Tree[n + 1] |-> rhs(f, t)]
  <2>2. n + 1 \in 1..N /\ (n + 1) - 1 = n /\ n + 1 \in 0..N
    BY <1>1
  <2>3. Tree[n + 1] = {NULL} \cup NodesOver(Tree[n]) /\ Tree[n] \subseteq Tree[n + 1]
    <3>1. Tree[n + 1] = {NULL} \cup NodesOver(Tree[n])
      BY <2>2, TreeLevels DEF N
    <3>2. Tree[(n + 1) - 1] \subseteq Tree[n + 1]
      BY <2>2, TreesGrow DEF N
    <3>3. QED
      BY <2>2, <3>1, <3>2
  <2>4. \A t \in Tree[n] : f[t] = rhs(f, t)
    BY <2>1
  <2>5. \A t \in Tree[n] : g[t] = f[t]
    <3> HIDE DEF Solves
    <3>1. QED
      BY <2>3, <2>4
  <2> HIDE DEF Solves
  <2>6. ASSUME NEW t \in Tree[n + 1] PROVE rhs(f, t) = rhs(g, t)
    <3>1. CASE t = NULL
      BY <1>2, <3>1
    <3>2. CASE t # NULL
      <4>1. t \in NodesOver(Tree[n])
        BY <2>3, <3>2
      <4>2. t.link[0] \in Tree[n] /\ t.link[1] \in Tree[n]
        BY <4>1, NodeFields
      <4> HIDE DEF g
      <4>3. QED
        BY <1>2, <2>5, <4>2
    <3>3. QED
      BY <3>1, <3>2
  <2>7. g = [t \in Tree[n + 1] |-> rhs(g, t)]
    BY <2>6
  <2>8. \E h : Solves(h, n + 1)
    <3> HIDE DEF g
    <3>1. QED
      BY <2>7 DEF Solves
  <2>9. QED
    BY <2>2, <2>8
<1>6. 0..N \subseteq S
  <2> HIDE DEF S
  <2>1. QED
    BY <1>1, <1>4, <1>5, InductionUpTo
<1>7. \A t \in Trees : rem[t] = rhs(rem, t)
  <2>1. N \in 0..N
    BY <1>1
  <2>2. \E f : Solves(f, N)
    BY <1>6, <2>1
  <2>3. Solves(rem, N)
    <3> HIDE DEF Solves
    <3>1. QED
      BY <2>2
  <2> HIDE DEF rem
  <2>4. QED
    BY <1>1, <2>3
<1> HIDE DEF rem
<1>8. ASSUME NEW t \in Trees, NEW x \in Int
      PROVE  rem[t][x] = IF t = NULL THEN none
                         ELSE IF low(t, x) THEN leaf(t)
                         ELSE Removed(top(t, x), dir(t, x), rem[t.link[dir(t, x)]][e(t, x)])
  <2> HIDE DEF none, low, leaf, top, dir, e
  <2>1. QED
    BY <1>7 DEF rhs
<1>9. \A x \in Int : remove(NULL, x) = [root |-> NULL, done |-> FALSE, uf |-> << >>]
  BY <1>3, <1>8, TreeNodes
<1>10. ASSUME NEW t \in Trees, NEW x \in Int, t # NULL
       PROVE  remove(t, x) =
                IF low(t, x) THEN leaf(t)
                ELSE Removed(top(t, x), dir(t, x), remove(t.link[dir(t, x)], e(t, x)))
  <2> HIDE DEF none, low, leaf, top, dir, e
  <2>1. QED
    BY <1>3, <1>8, <1>10
<1>11. QED
  BY <1>9, <1>10
-----------------------------------------------------------------------------
(* The elements of a tree; x on the side d of y; the balance of a node     *)
(* with subtrees of heights h on the side d and k on the other one.        *)
ElementsOf(t) == {n.element : n \in Nodes(t)}
Beside(d, x, y) == IF d = 0 THEN x < y ELSE x > y
Tilt(d, h, k) == IF d = 1 THEN h - k ELSE k - h
Higher(h, k) == IF h > k THEN h ELSE k

(* A tree ordered as a search tree, and balanced as its nodes say.         *)
Avl(t) ==
  \A n \in Nodes(t) :
    /\ n.balance = Height(n.link[1]) - Height(n.link[0]) /\ n.balance \in -1..1
    /\ \A x \in ElementsOf(n.link[0]) : Beside(0, x, n.element)
    /\ \A x \in ElementsOf(n.link[1]) : Beside(1, x, n.element)

(* A node with the subtree x on the side d and y on the other one.         *)
Node(e, b, d, x, y) ==
  [element |-> e, balance |-> b, link |-> [s \in 0..1 |-> IF s = d THEN x ELSE y]]

LEMMA NodeIs ==
  ASSUME NEW d \in 0..1, NEW e, NEW b, NEW x, NEW y
  PROVE  /\ 1 - d \in 0..1 /\ 1 - (1 - d) = d /\ d # 1 - d
         /\ Node(e, b, d, x, y).element = e /\ Node(e, b, d, x, y).balance = b
         /\ Node(e, b, d, x, y).link[d] = x /\ Node(e, b, d, x, y).link[1 - d] = y
         /\ Node(e, b, d, x, y) = Node(e, b, 1 - d, y, x)
<1>1. d = 0 \/ d = 1
  OBVIOUS
<1>2. 1 - d \in 0..1 /\ 1 - (1 - d) = d /\ d # 1 - d
  BY <1>1
<1>3. \A s \in 0..1 : s = d \/ s = 1 - d
  BY <1>1
<1>4. QED
  BY <1>2, <1>3 DEF Node

LEMMA TreeIsNode ==
  ASSUME NEW t \in Trees, t # NULL, NEW d \in 0..1
  PROVE  /\ t = Node(t.element, t.balance, d, t.link[d], t.link[1 - d])
         /\ t.element \in Int /\ t.balance \in Int
         /\ t.link[d] \in Trees /\ t.link[1 - d] \in Trees
<1>1. t \in NodesOver(Trees) /\ 1 - d \in 0..1 /\ d # 1 - d
  BY TreeNodes, NodeIs
<1>2. /\ t.element \in Int /\ t.balance \in Int /\ t.link \in [0..1 -> Trees]
      /\ t = [element |-> t.element, balance |-> t.balance, link |-> t.link]
  BY <1>1, NodeFields
<1>3. \A s \in 0..1 : s = d \/ s = 1 - d
  OBVIOUS
<1>4. t.link = [s \in 0..1 |-> IF s = d THEN t.link[d] ELSE t.link[1 - d]]
  BY <1>1, <1>2, <1>3
<1>5. QED
  BY <1>1, <1>2, <1>4 DEF Node

(* The height of a tree is the least that it is a tree of.                 *)
LEMMA Heights ==
  /\ \A t \in Trees : Height(t) \in 0..MaxHeight /\ (Height(t) = 0 <=> t = NULL)
  /\ \A k \in 0..MaxHeight : \A t \in Trees : Height(t) <= k => t \in Tree[k]
<1> DEFINE N == MaxHeight
           S == {n \in 0..N : \A t \in Tree[n] : Height(t) <= n}
           R == {t \in Trees : \A k \in 0..N : Height(t) <= k => t \in Tree[k]}
<1>1. N \in Nat /\ Trees = Tree[N]
  BY MaxHeightIs DEF Trees, MaxHeight
<1> HIDE DEF N
<1>2. 0 \in S
  BY <1>1, TreeLevels, HeightIs
<1>3. ASSUME NEW n \in 0..(N - 1), n \in S PROVE n + 1 \in S
  <2>1. n + 1 \in 1..N /\ (n + 1) - 1 = n /\ n + 1 \in 0..N
    BY <1>1
  <2>2. /\ Tree[n + 1] = {NULL} \cup NodesOver(Tree[n]) /\ Tree[n + 1] \subseteq Trees
        /\ Tree[n] \subseteq Trees
    BY <2>1, TreeLevels, TreesGrow DEF N
  <2>3. ASSUME NEW t \in Tree[n + 1] PROVE Height(t) <= n + 1
    <3>1. CASE t = NULL
      BY <3>1, HeightIs
    <3>2. CASE t # NULL
      <4>1. t.link[0] \in Tree[n] /\ t.link[1] \in Tree[n]
        BY <2>2, <3>2, NodeFields
      <4>2. Height(t.link[0]) <= n /\ Height(t.link[1]) <= n
        BY <1>3, <4>1
      <4>3. Height(t.link[0]) \in Nat /\ Height(t.link[1]) \in Nat
        BY <2>2, <4>1, HeightIs
      <4>4. Height(t) = 1 + (IF Height(t.link[0]) > Height(t.link[1])
                             THEN Height(t.link[0]) ELSE Height(t.link[1]))
        BY <2>2, <3>2, HeightIs
      <4>5. QED
        BY <4>2, <4>3, <4>4
    <3>3. QED
      BY <3>1, <3>2
  <2>4. QED
    BY <2>1, <2>3
<1>4. 0..N \subseteq S
  <2> HIDE DEF S
  <2>1. QED
    BY <1>1, <1>2, <1>3, InductionUpTo
<1>5. ASSUME NEW t \in Trees PROVE Height(t) \in 0..N
  <2>1. N \in S /\ Height(t) \in Nat
    BY <1>1, <1>4, HeightIs
  <2>2. QED
    BY <1>1, <2>1
<1>6. NULL \in R
  BY TreesGrow, TreeNodes DEF N
<1>7. ASSUME NEW t \in Trees, t # NULL, t.link[0] \in R, t.link[1] \in R PROVE t \in R
  <2> DEFINE l == t.link[0]
             r == t.link[1]
  <2>1. /\ l \in Trees /\ r \in Trees /\ Height(l) \in Nat /\ Height(r) \in Nat
        /\ Height(t) = 1 + (IF Height(l) > Height(r) THEN Height(l) ELSE Height(r))
    BY <1>7, HeightIs
  <2>2. ASSUME NEW k \in 0..N, Height(t) <= k PROVE t \in Tree[k]
    <3> HIDE DEF l, r
    <3>1. k \in 1..N /\ k - 1 \in 0..N /\ Height(l) <= k - 1 /\ Height(r) <= k - 1
      BY <1>1, <2>1, <2>2
    <3>2. l \in Tree[k - 1] /\ r \in Tree[k - 1]
      BY <1>7, <3>1 DEF l, r
    <3>3. \A d \in 0..1 : t.link[d] \in Tree[k - 1]
      BY <3>2 DEF l, r
    <3>4. t \in NodesOver(Trees)
      BY <1>7, TreeNodes
    <3>5. t \in NodesOver(Tree[k - 1])
      BY <3>3, <3>4 DEF NodesOver
    <3>6. QED
      BY <3>1, <3>5, TreeLevels DEF N
  <2>3. QED
    BY <2>2
<1>8. Trees \subseteq R
  <2> HIDE DEF R
  <2>1. QED
    BY <1>6, <1>7, TreeInduction
<1>9. \A t \in Trees : Height(t) = 0 <=> t = NULL
  BY HeightIs, Subtrees
<1>10. QED
  BY <1>5, <1>8, <1>9 DEF N

(* A new node over two trees, if it is not too high.                       *)
LEMMA NewTree ==
  ASSUME NEW d \in 0..1, NEW e \in Int, NEW b \in Int, NEW x \in Trees, NEW y \in Trees,
         Higher(Height(x), Height(y)) < MaxHeight
  PROVE  LET t == Node(e, b, d, x, y)
         IN  /\ t \in Trees /\ t # NULL
             /\ Height(t) = 1 + Higher(Height(x), Height(y))
             /\ Nodes(t) = {t} \cup Nodes(x) \cup Nodes(y)
             /\ ElementsOf(t) = {e} \cup ElementsOf(x) \cup ElementsOf(y)
<1> DEFINE t == Node(e, b, d, x, y)
           N == MaxHeight
<1>1. /\ t.element = e /\ t.link[d] = x /\ t.link[1 - d] = y /\ 1 - d \in 0..1
      /\ \A s \in 0..1 : s = d \/ s = 1 - d
  BY NodeIs
<1>2. (d = 0 /\ 1 - d = 1) \/ (d = 1 /\ 1 - d = 0)
  OBVIOUS
<1>3. t \in NodesOver(Trees)
  BY DEF Node, NodesOver
<1>4. t \in Trees /\ t # NULL
  <2>1. N \in Nat /\ Trees = Tree[N] /\ Height(x) \in 0..N /\ Height(y) \in 0..N
    BY MaxHeightIs, Heights DEF Trees, MaxHeight
  <2>2. N \in 1..N /\ N - 1 \in 0..N /\ Height(x) <= N - 1 /\ Height(y) <= N - 1
    <3> HIDE DEF N
    <3>1. QED
      BY <2>1 DEF Higher, N
  <2>3. x \in Tree[N - 1] /\ y \in Tree[N - 1]
    BY <2>2, Heights
  <2>4. t \in NodesOver(Tree[N - 1])
    BY <2>3 DEF Node, NodesOver
  <2>5. t \in Tree[N]
    BY <2>2, <2>4, TreeLevels
  <2>6. QED
    BY <1>3, <2>1, <2>5, TreeNodes
<1> HIDE DEF t
<1>5. /\ Height(t) = 1 + Higher(Height(x), Height(y))
      /\ Nodes(t) = {t} \cup Nodes(x) \cup Nodes(y)
  <2>1. Height(x) \in Nat /\ Height(y) \in Nat
    BY HeightIs
  <2>2. /\ Height(t) = 1 + Higher(Height(t.link[0]), Height(t.link[1]))
        /\ Nodes(t) = {t} \cup Nodes(t.link[0]) \cup Nodes(t.link[1])
    BY <1>4, HeightIs, NodesIs DEF Higher
  <2>3. Higher(Height(x), Height(y)) = Higher(Height(y), Height(x))
    BY <2>1 DEF Higher
  <2>4. QED
    BY <1>1, <1>2, <2>2, <2>3
<1>6. ElementsOf(t) = {e} \cup ElementsOf(x) \cup ElementsOf(y)
  BY <1>1, <1>5 DEF ElementsOf
<1>7. QED
  BY <1>4, <1>5, <1>6 DEF t

(* The elements of a set are all on the side d of an element.              *)
AllBeside(d, E, e) == \A x \in E : Beside(d, x, e)

(* t is an AVL tree of height h with the elements E.                       *)
Shape(t, h, E) == t \in Trees /\ Avl(t) /\ Height(t) = h /\ ElementsOf(t) = E

LEMMA ElementsType ==
  \A t \in Trees : ElementsOf(t) \subseteq Int /\ Nodes(t) \subseteq Trees \ {NULL}
<1> DEFINE S == {t \in Trees : Nodes(t) \subseteq Trees \ {NULL}}
<1>1. NULL \in S
  BY NodesIs, TreeNodes
<1>2. \A t \in Trees : t # NULL /\ t.link[0] \in S /\ t.link[1] \in S => t \in S
  BY NodesIs
<1>3. Trees \subseteq S
  <2> HIDE DEF S
  <2>1. QED
    BY <1>1, <1>2, TreeInduction
<1>4. QED
  BY <1>3, Children DEF ElementsOf

LEMMA EmptyShape == Shape(NULL, 0, {})
BY NodesIs, HeightIs, TreeNodes DEF Shape, Avl, ElementsOf

(* An AVL tree is built of two by a node with the difference of their      *)
(* heights, between their elements.                                        *)
LEMMA Build ==
  ASSUME NEW d \in 0..1, NEW e \in Int, NEW b,
         NEW x, NEW h, NEW X, Shape(x, h, X), NEW y, NEW k, NEW Y, Shape(y, k, Y),
         b = Tilt(d, h, k), b \in -1..1, AllBeside(d, X, e), AllBeside(1 - d, Y, e),
         Higher(h, k) < MaxHeight
  PROVE  Shape(Node(e, b, d, x, y), 1 + Higher(h, k), {e} \cup X \cup Y)
<1> DEFINE t == Node(e, b, d, x, y)
<1>1. /\ x \in Trees /\ Avl(x) /\ Height(x) = h /\ ElementsOf(x) = X
      /\ y \in Trees /\ Avl(y) /\ Height(y) = k /\ ElementsOf(y) = Y
      /\ h \in Nat /\ k \in Nat
  BY HeightIs DEF Shape
<1>2. /\ t \in Trees /\ Height(t) = 1 + Higher(h, k) /\ ElementsOf(t) = {e} \cup X \cup Y
      /\ Nodes(t) = {t} \cup Nodes(x) \cup Nodes(y)
  BY <1>1, NewTree
<1>3. /\ t.element = e /\ t.balance = b /\ t.link[d] = x /\ t.link[1 - d] = y
  BY NodeIs
<1>4. (d = 0 /\ 1 - d = 1) \/ (d = 1 /\ 1 - d = 0)
  OBVIOUS
<1> HIDE DEF t
<1>5. /\ t.balance = Height(t.link[1]) - Height(t.link[0]) /\ t.balance \in -1..1
      /\ \A z \in ElementsOf(t.link[0]) : Beside(0, z, t.element)
      /\ \A z \in ElementsOf(t.link[1]) : Beside(1, z, t.element)
  BY <1>1, <1>3, <1>4 DEF Tilt, AllBeside
<1>6. Avl(t)
  BY <1>1, <1>2, <1>5 DEF Avl
<1>7. QED
  BY <1>2, <1>6 DEF Shape, t

(* What an AVL tree is built of.                                           *)
LEMMA Split ==
  ASSUME NEW t \in Trees, t # NULL, Avl(t), NEW d \in 0..1
  PROVE  LET x == t.link[d]
             y == t.link[1 - d]
         IN  /\ x \in Trees /\ Avl(x) /\ y \in Trees /\ Avl(y)
             /\ Height(x) \in Nat /\ Height(y) \in Nat
             /\ Height(t) = 1 + Higher(Height(x), Height(y)) /\ Height(t) <= MaxHeight
             /\ t.balance = Tilt(d, Height(x), Height(y)) /\ t.balance \in -1..1
             /\ t.element \in Int /\ t = Node(t.element, t.balance, d, x, y)
             /\ ElementsOf(t) = {t.element} \cup ElementsOf(x) \cup ElementsOf(y)
             /\ AllBeside(d, ElementsOf(x), t.element)
             /\ AllBeside(1 - d, ElementsOf(y), t.element)
<1>1. (d = 0 /\ 1 - d = 1) \/ (d = 1 /\ 1 - d = 0)
  OBVIOUS
<1> DEFINE l == t.link[0]
           r == t.link[1]
<1>2. /\ l \in Trees /\ r \in Trees /\ Height(l) \in Nat /\ Height(r) \in Nat
      /\ Nodes(t) = {t} \cup Nodes(l) \cup Nodes(r)
      /\ Height(t) = 1 + Higher(Height(l), Height(r)) /\ Height(t) <= MaxHeight
  BY Subtrees, NodesIs, HeightIs, Heights DEF Higher
<1>3. Avl(l) /\ Avl(r)
  BY <1>2 DEF Avl
<1>4. /\ t.balance = Height(r) - Height(l) /\ t.balance \in -1..1
      /\ AllBeside(0, ElementsOf(l), t.element) /\ AllBeside(1, ElementsOf(r), t.element)
  <2>1. t \in Nodes(t)
    BY <1>2
  <2>2. QED
    BY <2>1 DEF Avl, AllBeside
<1>5. ElementsOf(t) = {t.element} \cup ElementsOf(l) \cup ElementsOf(r)
  BY <1>2 DEF ElementsOf
<1>6. t = Node(t.element, t.balance, d, t.link[d], t.link[1 - d]) /\ t.element \in Int
  BY TreeIsNode
<1> HIDE DEF l, r
<1>7. CASE d = 0
  <2>1. t.link[d] = l /\ t.link[1 - d] = r /\ 1 - d = 1
    BY <1>1, <1>7 DEF l, r
  <2>2. t.balance = Tilt(d, Height(l), Height(r))
    BY <1>4, <1>7 DEF Tilt
  <2>3. QED
    BY <1>2, <1>3, <1>4, <1>5, <1>6, <1>7, <2>1, <2>2
<1>8. CASE d = 1
  <2>1. t.link[d] = r /\ t.link[1 - d] = l /\ 1 - d = 0
    BY <1>1, <1>8 DEF l, r
  <2>2. t.balance = Tilt(d, Height(r), Height(l))
    BY <1>4, <1>8 DEF Tilt
  <2>3. Higher(Height(l), Height(r)) = Higher(Height(r), Height(l))
    BY <1>2 DEF Higher
  <2>4. QED
    BY <1>2, <1>3, <1>4, <1>5, <1>6, <1>8, <2>1, <2>2, <2>3
<1>9. QED
  BY <1>1, <1>7, <1>8
-----------------------------------------------------------------------------
(* Assignments to the fields of a node, and what they make of it.          *)
WithLink(t, d, x) == [t EXCEPT !.link[d] = x]
WithBalance(t, b) == [t EXCEPT !.balance = b]
WithElement(t, e) == [t EXCEPT !.element = e]

LEMMA Assigned ==
  ASSUME NEW d \in 0..1, NEW e, NEW b, NEW x, NEW y, NEW z
  PROVE  /\ WithLink(Node(e, b, d, x, y), d, z) = Node(e, b, d, z, y)
         /\ WithLink(Node(e, b, d, x, y), 1 - d, z) = Node(e, b, d, x, z)
         /\ WithBalance(Node(e, b, d, x, y), z) = Node(e, z, d, x, y)
         /\ WithElement(Node(e, b, d, x, y), z) = Node(z, b, d, x, y)
<1>1. 1 - d \in 0..1 /\ d # 1 - d /\ \A s \in 0..1 : s = d \/ s = 1 - d
  OBVIOUS
<1> DEFINE lk == [s \in 0..1 |-> IF s = d THEN x ELSE y]
<1>2. /\ [lk EXCEPT ![d] = z] = [s \in 0..1 |-> IF s = d THEN z ELSE y]
      /\ [lk EXCEPT ![1 - d] = z] = [s \in 0..1 |-> IF s = d THEN x ELSE z]
  BY <1>1
<1> HIDE DEF lk
<1>3. Node(e, b, d, x, y) = [element |-> e, balance |-> b, link |-> lk]
  BY DEF Node, lk
<1>4. QED
  BY <1>2, <1>3 DEF Node, WithLink, WithBalance, WithElement

LEMMA RotationSteps ==
  ASSUME NEW r, NEW d
  PROVE  /\ singleRotate(r, d) =
              LET save == r.link[1 - d] IN WithLink(save, d, WithLink(r, 1 - d, save.link[d]))
         /\ doubleRotate(r, d) =
              LET n == r.link[1 - d]
                  save == n.link[d]
              IN  WithLink(WithLink(save, 1 - d, WithLink(n, d, save.link[1 - d])), d,
                           WithLink(r, 1 - d, save.link[d]))
BY DEF singleRotate, doubleRotate, WithLink

LEMMA SingleRotation ==
  ASSUME NEW d \in 0..1, NEW e, NEW f, NEW m, NEW n, NEW x, NEW y, NEW z
  PROVE  singleRotate(Node(e, m, d, Node(f, n, d, x, y), z), 1 - d)
         = Node(f, n, d, x, Node(e, m, d, y, z))
<1> DEFINE save == Node(f, n, d, x, y)
           r == Node(e, m, d, save, z)
<1>1. 1 - d \in 0..1 /\ 1 - (1 - d) = d
  BY NodeIs
<1>2. r.link[d] = save /\ save.link[1 - d] = y
  BY NodeIs
<1>3. /\ WithLink(r, d, y) = Node(e, m, d, y, z)
      /\ WithLink(save, 1 - d, Node(e, m, d, y, z)) = Node(f, n, d, x, Node(e, m, d, y, z))
  BY Assigned
<1> HIDE DEF save, r
<1>4. singleRotate(r, 1 - d) = WithLink(save, 1 - d, WithLink(r, d, y))
  BY <1>1, <1>2, RotationSteps
<1>5. QED
  BY <1>3, <1>4 DEF save, r

LEMMA DoubleRotation ==
  ASSUME NEW d \in 0..1, NEW e, NEW f, NEW g, NEW m, NEW n, NEW k,
         NEW w, NEW x, NEW y, NEW z
  PROVE  doubleRotate(Node(e, m, d, Node(f, n, d, w, Node(g, k, d, x, y)), z), 1 - d)
         = Node(g, k, d, Node(f, n, d, w, x), Node(e, m, d, y, z))
<1> DEFINE save == Node(g, k, d, x, y)
           low == Node(f, n, d, w, save)
           r == Node(e, m, d, low, z)
           outer == Node(f, n, d, w, x)
           inner == Node(e, m, d, y, z)
<1>1. 1 - d \in 0..1 /\ 1 - (1 - d) = d
  BY NodeIs
<1>2. /\ r.link[d] = low /\ low.link[1 - d] = save
      /\ save.link[d] = x /\ save.link[1 - d] = y
  BY NodeIs
<1>3. /\ WithLink(low, 1 - d, x) = outer /\ WithLink(r, d, y) = inner
      /\ WithLink(save, d, outer) = Node(g, k, d, outer, y)
      /\ WithLink(Node(g, k, d, outer, y), 1 - d, inner) = Node(g, k, d, outer, inner)
  BY Assigned
<1> HIDE DEF save, r, low, outer, inner
<1>4. doubleRotate(r, 1 - d)
      = WithLink(WithLink(save, d, WithLink(low, 1 - d, x)), 1 - d, WithLink(r, d, y))
  BY <1>1, <1>2, RotationSteps
<1>5. QED
  BY <1>3, <1>4 DEF save, r, low, outer, inner

(* Balances of a node and of the one at its link d, and of one below.      *)
WithBalances(r, d, p, q) == [r EXCEPT !.balance = p, !.link[d].balance = q]
WithThreeBalances(r, d, s, p, q, v) ==
  [r EXCEPT !.balance = p, !.link[d].balance = q, !.link[d].link[s].balance = v]

BalanceSteps(r, d, p, q) ==
  LET t == WithBalance(r, p) IN WithLink(t, d, WithBalance(t.link[d], q))
ThreeBalanceSteps(r, d, s, p, q, v) ==
  LET t == WithBalance(r, p)
      u == WithLink(t, d, WithBalance(t.link[d], q))
  IN  WithLink(u, d, WithLink(u.link[d], s, WithBalance(u.link[d].link[s], v)))

LEMMA Balanced ==
  ASSUME NEW r, NEW d, NEW s, NEW p, NEW q, NEW v
  PROVE  /\ WithBalances(r, d, p, q) = BalanceSteps(r, d, p, q)
         /\ WithThreeBalances(r, d, s, p, q, v) = ThreeBalanceSteps(r, d, s, p, q, v)
BY DEF WithLink, WithBalance, WithBalances, WithThreeBalances, BalanceSteps, ThreeBalanceSteps

LEMMA BalancedNode ==
  ASSUME NEW d \in 0..1, NEW e, NEW f, NEW m, NEW n, NEW p, NEW q, NEW x, NEW y, NEW z
  PROVE  WithBalances(Node(e, m, d, Node(f, n, d, x, y), z), d, p, q)
         = Node(e, p, d, Node(f, q, d, x, y), z)
<1> DEFINE low == Node(f, n, d, x, y)
           r == Node(e, m, d, low, z)
           t == Node(e, p, d, low, z)
           new == Node(f, q, d, x, y)
<1>1. WithBalance(r, p) = t /\ WithBalance(low, q) = new /\ t.link[d] = low
  BY Assigned, NodeIs
<1>2. WithLink(t, d, new) = Node(e, p, d, new, z)
  BY Assigned
<1> HIDE DEF low, r, t, new
<1>3. WithBalances(r, d, p, q) = BalanceSteps(r, d, p, q)
  BY Balanced
<1>4. BalanceSteps(r, d, p, q) = WithLink(t, d, new)
  BY <1>1 DEF BalanceSteps
<1>5. QED
  BY <1>2, <1>3, <1>4 DEF r, low, new

LEMMA AdjustedNode ==
  ASSUME NEW d \in 0..1, NEW e, NEW f, NEW g, NEW m, NEW n, NEW k,
         NEW w, NEW x, NEW y, NEW z, NEW bal
  PROVE  adjustBalance(Node(e, m, d, Node(f, n, d, w, Node(g, k, d, x, y)), z), d, bal)
         = Node(e, IF k = bal THEN -bal ELSE 0, d,
                Node(f, IF k = -bal THEN bal ELSE 0, d, w, Node(g, 0, d, x, y)), z)
<1> DEFINE nn == Node(g, k, d, x, y)
           n0 == Node(f, n, d, w, nn)
           r == Node(e, m, d, n0, z)
           rb == IF k = bal THEN -bal ELSE 0
           nb == IF k = -bal THEN bal ELSE 0
           flat == Node(g, 0, d, x, y)
           n1 == Node(f, nb, d, w, nn)
           n2 == Node(f, nb, d, w, flat)
           t == Node(e, rb, d, n0, z)
           u == Node(e, rb, d, n1, z)
<1>1. r.link[d] = n0 /\ n0.link[1 - d] = nn /\ nn.balance = k
  BY NodeIs
<1>2. /\ WithBalance(r, rb) = t /\ t.link[d] = n0 /\ WithBalance(n0, nb) = n1
      /\ WithLink(t, d, n1) = u /\ u.link[d] = n1 /\ n1.link[1 - d] = nn
      /\ WithBalance(nn, 0) = flat /\ WithLink(n1, 1 - d, flat) = n2
  <2> HIDE DEF rb, nb
  <2>1. QED
    BY Assigned, NodeIs
<1>3. WithLink(u, d, n2) = Node(e, rb, d, n2, z)
  BY Assigned
<1> HIDE DEF nn, n0, r, rb, nb, flat, n1, n2, t, u
<1>4. adjustBalance(r, d, bal)
      = WithThreeBalances(r, d, 1 - d, rb, nb, 0)
  BY <1>1 DEF adjustBalance, WithThreeBalances, rb, nb
<1>5. WithThreeBalances(r, d, 1 - d, rb, nb, 0) = ThreeBalanceSteps(r, d, 1 - d, rb, nb, 0)
  BY Balanced
<1>6. adjustBalance(r, d, bal) = Node(e, rb, d, n2, z)
  BY <1>2, <1>3, <1>4, <1>5 DEF ThreeBalanceSteps
<1>7. QED
  BY <1>6 DEF r, n0, nn, rb, nb, n2, flat

LEMMA SignIs ==
  ASSUME NEW d \in 0..1
  PROVE  /\ Sign(d) \in {-1, 1} /\ -Sign(d) # Sign(d) /\ -(-Sign(d)) = Sign(d)
         /\ Sign(1 - d) = -Sign(d) /\ (Sign(d) = -1 => -Sign(d) = 1)
<1>1. Sign(0) = -1 /\ Sign(1) = 1
  BY DEF Sign
<1>2. (d = 0 /\ 1 - d = 1) \/ (d = 1 /\ 1 - d = 0)
  OBVIOUS
<1>3. QED
  BY <1>1, <1>2

(* What is left of a node that leans to the side d, and of the one there.  *)
Single(d, e, f, p, q, x, y, z) == Node(f, q, d, x, Node(e, p, d, y, z))
Double(d, e, f, g, k, w, x, y, z) ==
  Node(g, 0, d, Node(f, IF k = -Sign(d) THEN Sign(d) ELSE 0, d, w, x),
                Node(e, IF k = Sign(d) THEN -Sign(d) ELSE 0, d, y, z))

RepairFacts(d, e, f, g, m, n, k, w, x, y, z) ==
  LET one == Node(e, m, d, Node(f, n, d, x, y), z)
      two == Node(e, m, d, Node(f, n, d, w, Node(g, k, d, x, y)), z)
  IN  /\ n = Sign(d) => insertBalance(one, d) = Single(d, e, f, 0, 0, x, y, z)
      /\ n # Sign(d) => insertBalance(two, d) = Double(d, e, f, g, k, w, x, y, z)
      /\ n = Sign(d) => removeBalance(one, 1 - d) =
           [root |-> Single(d, e, f, 0, 0, x, y, z), done |-> FALSE]
      /\ n = -Sign(d) => removeBalance(two, 1 - d) =
           [root |-> Double(d, e, f, g, k, w, x, y, z), done |-> FALSE]
      /\ n \notin {Sign(d), -Sign(d)} => removeBalance(one, 1 - d) =
           [root |-> Single(d, e, f, Sign(d), -Sign(d), x, y, z), done |-> TRUE]

LEMMA Repairs ==
  ASSUME NEW d \in 0..1, NEW e, NEW f, NEW g, NEW m, NEW n, NEW k,
         NEW w, NEW x, NEW y, NEW z
  PROVE  RepairFacts(d, e, f, g, m, n, k, w, x, y, z)
<1> DEFINE low1 == Node(f, n, d, x, y)
           low2 == Node(f, n, d, w, Node(g, k, d, x, y))
           one == Node(e, m, d, low1, z)
           two == Node(e, m, d, low2, z)
<1>1. 1 - d \in 0..1 /\ 1 - (1 - d) = d
  BY NodeIs
<1>2. one.link[d].balance = n /\ two.link[d].balance = n
  BY NodeIs
<1>3. ASSUME NEW p, NEW q
      PROVE  singleRotate(WithBalances(one, d, p, q), 1 - d) = Single(d, e, f, p, q, x, y, z)
  BY BalancedNode, SingleRotation DEF Single
<1>4. doubleRotate(adjustBalance(two, d, Sign(d)), 1 - d) = Double(d, e, f, g, k, w, x, y, z)
  <2> DEFINE rb == IF k = Sign(d) THEN -Sign(d) ELSE 0
             nb == IF k = -Sign(d) THEN Sign(d) ELSE 0
  <2>1. adjustBalance(two, d, Sign(d)) = Node(e, rb, d, Node(f, nb, d, w, Node(g, 0, d, x, y)), z)
    BY AdjustedNode
  <2> HIDE DEF rb, nb
  <2>2. doubleRotate(Node(e, rb, d, Node(f, nb, d, w, Node(g, 0, d, x, y)), z), 1 - d)
        = Node(g, 0, d, Node(f, nb, d, w, x), Node(e, rb, d, y, z))
    BY DoubleRotation
  <2>3. QED
    BY <2>1, <2>2 DEF Double, rb, nb
<1> HIDE DEF one, two
<1>5. /\ n = Sign(d) => insertBalance(one, d) = singleRotate(WithBalances(one, d, 0, 0), 1 - d)
      /\ n # Sign(d) =>
           insertBalance(two, d) = doubleRotate(adjustBalance(two, d, Sign(d)), 1 - d)
  BY <1>2 DEF insertBalance, WithBalances
<1>6. LET s == Sign(1 - d)
      IN  /\ n = -s => removeBalance(one, 1 - d) =
               [root |-> singleRotate(WithBalances(one, 1 - (1 - d), 0, 0), 1 - d), done |-> FALSE]
          /\ n # -s /\ n = s => removeBalance(two, 1 - d) =
               [root |-> doubleRotate(adjustBalance(two, 1 - (1 - d), -s), 1 - d), done |-> FALSE]
          /\ n # -s /\ n # s => removeBalance(one, 1 - d) =
               [root |-> singleRotate(WithBalances(one, 1 - (1 - d), -s, s), 1 - d), done |-> TRUE]
  <2> DEFINE s == Sign(1 - d)
             u == 1 - (1 - d)
  <2>1. one.link[u].balance = n /\ two.link[u].balance = n
    BY <1>1, <1>2
  <2>2. ASSUME NEW r, r.link[u].balance = n
        PROVE  removeBalance(r, 1 - d) =
                 IF n = -s
                 THEN [root |-> singleRotate(WithBalances(r, u, 0, 0), 1 - d), done |-> FALSE]
                 ELSE IF n = s
                 THEN [root |-> doubleRotate(adjustBalance(r, u, -s), 1 - d), done |-> FALSE]
                 ELSE [root |-> singleRotate(WithBalances(r, u, -s, s), 1 - d), done |-> TRUE]
    <3> -s # s
      BY <1>1, SignIs
    <3>1. CASE n = -s
      BY <2>2, <3>1 DEF removeBalance, WithBalances
    <3>2. CASE n # -s /\ n = s
      BY <2>2, <3>2 DEF removeBalance, WithBalances
    <3>3. CASE n # -s /\ n # s
      BY <2>2, <3>3 DEF removeBalance, WithBalances
    <3>4. QED
      BY <3>1, <3>2, <3>3
  <2> HIDE DEF s, u
  <2>3. QED
    BY <2>1, <2>2 DEF s, u
<1>7. Sign(1 - d) = -Sign(d) /\ -(-Sign(d)) = Sign(d) /\ -Sign(d) # Sign(d)
  BY SignIs
<1>8. QED
  BY <1>1, <1>3, <1>4, <1>5, <1>6, <1>7 DEF RepairFacts, one, two

LEMMA Order ==
  ASSUME NEW d \in 0..1, NEW x \in Int, NEW y \in Int
  PROVE  /\ Beside(d, x, y) <=> Beside(1 - d, y, x)
         /\ ~Beside(d, x, x)
         /\ Beside(d, x, y) \/ x = y \/ Beside(1 - d, x, y)
         /\ ~(Beside(d, x, y) /\ Beside(1 - d, x, y))
         /\ \A z \in Int : Beside(d, x, y) /\ Beside(d, y, z) => Beside(d, x, z)
<1>1. d = 0 \/ d = 1
  OBVIOUS
<1>2. QED
  BY <1>1 DEF Beside

(* Elements beside one are beside those further on.                        *)
LEMMA BesideFurther ==
  ASSUME NEW d \in 0..1, NEW E \in SUBSET Int, NEW x \in Int, NEW y \in Int,
         AllBeside(d, E, x), Beside(d, x, y)
  PROVE  AllBeside(d, E, y) /\ AllBeside(d, {x} \cup E, y)
BY Order DEF AllBeside

LEMMA SingleShape ==
  ASSUME NEW d \in 0..1, NEW e \in Int, NEW f \in Int, NEW x, NEW y, NEW z,
         NEW i, NEW j, NEW k, NEW X, NEW Y, NEW Z,
         Shape(x, i, X), Shape(y, j, Y), Shape(z, k, Z),
         Beside(d, f, e), AllBeside(d, X, f), AllBeside(1 - d, Y, f),
         AllBeside(d, Y, e), AllBeside(1 - d, Z, e),
         NEW p, p = Tilt(d, j, k), p \in -1..1,
         NEW q, q = Tilt(d, i, 1 + Higher(j, k)), q \in -1..1,
         Higher(i, 1 + Higher(j, k)) < MaxHeight
  PROVE  Shape(Single(d, e, f, p, q, x, y, z), 1 + Higher(i, 1 + Higher(j, k)),
               {e, f} \cup X \cup Y \cup Z)
<1>1. /\ i \in Nat /\ j \in Nat /\ k \in Nat /\ MaxHeight \in Nat
      /\ X \in SUBSET Int /\ Y \in SUBSET Int /\ Z \in SUBSET Int
  BY HeightIs, MaxHeightIs, ElementsType DEF Shape
<1>2. 1 - d \in 0..1 /\ 1 - (1 - d) = d
  BY NodeIs
<1> DEFINE h == 1 + Higher(j, k)
           low == Node(e, p, d, y, z)
           E == {e} \cup Y \cup Z
<1>3. Shape(low, h, E)
  <2>1. Higher(j, k) < MaxHeight
    BY <1>1 DEF Higher
  <2>2. QED
    BY <2>1, Build
<1>4. AllBeside(1 - d, E, f)
  <2>1. Beside(1 - d, e, f)
    BY <1>2, Order
  <2>2. AllBeside(1 - d, {e} \cup Z, f)
    BY <1>1, <1>2, <2>1, BesideFurther
  <2>3. QED
    BY <2>2 DEF AllBeside
<1> HIDE DEF low, E, h
<1>5. Shape(Node(f, q, d, x, low), 1 + Higher(i, h), {f} \cup X \cup E)
  <2>1. q = Tilt(d, i, h) /\ Higher(i, h) < MaxHeight
    BY DEF h
  <2>2. QED
    BY <1>3, <1>4, <2>1, Build
<1>6. {f} \cup X \cup E = {e, f} \cup X \cup Y \cup Z
  BY DEF E
<1>7. QED
  BY <1>5, <1>6 DEF Single, low, h

LEMMA DoubleShape ==
  ASSUME NEW d \in 0..1, NEW e \in Int, NEW f \in Int, NEW g \in Int,
         NEW w, NEW x, NEW y, NEW z, NEW W, NEW X, NEW Y, NEW Z,
         NEW h \in Nat, NEW i \in Nat, NEW j \in Nat, h + 2 <= MaxHeight,
         Shape(w, h, W), Shape(x, i, X), Shape(y, j, Y), Shape(z, h, Z),
         Higher(i, j) = h, NEW k, k = Tilt(d, i, j), k \in -1..1,
         Beside(d, f, g), Beside(d, g, e),
         AllBeside(d, W, f), AllBeside(1 - d, X, f), AllBeside(d, X, g),
         AllBeside(1 - d, Y, g), AllBeside(d, Y, e), AllBeside(1 - d, Z, e)
  PROVE  Shape(Double(d, e, f, g, k, w, x, y, z), h + 2,
               {e, f, g} \cup W \cup X \cup Y \cup Z)
<1> DEFINE nb == IF k = -Sign(d) THEN Sign(d) ELSE 0
           rb == IF k = Sign(d) THEN -Sign(d) ELSE 0
           low == Node(f, nb, d, w, x)
           high == Node(e, rb, d, y, z)
           L == {f} \cup W \cup X
           H == {e} \cup Y \cup Z
<1>1. 1 - d \in 0..1 /\ 1 - (1 - d) = d /\ MaxHeight \in Nat
  BY NodeIs, MaxHeightIs
<1>2. W \in SUBSET Int /\ X \in SUBSET Int /\ Y \in SUBSET Int /\ Z \in SUBSET Int
  BY ElementsType DEF Shape
<1>3. /\ nb = Tilt(d, h, i) /\ nb \in -1..1 /\ rb = Tilt(d, j, h) /\ rb \in -1..1
      /\ 0 = Tilt(d, h + 1, h + 1) /\ Higher(h, i) = h /\ Higher(j, h) = h
      /\ Higher(h + 1, h + 1) = h + 1 /\ h < MaxHeight /\ h + 1 < MaxHeight
      /\ 1 + h = h + 1 /\ 1 + (h + 1) = h + 2
  <2>1. /\ Higher(h, i) = h /\ Higher(j, h) = h
        /\ Higher(h + 1, h + 1) = h + 1 /\ h < MaxHeight /\ h + 1 < MaxHeight
        /\ 1 + h = h + 1 /\ 1 + (h + 1) = h + 2 /\ i <= h /\ j <= h /\ (i = h \/ j = h)
    BY <1>1 DEF Higher
  <2>2. CASE d = 0
    <3>1. k = j - i /\ Sign(d) = -1
      BY <2>2 DEF Tilt, Sign
    <3>2. nb = i - h /\ rb = h - j /\ nb \in -1..1 /\ rb \in -1..1
      <4>1. j - i = 1 \/ j - i = -1 \/ j = i
        BY <2>1, <3>1
      <4>2. CASE j - i = 1
        <5>1. i - h = -1 /\ h - j = 0
          BY <2>1, <4>2
        <5>2. QED
          BY <3>1, <4>2, <5>1
      <4>3. CASE j - i = -1
        <5>1. i - h = 0 /\ h - j = 1
          BY <2>1, <4>3
        <5>2. -Sign(d) = 1 /\ k = Sign(d)
          BY <3>1, <4>3, SignIs
        <5>3. nb = 0 /\ rb = 1
          BY <3>1, <5>2
        <5>4. QED
          BY <5>1, <5>3
      <4>4. CASE j = i
        <5>1. i - h = 0 /\ h - j = 0 /\ j - i = 0
          BY <2>1, <4>4
        <5>2. QED
          BY <3>1, <5>1
      <4>5. QED
        BY <4>1, <4>2, <4>3, <4>4
    <3>3. nb = Tilt(d, h, i) /\ rb = Tilt(d, j, h) /\ 0 = Tilt(d, h + 1, h + 1)
      BY <2>2, <3>2 DEF Tilt
    <3>4. QED
      BY <2>1, <3>2, <3>3
  <2>3. CASE d = 1
    <3>1. k = i - j /\ Sign(d) = 1
      BY <2>3 DEF Tilt, Sign
    <3>2. nb = h - i /\ rb = j - h /\ nb \in -1..1 /\ rb \in -1..1
      BY <2>1, <3>1
    <3>3. nb = Tilt(d, h, i) /\ rb = Tilt(d, j, h) /\ 0 = Tilt(d, h + 1, h + 1)
      BY <2>3, <3>2 DEF Tilt
    <3>4. QED
      BY <2>1, <3>2, <3>3
  <2>4. QED
    BY <2>2, <2>3
<1> HIDE DEF nb, rb
<1>4. Shape(low, h + 1, L)
  <2>1. Shape(low, 1 + Higher(h, i), L)
    BY <1>3, Build
  <2>2. QED
    BY <1>3, <2>1
<1>5. Shape(high, h + 1, H)
  <2>1. Shape(high, 1 + Higher(j, h), H)
    BY <1>3, Build
  <2>2. QED
    BY <1>3, <2>1
<1>6. AllBeside(d, L, g)
  <2>1. AllBeside(d, {f} \cup W, g)
    BY <1>2, BesideFurther
  <2>2. QED
    BY <2>1 DEF AllBeside
<1>7. AllBeside(1 - d, H, g)
  <2>1. Beside(1 - d, e, g)
    BY Order
  <2>2. AllBeside(1 - d, {e} \cup Z, g)
    BY <1>1, <1>2, <2>1, BesideFurther
  <2>3. QED
    BY <2>2 DEF AllBeside
<1> HIDE DEF low, high, L, H
<1>8. Shape(Node(g, 0, d, low, high), 1 + Higher(h + 1, h + 1), {g} \cup L \cup H)
  <2>1. 0 \in -1..1
    OBVIOUS
  <2>2. QED
    BY <1>3, <1>4, <1>5, <1>6, <1>7, <2>1, Build
<1>9. {g} \cup L \cup H = {e, f, g} \cup W \cup X \cup Y \cup Z
  BY DEF L, H
<1>10. QED
  BY <1>3, <1>8, <1>9 DEF Double, low, high, nb, rb
-----------------------------------------------------------------------------

TiltFacts(d, h, k) ==
  LET t == Tilt(d, h, k)
  IN  /\ t \in Int /\ (t = 0 <=> h = k)
      /\ (t = Sign(d) <=> h = k + 1) /\ (t = -Sign(d) <=> k = h + 1)
      /\ t \in {-1, 1} <=> h = k + 1 \/ k = h + 1
      /\ t \in -1..1 <=> h = k \/ h = k + 1 \/ k = h + 1
      /\ t + Sign(d) = Tilt(d, h + 1, k) /\ t - Sign(d) = Tilt(d, h - 1, k)

LEMMA TiltIs ==
  ASSUME NEW d \in 0..1, NEW h \in Int, NEW k \in Int
  PROVE  TiltFacts(d, h, k)
<1>1. CASE d = 0
  <2>1. Sign(d) = -1 /\ -Sign(d) = 1
    BY <1>1, SignIs DEF Sign
  <2>2. Tilt(d, h, k) = k - h /\ Tilt(d, h + 1, k) = k - (h + 1) /\ Tilt(d, h - 1, k) = k - (h - 1)
    BY <1>1 DEF Tilt
  <2>3. QED
    BY <2>1, <2>2 DEF TiltFacts
<1>2. CASE d = 1
  <2>1. Sign(d) = 1 /\ -Sign(d) = -1
    BY <1>2 DEF Sign
  <2>2. Tilt(d, h, k) = h - k /\ Tilt(d, h + 1, k) = h + 1 - k /\ Tilt(d, h - 1, k) = h - 1 - k
    BY <1>2 DEF Tilt
  <2>3. QED
    BY <2>1, <2>2 DEF TiltFacts
<1>3. QED
  BY <1>1, <1>2

(* A node that leans too far to the side d, repaired after an insertion or *)
(* a removal.                                                              *)
LEMMA Rebalanced ==
  ASSUME NEW d \in 0..1, NEW a \in Int, NEW m, NEW r, NEW z, NEW h \in Nat, NEW R, NEW Z,
         Shape(r, h + 2, R), Shape(z, h, Z), h + 2 <= MaxHeight,
         AllBeside(d, R, a), AllBeside(1 - d, Z, a)
  PROVE  LET t == Node(a, m, d, r, z)
             E == {a} \cup R \cup Z
             s == removeBalance(t, 1 - d)
         IN  /\ r.balance # 0 => /\ Shape(insertBalance(t, d), h + 2, E)
                                 /\ s.done = FALSE /\ Shape(s.root, h + 2, E)
             /\ r.balance = 0 /\ h + 3 <= MaxHeight => s.done = TRUE /\ Shape(s.root, h + 3, E)
<1> DEFINE t == Node(a, m, d, r, z)
           E == {a} \cup R \cup Z
           s == removeBalance(t, 1 - d)
           f == r.element
           n == r.balance
           x == r.link[d]
           y == r.link[1 - d]
           i == Height(x)
           j == Height(y)
           X == ElementsOf(x)
           Y == ElementsOf(y)
<1>1. 1 - d \in 0..1 /\ 1 - (1 - d) = d /\ MaxHeight \in Nat
  BY NodeIs, MaxHeightIs
<1>2. r \in Trees /\ r # NULL /\ Avl(r) /\ Height(r) = h + 2 /\ ElementsOf(r) = R /\ R \in SUBSET Int
  BY HeightIs, ElementsType DEF Shape
<1>3. /\ x \in Trees /\ Avl(x) /\ y \in Trees /\ Avl(y) /\ i \in Nat /\ j \in Nat
      /\ h + 2 = 1 + Higher(i, j) /\ n = Tilt(d, i, j) /\ n \in -1..1
      /\ f \in Int /\ r = Node(f, n, d, x, y) /\ R = {f} \cup X \cup Y
      /\ AllBeside(d, X, f) /\ AllBeside(1 - d, Y, f)
  BY <1>2, Split
<1>4. Shape(x, i, X) /\ Shape(y, j, Y)
  BY <1>3 DEF Shape
<1>5. Beside(d, f, a) /\ AllBeside(d, Y, a) /\ AllBeside(d, X, a)
  BY <1>3 DEF AllBeside
<1> HIDE DEF f, n, x, y, i, j, X, Y, E
<1>6. {a, f} \cup X \cup Y \cup Z = E
  BY <1>3 DEF E
<1>7. /\ (n = 0 <=> i = j) /\ (n = Sign(d) <=> i = j + 1) /\ (n = -Sign(d) <=> j = i + 1)
      /\ (i = j \/ i = j + 1 \/ j = i + 1)
  <2>1. TiltFacts(d, i, j)
    BY <1>3, TiltIs
  <2>2. QED
    BY <1>3, <2>1 DEF TiltFacts
<1>8. CASE n = Sign(d)
  <2>1. i = h + 1 /\ j = h /\ n # 0
    BY <1>3, <1>7, <1>8 DEF Higher
  <2>2. insertBalance(t, d) = Single(d, a, f, 0, 0, x, y, z)
    <3>1. RepairFacts(d, a, f, f, m, n, n, x, x, y, z)
      BY Repairs
    <3>2. QED
      BY <1>3, <1>8, <3>1 DEF RepairFacts
  <2>3. s = [root |-> Single(d, a, f, 0, 0, x, y, z), done |-> FALSE]
    <3>1. RepairFacts(d, a, f, f, m, n, n, x, x, y, z)
      BY Repairs
    <3>2. QED
      BY <1>3, <1>8, <3>1 DEF RepairFacts
  <2>4. /\ 0 = Tilt(d, j, h) /\ 0 = Tilt(d, i, 1 + Higher(j, h)) /\ 0 \in -1..1
        /\ Higher(i, 1 + Higher(j, h)) < MaxHeight /\ 1 + Higher(i, 1 + Higher(j, h)) = h + 2
    <3>1. Higher(j, h) = h /\ 1 + h = h + 1 /\ Higher(h + 1, h + 1) = h + 1
      BY <2>1 DEF Higher
    <3>2. 0 = Tilt(d, h, h) /\ 0 = Tilt(d, h + 1, h + 1)
      <4>1. TiltFacts(d, h, h) /\ TiltFacts(d, h + 1, h + 1)
        BY TiltIs
      <4>2. QED
        BY <4>1 DEF TiltFacts
    <3>3. QED
      BY <1>1, <2>1, <3>1, <3>2
  <2>5. Shape(Single(d, a, f, 0, 0, x, y, z), 1 + Higher(i, 1 + Higher(j, h)),
              {a, f} \cup X \cup Y \cup Z)
    BY <1>3, <1>4, <1>5, <2>4, SingleShape
  <2>6. Shape(Single(d, a, f, 0, 0, x, y, z), h + 2, E)
    BY <1>6, <2>4, <2>5
  <2> HIDE DEF t, s
  <2>7. QED
    BY <2>1, <2>2, <2>3, <2>6 DEF n, E, t, s
<1>9. CASE n = -Sign(d)
  <2>1. i = h /\ j = h + 1 /\ n # 0 /\ n # Sign(d)
    BY <1>3, <1>7, <1>9 DEF Higher
  <2>2. y # NULL
    BY <2>1, HeightIs DEF j
  <2> DEFINE g == y.element
             k == y.balance
             v == y.link[d]
             w == y.link[1 - d]
             V == ElementsOf(v)
             W == ElementsOf(w)
  <2>3. /\ v \in Trees /\ Avl(v) /\ w \in Trees /\ Avl(w)
        /\ Height(v) \in Nat /\ Height(w) \in Nat
        /\ Height(y) = 1 + Higher(Height(v), Height(w))
        /\ k = Tilt(d, Height(v), Height(w)) /\ k \in -1..1 /\ g \in Int
        /\ y = Node(g, k, d, v, w) /\ ElementsOf(y) = {g} \cup V \cup W
        /\ AllBeside(d, V, g) /\ AllBeside(1 - d, W, g)
    BY <1>3, <2>2, Split
  <2>4. Shape(v, Height(v), V) /\ Shape(w, Height(w), W)
    BY <2>3 DEF Shape
  <2>5. Y = {g} \cup V \cup W /\ j = 1 + Higher(Height(v), Height(w))
    BY <2>3 DEF Y, j
  <2> HIDE DEF g, k, v, w, V, W
  <2>6. Higher(Height(v), Height(w)) = h
    <3>1. Higher(Height(v), Height(w)) \in Nat
      BY <2>3 DEF Higher
    <3>2. QED
      BY <2>1, <2>5, <3>1
  <2>7. /\ Beside(1 - d, g, f) /\ AllBeside(1 - d, V, f)
        /\ Beside(d, g, a) /\ AllBeside(d, W, a)
    BY <1>3, <1>5, <2>5 DEF AllBeside
  <2>8. Beside(d, f, g)
    BY <1>3, <2>3, <2>7, Order
  <2>9. Shape(Double(d, a, f, g, k, x, v, w, z), h + 2, {a, f, g} \cup X \cup V \cup W \cup Z)
    BY <1>3, <1>4, <2>1, <2>3, <2>4, <2>6, <2>7, <2>8, DoubleShape
  <2>10. {a, f, g} \cup X \cup V \cup W \cup Z = E
    BY <1>6, <2>5
  <2>11. RepairFacts(d, a, f, g, m, n, k, x, v, w, z)
    BY Repairs
  <2>12. insertBalance(t, d) = Double(d, a, f, g, k, x, v, w, z)
    BY <1>3, <2>1, <2>3, <2>11 DEF RepairFacts
  <2>13. s = [root |-> Double(d, a, f, g, k, x, v, w, z), done |-> FALSE]
    BY <1>3, <1>9, <2>3, <2>11 DEF RepairFacts
  <2> HIDE DEF t, s, E
  <2>14. Shape(insertBalance(t, d), h + 2, E)
    BY <2>9, <2>10, <2>12
  <2>15. s.done = FALSE /\ s.root = Double(d, a, f, g, k, x, v, w, z)
    BY <2>13
  <2>16. Shape(s.root, h + 2, E)
    BY <2>9, <2>10, <2>15
  <2>17. r.balance # 0
    BY <2>1 DEF n
  <2>18. QED
    BY <2>14, <2>15, <2>16, <2>17 DEF E, t, s
<1>10. CASE n = 0
  <2>1. i = h + 1 /\ j = h + 1 /\ n \notin {Sign(d), -Sign(d)}
    <3>1. Sign(d) # 0 /\ -Sign(d) # 0
      BY SignIs
    <3>2. QED
      BY <1>3, <1>7, <1>10, <3>1 DEF Higher
  <2>2. s = [root |-> Single(d, a, f, Sign(d), -Sign(d), x, y, z), done |-> TRUE]
    <3>1. RepairFacts(d, a, f, f, m, n, n, x, x, y, z)
      BY Repairs
    <3>2. QED
      BY <1>3, <2>1, <3>1 DEF RepairFacts
  <2>3. ASSUME h + 3 <= MaxHeight PROVE Shape(Single(d, a, f, Sign(d), -Sign(d), x, y, z), h + 3, E)
    <3>1. /\ TiltFacts(d, h + 1, h) /\ TiltFacts(d, h + 1, h + 2)
          /\ h + 2 = (h + 1) + 1
      BY TiltIs
    <3>2. /\ Sign(d) = Tilt(d, j, h) /\ -Sign(d) = Tilt(d, i, 1 + Higher(j, h))
          /\ Sign(d) \in -1..1 /\ -Sign(d) \in -1..1
          /\ Higher(i, 1 + Higher(j, h)) < MaxHeight /\ 1 + Higher(i, 1 + Higher(j, h)) = h + 3
      <4>1. Higher(h + 1, h) = h + 1 /\ 1 + (h + 1) = h + 2 /\ Higher(h + 1, h + 2) = h + 2
        BY DEF Higher
      <4>2. Sign(d) = Tilt(d, h + 1, h) /\ -Sign(d) = Tilt(d, h + 1, h + 2)
        BY <3>1 DEF TiltFacts
      <4>3. Sign(d) \in -1..1 /\ -Sign(d) \in -1..1
        <5>1. Tilt(d, h + 1, h) \in -1..1 /\ Tilt(d, h + 1, h + 2) \in -1..1
          BY <3>1 DEF TiltFacts
        <5>2. QED
          BY <4>2, <5>1
      <4>4. QED
        BY <1>1, <2>1, <2>3, <4>1, <4>2, <4>3
    <3>3. Shape(Single(d, a, f, Sign(d), -Sign(d), x, y, z), 1 + Higher(i, 1 + Higher(j, h)),
                {a, f} \cup X \cup Y \cup Z)
      BY <1>3, <1>4, <1>5, <3>2, SingleShape
    <3>4. QED
      BY <1>6, <3>2, <3>3
  <2> HIDE DEF t, s
  <2>4. QED
    BY <1>10, <2>2, <2>3 DEF n, E, t, s
<1>11. n = Sign(d) \/ n = -Sign(d) \/ n = 0
  BY <1>7
<1>12. QED
  BY <1>8, <1>9, <1>10, <1>11

(* What an insertion below the tree x leaves behind: an AVL tree with one  *)
(* more element, higher by 1 if the balances above are still to be done,   *)
(* and then leaning to one side unless x was empty.                        *)
Rose(sub, x, e) ==
  /\ sub.done \in BOOLEAN
  /\ Shape(sub.root, Height(x) + (IF sub.done THEN 0 ELSE 1), {e} \cup ElementsOf(x))
  /\ ~sub.done /\ x # NULL => sub.root.balance # 0

LEMMA InsertedShape ==
  ASSUME NEW t \in Trees, t # NULL, Avl(t), NEW d \in 0..1, NEW e \in Int, NEW sub,
         Beside(d, e, t.element), Rose(sub, t.link[d], e), Height(t) < MaxHeight
  PROVE  Rose(Inserted(t, d, sub), t, e)
<1> DEFINE a == t.element
           b == t.balance
           x == t.link[d]
           y == t.link[1 - d]
           h == Height(x)
           k == Height(y)
           X == ElementsOf(x)
           Y == ElementsOf(y)
           new == sub.root
           E == {e} \cup ElementsOf(t)
           linked == Node(a, b, d, new, y)
           grown == Node(a, b + Sign(d), d, new, y)
<1>1. /\ x \in Trees /\ Avl(x) /\ y \in Trees /\ Avl(y) /\ h \in Nat /\ k \in Nat
      /\ Height(t) = 1 + Higher(h, k) /\ b = Tilt(d, h, k) /\ b \in -1..1
      /\ a \in Int /\ t = Node(a, b, d, x, y) /\ ElementsOf(t) = {a} \cup X \cup Y
      /\ AllBeside(d, X, a) /\ AllBeside(1 - d, Y, a)
  BY Split
<1>2. Shape(y, k, Y)
  BY <1>1 DEF Shape
<1>3. /\ sub.done \in BOOLEAN /\ Shape(new, h + (IF sub.done THEN 0 ELSE 1), {e} \cup X)
      /\ (~sub.done /\ x # NULL => new.balance # 0)
  BY DEF Rose
<1>4. E = {a} \cup ({e} \cup X) \cup Y /\ AllBeside(d, {e} \cup X, a)
  BY <1>1 DEF AllBeside
<1>5. WithLink(t, d, new) = linked /\ WithBalance(linked, b + Sign(d)) = grown
  <2> HIDE DEF a, b, x, y, new
  <2>1. WithLink(Node(a, b, d, x, y), d, new) = linked
    BY Assigned
  <2>2. WithBalance(linked, b + Sign(d)) = grown
    BY Assigned
  <2>3. QED
    BY <1>1, <2>1, <2>2
<1>6. linked.balance = b /\ grown.balance = b + Sign(d)
  BY NodeIs
<1>7. Inserted(t, d, sub) =
        CASE sub.done -> [root |-> linked, done |-> TRUE]
          [] ~sub.done /\ b + Sign(d) = 0 -> [root |-> grown, done |-> TRUE]
          [] ~sub.done /\ b + Sign(d) \in {-1, 1} -> [root |-> grown, done |-> FALSE]
          [] OTHER -> [root |-> insertBalance(grown, d), done |-> TRUE]
  <2> HIDE DEF a, b, x, y, linked, grown
  <2>1. [t EXCEPT !.link[d] = sub.root] = linked
    BY <1>5 DEF WithLink, new
  <2>2. [linked EXCEPT !.balance = @ + Sign(d)] = grown
    BY <1>5, <1>6 DEF WithBalance
  <2>3. QED
    BY <1>6, <2>1, <2>2 DEF Inserted
<1> HIDE DEF a, b, x, y, h, k, X, Y, new, E, linked, grown
<1>8. \A s, v : Rose(s, t, e) <=>
        /\ s.done \in BOOLEAN /\ Shape(s.root, Height(t) + (IF s.done THEN 0 ELSE 1), E)
        /\ (~s.done => s.root.balance # 0)
  BY DEF Rose, E
<1>9. Higher(h, k) \in Nat /\ Higher(h, k) + 1 < MaxHeight /\ MaxHeight \in Nat
  <2>1. Higher(h, k) \in Nat
    BY <1>1 DEF Higher
  <2>2. QED
    BY <1>1, <2>1, MaxHeightIs
<1>10. CASE sub.done
  <2>1. Shape(linked, 1 + Higher(h, k), E)
    <3>1. Shape(new, h, {e} \cup X)
      BY <1>1, <1>3, <1>10
    <3>2. Higher(h, k) < MaxHeight
      BY <1>9
    <3>3. Shape(linked, 1 + Higher(h, k), {a} \cup ({e} \cup X) \cup Y)
      BY <1>1, <1>2, <1>4, <3>1, <3>2, Build DEF linked
    <3>4. QED
      BY <1>4, <3>3
  <2>2. Inserted(t, d, sub) = [root |-> linked, done |-> TRUE]
    BY <1>7, <1>10
  <2>3. Height(t) + 0 = 1 + Higher(h, k)
    BY <1>1, <1>9
  <2>4. QED
    BY <1>8, <2>1, <2>2, <2>3
<1>11. CASE ~sub.done
  <2>1. Shape(new, h + 1, {e} \cup X)
    BY <1>3, <1>11
  <2>2. /\ b + Sign(d) = Tilt(d, h + 1, k)
        /\ (b + Sign(d) = 0 <=> h + 1 = k)
        /\ (b + Sign(d) \in {-1, 1} <=> h + 1 = k + 1 \/ k = h + 2)
        /\ (h = k \/ h = k + 1 \/ k = h + 1)
    <3>1. TiltFacts(d, h, k) /\ TiltFacts(d, h + 1, k)
      BY <1>1, TiltIs
    <3>2. h + 1 + 1 = h + 2
      BY <1>1
    <3>3. QED
      BY <1>1, <3>1, <3>2 DEF TiltFacts
  <2>3. ASSUME h = k \/ k = h + 1
        PROVE  Shape(grown, 1 + Higher(h + 1, k), E)
    <3>1. Higher(h + 1, k) < MaxHeight /\ Tilt(d, h + 1, k) \in -1..1
      <4>1. Higher(h + 1, k) <= Higher(h, k) + 1
        BY <1>1 DEF Higher
      <4>2. Higher(h + 1, k) \in Nat
        BY <1>1 DEF Higher
      <4>3. TiltFacts(d, h + 1, k)
        BY <1>1, TiltIs
      <4>4. Tilt(d, h + 1, k) \in -1..1
        BY <1>1, <2>3, <4>3 DEF TiltFacts
      <4>5. QED
        BY <1>9, <4>1, <4>2, <4>4
    <3>2. Shape(grown, 1 + Higher(h + 1, k), {a} \cup ({e} \cup X) \cup Y)
      BY <1>1, <1>2, <1>4, <2>1, <2>2, <3>1, Build DEF grown
    <3>3. QED
      BY <1>4, <3>2
  <2>4. CASE k = h + 1
    <3>1. b + Sign(d) = 0
      BY <1>1, <2>2, <2>4
    <3>2. Inserted(t, d, sub) = [root |-> grown, done |-> TRUE]
      BY <1>7, <1>11, <3>1
    <3>3. 1 + Higher(h + 1, k) = Height(t) + 0
      BY <1>1, <2>4 DEF Higher
    <3>4. QED
      BY <1>8, <2>3, <2>4, <3>2, <3>3
  <2>5. CASE h = k
    <3>1. b + Sign(d) \in {-1, 1} /\ b + Sign(d) # 0
      BY <1>1, <2>2, <2>5
    <3>2. Inserted(t, d, sub) = [root |-> grown, done |-> FALSE]
      BY <1>7, <1>11, <3>1
    <3>3. 1 + Higher(h + 1, k) = Height(t) + 1
      BY <1>1, <2>5 DEF Higher
    <3>4. QED
      BY <1>6, <1>8, <2>3, <2>5, <3>1, <3>2, <3>3
  <2>6. CASE h = k + 1
    <3>1. b + Sign(d) # 0 /\ b + Sign(d) \notin {-1, 1}
      BY <1>1, <2>2, <2>6
    <3>2. Inserted(t, d, sub) = [root |-> insertBalance(grown, d), done |-> TRUE]
      BY <1>7, <1>11, <3>1
    <3>3. new.balance # 0
      <4>1. x # NULL
        BY <1>1, <2>6, HeightIs DEF h
      <4>2. QED
        BY <1>3, <1>11, <4>1
    <3>4. h + 1 = k + 2 /\ k + 2 <= MaxHeight /\ Height(t) + 0 = k + 2
      <4>1. Higher(h, k) = k + 1
        BY <1>1, <2>6 DEF Higher
      <4>2. QED
        BY <1>1, <1>9, <2>6, <4>1
    <3>5. Shape(insertBalance(grown, d), k + 2, {a} \cup ({e} \cup X) \cup Y)
      BY <1>1, <1>2, <1>4, <2>1, <3>3, <3>4, Rebalanced DEF grown
    <3>6. QED
      BY <1>4, <1>8, <3>2, <3>4, <3>5
  <2>7. QED
    BY <2>2, <2>4, <2>5, <2>6
<1>12. QED
  BY <1>10, <1>11

(* A tree has an element for every level, and so no AVL tree is as high    *)
(* as there are elements unless it has them all.                           *)
LEMMA FinitelyMany ==
  \A t \in Trees : IsFiniteSet(ElementsOf(t)) /\ Cardinality(ElementsOf(t)) \in Nat
<1> DEFINE S == {t \in Trees : IsFiniteSet(ElementsOf(t))}
<1>1. NULL \in S
  BY NodesIs, TreeNodes, FS_EmptySet DEF ElementsOf
<1>2. ASSUME NEW t \in Trees, t # NULL, t.link[0] \in S, t.link[1] \in S PROVE t \in S
  <2>1. Nodes(t) = {t} \cup Nodes(t.link[0]) \cup Nodes(t.link[1])
    BY <1>2, NodesIs
  <2>2. ElementsOf(t) = {t.element} \cup (ElementsOf(t.link[0]) \cup ElementsOf(t.link[1]))
    BY <2>1 DEF ElementsOf
  <2>3. IsFiniteSet(ElementsOf(t.link[0]) \cup ElementsOf(t.link[1]))
    BY <1>2, FS_Union
  <2>4. IsFiniteSet({t.element})
    BY FS_Singleton
  <2>5. IsFiniteSet(ElementsOf(t))
    BY <2>2, <2>3, <2>4, FS_Union
  <2>6. QED
    BY <1>2, <2>5
<1>3. Trees \subseteq S
  <2> HIDE DEF S
  <2>1. QED
    BY <1>1, <1>2, TreeInduction
<1>4. QED
  BY <1>3, FS_CardinalityType

(* The elements of an AVL tree: its own and those of its subtrees, all     *)
(* different.                                                              *)
LEMMA Counted ==
  ASSUME NEW t \in Trees, t # NULL, Avl(t), NEW d \in 0..1
  PROVE  /\ Cardinality(ElementsOf(t)) =
              1 + Cardinality(ElementsOf(t.link[d])) + Cardinality(ElementsOf(t.link[1 - d]))
         /\ Cardinality(ElementsOf(t.link[d])) \in Nat
         /\ Cardinality(ElementsOf(t.link[1 - d])) \in Nat
<1> DEFINE a == t.element
           X == ElementsOf(t.link[d])
           Y == ElementsOf(t.link[1 - d])
<1>1. /\ t.link[d] \in Trees /\ t.link[1 - d] \in Trees /\ a \in Int
      /\ ElementsOf(t) = {a} \cup X \cup Y /\ AllBeside(d, X, a) /\ AllBeside(1 - d, Y, a)
  BY Split
<1>2. /\ IsFiniteSet(X) /\ Cardinality(X) \in Nat /\ IsFiniteSet(Y) /\ Cardinality(Y) \in Nat
      /\ X \in SUBSET Int /\ Y \in SUBSET Int
  BY <1>1, FinitelyMany, ElementsType
<1> HIDE DEF a, X, Y
<1>3. 1 - d \in 0..1 /\ a \notin X /\ a \notin Y /\ X \cap Y = {}
  <2>1. 1 - d \in 0..1
    BY NodeIs
  <2>2. ASSUME NEW z \in X, NEW w \in Y PROVE z # a /\ w # a /\ z # w
    BY <1>1, <1>2, <2>1, Order DEF AllBeside
  <2>3. a \notin X
    BY <1>1, <1>2, Order DEF AllBeside
  <2>4. a \notin Y
    BY <1>1, <1>2, <2>1, Order DEF AllBeside
  <2>5. QED
    BY <2>1, <2>2, <2>3, <2>4
<1>4. IsFiniteSet(X \cup Y) /\ Cardinality(X \cup Y) = Cardinality(X) + Cardinality(Y)
  <2>1. IsFiniteSet(X \cup Y)
    BY <1>2, FS_Union
  <2>2. Cardinality(X \cup Y) = Cardinality(X) + Cardinality(Y) - Cardinality(X \cap Y)
    BY <1>2, FS_Union
  <2>3. Cardinality(X \cap Y) = 0
    BY <1>3, FS_EmptySet
  <2>4. QED
    BY <1>2, <2>1, <2>2, <2>3
<1>5. Cardinality((X \cup Y) \cup {a}) = Cardinality(X \cup Y) + 1
  BY <1>3, <1>4, FS_AddElement
<1>6. ElementsOf(t) = (X \cup Y) \cup {a}
  BY <1>1
<1>7. QED
  BY <1>2, <1>4, <1>5, <1>6 DEF X, Y

LEMMA HeightBelowCount ==
  \A t \in Trees : Avl(t) => Height(t) <= Cardinality(ElementsOf(t))
<1> DEFINE S == {t \in Trees : Avl(t) => Height(t) <= Cardinality(ElementsOf(t))}
<1>1. NULL \in S
  <2>1. Height(NULL) = 0 /\ Cardinality(ElementsOf(NULL)) \in Nat
    BY HeightIs, TreeNodes, FinitelyMany
  <2>2. QED
    BY <2>1, TreeNodes
<1>2. ASSUME NEW t \in Trees, t # NULL, t.link[0] \in S, t.link[1] \in S PROVE t \in S
  <2> SUFFICES ASSUME Avl(t) PROVE Height(t) <= Cardinality(ElementsOf(t))
    BY <1>2
  <2> DEFINE x == t.link[0]
             y == t.link[1]
  <2>1. 0 \in 0..1 /\ 1 - 0 = 1
    OBVIOUS
  <2>2. /\ Avl(x) /\ Avl(y) /\ Height(x) \in Nat /\ Height(y) \in Nat
        /\ Height(t) = 1 + Higher(Height(x), Height(y))
    BY <1>2, <2>1, Split
  <2>3. /\ Cardinality(ElementsOf(t)) =
             1 + Cardinality(ElementsOf(x)) + Cardinality(ElementsOf(y))
        /\ Cardinality(ElementsOf(x)) \in Nat /\ Cardinality(ElementsOf(y)) \in Nat
    BY <1>2, <2>1, Counted
  <2>4. Height(x) <= Cardinality(ElementsOf(x)) /\ Height(y) <= Cardinality(ElementsOf(y))
    BY <1>2, <2>2
  <2> HIDE DEF x, y
  <2>5. QED
    BY <2>2, <2>3, <2>4 DEF Higher
<1>3. Trees \subseteq S
  <2> HIDE DEF S
  <2>1. QED
    BY <1>1, <1>2, TreeInduction
<1>4. QED
  BY <1>3

LEMMA RoomForAnother ==
  ASSUME NEW t \in Trees, Avl(t), ElementsOf(t) \subseteq Element,
         NEW e \in Element, e \notin ElementsOf(t)
  PROVE  Height(t) < MaxHeight
<1> DEFINE E == ElementsOf(t)
<1>1. IsFiniteSet(E) /\ Cardinality(E) \in Nat /\ Height(t) <= Cardinality(E) /\ Height(t) \in Nat
  BY FinitelyMany, HeightBelowCount, HeightIs
<1>2. IsFiniteSet(E \cup {e}) /\ Cardinality(E \cup {e}) = Cardinality(E) + 1
  BY <1>1, FS_AddElement
<1>3. Cardinality(E \cup {e}) <= Cardinality(Element)
  <2>1. E \cup {e} \subseteq Element /\ IsFiniteSet(Element)
    BY TreeSetAssumption
  <2>2. QED
    BY <2>1, FS_Subset
<1>4. QED
  BY <1>1, <1>2, <1>3, MaxHeightIs DEF MaxHeight

(* insert keeps the AVL tree and adds the element.                         *)
THEOREM InsertShape ==
  ASSUME NEW e \in Int
  PROVE  \A t \in Trees :
           Avl(t) /\ Height(t) < MaxHeight /\ e \notin ElementsOf(t) => Rose(insert(t, e), t, e)
<1> DEFINE S == {t \in Trees :
           Avl(t) /\ Height(t) < MaxHeight /\ e \notin ElementsOf(t) => Rose(insert(t, e), t, e)}
<1>1. ASSUME Height(NULL) < MaxHeight PROVE Rose(insert(NULL, e), NULL, e)
  <2>1. insert(NULL, e) = [root |-> newNode(e), done |-> FALSE]
    BY InsertIs
  <2>2. newNode(e) = Node(e, 0, 0, NULL, NULL)
    BY DEF newNode, Node
  <2>3. Shape(newNode(e), 1, {e})
    <3>1. /\ 0 = Tilt(0, 0, 0) /\ 0 \in -1..1 /\ Higher(0, 0) = 0 /\ 0 \in 0..1
          /\ AllBeside(0, {}, e) /\ AllBeside(1 - 0, {}, e)
      BY DEF Tilt, Higher, AllBeside
    <3>2. Shape(Node(e, 0, 0, NULL, NULL), 1 + Higher(0, 0), {e} \cup {} \cup {})
      <4>1. Higher(0, 0) < MaxHeight
        BY <1>1, <3>1, HeightIs
      <4>2. QED
        BY <3>1, <4>1, EmptyShape, Build
    <3>3. QED
      BY <2>2, <3>1, <3>2
  <2>4. Height(NULL) = 0 /\ ElementsOf(NULL) = {}
    BY EmptyShape DEF Shape
  <2> DEFINE sub == insert(NULL, e)
  <2>5. sub.done = FALSE /\ Shape(sub.root, 1, {e})
    BY <2>1, <2>3
  <2> HIDE DEF sub
  <2>6. Height(NULL) + (IF sub.done THEN 0 ELSE 1) = 1 /\ {e} \cup ElementsOf(NULL) = {e}
    BY <2>4, <2>5
  <2>7. Rose(sub, NULL, e)
    BY <2>5, <2>6 DEF Rose
  <2>8. QED
    BY <2>7 DEF sub
<1>2. NULL \in S
  BY <1>1, TreeNodes
<1>3. ASSUME NEW t \in Trees, t # NULL, t.link[0] \in S, t.link[1] \in S PROVE t \in S
  <2> SUFFICES ASSUME Avl(t), Height(t) < MaxHeight, e \notin ElementsOf(t)
               PROVE  Rose(insert(t, e), t, e)
    BY <1>3
  <2> DEFINE d == IF t.element < e THEN 1 ELSE 0
             x == t.link[d]
  <2>1. d \in 0..1
    OBVIOUS
  <2>2. insert(t, e) = Inserted(t, d, insert(x, e))
    BY <1>3, InsertIs
  <2>3. x \in S
    BY <1>3
  <2>4. Beside(d, e, t.element)
    <3>1. t.element \in Int /\ t.element \in ElementsOf(t)
      BY <1>3, Children, NodesIs DEF ElementsOf
    <3>2. QED
      BY <3>1 DEF Beside
  <2> HIDE DEF d
  <2>5. /\ Avl(x) /\ Height(x) \in Nat /\ Height(t.link[1 - d]) \in Nat
        /\ Height(t) = 1 + Higher(Height(x), Height(t.link[1 - d]))
        /\ ElementsOf(x) \subseteq ElementsOf(t)
    BY <1>3, <2>1, Split
  <2>6. Height(x) < MaxHeight
    BY <2>5, MaxHeightIs DEF Higher
  <2>7. Rose(insert(x, e), x, e)
    BY <2>3, <2>5, <2>6
  <2>8. QED
    BY <1>3, <2>1, <2>2, <2>4, <2>7, InsertedShape
<1>4. Trees \subseteq S
  <2> HIDE DEF S
  <2>1. QED
    BY <1>2, <1>3, TreeInduction
<1>5. QED
  BY <1>4

(* What a removal below a tree of height h leaves behind: an AVL tree of   *)
(* the elements E, lower by 1 if the balances above are still to be done.  *)
Sank(sub, h, E) ==
  sub.done \in BOOLEAN /\ Shape(sub.root, h - (IF sub.done THEN 0 ELSE 1), E)

LEMMA SankIs ==
  ASSUME NEW r, NEW h \in Int, NEW g \in Int, NEW E, Shape(r.root, g, E)
  PROVE  /\ r.done = TRUE /\ g = h => Sank(r, h, E)
         /\ r.done = FALSE /\ g + 1 = h => Sank(r, h, E)
<1>1. ASSUME r.done = TRUE, g = h PROVE Sank(r, h, E)
  <2>1. h - (IF r.done THEN 0 ELSE 1) = g
    BY <1>1
  <2>2. QED
    BY <1>1, <2>1 DEF Sank
<1>2. ASSUME r.done = FALSE, g + 1 = h PROVE Sank(r, h, E)
  <2>1. h - (IF r.done THEN 0 ELSE 1) = g
    BY <1>2
  <2>2. QED
    BY <1>2, <2>1 DEF Sank
<1>3. QED
  BY <1>1, <1>2

RemovalStep(d, a, b, x, y, h, k, X, Y, sub) ==
  LET r == Removed(Node(a, b, d, x, y), d, sub)
  IN  Sank(r, 1 + Higher(h, k), {a} \cup X \cup Y) /\ r.uf = sub.uf

LEMMA RemovedShape ==
  ASSUME NEW d \in 0..1, NEW a \in Int, NEW b, NEW x, NEW y,
         NEW h \in Nat, NEW k \in Nat, NEW X, NEW Y, NEW sub, Sank(sub, h, X), Shape(y, k, Y),
         b = Tilt(d, h, k), b \in -1..1, AllBeside(d, X, a), AllBeside(1 - d, Y, a),
         Higher(h, k) < MaxHeight
  PROVE  RemovalStep(d, a, b, x, y, h, k, X, Y, sub)
<1> USE DEF RemovalStep
<1> DEFINE t == Node(a, b, d, x, y)
           new == sub.root
           m == b - Sign(d)
           E == {a} \cup X \cup Y
           linked == Node(a, b, d, new, y)
           shrunk == Node(a, m, d, new, y)
           fixed == removeBalance(shrunk, d)
           r == Removed(t, d, sub)
           H == Higher(h, k)
<1>1. sub.done \in BOOLEAN /\ Shape(new, h - (IF sub.done THEN 0 ELSE 1), X)
  BY DEF Sank
<1>2. WithLink(t, d, new) = linked /\ WithBalance(linked, m) = shrunk
  <2> HIDE DEF new, m
  <2>1. QED
    BY Assigned
<1>3. linked.balance = b /\ shrunk.balance = m
  BY NodeIs
<1>4. r = CASE sub.done -> [root |-> linked, done |-> TRUE, uf |-> sub.uf]
            [] ~sub.done /\ m \in {-1, 1} -> [root |-> shrunk, done |-> TRUE, uf |-> sub.uf]
            [] ~sub.done /\ m = 0 -> [root |-> shrunk, done |-> FALSE, uf |-> sub.uf]
            [] OTHER -> [root |-> fixed.root, done |-> fixed.done, uf |-> sub.uf]
  <2> HIDE DEF t, linked, shrunk
  <2>1. [t EXCEPT !.link[d] = sub.root] = linked
    BY <1>2 DEF WithLink, new
  <2>2. [linked EXCEPT !.balance = @ - Sign(d)] = shrunk
    BY <1>2, <1>3 DEF WithBalance, m
  <2>3. QED
    BY <1>3, <2>1, <2>2 DEF Removed
<1>5. H \in Nat /\ MaxHeight \in Nat /\ H < MaxHeight
  BY MaxHeightIs DEF Higher
<1>6. /\ m = Tilt(d, h - 1, k) /\ (m = 0 <=> h = k + 1)
      /\ (m \in {-1, 1} <=> h = k + 2 \/ k = h)
      /\ (h = k \/ h = k + 1 \/ k = h + 1)
  <2>1. TiltFacts(d, h, k) /\ TiltFacts(d, h - 1, k)
    BY TiltIs
  <2>2. /\ m = Tilt(d, h - 1, k) /\ (m = 0 <=> h - 1 = k)
        /\ (m \in {-1, 1} <=> h - 1 = k + 1 \/ k = (h - 1) + 1)
        /\ (h = k \/ h = k + 1 \/ k = h + 1)
    <3> HIDE DEF m
    <3>1. QED
      BY <2>1 DEF TiltFacts, m
  <2> HIDE DEF m
  <2>3. QED
    BY <2>2
<1> HIDE DEF t, new, m, E, linked, shrunk, fixed, r, H
<1>7. CASE sub.done
  <2>1. Shape(new, h, X)
    BY <1>1, <1>7
  <2>2. Shape(linked, 1 + H, E)
    BY <1>5, <2>1, Build DEF linked, E, H
  <2>3. r = [root |-> linked, done |-> TRUE, uf |-> sub.uf]
    BY <1>4, <1>7
  <2>4. 1 + H \in Int
    BY <1>5
  <2>5. r.done = TRUE /\ r.uf = sub.uf /\ r.root = linked
    BY <2>3
  <2>6. Sank(r, 1 + H, E)
    BY <2>2, <2>4, <2>5, SankIs
  <2>7. QED
    BY <2>5, <2>6 DEF E, H, r, t
<1>8. CASE ~sub.done
  <2>1. Shape(new, h - 1, X) /\ h >= 1
    <3>1. Shape(new, h - 1, X)
      BY <1>1, <1>8
    <3>2. h - 1 \in Nat
      BY <3>1, HeightIs DEF Shape
    <3>3. QED
      BY <3>1, <3>2
  <2>2. ASSUME h = k \/ h = k + 1 PROVE Shape(shrunk, 1 + k, E)
    <3>1. Higher(h - 1, k) = k /\ k < MaxHeight
      BY <1>5, <2>2 DEF Higher, H
    <3>2. m \in -1..1
      <4>1. TiltFacts(d, h - 1, k)
        BY TiltIs
      <4>2. QED
        BY <1>6, <2>2, <4>1 DEF TiltFacts
    <3>3. Shape(shrunk, 1 + Higher(h - 1, k), E)
      BY <1>6, <2>1, <3>1, <3>2, Build DEF shrunk, E
    <3>4. QED
      BY <3>1, <3>3
  <2>3. CASE h = k
    <3>1. r = [root |-> shrunk, done |-> TRUE, uf |-> sub.uf]
      BY <1>4, <1>6, <1>8, <2>3
    <3>2. 1 + H = 1 + k /\ 1 + H \in Int
      BY <2>3 DEF H, Higher
    <3>3. r.done = TRUE /\ r.uf = sub.uf /\ r.root = shrunk
      BY <3>1
    <3>4. Sank(r, 1 + H, E)
      BY <2>2, <2>3, <3>2, <3>3, SankIs
    <3>5. QED
      BY <3>3, <3>4 DEF E, H, r, t
  <2>4. CASE h = k + 1
    <3>1. m = 0 /\ m \notin {-1, 1}
      BY <1>6, <2>4
    <3>2. r = [root |-> shrunk, done |-> FALSE, uf |-> sub.uf]
      BY <1>4, <1>8, <3>1
    <3>3. (1 + k) + 1 = 1 + H /\ 1 + k \in Int /\ 1 + H \in Int
      BY <2>4 DEF H, Higher
    <3>4. r.done = FALSE /\ r.uf = sub.uf /\ r.root = shrunk
      BY <3>2
    <3>5. Sank(r, 1 + H, E)
      BY <2>2, <2>4, <3>3, <3>4, SankIs
    <3>6. QED
      BY <3>4, <3>5 DEF E, H, r, t
  <2>5. CASE k = h + 1
    <3>1. m # 0 /\ m \notin {-1, 1}
      BY <1>6, <2>5
    <3>2. r = [root |-> fixed.root, done |-> fixed.done, uf |-> sub.uf]
      BY <1>4, <1>8, <3>1
    <3>3. PICK i \in Nat : i = h - 1
      BY <2>1
    <3>4. /\ k = i + 2 /\ H = i + 2 /\ i + 2 <= MaxHeight /\ i + 3 <= MaxHeight
          /\ (i + 2) + 1 = 1 + H /\ i + 3 = 1 + H /\ i + 2 \in Int /\ i + 3 \in Int
      <4>1. H = k
        BY <2>5 DEF H, Higher
      <4>2. QED
        BY <1>5, <2>5, <3>3, <4>1
    <3>5. shrunk = Node(a, m, 1 - d, y, new) /\ 1 - d \in 0..1 /\ 1 - (1 - d) = d
      BY NodeIs DEF shrunk
    <3>6. /\ y.balance # 0 => fixed.done = FALSE /\ Shape(fixed.root, i + 2, {a} \cup Y \cup X)
          /\ y.balance = 0 => fixed.done = TRUE /\ Shape(fixed.root, i + 3, {a} \cup Y \cup X)
      <4> DEFINE u == 1 - d
      <4>1. u \in 0..1 /\ 1 - u = d /\ fixed = removeBalance(Node(a, m, u, y, new), 1 - u)
        BY <3>5 DEF fixed
      <4>2. Shape(y, i + 2, Y) /\ Shape(new, i, X) /\ AllBeside(u, Y, a) /\ AllBeside(1 - u, X, a)
        BY <2>1, <3>3, <3>4, <4>1
      <4> HIDE DEF u
      <4> DEFINE v == Node(a, m, u, y, new)
      <4>3. LET s == removeBalance(v, 1 - u)
                F == {a} \cup Y \cup X
            IN  /\ y.balance # 0 => s.done = FALSE /\ Shape(s.root, i + 2, F)
                /\ y.balance = 0 /\ i + 3 <= MaxHeight => s.done = TRUE /\ Shape(s.root, i + 3, F)
        BY <3>4, <4>1, <4>2, Rebalanced
      <4> HIDE DEF v
      <4>4. QED
        BY <3>4, <4>1, <4>3 DEF v
    <3>7. {a} \cup Y \cup X = E
      BY DEF E
    <3>8. r.uf = sub.uf /\ r.done = fixed.done /\ r.root = fixed.root
      BY <3>2
    <3>9. Sank(r, 1 + H, E)
      <4>1. CASE y.balance = 0
        <5>1. r.done = TRUE /\ Shape(r.root, i + 3, E)
          BY <3>4, <3>6, <3>7, <3>8, <4>1
        <5>2. QED
          BY <3>4, <5>1, SankIs
      <4>2. CASE y.balance # 0
        <5>1. r.done = FALSE /\ Shape(r.root, i + 2, E)
          BY <3>4, <3>6, <3>7, <3>8, <4>2
        <5>2. QED
          BY <3>4, <5>1, SankIs
      <4>3. QED
        BY <4>1, <4>2
    <3>10. QED
      BY <3>8, <3>9 DEF E, H, r, t
  <2>6. QED
    BY <1>6, <2>3, <2>4, <2>5
<1>9. QED
  BY <1>1, <1>7, <1>8

(* The outermost node towards a side has the element on that side of all.  *)
IsOutermost(m, t, d) ==
  /\ m # NULL /\ m \in Trees /\ m.element \in Int /\ m.element \in ElementsOf(t)
  /\ AllBeside(1 - d, ElementsOf(t) \ {m.element}, m.element)

LEMMA OutermostShape ==
  ASSUME NEW d \in 0..1
  PROVE  \A t \in Trees : t # NULL /\ Avl(t) => IsOutermost(Outermost(t, d), t, d)
<1> DEFINE S == {t \in Trees : t # NULL /\ Avl(t) => IsOutermost(Outermost(t, d), t, d)}
<1>1. NULL \in S
  BY TreeNodes
<1>2. ASSUME NEW t \in Trees, t # NULL, t.link[0] \in S, t.link[1] \in S PROVE t \in S
  <2> SUFFICES ASSUME Avl(t) PROVE IsOutermost(Outermost(t, d), t, d)
    BY <1>2
  <2> DEFINE x == t.link[d]
             y == t.link[1 - d]
             a == t.element
             X == ElementsOf(x)
             Y == ElementsOf(y)
             m == Outermost(t, d)
  <2>1. /\ x \in Trees /\ Avl(x) /\ y \in Trees /\ Avl(y) /\ a \in Int
        /\ ElementsOf(t) = {a} \cup X \cup Y
        /\ AllBeside(d, X, a) /\ AllBeside(1 - d, Y, a)
    BY <1>2, Split
  <2>2. 1 - d \in 0..1 /\ 1 - (1 - d) = d /\ (d = 0 \/ d = 1) /\ x \in S
    BY <1>2, NodeIs
  <2>3. m = IF x = NULL THEN t ELSE Outermost(x, d)
    BY <1>2, OutermostIs
  <2>4. X \in SUBSET Int /\ Y \in SUBSET Int
    BY <2>1, ElementsType
  <2>5. CASE x = NULL
    <3>1. X = {} /\ m = t
      BY <2>3, <2>5, EmptyShape DEF Shape
    <3> HIDE DEF X, Y, x, y, m
    <3>2. AllBeside(1 - d, ElementsOf(t) \ {a}, a)
      BY <2>1, <3>1 DEF AllBeside
    <3>3. QED
      BY <1>2, <2>1, <3>1, <3>2 DEF IsOutermost, m
  <2>6. CASE x # NULL
    <3> DEFINE f == m.element
    <3>1. m = Outermost(x, d)
      BY <2>3, <2>6
    <3>2. IsOutermost(m, x, d)
      BY <2>1, <2>2, <2>6, <3>1
    <3>3. m # NULL /\ m \in Trees /\ f \in Int /\ f \in X /\ AllBeside(1 - d, X \ {f}, f)
      BY <3>2 DEF IsOutermost
    <3> HIDE DEF X, Y, x, y, f, a
    <3>4. Beside(1 - d, a, f)
      BY <2>1, <3>3, Order DEF AllBeside
    <3>5. AllBeside(1 - d, {a} \cup Y, f)
      BY <2>1, <2>2, <2>4, <3>3, <3>4, BesideFurther
    <3>6. AllBeside(1 - d, ElementsOf(t) \ {f}, f)
      BY <2>1, <3>3, <3>5 DEF AllBeside
    <3>7. QED
      BY <2>1, <3>3, <3>6 DEF IsOutermost, m, f
  <2>7. QED
    BY <2>5, <2>6
<1>3. Trees \subseteq S
  <2> HIDE DEF S
  <2>1. QED
    BY <1>1, <1>2, TreeInduction
<1>4. QED
  BY <1>3

(* remove keeps the AVL tree, takes the element out of it, and hands over  *)
(* one of its elements.                                                    *)
Removes(r, t, x) ==
  /\ Sank(r, Height(t), ElementsOf(t) \ {x})
  /\ \E e \in ElementsOf(t) : r.uf = <<e>>

THEOREM RemoveShape ==
  \A t \in Trees : Avl(t) => \A x \in ElementsOf(t) : Removes(remove(t, x), t, x)
<1> DEFINE S == {t \in Trees : Avl(t) => \A x \in ElementsOf(t) : Removes(remove(t, x), t, x)}
<1>1. NULL \in S
  BY TreeNodes, EmptyShape DEF Shape
<1>2. ASSUME NEW t \in Trees, t # NULL, t.link[0] \in S, t.link[1] \in S PROVE t \in S
  <2> SUFFICES ASSUME Avl(t), NEW x \in ElementsOf(t) PROVE Removes(remove(t, x), t, x)
    BY <1>2
  <2> DEFINE a == t.element
             b == t.balance
             E == ElementsOf(t)
  <2>1. x \in Int /\ a \in Int
    BY <1>2, ElementsType, Children
  <2>2. CASE x = a /\ (t.link[0] = NULL \/ t.link[1] = NULL)
    <3>1. PICK d \in 0..1 : /\ t.link[1 - d] = NULL
                            /\ t.link[d] = IF t.link[0] = NULL THEN t.link[1] ELSE t.link[0]
      <4>1. CASE t.link[0] = NULL
        BY <4>1
      <4>2. CASE t.link[0] # NULL
        BY <2>2, <4>2
      <4>3. QED
        BY <4>1, <4>2
    <3> DEFINE c == t.link[d]
               X == ElementsOf(c)
    <3>2. remove(t, x) = [root |-> c, done |-> FALSE, uf |-> <<a>>]
      BY <1>2, <2>1, <2>2, <3>1, RemoveIs
    <3>3. /\ c \in Trees /\ Avl(c) /\ Height(c) \in Nat
          /\ Height(t) = 1 + Higher(Height(c), Height(NULL))
          /\ ElementsOf(t) = {a} \cup X \cup ElementsOf(NULL)
          /\ AllBeside(d, X, a)
      BY <1>2, <3>1, Split
    <3>4. Height(NULL) = 0 /\ ElementsOf(NULL) = {}
      BY EmptyShape DEF Shape
    <3>5. a \notin X
      BY <2>1, <3>3, Order DEF AllBeside
    <3>6. Shape(c, Height(c), E \ {x}) /\ Height(c) + 1 = Height(t) /\ Height(t) \in Int
      BY <2>2, <3>3, <3>4, <3>5 DEF Shape, Higher
    <3> HIDE DEF c, X, E, a
    <3> DEFINE r == remove(t, x)
    <3>7. r.done = FALSE /\ r.root = c /\ r.uf = <<a>>
      BY <3>2
    <3> HIDE DEF r
    <3>8. Sank(r, Height(t), E \ {x})
      <4> DEFINE F == E \ {x}
                 g == Height(c)
      <4>1. Shape(r.root, g, F) /\ g + 1 = Height(t) /\ g \in Int /\ Height(t) \in Int
        BY <3>3, <3>6, <3>7
      <4> HIDE DEF F, g
      <4>2. Sank(r, Height(t), F)
        BY <3>7, <4>1, SankIs
      <4>3. QED
        BY <4>2 DEF F
    <3>9. QED
      BY <3>3, <3>7, <3>8 DEF Removes, r, E
  <2>3. CASE x = a /\ ~(t.link[0] = NULL \/ t.link[1] = NULL)
    <3> DEFINE l == t.link[0]
               y == t.link[1]
               X == ElementsOf(l)
               Y == ElementsOf(y)
               h == Height(l)
               k == Height(y)
               e == Heir(t).element
               sub == remove(l, e)
    <3>1. /\ l \in Trees /\ Avl(l) /\ y \in Trees /\ Avl(y) /\ h \in Nat /\ k \in Nat
          /\ Height(t) = 1 + Higher(h, k) /\ Height(t) <= MaxHeight
          /\ b = Tilt(0, h, k) /\ b \in -1..1 /\ t = Node(a, b, 0, l, y)
          /\ E = {a} \cup X \cup Y /\ AllBeside(0, X, a) /\ AllBeside(1, Y, a)
      <4>1. 0 \in 0..1 /\ 1 - 0 = 1
        OBVIOUS
      <4>2. QED
        BY <1>2, <4>1, Split
    <3>2. e \in Int /\ e \in X /\ AllBeside(0, X \ {e}, e)
      <4>1. IsOutermost(Heir(t), l, 1)
        <5>1. 1 \in 0..1 /\ l # NULL
          BY <2>3
        <5>2. QED
          BY <3>1, <5>1, OutermostShape DEF Heir, findMax
      <4>2. 1 - 1 = 0
        OBVIOUS
      <4> HIDE DEF X, l
      <4>3. QED
        BY <4>1, <4>2 DEF IsOutermost, X
    <3>3. remove(t, x) = Removed(WithElement(t, e), 0, sub)
      <4>1. [t EXCEPT !.element = e] = WithElement(t, e)
        BY DEF WithElement
      <4>2. remove(t, x) =
              LET top == WithElement(t, e)
                  dir == IF top.element < e THEN 1 ELSE 0
              IN  Removed(top, dir, remove(t.link[dir], e))
        <5> HIDE DEF e
        <5>1. QED
          BY <1>2, <2>1, <2>3, <4>1, RemoveIs DEF e
      <4>3. WithElement(t, e).element = e
        BY <3>1, Assigned, NodeIs
      <4>4. ~(e < e)
        BY <3>2
      <4> HIDE DEF e
      <4>5. QED
        BY <4>2, <4>3, <4>4
    <3>4. WithElement(t, e) = Node(e, b, 0, l, y)
      <4>1. 0 \in 0..1
        OBVIOUS
      <4> HIDE DEF e, b, l, y, a
      <4>2. QED
        BY <3>1, <4>1, Assigned
    <3>5. Sank(sub, h, X \ {e}) /\ \E f \in X : sub.uf = <<f>>
      BY <1>2, <3>1, <3>2 DEF Removes
    <3> HIDE DEF l, y, X, Y, h, k, e, sub, E, a, b
    <3>6. AllBeside(1, Y, e)
      <4>1. 1 \in 0..1 /\ 0 = 1 - 1
        OBVIOUS
      <4>2. Beside(1, a, e)
        <5>1. Beside(0, e, a)
          BY <3>1, <3>2 DEF AllBeside
        <5>2. QED
          BY <5>1 DEF Beside
      <4>3. Y \in SUBSET Int
        BY <3>1, ElementsType DEF Y
      <4>4. QED
        BY <2>1, <3>1, <3>2, <4>1, <4>2, <4>3, BesideFurther
    <3> DEFINE r == Removed(Node(e, b, 0, l, y), 0, sub)
               Z == X \ {e}
    <3>7. Sank(r, 1 + Higher(h, k), {e} \cup Z \cup Y) /\ r.uf = sub.uf
      <4>1. Shape(y, k, Y)
        BY <3>1 DEF Shape, k, Y
      <4>2. 0 \in 0..1 /\ 1 - 0 = 1 /\ Higher(h, k) < MaxHeight
        <5>1. Higher(h, k) \in Nat
          BY <3>1 DEF Higher
        <5>2. QED
          BY <3>1, <5>1, MaxHeightIs
      <4> HIDE DEF Z
      <4>3. AllBeside(1 - 0, Y, e) /\ AllBeside(0, Z, e) /\ Sank(sub, h, Z)
        BY <3>2, <3>5, <3>6, <4>2 DEF Z
      <4>4. RemovalStep(0, e, b, l, y, h, k, Z, Y, sub)
        BY <3>1, <3>2, <4>1, <4>2, <4>3, RemovedShape
      <4>5. QED
        BY <4>4 DEF RemovalStep
    <3>8. {e} \cup Z \cup Y = E \ {x}
      <4>1. a \notin X /\ a \notin Y
        <5>1. ~Beside(0, a, a) /\ ~Beside(1, a, a)
          BY <2>1 DEF Beside, a
        <5>2. QED
          BY <3>1, <5>1 DEF AllBeside
      <4>2. QED
        BY <2>3, <3>1, <3>2, <4>1 DEF a
    <3> HIDE DEF r, Z
    <3>9. remove(t, x) = r
      BY <3>3, <3>4 DEF r
    <3>10. \E f \in E : r.uf = <<f>>
      BY <3>1, <3>5, <3>7
    <3>11. QED
      BY <3>1, <3>7, <3>8, <3>9, <3>10 DEF Removes, E
  <2>4. CASE x # a
    <3> DEFINE d == IF a < x THEN 1 ELSE 0
               l == t.link[d]
               y == t.link[1 - d]
               X == ElementsOf(l)
               Y == ElementsOf(y)
               h == Height(l)
               k == Height(y)
               sub == remove(l, x)
    <3>1. d \in 0..1 /\ Beside(d, x, a) /\ (d = 0 \/ d = 1)
      BY <2>1, <2>4 DEF Beside
    <3>2. remove(t, x) = Removed(t, d, sub)
      <4> HIDE DEF b, E
      <4>1. QED
        BY <1>2, <2>1, <2>4, RemoveIs
    <3> HIDE DEF d
    <3>3. /\ l \in Trees /\ Avl(l) /\ y \in Trees /\ Avl(y) /\ h \in Nat /\ k \in Nat
          /\ Height(t) = 1 + Higher(h, k) /\ Height(t) <= MaxHeight
          /\ b = Tilt(d, h, k) /\ b \in -1..1 /\ t = Node(a, b, d, l, y)
          /\ E = {a} \cup X \cup Y /\ AllBeside(d, X, a) /\ AllBeside(1 - d, Y, a)
      BY <1>2, <3>1, Split
    <3>4. x \notin Y /\ x \in X
      <4>1. ~Beside(1 - d, x, a)
        BY <2>1, <3>1, Order
      <4>2. x \notin Y
        BY <3>3, <4>1 DEF AllBeside
      <4>3. QED
        BY <2>4, <3>3, <4>2
    <3>5. Sank(sub, h, X \ {x}) /\ \E f \in X : sub.uf = <<f>>
      <4>1. l \in S
        BY <1>2, <3>1
      <4>2. QED
        BY <3>3, <3>4, <4>1 DEF Removes
    <3> HIDE DEF l, y, X, Y, h, k, sub, E, a, b
    <3> DEFINE r == Removed(Node(a, b, d, l, y), d, sub)
               Z == X \ {x}
    <3>6. Sank(r, 1 + Higher(h, k), {a} \cup Z \cup Y) /\ r.uf = sub.uf
      <4>1. Shape(y, k, Y)
        BY <3>3 DEF Shape, k, Y
      <4>2. Higher(h, k) < MaxHeight
        <5>1. Higher(h, k) \in Nat
          BY <3>3 DEF Higher
        <5>2. QED
          BY <3>3, <5>1, MaxHeightIs
      <4>3. AllBeside(d, Z, a)
        BY <3>3 DEF AllBeside
      <4> HIDE DEF Z
      <4>4. Sank(sub, h, Z)
        BY <3>5 DEF Z
      <4>5. RemovalStep(d, a, b, l, y, h, k, Z, Y, sub)
        BY <2>1, <3>1, <3>3, <4>1, <4>2, <4>3, <4>4, RemovedShape
      <4>6. QED
        BY <4>5 DEF RemovalStep
    <3>7. {a} \cup Z \cup Y = E \ {x}
      BY <2>4, <3>3, <3>4
    <3> HIDE DEF r, Z
    <3>8. remove(t, x) = r
      BY <3>2, <3>3 DEF r
    <3>9. \E f \in E : r.uf = <<f>>
      BY <3>3, <3>5, <3>6
    <3>10. QED
      BY <3>3, <3>6, <3>7, <3>8, <3>9 DEF Removes, E
  <2>5. QED
    BY <2>2, <2>3, <2>4
<1>3. Trees \subseteq S
  <2> HIDE DEF S
  <2>1. QED
    BY <1>1, <1>2, TreeInduction
<1>4. QED
  BY <1>3

(* The members of a sequence; a sequence in ascending order.               *)
Members(s) == {s[i] : i \in DOMAIN s}
Ascending(s) == \A i, j \in 1..Len(s) : i < j => s[i] < s[j]

LEMMA Joined ==
  ASSUME NEW p \in Seq(Int), NEW q \in Seq(Int)
  PROVE  /\ p \o q \in Seq(Int) /\ Len(p) \in Nat /\ Len(q) \in Nat
         /\ Len(p \o q) = Len(p) + Len(q)
         /\ Members(p \o q) = Members(p) \cup Members(q)
         /\ Ascending(p) /\ Ascending(q) /\ (\A x \in Members(p), y \in Members(q) : x < y)
            => Ascending(p \o q)
<1> DEFINE s == p \o q
           m == Len(p)
           n == Len(q)
<1>1. /\ s \in Seq(Int) /\ Len(s) = m + n /\ m \in Nat /\ n \in Nat
      /\ DOMAIN s = 1..(m + n) /\ DOMAIN p = 1..m /\ DOMAIN q = 1..n
      /\ \A i \in 1..(m + n) : s[i] = IF i <= m THEN p[i] ELSE q[i - m]
  BY ConcatProperties, LenProperties
<1>2. (\A i \in 1..m : p[i] \in Int) /\ (\A i \in 1..n : q[i] \in Int)
  BY <1>1, ElementOfSeq
<1> HIDE DEF s, m, n
<1>3. \A i \in 1..m : i \in 1..(m + n) /\ s[i] = p[i]
  BY <1>1
<1>4. \A i \in 1..n : m + i \in 1..(m + n) /\ s[m + i] = q[i]
  <2>1. ASSUME NEW i \in 1..n PROVE m + i \in 1..(m + n) /\ s[m + i] = q[i]
    <3>1. m + i \in 1..(m + n) /\ ~(m + i <= m) /\ (m + i) - m = i
      BY <1>1
    <3>2. QED
      BY <1>1, <3>1
  <2>2. QED
    BY <2>1
<1>5. \A i \in 1..(m + n) : i \in 1..m \/ \E j \in 1..n : i = m + j
  <2>1. ASSUME NEW i \in 1..(m + n), i \notin 1..m PROVE \E j \in 1..n : i = m + j
    <3>1. i - m \in 1..n /\ i = m + (i - m)
      BY <1>1, <2>1
    <3>2. QED
      BY <3>1
  <2>2. QED
    BY <2>1
<1>6. Members(s) = Members(p) \cup Members(q)
  <2>1. /\ Members(s) = {s[i] : i \in 1..(m + n)}
        /\ Members(p) = {p[i] : i \in 1..m} /\ Members(q) = {q[i] : i \in 1..n}
    BY <1>1 DEF Members
  <2>2. ASSUME NEW i \in 1..(m + n) PROVE s[i] \in Members(p) \cup Members(q)
    <3>1. CASE i \in 1..m
      BY <1>3, <2>1, <3>1
    <3>2. CASE \E j \in 1..n : i = m + j
      BY <1>4, <2>1, <3>2
    <3>3. QED
      BY <1>5, <3>1, <3>2
  <2>3. \A i \in 1..m : p[i] \in Members(s)
    BY <1>3, <2>1
  <2>4. \A i \in 1..n : q[i] \in Members(s)
    BY <1>4, <2>1
  <2>5. QED
    BY <2>1, <2>2, <2>3, <2>4
<1>7. ASSUME Ascending(p), Ascending(q), \A x \in Members(p), y \in Members(q) : x < y
      PROVE  Ascending(s)
  <2>1. ASSUME NEW i \in 1..(m + n), NEW j \in 1..(m + n), i < j PROVE s[i] < s[j]
    <3>1. CASE i \in 1..m /\ j \in 1..m
      BY <1>3, <1>7, <2>1, <3>1 DEF Ascending, m
    <3>2. ASSUME i \in 1..m, NEW k \in 1..n, j = m + k PROVE s[i] < s[j]
      <4>1. p[i] \in Members(p) /\ q[k] \in Members(q)
        BY <1>1, <3>2 DEF Members
      <4>2. QED
        BY <1>3, <1>4, <1>7, <3>2, <4>1
    <3>3. ASSUME NEW l \in 1..n, i = m + l, NEW k \in 1..n, j = m + k PROVE s[i] < s[j]
      <4>1. l < k
        BY <1>1, <2>1, <3>3
      <4>2. q[l] < q[k]
        BY <1>7, <4>1 DEF Ascending, n
      <4>3. QED
        BY <1>4, <3>3, <4>2
    <3>4. ASSUME NEW l \in 1..n, i = m + l, j \in 1..m PROVE FALSE
      BY <1>1, <2>1, <3>4
    <3>5. QED
      BY <1>5, <3>1, <3>2, <3>3, <3>4
  <2>2. QED
    BY <1>1, <2>1 DEF Ascending
<1>8. QED
  BY <1>1, <1>6, <1>7 DEF s, m, n

LEMMA OneMember ==
  ASSUME NEW e \in Int
  PROVE  <<e>> \in Seq(Int) /\ Len(<<e>>) = 1 /\ Members(<<e>>) = {e} /\ Ascending(<<e>>)
BY DEF Members, Ascending

LEMMA NoMember == << >> \in Seq(Int) /\ Len(<< >>) = 0 /\ Members(<< >>) = {} /\ Ascending(<< >>)
BY DEF Members, Ascending

(* A walk in infix order meets the elements in ascending order.            *)
LEMMA PopulateShape ==
  \A t \in Trees : /\ Members(populate(t)) = ElementsOf(t)
                   /\ Avl(t) => Ascending(populate(t))
<1> DEFINE S == {t \in Trees : /\ Members(populate(t)) = ElementsOf(t)
                               /\ Avl(t) => Ascending(populate(t))}
<1>1. NULL \in S
  BY PopulateIs, NoMember, TreeNodes, EmptyShape DEF Shape
<1>2. ASSUME NEW t \in Trees, t # NULL, t.link[0] \in S, t.link[1] \in S PROVE t \in S
  <2> DEFINE l == t.link[0]
             r == t.link[1]
             a == t.element
             p == populate(l)
             q == populate(r)
             one == <<a>>
  <2>1. l \in Trees /\ r \in Trees /\ a \in Int /\ Nodes(t) = {t} \cup Nodes(l) \cup Nodes(r)
    BY <1>2, Subtrees, Children, NodesIs
  <2>2. populate(t) = (p \o one) \o q /\ p \in Seq(Int) /\ q \in Seq(Int)
    BY <1>2, <2>1, PopulateIs
  <2>3. Members(p) = ElementsOf(l) /\ Members(q) = ElementsOf(r)
    BY <1>2
  <2>4. ElementsOf(t) = {a} \cup ElementsOf(l) \cup ElementsOf(r)
    BY <2>1 DEF ElementsOf
  <2>5. one \in Seq(Int) /\ Members(one) = {a} /\ Ascending(one)
    BY <2>1, OneMember
  <2>6. Avl(t) => /\ Ascending(p) /\ Ascending(q)
                  /\ (\A x \in ElementsOf(l) : x < a) /\ (\A x \in ElementsOf(r) : x > a)
                  /\ ElementsOf(l) \subseteq Int /\ ElementsOf(r) \subseteq Int
    <3>1. 0 \in 0..1 /\ 1 - 0 = 1
      OBVIOUS
    <3>2. Avl(t) => Avl(l) /\ Avl(r) /\ AllBeside(0, ElementsOf(l), a) /\ AllBeside(1, ElementsOf(r), a)
      BY <1>2, <3>1, Split
    <3>3. QED
      BY <1>2, <2>1, <3>2, ElementsType DEF AllBeside, Beside
  <2> HIDE DEF l, r, a, p, q, one
  <2>7. /\ p \o one \in Seq(Int) /\ Members(p \o one) = ElementsOf(l) \cup {a}
        /\ Avl(t) => Ascending(p \o one)
    <3>1. Avl(t) => \A x \in Members(p), y \in Members(one) : x < y
      BY <2>3, <2>5, <2>6
    <3>2. QED
      BY <2>2, <2>3, <2>5, <2>6, <3>1, Joined
  <2> DEFINE s == p \o one
  <2>8. Avl(t) => \A x \in Members(s), y \in Members(q) : x < y
    <3>1. ASSUME Avl(t), NEW x \in ElementsOf(l) \cup {a}, NEW y \in ElementsOf(r) PROVE x < y
      <4>1. x \in Int /\ y \in Int /\ x <= a /\ a < y
        BY <2>1, <2>6, <3>1
      <4>2. QED
        BY <2>1, <4>1
    <3>2. QED
      BY <2>3, <2>7, <3>1
  <2>9. s \in Seq(Int) /\ Members(s) = ElementsOf(l) \cup {a} /\ (Avl(t) => Ascending(s))
    BY <2>7
  <2>10. populate(t) = s \o q
    BY <2>2
  <2> HIDE DEF s
  <2>11. Members(s \o q) = Members(s) \cup Members(q) /\ (Avl(t) => Ascending(s \o q))
    BY <2>2, <2>6, <2>8, <2>9, Joined
  <2>12. QED
    BY <1>2, <2>3, <2>4, <2>9, <2>10, <2>11
<1>3. Trees \subseteq S
  <2> HIDE DEF S
  <2>1. QED
    BY <1>1, <1>2, TreeInduction
<1>4. QED
  BY <1>3

(* A walk in postfix order meets every element once.                       *)
LEMMA PostpurgeShape ==
  \A t \in Trees : /\ Members(postpurge(t)) = ElementsOf(t)
                   /\ Avl(t) => Len(postpurge(t)) = Cardinality(ElementsOf(t))
<1> DEFINE S == {t \in Trees : /\ Members(postpurge(t)) = ElementsOf(t)
                               /\ Avl(t) => Len(postpurge(t)) = Cardinality(ElementsOf(t))}
<1>1. NULL \in S
  BY PostpurgeIs, NoMember, TreeNodes, EmptyShape, FS_EmptySet DEF Shape
<1>2. ASSUME NEW t \in Trees, t # NULL, t.link[0] \in S, t.link[1] \in S PROVE t \in S
  <2> DEFINE l == t.link[0]
             r == t.link[1]
             a == t.element
             p == postpurge(l)
             q == postpurge(r)
             one == <<a>>
             s == p \o q
  <2>1. l \in Trees /\ r \in Trees /\ a \in Int /\ Nodes(t) = {t} \cup Nodes(l) \cup Nodes(r)
    BY <1>2, Subtrees, Children, NodesIs
  <2>2. postpurge(t) = s \o one /\ p \in Seq(Int) /\ q \in Seq(Int)
    BY <1>2, <2>1, PostpurgeIs
  <2>3. Members(p) = ElementsOf(l) /\ Members(q) = ElementsOf(r)
    BY <1>2
  <2>4. ElementsOf(t) = {a} \cup ElementsOf(l) \cup ElementsOf(r)
    BY <2>1 DEF ElementsOf
  <2>5. one \in Seq(Int) /\ Members(one) = {a} /\ Len(one) = 1
    BY <2>1, OneMember
  <2>6. Avl(t) => /\ Len(p) = Cardinality(ElementsOf(l)) /\ Len(q) = Cardinality(ElementsOf(r))
                  /\ Cardinality(ElementsOf(t)) =
                       1 + Cardinality(ElementsOf(l)) + Cardinality(ElementsOf(r))
    <3>1. 0 \in 0..1 /\ 1 - 0 = 1
      OBVIOUS
    <3>2. Avl(t) => Avl(l) /\ Avl(r)
      BY <1>2, <3>1, Split
    <3>3. Avl(t) => Cardinality(ElementsOf(t)) =
                      1 + Cardinality(ElementsOf(l)) + Cardinality(ElementsOf(r))
      BY <1>2, <3>1, Counted
    <3>4. QED
      BY <1>2, <3>2, <3>3
  <2> HIDE DEF l, r, a, p, q, one
  <2>7. /\ s \in Seq(Int) /\ Members(s) = Members(p) \cup Members(q)
        /\ Len(s) = Len(p) + Len(q) /\ Len(p) \in Nat /\ Len(q) \in Nat
    BY <2>2, Joined
  <2> HIDE DEF s
  <2>8. /\ Members(s \o one) = Members(s) \cup Members(one)
        /\ Len(s \o one) = Len(s) + 1
    BY <2>5, <2>7, Joined
  <2>9. Members(postpurge(t)) = ElementsOf(t)
    BY <2>2, <2>3, <2>4, <2>5, <2>7, <2>8
  <2>10. Avl(t) => Len(postpurge(t)) = Cardinality(ElementsOf(t))
    <3>1. ASSUME Avl(t) PROVE Len(s) + 1 = Cardinality(ElementsOf(t))
      <4>1. /\ Cardinality(ElementsOf(t)) = 1 + Len(p) + Len(q)
            /\ Len(s) = Len(p) + Len(q) /\ Len(p) \in Nat /\ Len(q) \in Nat
        BY <2>6, <2>7, <3>1
      <4> HIDE DEF S
      <4>2. QED
        BY <4>1
    <3>2. QED
      BY <2>2, <2>8, <3>1
  <2>11. QED
    BY <1>2, <2>9, <2>10
<1>3. Trees \subseteq S
  <2> HIDE DEF S
  <2>1. QED
    BY <1>1, <1>2, TreeInduction
<1>4. QED
  BY <1>3

(* find comes to a node just if it has the element.                        *)
LEMMA FindShape ==
  ASSUME NEW e \in Int
  PROVE  \A t \in Trees : Avl(t) => (find(e, t) # NULL <=> e \in ElementsOf(t))
<1> DEFINE S == {t \in Trees : Avl(t) => (find(e, t) # NULL <=> e \in ElementsOf(t))}
<1>1. NULL \in S
  BY FindIs, TreeNodes, EmptyShape DEF Shape
<1>2. ASSUME NEW t \in Trees, t # NULL, t.link[0] \in S, t.link[1] \in S PROVE t \in S
  <2> SUFFICES ASSUME Avl(t) PROVE find(e, t) # NULL <=> e \in ElementsOf(t)
    BY <1>2
  <2> DEFINE l == t.link[0]
             r == t.link[1]
             a == t.element
  <2>1. /\ Avl(l) /\ Avl(r) /\ a \in Int /\ ElementsOf(t) = {a} \cup ElementsOf(l) \cup ElementsOf(r)
        /\ (\A x \in ElementsOf(l) : x < a) /\ (\A x \in ElementsOf(r) : x > a)
    <3>1. 0 \in 0..1 /\ 1 - 0 = 1
      OBVIOUS
    <3>2. /\ Avl(l) /\ Avl(r) /\ a \in Int /\ ElementsOf(t) = {a} \cup ElementsOf(l) \cup ElementsOf(r)
          /\ AllBeside(0, ElementsOf(l), a) /\ AllBeside(1, ElementsOf(r), a)
      BY <1>2, <3>1, Split
    <3>3. QED
      BY <3>2 DEF AllBeside, Beside
  <2>2. find(e, t) = CASE e < a -> find(e, l) [] e > a -> find(e, r) [] OTHER -> t
    BY <1>2, FindIs
  <2>3. /\ find(e, l) # NULL <=> e \in ElementsOf(l)
        /\ find(e, r) # NULL <=> e \in ElementsOf(r)
    BY <1>2, <2>1
  <2> HIDE DEF l, r, a
  <2>4. CASE e < a
    <3>1. e \notin ElementsOf(r) /\ e # a /\ ~(e > a)
      BY <2>1, <2>4
    <3>2. find(e, t) = find(e, l)
      BY <2>2, <2>4, <3>1
    <3>3. QED
      BY <2>1, <2>3, <3>1, <3>2
  <2>5. CASE e > a
    <3>1. e \notin ElementsOf(l) /\ e # a /\ ~(e < a)
      BY <2>1, <2>5
    <3>2. find(e, t) = find(e, r)
      BY <2>2, <2>5, <3>1
    <3>3. QED
      BY <2>1, <2>3, <3>1, <3>2
  <2>6. CASE e = a
    <3>1. ~(e < a) /\ ~(e > a)
      BY <2>1, <2>6
    <3>2. QED
      BY <1>2, <2>1, <2>2, <2>6, <3>1
  <2>7. QED
    BY <2>1, <2>4, <2>5, <2>6
<1>3. Trees \subseteq S
  <2> HIDE DEF S
  <2>1. QED
    BY <1>1, <1>2, TreeInduction
<1>4. QED
  BY <1>3

(* The least and the greatest of a set, as the set of it or the empty set. *)
LeastOf(S)    == {x \in S : \A y \in S : x <= y}
GreatestOf(S) == {x \in S : \A y \in S : x >= y}

(* The node that was found is the outermost one.                           *)
LEMMA EndsShape ==
  ASSUME NEW t \in Trees, Avl(t)
  PROVE  /\ Found(findMin(t)) = LeastOf(ElementsOf(t))
         /\ Found(findMax(t)) = GreatestOf(ElementsOf(t))
<1>1. CASE t = NULL
  <2>1. findMin(t) = NULL /\ findMax(t) = NULL
    BY <1>1, OutermostIs DEF findMin, findMax
  <2>2. ElementsOf(t) = {}
    BY <1>1, EmptyShape DEF Shape
  <2>3. QED
    BY <2>1, <2>2 DEF Found, LeastOf, GreatestOf
<1>2. CASE t # NULL
  <2>1. /\ IsOutermost(findMin(t), t, 0) /\ IsOutermost(findMax(t), t, 1)
        /\ 1 - 0 = 1 /\ 1 - 1 = 0
    <3>1. 0 \in 0..1 /\ 1 \in 0..1 /\ 1 - 0 = 1 /\ 1 - 1 = 0
      OBVIOUS
    <3>2. QED
      BY <1>2, <3>1, OutermostShape DEF findMin, findMax
  <2>2. ElementsOf(t) \in SUBSET Int
    BY ElementsType
  <2> DEFINE E == ElementsOf(t)
             m == findMin(t)
             n == findMax(t)
             x == m.element
             y == n.element
  <2> HIDE DEF E, m, n
  <2>3. /\ m # NULL /\ x \in E /\ (\A z \in E \ {x} : z > x)
        /\ n # NULL /\ y \in E /\ (\A z \in E \ {y} : z < y)
    BY <2>1 DEF IsOutermost, AllBeside, Beside, E, m, n
  <2>4. Found(m) = {x} /\ Found(n) = {y}
    BY <2>3 DEF Found
  <2> HIDE DEF x, y
  <2>5. LeastOf(E) = {x}
    <3>1. \A z \in E : z \in Int
      BY <2>2 DEF E
    <3>2. \A z \in E : x <= z
      BY <2>3, <3>1
    <3>3. ASSUME NEW z \in E, \A w \in E : z <= w PROVE z = x
      BY <2>3, <3>1, <3>3
    <3>4. QED
      BY <2>3, <3>2, <3>3 DEF LeastOf
  <2>6. GreatestOf(E) = {y}
    <3>1. \A z \in E : z \in Int
      BY <2>2 DEF E
    <3>2. \A z \in E : y >= z
      BY <2>3, <3>1
    <3>3. ASSUME NEW z \in E, \A w \in E : z >= w PROVE z = y
      BY <2>3, <3>1, <3>3
    <3>4. QED
      BY <2>3, <3>2, <3>3 DEF GreatestOf
  <2>7. QED
    BY <2>4, <2>5, <2>6 DEF E, m, n
<1>3. QED
  BY <1>1, <1>2

(* The elements that a query with e for the next above may answer; the     *)
(* candidate n lies above e and beyond the tree that is left to search.    *)
MatchingAbove(E, e, equal) == {x \in E : x > e \/ (equal /\ x = e)}
CandidateAbove(n, E, e) ==
  n # NULL => n.element \in Int /\ n.element > e /\ \A x \in E : x < n.element

LEMMA AboveShape ==
  ASSUME NEW e \in Int, NEW equal \in BOOLEAN, NEW loop, AboveLoop(loop, e, equal)
  PROVE  \A t \in Trees : Avl(t) =>
           \A n \in Trees : CandidateAbove(n, ElementsOf(t), e) =>
             Found(loop[t][n]) = LeastOf(MatchingAbove(ElementsOf(t), e, equal) \cup Found(n))
<1> DEFINE P(t) == Avl(t) =>
             \A n \in Trees : CandidateAbove(n, ElementsOf(t), e) =>
               Found(loop[t][n]) = LeastOf(MatchingAbove(ElementsOf(t), e, equal) \cup Found(n))
           S == {t \in Trees : P(t)}
<1>1. NULL \in S
  <2>1. ASSUME NEW n \in Trees
        PROVE  Found(loop[NULL][n]) = LeastOf(MatchingAbove(ElementsOf(NULL), e, equal) \cup Found(n))
    <3>1. loop[NULL][n] = n /\ MatchingAbove(ElementsOf(NULL), e, equal) = {}
      BY EmptyShape DEF AboveLoop, Shape, MatchingAbove
    <3>2. Found(n) = LeastOf(Found(n))
      <4>1. CASE n = NULL
        BY <4>1 DEF Found, LeastOf
      <4>2. CASE n # NULL
        <5>1. n.element \in Int
          BY <4>2, Children
        <5>2. QED
          BY <4>2, <5>1 DEF Found, LeastOf
      <4>3. QED
        BY <4>1, <4>2
    <3>3. QED
      BY <3>1, <3>2
  <2>2. QED
    BY <2>1, TreeNodes
<1>2. ASSUME NEW t \in Trees, t # NULL, t.link[0] \in S, t.link[1] \in S PROVE t \in S
  <2> SUFFICES ASSUME Avl(t), NEW n \in Trees, CandidateAbove(n, ElementsOf(t), e)
               PROVE  Found(loop[t][n]) = LeastOf(MatchingAbove(ElementsOf(t), e, equal) \cup Found(n))
    BY <1>2
  <2> DEFINE l == t.link[0]
             r == t.link[1]
             a == t.element
             L == ElementsOf(l)
             R == ElementsOf(r)
             E == ElementsOf(t)
  <2>1. /\ Avl(l) /\ Avl(r) /\ a \in Int /\ E = {a} \cup L \cup R /\ l \in Trees /\ r \in Trees
        /\ (\A x \in L : x \in Int /\ x < a) /\ (\A x \in R : x \in Int /\ x > a)
    <3>1. 0 \in 0..1 /\ 1 - 0 = 1
      OBVIOUS
    <3>2. /\ Avl(l) /\ Avl(r) /\ a \in Int /\ E = {a} \cup L \cup R /\ l \in Trees /\ r \in Trees
          /\ AllBeside(0, L, a) /\ AllBeside(1, R, a)
      BY <1>2, <3>1, Split
    <3>3. L \subseteq Int /\ R \subseteq Int
      BY <3>2, ElementsType
    <3> HIDE DEF L, R, E, l, r, a
    <3>4. QED
      BY <3>2, <3>3 DEF AllBeside, Beside
  <2>2. loop[t][n] = IF equal /\ e = a THEN t
                     ELSE IF e < a THEN loop[l][Min(t, n)] ELSE loop[r][n]
    BY <1>2 DEF AboveLoop
  <2>3. Found(t) = {a}
    BY <1>2 DEF Found
  <2> DEFINE F == Found(n)
  <2>4. (n = NULL /\ F = {}) \/ (n # NULL /\ F = {n.element})
    BY DEF Found
  <2>5. \A c \in F : c \in Int /\ c > e /\ \A x \in E : x < c
    BY <2>4 DEF CandidateAbove
  <2>6. P(l) /\ P(r)
    BY <1>2
  <2> HIDE DEF S, L, R, E, l, r, a, F
  <2>7. CASE equal /\ e = a
    <3>1. LeastOf(MatchingAbove(E, e, equal) \cup F) = {a}
      <4> DEFINE M == MatchingAbove(E, e, equal) \cup F
      <4>1. \A x \in M : x \in Int /\ (x = a \/ x > a)
        BY <2>1, <2>5, <2>7 DEF MatchingAbove
      <4>2. a \in M
        BY <2>1, <2>7 DEF MatchingAbove
      <4> HIDE DEF M
      <4>3. LeastOf(M) = {a}
        <5>1. \A x \in M : a <= x
          BY <2>1, <4>1
        <5>2. ASSUME NEW x \in M, \A y \in M : x <= y PROVE x = a
          <6>1. x <= a /\ x \in Int /\ (x = a \/ x > a)
            BY <4>1, <4>2, <5>2
          <6>2. QED
            BY <2>1, <6>1
        <5>3. QED
          BY <4>2, <5>1, <5>2 DEF LeastOf
      <4>4. QED
        BY <4>3 DEF M
    <3>2. QED
      BY <2>2, <2>3, <2>7, <3>1 DEF E, F
  <2>8. CASE ~(equal /\ e = a) /\ e < a
    <3>1. Min(t, n) = t
      <4>1. n # NULL => ~(a > n.element)
        BY <2>1, <2>4, <2>5
      <4>2. CASE n = NULL
        BY <1>2, <4>2 DEF Min
      <4>3. CASE n # NULL
        BY <1>2, <4>1, <4>3 DEF Min, a
      <4>4. QED
        BY <4>2, <4>3
    <3>2. CandidateAbove(t, L, e)
      BY <2>1, <2>8 DEF CandidateAbove, a
    <3>3. Found(loop[t][n]) = LeastOf(MatchingAbove(L, e, equal) \cup {a})
      BY <1>2, <2>1, <2>2, <2>3, <2>6, <2>8, <3>1, <3>2 DEF L
    <3>4. LeastOf(MatchingAbove(E, e, equal) \cup F) = LeastOf(MatchingAbove(L, e, equal) \cup {a})
      <4> DEFINE M == MatchingAbove(E, e, equal) \cup F
                 N == MatchingAbove(L, e, equal) \cup {a}
      <4>1. N \subseteq M /\ a \in N
        BY <2>1, <2>8 DEF MatchingAbove
      <4>2. \A x \in M : x \in Int /\ (x \in N \/ x > a)
        BY <2>1, <2>5 DEF MatchingAbove
      <4> HIDE DEF M, N
      <4>3. LeastOf(M) \subseteq LeastOf(N)
        <5>1. ASSUME NEW x \in LeastOf(M) PROVE x \in N
          <6>1. x \in M /\ x <= a
            BY <4>1, <5>1 DEF LeastOf
          <6>2. x \in Int /\ (x \in N \/ x > a)
            BY <4>2, <6>1
          <6>3. QED
            BY <2>1, <6>1, <6>2
        <5>2. QED
          BY <4>1, <5>1 DEF LeastOf
      <4>4. LeastOf(N) \subseteq LeastOf(M)
        <5>1. ASSUME NEW x \in LeastOf(N), NEW y \in M PROVE x <= y
          <6>1. x \in Int /\ y \in Int /\ x <= a /\ (y \in N \/ y > a) /\ (y \in N => x <= y)
            BY <4>1, <4>2, <5>1 DEF LeastOf
          <6>2. QED
            BY <2>1, <6>1
        <5>2. QED
          BY <4>1, <5>1 DEF LeastOf
      <4>5. QED
        BY <4>3, <4>4 DEF M, N
    <3>5. QED
      BY <3>3, <3>4 DEF E, F
  <2>9. CASE ~(equal /\ e = a) /\ ~(e < a)
    <3>1. CandidateAbove(n, R, e)
      BY <2>1, <2>4, <2>5 DEF CandidateAbove
    <3>2. Found(loop[t][n]) = LeastOf(MatchingAbove(R, e, equal) \cup F)
      BY <2>1, <2>2, <2>6, <2>9, <3>1 DEF R, F
    <3>3. MatchingAbove(E, e, equal) = MatchingAbove(R, e, equal)
      <4>1. \A x \in L \cup {a} : ~(x > e) /\ ~(equal /\ x = e)
        BY <2>1, <2>9
      <4>2. QED
        BY <2>1, <4>1 DEF MatchingAbove
    <3>4. QED
      BY <3>2, <3>3 DEF E, F
  <2>10. QED
    BY <2>7, <2>8, <2>9
<1>3. Trees \subseteq S
  <2> HIDE DEF S
  <2>1. QED
    BY <1>1, <1>2, TreeInduction
<1>4. QED
  BY <1>3

(* The elements that a query with e for the next below may answer; the     *)
(* candidate n lies below e and beyond the tree that is left to search.    *)
MatchingBelow(E, e, equal) == {x \in E : x < e \/ (equal /\ x = e)}
CandidateBelow(n, E, e) ==
  n # NULL => n.element \in Int /\ n.element < e /\ \A x \in E : x > n.element

LEMMA BelowShape ==
  ASSUME NEW e \in Int, NEW equal \in BOOLEAN, NEW loop, BelowLoop(loop, e, equal)
  PROVE  \A t \in Trees : Avl(t) =>
           \A n \in Trees : CandidateBelow(n, ElementsOf(t), e) =>
             Found(loop[t][n]) = GreatestOf(MatchingBelow(ElementsOf(t), e, equal) \cup Found(n))
<1> DEFINE P(t) == Avl(t) =>
             \A n \in Trees : CandidateBelow(n, ElementsOf(t), e) =>
               Found(loop[t][n]) = GreatestOf(MatchingBelow(ElementsOf(t), e, equal) \cup Found(n))
           S == {t \in Trees : P(t)}
<1>1. NULL \in S
  <2>1. ASSUME NEW n \in Trees
        PROVE  Found(loop[NULL][n]) = GreatestOf(MatchingBelow(ElementsOf(NULL), e, equal) \cup Found(n))
    <3>1. loop[NULL][n] = n /\ MatchingBelow(ElementsOf(NULL), e, equal) = {}
      BY EmptyShape DEF BelowLoop, Shape, MatchingBelow
    <3>2. Found(n) = GreatestOf(Found(n))
      <4>1. CASE n = NULL
        BY <4>1 DEF Found, GreatestOf
      <4>2. CASE n # NULL
        <5>1. n.element \in Int
          BY <4>2, Children
        <5>2. QED
          BY <4>2, <5>1 DEF Found, GreatestOf
      <4>3. QED
        BY <4>1, <4>2
    <3>3. QED
      BY <3>1, <3>2
  <2>2. QED
    BY <2>1, TreeNodes
<1>2. ASSUME NEW t \in Trees, t # NULL, t.link[0] \in S, t.link[1] \in S PROVE t \in S
  <2> SUFFICES ASSUME Avl(t), NEW n \in Trees, CandidateBelow(n, ElementsOf(t), e)
               PROVE  Found(loop[t][n]) = GreatestOf(MatchingBelow(ElementsOf(t), e, equal) \cup Found(n))
    BY <1>2
  <2> DEFINE l == t.link[1]
             r == t.link[0]
             a == t.element
             L == ElementsOf(l)
             R == ElementsOf(r)
             E == ElementsOf(t)
  <2>1. /\ Avl(l) /\ Avl(r) /\ a \in Int /\ E = {a} \cup L \cup R /\ l \in Trees /\ r \in Trees
        /\ (\A x \in L : x \in Int /\ x > a) /\ (\A x \in R : x \in Int /\ x < a)
    <3>1. 1 \in 0..1 /\ 1 - 1 = 0
      OBVIOUS
    <3>2. /\ Avl(l) /\ Avl(r) /\ a \in Int /\ E = {a} \cup L \cup R /\ l \in Trees /\ r \in Trees
          /\ AllBeside(1, L, a) /\ AllBeside(0, R, a)
      BY <1>2, <3>1, Split
    <3>3. L \subseteq Int /\ R \subseteq Int
      BY <3>2, ElementsType
    <3> HIDE DEF L, R, E, l, r, a
    <3>4. QED
      BY <3>2, <3>3 DEF AllBeside, Beside
  <2>2. loop[t][n] = IF equal /\ e = a THEN t
                     ELSE IF e > a THEN loop[l][Max(t, n)] ELSE loop[r][n]
    BY <1>2 DEF BelowLoop
  <2>3. Found(t) = {a}
    BY <1>2 DEF Found
  <2> DEFINE F == Found(n)
  <2>4. (n = NULL /\ F = {}) \/ (n # NULL /\ F = {n.element})
    BY DEF Found
  <2>5. \A c \in F : c \in Int /\ c < e /\ \A x \in E : x > c
    BY <2>4 DEF CandidateBelow
  <2>6. P(l) /\ P(r)
    BY <1>2
  <2> HIDE DEF S, L, R, E, l, r, a, F
  <2>7. CASE equal /\ e = a
    <3>1. GreatestOf(MatchingBelow(E, e, equal) \cup F) = {a}
      <4> DEFINE M == MatchingBelow(E, e, equal) \cup F
      <4>1. \A x \in M : x \in Int /\ (x = a \/ x < a)
        BY <2>1, <2>5, <2>7 DEF MatchingBelow
      <4>2. a \in M
        BY <2>1, <2>7 DEF MatchingBelow
      <4> HIDE DEF M
      <4>3. GreatestOf(M) = {a}
        <5>1. \A x \in M : a >= x
          BY <2>1, <4>1
        <5>2. ASSUME NEW x \in M, \A y \in M : x >= y PROVE x = a
          <6>1. x >= a /\ x \in Int /\ (x = a \/ x < a)
            BY <4>1, <4>2, <5>2
          <6>2. QED
            BY <2>1, <6>1
        <5>3. QED
          BY <4>2, <5>1, <5>2 DEF GreatestOf
      <4>4. QED
        BY <4>3 DEF M
    <3>2. QED
      BY <2>2, <2>3, <2>7, <3>1 DEF E, F
  <2>8. CASE ~(equal /\ e = a) /\ e > a
    <3>1. Max(t, n) = t
      <4>1. n # NULL => ~(a < n.element)
        BY <2>1, <2>4, <2>5
      <4>2. CASE n = NULL
        BY <1>2, <4>2 DEF Max
      <4>3. CASE n # NULL
        BY <1>2, <4>1, <4>3 DEF Max, a
      <4>4. QED
        BY <4>2, <4>3
    <3>2. CandidateBelow(t, L, e)
      BY <2>1, <2>8 DEF CandidateBelow, a
    <3>3. Found(loop[t][n]) = GreatestOf(MatchingBelow(L, e, equal) \cup {a})
      BY <1>2, <2>1, <2>2, <2>3, <2>6, <2>8, <3>1, <3>2 DEF L
    <3>4. GreatestOf(MatchingBelow(E, e, equal) \cup F) = GreatestOf(MatchingBelow(L, e, equal) \cup {a})
      <4> DEFINE M == MatchingBelow(E, e, equal) \cup F
                 N == MatchingBelow(L, e, equal) \cup {a}
      <4>1. N \subseteq M /\ a \in N
        BY <2>1, <2>8 DEF MatchingBelow
      <4>2. \A x \in M : x \in Int /\ (x \in N \/ x < a)
        BY <2>1, <2>5 DEF MatchingBelow
      <4> HIDE DEF M, N
      <4>3. GreatestOf(M) \subseteq GreatestOf(N)
        <5>1. ASSUME NEW x \in GreatestOf(M) PROVE x \in N
          <6>1. x \in M /\ x >= a
            BY <4>1, <5>1 DEF GreatestOf
          <6>2. x \in Int /\ (x \in N \/ x < a)
            BY <4>2, <6>1
          <6>3. QED
            BY <2>1, <6>1, <6>2
        <5>2. QED
          BY <4>1, <5>1 DEF GreatestOf
      <4>4. GreatestOf(N) \subseteq GreatestOf(M)
        <5>1. ASSUME NEW x \in GreatestOf(N), NEW y \in M PROVE x >= y
          <6>1. x \in Int /\ y \in Int /\ x >= a /\ (y \in N \/ y < a) /\ (y \in N => x >= y)
            BY <4>1, <4>2, <5>1 DEF GreatestOf
          <6>2. QED
            BY <2>1, <6>1
        <5>2. QED
          BY <4>1, <5>1 DEF GreatestOf
      <4>5. QED
        BY <4>3, <4>4 DEF M, N
    <3>5. QED
      BY <3>3, <3>4 DEF E, F
  <2>9. CASE ~(equal /\ e = a) /\ ~(e > a)
    <3>1. CandidateBelow(n, R, e)
      BY <2>1, <2>4, <2>5 DEF CandidateBelow
    <3>2. Found(loop[t][n]) = GreatestOf(MatchingBelow(R, e, equal) \cup F)
      BY <2>1, <2>2, <2>6, <2>9, <3>1 DEF R, F
    <3>3. MatchingBelow(E, e, equal) = MatchingBelow(R, e, equal)
      <4>1. \A x \in L \cup {a} : ~(x < e) /\ ~(equal /\ x = e)
        BY <2>1, <2>9
      <4>2. QED
        BY <2>1, <4>1 DEF MatchingBelow
    <3>4. QED
      BY <3>2, <3>3 DEF E, F
  <2>10. QED
    BY <2>7, <2>8, <2>9
<1>3. Trees \subseteq S
  <2> HIDE DEF S
  <2>1. QED
    BY <1>1, <1>2, TreeInduction
<1>4. QED
  BY <1>3

(* Each query answers what a search of all elements would.                 *)
LEMMA QueriesShape ==
  ASSUME NEW t \in Trees, Avl(t), NEW e \in Int
  PROVE  /\ ts_contains(t, e) <=> e \in ElementsOf(t)
         /\ ts_ceiling(t, e) = LeastOf({x \in ElementsOf(t) : x >= e})
         /\ ts_higher(t, e) = LeastOf({x \in ElementsOf(t) : x > e})
         /\ ts_floor(t, e) = GreatestOf({x \in ElementsOf(t) : x <= e})
         /\ ts_lower(t, e) = GreatestOf({x \in ElementsOf(t) : x < e})
<1> DEFINE E == ElementsOf(t)
<1>1. E \in SUBSET Int /\ NULL \in Trees /\ Found(NULL) = {}
  BY ElementsType, TreeNodes DEF Found
<1>2. CandidateAbove(NULL, E, e) /\ CandidateBelow(NULL, E, e)
  BY DEF CandidateAbove, CandidateBelow
<1> HIDE DEF E
<1>3. /\ MatchingAbove(E, e, TRUE) = {x \in E : x >= e} /\ MatchingAbove(E, e, FALSE) = {x \in E : x > e}
      /\ MatchingBelow(E, e, TRUE) = {x \in E : x <= e}
      /\ MatchingBelow(E, e, FALSE) = {x \in E : x < e}
  <2>1. \A x \in E : x >= e <=> x > e \/ x = e
    BY <1>1
  <2>2. \A x \in E : x <= e <=> x < e \/ x = e
    BY <1>1
  <2>3. QED
    BY <2>1, <2>2 DEF MatchingAbove, MatchingBelow
<1>4. ASSUME NEW equal \in BOOLEAN
      PROVE  /\ Found(Above(t, e, equal)) = LeastOf(MatchingAbove(E, e, equal))
             /\ Found(Below(t, e, equal)) = GreatestOf(MatchingBelow(E, e, equal))
  <2>1. PICK loop : AboveLoop(loop, e, equal)
    BY AboveIs
  <2>2. Above(t, e, equal) = loop[t][NULL]
    BY <2>1 DEF AboveLoop
  <2>3. Found(loop[t][NULL]) = LeastOf(MatchingAbove(E, e, equal) \cup Found(NULL))
    BY <1>1, <1>2, <2>1, AboveShape DEF E
  <2>4. PICK down : BelowLoop(down, e, equal)
    BY BelowIs
  <2>5. Below(t, e, equal) = down[t][NULL]
    BY <2>4 DEF BelowLoop
  <2>6. Found(down[t][NULL]) = GreatestOf(MatchingBelow(E, e, equal) \cup Found(NULL))
    BY <1>1, <1>2, <2>4, BelowShape DEF E
  <2>7. QED
    BY <1>1, <2>2, <2>3, <2>5, <2>6
<1>5. ts_contains(t, e) <=> e \in E
  BY FindShape DEF ts_contains, E
<1>6. QED
  BY <1>3, <1>4, <1>5 DEF ts_ceiling, ts_higher, ts_floor, ts_lower, E
-----------------------------------------------------------------------------
(* An AVL tree of elements.                                                *)
Kept(t) == t \in Trees /\ Avl(t) /\ ElementsOf(t) \subseteq Element

(* The inductive invariant: the treeset is an AVL tree of elements, and it *)
(* has no more of them than its size says.                                 *)
TreeSetInv ==
  /\ Kept(root)
  /\ size \in Nat /\ Cardinality(ElementsOf(root)) <= size
  /\ drift \in 0..MaxDrift
  /\ reply \in [op : {"create", "add", "remove", "pollFirst", "pollLast", "clear", "destroy"},
                arg : Element \cup {0}, ret : 0..1]
  /\ purged \in Seq(Element)

LEMMA ReplyIs ==
  ASSUME NEW op \in {"create", "add", "remove", "pollFirst", "pollLast", "clear", "destroy"},
         NEW arg \in Element \cup {0}, NEW ret \in 0..1
  PROVE  /\ Reply(op, arg, ret) \in
              [op : {"create", "add", "remove", "pollFirst", "pollLast", "clear", "destroy"},
               arg : Element \cup {0}, ret : 0..1]
         /\ Reply(op, arg, ret).op = op
BY DEF Reply

LEMMA EmptyTree ==
  Kept(NULL) /\ ElementsOf(NULL) = {} /\ Cardinality(ElementsOf(NULL)) = 0
BY EmptyShape, FS_EmptySet DEF Kept, Shape

(* What adding an element that is missing does.                            *)
LEMMA Added ==
  ASSUME NEW t, Kept(t), NEW e \in Element, ~ts_contains(t, e)
  PROVE  LET u == insert(t, e).root
         IN  /\ Kept(u) /\ ElementsOf(u) = {e} \cup ElementsOf(t)
             /\ Cardinality(ElementsOf(u)) = Cardinality(ElementsOf(t)) + 1
             /\ Cardinality(ElementsOf(t)) \in Nat
<1> DEFINE E == ElementsOf(t)
           u == insert(t, e).root
<1>1. t \in Trees /\ Avl(t) /\ E \subseteq Element /\ e \in Int /\ e \notin E
  BY QueriesShape, TreeSetAssumption DEF Kept
<1>2. Height(t) < MaxHeight
  BY <1>1, RoomForAnother
<1>3. Rose(insert(t, e), t, e)
  BY <1>1, <1>2, InsertShape
<1>4. u \in Trees /\ Avl(u) /\ ElementsOf(u) = {e} \cup E
  BY <1>3 DEF Rose, Shape
<1>5. IsFiniteSet(E) /\ Cardinality(E) \in Nat
  BY <1>1, FinitelyMany
<1> HIDE DEF E, u
<1>6. Cardinality(E \cup {e}) = Cardinality(E) + 1
  BY <1>1, <1>5, FS_AddElement
<1>7. {e} \cup E = E \cup {e} /\ {e} \cup E \subseteq Element
  BY <1>1
<1>8. QED
  BY <1>4, <1>5, <1>6, <1>7 DEF Kept, E, u

(* What removing an element does.                                          *)
LEMMA Taken ==
  ASSUME NEW t, Kept(t), NEW e \in ElementsOf(t)
  PROVE  LET r == remove(t, e)
         IN  /\ Kept(r.root) /\ ElementsOf(r.root) = ElementsOf(t) \ {e}
             /\ Cardinality(ElementsOf(r.root)) = Cardinality(ElementsOf(t)) - 1
             /\ Cardinality(ElementsOf(t)) \in Nat \ {0}
             /\ r.uf \in Seq(Element)
<1> DEFINE E == ElementsOf(t)
           r == remove(t, e)
<1>1. t \in Trees /\ Avl(t) /\ E \subseteq Element
  BY DEF Kept
<1>2. Removes(r, t, e)
  BY <1>1, RemoveShape
<1>3. r.root \in Trees /\ Avl(r.root) /\ ElementsOf(r.root) = E \ {e}
  BY <1>2 DEF Removes, Sank, Shape
<1>4. IsFiniteSet(E) /\ Cardinality(E) \in Nat
  BY <1>1, FinitelyMany
<1> HIDE DEF E, r
<1>5. Cardinality(E \ {e}) = Cardinality(E) - 1 /\ Cardinality(E \ {e}) \in Nat
  <2>1. e \in E
    BY DEF E
  <2>2. IsFiniteSet(E \ {e}) /\ Cardinality(E \ {e}) = Cardinality(E) - 1
    BY <1>4, <2>1, FS_RemoveElement
  <2>3. QED
    BY <2>2, FS_CardinalityType
<1>6. r.uf \in Seq(Element)
  <2>1. PICK f \in E : r.uf = <<f>>
    BY <1>2 DEF Removes, E
  <2>2. QED
    BY <1>1, <2>1
<1>7. Kept(r.root)
  BY <1>1, <1>3 DEF Kept
<1>8. QED
  BY <1>3, <1>4, <1>5, <1>6, <1>7 DEF E, r

(* What clearing hands over.                                               *)
LEMMA Purged ==
  ASSUME NEW t, Kept(t)
  PROVE  /\ postpurge(t) \in Seq(Element)
         /\ Members(postpurge(t)) = ElementsOf(t)
         /\ Len(postpurge(t)) = Cardinality(ElementsOf(t))
<1>1. /\ postpurge(t) \in Seq(Int) /\ Members(postpurge(t)) = ElementsOf(t)
      /\ Len(postpurge(t)) = Cardinality(ElementsOf(t)) /\ ElementsOf(t) \subseteq Element
  BY PostpurgeIs, PostpurgeShape DEF Kept
<1> DEFINE s == postpurge(t)
<1>2. DOMAIN s = 1..Len(s) /\ Len(s) \in Nat /\ s = [i \in 1..Len(s) |-> s[i]]
  BY <1>1, LenProperties
<1> HIDE DEF s
<1>3. \A i \in 1..Len(s) : s[i] \in Element
  BY <1>1, <1>2 DEF Members, s
<1>4. s \in Seq(Element)
  BY <1>2, <1>3
<1>5. QED
  BY <1>1, <1>4 DEF s

(* What the node that ts_pollFirst and ts_pollLast remove is.              *)
LEMMA Ends ==
  ASSUME NEW t, Kept(t), NEW node, node = findMin(t) \/ node = findMax(t)
  PROVE  /\ node = NULL => ElementsOf(t) = {}
         /\ node # NULL => node.element \in ElementsOf(t)
         /\ node = findMin(t) => Found(node) = LeastOf(ElementsOf(t))
         /\ node = findMax(t) => Found(node) = GreatestOf(ElementsOf(t))
<1>1. t \in Trees /\ Avl(t)
  BY DEF Kept
<1>2. CASE t = NULL
  <2>1. node = NULL /\ ElementsOf(t) = {}
    BY <1>2, EmptyTree, OutermostIs DEF findMin, findMax
  <2>2. QED
    BY <1>1, <2>1, EndsShape
<1>3. CASE t # NULL
  <2>1. IsOutermost(node, t, 0) \/ IsOutermost(node, t, 1)
    BY <1>1, <1>3, OutermostShape DEF findMin, findMax
  <2>2. QED
    BY <1>1, <2>1, EndsShape DEF IsOutermost
<1>4. QED
  BY <1>2, <1>3

(* The cases of a poll, by what is in the tree.                            *)
LEMMA Polled ==
  ASSUME NEW op, NEW node, Kept(root), node = findMin(root) \/ node = findMax(root),
         Poll(op, node)
  PROVE  /\ Alive /\ drift < MaxDrift /\ purged' = << >> /\ size' = size
         /\ \/ /\ ElementsOf(root) = {} /\ Found(node) = {} /\ root' = root /\ drift' = drift
               /\ reply' = Reply(op, 0, 0)
            \/ \E e \in ElementsOf(root) :
                 /\ Found(node) = {e} /\ root' = remove(root, e).root /\ drift' = drift + 1
                 /\ reply' = Reply(op, e, 1)
<1>1. /\ node = NULL => ElementsOf(root) = {}
      /\ node # NULL => node.element \in ElementsOf(root)
  BY Ends
<1>2. CASE node = NULL
  BY <1>1, <1>2 DEF Poll, Found
<1>3. CASE node # NULL
  BY <1>1, <1>3 DEF Poll, Found
<1>4. QED
  BY <1>2, <1>3

THEOREM TreeSetInvariant == Spec => []TreeSetInv
<1>1. Init => TreeSetInv
  <2>1. << >> \in Seq(Element) /\ 0 \in 0..MaxDrift
    BY TreeSetAssumption
  <2> SUFFICES ASSUME Init PROVE TreeSetInv
    OBVIOUS
  <2>2. Kept(root) /\ Cardinality(ElementsOf(root)) = 0 /\ size = 0
    BY EmptyTree DEF Init
  <2>3. reply \in [op : {"create", "add", "remove", "pollFirst", "pollLast", "clear", "destroy"},
                   arg : Element \cup {0}, ret : 0..1]
    BY ReplyIs DEF Init
  <2>4. QED
    BY <2>1, <2>2, <2>3 DEF Init, TreeSetInv
<1>2. TreeSetInv /\ [Next]_vars => TreeSetInv'
  <2> SUFFICES ASSUME TreeSetInv, [Next]_vars PROVE TreeSetInv'
    OBVIOUS
  <2> DEFINE n == Cardinality(ElementsOf(root))
  <2>1. /\ Kept(root) /\ size \in Nat /\ n <= size /\ drift \in 0..MaxDrift
        /\ purged \in Seq(Element) /\ MaxDrift \in Nat /\ << >> \in Seq(Element)
    BY TreeSetAssumption DEF TreeSetInv
  <2>2. n \in Nat
    BY <2>1, FinitelyMany DEF Kept
  <2> HIDE DEF n
  <2>3. ASSUME NEW e \in Element, Add(e) PROVE TreeSetInv'
    <3>1. CASE ts_contains(root, e)
      <4>1. UNCHANGED <<root, size, drift>> /\ reply' = Reply("add", e, 0) /\ purged' = << >>
        BY <2>3, <3>1 DEF Add
      <4>2. QED
        BY <2>1, <4>1, ReplyIs DEF TreeSetInv, n
    <3>2. CASE ~ts_contains(root, e)
      <4>1. /\ root' = insert(root, e).root /\ size' = size + 1 /\ drift' = drift
            /\ reply' = Reply("add", e, 1) /\ purged' = << >>
        BY <2>3, <3>2 DEF Add
      <4>2. Kept(root') /\ Cardinality(ElementsOf(root')) = n + 1
        BY <2>1, <3>2, <4>1, Added DEF n
      <4>3. size' \in Nat /\ n + 1 <= size'
        BY <2>1, <2>2, <4>1
      <4>4. QED
        BY <2>1, <4>1, <4>2, <4>3, ReplyIs DEF TreeSetInv
    <3>3. QED
      BY <3>1, <3>2
  <2>4. ASSUME NEW e \in Element, Remove(e) PROVE TreeSetInv'
    <3>1. CASE ~ts_contains(root, e)
      <4>1. UNCHANGED <<root, size, drift>> /\ reply' = Reply("remove", e, 0) /\ purged' = << >>
        BY <2>4, <3>1 DEF Remove
      <4>2. QED
        BY <2>1, <4>1, ReplyIs DEF TreeSetInv, n
    <3>2. CASE ts_contains(root, e)
      <4>1. /\ root' = remove(root, e).root /\ size' = size - 1 /\ drift' = drift
            /\ reply' = Reply("remove", e, 1) /\ purged' = remove(root, e).uf
        BY <2>4, <3>2 DEF Remove
      <4>2. e \in ElementsOf(root)
        BY <2>1, <3>2, QueriesShape, TreeSetAssumption DEF Kept
      <4>3. /\ Kept(root') /\ Cardinality(ElementsOf(root')) = n - 1 /\ n # 0
            /\ purged' \in Seq(Element)
        BY <2>1, <4>1, <4>2, Taken DEF n
      <4>4. size' \in Nat /\ n - 1 <= size'
        BY <2>1, <2>2, <4>1, <4>3
      <4>5. QED
        BY <2>1, <4>1, <4>3, <4>4, ReplyIs DEF TreeSetInv
    <3>3. QED
      BY <3>1, <3>2
  <2>5. ASSUME NEW op \in {"pollFirst", "pollLast"}, NEW node, Poll(op, node),
               node = findMin(root) \/ node = findMax(root)
        PROVE  TreeSetInv'
    <3>1. /\ drift < MaxDrift /\ purged' = << >> /\ size' = size
          /\ \/ root' = root /\ drift' = drift /\ reply' = Reply(op, 0, 0)
             \/ \E e \in ElementsOf(root) :
                  root' = remove(root, e).root /\ drift' = drift + 1 /\ reply' = Reply(op, e, 1)
      BY <2>1, <2>5, Polled
    <3>2. CASE root' = root /\ drift' = drift /\ reply' = Reply(op, 0, 0)
      BY <2>1, <3>1, <3>2, ReplyIs DEF TreeSetInv, n
    <3>3. ASSUME NEW e \in ElementsOf(root), root' = remove(root, e).root, drift' = drift + 1,
                 reply' = Reply(op, e, 1)
          PROVE  TreeSetInv'
      <4>1. Kept(root') /\ Cardinality(ElementsOf(root')) = n - 1
        BY <2>1, <3>3, Taken DEF n
      <4>2. n - 1 <= size' /\ size' \in Nat /\ drift' \in 0..MaxDrift
        BY <2>1, <2>2, <3>1, <3>3
      <4>3. e \in Element
        BY <2>1 DEF Kept
      <4>4. QED
        BY <2>1, <3>1, <3>3, <4>1, <4>2, <4>3, ReplyIs DEF TreeSetInv
    <3>4. QED
      BY <3>1, <3>2, <3>3
  <2>6. ASSUME NEW op \in {"create", "clear", "destroy"}, NEW s \in Seq(Element),
               root' = NULL, size' = 0, drift' = 0, reply' = Reply(op, 0, 1), purged' = s
        PROVE  TreeSetInv'
    <3>1. 0 \in 0..MaxDrift
      BY <2>1
    <3>2. QED
      BY <2>6, <3>1, EmptyTree, ReplyIs DEF TreeSetInv
  <2>7. CASE pollFirst
    BY <2>5, <2>7 DEF pollFirst
  <2>8. CASE pollLast
    BY <2>5, <2>8 DEF pollLast
  <2>9. postpurge(root) \in Seq(Element)
    BY <2>1, Purged
  <2>10. CASE Clear
    BY <2>6, <2>9, <2>10 DEF Clear
  <2>11. CASE Destroy
    BY <2>6, <2>9, <2>11 DEF Destroy
  <2>12. CASE Create
    BY <2>1, <2>6, <2>12 DEF Create, ts_create
  <2>13. CASE UNCHANGED vars
    BY <2>1, <2>13 DEF vars, TreeSetInv, n
  <2>14. QED
    BY <2>3, <2>4, <2>7, <2>8, <2>10, <2>11, <2>12, <2>13 DEF Next
<1>3. QED
  BY <1>1, <1>2, PTL DEF Spec
-----------------------------------------------------------------------------
LEMMA ElementsAre ==
  ASSUME Kept(root)
  PROVE  Elements = ElementsOf(root)
BY PopulateShape DEF Kept, Elements, Members

(* The nodes of a tree of elements are as TypeOK says.                     *)
LEMMA NodesOK ==
  ASSUME Kept(root), NEW t \in Nodes(root)
  PROVE  t.element \in Element /\ t.balance \in -1..1
BY DEF Kept, Avl, ElementsOf

(* After any sequence of calls the treeset is a search tree, and every     *)
(* balance field is right: the rotations of insertBalance and              *)
(* removeBalance, for sets of any size.                                    *)
THEOREM AlwaysSearchTree == Spec => []SearchTree
<1>1. TreeSetInv => SearchTree
  <2> SUFFICES ASSUME TreeSetInv PROVE SearchTree
    OBVIOUS
  <2>1. TypeOK
    BY NodesOK DEF TreeSetInv, TypeOK
  <2> DEFINE p == populate(root)
  <2>2. \A i \in 1..(Len(p) - 1) : p[i] < p[i + 1]
    <3>1. p \in Seq(Int) /\ Len(p) \in Nat
      BY PopulateIs, LenProperties DEF TreeSetInv, Kept
    <3>2. Ascending(p)
      BY PopulateShape DEF TreeSetInv, Kept
    <3> HIDE DEF p
    <3>3. \A i \in 1..(Len(p) - 1) : i \in 1..Len(p) /\ i + 1 \in 1..Len(p) /\ i < i + 1
      BY <3>1
    <3>4. QED
      BY <3>2, <3>3 DEF Ascending
  <2>3. \A t \in Nodes(root) : /\ t.balance = Height(t.link[1]) - Height(t.link[0])
                               /\ t.balance \in -1..1
    BY DEF TreeSetInv, Kept, Avl
  <2>4. QED
    BY <2>1, <2>2, <2>3 DEF SearchTree
<1>2. QED
  BY <1>1, TreeSetInvariant, PTL

(* Every query answers what a search of all elements would.                *)
THEOREM AlwaysQueriesAnswer == Spec => []QueriesAnswer
<1>1. TreeSetInv => QueriesAnswer
  <2> SUFFICES ASSUME TreeSetInv PROVE QueriesAnswer
    OBVIOUS
  <2>1. Kept(root) /\ root \in Trees /\ Avl(root) /\ Elements = ElementsOf(root)
    BY ElementsAre DEF TreeSetInv, Kept
  <2>2. ts_first(root) = LeastOf(Elements) /\ ts_last(root) = GreatestOf(Elements)
    BY <2>1, EndsShape DEF ts_first, ts_last
  <2>3. ASSUME NEW e \in Element
        PROVE  /\ ts_contains(root, e) <=> e \in Elements
               /\ ts_ceiling(root, e) = LeastOf({x \in Elements : x >= e})
               /\ ts_higher(root, e) = LeastOf({x \in Elements : x > e})
               /\ ts_floor(root, e) = GreatestOf({x \in Elements : x <= e})
               /\ ts_lower(root, e) = GreatestOf({x \in Elements : x < e})
    <3>1. e \in Int
      BY TreeSetAssumption
    <3>2. QED
      BY <2>1, <3>1, QueriesShape
  <2>4. QED
    BY <2>2, <2>3 DEF QueriesAnswer, LeastOf, GreatestOf
<1>2. QED
  BY <1>1, TreeSetInvariant, PTL

(* The array that is allocated by the size has room for every element,     *)
(* however often the size was not counted down.                            *)
THEOREM AlwaysArrayLargeEnough == Spec => []ArrayLargeEnough
<1>1. TreeSetInv => ArrayLargeEnough
  BY ElementsAre DEF TreeSetInv, ArrayLargeEnough
<1>2. QED
  BY <1>1, TreeSetInvariant, PTL

(* Clearing or destroying a treeset hands over each element once.          *)
THEOREM AlwaysPurgedOnce == Spec => PurgedOnce
<1> DEFINE P == reply'.op \in {"clear", "destroy"} =>
                  /\ Len(purged') = Cardinality(Elements)
                  /\ {purged'[i] : i \in DOMAIN purged'} = Elements
<1>1. ASSUME TreeSetInv, [Next]_vars PROVE [P]_vars
  <2>1. Kept(root) /\ Elements = ElementsOf(root)
    BY <1>1, ElementsAre DEF TreeSetInv
  <2>2. /\ Len(postpurge(root)) = Cardinality(Elements)
        /\ Members(postpurge(root)) = Elements
    BY <2>1, Purged
  <2>3. ASSUME purged' = postpurge(root) PROVE P
    BY <2>2, <2>3 DEF Members
  <2>4. ASSUME NEW op, NEW arg, NEW ret, op \notin {"clear", "destroy"}, reply' = Reply(op, arg, ret)
        PROVE  P
    BY <2>4 DEF Reply
  <2> HIDE DEF P
  <2>5. ASSUME NEW e \in Element, Add(e) PROVE P
    BY <2>4, <2>5 DEF Add
  <2>6. ASSUME NEW e \in Element, Remove(e) PROVE P
    BY <2>4, <2>6 DEF Remove
  <2>7. CASE pollFirst
    BY <2>4, <2>7 DEF pollFirst, Poll
  <2>8. CASE pollLast
    BY <2>4, <2>8 DEF pollLast, Poll
  <2>9. CASE Clear
    BY <2>3, <2>9 DEF Clear
  <2>10. CASE Destroy
    BY <2>3, <2>10 DEF Destroy
  <2>11. CASE Create
    BY <2>4, <2>11 DEF Create, ts_create
  <2>12. QED
    BY <1>1, <2>5, <2>6, <2>7, <2>8, <2>9, <2>10, <2>11 DEF Next
<1>2. TreeSetInv /\ [Next]_vars => [P]_vars
  BY <1>1
<1>3. QED
  BY <1>2, TreeSetInvariant, PTL DEF Spec, PurgedOnce

(* The treeset is the ordered set that its header describes: each call     *)
(* changes the set of its elements, and answers, as that one does.         *)
THEOREM TreeSetIsSortedSet == Spec => ImplementsSortedSet
<1>1. Init => Abstract!SortedSetInit
  <2>1. populate(NULL) = << >>
    BY PopulateIs
  <2>2. DOMAIN << >> = {}
    BY NoMember
  <2>3. Init => Elements = {}
    BY <2>1, <2>2 DEF Init, Elements
  <2>4. QED
    BY <2>3 DEF Init, Abstract!SortedSetInit, Abstract!Reply, Reply
<1>2. ASSUME TreeSetInv, TreeSetInv', [Next]_vars
      PROVE  [Abstract!SortedSetNext]_(Abstract!setVars)
  <2>1. Kept(root) /\ Elements = ElementsOf(root)
    BY <1>2, ElementsAre DEF TreeSetInv
  <2>2. Elements' = ElementsOf(root')
    <3>1. Kept(root')
      BY <1>2 DEF TreeSetInv
    <3>2. QED
      BY <3>1, PopulateShape DEF Kept, Elements, Members
  <2>3. Abstract!First = LeastOf(Elements) /\ Abstract!Last = GreatestOf(Elements)
    BY DEF Abstract!First, Abstract!Last, LeastOf, GreatestOf
  <2>4. \A op, arg, ret : Abstract!Reply(op, arg, ret) = Reply(op, arg, ret)
    BY DEF Abstract!Reply, Reply
  <2>5. ASSUME NEW e \in Element, Add(e) PROVE Abstract!AddElement(e)
    <3>1. ts_contains(root, e) <=> e \in Elements
      BY <2>1, QueriesShape, TreeSetAssumption DEF Kept
    <3>2. CASE ts_contains(root, e)
      <4>1. root' = root /\ reply' = Reply("add", e, 0)
        BY <2>5, <3>2 DEF Add
      <4>2. QED
        BY <2>1, <2>2, <2>4, <3>1, <3>2, <4>1 DEF Abstract!AddElement
    <3>3. CASE ~ts_contains(root, e)
      <4>1. root' = insert(root, e).root /\ reply' = Reply("add", e, 1)
        BY <2>5, <3>3 DEF Add
      <4>2. ElementsOf(root') = {e} \cup ElementsOf(root)
        BY <2>1, <3>3, <4>1, Added
      <4>3. QED
        BY <2>1, <2>2, <2>4, <3>1, <3>3, <4>1, <4>2 DEF Abstract!AddElement
    <3>4. QED
      BY <3>2, <3>3
  <2>6. ASSUME NEW e \in Element, Remove(e) PROVE Abstract!RemoveElement(e)
    <3>1. ts_contains(root, e) <=> e \in Elements
      BY <2>1, QueriesShape, TreeSetAssumption DEF Kept
    <3>2. CASE ts_contains(root, e)
      <4>1. root' = remove(root, e).root /\ reply' = Reply("remove", e, 1)
        BY <2>6, <3>2 DEF Remove
      <4>2. ElementsOf(root') = ElementsOf(root) \ {e}
        BY <2>1, <3>1, <3>2, <4>1, Taken
      <4>3. QED
        BY <2>1, <2>2, <2>4, <3>1, <3>2, <4>1, <4>2 DEF Abstract!RemoveElement
    <3>3. CASE ~ts_contains(root, e)
      <4>1. root' = root /\ reply' = Reply("remove", e, 0)
        BY <2>6, <3>3 DEF Remove
      <4>2. QED
        BY <2>1, <2>2, <2>4, <3>1, <3>3, <4>1 DEF Abstract!RemoveElement
    <3>4. QED
      BY <3>2, <3>3
  <2>7. ASSUME NEW op, NEW node, NEW end, Poll(op, node), end = Found(node),
               node = findMin(root) \/ node = findMax(root)
        PROVE  Abstract!PollElement(op, end)
    <3>1. \/ /\ ElementsOf(root) = {} /\ end = {} /\ root' = root
             /\ reply' = Reply(op, 0, 0)
          \/ \E e \in ElementsOf(root) :
               /\ end = {e} /\ root' = remove(root, e).root /\ reply' = Reply(op, e, 1)
      BY <2>1, <2>7, Polled
    <3>2. CASE end = {} /\ root' = root /\ reply' = Reply(op, 0, 0)
      BY <2>1, <2>2, <2>4, <3>2 DEF Abstract!PollElement
    <3>3. ASSUME NEW e \in ElementsOf(root), end = {e}, root' = remove(root, e).root,
                 reply' = Reply(op, e, 1)
          PROVE  Abstract!PollElement(op, end)
      <4>1. ElementsOf(root') = ElementsOf(root) \ {e}
        BY <2>1, <3>3, Taken
      <4>2. QED
        BY <2>1, <2>2, <2>4, <3>3, <4>1 DEF Abstract!PollElement
    <3>4. QED
      BY <3>1, <3>2, <3>3
  <2>8. ASSUME NEW op \in {"create", "clear", "destroy"}, root' = NULL, reply' = Reply(op, 0, 1)
        PROVE  Abstract!SortedSetNext
    <3>1. Elements' = {}
      BY <2>2, <2>8, EmptyTree
    <3>2. Abstract!Empty(op)
      BY <2>4, <2>8, <3>1 DEF Abstract!Empty
    <3>3. QED
      BY <3>2 DEF Abstract!SortedSetNext
  <2>9. CASE pollFirst
    <3>1. Found(findMin(root)) = Abstract!First
      BY <2>1, <2>3, Ends
    <3>2. Abstract!PollElement("pollFirst", Abstract!First)
      BY <2>7, <2>9, <3>1 DEF pollFirst
    <3>3. QED
      BY <3>2 DEF Abstract!SortedSetNext
  <2>10. CASE pollLast
    <3>1. Found(findMax(root)) = Abstract!Last
      BY <2>1, <2>3, Ends
    <3>2. Abstract!PollElement("pollLast", Abstract!Last)
      BY <2>7, <2>10, <3>1 DEF pollLast
    <3>3. QED
      BY <3>2 DEF Abstract!SortedSetNext
  <2>11. CASE Clear
    BY <2>8, <2>11 DEF Clear
  <2>12. CASE Destroy
    BY <2>8, <2>12 DEF Destroy
  <2>13. CASE Create
    BY <2>8, <2>13 DEF Create, ts_create
  <2>14. CASE UNCHANGED vars
    BY <2>1, <2>2, <2>14 DEF vars, Abstract!setVars
  <2>15. ASSUME NEW e \in Element, Add(e) \/ Remove(e) PROVE Abstract!SortedSetNext
    BY <2>5, <2>6, <2>15 DEF Abstract!SortedSetNext
  <2>16. QED
    BY <1>2, <2>9, <2>10, <2>11, <2>12, <2>13, <2>14, <2>15 DEF Next
<1>3. TreeSetInv /\ TreeSetInv' /\ [Next]_vars => [Abstract!SortedSetNext]_(Abstract!setVars)
  BY <1>2
<1>4. QED
  BY <1>1, <1>3, TreeSetInvariant, PTL DEF Spec, ImplementsSortedSet, Abstract!SortedSetSpec
=============================================================================
