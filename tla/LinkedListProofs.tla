--------------------------- MODULE LinkedListProofs ---------------------------
(***************************************************************************)
(* The nodes of a linked list stay in one ring around the sentinel, all    *)
(* the others on the free list, whatever calls are made and whenever       *)
(* malloc fails; seen from outside, the list is a sequence.                *)
(***************************************************************************)
EXTENDS LinkedList, DataInduction, SequenceTheorems

Place == Node \cup {Sentinel}

Memory ==
  [next : [Place -> Place \cup {NULL}], prev : [Place -> Place \cup {NULL}],
   element : [Place -> Element \cup {NULL}], heap : SUBSET Node, freel : Node \cup {NULL}]

(* Following next from the sentinel leads to the n nodes c[1], ..., c[n]   *)
(* and back, and following prev the other way round.                       *)
Ring(next, prev, n, c) ==
  /\ c \in [0..(n + 1) -> Place] /\ c[0] = Sentinel /\ c[n + 1] = Sentinel
  /\ \A i \in 1..n : c[i] \in Node
  /\ \A i, j \in 1..n : c[i] = c[j] => i = j
  /\ \A i \in 0..n : next[c[i]] = c[i + 1] /\ prev[c[i + 1]] = c[i]

(* Following next from head leads to the k nodes f[1], ..., f[k] and NULL. *)
FreeList(next, head, k, f) ==
  /\ f \in [1..(k + 1) -> Node \cup {NULL}] /\ f[1] = head /\ f[k + 1] = NULL
  /\ \A i \in 1..k : f[i] \in Node /\ next[f[i]] = f[i + 1]
  /\ \A i, j \in 1..k : f[i] = f[j] => i = j

(* The node p is one of the first n that c goes through.                   *)
On(c, n, p) == \E i \in 1..n : c[i] = p

(* Every allocated node is either in the ring or on the free list.         *)
Shared(heap, n, c, k, f) ==
  \A p \in Node : (p \in heap <=> On(c, n, p) \/ On(f, k, p)) /\ ~(On(c, n, p) /\ On(f, k, p))

LEMMA Places ==
  /\ Sentinel \in Place /\ Sentinel \notin Node /\ Node \subseteq Place
  /\ NULL \notin Place /\ NULL \notin Element
BY LinkedListAssumption DEF Place, Node, Sentinel

(* The places of a ring are different, with the sentinel at either end.    *)
LEMMA RingDistinct ==
  ASSUME NEW n \in Nat, NEW next, NEW prev, NEW c, Ring(next, prev, n, c)
  PROVE  /\ \A i, j \in 0..n : c[i] = c[j] => i = j
         /\ \A i, j \in 1..(n + 1) : c[i] = c[j] => i = j
<1>1. \A i \in 0..n : i = 0 \/ i \in 1..n
  OBVIOUS
<1>2. \A i \in 1..(n + 1) : i = n + 1 \/ i \in 1..n
  OBVIOUS
<1>3. \A i \in 1..n : c[i] # Sentinel
  BY Places DEF Ring
<1>4. c[0] = Sentinel /\ c[n + 1] = Sentinel /\ \A i, j \in 1..n : c[i] = c[j] => i = j
  BY DEF Ring
<1>5. QED
  BY <1>1, <1>2, <1>3, <1>4

(* A ring, and a free list, that a change to other nodes leaves alone.     *)
LEMMA RingKept ==
  ASSUME NEW n \in Nat, NEW next, NEW prev, NEW c, Ring(next, prev, n, c),
         NEW next2, NEW prev2,
         \A i \in 0..n : next2[c[i]] = next[c[i]] /\ prev2[c[i + 1]] = prev[c[i + 1]]
  PROVE  Ring(next2, prev2, n, c)
BY DEF Ring

LEMMA FreeKept ==
  ASSUME NEW k \in Nat, NEW next, NEW head, NEW f, FreeList(next, head, k, f),
         NEW next2, \A i \in 1..k : next2[f[i]] = next[f[i]]
  PROVE  FreeList(next2, head, k, f)
BY DEF FreeList

(* putEntry puts a node before the others on the free list.                *)
LEMMA FreePushed ==
  ASSUME NEW k \in Nat, NEW next, NEW head, NEW f, FreeList(next, head, k, f),
         NEW p \in Node, ~On(f, k, p),
         NEW next2, next2[p] = head, \A q \in Node : q # p => next2[q] = next[q]
  PROVE  \E g : FreeList(next2, p, k + 1, g) /\ \A q \in Node : On(g, k + 1, q) <=> On(f, k, q) \/ q = p
<1> DEFINE g == [i \in 1..(k + 2) |-> IF i = 1 THEN p ELSE f[i - 1]]
<1>1. /\ f \in [1..(k + 1) -> Node \cup {NULL}] /\ f[1] = head /\ f[k + 1] = NULL
      /\ \A i \in 1..k : f[i] \in Node /\ f[i] # p /\ next[f[i]] = f[i + 1]
      /\ \A i, j \in 1..k : f[i] = f[j] => i = j
  BY DEF FreeList, On
<1>2. \A i \in 1..(k + 1) : i + 1 \in 1..(k + 2) /\ g[i + 1] = f[i]
  OBVIOUS
<1>3. g[1] = p /\ g \in [1..(k + 2) -> Node \cup {NULL}]
  BY <1>1
<1>4. \A i \in 1..(k + 2) : i = 1 \/ (i - 1 \in 1..(k + 1) /\ g[i] = f[i - 1])
  OBVIOUS
<1> HIDE DEF g
<1>5. ASSUME NEW i \in 1..(k + 1) PROVE g[i] \in Node /\ next2[g[i]] = g[i + 1]
  <2>1. CASE i = 1
    BY <1>1, <1>2, <1>3, <2>1
  <2>2. CASE i # 1
    <3>1. i - 1 \in 1..k /\ (i - 1) + 1 = i /\ g[i] = f[i - 1] /\ g[i + 1] = f[i]
      BY <1>2, <1>4, <2>2
    <3>2. QED
      BY <1>1, <3>1
  <2>3. QED
    BY <2>1, <2>2
<1>6. ASSUME NEW i \in 1..(k + 1), NEW j \in 1..(k + 1), g[i] = g[j] PROVE i = j
  <2>1. \A l \in 1..(k + 1) : l = 1 \/ (l - 1 \in 1..k /\ g[l] = f[l - 1])
    BY <1>4
  <2>2. QED
    BY <1>1, <1>3, <1>6, <2>1
<1>7. FreeList(next2, p, k + 1, g)
  BY <1>1, <1>2, <1>3, <1>5, <1>6 DEF FreeList
<1>8. ASSUME NEW q \in Node PROVE On(g, k + 1, q) <=> On(f, k, q) \/ q = p
  <2>1. ASSUME On(g, k + 1, q) PROVE On(f, k, q) \/ q = p
    BY <1>3, <1>4, <2>1 DEF On
  <2>2. On(f, k, q) => On(g, k + 1, q)
    BY <1>2 DEF On
  <2>3. q = p => On(g, k + 1, q)
    BY <1>3 DEF On
  <2>4. QED
    BY <2>1, <2>2, <2>3
<1>9. QED
  BY <1>7, <1>8

(* getEntry takes the first node off the free list.                        *)
LEMMA FreePopped ==
  ASSUME NEW k \in Nat, NEW next, NEW head, NEW f, FreeList(next, head, k, f), head # NULL
  PROVE  /\ k # 0 /\ head \in Node /\ On(f, k, head)
         /\ \E g : /\ FreeList(next, next[head], k - 1, g)
                   /\ \A q \in Node : On(g, k - 1, q) <=> On(f, k, q) /\ q # head
<1> DEFINE g == [i \in 1..k |-> f[i + 1]]
<1>1. /\ f \in [1..(k + 1) -> Node \cup {NULL}] /\ f[1] = head /\ f[k + 1] = NULL
      /\ \A i \in 1..k : f[i] \in Node /\ next[f[i]] = f[i + 1]
      /\ \A i, j \in 1..k : f[i] = f[j] => i = j
  BY DEF FreeList
<1>2. k # 0 /\ k - 1 \in Nat /\ 1 \in 1..k
  BY <1>1
<1>3. \A i \in 1..k : i + 1 \in 1..(k + 1) /\ g[i] = f[i + 1]
  OBVIOUS
<1>4. g \in [1..k -> Node \cup {NULL}]
  BY <1>1
<1> HIDE DEF g
<1>5. \A i \in 1..(k - 1) : i \in 1..k /\ i + 1 \in 1..k
  OBVIOUS
<1>6. FreeList(next, next[head], k - 1, g)
  BY <1>1, <1>2, <1>3, <1>4, <1>5 DEF FreeList
<1>7. ASSUME NEW q \in Node PROVE On(g, k - 1, q) <=> On(f, k, q) /\ q # head
  <2>1. \A i \in 1..k : i = 1 \/ (i - 1 \in 1..(k - 1) /\ g[i - 1] = f[i])
    BY <1>3
  <2>2. On(f, k, q) /\ q # head => On(g, k - 1, q)
    BY <1>1, <2>1 DEF On
  <2>3. \A i \in 1..(k - 1) : g[i] = f[i + 1] /\ i + 1 # 1
    BY <1>3, <1>5
  <2>4. On(g, k - 1, q) => On(f, k, q) /\ q # head
    BY <1>1, <1>2, <1>5, <2>3 DEF On
  <2>5. QED
    BY <2>2, <2>4
<1>8. QED
  BY <1>1, <1>2, <1>6, <1>7 DEF On
-----------------------------------------------------------------------------
(* n different nodes are at most MaxNodes.                                 *)
LEMMA RingFits ==
  ASSUME NEW n \in Nat, NEW c, \A i \in 1..n : c[i] \in Node, \A i, j \in 1..n : c[i] = c[j] => i = j
  PROVE  n <= MaxNodes
<1> DEFINE f == [i \in 1..n |-> c[i]]
<1>1. /\ IsFiniteSet(1..n) /\ Cardinality(1..n) = n
      /\ IsFiniteSet(Node) /\ Cardinality(Node) = MaxNodes
  BY FS_Interval, LinkedListAssumption DEF Node
<1>2. f \in [1..n -> Node] /\ \A i, j \in 1..n : f[i] = f[j] => i = j
  OBVIOUS
<1> HIDE DEF f
<1>3. ~(Cardinality(Node) < Cardinality(1..n))
  BY <1>1, <1>2, FS_PigeonHole
<1>4. QED
  BY <1>1, <1>3, LinkedListAssumption

(* The loop that walks along a list reaches its nodes one after another.   *)
LEMMA NthIs ==
  ASSUME NEW mem, NEW n \in Nat, NEW c, Ring(mem.next, mem.prev, n, c)
  PROVE  \A i \in 0..(n + 1) : Nth(mem, i) = c[i]
<1> DEFINE N == MaxNodes + 1
           On0(x) == \E i \in 0..n : x = c[i]
           X == [k \in 0..N |-> {x \in Place : On0(x) /\ (k \in 0..(n + 1) => x = c[k])}]
           step == [p \in Place \X (1..N) |-> mem.next[p[1]]]
           Walks(w) == w = [k \in 0..N |-> IF k = 0 THEN Sentinel ELSE mem.next[w[k - 1]]]
           walk == CHOOSE w : Walks(w)
<1>0. N \in Nat
  BY LinkedListAssumption
<1> USE <1>0
<1>1. /\ c \in [0..(n + 1) -> Place] /\ c[0] = Sentinel /\ c[n + 1] = Sentinel
      /\ \A i \in 0..n : mem.next[c[i]] = c[i + 1]
  BY DEF Ring
<1>2. ASSUME NEW k \in 1..N, NEW x \in X[k - 1] PROVE mem.next[x] \in X[k]
  <2>1. k - 1 \in 0..N /\ k \in 0..N
    OBVIOUS
  <2>2. PICK i \in 0..n : x = c[i]
    BY <2>1
  <2>3. mem.next[x] = c[i + 1] /\ mem.next[x] \in Place
    BY <1>1, <2>2
  <2>4. \E j \in 0..n : mem.next[x] = c[j]
    <3>1. CASE i = n
      <4>1. mem.next[x] = c[0] /\ 0 \in 0..n
        BY <1>1, <2>3, <3>1
      <4>2. QED
        BY <4>1
    <3>2. CASE i # n
      <4>1. i + 1 \in 0..n
        BY <3>2
      <4>2. QED
        BY <2>3, <4>1
    <3>3. QED
      BY <3>1, <3>2
  <2>5. ASSUME k \in 0..(n + 1) PROVE mem.next[x] = c[k]
    <3>1. k - 1 \in 0..n /\ k - 1 \in 0..(n + 1) /\ (k - 1) + 1 = k
      BY <2>5
    <3>2. x = c[k - 1]
      BY <2>1, <3>1
    <3>3. QED
      BY <1>1, <3>1, <3>2
  <2>6. QED
    BY <2>1, <2>3, <2>4, <2>5
<1>3. Sentinel \in X[0] /\ N \in Nat
  BY <1>1, Places, LinkedListAssumption
<1>4. \E w : Walks(w)
  <2>1. \A k \in 1..N : \A x \in X[k - 1] : x \in Place
    <3>1. \A k \in 1..N : k - 1 \in 0..N
      OBVIOUS
    <3>2. QED
      BY <3>1
  <2>2. Leads(X, N, step)
    BY <1>2, <2>1 DEF Leads
  <2>3. PICK w : Repeats(w, N, Sentinel, step) /\ \A k \in 0..N : w[k] \in X[k]
    <3> HIDE DEF X, step, N
    <3>1. QED
      BY <1>3, <2>2, InvariantRecursion
  <2>4. \A k \in 1..N : step[<<w[k - 1], k>>] = mem.next[w[k - 1]]
    <3>1. \A k \in 1..N : w[k - 1] \in Place
      BY <2>1, <2>3
    <3>2. QED
      BY <3>1
  <2>5. Walks(w)
    <3> HIDE DEF step, N
    <3>1. w = [k \in 0..N |-> IF k = 0 THEN Sentinel ELSE step[<<w[k - 1], k>>]]
      BY <2>3 DEF Repeats
    <3>2. \A k \in 0..N : k = 0 \/ k \in 1..N
      BY <1>3
    <3>3. \A k \in 0..N : w[k] = IF k = 0 THEN Sentinel ELSE mem.next[w[k - 1]]
      BY <2>4, <3>1, <3>2
    <3>4. w = [k \in 0..N |-> w[k]]
      BY <3>1
    <3>5. QED
      BY <3>3, <3>4
  <2>6. QED
    <3> HIDE DEF Walks
    <3>1. QED
      BY <2>5
<1>5. Walks(walk)
  <2> HIDE DEF Walks
  <2>1. QED
    BY <1>4
<1>6. \A i : Nth(mem, i) = walk[i]
  BY DEF Nth
<1> HIDE DEF walk
<1>7. walk[0] = Sentinel /\ \A k \in 1..N : walk[k] = mem.next[walk[k - 1]]
  BY <1>5, <1>3
<1>8. \A k \in 0..N : walk[k] \in X[k]
  <2>1. walk[0] \in X[0]
    BY <1>3, <1>7
  <2>2. \A k \in 1..N : walk[k - 1] \in X[k - 1] => walk[k] \in X[k]
    BY <1>2, <1>7
  <2> HIDE DEF X, N
  <2>3. QED
    BY <1>3, <2>1, <2>2, InvariantValues
<1>9. n <= MaxNodes
  BY RingFits DEF Ring
<1>10. \A i \in 0..(n + 1) : i \in 0..N
  BY <1>9, LinkedListAssumption
<1>11. ASSUME NEW i \in 0..(n + 1) PROVE walk[i] = c[i]
  <2>1. i \in 0..N /\ walk[i] \in X[i]
    BY <1>8, <1>10
  <2>2. QED
    BY <2>1
<1>12. QED
  BY <1>6, <1>11

(* ll_destroy's walk along the free list passes its nodes.                 *)
LEMMA FreeNodesIs ==
  ASSUME NEW mem, NEW k \in Nat, NEW f, FreeList(mem.next, mem.freel, k, f)
  PROVE  FreeNodes(mem) = {p \in Node : On(f, k, p)}
<1> DEFINE N == MaxNodes + 1
           X == [i \in 0..N |-> {IF i < k THEN f[i + 1] ELSE NULL}]
           step == [p \in (Node \cup {NULL}) \X (1..N) |->
                      IF p[1] = NULL THEN NULL ELSE mem.next[p[1]]]
           Walks(w) ==
             w = [i \in 0..N |-> IF i = 0 THEN mem.freel
                                ELSE IF w[i - 1] = NULL THEN NULL ELSE mem.next[w[i - 1]]]
           walk == CHOOSE w : Walks(w)
<1>0. N \in Nat
  BY LinkedListAssumption
<1> USE <1>0
<1>1. /\ f \in [1..(k + 1) -> Node \cup {NULL}] /\ f[1] = mem.freel /\ f[k + 1] = NULL
      /\ \A i \in 1..k : f[i] \in Node /\ mem.next[f[i]] = f[i + 1]
  BY DEF FreeList
<1>2. NULL \notin Node
  BY Places
<1>3. ASSUME NEW i \in 1..N, NEW x \in X[i - 1]
      PROVE  x \in Node \cup {NULL} /\ (IF x = NULL THEN NULL ELSE mem.next[x]) \in X[i]
  <2>1. i - 1 \in 0..N /\ i \in 0..N
    OBVIOUS
  <2>2. x = IF i - 1 < k THEN f[i] ELSE NULL
    BY <2>1
  <2>3. CASE i - 1 < k
    <3>1. i \in 1..k
      BY <2>3
    <3>2. x = f[i] /\ x \in Node /\ mem.next[x] = f[i + 1]
      BY <1>1, <2>2, <2>3, <3>1
    <3>3. i < k \/ i = k
      BY <3>1
    <3>4. QED
      BY <1>1, <1>2, <2>1, <3>2, <3>3
  <2>4. CASE ~(i - 1 < k)
    <3>1. x = NULL /\ ~(i < k)
      BY <2>2, <2>4
    <3>2. QED
      BY <2>1, <3>1
  <2>5. QED
    BY <2>3, <2>4
<1>4. mem.freel \in X[0] /\ N \in Nat
  <2>1. N \in Nat /\ 0 \in 0..N
    BY LinkedListAssumption
  <2>2. mem.freel = IF 0 < k THEN f[0 + 1] ELSE NULL
    BY <1>1
  <2>3. QED
    BY <2>1, <2>2
<1>5. \E w : Walks(w)
  <2>1. Leads(X, N, step)
    BY <1>3 DEF Leads
  <2>2. PICK w : Repeats(w, N, mem.freel, step) /\ \A i \in 0..N : w[i] \in X[i]
    <3> HIDE DEF X, step, N
    <3>1. QED
      BY <1>4, <2>1, InvariantRecursion
  <2>3. ASSUME NEW i \in 1..N
        PROVE  step[<<w[i - 1], i>>] = IF w[i - 1] = NULL THEN NULL ELSE mem.next[w[i - 1]]
    <3>1. i - 1 \in 0..N
      OBVIOUS
    <3>2. w[i - 1] \in Node \cup {NULL}
      BY <1>3, <2>2, <3>1
    <3>3. QED
      BY <3>2
  <2>4. Walks(w)
    <3> HIDE DEF step, N
    <3>1. w = [i \in 0..N |-> IF i = 0 THEN mem.freel ELSE step[<<w[i - 1], i>>]]
      BY <2>2 DEF Repeats
    <3>2. \A i \in 0..N : i = 0 \/ i \in 1..N
      BY <1>4
    <3>3. \A i \in 0..N :
            w[i] = IF i = 0 THEN mem.freel
                   ELSE IF w[i - 1] = NULL THEN NULL ELSE mem.next[w[i - 1]]
      BY <2>3, <3>1, <3>2
    <3>4. w = [i \in 0..N |-> w[i]]
      BY <3>1
    <3>5. QED
      BY <3>3, <3>4
  <2>5. QED
    <3> HIDE DEF Walks
    <3>1. QED
      BY <2>4
<1>6. Walks(walk)
  <2> HIDE DEF Walks
  <2>1. QED
    BY <1>5
<1>7. FreeNodes(mem) = {walk[i] : i \in 0..MaxNodes} \ {NULL}
  BY DEF FreeNodes
<1> HIDE DEF walk
<1>8. /\ walk[0] = mem.freel
      /\ \A i \in 1..N : walk[i] = IF walk[i - 1] = NULL THEN NULL ELSE mem.next[walk[i - 1]]
  BY <1>6, <1>4
<1>9. \A i \in 0..N : walk[i] \in X[i]
  <2>1. walk[0] \in X[0]
    BY <1>4, <1>8
  <2>2. \A i \in 1..N : walk[i - 1] \in X[i - 1] => walk[i] \in X[i]
    BY <1>3, <1>8
  <2> HIDE DEF X, N
  <2>3. QED
    BY <1>4, <2>1, <2>2, InvariantValues
<1>10. k <= MaxNodes
  BY RingFits DEF FreeList
<1>11. \A i \in 0..MaxNodes : walk[i] = IF i < k THEN f[i + 1] ELSE NULL
  <2>1. \A i \in 0..MaxNodes : i \in 0..N
    BY LinkedListAssumption
  <2>2. QED
    BY <1>9, <2>1
<1>12. ASSUME NEW i \in 1..k PROVE f[i] \in FreeNodes(mem)
  <2>1. i - 1 \in 0..MaxNodes /\ i - 1 < k /\ (i - 1) + 1 = i
    BY <1>10, LinkedListAssumption
  <2>2. QED
    BY <1>1, <1>2, <1>7, <1>11, <2>1
<1>13. ASSUME NEW p \in FreeNodes(mem) PROVE p \in Node /\ On(f, k, p)
  <2>1. PICK i \in 0..MaxNodes : p = walk[i] /\ p # NULL
    BY <1>7
  <2>2. i + 1 \in 1..k /\ p = f[i + 1]
    BY <1>11, <2>1, LinkedListAssumption
  <2>3. QED
    BY <1>1, <2>2 DEF On
<1>14. QED
  BY <1>12, <1>13 DEF On
-----------------------------------------------------------------------------
(* What putEntry changes.                                                  *)
LEMMA PutEntryIs ==
  ASSUME NEW mem \in Memory, NEW p \in Node
  PROVE  /\ putEntry(mem, p) \in Memory
         /\ putEntry(mem, p).heap = mem.heap /\ putEntry(mem, p).prev = mem.prev
         /\ putEntry(mem, p).freel = p /\ putEntry(mem, p).next[p] = mem.freel
         /\ \A q \in Place : q # p => /\ putEntry(mem, p).next[q] = mem.next[q]
                                      /\ putEntry(mem, p).element[q] = mem.element[q]
BY Places DEF putEntry, Memory

(* After i rounds of getEntry's loop the free list has the new nodes up to *)
(* i, and nothing else has changed.                                        *)
Filled(mem, fresh, i, s) ==
  /\ s \in Memory /\ s.heap = mem.heap /\ s.prev = mem.prev
  /\ \A q \in Place \ fresh : s.next[q] = mem.next[q] /\ s.element[q] = mem.element[q]
  /\ \E k \in Nat : \E g : /\ FreeList(s.next, s.freel, k, g)
                           /\ \A q \in Node : On(g, k, q) <=> q \in fresh /\ q <= i

LEMMA FilledOn ==
  ASSUME NEW mem, NEW fresh \in SUBSET Node, NEW i \in 1..MaxNodes, NEW s, Filled(mem, fresh, i - 1, s)
  PROVE  Filled(mem, fresh, i, IF i \in fresh THEN putEntry(s, i) ELSE s)
<1>1. PICK k, g : /\ k \in Nat
                  /\ FreeList(s.next, s.freel, k, g)
                  /\ \A q \in Node : On(g, k, q) <=> q \in fresh /\ q <= i - 1
  BY DEF Filled
<1>2. i \in Node /\ \A q \in Node : q \in Int
  BY LinkedListAssumption DEF Node
<1>3. CASE i \in fresh
  <2> DEFINE r == putEntry(s, i)
  <2>1. /\ r \in Memory /\ r.heap = s.heap /\ r.prev = s.prev /\ r.freel = i
        /\ r.next[i] = s.freel
        /\ \A q \in Place : q # i => r.next[q] = s.next[q] /\ r.element[q] = s.element[q]
    BY <1>2, PutEntryIs DEF Filled
  <2> HIDE DEF r
  <2>2. ~On(g, k, i)
    BY <1>1, <1>2
  <2>3. PICK h : /\ FreeList(r.next, i, k + 1, h)
                 /\ \A q \in Node : On(h, k + 1, q) <=> On(g, k, q) \/ q = i
    BY <1>1, <1>2, <2>1, <2>2, Places, FreePushed
  <2>4. \A q \in Node : On(h, k + 1, q) <=> q \in fresh /\ q <= i
    <3>1. \A q \in Node : q <= i <=> q <= i - 1 \/ q = i
      BY <1>2
    <3>2. QED
      BY <1>1, <1>3, <2>3, <3>1
  <2>5. \A q \in Place \ fresh : r.next[q] = mem.next[q] /\ r.element[q] = mem.element[q]
    BY <1>3, <2>1 DEF Filled
  <2>6. Filled(mem, fresh, i, r)
    <3>1. k + 1 \in Nat
      BY <1>1
    <3>2. \E l \in Nat : \E a : /\ FreeList(r.next, r.freel, l, a)
                                /\ \A q \in Node : On(a, l, q) <=> q \in fresh /\ q <= i
      BY <2>1, <2>3, <2>4, <3>1
    <3>3. QED
      BY <2>1, <2>5, <3>2 DEF Filled
  <2>7. QED
    BY <1>3, <2>6 DEF r
<1>4. CASE i \notin fresh
  <2>1. \A q \in Node : On(g, k, q) <=> q \in fresh /\ q <= i
    BY <1>1, <1>2, <1>4
  <2>2. QED
    BY <1>1, <1>4, <2>1 DEF Filled
<1>5. QED
  BY <1>3, <1>4

(* An empty free list becomes one of new nodes.                            *)
LEMMA RefillIs ==
  ASSUME NEW mem \in Memory, mem.freel = NULL, NEW j
  PROVE  \E fresh \in SUBSET (Node \ mem.heap) :
           /\ Refill(mem, j) \in Memory /\ Refill(mem, j).heap = mem.heap \cup fresh
           /\ Refill(mem, j).prev = mem.prev
           /\ \A q \in Place \ fresh : /\ Refill(mem, j).next[q] = mem.next[q]
                                       /\ Refill(mem, j).element[q] = mem.element[q]
           /\ \E k \in Nat : \E g : /\ FreeList(Refill(mem, j).next, Refill(mem, j).freel, k, g)
                                    /\ \A q \in Node : On(g, k, q) <=> q \in fresh
<1> DEFINE N == MaxNodes
           fresh == {q \in Node \ mem.heap : Cardinality({x \in Node \ mem.heap : x < q}) < j}
           next(i, s) == IF i \in fresh THEN putEntry(s, i) ELSE s
           X == [i \in 0..N |-> {s \in Memory : Filled(mem, fresh, i, s)}]
           step == [p \in Memory \X (1..N) |-> next(p[2], p[1])]
           Fills(w) == w = [i \in 0..N |-> IF i = 0 THEN mem ELSE next(i, w[i - 1])]
           fill == CHOOSE w : Fills(w)
<1>1. Refill(mem, j) = [fill[N] EXCEPT !.heap = @ \cup fresh]
  BY DEF Refill
<1>2. N \in Nat /\ fresh \subseteq Node \ mem.heap
  BY LinkedListAssumption
<1> HIDE DEF fresh, N
<1>3. ASSUME NEW i \in 1..N, NEW s \in X[i - 1] PROVE s \in Memory /\ next(i, s) \in X[i]
  <2>1. i - 1 \in 0..N /\ i \in 0..N
    BY <1>2
  <2>2. s \in Memory /\ Filled(mem, fresh, i - 1, s)
    BY <2>1
  <2>3. Filled(mem, fresh, i, next(i, s))
    BY <1>2, <2>2, FilledOn DEF N
  <2>4. next(i, s) \in Memory
    BY <2>3 DEF Filled
  <2>5. QED
    BY <2>1, <2>2, <2>3, <2>4
<1>4. mem \in X[0]
  <2> DEFINE g == [i \in 1..1 |-> NULL]
  <2>1. FreeList(mem.next, mem.freel, 0, g)
    BY DEF FreeList
  <2>2. \A q \in Node : ~On(g, 0, q) /\ ~(q <= 0)
    BY LinkedListAssumption DEF On, Node
  <2> HIDE DEF g
  <2>3. \E k \in Nat : \E a : /\ FreeList(mem.next, mem.freel, k, a)
                              /\ \A q \in Node : On(a, k, q) <=> q \in fresh /\ q <= 0
    BY <2>1, <2>2
  <2>4. Filled(mem, fresh, 0, mem)
    BY <2>3 DEF Filled
  <2>5. QED
    BY <1>2, <2>4
<1>5. \E w : Fills(w)
  <2>1. Leads(X, N, step)
    <3>1. ASSUME NEW i \in 1..N, NEW s \in X[i - 1] PROVE step[<<s, i>>] \in X[i]
      <4>1. s \in Memory /\ next(i, s) \in X[i]
        BY <1>3
      <4>2. step[<<s, i>>] = next(i, s)
        BY <4>1
      <4>3. QED
        BY <4>1, <4>2
    <3>2. QED
      BY <3>1 DEF Leads
  <2>2. PICK w : Repeats(w, N, mem, step) /\ \A i \in 0..N : w[i] \in X[i]
    <3> HIDE DEF X, step
    <3>1. QED
      BY <1>2, <1>4, <2>1, InvariantRecursion
  <2>3. ASSUME NEW i \in 1..N PROVE step[<<w[i - 1], i>>] = next(i, w[i - 1])
    <3>1. i - 1 \in 0..N
      BY <1>2
    <3>2. w[i - 1] \in Memory
      BY <1>3, <2>2, <3>1
    <3>3. QED
      BY <3>2
  <2>4. Fills(w)
    <3> HIDE DEF step, next
    <3>1. w = [i \in 0..N |-> IF i = 0 THEN mem ELSE step[<<w[i - 1], i>>]]
      BY <2>2 DEF Repeats
    <3>2. \A i \in 0..N : i = 0 \/ i \in 1..N
      BY <1>2
    <3>3. \A i \in 0..N : w[i] = IF i = 0 THEN mem ELSE next(i, w[i - 1])
      BY <2>3, <3>1, <3>2
    <3>4. w = [i \in 0..N |-> w[i]]
      BY <3>1
    <3>5. QED
      BY <3>3, <3>4
  <2>5. QED
    <3> HIDE DEF Fills
    <3>1. QED
      BY <2>4
<1>6. Fills(fill)
  <2> HIDE DEF Fills
  <2>1. QED
    BY <1>5
<1> HIDE DEF fill
<1>7. fill[0] = mem /\ \A i \in 1..N : fill[i] = next(i, fill[i - 1])
  <2> HIDE DEF next
  <2>1. QED
    BY <1>2, <1>6
<1>8. \A i \in 0..N : fill[i] \in X[i]
  <2>1. fill[0] \in X[0]
    BY <1>4, <1>7
  <2>2. ASSUME NEW i \in 1..N, fill[i - 1] \in X[i - 1] PROVE fill[i] \in X[i]
    <3>1. next(i, fill[i - 1]) \in X[i]
      BY <1>3, <2>2
    <3> HIDE DEF next, X
    <3>2. QED
      BY <1>7, <3>1
  <2> HIDE DEF X
  <2>3. QED
    BY <1>2, <2>1, <2>2, InvariantValues
<1>9. fill[N] \in Memory /\ Filled(mem, fresh, N, fill[N])
  BY <1>2, <1>8
<1> DEFINE s == fill[N]
           r == [s EXCEPT !.heap = @ \cup fresh]
<1>10. /\ r \in Memory /\ r.heap = mem.heap \cup fresh /\ r.prev = mem.prev
       /\ r.next = s.next /\ r.element = s.element /\ r.freel = s.freel
  <2> HIDE DEF s
  <2>1. s \in Memory /\ s.heap = mem.heap /\ s.prev = mem.prev
    BY <1>9 DEF s, Filled
  <2>2. QED
    BY <1>2, <2>1 DEF Memory
<1> HIDE DEF s, r
<1>11. \A q \in Place \ fresh : r.next[q] = mem.next[q] /\ r.element[q] = mem.element[q]
  BY <1>9, <1>10 DEF Filled, s
<1>12. \E k \in Nat : \E g : FreeList(r.next, r.freel, k, g) /\ \A q \in Node : On(g, k, q) <=> q \in fresh
  <2>1. PICK k, g : /\ k \in Nat
                    /\ FreeList(s.next, s.freel, k, g)
                    /\ \A q \in Node : On(g, k, q) <=> q \in fresh /\ q <= N
    BY <1>9 DEF Filled, s
  <2>2. \A q \in Node : q <= N
    BY LinkedListAssumption DEF Node, N
  <2>3. QED
    BY <1>10, <2>1, <2>2
<1>13. QED
  BY <1>1, <1>2, <1>10, <1>11, <1>12 DEF r, s
-----------------------------------------------------------------------------
(* A state of purge's loop, and one round of it.                           *)
Purging == [m : Memory, uf : Seq(Element), cur : Place]

Round(s) ==
  IF s.cur = Sentinel THEN s
  ELSE [m |-> putEntry(s.m, s.cur), uf |-> Append(s.uf, s.m.element[s.cur]),
        cur |-> s.m.next[s.cur]]

(* After j rounds the first j nodes of the ring are on the free list too,  *)
(* and the rest of the ring is what it was.                                *)
Purged(mem, n, c, k, f, j, s) ==
  /\ s \in Purging /\ s.m.heap = mem.heap /\ s.cur = c[j + 1]
  /\ s.uf = [i \in 1..j |-> mem.element[c[i]]]
  /\ \A i \in (j + 1)..n : s.m.next[c[i]] = c[i + 1] /\ s.m.element[c[i]] = mem.element[c[i]]
  /\ \E l \in Nat : \E g : /\ FreeList(s.m.next, s.m.freel, l, g)
                           /\ \A p \in Node : On(g, l, p) <=> On(f, k, p) \/ On(c, j, p)

LEMMA AppendNext ==
  ASSUME NEW j \in Nat, NEW g, NEW T, \A i \in 1..(j + 1) : g[i] \in T
  PROVE  Append([i \in 1..j |-> g[i]], g[j + 1]) = [i \in 1..(j + 1) |-> g[i]]
OBVIOUS

LEMMA RoundIs ==
  ASSUME NEW mem, NEW n \in Nat, NEW c, Ring(mem.next, mem.prev, n, c), NEW k, NEW f,
         \A i \in 1..n : mem.element[c[i]] \in Element,
         \A p \in Node : ~(On(c, n, p) /\ On(f, k, p)),
         NEW j \in 0..(n - 1), NEW s, Purged(mem, n, c, k, f, j, s)
  PROVE  Purged(mem, n, c, k, f, j + 1, Round(s))
<1> DEFINE p == c[j + 1]
           r == Round(s)
<1>1. j \in Nat /\ j + 1 \in 1..n /\ j + 1 \in (j + 1)..n /\ j + 1 \in 0..n
  OBVIOUS
<1>2. /\ p \in Node /\ s.cur = p /\ s.m.next[p] = c[(j + 1) + 1] /\ c[(j + 1) + 1] \in Place
      /\ s.m.element[p] = mem.element[p] /\ mem.element[p] \in Element /\ p # Sentinel
  BY <1>1, Places DEF Purged, Ring
<1>3. \A i \in 1..n : c[i] \in Node /\ c[i] \in Place /\ (c[i] = p => i = j + 1)
  BY <1>1, Places DEF Ring
<1> HIDE DEF p
<1>4. s.m \in Memory /\ s.uf \in Seq(Element)
  BY DEF Purged, Purging
<1>5. /\ r.m = putEntry(s.m, p) /\ r.uf = Append(s.uf, mem.element[p]) /\ r.cur = c[(j + 1) + 1]
      /\ r = [m |-> r.m, uf |-> r.uf, cur |-> r.cur]
  BY <1>2 DEF Round
<1> HIDE DEF r
<1>6. /\ r.m \in Memory /\ r.m.heap = s.m.heap /\ r.m.freel = p /\ r.m.next[p] = s.m.freel
      /\ \A q \in Place : q # p => r.m.next[q] = s.m.next[q] /\ r.m.element[q] = s.m.element[q]
  BY <1>2, <1>4, <1>5, PutEntryIs
<1>7. r \in Purging
  <2>1. r.uf \in Seq(Element) /\ r.cur \in Place
    BY <1>2, <1>4, <1>5
  <2>2. QED
    BY <1>5, <1>6, <2>1 DEF Purging
<1>8. r.uf = [i \in 1..(j + 1) |-> mem.element[c[i]]]
  <2> DEFINE g == [i \in 1..(j + 1) |-> mem.element[c[i]]]
  <2>1. \A i \in 1..(j + 1) : g[i] \in Element
    <3>1. \A i \in 1..(j + 1) : i \in 1..n
      BY <1>1
    <3>2. QED
      BY <3>1
  <2>2. s.uf = [i \in 1..j |-> g[i]]
    <3>1. s.uf = [i \in 1..j |-> mem.element[c[i]]]
      BY DEF Purged
    <3>2. \A i \in 1..j : g[i] = mem.element[c[i]]
      BY <1>1
    <3> HIDE DEF g
    <3>3. QED
      BY <3>1, <3>2
  <2>3. g[j + 1] = mem.element[p]
    BY <1>1 DEF p
  <2>4. g = [i \in 1..(j + 1) |-> g[i]]
    OBVIOUS
  <2> HIDE DEF g
  <2>5. r.uf = [i \in 1..(j + 1) |-> g[i]]
    BY <1>1, <1>5, <2>1, <2>2, <2>3, AppendNext
  <2>6. QED
    BY <2>4, <2>5 DEF g
<1>9. ASSUME NEW i \in ((j + 1) + 1)..n
      PROVE  r.m.next[c[i]] = c[i + 1] /\ r.m.element[c[i]] = mem.element[c[i]]
  <2>1. i \in (j + 1)..n /\ i \in 1..n /\ i # j + 1
    BY <1>1
  <2>2. c[i] # p /\ c[i] \in Place
    BY <1>3, <2>1
  <2>3. QED
    BY <1>6, <2>1, <2>2 DEF Purged
<1>10. \E l \in Nat : \E g : /\ FreeList(r.m.next, r.m.freel, l, g)
                             /\ \A q \in Node : On(g, l, q) <=> On(f, k, q) \/ On(c, j + 1, q)
  <2>1. PICK l, g : /\ l \in Nat
                    /\ FreeList(s.m.next, s.m.freel, l, g)
                    /\ \A q \in Node : On(g, l, q) <=> On(f, k, q) \/ On(c, j, q)
    BY DEF Purged
  <2>2. ~On(g, l, p)
    <3>1. On(c, n, p)
      BY <1>1 DEF On, p
    <3>2. ~On(c, j, p)
      BY <1>1, <1>3 DEF On
    <3>3. QED
      BY <1>2, <2>1, <3>1, <3>2
  <2>3. PICK h : /\ FreeList(r.m.next, p, l + 1, h)
                 /\ \A q \in Node : On(h, l + 1, q) <=> On(g, l, q) \/ q = p
    BY <1>2, <1>6, <2>1, <2>2, Places, FreePushed
  <2>4. \A q \in Node : On(c, j + 1, q) <=> On(c, j, q) \/ q = p
    <3>1. \A i : i \in 1..(j + 1) <=> i \in 1..j \/ i = j + 1
      BY <1>1
    <3>2. QED
      BY <3>1 DEF On, p
  <2>5. l + 1 \in Nat
    BY <2>1
  <2>6. QED
    BY <1>6, <2>1, <2>3, <2>4, <2>5
<1>11. QED
  BY <1>5, <1>6, <1>7, <1>8, <1>9, <1>10 DEF Purged, r

(* purge passes the elements from first to last to the user function, and  *)
(* leaves every node on the free list.                                     *)
LEMMA PurgeIs ==
  ASSUME NEW mem \in Memory, NEW n \in Nat, NEW c, Ring(mem.next, mem.prev, n, c),
         NEW k \in Nat, NEW f, FreeList(mem.next, mem.freel, k, f),
         \A i \in 1..n : mem.element[c[i]] \in Element,
         \A p \in Node : ~(On(c, n, p) /\ On(f, k, p))
  PROVE  Purged(mem, n, c, k, f, n, purge(mem))
<1> DEFINE N == MaxNodes
           J(i) == IF i < n THEN i ELSE n
           first == [m |-> mem, uf |-> << >>, cur |-> mem.next[Sentinel]]
           X == [i \in 0..N |-> {s \in Purging : Purged(mem, n, c, k, f, J(i), s)}]
           step == [p \in Purging \X (1..N) |-> Round(p[1])]
           Runs(w) == w = [i \in 0..N |-> IF i = 0 THEN first ELSE Round(w[i - 1])]
           run == CHOOSE w : Runs(w)
<1>1. purge(mem) = run[N]
  BY DEF purge, Round
<1>2. N \in Nat /\ n <= N
  BY RingFits, LinkedListAssumption DEF Ring
<1> HIDE DEF N
<1>3. ASSUME NEW i \in 1..N, NEW s \in X[i - 1] PROVE s \in Purging /\ Round(s) \in X[i]
  <2>1. i - 1 \in 0..N /\ i \in 0..N
    BY <1>2
  <2>2. s \in Purging /\ Purged(mem, n, c, k, f, J(i - 1), s)
    BY <2>1
  <2>3. Purged(mem, n, c, k, f, J(i), Round(s))
    <3>1. CASE i - 1 < n
      <4>1. i - 1 \in 0..(n - 1) /\ J(i - 1) = i - 1 /\ J(i) = (i - 1) + 1
        BY <2>1, <3>1
      <4>2. Purged(mem, n, c, k, f, i - 1, s)
        BY <2>2, <4>1
      <4>3. Purged(mem, n, c, k, f, (i - 1) + 1, Round(s))
        BY <4>1, <4>2, RoundIs
      <4>4. QED
        BY <4>1, <4>3
    <3>2. CASE ~(i - 1 < n)
      <4>1. J(i - 1) = n /\ J(i) = n
        BY <2>1, <3>2
      <4>2. Purged(mem, n, c, k, f, n, s)
        BY <2>2, <4>1
      <4>3. Round(s) = s
        BY <4>2 DEF Purged, Ring, Round
      <4>4. QED
        BY <4>1, <4>2, <4>3
    <3>3. QED
      BY <3>1, <3>2
  <2>4. Round(s) \in Purging
    BY <2>3 DEF Purged
  <2>5. QED
    BY <2>1, <2>2, <2>3, <2>4
<1>4. first \in X[0]
  <2>1. J(0) = 0 /\ 0 \in 0..N
    BY <1>2
  <2>2. first.m = mem /\ first.uf = << >> /\ first.cur = mem.next[Sentinel]
    OBVIOUS
  <2>3. mem.next[Sentinel] = c[0 + 1] /\ c[0 + 1] \in Place
    BY DEF Ring
  <2>4. first \in Purging
    BY <2>3 DEF Purging
  <2>5. << >> = [i \in 1..0 |-> mem.element[c[i]]]
    OBVIOUS
  <2>6. \A p \in Node : ~On(c, 0, p)
    BY DEF On
  <2>7. \A i \in (0 + 1)..n : mem.next[c[i]] = c[i + 1]
    BY DEF Ring
  <2> HIDE DEF first
  <2>8. Purged(mem, n, c, k, f, 0, first)
    BY <2>2, <2>3, <2>4, <2>5, <2>6, <2>7 DEF Purged
  <2>9. QED
    BY <2>1, <2>4, <2>8
<1>5. \E w : Runs(w)
  <2>1. Leads(X, N, step)
    <3>1. ASSUME NEW i \in 1..N, NEW s \in X[i - 1] PROVE step[<<s, i>>] \in X[i]
      <4>1. s \in Purging /\ Round(s) \in X[i]
        BY <1>3
      <4>2. step[<<s, i>>] = Round(s)
        BY <4>1
      <4>3. QED
        BY <4>1, <4>2
    <3>2. QED
      BY <3>1 DEF Leads
  <2>2. PICK w : Repeats(w, N, first, step) /\ \A i \in 0..N : w[i] \in X[i]
    <3> HIDE DEF X, step, first
    <3>1. QED
      BY <1>2, <1>4, <2>1, InvariantRecursion
  <2>3. ASSUME NEW i \in 1..N PROVE step[<<w[i - 1], i>>] = Round(w[i - 1])
    <3>1. i - 1 \in 0..N
      BY <1>2
    <3>2. w[i - 1] \in Purging
      BY <1>3, <2>2, <3>1
    <3>3. QED
      BY <3>2
  <2>4. Runs(w)
    <3> HIDE DEF step, first
    <3>1. w = [i \in 0..N |-> IF i = 0 THEN first ELSE step[<<w[i - 1], i>>]]
      BY <2>2 DEF Repeats
    <3>2. \A i \in 0..N : i = 0 \/ i \in 1..N
      BY <1>2
    <3>3. \A i \in 0..N : w[i] = IF i = 0 THEN first ELSE Round(w[i - 1])
      BY <2>3, <3>1, <3>2
    <3>4. w = [i \in 0..N |-> w[i]]
      BY <3>1
    <3>5. QED
      BY <3>3, <3>4
  <2>5. QED
    <3> HIDE DEF Runs
    <3>1. QED
      BY <2>4
<1>6. Runs(run)
  <2> HIDE DEF Runs
  <2>1. QED
    BY <1>5
<1> HIDE DEF run, first
<1>7. run[0] = first /\ \A i \in 1..N : run[i] = Round(run[i - 1])
  BY <1>2, <1>6
<1>8. \A i \in 0..N : run[i] \in X[i]
  <2>1. run[0] \in X[0]
    BY <1>4, <1>7
  <2>2. ASSUME NEW i \in 1..N, run[i - 1] \in X[i - 1] PROVE run[i] \in X[i]
    <3>1. Round(run[i - 1]) \in X[i]
      BY <1>3, <2>2
    <3> HIDE DEF X
    <3>2. QED
      BY <1>7, <3>1
  <2> HIDE DEF X
  <2>3. QED
    BY <1>2, <2>1, <2>2, InvariantValues
<1>9. J(N) = n /\ N \in 0..N
  BY <1>2
<1>10. QED
  BY <1>1, <1>8, <1>9
-----------------------------------------------------------------------------
(* The nodes of a list of n elements: a ring c and a free list f.          *)
Layout(mem, n, c, k, f) ==
  /\ mem \in Memory /\ n \in Nat /\ k \in Nat
  /\ Ring(mem.next, mem.prev, n, c) /\ FreeList(mem.next, mem.freel, k, f)
  /\ Shared(mem.heap, n, c, k, f)
  /\ \A i \in 1..n : mem.element[c[i]] \in Element

Elements(mem, n, c) == [i \in 1..n |-> mem.element[c[i]]]

(* Whether malloc fails or not, the list stays what it was.                *)
LEMMA SuppliedIs ==
  ASSUME NEW mem, NEW n, NEW c, NEW k, NEW f, Layout(mem, n, c, k, f), NEW r \in Supplied(mem)
  PROVE  /\ \E l, g : Layout(r, n, c, l, g)
         /\ Elements(r, n, c) = Elements(mem, n, c)
<1>1. CASE r = mem
  BY <1>1
<1>2. CASE r # mem
  <2>1. mem.freel = NULL /\ mem \in Memory /\ n \in Nat /\ \E j : r = Refill(mem, j)
    BY <1>2 DEF Supplied, Layout
  <2>2. PICK j : r = Refill(mem, j)
    BY <2>1
  <2>3. PICK fresh \in SUBSET (Node \ mem.heap) :
          /\ r \in Memory /\ r.heap = mem.heap \cup fresh /\ r.prev = mem.prev
          /\ \A q \in Place \ fresh : r.next[q] = mem.next[q] /\ r.element[q] = mem.element[q]
          /\ \E l \in Nat : \E g : /\ FreeList(r.next, r.freel, l, g)
                                   /\ \A q \in Node : On(g, l, q) <=> q \in fresh
    BY <2>1, <2>2, RefillIs
  <2>4. PICK l, g : /\ l \in Nat
                    /\ FreeList(r.next, r.freel, l, g)
                    /\ \A q \in Node : On(g, l, q) <=> q \in fresh
    BY <2>3
  <2>5. \A q : ~On(f, k, q)
    <3>1. k = 0
      BY <2>1, Places DEF Layout, FreeList
    <3>2. QED
      BY <3>1 DEF On
  <2>6. \A q \in Node : q \in mem.heap <=> On(c, n, q)
    BY <2>5 DEF Layout, Shared
  <2>7. ASSUME NEW i \in 0..(n + 1) PROVE c[i] \in Place \ fresh
    <3>1. i = 0 \/ i = n + 1 \/ i \in 1..n
      BY <2>1
    <3>2. c[i] = Sentinel \/ (c[i] \in Node /\ On(c, n, c[i]))
      BY <3>1 DEF Layout, Ring, On
    <3>3. QED
      BY <2>6, <3>2, Places
  <2>8. \A i \in 0..n : i \in 0..(n + 1)
    BY <2>1
  <2>9. Ring(r.next, r.prev, n, c)
    <3>1. \A i \in 0..n : r.next[c[i]] = mem.next[c[i]] /\ r.prev[c[i + 1]] = mem.prev[c[i + 1]]
      BY <2>3, <2>7, <2>8
    <3>2. Ring(mem.next, mem.prev, n, c)
      BY DEF Layout
    <3>3. QED
      BY <2>1, <3>1, <3>2, RingKept
  <2>10. \A i \in 1..n : i \in 0..(n + 1) /\ r.element[c[i]] = mem.element[c[i]]
    BY <2>1, <2>3, <2>7
  <2>11. Shared(r.heap, n, c, l, g)
    BY <2>3, <2>4, <2>6 DEF Shared
  <2>12. Layout(r, n, c, l, g)
    BY <2>1, <2>3, <2>4, <2>9, <2>10, <2>11 DEF Layout
  <2>13. Elements(r, n, c) = Elements(mem, n, c)
    BY <2>10 DEF Elements
  <2>14. QED
    BY <2>12, <2>13
<1>3. QED
  BY <1>1, <1>2

(* What link changes, p being neither of the nodes it goes between.        *)
Linked(mem, before, p, after, r) ==
  /\ r \in Memory /\ r.heap = mem.heap /\ r.freel = mem.freel /\ r.element = mem.element
  /\ r.next[p] = after /\ r.next[before] = p
  /\ r.prev[p] = before /\ r.prev[after] = p
  /\ \A q \in Place : q # p /\ q # before => r.next[q] = mem.next[q]
  /\ \A q \in Place : q # p /\ q # after => r.prev[q] = mem.prev[q]

LEMMA LinkIs ==
  ASSUME NEW mem \in Memory, NEW p \in Node, NEW before \in Place, NEW after \in Place,
         p # before, p # after
  PROVE  Linked(mem, before, p, after, link(mem, before, p, after))
BY Places DEF link, Linked, Memory

(* What unlink changes.                                                    *)
Unlinked(mem, p, r) ==
  /\ r \in Memory /\ r.heap = mem.heap /\ r.freel = mem.freel /\ r.element = mem.element
  /\ r.next[mem.prev[p]] = mem.next[p] /\ r.prev[mem.next[p]] = mem.prev[p]
  /\ \A q \in Place : q # mem.prev[p] => r.next[q] = mem.next[q]
  /\ \A q \in Place : q # mem.next[p] => r.prev[q] = mem.prev[q]

LEMMA UnlinkIs ==
  ASSUME NEW mem \in Memory, NEW p \in Node, mem.prev[p] \in Place, mem.next[p] \in Place
  PROVE  Unlinked(mem, p, unlink(mem, p))
BY Places DEF unlink, Unlinked, Memory

(* The ring c with the node p after its first at nodes.                    *)
Widened(n, c, at, p) ==
  [i \in 0..(n + 2) |-> IF i <= at THEN c[i] ELSE IF i = at + 1 THEN p ELSE c[i - 1]]

WideRing(next, prev, n, c, at, p) ==
  /\ Ring(next, prev, n + 1, Widened(n, c, at, p))
  /\ \A q \in Node : On(Widened(n, c, at, p), n + 1, q) <=> On(c, n, q) \/ q = p

LEMMA RingWidened ==
  ASSUME NEW n \in Nat, NEW next, NEW prev, NEW c, Ring(next, prev, n, c), NEW at \in 0..n,
         NEW p \in Node, ~On(c, n, p), NEW next2, NEW prev2,
         next2[p] = c[at + 1], next2[c[at]] = p, prev2[p] = c[at], prev2[c[at + 1]] = p,
         \A q \in Place : q # p /\ q # c[at] => next2[q] = next[q],
         \A q \in Place : q # p /\ q # c[at + 1] => prev2[q] = prev[q]
  PROVE  WideRing(next2, prev2, n, c, at, p)
<1> DEFINE d == Widened(n, c, at, p)
<1>1. /\ c \in [0..(n + 1) -> Place] /\ c[0] = Sentinel /\ c[n + 1] = Sentinel
      /\ \A i \in 1..n : c[i] \in Node /\ c[i] # p
      /\ \A i, j \in 1..n : c[i] = c[j] => i = j
      /\ \A i \in 0..n : next[c[i]] = c[i + 1] /\ prev[c[i + 1]] = c[i]
  BY DEF Ring, On
<1>11. /\ \A i, j \in 0..n : c[i] = c[j] => i = j
       /\ \A i, j \in 1..(n + 1) : c[i] = c[j] => i = j
  BY RingDistinct
<1>2. \A i \in 0..(n + 1) : c[i] # p /\ c[i] \in Place
  <2>1. \A i \in 0..(n + 1) : i = 0 \/ i = n + 1 \/ i \in 1..n
    OBVIOUS
  <2>2. QED
    BY <1>1, <2>1, Places
<1>3. /\ d \in [0..(n + 2) -> Place] /\ d[at + 1] = p
      /\ \A i \in 0..at : d[i] = c[i] /\ i \in 0..(n + 1)
      /\ \A i \in (at + 2)..(n + 2) : d[i] = c[i - 1] /\ i - 1 \in 1..(n + 1)
  BY <1>1, <1>2, Places DEF Widened
<1> HIDE DEF d
<1>4. d[0] = Sentinel /\ d[(n + 1) + 1] = Sentinel
  BY <1>1, <1>3
<1>5. ASSUME NEW i \in 1..(n + 1) PROVE d[i] \in Node
  <2>1. i \in 1..at \/ i = at + 1 \/ i \in (at + 2)..(n + 1)
    OBVIOUS
  <2>2. QED
    BY <1>1, <1>3, <2>1
<1>6. ASSUME NEW i \in 1..(n + 1), NEW j \in 1..(n + 1), d[i] = d[j] PROVE i = j
  <2>1. \A l \in 1..(n + 1) : \/ l \in 1..at /\ l \in 1..n /\ d[l] = c[l]
                              \/ l = at + 1 /\ d[l] = p
                              \/ l \in (at + 2)..(n + 1) /\ l - 1 \in 1..n /\ d[l] = c[l - 1]
    <3>1. \A l \in 1..(n + 1) : \/ l \in 1..at /\ l \in 1..n /\ l \in 0..at
                                \/ l = at + 1
                                \/ l \in (at + 2)..(n + 1) /\ l - 1 \in 1..n /\ l \in (at + 2)..(n + 2)
      OBVIOUS
    <3>2. QED
      BY <1>3, <3>1
  <2>2. \A a, b \in 1..n : c[a] = c[b] => a = b
    BY <1>1
  <2>3. \A a \in 1..n : c[a] # p
    BY <1>1
  <2>4. QED
    BY <1>6, <2>1, <2>2, <2>3
<1>7. ASSUME NEW i \in 0..(n + 1) PROVE next2[d[i]] = d[i + 1] /\ prev2[d[i + 1]] = d[i]
  <2>1. CASE i < at
    <3>1. /\ i \in 0..n /\ i + 1 \in 1..(n + 1) /\ i + 1 \in 0..(n + 1)
          /\ i # at /\ i + 1 # at + 1 /\ at + 1 \in 1..(n + 1)
          /\ d[i] = c[i] /\ d[i + 1] = c[i + 1]
      BY <1>3, <2>1
    <3>2. c[i] # c[at] /\ c[i + 1] # c[at + 1]
      BY <1>11, <3>1
    <3>3. next2[c[i]] = next[c[i]] /\ prev2[c[i + 1]] = prev[c[i + 1]]
      BY <1>2, <3>1, <3>2
    <3>4. QED
      BY <1>1, <3>1, <3>3
  <2>2. CASE i = at
    BY <1>3, <2>2
  <2>3. CASE i = at + 1
    <3>1. d[i] = p /\ d[i + 1] = c[at + 1]
      BY <1>3, <2>3
    <3>2. QED
      BY <3>1
  <2>4. CASE i > at + 1
    <3>1. /\ i - 1 \in 0..n /\ i \in 1..(n + 1) /\ i \in 0..(n + 1) /\ i - 1 \in 0..(n + 1)
          /\ i - 1 # at /\ i # at + 1 /\ at + 1 \in 1..(n + 1) /\ at \in 0..n
          /\ d[i] = c[i - 1] /\ d[i + 1] = c[i] /\ (i - 1) + 1 = i
      BY <1>3, <2>4
    <3>2. c[i - 1] # c[at] /\ c[i] # c[at + 1]
      BY <1>11, <3>1
    <3>3. next2[c[i - 1]] = next[c[i - 1]] /\ prev2[c[i]] = prev[c[i]]
      BY <1>2, <3>1, <3>2
    <3>4. QED
      BY <1>1, <3>1, <3>3
  <2>5. QED
    BY <2>1, <2>2, <2>3, <2>4
<1>8. ASSUME NEW q \in Node PROVE On(d, n + 1, q) <=> On(c, n, q) \/ q = p
  <2>1. ASSUME NEW i \in 1..(n + 1) PROVE d[i] = p \/ On(c, n, d[i])
    <3>1. \/ i \in 0..at /\ i \in 1..n
          \/ i = at + 1
          \/ i \in (at + 2)..(n + 2) /\ i - 1 \in 1..n
      OBVIOUS
    <3>2. QED
      BY <1>3, <3>1 DEF On
  <2>2. ASSUME NEW i \in 1..n PROVE On(d, n + 1, c[i])
    <3>1. CASE i <= at
      BY <1>3, <3>1 DEF On
    <3>2. CASE i > at
      <4>1. i + 1 \in (at + 2)..(n + 2) /\ i + 1 \in 1..(n + 1) /\ (i + 1) - 1 = i
        BY <3>2
      <4>2. QED
        BY <1>3, <4>1 DEF On
    <3>3. QED
      BY <3>1, <3>2
  <2>3. On(d, n + 1, p)
    BY <1>3 DEF On
  <2>4. QED
    BY <2>1, <2>2, <2>3 DEF On
<1>9. QED
  <2>1. (n + 1) + 1 = n + 2
    OBVIOUS
  <2>2. QED
    BY <1>3, <1>4, <1>5, <1>6, <1>7, <1>8, <2>1 DEF WideRing, Ring, d

(* The ring c without the node after its first at nodes.                   *)
Narrowed(n, c, at) == [i \in 0..n |-> IF i <= at THEN c[i] ELSE c[i + 1]]

NarrowRing(next, prev, n, c, at) ==
  /\ Ring(next, prev, n - 1, Narrowed(n, c, at))
  /\ \A q \in Node : On(Narrowed(n, c, at), n - 1, q) <=> On(c, n, q) /\ q # c[at + 1]

LEMMA RingNarrowed ==
  ASSUME NEW n \in Nat, NEW next, NEW prev, NEW c, Ring(next, prev, n, c), NEW at \in 0..(n - 1),
         NEW next2, NEW prev2,
         next2[c[at]] = c[at + 2], prev2[c[at + 2]] = c[at],
         \A q \in Place : q # c[at + 1] /\ q # c[at] => next2[q] = next[q],
         \A q \in Place : q # c[at + 1] /\ q # c[at + 2] => prev2[q] = prev[q]
  PROVE  NarrowRing(next2, prev2, n, c, at)
<1> DEFINE d == Narrowed(n, c, at)
<1>1. /\ c \in [0..(n + 1) -> Place] /\ c[0] = Sentinel /\ c[n + 1] = Sentinel
      /\ \A i \in 1..n : c[i] \in Node
      /\ \A i, j \in 1..n : c[i] = c[j] => i = j
      /\ \A i \in 0..n : next[c[i]] = c[i + 1] /\ prev[c[i + 1]] = c[i]
  BY DEF Ring
<1>11. /\ \A i, j \in 0..n : c[i] = c[j] => i = j
       /\ \A i, j \in 1..(n + 1) : c[i] = c[j] => i = j
  BY RingDistinct
<1>2. \A i \in 0..(n + 1) : c[i] \in Place
  BY <1>1
<1>3. /\ d \in [0..n -> Place]
      /\ \A i \in 0..at : d[i] = c[i]
      /\ \A i \in (at + 1)..n : d[i] = c[i + 1]
  BY <1>2 DEF Narrowed
<1> HIDE DEF d
<1>4. d[0] = Sentinel /\ d[n] = Sentinel
  BY <1>1, <1>3
<1>5. \A i \in 1..(n - 1) : \/ i \in 0..at /\ i \in 1..n /\ i # at + 1 /\ d[i] = c[i]
                            \/ i \in (at + 1)..n /\ i + 1 \in 1..n /\ i + 1 # at + 1 /\ d[i] = c[i + 1]
  <2>1. \A i \in 1..(n - 1) : \/ i \in 0..at /\ i \in 1..n /\ i # at + 1
                              \/ i \in (at + 1)..n /\ i + 1 \in 1..n /\ i + 1 # at + 1
    OBVIOUS
  <2>2. QED
    BY <1>3, <2>1
<1>6. ASSUME NEW i \in 1..(n - 1), NEW j \in 1..(n - 1), d[i] = d[j] PROVE i = j
  <2>1. \A a, b \in 1..n : c[a] = c[b] => a = b
    BY <1>1
  <2>2. QED
    BY <1>5, <1>6, <2>1
<1>7. ASSUME NEW i \in 0..(n - 1) PROVE next2[d[i]] = d[i + 1] /\ prev2[d[i + 1]] = d[i]
  <2>1. CASE i < at
    <3>1. /\ i \in 0..n /\ i + 1 \in 1..(n + 1) /\ i + 1 \in 0..(n + 1) /\ i \in 0..(n + 1)
          /\ i # at /\ i # at + 1 /\ at \in 0..n /\ at + 1 \in 0..n
          /\ i + 1 # at + 1 /\ i + 1 # at + 2 /\ at + 1 \in 1..(n + 1) /\ at + 2 \in 1..(n + 1)
          /\ d[i] = c[i] /\ d[i + 1] = c[i + 1]
      BY <1>3, <2>1
    <3>2. c[i] # c[at] /\ c[i] # c[at + 1] /\ c[i + 1] # c[at + 1] /\ c[i + 1] # c[at + 2]
      BY <1>11, <3>1
    <3>3. next2[c[i]] = next[c[i]] /\ prev2[c[i + 1]] = prev[c[i + 1]]
      BY <1>2, <3>1, <3>2
    <3>4. QED
      BY <1>1, <3>1, <3>3
  <2>2. CASE i = at
    <3>1. d[i] = c[at] /\ d[i + 1] = c[at + 2]
      BY <1>3, <2>2
    <3>2. QED
      BY <3>1
  <2>3. CASE i > at
    <3>1. /\ i + 1 \in 0..n /\ (i + 1) + 1 \in 1..(n + 1) /\ (i + 1) + 1 \in 0..(n + 1)
          /\ i + 1 \in 0..(n + 1)
          /\ i + 1 # at /\ i + 1 # at + 1 /\ at \in 0..n /\ at + 1 \in 0..n
          /\ (i + 1) + 1 # at + 1 /\ (i + 1) + 1 # at + 2
          /\ at + 1 \in 1..(n + 1) /\ at + 2 \in 1..(n + 1)
          /\ d[i] = c[i + 1] /\ d[i + 1] = c[(i + 1) + 1]
      <4>1. /\ i + 1 \in 0..n /\ (i + 1) + 1 \in 1..(n + 1) /\ (i + 1) + 1 \in 0..(n + 1)
            /\ i + 1 \in 0..(n + 1)
            /\ i + 1 # at /\ i + 1 # at + 1 /\ at \in 0..n /\ at + 1 \in 0..n
            /\ (i + 1) + 1 # at + 1 /\ (i + 1) + 1 # at + 2
            /\ at + 1 \in 1..(n + 1) /\ at + 2 \in 1..(n + 1)
        BY <2>3
      <4>2. i \in (at + 1)..n /\ i + 1 \in (at + 1)..n
        BY <2>3
      <4>3. QED
        BY <1>3, <4>1, <4>2
    <3>2. /\ c[i + 1] # c[at] /\ c[i + 1] # c[at + 1]
          /\ c[(i + 1) + 1] # c[at + 1] /\ c[(i + 1) + 1] # c[at + 2]
      BY <1>11, <3>1
    <3>3. next2[c[i + 1]] = next[c[i + 1]] /\ prev2[c[(i + 1) + 1]] = prev[c[(i + 1) + 1]]
      BY <1>2, <3>1, <3>2
    <3>4. QED
      BY <1>1, <3>1, <3>3
  <2>4. QED
    BY <2>1, <2>2, <2>3
<1>8. ASSUME NEW q \in Node PROVE On(d, n - 1, q) <=> On(c, n, q) /\ q # c[at + 1]
  <2>1. at + 1 \in 1..n /\ \A a, b \in 1..n : c[a] = c[b] => a = b
    BY <1>1
  <2>2. On(d, n - 1, q) => On(c, n, q) /\ q # c[at + 1]
    BY <1>5, <2>1 DEF On
  <2>3. ASSUME NEW i \in 1..n, c[i] = q, q # c[at + 1] PROVE On(d, n - 1, q)
    <3>1. CASE i <= at
      <4>1. i \in 0..at /\ i \in 1..(n - 1)
        BY <3>1
      <4>2. QED
        BY <1>3, <2>3, <4>1 DEF On
    <3>2. CASE i > at + 1
      <4>1. i - 1 \in (at + 1)..n /\ i - 1 \in 1..(n - 1) /\ (i - 1) + 1 = i
        BY <3>2
      <4>2. QED
        BY <1>3, <2>3, <4>1 DEF On
    <3>3. QED
      BY <2>3, <3>1, <3>2
  <2>4. QED
    BY <2>2, <2>3 DEF On
<1>9. QED
  <2>1. (n - 1) + 1 = n
    OBVIOUS
  <2>2. ASSUME NEW i \in 1..(n - 1) PROVE d[i] \in Node
    <3>1. \E j \in 1..n : d[i] = c[j]
      BY <1>5
    <3>2. QED
      BY <1>1, <3>1
  <2>3. QED
    BY <1>3, <1>4, <1>6, <1>7, <1>8, <2>1, <2>2 DEF NarrowRing, Ring, d
-----------------------------------------------------------------------------
(* The n elements of the list in mem are those of the sequence L.          *)
Stores(mem, n, L) == \E c, k, f : Layout(mem, n, c, k, f) /\ L = Elements(mem, n, c)

(* What Insert, Remove, ll_set and Clear do to the memory.                 *)
Inserted(mem, b, e) ==
  LET p == mem.freel
  IN  link([mem EXCEPT !.freel = mem.next[p], !.element[p] = e], b, p, mem.next[b])

Removed(mem, p) == putEntry(unlink(mem, p), p)

Assigned(mem, p, e) == [mem EXCEPT !.element[p] = e]

Cleared(mem) == [purge(mem).m EXCEPT !.next[Sentinel] = Sentinel, !.prev[Sentinel] = Sentinel]

(* And to the sequence of its elements.                                    *)
WithAt(L, n, at, e) ==
  [i \in 1..(n + 1) |-> IF i <= at THEN L[i] ELSE IF i = at + 1 THEN e ELSE L[i - 1]]

WithoutAt(L, n, at) == [i \in 1..(n - 1) |-> IF i <= at THEN L[i] ELSE L[i + 1]]

ReplacedAt(L, n, at, e) == [i \in 1..n |-> IF i = at + 1 THEN e ELSE L[i]]

(* What a walk along the list, or ll_toArray, finds in it.                 *)
LEMMA StoredIs ==
  ASSUME NEW mem, NEW n, NEW L, Stores(mem, n, L)
  PROVE  /\ mem \in Memory /\ n \in 0..MaxNodes /\ L \in [1..n -> Element]
         /\ L = [i \in 1..n |-> mem.element[Nth(mem, i)]]
         /\ Nth(mem, 0) = Sentinel /\ Nth(mem, n + 1) = Sentinel
         /\ \A i \in 1..n : Nth(mem, i) \in Node
         /\ \A i, j \in 1..n : Nth(mem, i) = Nth(mem, j) => i = j
         /\ \A i \in 0..n : mem.next[Nth(mem, i)] = Nth(mem, i + 1) /\ mem.prev[Nth(mem, i + 1)] = Nth(mem, i)
<1>1. PICK c, k, f : Layout(mem, n, c, k, f) /\ L = Elements(mem, n, c)
  BY DEF Stores
<1>2. /\ mem \in Memory /\ n \in Nat /\ Ring(mem.next, mem.prev, n, c)
      /\ \A i \in 1..n : mem.element[c[i]] \in Element
      /\ L = [i \in 1..n |-> mem.element[c[i]]]
  BY <1>1 DEF Layout, Elements
<1>3. \A i \in 0..(n + 1) : Nth(mem, i) = c[i]
  BY <1>2, NthIs
<1>4. /\ c[0] = Sentinel /\ c[n + 1] = Sentinel
      /\ \A i \in 1..n : c[i] \in Node
      /\ \A i, j \in 1..n : c[i] = c[j] => i = j
      /\ \A i \in 0..n : mem.next[c[i]] = c[i + 1] /\ mem.prev[c[i + 1]] = c[i]
  BY <1>2 DEF Ring
<1>5. n \in 0..MaxNodes
  <2>1. n \in Nat /\ (\A i \in 1..n : c[i] \in Node) /\ (\A i, j \in 1..n : c[i] = c[j] => i = j)
    BY <1>2, <1>4
  <2>2. n <= MaxNodes
    BY <2>1, RingFits
  <2>3. QED
    BY <2>1, <2>2, LinkedListAssumption
<1>6. /\ \A i \in 1..n : i \in 0..(n + 1)
      /\ \A i \in 0..n : i \in 0..(n + 1) /\ i + 1 \in 0..(n + 1)
      /\ 0 \in 0..(n + 1) /\ n + 1 \in 0..(n + 1)
  BY <1>2
<1>7. L = [i \in 1..n |-> mem.element[Nth(mem, i)]]
  BY <1>2, <1>3, <1>6
<1>8. /\ Nth(mem, 0) = Sentinel /\ Nth(mem, n + 1) = Sentinel
      /\ \A i \in 1..n : Nth(mem, i) \in Node
  BY <1>3, <1>4, <1>6
<1>9. \A i, j \in 1..n : Nth(mem, i) = Nth(mem, j) => i = j
  BY <1>3, <1>4, <1>6
<1>10. \A i \in 0..n : /\ mem.next[Nth(mem, i)] = Nth(mem, i + 1)
                       /\ mem.prev[Nth(mem, i + 1)] = Nth(mem, i)
  BY <1>3, <1>4, <1>6
<1>11. L \in [1..n -> Element]
  BY <1>2
<1>12. QED
  BY <1>2, <1>5, <1>7, <1>8, <1>9, <1>10, <1>11

(* An insertion after the first at nodes, when there is a node for it.     *)
LEMMA InsertedIs ==
  ASSUME NEW mem, NEW n \in Nat, NEW L, Stores(mem, n, L), mem.freel # NULL,
         NEW at \in 0..n, NEW e \in Element
  PROVE  Stores(Inserted(mem, Nth(mem, at), e), n + 1, WithAt(L, n, at, e))
<1>1. PICK c, k, f : Layout(mem, n, c, k, f) /\ L = Elements(mem, n, c)
  BY DEF Stores
<1>2. /\ mem \in Memory /\ n \in Nat /\ k \in Nat /\ Ring(mem.next, mem.prev, n, c)
      /\ FreeList(mem.next, mem.freel, k, f) /\ Shared(mem.heap, n, c, k, f)
      /\ \A i \in 1..n : mem.element[c[i]] \in Element
      /\ L = [i \in 1..n |-> mem.element[c[i]]]
  BY <1>1 DEF Layout, Elements
<1> DEFINE p == mem.freel
           taken == [mem EXCEPT !.freel = mem.next[p], !.element[p] = e]
           r == Inserted(mem, Nth(mem, at), e)
           d == Widened(n, c, at, p)
<1>3. Nth(mem, at) = c[at] /\ mem.next[c[at]] = c[at + 1]
  <2>1. at \in 0..(n + 1)
    BY <1>2
  <2>2. Nth(mem, at) = c[at]
    BY <1>2, <2>1, NthIs
  <2>3. QED
    BY <1>2, <2>2 DEF Ring
<1>4. /\ p \in Node /\ k # 0 /\ k - 1 \in Nat /\ On(f, k, p)
      /\ \E g : /\ FreeList(mem.next, mem.next[p], k - 1, g)
                /\ \A q \in Node : On(g, k - 1, q) <=> On(f, k, q) /\ q # p
  BY <1>2, FreePopped
<1>5. PICK g : /\ FreeList(mem.next, mem.next[p], k - 1, g)
               /\ \A q \in Node : On(g, k - 1, q) <=> On(f, k, q) /\ q # p
  BY <1>4
<1>6. /\ c \in [0..(n + 1) -> Place] /\ c[0] = Sentinel /\ c[n + 1] = Sentinel
      /\ \A i \in 1..n : c[i] \in Node
  BY <1>2 DEF Ring
<1>7. ~On(c, n, p) /\ p \in mem.heap
  BY <1>2, <1>4 DEF Shared
<1>8. \A i \in 0..(n + 1) : c[i] \in Place /\ c[i] # p
  <2>1. \A i \in 0..(n + 1) : i = 0 \/ i = n + 1 \/ i \in 1..n
    BY <1>2
  <2>2. QED
    BY <1>4, <1>6, <1>7, <2>1, Places DEF On
<1>9. c[at] \in Place /\ c[at] # p /\ c[at + 1] \in Place /\ c[at + 1] # p
  <2>1. at \in 0..(n + 1) /\ at + 1 \in 0..(n + 1)
    BY <1>2
  <2>2. QED
    BY <1>8, <2>1
<1>10. mem.next[p] \in Node \cup {NULL}
  <2>1. 1 \in 1..k
    BY <1>2, <1>4
  <2>2. QED
    BY <1>2, <2>1 DEF FreeList
<1>11. /\ taken \in Memory /\ taken.next = mem.next /\ taken.prev = mem.prev /\ taken.heap = mem.heap
       /\ taken.freel = mem.next[p] /\ taken.element[p] = e
       /\ \A q \in Place : q # p => taken.element[q] = mem.element[q]
  BY <1>2, <1>4, <1>10, Places DEF Memory
<1>12. r = link(taken, c[at], p, c[at + 1])
  BY <1>3 DEF Inserted
<1> HIDE DEF taken, r, p
<1>13. /\ r \in Memory /\ r.heap = taken.heap /\ r.freel = taken.freel /\ r.element = taken.element
       /\ r.next[p] = c[at + 1] /\ r.next[c[at]] = p
       /\ r.prev[p] = c[at] /\ r.prev[c[at + 1]] = p
       /\ \A q \in Place : q # p /\ q # c[at] => r.next[q] = taken.next[q]
       /\ \A q \in Place : q # p /\ q # c[at + 1] => r.prev[q] = taken.prev[q]
  <2>1. Linked(taken, c[at], p, c[at + 1], r)
    BY <1>4, <1>9, <1>11, <1>12, LinkIs
  <2>2. QED
    BY <2>1 DEF Linked
<1>14. /\ Ring(r.next, r.prev, n + 1, d)
       /\ \A q \in Node : On(d, n + 1, q) <=> On(c, n, q) \/ q = p
  <2>1. /\ Ring(mem.next, mem.prev, n, c) /\ p \in Node /\ ~On(c, n, p)
        /\ r.next[p] = c[at + 1] /\ r.next[c[at]] = p
        /\ r.prev[p] = c[at] /\ r.prev[c[at + 1]] = p
        /\ \A q \in Place : q # p /\ q # c[at] => r.next[q] = mem.next[q]
        /\ \A q \in Place : q # p /\ q # c[at + 1] => r.prev[q] = mem.prev[q]
    BY <1>2, <1>4, <1>7, <1>11, <1>13
  <2>2. WideRing(r.next, r.prev, n, c, at, p)
    BY <2>1, RingWidened
  <2>3. QED
    BY <2>2 DEF WideRing
<1>15. FreeList(r.next, r.freel, k - 1, g)
  <2>1. \A i \in 1..(k - 1) : g[i] \in Node /\ On(g, k - 1, g[i])
    BY <1>5 DEF FreeList, On
  <2>2. ASSUME NEW i \in 1..(k - 1) PROVE r.next[g[i]] = mem.next[g[i]]
    <3>1. g[i] \in Node /\ g[i] # p /\ ~On(c, n, g[i])
      BY <1>2, <1>5, <2>1 DEF Shared
    <3>2. g[i] # c[at]
      <4>1. at = 0 \/ at \in 1..n
        BY <1>2
      <4>2. QED
        BY <1>6, <3>1, <4>1, Places DEF On
    <3>3. QED
      BY <1>11, <1>13, <3>1, <3>2, Places
  <2>3. QED
    BY <1>4, <1>5, <1>11, <1>13, <2>2, FreeKept
<1>16. Shared(r.heap, n + 1, d, k - 1, g)
  BY <1>2, <1>4, <1>5, <1>7, <1>11, <1>13, <1>14 DEF Shared
<1>17. ASSUME NEW i \in 1..(n + 1)
       PROVE  r.element[d[i]] = IF i <= at THEN L[i] ELSE IF i = at + 1 THEN e ELSE L[i - 1]
  <2>1. i \in 0..(n + 2)
    BY <1>2
  <2>2. d[i] = IF i <= at THEN c[i] ELSE IF i = at + 1 THEN p ELSE c[i - 1]
    BY <2>1 DEF Widened
  <2>3. \A l \in 1..n : r.element[c[l]] = L[l]
    <3>1. \A l \in 1..n : c[l] \in Place /\ c[l] # p
      BY <1>2, <1>8
    <3>2. QED
      BY <1>2, <1>11, <1>13, <3>1
  <2>4. r.element[p] = e
    BY <1>11, <1>13
  <2>5. (i <= at => i \in 1..n) /\ (i > at + 1 => i - 1 \in 1..n)
    BY <1>2
  <2>6. QED
    BY <1>2, <2>2, <2>3, <2>4, <2>5
<1>18. \A i \in 1..(n + 1) : r.element[d[i]] \in Element
  <2>1. \A l \in 1..n : L[l] \in Element
    BY <1>2
  <2>2. \A i \in 1..(n + 1) : (i <= at => i \in 1..n) /\ (i > at + 1 => i - 1 \in 1..n)
    BY <1>2
  <2>3. ASSUME NEW i \in 1..(n + 1) PROVE r.element[d[i]] \in Element
    <3>1. CASE i <= at
      BY <1>17, <2>1, <2>2, <3>1
    <3>2. CASE i = at + 1
      BY <1>17, <3>2
    <3>3. CASE i > at + 1
      BY <1>17, <2>1, <2>2, <3>3
    <3>4. QED
      BY <1>2, <3>1, <3>2, <3>3
  <2>4. QED
    BY <2>3
<1>19. Elements(r, n + 1, d) = WithAt(L, n, at, e)
  BY <1>17 DEF Elements, WithAt
<1>20. Layout(r, n + 1, d, k - 1, g)
  BY <1>2, <1>4, <1>13, <1>14, <1>15, <1>16, <1>18 DEF Layout
<1>21. QED
  BY <1>19, <1>20 DEF Stores, r
(* The removal of the node after the first at.                             *)
LEMMA RemovedIs ==
  ASSUME NEW mem, NEW n \in Nat, NEW L, Stores(mem, n, L), NEW at \in 0..(n - 1)
  PROVE  Stores(Removed(mem, Nth(mem, at + 1)), n - 1, WithoutAt(L, n, at))
<1>1. PICK c, k, f : Layout(mem, n, c, k, f) /\ L = Elements(mem, n, c)
  BY DEF Stores
<1>2. /\ mem \in Memory /\ n \in Nat /\ k \in Nat /\ Ring(mem.next, mem.prev, n, c)
      /\ FreeList(mem.next, mem.freel, k, f) /\ Shared(mem.heap, n, c, k, f)
      /\ \A i \in 1..n : mem.element[c[i]] \in Element
      /\ L = [i \in 1..n |-> mem.element[c[i]]]
  BY <1>1 DEF Layout, Elements
<1> DEFINE p == c[at + 1]
           u == unlink(mem, p)
           r == putEntry(u, p)
           d == Narrowed(n, c, at)
<1>3. /\ n - 1 \in Nat /\ at \in 0..n /\ at + 1 \in 1..n /\ at + 1 \in 0..n /\ at + 2 \in 1..(n + 1)
      /\ at + 1 \in 0..(n + 1) /\ at + 1 \in 1..(n + 1) /\ (at + 1) + 1 = at + 2
  BY <1>2
<1>4. Removed(mem, Nth(mem, at + 1)) = r
  <2>1. Nth(mem, at + 1) = p
    BY <1>2, <1>3, NthIs
  <2>2. QED
    BY <2>1 DEF Removed
<1>5. /\ c \in [0..(n + 1) -> Place] /\ c[0] = Sentinel
      /\ \A i \in 1..n : c[i] \in Node
      /\ \A i \in 0..n : mem.next[c[i]] = c[i + 1] /\ mem.prev[c[i + 1]] = c[i]
  BY <1>2 DEF Ring
<1>6. /\ \A i, j \in 0..n : c[i] = c[j] => i = j
      /\ \A i, j \in 1..(n + 1) : c[i] = c[j] => i = j
  <2>1. Ring(mem.next, mem.prev, n, c)
    BY <1>2
  <2>2. QED
    BY <2>1, RingDistinct
<1>7. /\ p \in Node /\ c[at] \in Place /\ c[at + 2] \in Place /\ c[at] # p /\ c[at + 2] # p
      /\ mem.prev[p] = c[at] /\ mem.next[p] = c[at + 2]
  <2>1. at # at + 1 /\ at + 2 # at + 1 /\ at \in 0..(n + 1) /\ at + 2 \in 0..(n + 1)
    BY <1>3
  <2>2. QED
    BY <1>3, <1>5, <1>6, <2>1
<1>8. On(c, n, p) /\ ~On(f, k, p)
  BY <1>2, <1>3, <1>7 DEF On, Shared
<1> HIDE DEF p, u, r
<1>9. /\ u \in Memory /\ u.heap = mem.heap /\ u.freel = mem.freel /\ u.element = mem.element
      /\ u.next[c[at]] = c[at + 2] /\ u.prev[c[at + 2]] = c[at]
      /\ \A q \in Place : q # c[at] => u.next[q] = mem.next[q]
      /\ \A q \in Place : q # c[at + 2] => u.prev[q] = mem.prev[q]
  <2>1. Unlinked(mem, p, u)
    BY <1>2, <1>7, UnlinkIs DEF u
  <2>2. QED
    BY <1>7, <2>1 DEF Unlinked
<1>10. /\ r \in Memory /\ r.heap = u.heap /\ r.prev = u.prev
       /\ r.freel = p /\ r.next[p] = u.freel
       /\ \A q \in Place : q # p => r.next[q] = u.next[q] /\ r.element[q] = u.element[q]
  BY <1>7, <1>9, PutEntryIs DEF r
<1>11. /\ Ring(r.next, r.prev, n - 1, d)
       /\ \A q \in Node : On(d, n - 1, q) <=> On(c, n, q) /\ q # p
  <2>1. /\ r.next[c[at]] = c[at + 2] /\ r.prev[c[at + 2]] = c[at]
        /\ \A q \in Place : q # c[at + 1] /\ q # c[at] => r.next[q] = mem.next[q]
        /\ \A q \in Place : q # c[at + 1] /\ q # c[at + 2] => r.prev[q] = mem.prev[q]
    BY <1>7, <1>9, <1>10 DEF p
  <2>2. Ring(mem.next, mem.prev, n, c)
    BY <1>2
  <2>3. QED
    <3>1. NarrowRing(r.next, r.prev, n, c, at)
      BY <2>1, <2>2, RingNarrowed
    <3>2. QED
      BY <3>1 DEF NarrowRing, p
<1>12. FreeList(u.next, mem.freel, k, f)
  <2>1. ASSUME NEW i \in 1..k PROVE u.next[f[i]] = mem.next[f[i]]
    <3>1. f[i] \in Node /\ On(f, k, f[i])
      BY <1>2 DEF FreeList, On
    <3>2. ~On(c, n, f[i])
      BY <1>2, <3>1 DEF Shared
    <3>3. at = 0 \/ at \in 1..n
      BY <1>3
    <3>4. f[i] # c[at]
      BY <1>5, <3>1, <3>2, <3>3, Places DEF On
    <3>5. QED
      BY <1>9, <3>1, <3>4, Places
  <2>2. QED
    BY <1>2, <2>1, FreeKept
<1>13. PICK g : /\ FreeList(r.next, p, k + 1, g)
                /\ \A q \in Node : On(g, k + 1, q) <=> On(f, k, q) \/ q = p
  <2>1. r.next[p] = mem.freel /\ \A q \in Node : q # p => r.next[q] = u.next[q]
    BY <1>9, <1>10, Places
  <2>2. QED
    BY <1>2, <1>7, <1>8, <1>12, <2>1, FreePushed
<1>14. Shared(r.heap, n - 1, d, k + 1, g)
  BY <1>2, <1>7, <1>8, <1>9, <1>10, <1>11, <1>13 DEF Shared
<1>15. ASSUME NEW i \in 1..(n - 1)
       PROVE  r.element[d[i]] = (IF i <= at THEN L[i] ELSE L[i + 1]) /\ r.element[d[i]] \in Element
  <2>1. \A l \in 1..n : l # at + 1 => r.element[c[l]] = L[l] /\ L[l] \in Element
    <3>1. ASSUME NEW l \in 1..n, l # at + 1 PROVE c[l] \in Place /\ c[l] # p
      BY <1>3, <1>5, <1>6, <3>1, Places DEF p
    <3>2. QED
      BY <1>2, <1>9, <1>10, <3>1
  <2>2. i \in 0..n /\ i \in 1..n /\ i + 1 \in 1..n /\ (i <= at => i # at + 1) /\ (i > at => i + 1 # at + 1)
    BY <1>2
  <2>3. d[i] = IF i <= at THEN c[i] ELSE c[i + 1]
    BY <2>2 DEF Narrowed
  <2>4. QED
    BY <2>1, <2>2, <2>3
<1>16. Elements(r, n - 1, d) = WithoutAt(L, n, at)
  BY <1>15 DEF Elements, WithoutAt
<1>17. Layout(r, n - 1, d, k + 1, g)
  <2>1. \A i \in 1..(n - 1) : r.element[d[i]] \in Element
    BY <1>15
  <2>2. k + 1 \in Nat /\ n - 1 \in Nat
    BY <1>2, <1>3
  <2>3. QED
    BY <1>10, <1>11, <1>13, <1>14, <2>1, <2>2 DEF Layout
<1>18. QED
  BY <1>4, <1>16, <1>17 DEF Stores

(* ll_set.                                                                 *)
LEMMA AssignedIs ==
  ASSUME NEW mem, NEW n \in Nat, NEW L, Stores(mem, n, L), NEW at \in 0..(n - 1), NEW e \in Element
  PROVE  Stores(Assigned(mem, Nth(mem, at + 1), e), n, ReplacedAt(L, n, at, e))
<1>1. PICK c, k, f : Layout(mem, n, c, k, f) /\ L = Elements(mem, n, c)
  BY DEF Stores
<1>2. /\ mem \in Memory /\ n \in Nat /\ k \in Nat /\ Ring(mem.next, mem.prev, n, c)
      /\ FreeList(mem.next, mem.freel, k, f) /\ Shared(mem.heap, n, c, k, f)
      /\ \A i \in 1..n : mem.element[c[i]] \in Element
      /\ L = [i \in 1..n |-> mem.element[c[i]]]
  BY <1>1 DEF Layout, Elements
<1> DEFINE p == c[at + 1]
           r == Assigned(mem, p, e)
<1>3. at + 1 \in 1..n /\ at + 1 \in 0..(n + 1)
  BY <1>2
<1>4. Nth(mem, at + 1) = p
  BY <1>2, <1>3, NthIs
<1>5. (\A i \in 1..n : c[i] \in Node) /\ \A i, j \in 1..n : c[i] = c[j] => i = j
  BY <1>2 DEF Ring
<1>6. p \in Node /\ p \in Place
  BY <1>3, <1>5, Places
<1>7. /\ r \in Memory /\ r.next = mem.next /\ r.prev = mem.prev /\ r.heap = mem.heap
      /\ r.freel = mem.freel /\ r.element[p] = e
      /\ \A q \in Place : q # p => r.element[q] = mem.element[q]
  <2> HIDE DEF p
  <2>1. QED
    BY <1>2, <1>6 DEF Memory, Assigned
<1> HIDE DEF r
<1>8. \A i \in 1..n : /\ r.element[c[i]] = IF i = at + 1 THEN e ELSE L[i]
                      /\ r.element[c[i]] \in Element
  BY <1>2, <1>3, <1>5, <1>7, Places
<1>9. Elements(r, n, c) = ReplacedAt(L, n, at, e)
  BY <1>8 DEF Elements, ReplacedAt
<1>10. Layout(r, n, c, k, f)
  BY <1>2, <1>7, <1>8 DEF Layout
<1>11. QED
  BY <1>4, <1>9, <1>10 DEF Stores, r

(* An empty list: the sentinel is alone in its ring.                       *)
LEMMA RingAlone ==
  ASSUME NEW next, NEW prev, next[Sentinel] = Sentinel, prev[Sentinel] = Sentinel
  PROVE  \E c : Ring(next, prev, 0, c) /\ \A p : ~On(c, 0, p)
<1> DEFINE c == [i \in 0..1 |-> Sentinel]
<1>1. Ring(next, prev, 0, c)
  BY Places DEF Ring
<1>2. \A p : ~On(c, 0, p)
  BY DEF On
<1>3. QED
  BY <1>1, <1>2

LEMMA EmptyElements == ASSUME NEW mem, NEW c PROVE Elements(mem, 0, c) = << >>
BY DEF Elements

LEMMA NewMemoryIs == Stores(NewMemory, 0, << >>)
<1> DEFINE f == [i \in 1..1 |-> NULL]
<1>1. /\ NewMemory \in Memory /\ NewMemory.heap = {} /\ NewMemory.freel = NULL
      /\ NewMemory.next[Sentinel] = Sentinel /\ NewMemory.prev[Sentinel] = Sentinel
  BY Places DEF NewMemory, Memory, Place
<1>2. PICK c : Ring(NewMemory.next, NewMemory.prev, 0, c) /\ \A p : ~On(c, 0, p)
  BY <1>1, RingAlone
<1>3. FreeList(NewMemory.next, NewMemory.freel, 0, f) /\ \A p : ~On(f, 0, p)
  BY <1>1 DEF FreeList, On
<1> HIDE DEF f
<1>4. Shared(NewMemory.heap, 0, c, 0, f)
  BY <1>1, <1>2, <1>3 DEF Shared
<1>5. Layout(NewMemory, 0, c, 0, f)
  BY <1>1, <1>2, <1>3, <1>4 DEF Layout
<1>6. QED
  BY <1>5, EmptyElements DEF Stores

(* ll_clear and ll_destroy: the user function gets the elements in order,  *)
(* and every allocated node ends on the free list.                         *)
LEMMA ClearedIs ==
  ASSUME NEW mem, NEW n \in Nat, NEW L, Stores(mem, n, L)
  PROVE  /\ purge(mem).uf = L
         /\ Stores(Cleared(mem), 0, << >>)
         /\ mem.heap \ FreeNodes(purge(mem).m) = {}
<1>1. PICK c, k, f : Layout(mem, n, c, k, f) /\ L = Elements(mem, n, c)
  BY DEF Stores
<1>2. /\ mem \in Memory /\ k \in Nat /\ Ring(mem.next, mem.prev, n, c)
      /\ FreeList(mem.next, mem.freel, k, f) /\ Shared(mem.heap, n, c, k, f)
      /\ \A i \in 1..n : mem.element[c[i]] \in Element
      /\ L = [i \in 1..n |-> mem.element[c[i]]]
  BY <1>1 DEF Layout, Elements
<1> DEFINE s == purge(mem)
           r == Cleared(mem)
<1>3. Purged(mem, n, c, k, f, n, s)
  <2>1. \A p \in Node : ~(On(c, n, p) /\ On(f, k, p))
    BY <1>2 DEF Shared
  <2>2. QED
    BY <1>2, <2>1, PurgeIs
<1>4. r = [s.m EXCEPT !.next[Sentinel] = Sentinel, !.prev[Sentinel] = Sentinel]
  BY DEF Cleared
<1> HIDE DEF s, r
<1>5. s.m \in Memory /\ s.m.heap = mem.heap /\ s.uf = L
  BY <1>2, <1>3 DEF Purged, Purging
<1>6. PICK l, g : /\ l \in Nat
                  /\ FreeList(s.m.next, s.m.freel, l, g)
                  /\ \A p \in Node : On(g, l, p) <=> On(f, k, p) \/ On(c, n, p)
  BY <1>3 DEF Purged
<1>7. \A p \in Node : On(g, l, p) <=> p \in mem.heap
  BY <1>2, <1>6 DEF Shared
<1>8. mem.heap \ FreeNodes(s.m) = {}
  <2>1. FreeNodes(s.m) = {p \in Node : On(g, l, p)}
    BY <1>6, FreeNodesIs
  <2>2. mem.heap \subseteq Node
    BY <1>2 DEF Memory
  <2>3. QED
    BY <1>7, <2>1, <2>2
<1>9. /\ r \in Memory /\ r.heap = s.m.heap /\ r.freel = s.m.freel
      /\ r.next[Sentinel] = Sentinel /\ r.prev[Sentinel] = Sentinel
      /\ \A q \in Node : r.next[q] = s.m.next[q]
  BY <1>4, <1>5, Places DEF Memory
<1>10. FreeList(r.next, r.freel, l, g)
  <2>1. \A i \in 1..l : r.next[g[i]] = s.m.next[g[i]]
    BY <1>6, <1>9 DEF FreeList
  <2>2. QED
    BY <1>6, <1>9, <2>1, FreeKept
<1>11. PICK d : Ring(r.next, r.prev, 0, d) /\ \A p : ~On(d, 0, p)
  BY <1>9, RingAlone
<1>12. Shared(r.heap, 0, d, l, g)
  BY <1>5, <1>7, <1>9, <1>11 DEF Shared
<1>13. Layout(r, 0, d, l, g)
  BY <1>6, <1>9, <1>10, <1>11, <1>12 DEF Layout
<1>14. Stores(r, 0, << >>)
  BY <1>13, EmptyElements DEF Stores
<1>15. QED
  BY <1>5, <1>8, <1>14 DEF s, r
-----------------------------------------------------------------------------
(* What the abstract list's operations on sequences compute.               *)
LEMMA SameSequence ==
  ASSUME NEW n \in Nat, NEW q \in Seq(Element), Len(q) = n, NEW L \in [1..n -> Element],
         \A i \in 1..n : q[i] = L[i]
  PROVE  q = L
OBVIOUS

LEMMA FunctionIsSequence ==
  ASSUME NEW n \in Nat, NEW L \in [1..n -> Element]
  PROVE  L \in Seq(Element) /\ Len(L) = n
OBVIOUS

LEMMA InsertAtIs ==
  ASSUME NEW n \in Nat, NEW L \in [1..n -> Element], NEW at \in 0..n, NEW e \in Element
  PROVE  Abstract!InsertAt(L, at + 1, e) = WithAt(L, n, at, e)
<1> DEFINE a == SubSeq(L, 1, at)
           b == SubSeq(L, at + 1, n)
           q == a \o <<e>>
           r == q \o b
<1>1. Len(L) = n
  BY FunctionIsSequence
<1>2. Abstract!InsertAt(L, at + 1, e) = r
  <2>1. (at + 1) - 1 = at
    OBVIOUS
  <2>2. QED
    BY <1>1, <2>1 DEF Abstract!InsertAt
<1>3. a \in Seq(Element) /\ Len(a) = at /\ \A i \in 1..at : a[i] = L[i]
  <2>1. \A i \in 1..at : L[i] \in Element
    OBVIOUS
  <2>2. /\ a \in Seq(Element) /\ Len(a) = IF 1 <= at THEN at - 1 + 1 ELSE 0
        /\ \A i \in 1..(at - 1 + 1) : a[i] = L[1 + i - 1]
    <3> HIDE DEF a
    <3>1. at \in Int /\ 1 \in Int
      OBVIOUS
    <3>2. QED
      BY <2>1, <3>1, SubSeqProperties DEF a
  <2> HIDE DEF a
  <2>3. QED
    BY <2>2
<1>4. b \in Seq(Element) /\ Len(b) = n - at /\ \A i \in 1..(n - at) : b[i] = L[at + i]
  <2>1. \A i \in (at + 1)..n : L[i] \in Element
    OBVIOUS
  <2>2. /\ b \in Seq(Element) /\ Len(b) = IF at + 1 <= n THEN n - (at + 1) + 1 ELSE 0
        /\ \A i \in 1..(n - (at + 1) + 1) : b[i] = L[(at + 1) + i - 1]
    <3>1. at + 1 \in Int /\ n \in Int
      OBVIOUS
    <3>2. QED
      BY <2>1, <3>1, SubSeqProperties DEF b
  <2> HIDE DEF b
  <2>3. QED
    BY <2>2
<1> HIDE DEF a, b
<1>5. <<e>> \in Seq(Element) /\ Len(<<e>>) = 1 /\ <<e>>[1] = e
  OBVIOUS
<1>6. /\ q \in Seq(Element) /\ Len(q) = at + 1
      /\ \A i \in 1..(at + 1) : q[i] = IF i <= at THEN a[i] ELSE <<e>>[i - at]
  BY <1>3, <1>5, ConcatProperties
<1> HIDE DEF q
<1>7. /\ r \in Seq(Element) /\ Len(r) = n + 1
      /\ \A i \in 1..(n + 1) : r[i] = IF i <= at + 1 THEN q[i] ELSE b[i - (at + 1)]
  <2>1. (at + 1) + (n - at) = n + 1
    OBVIOUS
  <2>2. QED
    BY <1>4, <1>6, <2>1, ConcatProperties
<1> HIDE DEF r
<1>8. WithAt(L, n, at, e) \in [1..(n + 1) -> Element]
  BY DEF WithAt
<1>9. ASSUME NEW i \in 1..(n + 1) PROVE r[i] = WithAt(L, n, at, e)[i]
  <2>1. CASE i <= at
    <3>1. r[i] = L[i]
      BY <1>3, <1>6, <1>7, <2>1
    <3>2. QED
      BY <2>1, <3>1 DEF WithAt
  <2>2. CASE i = at + 1
    <3>1. r[i] = e
      BY <1>5, <1>6, <1>7, <2>2
    <3>2. QED
      BY <2>2, <3>1 DEF WithAt
  <2>3. CASE i > at + 1
    <3>1. i - (at + 1) \in 1..(n - at) /\ at + (i - (at + 1)) = i - 1 /\ ~(i <= at) /\ i # at + 1
      BY <2>3
    <3>2. r[i] = b[i - (at + 1)]
      BY <1>7, <2>3
    <3>3. b[i - (at + 1)] = L[at + (i - (at + 1))]
      BY <1>4, <3>1
    <3>4. r[i] = L[i - 1]
      BY <3>1, <3>2, <3>3
    <3>5. QED
      BY <3>1, <3>4 DEF WithAt
  <2>4. QED
    BY <2>1, <2>2, <2>3
<1>10. r = WithAt(L, n, at, e)
  BY <1>7, <1>8, <1>9, SameSequence
<1>11. QED
  BY <1>2, <1>10

LEMMA RemoveAtIs ==
  ASSUME NEW n \in Nat, NEW L \in [1..n -> Element], NEW at \in 0..(n - 1)
  PROVE  Abstract!RemoveAt(L, at + 1) = WithoutAt(L, n, at)
<1> DEFINE a == SubSeq(L, 1, at)
           b == SubSeq(L, at + 2, n)
           r == a \o b
<1>1. Len(L) = n
  BY FunctionIsSequence
<1>2. Abstract!RemoveAt(L, at + 1) = r
  <2>1. (at + 1) - 1 = at /\ (at + 1) + 1 = at + 2
    OBVIOUS
  <2>2. QED
    BY <1>1, <2>1 DEF Abstract!RemoveAt
<1>3. a \in Seq(Element) /\ Len(a) = at /\ \A i \in 1..at : a[i] = L[i]
  <2>1. \A i \in 1..at : L[i] \in Element
    OBVIOUS
  <2>2. /\ a \in Seq(Element) /\ Len(a) = IF 1 <= at THEN at - 1 + 1 ELSE 0
        /\ \A i \in 1..(at - 1 + 1) : a[i] = L[1 + i - 1]
    <3>1. at \in Int /\ 1 \in Int
      OBVIOUS
    <3>2. QED
      BY <2>1, <3>1, SubSeqProperties DEF a
  <2> HIDE DEF a
  <2>3. QED
    BY <2>2
<1>4. b \in Seq(Element) /\ Len(b) = n - 1 - at /\ \A i \in 1..(n - 1 - at) : b[i] = L[at + 1 + i]
  <2>1. \A i \in (at + 2)..n : L[i] \in Element
    OBVIOUS
  <2>2. /\ b \in Seq(Element) /\ Len(b) = IF at + 2 <= n THEN n - (at + 2) + 1 ELSE 0
        /\ \A i \in 1..(n - (at + 2) + 1) : b[i] = L[(at + 2) + i - 1]
    <3>1. at + 2 \in Int /\ n \in Int
      OBVIOUS
    <3>2. QED
      BY <2>1, <3>1, SubSeqProperties DEF b
  <2> HIDE DEF b
  <2>3. QED
    BY <2>2
<1> HIDE DEF a, b
<1>5. /\ r \in Seq(Element) /\ Len(r) = n - 1
      /\ \A i \in 1..(n - 1) : r[i] = IF i <= at THEN a[i] ELSE b[i - at]
  <2>1. at + (n - 1 - at) = n - 1
    OBVIOUS
  <2>2. /\ r \in Seq(Element) /\ Len(r) = Len(a) + Len(b)
        /\ \A i \in 1..(Len(a) + Len(b)) : r[i] = IF i <= Len(a) THEN a[i] ELSE b[i - Len(a)]
    BY <1>3, <1>4, ConcatProperties
  <2> HIDE DEF r
  <2>3. QED
    BY <1>3, <1>4, <2>1, <2>2
<1> HIDE DEF r
<1>6. WithoutAt(L, n, at) \in [1..(n - 1) -> Element]
  BY DEF WithoutAt
<1>7. ASSUME NEW i \in 1..(n - 1) PROVE r[i] = WithoutAt(L, n, at)[i]
  <2>1. CASE i <= at
    BY <1>3, <1>5, <2>1 DEF WithoutAt
  <2>2. CASE i > at
    <3>1. i - at \in 1..(n - 1 - at) /\ at + 1 + (i - at) = i + 1 /\ ~(i <= at)
      BY <2>2
    <3>2. r[i] = L[i + 1]
      BY <1>4, <1>5, <3>1
    <3>3. QED
      BY <3>1, <3>2 DEF WithoutAt
  <2>3. QED
    BY <2>1, <2>2
<1>8. r = WithoutAt(L, n, at)
  <2>1. n - 1 \in Nat
    OBVIOUS
  <2>2. QED
    BY <1>5, <1>6, <1>7, <2>1, SameSequence
<1>9. QED
  BY <1>2, <1>8
-----------------------------------------------------------------------------
ListInv ==
  /\ size \in Nat /\ purged \in Seq(Element) /\ Stores(m, size, ll_toArray)
  /\ Alive \/ (size = 0 /\ m = NewMemory)

(* What the properties say of one step.                                    *)
PurgesInOrder == reply'.call \in {<<"clear">>, <<"destroy">>} => purged' = ll_toArray

Kept == ListInv' /\ Abstract!ListNext /\ PurgesInOrder

LEMMA StoresArray ==
  ASSUME size \in Nat, NEW L, Stores(m, size, L)
  PROVE  ll_toArray = L
BY StoredIs DEF ll_toArray

(* The new list, when it is known what it contains.                        *)
LEMMA NewArray ==
  ASSUME NEW n \in Nat, NEW L, Stores(m', n, L), size' = n
  PROVE  size' \in Nat /\ Stores(m', size', ll_toArray') /\ ll_toArray' = L
<1>1. L = [i \in 1..n |-> m'.element[Nth(m', i)]]
  BY StoredIs
<1>2. ll_toArray' = [i \in 1..n |-> m'.element[Nth(m', i)]]
  BY DEF ll_toArray
<1>3. QED
  BY <1>1, <1>2

LEMMA ArrayIs ==
  ASSUME ListInv
  PROVE  ll_toArray \in [1..size -> Element] /\ Len(ll_toArray) = size
<1>1. ll_toArray \in [1..size -> Element]
  BY StoredIs DEF ListInv
<1>2. QED
  BY <1>1, FunctionIsSequence DEF ListInv

LEMMA SuppliedStores ==
  ASSUME NEW mem, NEW n \in Nat, NEW L, Stores(mem, n, L), NEW r \in Supplied(mem)
  PROVE  Stores(r, n, L) /\ \A i \in 0..(n + 1) : Nth(r, i) = Nth(mem, i)
<1>1. PICK c, k, f : Layout(mem, n, c, k, f) /\ L = Elements(mem, n, c)
  BY DEF Stores
<1>2. PICK l, g : Layout(r, n, c, l, g)
  BY <1>1, SuppliedIs
<1>3. Stores(r, n, L)
  BY <1>1, <1>2, SuppliedIs DEF Stores
<1>4. Ring(mem.next, mem.prev, n, c) /\ Ring(r.next, r.prev, n, c)
  BY <1>1, <1>2 DEF Layout
<1>5. \A i \in 0..(n + 1) : Nth(r, i) = c[i] /\ Nth(mem, i) = c[i]
  BY <1>4, NthIs
<1>6. QED
  BY <1>3, <1>5

(* A call that changes the list does not destroy it.                       *)
Changing(call) == call \notin {<<"clear">>, <<"destroy">>}

LEMMA RefuseStep ==
  ASSUME ListInv, Alive, NEW call, Changing(call), Refuse(call)
  PROVE  ListInv' /\ PurgesInOrder /\ Abstract!Refused(call)
<1>1. /\ m' = m /\ size' = size /\ purged' = << >> /\ reply' = Reply(call, 0, << >>)
      /\ ll_toArray' = ll_toArray
  BY DEF Refuse, ll_toArray
<1>2. reply'.call = call
  BY <1>1 DEF Reply
<1>3. ListInv'
  <2>1. Alive'
    BY <1>2 DEF Alive, Changing
  <2>2. << >> \in Seq(Element)
    BY EmptySeq
  <2>3. Stores(m', size', ll_toArray')
    BY <1>1 DEF ListInv
  <2>4. QED
    BY <1>1, <2>1, <2>2, <2>3 DEF ListInv
<1>4. PurgesInOrder
  BY <1>2 DEF PurgesInOrder, Changing
<1>5. Abstract!Refused(call)
  BY <1>1 DEF Abstract!Refused, Abstract!Reply, Reply
<1>6. QED
  BY <1>3, <1>4, <1>5

(* A call that changes the list, given what the list then contains.        *)
LEMMA ChangeStep ==
  ASSUME NEW call, Changing(call), NEW ret, NEW out, reply' = Reply(call, ret, out),
         purged' = << >>, NEW n \in Nat, NEW L, Stores(m', n, L), size' = n
  PROVE  ListInv' /\ PurgesInOrder /\ ll_toArray' = L
<1>1. reply'.call = call
  BY DEF Reply
<1>2. Alive'
  BY <1>1 DEF Alive, Changing
<1>3. << >> \in Seq(Element)
  BY EmptySeq
<1>4. size' \in Nat /\ Stores(m', size', ll_toArray') /\ ll_toArray' = L
  BY NewArray
<1>5. ListInv'
  BY <1>2, <1>3, <1>4 DEF ListInv
<1>6. QED
  BY <1>1, <1>4, <1>5 DEF PurgesInOrder, Changing

LEMMA InsertStep ==
  ASSUME ListInv, Alive, NEW call, Changing(call), NEW at \in 0..size, NEW e \in Element,
         Insert(call, Nth(m, at), e)
  PROVE  ListInv' /\ PurgesInOrder /\ Abstract!InsertElement(call, at, e)
<1> DEFINE L == ll_toArray
<1>1. size \in Nat /\ Stores(m, size, L) /\ at \in 0..(size + 1)
  BY DEF ListInv
<1>2. L \in [1..size -> Element] /\ Len(L) = size
  BY ArrayIs
<1> HIDE DEF L
<1>3. PICK mem \in Supplied(m) :
        /\ purged' = << >>
        /\ IF mem.freel = NULL
           THEN m' = mem /\ reply' = Reply(call, 0, << >>) /\ UNCHANGED size
           ELSE /\ m' = Inserted(mem, Nth(m, at), e)
                /\ size' = size + 1 /\ reply' = Reply(call, 1, << >>)
  BY DEF Insert, Inserted
<1>4. Stores(mem, size, L) /\ Nth(mem, at) = Nth(m, at)
  BY <1>1, SuppliedStores
<1>5. CASE mem.freel = NULL
  <2>1. Stores(m', size, L) /\ reply' = Reply(call, 0, << >>) /\ size' = size /\ purged' = << >>
    BY <1>3, <1>4, <1>5
  <2>2. ListInv' /\ PurgesInOrder /\ ll_toArray' = L
    BY <1>1, <2>1, ChangeStep
  <2>3. Abstract!Refused(call)
    BY <2>1, <2>2 DEF Abstract!Refused, Abstract!Reply, Reply, L
  <2>4. QED
    BY <2>2, <2>3 DEF Abstract!InsertElement
<1>6. CASE mem.freel # NULL
  <2>1. /\ m' = Inserted(mem, Nth(mem, at), e) /\ size' = size + 1
        /\ reply' = Reply(call, 1, << >>) /\ purged' = << >>
    BY <1>3, <1>4, <1>6
  <2>2. Stores(m', size + 1, WithAt(L, size, at, e))
    BY <1>1, <1>4, <1>6, <2>1, InsertedIs
  <2>3. size + 1 \in Nat
    BY <1>1
  <2>4. ListInv' /\ PurgesInOrder /\ ll_toArray' = WithAt(L, size, at, e)
    BY <2>1, <2>2, <2>3, ChangeStep
  <2>5. Abstract!InsertAt(L, at + 1, e) = WithAt(L, size, at, e)
    BY <1>1, <1>2, InsertAtIs
  <2>6. at <= Len(L)
    BY <1>1, <1>2
  <2>7. Abstract!InsertElement(call, at, e)
    BY <2>1, <2>4, <2>5, <2>6 DEF Abstract!InsertElement, Abstract!Reply, Reply, L
  <2>8. QED
    BY <2>4, <2>7
<1>7. QED
  BY <1>5, <1>6

LEMMA RemoveStep ==
  ASSUME ListInv, Alive, NEW call, Changing(call), NEW at \in 0..(size - 1),
         Remove(call, Nth(m, at + 1))
  PROVE  ListInv' /\ PurgesInOrder /\ Abstract!RemoveElement(call, at)
<1> DEFINE L == ll_toArray
<1>1. size \in Nat /\ Stores(m, size, L) /\ size - 1 \in Nat /\ at + 1 \in 1..size
  BY DEF ListInv
<1>2. L \in [1..size -> Element] /\ Len(L) = size
  BY ArrayIs
<1>3. m.element[Nth(m, at + 1)] = L[at + 1]
  BY <1>1 DEF ll_toArray
<1> HIDE DEF L
<1>4. /\ m' = Removed(m, Nth(m, at + 1)) /\ size' = size - 1
      /\ reply' = Reply(call, 1, <<L[at + 1]>>) /\ purged' = << >>
  BY <1>3 DEF Remove, Removed
<1>5. Stores(m', size - 1, WithoutAt(L, size, at))
  BY <1>1, <1>4, RemovedIs
<1>6. ListInv' /\ PurgesInOrder /\ ll_toArray' = WithoutAt(L, size, at)
  BY <1>1, <1>4, <1>5, ChangeStep
<1>7. Abstract!RemoveAt(L, at + 1) = WithoutAt(L, size, at)
  BY <1>1, <1>2, RemoveAtIs
<1>8. at \in 0..(Len(L) - 1)
  BY <1>2
<1>9. Abstract!RemoveElement(call, at)
  BY <1>4, <1>6, <1>7, <1>8 DEF Abstract!RemoveElement, Abstract!Reply, Reply, L
<1>10. QED
  BY <1>6, <1>9

LEMMA SetStep ==
  ASSUME ListInv, Alive, NEW at \in Nat, NEW e \in Element, ll_set(at, e)
  PROVE  ListInv' /\ PurgesInOrder /\ Abstract!SetElement(<<"set", at, e>>, at, e)
<1> DEFINE L == ll_toArray
           call == <<"set", at, e>>
<1>1. size \in Nat /\ Stores(m, size, L) /\ Changing(call)
  BY DEF ListInv, Changing
<1>2. L \in [1..size -> Element] /\ Len(L) = size
  BY ArrayIs
<1> HIDE DEF call
<1>3. CASE at < size
  <2>1. at \in 0..(size - 1) /\ at + 1 \in 1..size
    BY <1>1, <1>3
  <2>2. m.element[Nth(m, at + 1)] = L[at + 1]
    BY <2>1 DEF ll_toArray
  <2> HIDE DEF L
  <2>3. /\ m' = Assigned(m, Nth(m, at + 1), e) /\ size' = size
        /\ reply' = Reply(call, 1, <<L[at + 1]>>) /\ purged' = << >>
    BY <1>3, <2>2 DEF ll_set, Position, Assigned, call
  <2>4. Stores(m', size, ReplacedAt(L, size, at, e))
    BY <1>1, <2>1, <2>3, AssignedIs
  <2>5. ListInv' /\ PurgesInOrder /\ ll_toArray' = ReplacedAt(L, size, at, e)
    BY <1>1, <2>3, <2>4, ChangeStep
  <2>6. [L EXCEPT ![at + 1] = e] = ReplacedAt(L, size, at, e)
    BY <1>2, <2>1 DEF ReplacedAt
  <2>7. at \in 0..(Len(L) - 1)
    BY <1>2, <2>1
  <2>8. Abstract!SetElement(call, at, e)
    BY <2>3, <2>5, <2>6, <2>7 DEF Abstract!SetElement, Abstract!Reply, Reply, L
  <2>9. QED
    BY <2>5, <2>8 DEF call
<1>4. CASE ~(at < size)
  <2>1. Refuse(call)
    BY <1>4 DEF ll_set, Position, call
  <2>2. ListInv' /\ PurgesInOrder /\ Abstract!Refused(call)
    BY <1>1, <2>1, RefuseStep
  <2>3. ~(at \in 0..(Len(L) - 1))
    BY <1>1, <1>2, <1>4
  <2>4. Abstract!SetElement(call, at, e)
    BY <2>2, <2>3 DEF Abstract!SetElement
  <2>5. QED
    BY <2>2, <2>4 DEF call
<1>5. QED
  BY <1>3, <1>4

(* ll_clear, ll_destroy and ll_create leave an empty list.                 *)
EmptiesList(op) == ListInv' /\ Abstract!Empty(op)

LEMMA EmptyStep ==
  ASSUME NEW op, reply' = Reply(<<op>>, 1, << >>), size' = 0, purged' \in Seq(Element),
         Stores(m', 0, << >>), Alive' \/ m' = NewMemory
  PROVE  EmptiesList(op)
<1>1. Stores(m', size', ll_toArray') /\ ll_toArray' = << >>
  BY NewArray
<1>2. ListInv'
  BY <1>1 DEF ListInv
<1>3. Abstract!Empty(op)
  BY <1>1 DEF Abstract!Empty, Abstract!Reply, Reply
<1>4. QED
  BY <1>2, <1>3 DEF EmptiesList

LEMMA ClearStep ==
  ASSUME ListInv, Clear
  PROVE  EmptiesList("clear") /\ PurgesInOrder
<1>1. size \in Nat /\ Stores(m, size, ll_toArray) /\ ll_toArray \in Seq(Element)
  BY ArrayIs, FunctionIsSequence DEF ListInv
<1>2. purge(m).uf = ll_toArray /\ Stores(Cleared(m), 0, << >>)
  BY <1>1, ClearedIs
<1>3. /\ m' = Cleared(m) /\ size' = 0 /\ reply' = Reply(<<"clear">>, 1, << >>)
      /\ purged' = purge(m).uf
  BY DEF Clear, Cleared
<1>4. reply'.call = <<"clear">>
  BY <1>3 DEF Reply
<1>5. Alive'
  BY <1>4 DEF Alive
<1>6. QED
  BY <1>1, <1>2, <1>3, <1>5, EmptyStep DEF PurgesInOrder

LEMMA DestroyStep ==
  ASSUME ListInv, Destroy
  PROVE  EmptiesList("destroy") /\ PurgesInOrder
<1>1. size \in Nat /\ Stores(m, size, ll_toArray) /\ ll_toArray \in Seq(Element)
  BY ArrayIs, FunctionIsSequence DEF ListInv
<1>2. purge(m).uf = ll_toArray /\ m.heap \ FreeNodes(purge(m).m) = {}
  BY <1>1, ClearedIs
<1>3. /\ m' = [NewMemory EXCEPT !.heap = m.heap \ FreeNodes(purge(m).m)] /\ size' = 0
      /\ reply' = Reply(<<"destroy">>, 1, << >>) /\ purged' = purge(m).uf
  BY DEF Destroy
<1>4. m' = NewMemory
  BY <1>2, <1>3 DEF NewMemory
<1>5. QED
  BY <1>1, <1>2, <1>3, <1>4, NewMemoryIs, EmptyStep DEF PurgesInOrder

LEMMA CreateStep ==
  ASSUME ListInv, Create
  PROVE  EmptiesList("create") /\ PurgesInOrder
<1>1. /\ m' = NewMemory /\ size' = 0 /\ purged' = << >> /\ reply' = Reply(<<"create">>, 1, << >>)
  BY DEF Create
<1>2. reply'.call = <<"create">> /\ << >> \in Seq(Element)
  BY <1>1, EmptySeq DEF Reply
<1>3. EmptiesList("create")
  BY <1>1, <1>2, NewMemoryIs, EmptyStep
<1>4. PurgesInOrder
  BY <1>2 DEF PurgesInOrder
<1>5. QED
  BY <1>3, <1>4

(* The neighbours of the sentinel are the first and the last node.         *)
LEMMA EndsAre ==
  ASSUME ListInv
  PROVE  /\ size \in Nat /\ m.next[Sentinel] = Nth(m, 1) /\ m.prev[Sentinel] = Nth(m, size)
         /\ Sentinel = Nth(m, 0)
         /\ size = 0 => Nth(m, 1) = Sentinel /\ Nth(m, size) = Sentinel
         /\ size # 0 => Nth(m, 1) # Sentinel /\ Nth(m, size) # Sentinel
<1>1. size \in Nat /\ Stores(m, size, ll_toArray)
  BY DEF ListInv
<1>2. /\ Nth(m, 0) = Sentinel /\ Nth(m, size + 1) = Sentinel
      /\ \A i \in 1..size : Nth(m, i) \in Node
      /\ \A i \in 0..size : m.next[Nth(m, i)] = Nth(m, i + 1) /\ m.prev[Nth(m, i + 1)] = Nth(m, i)
  BY <1>1, StoredIs
<1>3. 0 \in 0..size /\ size \in 0..size /\ 0 + 1 = 1
  BY <1>1
<1>4. size # 0 => Nth(m, 1) \in Node /\ Nth(m, size) \in Node
  BY <1>1, <1>2
<1>5. m.next[Sentinel] = Nth(m, 1) /\ m.prev[Sentinel] = Nth(m, size)
  BY <1>2, <1>3
<1>6. size = 0 => Nth(m, 1) = Sentinel /\ Nth(m, size) = Sentinel
  BY <1>2
<1>7. QED
  BY <1>1, <1>2, <1>4, <1>5, <1>6, Places

LEMMA RemoveEndStep ==
  ASSUME ListInv, NEW call, Changing(call), NEW at, NEW p, RemoveEnd(call, p),
         (at = 0 /\ p = m.next[Sentinel]) \/ (at = size - 1 /\ p = m.prev[Sentinel])
  PROVE  ListInv' /\ PurgesInOrder /\ Abstract!RemoveElement(call, at)
<1>1. Len(ll_toArray) = size
  BY ArrayIs
<1>2. CASE size = 0
  <2>1. Alive /\ Refuse(call)
    BY <1>2, EndsAre DEF RemoveEnd
  <2>2. ListInv' /\ PurgesInOrder /\ Abstract!Refused(call)
    BY <2>1, RefuseStep
  <2>3. ~(at \in 0..(Len(ll_toArray) - 1))
    BY <1>1, <1>2
  <2>4. Abstract!RemoveElement(call, at)
    BY <2>2, <2>3 DEF Abstract!RemoveElement
  <2>5. QED
    BY <2>2, <2>4
<1>3. CASE size # 0
  <2>1. size \in Nat /\ at \in 0..(size - 1)
    BY <1>3, EndsAre
  <2>2. p = Nth(m, at + 1)
    BY <2>1, EndsAre
  <2>3. Alive /\ Remove(call, Nth(m, at + 1))
    BY <1>3, <2>2, EndsAre DEF RemoveEnd
  <2>4. QED
    BY <2>1, <2>3, RemoveStep
<1>4. QED
  BY <1>2, <1>3

LEMMA NextStep ==
  ASSUME ListInv, Next
  PROVE  Kept
<1> DEFINE L == ll_toArray
<1>1. size \in Nat /\ Len(L) = size
  BY ArrayIs DEF ListInv
<1>2. \A at : at \in 0..(size + 1) => at \in 0..(Len(L) + 1)
  BY <1>1
<1> HIDE DEF L
<1>3. ASSUME NEW at \in 0..(size + 1), NEW e \in Element, ll_insert(at, e) PROVE Kept
  <2> DEFINE call == <<"insert", at, e>>
  <2>1. Changing(call) /\ Alive
    BY <1>3 DEF Changing, ll_insert
  <2> HIDE DEF call
  <2>2. ListInv' /\ PurgesInOrder /\ Abstract!InsertElement(call, at, e)
    <3>1. CASE at <= size
      <4>1. Insert(call, Nth(m, at), e) /\ at \in 0..size
        BY <1>3, <3>1 DEF ll_insert, call
      <4>2. QED
        BY <2>1, <4>1, InsertStep
    <3>2. CASE ~(at <= size)
      <4>1. Refuse(call)
        BY <1>3, <3>2 DEF ll_insert, call
      <4>2. QED
        BY <2>1, <4>1, RefuseStep DEF Abstract!InsertElement
    <3>3. QED
      BY <3>1, <3>2
  <2>3. Abstract!ListNext
    BY <1>2, <2>2 DEF Abstract!ListNext, call, L
  <2>4. QED
    BY <2>2, <2>3 DEF Kept
<1>4. ASSUME NEW at \in 0..(size + 1), NEW e \in Element, ll_set(at, e) PROVE Kept
  <2>1. Alive /\ at \in Nat
    BY <1>4 DEF ll_set
  <2>2. ListInv' /\ PurgesInOrder /\ Abstract!SetElement(<<"set", at, e>>, at, e)
    BY <1>4, <2>1, SetStep
  <2>3. Abstract!ListNext
    BY <1>2, <2>2 DEF Abstract!ListNext, L
  <2>4. QED
    BY <2>2, <2>3 DEF Kept
<1>5. ASSUME NEW e \in Element, ll_addFirst(e) PROVE Kept
  <2> DEFINE call == <<"addFirst", e>>
  <2>1. Changing(call) /\ Alive /\ Insert(call, Nth(m, 0), e) /\ 0 \in 0..size
    BY <1>1, <1>5, EndsAre DEF Changing, ll_addFirst
  <2> HIDE DEF call
  <2>2. ListInv' /\ PurgesInOrder /\ Abstract!InsertElement(call, 0, e)
    BY <2>1, InsertStep
  <2>3. Abstract!ListNext
    BY <2>2 DEF Abstract!ListNext, call
  <2>4. QED
    BY <2>2, <2>3 DEF Kept
<1>6. ASSUME NEW e \in Element, ll_addLast(e) PROVE Kept
  <2> DEFINE call == <<"addLast", e>>
  <2>1. Changing(call) /\ Alive /\ Insert(call, Nth(m, size), e) /\ size \in 0..size
    BY <1>1, <1>6, EndsAre DEF Changing, ll_addLast
  <2> HIDE DEF call
  <2>2. ListInv' /\ PurgesInOrder /\ Abstract!InsertElement(call, size, e)
    BY <2>1, InsertStep
  <2>3. Abstract!ListNext
    BY <1>1, <2>2 DEF Abstract!ListNext, call, L
  <2>4. QED
    BY <2>2, <2>3 DEF Kept
<1>7. ASSUME NEW at \in 0..(size + 1), ll_remove(at) PROVE Kept
  <2> DEFINE call == <<"remove", at>>
  <2>1. Changing(call) /\ Alive
    BY <1>7 DEF Changing, ll_remove
  <2> HIDE DEF call
  <2>2. ListInv' /\ PurgesInOrder /\ Abstract!RemoveElement(call, at)
    <3>1. CASE at < size
      <4>1. Remove(call, Nth(m, at + 1)) /\ at \in 0..(size - 1)
        BY <1>1, <1>7, <3>1 DEF ll_remove, Position, call
      <4>2. QED
        BY <2>1, <4>1, RemoveStep
    <3>2. CASE ~(at < size)
      <4>1. Refuse(call)
        BY <1>7, <3>2 DEF ll_remove, Position, call
      <4>2. ListInv' /\ PurgesInOrder /\ Abstract!Refused(call)
        BY <2>1, <4>1, RefuseStep
      <4>3. ~(at \in 0..(Len(L) - 1))
        BY <1>1, <3>2
      <4>4. QED
        BY <4>2, <4>3 DEF Abstract!RemoveElement, L
    <3>3. QED
      BY <3>1, <3>2
  <2>3. Abstract!ListNext
    BY <1>2, <2>2 DEF Abstract!ListNext, call, L
  <2>4. QED
    BY <2>2, <2>3 DEF Kept
<1>8. ASSUME RemoveEnd(<<"removeFirst">>, m.next[Sentinel]) PROVE Kept
  <2>1. Changing(<<"removeFirst">>)
    BY DEF Changing
  <2>2. ListInv' /\ PurgesInOrder /\ Abstract!RemoveElement(<<"removeFirst">>, 0)
    BY <1>8, <2>1, RemoveEndStep
  <2>3. QED
    BY <2>2 DEF Kept, Abstract!ListNext
<1>9. ASSUME RemoveEnd(<<"removeLast">>, m.prev[Sentinel]) PROVE Kept
  <2>1. Changing(<<"removeLast">>)
    BY DEF Changing
  <2>2. ListInv' /\ PurgesInOrder /\ Abstract!RemoveElement(<<"removeLast">>, size - 1)
    BY <1>9, <2>1, RemoveEndStep
  <2>3. QED
    BY <1>1, <2>2 DEF Kept, Abstract!ListNext, L
<1>10. ASSUME NEW op \in {"create", "clear", "destroy"}, EmptiesList(op), PurgesInOrder PROVE Kept
  BY <1>10 DEF Kept, EmptiesList, Abstract!ListNext
<1>11. CASE Clear
  BY <1>10, <1>11, ClearStep
<1>12. CASE Destroy
  BY <1>10, <1>12, DestroyStep
<1>13. CASE Create
  BY <1>10, <1>13, CreateStep
<1>14. QED
  BY <1>3, <1>4, <1>5, <1>6, <1>7, <1>8, <1>9, <1>11, <1>12, <1>13 DEF Next

LEMMA InitStep ==
  ASSUME Init
  PROVE  ListInv /\ Abstract!ListInit
<1>1. m = NewMemory /\ size = 0 /\ purged = << >> /\ reply = Reply(<<"create">>, 1, << >>)
  BY DEF Init
<1>2. Stores(m, size, << >>) /\ size \in Nat
  BY <1>1, NewMemoryIs
<1>3. ll_toArray = << >>
  BY <1>2, StoresArray
<1>4. ListInv
  BY <1>1, <1>2, <1>3, EmptySeq DEF ListInv
<1>5. QED
  BY <1>1, <1>3, <1>4 DEF Abstract!ListInit, Abstract!Reply, Reply

LEMMA StutterStep ==
  ASSUME ListInv, UNCHANGED vars
  PROVE  ListInv' /\ UNCHANGED Abstract!listVars
BY DEF ListInv, vars, Abstract!listVars, ll_toArray, Alive

LEMMA Invariance == Spec => []ListInv
<1>1. Init => ListInv
  BY InitStep
<1>2. ListInv /\ [Next]_vars => ListInv'
  BY NextStep, StutterStep DEF Kept
<1>3. QED
  BY <1>1, <1>2, PTL DEF Spec
-----------------------------------------------------------------------------
(* The list closes on itself after size nodes in both directions, and its  *)
(* backward links mirror the forward ones, however many nodes malloc has   *)
(* to give and whatever calls are made.                                    *)
THEOREM ListCircular == Spec => []Circular
<1>1. ListInv => Circular
  <2> SUFFICES ASSUME ListInv PROVE Circular
    OBVIOUS
  <2>1. Stores(m, size, ll_toArray) /\ size \in Nat /\ purged \in Seq(Element)
    BY DEF ListInv
  <2>2. /\ m \in Memory /\ size \in 0..MaxNodes
        /\ Nth(m, 0) = Sentinel /\ Nth(m, size + 1) = Sentinel
        /\ \A i \in 1..size : Nth(m, i) \in Node
        /\ \A i \in 0..size : m.prev[Nth(m, i + 1)] = Nth(m, i) /\ m.next[Nth(m, i)] = Nth(m, i + 1)
    BY <2>1, StoredIs
  <2>3. TypeOK
    BY <2>1, <2>2, Places DEF TypeOK, Memory, Place
  <2>4. Sentinel \notin ListNodes(m)
    BY <2>2, Places DEF ListNodes
  <2>5. ASSUME NEW p \in ListNodes(m) \cup {Sentinel} PROVE m.prev[m.next[p]] = p
    <3>1. PICK i \in 0..size : p = Nth(m, i)
      <4>1. p = Sentinel \/ \E i \in 1..size : p = Nth(m, i)
        BY DEF ListNodes
      <4>2. 0 \in 0..size /\ \A i \in 1..size : i \in 0..size
        BY <2>1
      <4>3. QED
        BY <2>2, <4>1, <4>2
    <3>2. QED
      BY <2>2, <3>1
  <2>6. QED
    BY <2>2, <2>3, <2>4, <2>5 DEF Circular
<1>2. QED
  BY <1>1, Invariance, PTL

(* Every allocated node is in the list or on the free list and never on    *)
(* both, and ll_destroy leaves none allocated.                             *)
THEOREM ListNodesAccounted == Spec => []NodesAccounted
<1>1. ListInv => NodesAccounted
  <2> SUFFICES ASSUME ListInv PROVE NodesAccounted
    OBVIOUS
  <2>1. CASE ~Alive
    BY <2>1 DEF NodesAccounted, ListInv, NewMemory
  <2>2. CASE Alive
    <3>1. PICK c, k, f : Layout(m, size, c, k, f)
      BY DEF ListInv, Stores
    <3>2. /\ m \in Memory /\ size \in Nat /\ k \in Nat /\ Ring(m.next, m.prev, size, c)
          /\ FreeList(m.next, m.freel, k, f) /\ Shared(m.heap, size, c, k, f)
      BY <3>1 DEF Layout
    <3>3. /\ \A i \in 1..size : c[i] \in Node
          /\ \A i, j \in 1..size : c[i] = c[j] => i = j
      BY <3>2 DEF Ring
    <3>4. ListNodes(m) = {c[i] : i \in 1..size}
      <4>1. \A i \in 1..size : Nth(m, i) = c[i]
        <5>1. \A i \in 0..(size + 1) : Nth(m, i) = c[i]
          BY <3>2, NthIs
        <5>2. \A i \in 1..size : i \in 0..(size + 1)
          BY <3>2
        <5>3. QED
          BY <5>1, <5>2
      <4>2. QED
        BY <4>1 DEF ListNodes
    <3>5. FreeNodes(m) = {p \in Node : On(f, k, p)}
      BY <3>2, FreeNodesIs
    <3>6. \A p : p \in ListNodes(m) <=> p \in Node /\ On(c, size, p)
      BY <3>3, <3>4 DEF On
    <3>7. m.heap \subseteq Node
      BY <3>2 DEF Memory
    <3>8. /\ ListNodes(m) \cup FreeNodes(m) = m.heap
          /\ ListNodes(m) \cap FreeNodes(m) = {}
      BY <3>2, <3>5, <3>6, <3>7 DEF Shared
    <3>9. Cardinality(ListNodes(m)) = size
      <4> DEFINE S == ListNodes(m)
                 g == [i \in 1..size |-> c[i]]
      <4>1. g \in [1..size -> S] /\ \A i, j \in 1..size : g[i] = g[j] => i = j
        BY <3>3, <3>4
      <4>2. \A p \in S : \E i \in 1..size : g[i] = p
        BY <3>4
      <4>3. g \in Bijection(1..size, S)
        <5> HIDE DEF g, S
        <5>1. QED
          BY <4>1, <4>2 DEF Bijection, Injection, Surjection, IsInjective
      <4>4. ExistsBijection(1..size, S)
        BY <4>3 DEF ExistsBijection
      <4>5. QED
        <5> HIDE DEF S
        <5>1. QED
          BY <3>2, <4>4, FS_CountingElements DEF S
    <3>10. QED
      BY <2>2, <3>8, <3>9 DEF NodesAccounted
  <2>3. QED
    BY <2>1, <2>2
<1>2. QED
  BY <1>1, Invariance, PTL

(* ll_clear and ll_destroy call the user function once with each element,  *)
(* from the first to the last.                                             *)
THEOREM ListPurgedInOrder == Spec => PurgedInOrder
<1>1. ListInv /\ [Next]_vars => [PurgesInOrder]_vars
  BY NextStep DEF Kept
<1>2. QED
  BY <1>1, Invariance, PTL DEF Spec, PurgedInOrder, PurgesInOrder

(* Every call does to the linked nodes what linkedlist.h promises of a     *)
(* sequence: insertion, removal and replacement at a position, a refusal   *)
(* that changes nothing, and an insertion that fails only without effect.  *)
THEOREM LinkedListImplementsList == Spec => ImplementsList
<1>1. Init => Abstract!ListInit
  BY InitStep
<1>2. ListInv /\ [Next]_vars => [Abstract!ListNext]_(Abstract!listVars)
  BY NextStep, StutterStep DEF Kept
<1>3. QED
  BY <1>1, <1>2, Invariance, PTL DEF Spec, ImplementsList, Abstract!ListSpec
=============================================================================
