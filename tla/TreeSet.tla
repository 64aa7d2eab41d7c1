-------------------------------- MODULE TreeSet --------------------------------
(***************************************************************************)
(* extraCredit/treeset.c: a set kept as an AVL tree.  A node is a record   *)
(* of its element, its balance and its two links, 0 to the left and 1 to   *)
(* the right; the elements are integers, compared by their difference.     *)
(* Operators that compute new trees return what the C functions return,    *)
(* with `done', which those get by reference, beside it.                   *)
(***************************************************************************)
EXTENDS Integers, Sequences, FiniteSets

CONSTANTS Element,   \* the elements, a set of integers
          NULL,      \* the null pointer
          MaxDrift   \* bound: polls since the set was last cleared

(* The trees, by the height they do not exceed: links lead to lower ones.  *)
NodesOver(T) == [element : Int, balance : Int, link : [0..1 -> T]]
Tree[n \in 0..Cardinality(Element)] ==
  IF n = 0 THEN {NULL} ELSE {NULL} \cup NodesOver(Tree[n - 1])

(* All that can come up: every node on a path has an element of its own.   *)
Trees == Tree[Cardinality(Element)]

ASSUME TreeSetAssumption ==
  /\ Element \subseteq Int /\ IsFiniteSet(Element)
  /\ NULL \notin NodesOver(Trees)
  /\ MaxDrift \in Nat

VARIABLES root,    \* ts->root
          size,    \* ts->size
          drift,   \* number of polls that removed an element, for MaxDrift
          reply,   \* the operation that ran last, its element and its result
          purged   \* the elements it called the user function with, in order

vars == <<root, size, drift, reply, purged>>

Reply(op, arg, ret) == [op |-> op, arg |-> arg, ret |-> ret]

newNode(element) == [element |-> element, balance |-> 0, link |-> [d \in 0..1 |-> NULL]]

Sign(dir) == IF dir = 0 THEN -1 ELSE 1

singleRotate(r, dir) ==
  LET save == r.link[1 - dir]
  IN  [save EXCEPT !.link[dir] = [r EXCEPT !.link[1 - dir] = save.link[dir]]]

(* The child on the other side is rotated outwards, then r inwards. *)
doubleRotate(r, dir) ==
  LET n == r.link[1 - dir]
      save == n.link[dir]
  IN  [save EXCEPT
         !.link[1 - dir] = [n EXCEPT !.link[dir] = save.link[1 - dir]],
         !.link[dir] = [r EXCEPT !.link[1 - dir] = save.link[dir]]]

\* Mutant: the balances of the two outer nodes are exchanged.
AdjustSwapped(r, dir, bal) ==
  LET nn == r.link[dir].link[1 - dir]
      rb == IF nn.balance = -bal THEN -bal ELSE 0
      nb == IF nn.balance = bal THEN bal ELSE 0
  IN  [r EXCEPT !.balance = rb, !.link[dir].balance = nb,
                !.link[dir].link[1 - dir].balance = 0]

(* The balances that the double rotation about to come will leave. *)
adjustBalance(r, dir, bal) ==
  LET nn == r.link[dir].link[1 - dir]
      rb == IF nn.balance = bal THEN -bal ELSE 0
      nb == IF nn.balance = -bal THEN bal ELSE 0
  IN  [r EXCEPT !.balance = rb, !.link[dir].balance = nb,
                !.link[dir].link[1 - dir].balance = 0]

insertBalance(r, dir) ==
  IF r.link[dir].balance = Sign(dir)
  THEN singleRotate([r EXCEPT !.balance = 0, !.link[dir].balance = 0], 1 - dir)
  ELSE doubleRotate(adjustBalance(r, dir, Sign(dir)), 1 - dir)

\* The recursive call of insert has returned sub.
Inserted(r, dir, sub) ==
  LET linked == [r EXCEPT !.link[dir] = sub.root]
      grown == [linked EXCEPT !.balance = @ + Sign(dir)]
  IN  CASE sub.done -> [root |-> linked, done |-> TRUE]
        [] ~sub.done /\ grown.balance = 0 -> [root |-> grown, done |-> TRUE]
        [] ~sub.done /\ grown.balance \in {-1, 1} -> [root |-> grown, done |-> FALSE]
        [] OTHER -> [root |-> insertBalance(grown, dir), done |-> TRUE]

insert(r, element) ==
  LET ins[t \in Trees] ==
        IF t = NULL THEN [root |-> newNode(element), done |-> FALSE]
        ELSE LET dir == IF t.element < element THEN 1 ELSE 0
             IN  Inserted(t, dir, ins[t.link[dir]])
  IN  ins[r]

\* Mutant: every rotation ends the rebalancing.
RemoveBalanceStops(r, dir) ==
  LET n == r.link[1 - dir]
      bal == Sign(dir)
  IN  CASE n.balance = -bal ->
             [root |-> singleRotate([r EXCEPT !.balance = 0, !.link[1 - dir].balance = 0], dir),
              done |-> TRUE]
        [] n.balance = bal ->
             [root |-> doubleRotate(adjustBalance(r, 1 - dir, -bal), dir), done |-> TRUE]
        [] OTHER ->
             [root |-> singleRotate([r EXCEPT !.balance = -bal, !.link[1 - dir].balance = bal], dir),
              done |-> TRUE]

removeBalance(r, dir) ==
  LET n == r.link[1 - dir]
      bal == Sign(dir)
  IN  CASE n.balance = -bal ->
             [root |-> singleRotate([r EXCEPT !.balance = 0, !.link[1 - dir].balance = 0], dir),
              done |-> FALSE]
        [] n.balance = bal ->
             [root |-> doubleRotate(adjustBalance(r, 1 - dir, -bal), dir), done |-> FALSE]
        [] OTHER ->
             [root |-> singleRotate([r EXCEPT !.balance = -bal, !.link[1 - dir].balance = bal], dir),
              done |-> TRUE]

\* findMin and findMax: the last node towards dir.
Outermost(t, dir) ==
  LET last[n \in Trees] ==
        IF n = NULL THEN n ELSE IF n.link[dir] = NULL THEN n ELSE last[n.link[dir]]
  IN  last[t]

findMin(t) == Outermost(t, 0)
findMax(t) == Outermost(t, 1)

\* Mutant: the left child itself takes the place of the element.
HeirIsChild(r) == r.link[0]

(* The node whose element takes the place of one with two children. *)
Heir(r) == findMax(r.link[0])

\* The recursive call of remove has returned sub.
Removed(r, dir, sub) ==
  LET linked == [r EXCEPT !.link[dir] = sub.root]
      shrunk == [linked EXCEPT !.balance = @ - Sign(dir)]
      fixed == removeBalance(shrunk, dir)
  IN  CASE sub.done -> [root |-> linked, done |-> TRUE, uf |-> sub.uf]
        [] ~sub.done /\ shrunk.balance \in {-1, 1} ->
             [root |-> shrunk, done |-> TRUE, uf |-> sub.uf]
        [] ~sub.done /\ shrunk.balance = 0 ->
             [root |-> shrunk, done |-> FALSE, uf |-> sub.uf]
        [] OTHER -> [root |-> fixed.root, done |-> fixed.done, uf |-> sub.uf]

(* remove, for an element that is in the tree. A node with two children    *)
(* takes over its heir's element, and the heir's node is removed instead:  *)
(* it is the heir's element that the user function is called with.         *)
remove(r, element) ==
  LET rem[t \in Trees] == [x \in Int |->
        IF t = NULL THEN [root |-> NULL, done |-> FALSE, uf |-> << >>]
        ELSE IF x = t.element /\ (t.link[0] = NULL \/ t.link[1] = NULL)
        THEN [root |-> IF t.link[0] = NULL THEN t.link[1] ELSE t.link[0],
              done |-> FALSE, uf |-> <<t.element>>]
        ELSE LET e == IF x = t.element THEN Heir(t).element ELSE x
                 top == IF x = t.element THEN [t EXCEPT !.element = e] ELSE t
                 dir == IF top.element < e THEN 1 ELSE 0
             IN  Removed(top, dir, rem[t.link[dir]][e])]
  IN  rem[r][element]

find(element, t) ==
  LET search[n \in Trees] ==
        IF n = NULL THEN NULL
        ELSE CASE element < n.element -> search[n.link[0]]
               [] element > n.element -> search[n.link[1]]
               [] OTHER -> n
  IN  search[t]

\* populate: the infix order in which the elements fill an array.
populate(node) ==
  LET walk[n \in Trees] ==
        IF n = NULL THEN << >> ELSE walk[n.link[0]] \o <<n.element>> \o walk[n.link[1]]
  IN  walk[node]

\* Mutant: the right subtrees are forgotten.
PurgeLeft(leaf) ==
  LET walk[n \in Trees] ==
        IF n = NULL THEN << >> ELSE walk[n.link[0]] \o <<n.element>>
  IN  walk[leaf]

\* postpurge: the postfix order in which the user function is called.
postpurge(leaf) ==
  LET walk[n \in Trees] ==
        IF n = NULL THEN << >> ELSE walk[n.link[0]] \o walk[n.link[1]] \o <<n.element>>
  IN  walk[leaf]
-----------------------------------------------------------------------------
(* The queries; each returns the set of the one element it found, or {}.   *)
Found(node) == IF node = NULL THEN {} ELSE {node.element}

Min(n1, n2) ==
  CASE n1 = NULL -> n2 [] n2 = NULL -> n1
    [] OTHER -> IF n1.element > n2.element THEN n2 ELSE n1

Max(n1, n2) ==
  CASE n1 = NULL -> n2 [] n2 = NULL -> n1
    [] OTHER -> IF n1.element < n2.element THEN n2 ELSE n1

\* The loops of ts_ceiling, which ends at an equal element, and ts_higher.
Above(t, element, equal) ==
  LET loop[n \in Trees] == [current \in Trees |->
        IF n = NULL THEN current
        ELSE IF equal /\ element = n.element THEN n
        ELSE IF element < n.element THEN loop[n.link[0]][Min(n, current)]
        ELSE loop[n.link[1]][current]]
  IN  loop[t][NULL]

\* The loops of ts_floor, which ends at an equal element, and ts_lower.
Below(t, element, equal) ==
  LET loop[n \in Trees] == [current \in Trees |->
        IF n = NULL THEN current
        ELSE IF equal /\ element = n.element THEN n
        ELSE IF element > n.element THEN loop[n.link[1]][Max(n, current)]
        ELSE loop[n.link[0]][current]]
  IN  loop[t][NULL]

\* Mutant: an equal element does not end the search.
CeilingStrict(t, element) == Found(Above(t, element, FALSE))

ts_ceiling(t, element) == Found(Above(t, element, TRUE))
ts_higher(t, element)  == Found(Above(t, element, FALSE))
ts_floor(t, element)   == Found(Below(t, element, TRUE))
ts_lower(t, element)   == Found(Below(t, element, FALSE))
ts_first(t) == Found(findMin(t))
ts_last(t) == Found(findMax(t))
ts_contains(t, element) == find(element, t) # NULL
-----------------------------------------------------------------------------
Alive == reply.op # "destroy"

ts_create ==
  /\ root' = NULL /\ size' = 0 /\ drift' = 0
  /\ reply' = Reply("create", 0, 1) /\ purged' = << >>

Init ==
  /\ root = NULL /\ size = 0 /\ drift = 0
  /\ reply = Reply("create", 0, 1) /\ purged = << >>

Create == ~Alive /\ ts_create

(* find, and if that fails insert; malloc is taken to succeed. *)
Add(e) ==
  /\ Alive
  /\ IF ts_contains(root, e)
     THEN reply' = Reply("add", e, 0) /\ UNCHANGED <<root, size>>
     ELSE /\ root' = insert(root, e).root
          /\ size' = size + 1 /\ reply' = Reply("add", e, 1)
  /\ purged' = << >> /\ UNCHANGED drift

\* Mutant: the size goes down whether or not the element was there.
RemoveCountsMissing(e) ==
  /\ Alive
  /\ reply' = Reply("remove", e, IF ts_contains(root, e) THEN 1 ELSE 0)
  /\ root' = remove(root, e).root /\ size' = size - 1
  /\ purged' = remove(root, e).uf /\ UNCHANGED drift

Remove(e) ==
  /\ Alive
  /\ IF ~ts_contains(root, e)
     THEN reply' = Reply("remove", e, 0) /\ purged' = << >> /\ UNCHANGED <<root, size>>
     ELSE LET r == remove(root, e)
          IN  /\ root' = r.root /\ size' = size - 1
              /\ reply' = Reply("remove", e, 1) /\ purged' = r.uf
  /\ UNCHANGED drift

(* ts_pollFirst and ts_pollLast do not touch the size, and call no user    *)
(* function.                                                               *)
Poll(op, node) ==
  /\ Alive /\ drift < MaxDrift
  /\ IF node = NULL
     THEN reply' = Reply(op, 0, 0) /\ UNCHANGED <<root, drift>>
     ELSE /\ root' = remove(root, node.element).root
          /\ drift' = drift + 1 /\ reply' = Reply(op, node.element, 1)
  /\ purged' = << >> /\ UNCHANGED size

pollFirst == Poll("pollFirst", findMin(root))
pollLast  == Poll("pollLast", findMax(root))

Clear ==
  /\ Alive /\ purged' = postpurge(root)
  /\ root' = NULL /\ size' = 0 /\ drift' = 0 /\ reply' = Reply("clear", 0, 1)

(* The treeset is gone until another one is created. *)
Destroy ==
  /\ Alive /\ purged' = postpurge(root)
  /\ root' = NULL /\ size' = 0 /\ drift' = 0 /\ reply' = Reply("destroy", 0, 1)

Next ==
  \/ \E e \in Element : Add(e) \/ Remove(e)
  \/ pollFirst \/ pollLast \/ Clear \/ Destroy \/ Create

Spec == Init /\ [][Next]_vars
-----------------------------------------------------------------------------
Elements == {populate(root)[i] : i \in DOMAIN populate(root)}

Height(t) ==
  LET high[n \in Trees] ==
        IF n = NULL THEN 0
        ELSE LET l == high[n.link[0]] r == high[n.link[1]] IN 1 + (IF l > r THEN l ELSE r)
  IN  high[t]

Nodes(t) ==
  LET below[n \in Trees] ==
        IF n = NULL THEN {} ELSE {n} \cup below[n.link[0]] \cup below[n.link[1]]
  IN  below[t]

(* The values the variables may take. *)
TypeOK ==
  /\ \A t \in Nodes(root) : t.element \in Element /\ t.balance \in -1..1
  /\ size \in Nat /\ drift \in 0..MaxDrift
  /\ reply \in [op : {"create", "add", "remove", "pollFirst", "pollLast", "clear", "destroy"},
                arg : Element \cup {0}, ret : 0..1]
  /\ purged \in Seq(Element)

(* After any sequence of rotations a walk of the tree meets the elements   *)
(* in ascending order, each once, and every balance field is the           *)
(* difference of the heights it stands for, never more than 1: what        *)
(* insertBalance and removeBalance rely on when they follow a grandchild's *)
(* link (treeset.c:100).                                                   *)
SearchTree ==
  /\ TypeOK
  /\ LET p == populate(root) IN \A i \in 1..(Len(p) - 1) : p[i] < p[i + 1]
  /\ \A t \in Nodes(root) :
       /\ t.balance = Height(t.link[1]) - Height(t.link[0])
       /\ t.balance \in -1..1

(* The walks of ts_first to ts_ceiling, which go down one path and         *)
(* remember one candidate, find what a search of all elements would.       *)
QueriesAnswer ==
  LET Least(S)    == {x \in S : \A y \in S : x <= y}
      Greatest(S) == {x \in S : \A y \in S : x >= y}
  IN  /\ ts_first(root) = Least(Elements) /\ ts_last(root) = Greatest(Elements)
      /\ \A e \in Element :
           /\ ts_contains(root, e) <=> e \in Elements
           /\ ts_ceiling(root, e) = Least({x \in Elements : x >= e})
           /\ ts_higher(root, e) = Least({x \in Elements : x > e})
           /\ ts_floor(root, e) = Greatest({x \in Elements : x <= e})
           /\ ts_lower(root, e) = Greatest({x \in Elements : x < e})

(* The array that genArray allocates by the size (treeset.c:474) has room  *)
(* for all that populate writes to it.                                     *)
ArrayLargeEnough == Cardinality(Elements) <= size

(* Clearing or destroying a treeset calls the user function once with each *)
(* of its elements.                                                        *)
PurgedOnce ==
  [][reply'.op \in {"clear", "destroy"} =>
       /\ Len(purged') = Cardinality(Elements)
       /\ {purged'[i] : i \in DOMAIN purged'} = Elements]_vars

(* The tree is the ordered set that the header describes. *)
Abstract == INSTANCE SortedSet WITH set <- Elements, None <- 0
ImplementsSortedSet == Abstract!SortedSetSpec

(* treeset.h:144: ts_remove invokes the user function on the element that  *)
(* it removes.                                                             *)
RemovePurgesArgument ==
  reply.op = "remove" /\ reply.ret = 1 => purged = <<reply.arg>>
=============================================================================
