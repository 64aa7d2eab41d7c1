------------------------------ MODULE LinkedList ------------------------------
(***************************************************************************)
(* extraCredit/linkedlist.c: a doubly linked list around a sentinel, with  *)
(* a free list of nodes that are kept for reuse.  The memory m holds the   *)
(* fields of every node; a node is allocated when it is in m.heap.         *)
(***************************************************************************)
EXTENDS Integers, Sequences, FiniteSets

CONSTANTS Element,      \* what a list may contain
          MaxNodes,     \* bound: nodes that malloc can provide
          FlIncrement,  \* FL_INCREMENT, nodes added to the free list (128)
          NULL

ASSUME LinkedListAssumption ==
  MaxNodes \in Nat /\ FlIncrement \in Nat \ {0} /\ NULL \notin Element \cup Int

Sentinel == 0
Node == 1..MaxNodes

VARIABLES m,       \* the nodes: next, prev, element of each, heap and freel
          size,    \* ll->size
          reply,   \* the last call, what it returned and what it handed out
          purged   \* the elements it called the user function with, in order

vars == <<m, size, reply, purged>>

Reply(call, ret, out) == [call |-> call, ret |-> ret, out |-> out]

putEntry(mem, p) ==
  [mem EXCEPT !.element[p] = NULL, !.next[p] = mem.freel, !.freel = p]

(* malloc succeeds n times in a row. *)
Refill(mem, n) ==
  LET fresh == {q \in Node \ mem.heap :
                  Cardinality({x \in Node \ mem.heap : x < q}) < n}
      fill[k \in 0..MaxNodes] ==
        IF k = 0 THEN mem
        ELSE IF k \in fresh THEN putEntry(fill[k - 1], k) ELSE fill[k - 1]
  IN  [fill[MaxNodes] EXCEPT !.heap = @ \cup fresh]

(* The memories after getEntry's loop: when the free list is empty, malloc *)
(* is called until it fails or FL_INCREMENT nodes are there.               *)
Supplied(mem) ==
  IF mem.freel # NULL THEN {mem}
  ELSE {Refill(mem, n) : n \in {k \in 0..FlIncrement :
                                  k <= Cardinality(Node \ mem.heap)}}

\* Mutant: the node after is not told of its new predecessor.
LinkForward(mem, before, p, after) ==
  [mem EXCEPT !.next[p] = after, !.prev[p] = before, !.next[before] = p]

link(mem, before, p, after) ==
  [mem EXCEPT !.next = [@ EXCEPT ![p] = after, ![before] = p],
              !.prev = [@ EXCEPT ![p] = before, ![after] = p]]

unlink(mem, p) ==
  [mem EXCEPT !.next[mem.prev[p]] = mem.next[p], !.prev[mem.next[p]] = mem.prev[p]]

(* The node reached from the sentinel in n steps. *)
Nth(mem, n) ==
  LET walk[k \in 0..(MaxNodes + 1)] == IF k = 0 THEN Sentinel ELSE mem.next[walk[k - 1]]
  IN  walk[n]

Position(at) == at < size

NewMemory == [next    |-> [p \in Node \cup {Sentinel} |-> IF p = Sentinel THEN p ELSE NULL],
              prev    |-> [p \in Node \cup {Sentinel} |-> IF p = Sentinel THEN p ELSE NULL],
              element |-> [p \in Node \cup {Sentinel} |-> NULL],
              heap |-> {}, freel |-> NULL]

Alive == reply.call # <<"destroy">>

Init ==
  /\ m = NewMemory /\ size = 0 /\ purged = << >>
  /\ reply = Reply(<<"create">>, 1, << >>)

Create ==
  /\ ~Alive
  /\ m' = NewMemory /\ size' = 0 /\ purged' = << >>
  /\ reply' = Reply(<<"create">>, 1, << >>)

Refuse(call) ==
  /\ reply' = Reply(call, 0, << >>) /\ purged' = << >>
  /\ UNCHANGED <<m, size>>

(* What ll_insert, ll_addFirst and ll_addLast have in common: a node from  *)
(* getEntry is linked in after b, a node of the list.                      *)
Insert(call, b, e) ==
  \E mem \in Supplied(m) :
    LET p == mem.freel
        taken == [mem EXCEPT !.freel = mem.next[p], !.element[p] = e]
    IN  /\ purged' = << >>
        /\ IF p = NULL
           THEN m' = mem /\ reply' = Reply(call, 0, << >>) /\ UNCHANGED size
           ELSE /\ m' = link(taken, b, p, mem.next[b])
                /\ size' = size + 1 /\ reply' = Reply(call, 1, << >>)

\* Mutant: the new node goes behind the one at the index.
InsertBehind(at, e) ==
  /\ Alive
  /\ IF at <= size THEN Insert(<<"insert", at, e>>, Nth(m, at + 1), e)
                   ELSE Refuse(<<"insert", at, e>>)

ll_insert(at, e) ==
  /\ Alive
  /\ IF at <= size THEN Insert(<<"insert", at, e>>, Nth(m, at), e)
                   ELSE Refuse(<<"insert", at, e>>)

ll_addFirst(e) == Alive /\ Insert(<<"addFirst", e>>, Sentinel, e)

\* ll_add is ll_addLast.
ll_addLast(e) == Alive /\ Insert(<<"addLast", e>>, m.prev[Sentinel], e)

(* What the removals have in common: p is unlinked and kept for reuse. *)
Remove(call, p) ==
  /\ m' = putEntry(unlink(m, p), p) /\ size' = size - 1
  /\ reply' = Reply(call, 1, <<m.element[p]>>) /\ purged' = << >>

ll_remove(at) ==
  /\ Alive
  /\ IF Position(at) THEN Remove(<<"remove", at>>, Nth(m, at + 1))
                     ELSE Refuse(<<"remove", at>>)

\* ll_removeFirst and ll_removeLast, of the neighbour p of the sentinel.
RemoveEnd(call, p) ==
  Alive /\ IF p # Sentinel THEN Remove(call, p) ELSE Refuse(call)

ll_set(at, e) ==
  /\ Alive
  /\ IF Position(at)
     THEN LET p == Nth(m, at + 1)
          IN  /\ m' = [m EXCEPT !.element[p] = e]
              /\ reply' = Reply(<<"set", at, e>>, 1, <<m.element[p]>>)
              /\ purged' = << >> /\ UNCHANGED size
     ELSE Refuse(<<"set", at, e>>)

\* Mutant: next is read after putEntry has overwritten it.
PurgeReadsLate(mem) ==
  LET run[k \in 0..MaxNodes] ==
        IF k = 0 THEN [m |-> mem, uf |-> << >>, cur |-> mem.next[Sentinel]]
        ELSE LET s == run[k - 1]
                 put == putEntry(s.m, s.cur)
             IN  IF s.cur \in {Sentinel, NULL} THEN s
                 ELSE [m |-> put, uf |-> Append(s.uf, s.m.element[s.cur]), cur |-> put.next[s.cur]]
  IN  run[MaxNodes]

(* Each element is passed to the user function and its node put on the     *)
(* free list; next is read in between. There are at most MaxNodes rounds.  *)
purge(mem) ==
  LET run[k \in 0..MaxNodes] ==
        IF k = 0 THEN [m |-> mem, uf |-> << >>, cur |-> mem.next[Sentinel]]
        ELSE LET s == run[k - 1]
             IN  IF s.cur = Sentinel THEN s
                 ELSE [m |-> putEntry(s.m, s.cur), uf |-> Append(s.uf, s.m.element[s.cur]),
                       cur |-> s.m.next[s.cur]]
  IN  run[MaxNodes]

Clear ==
  /\ Alive
  /\ m' = [purge(m).m EXCEPT !.next[Sentinel] = Sentinel, !.prev[Sentinel] = Sentinel]
  /\ size' = 0 /\ reply' = Reply(<<"clear">>, 1, << >>) /\ purged' = purge(m).uf

(* The nodes on the free list, those ll_destroy walks past and frees. *)
FreeNodes(mem) ==
  LET walk[k \in 0..(MaxNodes + 1)] ==
        IF k = 0 THEN mem.freel
        ELSE IF walk[k - 1] = NULL THEN NULL ELSE mem.next[walk[k - 1]]
  IN  {walk[k] : k \in 0..MaxNodes} \ {NULL}

ListNodes(mem) == {Nth(mem, i) : i \in 1..size}

\* Mutant: the nodes on the free list are forgotten.
DestroyKeepsFree ==
  /\ Alive
  /\ m' = [NewMemory EXCEPT !.heap = m.heap \ ListNodes(m)]
  /\ size' = 0 /\ reply' = Reply(<<"destroy">>, 1, << >>) /\ purged' = purge(m).uf

(* purge puts the nodes of the list on the free list, which is then freed. *)
Destroy ==
  /\ Alive
  /\ m' = [NewMemory EXCEPT !.heap = m.heap \ FreeNodes(purge(m).m)]
  /\ size' = 0 /\ reply' = Reply(<<"destroy">>, 1, << >>) /\ purged' = purge(m).uf

Next ==
  \/ \E at \in 0..(size + 1), e \in Element : ll_insert(at, e) \/ ll_set(at, e)
  \/ \E e \in Element : ll_addFirst(e) \/ ll_addLast(e)
  \/ \E at \in 0..(size + 1) : ll_remove(at)
  \/ RemoveEnd(<<"removeFirst">>, m.next[Sentinel])
  \/ RemoveEnd(<<"removeLast">>, m.prev[Sentinel])
  \/ Clear \/ Destroy \/ Create

Spec == Init /\ [][Next]_vars
-----------------------------------------------------------------------------
(* What ll_toArray copies: the elements on the way from the sentinel.      *)
ll_toArray == [i \in 1..size |-> m.element[Nth(m, i)]]

(* The values the variables may take. *)
TypeOK ==
  LET pointer == Node \cup {Sentinel, NULL}
  IN  /\ m \in [next : [Node \cup {Sentinel} -> pointer],
                prev : [Node \cup {Sentinel} -> pointer],
                element : [Node \cup {Sentinel} -> Element \cup {NULL}],
                heap : SUBSET Node, freel : Node \cup {NULL}]
      /\ size \in 0..MaxNodes /\ purged \in Seq(Element)

(* The list closes on itself after `size' nodes, in both directions, and   *)
(* the backward links mirror the forward ones.                             *)
Circular ==
  /\ TypeOK
  /\ Nth(m, size + 1) = Sentinel /\ Sentinel \notin ListNodes(m)
  /\ \A p \in ListNodes(m) \cup {Sentinel} : m.prev[m.next[p]] = p

(* Every node that was allocated is either linked into the list or on the  *)
(* free list, never on both and never lost, and destroying the list        *)
(* returns all of them (linkedlist.c:116).                                 *)
NodesAccounted ==
  IF Alive
  THEN /\ ListNodes(m) \cup FreeNodes(m) = m.heap
       /\ ListNodes(m) \cap FreeNodes(m) = {}
       /\ Cardinality(ListNodes(m)) = size
  ELSE m.heap = {}

(* Clearing or destroying calls the user function once with each element,  *)
(* from first to last.                                                     *)
PurgedInOrder ==
  [][reply'.call \in {<<"clear">>, <<"destroy">>} => purged' = ll_toArray]_vars

(* The linked list is the list that the header describes. *)
Abstract == INSTANCE List WITH list <- ll_toArray
ImplementsList == Abstract!ListSpec
=============================================================================
