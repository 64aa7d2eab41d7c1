------------------------------ MODULE MCTreeSet ------------------------------
EXTENDS TreeSet

CONSTANTS Keys,      \* bound: number of elements
          DeepKeys   \* bound: elements of the trees of DeepRemovals

MCElement == 1..Keys

(* The AVL trees on the elements lo..hi. *)
RECURSIVE AVL(_, _)
AVL(lo, hi) ==
  IF lo > hi THEN {NULL}
  ELSE UNION {
    {[element |-> e, balance |-> Height(p[2]) - Height(p[1]),
      link |-> [d \in 0..1 |-> p[d + 1]]] :
       p \in {q \in AVL(lo, e - 1) \X AVL(e + 1, hi) :
                Height(q[2]) - Height(q[1]) \in -1..1}} : e \in lo..hi}

(* e was removed from an AVL tree on 1..DeepKeys and r is left: the others *)
(* stay, in their order, in an AVL tree.                                   *)
RemovedFrom(r, e) ==
  /\ populate(r) = [i \in 1..(DeepKeys - 1) |-> IF i < e THEN i ELSE i + 1]
  /\ \A n \in Nodes(r) : /\ n.balance = Height(n.link[1]) - Height(n.link[0])
                         /\ n.balance \in -1..1

EveryRemoval ==
  \A t \in AVL(1, DeepKeys), e \in 1..DeepKeys : RemovedFrom(remove(t, e).root, e)

(* Only in a tree of 12 elements or more can a removal rotate a second     *)
(* time further up (treeset.c:199): whatever is removed from whichever AVL *)
(* tree of that size, an AVL tree of the others is left.                   *)
DeepRemovals == Alive => EveryRemoval
=============================================================================
