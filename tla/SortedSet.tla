------------------------------- MODULE SortedSet -------------------------------
(***************************************************************************)
(* What extraCredit/treeset.h promises of a treeset: a set of elements     *)
(* that are ordered, and what each operation that changes it answers.      *)
(***************************************************************************)
EXTENDS Integers

CONSTANTS Element,
          None      \* what stands for the element of an operation without one

VARIABLES set,    \* the elements of the set
          reply   \* the operation that ran last, its element and its result

setVars == <<set, reply>>

Reply(op, arg, ret) == [op |-> op, arg |-> arg, ret |-> ret]

\* The first and the last element, as sets of at most one.
First == {e \in set : \A f \in set : e <= f}
Last  == {e \in set : \A f \in set : e >= f}

SortedSetInit == set = {} /\ reply = Reply("create", None, 1)

AddElement(e) ==
  /\ reply' = Reply("add", e, IF e \in set THEN 0 ELSE 1)
  /\ set' = set \cup {e}

RemoveElement(e) ==
  /\ reply' = Reply("remove", e, IF e \in set THEN 1 ELSE 0)
  /\ set' = set \ {e}

PollElement(op, end) ==
  \/ end = {} /\ reply' = Reply(op, None, 0) /\ set' = set
  \/ \E e \in end : reply' = Reply(op, e, 1) /\ set' = set \ {e}

Empty(op) == set' = {} /\ reply' = Reply(op, None, 1)

SortedSetNext ==
  \/ \E e \in Element : AddElement(e) \/ RemoveElement(e)
  \/ PollElement("pollFirst", First) \/ PollElement("pollLast", Last)
  \/ \E op \in {"create", "clear", "destroy"} : Empty(op)

SortedSetSpec == SortedSetInit /\ [][SortedSetNext]_setVars
=============================================================================
