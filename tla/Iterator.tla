-------------------------------- MODULE Iterator --------------------------------
(***************************************************************************)
(* extraCredit/iterator.c: an iterator is an index into an array that was  *)
(* copied from a container when the iterator was created.                  *)
(***************************************************************************)
EXTENDS Integers

it_create(size, elements) == [next |-> 0, size |-> size, elements |-> elements]

it_hasNext(it) == it.next < it.size

(* What it_next hands out, from an array that is counted from 0, ... *)
Current(it) == it.elements[it.next + 1]

(* ... and the iterator after it; at the end nothing is handed out and     *)
(* nothing changes.                                                        *)
it_next(it) == IF it_hasNext(it) THEN [it EXCEPT !.next = @ + 1] ELSE it
=============================================================================
