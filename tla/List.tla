--------------------------------- MODULE List ---------------------------------
(***************************************************************************)
(* What extraCredit/linkedlist.h promises: a list is a sequence, positions *)
(* count from 0, and an operation that cannot be done answers 0 and        *)
(* changes nothing.                                                        *)
(***************************************************************************)
EXTENDS Integers, SequencesExt

CONSTANT Element

VARIABLES list,   \* the elements, from first to last
          reply   \* the last call, what it returned and what it handed out

listVars == <<list, reply>>

Reply(call, ret, out) == [call |-> call, ret |-> ret, out |-> out]

Refused(call) == reply' = Reply(call, 0, << >>) /\ UNCHANGED list

ListInit == list = << >> /\ reply = Reply(<<"create">>, 1, << >>)

(* An insertion may also be refused for want of memory. *)
InsertElement(call, at, e) ==
  \/ Refused(call)
  \/ at <= Len(list) /\ list' = InsertAt(list, at + 1, e) /\ reply' = Reply(call, 1, << >>)

RemoveElement(call, at) ==
  IF at \in 0..(Len(list) - 1)
  THEN list' = RemoveAt(list, at + 1) /\ reply' = Reply(call, 1, <<list[at + 1]>>)
  ELSE Refused(call)

SetElement(call, at, e) ==
  IF at \in 0..(Len(list) - 1)
  THEN list' = [list EXCEPT ![at + 1] = e] /\ reply' = Reply(call, 1, <<list[at + 1]>>)
  ELSE Refused(call)

Empty(op) == list' = << >> /\ reply' = Reply(<<op>>, 1, << >>)

ListNext ==
  \/ \E at \in 0..(Len(list) + 1) :
       \/ \E e \in Element : \/ InsertElement(<<"insert", at, e>>, at, e)
                             \/ SetElement(<<"set", at, e>>, at, e)
       \/ RemoveElement(<<"remove", at>>, at)
  \/ \E e \in Element : \/ InsertElement(<<"addFirst", e>>, 0, e)
                        \/ InsertElement(<<"addLast", e>>, Len(list), e)
  \/ RemoveElement(<<"removeFirst">>, 0) \/ RemoveElement(<<"removeLast">>, Len(list) - 1)
  \/ \E op \in {"create", "clear", "destroy"} : Empty(op)

ListSpec == ListInit /\ [][ListNext]_listVars
=============================================================================
