-------------------------------- MODULE Finddupl --------------------------------
(***************************************************************************)
(* project0/finddupl.c is linked with either mailing list: mlist.c or      *)
(* mlistLL.c.  Both programs here read the same file, side by side, and    *)
(* each may run out of memory on its own.                                  *)
(***************************************************************************)
EXTENDS MListHash

CONSTANT MaxFailures   \* bound: entries the two programs have no memory for

ASSUME FindduplAssumption == MaxFailures \in Nat

VARIABLES list, last, llReport,   \* the program with the linked list
          failures                \* entries there was no memory for so far

LL == INSTANCE MListLL WITH report <- llReport

bothVars == <<vars, list, last, llReport, failures>>

BothInit == Init /\ LL!Init /\ failures = 0

\* The entries there was no memory for in this round.
Failed == (IF report' = "failed" THEN 1 ELSE 0) + (IF llReport'[1] = "failed" THEN 1 ELSE 0)

(* One round of the loop, of both programs, with the same address. *)
ProcessBoth(r) ==
  /\ Process(r) /\ LL!Process(r)
  /\ failures' = failures + Failed /\ failures' <= MaxFailures

FinishBoth == Finish /\ LL!Finish /\ UNCHANGED failures

BothNext == (\E r \in Address : ProcessBoth(r)) \/ FinishBoth

BothSpec == BothInit /\ [][BothNext]_bothVars
-----------------------------------------------------------------------------
(* The values the variables may take. *)
BothTypeOK == TypeOK /\ LL!TypeOK /\ failures \in 0..MaxFailures

(* Whatever the resizes hide, the hash table reports no address as a       *)
(* duplicate that the linked list does not, and up to the first resize it  *)
(* reports the same ones; what one of them had no memory for excepted      *)
(* (finddupl.c:28).                                                        *)
SameAnswers ==
  [][\A r \in Address : ProcessBoth(r) =>
       LET duplicate == report' = "duplicate"
           llDuplicate == llReport' = <<"duplicate", me_get(r)>>
       IN  /\ added \subseteq LL!Entries => (duplicate => llDuplicate)
           /\ added = LL!Entries /\ size = InitSize => (duplicate <=> llDuplicate)]_bothVars

(* The linked list is the mailing list it promises to be: a match is found *)
(* if and only if there is one, also after malloc failed (mlistLL.c:36).   *)
ImplementsMailList == LL!ImplementsMailList
=============================================================================
