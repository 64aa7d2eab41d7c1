------------------------------- MODULE MailList -------------------------------
(***************************************************************************)
(* What finddupl promises, whichever mlist it is linked with: every        *)
(* address is either new, and then known, or reported as a potential       *)
(* duplicate of one that is known; memory may run out for a new one.       *)
(***************************************************************************)
CONSTANT Address, KeyOf(_)

VARIABLES known,   \* the keys of the addresses stored so far
          report   \* what was found out about the last address, and its key

listVars == <<known, report>>

MailListInit == known = {} /\ report = <<"none">>

NewAddress(r) ==
  /\ KeyOf(r) \notin known
  /\ known' = known \cup {KeyOf(r)} /\ report' = <<"new", KeyOf(r)>>

OutOfMemory(r) ==
  /\ KeyOf(r) \notin known
  /\ report' = <<"failed", KeyOf(r)>> /\ UNCHANGED known

Duplicate(r) ==
  /\ KeyOf(r) \in known
  /\ report' = <<"duplicate", KeyOf(r)>> /\ UNCHANGED known

MailListNext == \E r \in Address : NewAddress(r) \/ OutOfMemory(r) \/ Duplicate(r)

MailListSpec == MailListInit /\ [][MailListNext]_listVars
=============================================================================
