-------------------------------- MODULE MListLL --------------------------------
(***************************************************************************)
(* project0/mlistLL.c, the linked-list mlist, driven by the main loop of   *)
(* finddupl.c.  The list is the sequence of its entries from p->first on.  *)
(***************************************************************************)
EXTENDS MEntry

CONSTANTS Address,   \* the addresses a mailing list may contain
          MaxLines   \* bound: addresses in the file

VARIABLES list,      \* the entries, most recently added first
          last,      \* the entry p->last points to, << >> for NULL
          report,    \* what the loop did with the last address, and its entry
          lines      \* addresses read so far

vars == <<list, last, report, lines>>

(* ml_lookup walks the list and returns the first matching entry. *)
ml_lookup(l, me) == \E i \in 1..Len(l) : me_compare(me, l[i]) = 0

Init == list = << >> /\ last = << >> /\ report = <<"none">> /\ lines = 0

(* ml_add of an entry that is not there: it becomes the first one, and the *)
(* last one if it is the only one. malloc may fail.                        *)
Add(me) ==
  /\ ~ml_lookup(list, me)
  /\ \/ /\ list' = <<me>> \o list
        /\ last' = IF last = << >> THEN <<me>> ELSE last
        /\ report' = <<"new", me>>
     \/ UNCHANGED <<list, last>> /\ report' = <<"failed", me>>

(* The loop found a match: it prints both entries and destroys the new one. *)
Report(me) ==
  /\ ml_lookup(list, me)
  /\ report' = <<"duplicate", me>> /\ UNCHANGED <<list, last>>

(* One round of finddupl's loop. *)
Process(r) ==
  /\ report # <<"end">> /\ lines < MaxLines /\ lines' = lines + 1
  /\ Add(me_get(r)) \/ Report(me_get(r))

(* The end of the file: ml_destroy frees every node, and the program ends. *)
Finish ==
  /\ report # <<"end">> /\ report' = <<"end">>
  /\ list' = << >> /\ last' = << >> /\ UNCHANGED lines

Next == (\E r \in Address : Process(r)) \/ Finish

Spec == Init /\ [][Next]_vars
-----------------------------------------------------------------------------
Entries == {list[i] : i \in 1..Len(list)}

(* The values the variables may take. *)
TypeOK ==
  /\ list \in Seq(MEntries(Address))
  /\ last \in {<< >>} \cup {<<me>> : me \in MEntries(Address)}
  /\ report \in {<<"none">>, <<"end">>}
               \cup ({"new", "failed", "duplicate"} \X MEntries(Address))
  /\ lines \in 0..MaxLines

(* The linked list is the mailing list it promises to be, until it is      *)
(* destroyed.                                                              *)
Abstract == INSTANCE MailList WITH known <- Entries, KeyOf <- me_get
ImplementsMailList ==
  Abstract!MailListInit /\ [][report' = <<"end">> \/ Abstract!MailListNext]_<<list, last, report>>
=============================================================================
