-------------------------------- MODULE MEntry --------------------------------
(***************************************************************************)
(* project0/mentry.c: what of a three-line address becomes an MEntry, when *)
(* two entries are the same, and the bucket an entry hashes to.  A string  *)
(* is the sequence of its words.  An address is a record of its surname as *)
(* it is compared (in lower case), house number, street, city and zip.     *)
(***************************************************************************)
EXTENDS Integers, Sequences

CONSTANTS Code,  \* what each word contributes to a hash, a function
          Word   \* number of values of an unsigned int (2^32)

ASSUME MEntryAssumption == Word \in Nat \ {0}

\* Mutant: only the digits that end the third line are kept.
GetZipOnly(r) ==
  [surname |-> <<r.surname>>, house_number |-> r.house, zipcode |-> <<r.zip>>]

(* me_get lowers the case of the surname, reads the number that begins the *)
(* second line, and keeps every alphanumeric character of the WHOLE third  *)
(* line as the zip code, so that the city is part of it.                   *)
me_get(r) ==
  [surname |-> <<r.surname>>, house_number |-> r.house, zipcode |-> <<r.city, r.zip>>]

(* The entries that addresses give. *)
MEntries(addresses) ==
  [surname : {<<r.surname>> : r \in addresses},
   house_number : {r.house : r \in addresses},
   zipcode : {<<r.city, r.zip>> : r \in addresses}]

help_hash(str) ==
  LET hash[i \in 0..Len(str)] ==
        IF i = 0 THEN 0 ELSE (Code[str[i]] + 31 * hash[i - 1]) % Word
  IN  hash[Len(str)]

me_hash(me, size) ==
  ((help_hash(me.surname) + help_hash(me.zipcode) + me.house_number) % Word) % size

\* Mutant: entries at different house numbers match.
CompareNoNumber(me1, me2) ==
  IF me1.surname = me2.surname /\ me1.zipcode = me2.zipcode THEN 0 ELSE -1

(* me_compare answers 0 for entries that agree in all three fields and -1  *)
(* for all others, whatever their order.                                   *)
me_compare(me1, me2) ==
  IF /\ me1.surname = me2.surname
     /\ me1.zipcode = me2.zipcode
     /\ me1.house_number = me2.house_number
  THEN 0 ELSE -1
=============================================================================
