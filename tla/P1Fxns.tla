--------------------------------- MODULE P1Fxns ---------------------------------
(***************************************************************************)
(* project1/p1fxns.c: the string helpers of the launchers, and what the    *)
(* launchers do with them.  A string is the sequence of its characters;    *)
(* index Len + 1 stands for the final '\0'.                                *)
(***************************************************************************)
EXTENDS Integers, Sequences

Digits == <<"0", "1", "2", "3", "4", "5", "6", "7", "8", "9">>
Blanks == {" ", "\t"}
Quotes == {"'", "\""}

\* The loops over p1strchr: the next index from i on whose character is in S, or the end.
NextIn(buf, i, S) ==
  IF \E k \in i..Len(buf) : buf[k] \in S
  THEN CHOOSE k \in i..Len(buf) : buf[k] \in S /\ \A x \in i..(k - 1) : buf[x] \notin S
  ELSE Len(buf) + 1

NextNotIn(buf, i, S) ==
  IF \E k \in i..Len(buf) : buf[k] \notin S
  THEN CHOOSE k \in i..Len(buf) : buf[k] \notin S /\ \A x \in i..(k - 1) : buf[x] \in S
  ELSE Len(buf) + 1

\* Mutant: the quote at the end of a word is left for the next one.
GetWordAtQuote(buf, i) ==
  LET start == NextNotIn(buf, i, Blanks)
  IN  IF start > Len(buf) THEN [next |-> -1, word |-> << >>]
      ELSE LET quoted == buf[start] \in Quotes
               first == IF quoted THEN start + 1 ELSE start
               end == NextIn(buf, first, IF quoted THEN {buf[start]} ELSE Blanks)
           IN  [next |-> end, word |-> SubSeq(buf, first, end - 1)]

(* The next word, which a quote begins and ends or else a blank ends, and  *)
(* the index behind it; -1 at the end.                                     *)
p1getword(buf, i) ==
  LET start == NextNotIn(buf, i, Blanks)
  IN  IF start > Len(buf) THEN [next |-> -1, word |-> << >>]
      ELSE LET quoted == buf[start] \in Quotes
               first == IF quoted THEN start + 1 ELSE start
               end == NextIn(buf, first, IF quoted THEN {buf[start]} ELSE Blanks)
           IN  [next |-> IF quoted /\ end <= Len(buf) THEN end + 1 ELSE end,
                word |-> SubSeq(buf, first, end - 1)]

(* The loop of the launchers that fills arg[0], arg[1], ... until there is *)
(* no other word. A command has fewer words than it has bytes.             *)
Words(command) ==
  LET loop[k \in 0..(Len(command) + 1)] ==
        IF k = 0 THEN [at |-> 1, arg |-> << >>]
        ELSE LET before == loop[k - 1]
                 got == p1getword(command, before.at)
             IN  IF before.at = -1 THEN before
                 ELSE [at |-> got.next,
                       arg |-> IF got.next = -1 THEN before.arg ELSE Append(before.arg, got.word)]
  IN  loop[Len(command) + 1]

(* The slots of arg, one of which is for the final NULL. *)
Slots(command) == Len(command) + 1
-----------------------------------------------------------------------------
DigitValue(c) == (CHOOSE d \in 1..10 : Digits[d] = c) - 1
IsDigit(c) == \E d \in 1..10 : Digits[d] = c

(* The number that a string begins with, 0 if it begins with none. *)
p1atoi(s) ==
  LET end == IF \E k \in 1..Len(s) : ~IsDigit(s[k])
             THEN CHOOSE k \in 1..Len(s) : ~IsDigit(s[k]) /\ \A x \in 1..(k - 1) : IsDigit(s[x])
             ELSE Len(s) + 1
      ans[k \in 0..(end - 1)] == IF k = 0 THEN 0 ELSE 10 * ans[k - 1] + DigitValue(s[k])
  IN  ans[end - 1]

\* The digits of a positive number, the first one first; a number of up to 10 digits.
Decimal(number) ==
  LET rest[k \in 0..10] == IF k = 0 THEN number ELSE rest[k - 1] \div 10
      count == CHOOSE k \in 1..10 : rest[k] = 0 /\ rest[k - 1] > 0
  IN  [k \in 1..count |-> Digits[(rest[count - k] % 10) + 1]]

(* p1itoa; -n is n again for the least integer, which is left out.         *)
p1itoa(number) ==
  CASE number = 0 -> <<"0">>
    [] number > 0 -> Decimal(number)
    [] OTHER      -> <<"-">> \o Decimal(-number)

(* p1putint, for numbers that are not negative: digits has no others.      *)
p1putint(number) == IF number = 0 THEN <<"0">> ELSE Decimal(number)

Fill(fc, count) == [i \in 1..(IF count > 0 THEN count ELSE 0) |-> fc]

p1strpack(st, fw, fc) ==
  IF fw < 0 THEN Fill(fc, (-fw) - Len(st)) \o st ELSE st \o Fill(fc, fw - Len(st))

\* Mutant: a number with one digit gets only one zero.
ElapsedOneZero(usec) ==
  LET perLeft  == usec \div 1000000
      perRight == usec \div 1000 - perLeft * 1000
  IN  p1putint(perLeft) \o <<".">> \o (IF perRight < 100 THEN <<"0">> ELSE << >>) \o p1itoa(perRight)

(* What the launchers print for the microseconds that have passed: the     *)
(* seconds, and the milliseconds with zeros before them.                   *)
Elapsed(usec) ==
  LET perLeft  == usec \div 1000000
      perRight == usec \div 1000 - perLeft * 1000
  IN  p1putint(perLeft) \o <<".">>
        \o (IF perRight < 100 THEN <<"0">> ELSE << >>)
        \o (IF perRight < 10 THEN <<"0">> ELSE << >>) \o p1itoa(perRight)
-----------------------------------------------------------------------------
(* One line of a file from position i on, with its newline, at most        *)
(* size - 1 characters; the caller goes on behind it.                      *)
p1getline(file, i, size) ==
  LET newline == NextIn(file, i, {"\n"})
      end == IF newline < i + size - 2 THEN newline ELSE i + size - 2
  IN  SubSeq(file, i, IF end < Len(file) THEN end ELSE Len(file))
=============================================================================
