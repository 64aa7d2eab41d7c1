------------------------------ MODULE MCLauncher ------------------------------
(* An instance of Launcher for TLC, and the string helpers on short inputs. *)
EXTENDS Launcher, P1Fxns

CONSTANTS CommandMax,   \* bound: characters of a command
          MsecMax       \* bound: milliseconds of an elapsed time, and numbers

\* The helpers count in an int.
ASSUME TextAssumption == CommandMax \in Nat /\ MsecMax \in Nat /\ MsecMax <= 2147483647

\* The arrays have two entries, so that two copies fill them.
MCArraySize == [v \in Versions |-> 2]
-----------------------------------------------------------------------------
Strings(S, max) == UNION {[1..k -> S] : k \in 0..max}

(* How a word is written so that it is taken as one: in quotes if it needs *)
(* them.                                                                   *)
Quoted(word) ==
  IF word = << >> \/ word[1] \in Quotes \/ \E k \in DOMAIN word : word[k] \in Blanks
  THEN LET q == CHOOSE c \in Quotes : \A k \in DOMAIN word : word[k] # c
       IN  <<q>> \o word \o <<q>>
  ELSE word

(* Words that were put together with blanks, or without where a quote ends *)
(* the first, come apart again; whatever a command is, its words and the   *)
(* final NULL fit into arg and the loop reaches its end.                   *)
ComeApart(v, w) ==
  /\ Words(Quoted(v) \o <<" ">> \o Quoted(w)).arg = <<v, w>>
  /\ Quoted(v) # v => Words(Quoted(v) \o Quoted(w)).arg = <<v, w>>

FitsSlots(command) ==
  LET loop == Words(command)
  IN  loop.at = -1 /\ Len(loop.arg) < Slots(command)

EveryCommand ==
  /\ \A v, w \in Strings({"x", " ", "'"}, CommandMax \div 2) : ComeApart(v, w)
  /\ \A command \in Strings({"x", " ", "\t", "'", "\""}, CommandMax) : FitsSlots(command)

(* Whatever a file contains, the lines that are read from it one after     *)
(* another are all of it; each ends with the only newline in it, fills the *)
(* buffer or is the last one.                                              *)
ReadsLines(file, size) ==
  LET start[k \in 0..(Len(file) + 1)] ==
        IF k = 0 THEN 1 ELSE start[k - 1] + Len(p1getline(file, start[k - 1], size))
      line == [k \in 1..(Len(file) + 1) |-> p1getline(file, start[k - 1], size)]
  IN  /\ start[Len(file) + 1] = Len(file) + 1
      /\ \A k \in DOMAIN line :
           /\ line[k] = SubSeq(file, start[k - 1], start[k] - 1)
           /\ \A c \in 1..(Len(line[k]) - 1) : line[k][c] # "\n"
           /\ \/ line[k] # << >> /\ line[k][Len(line[k])] = "\n"
              \/ Len(line[k]) = size - 1 \/ start[k] = Len(file) + 1

EveryFile ==
  \A file \in Strings({"x", "\n"}, CommandMax), size \in 2..4 : ReadsLines(file, size)

(* A number that was written reads the same, also from a field that is     *)
(* filled with zeros before it, and all the digits of an elapsed time down *)
(* to the milliseconds are in their places.                                *)
ReadsBack(k) ==
  /\ p1atoi(p1itoa(k)) = k /\ p1atoi(p1putint(k)) = k
  /\ k > 0 => p1itoa(-k) = <<"-">> \o p1itoa(k)
  /\ LET field == p1strpack(p1itoa(k), -3, "0")
     IN  p1atoi(field) = k /\ Len(field) = IF k < 1000 THEN 3 ELSE Len(p1itoa(k))
  /\ LET field == p1strpack(p1itoa(k), 3, " ")
     IN  p1atoi(field) = k /\ Len(field) = IF k < 1000 THEN 3 ELSE Len(p1itoa(k))
  /\ \A usec \in {0, 999} :
       LET printed == Elapsed(1000 * k + usec)
           point == Len(printed) - 3
       IN  /\ printed[point] = "."
           /\ p1atoi(SubSeq(printed, 1, point - 1)) = k \div 1000
           /\ p1atoi(SubSeq(printed, point + 1, Len(printed))) = k % 1000

EveryNumber == \A k \in 0..MsecMax : ReadsBack(k)

(* main splits the command into its words before it forks (thv2.c:67), and *)
(* a file into its lines.                                                  *)
TextComesApart == failures = 0 => EveryCommand /\ EveryFile

(* main prints the time after the last copy has ended (thv2.c:146).        *)
TimesReadRight == ps[Launcher].loc = "zombie" => EveryNumber
=============================================================================
