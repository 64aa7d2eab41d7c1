----------------------------- MODULE DiskService -----------------------------
(***************************************************************************)
(* What project2's disk driver does for its applications, without         *)
(* vouchers, buffers or locks: a request is accepted into the line of its  *)
(* direction, the disk serves each line in the order of acceptance, and    *)
(* an application redeems its request only when the disk has served it     *)
(* (diskdriver.h:38-70). What the redemption returns is that outcome, or,  *)
(* and here the service is weaker than diskdriver.h:66, the outcome of a   *)
(* request that was served while it was returning.                         *)
(***************************************************************************)
EXTENDS Integers, Sequences

CONSTANTS Writers,  \* the applications that write sectors
          Readers   \* the applications that read sectors

VARIABLES line,     \* line[d]: applications whose request is not served yet
          outcome,  \* outcome[a]: result of a's served, unredeemed request
          answer,   \* answer[a]: what a's redemption is about to return
          reply     \* reply[a]: what a's last redemption returned

serviceVars == <<line, outcome, answer, reply>>

Clients == Writers \cup Readers
Outcome == {0, 1}
None == -1
Waiting(a) == \E d \in {"write", "read"} : \E i \in 1..Len(line[d]) : line[d][i] = a

ServiceTypeOK ==
  /\ line \in [{"write", "read"} -> Seq(Clients)]
  /\ outcome \in [Clients -> Outcome \cup {None}]
  /\ answer \in [Clients -> Outcome \cup {None}]
  /\ reply \in [Clients -> Outcome \cup {None}]

ServiceInit ==
  /\ line = [d \in {"write", "read"} |-> << >>]
  /\ outcome = [a \in Clients |-> None]
  /\ answer = [a \in Clients |-> None]
  /\ reply = [a \in Clients |-> None]

(* A request is queued up; an application has at most one outstanding. *)
Submit(a, d) ==
  /\ outcome[a] = None /\ answer[a] = None /\ ~Waiting(a)
  /\ line' = [line EXCEPT ![d] = Append(@, a)]
  /\ UNCHANGED <<outcome, answer, reply>>

(* The disk serves the oldest request of one direction. Redemptions that   *)
(* are about to return may return this outcome instead of their own.       *)
Serve(d) ==
  /\ line[d] # << >>
  /\ \E s \in Outcome, overtaken \in SUBSET {b \in Clients : answer[b] # None} :
       /\ outcome' = [outcome EXCEPT ![Head(line[d])] = s]
       /\ answer' = [b \in Clients |-> IF b \in overtaken THEN s ELSE answer[b]]
  /\ line' = [line EXCEPT ![d] = Tail(@)]
  /\ UNCHANGED reply

(* The application collects the outcome of its own request, exactly once. *)
Redeem(a) ==
  /\ outcome[a] # None
  /\ answer' = [answer EXCEPT ![a] = outcome[a]]
  /\ outcome' = [outcome EXCEPT ![a] = None]
  /\ UNCHANGED <<line, reply>>

(* The redemption returns. *)
Deliver(a) ==
  /\ answer[a] # None
  /\ reply' = [reply EXCEPT ![a] = answer[a]]
  /\ answer' = [answer EXCEPT ![a] = None]
  /\ UNCHANGED <<line, outcome>>

(* The application forgets the reply and goes on. *)
Forget(a) ==
  /\ reply[a] # None
  /\ reply' = [reply EXCEPT ![a] = None]
  /\ UNCHANGED <<line, outcome, answer>>

ServiceNext ==
  \/ \E a \in Writers : Submit(a, "write")
  \/ \E a \in Readers : Submit(a, "read")
  \/ \E d \in {"write", "read"} : Serve(d)
  \/ \E a \in Clients : Redeem(a) \/ Deliver(a) \/ Forget(a)

ServiceSpec == ServiceInit /\ [][ServiceNext]_serviceVars
=============================================================================
