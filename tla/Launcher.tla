------------------------------- MODULE Launcher -------------------------------
(***************************************************************************)
(* project1/thv1.c, thv2.c and thv3.c: a launcher starts copies of a       *)
(* command and waits for all of them.  In thv1 a child executes the        *)
(* command at once.  In thv2 it first waits for SIGUSR1; the launcher      *)
(* sends every child SIGUSR1, then SIGSTOP, then SIGCONT.  In thv3 the     *)
(* launcher starts an interval timer, whose SIGALRM has no handler.  A     *)
(* child whose execvp fails goes on with the launcher's own code: it forks *)
(* the copies that come after it, signals the pids it knows, its own 0     *)
(* among them, and waits.  All processes are in one process group.         *)
(***************************************************************************)
EXTENDS Integers, Sequences, FiniteSets

CONSTANTS Versions,     \* the programs, of "thv1", "thv2" and "thv3"
          Copies,       \* numbers of copies that options or environment may ask for
          ArraySize,    \* entries of pid[]: 1024 in thv1 and thv2, 512 in thv3
          Outcomes,     \* whether the command can be executed
          MaxProcs,     \* bound: processes there may ever be
          MaxFailures   \* bound: forks that may fail

ASSUME LauncherAssumption ==
  /\ Versions \subseteq {"thv1", "thv2", "thv3"} /\ Outcomes \subseteq BOOLEAN
  /\ Copies \subseteq Nat /\ ArraySize \in [Versions -> Nat]
  /\ MaxFailures \in Nat /\ MaxProcs \in Nat \ {0}

VARIABLES ps,       \* what every process is doing
          version,  \* the program
          n,        \* nprocesses, the number of copies
          found,    \* execvp finds the command
          failures  \* forks that failed so far

vars == <<ps, version, n, found, failures>>

Procs == 1..MaxProcs
Launcher == 1
Signals == {"USR1", "STOP", "CONT"}

(* The first thing a round of the loop that forks does. *)
Loop == IF version = "thv3" THEN "arm" ELSE "fork"

(* A process: the loop it is in and its index, its array of pids,          *)
(* USR1_received, its parent, the signals on their way to it, its timer.   *)
Unborn == [loc |-> "unborn", i |-> 0, pid |-> << >>, ppid |-> 0, received |-> FALSE,
           pending |-> {}, stopped |-> FALSE, killed |-> FALSE, timer |-> "off"]

(* main has read its options and the environment; where it ends without a  *)
(* fork, n is 0.  It compares no number with the length of its array: of   *)
(* runs that ask for more nothing is said.                                 *)
Init ==
  /\ version \in Versions /\ found \in Outcomes /\ failures = 0
  /\ n \in Copies /\ n <= ArraySize[version]
  /\ ps = [p \in Procs |->
             IF p = Launcher THEN [Unborn EXCEPT !.loc = IF n > 0 THEN Loop ELSE "zombie"]
             ELSE Unborn]

Alive(p) == ps[p].loc \notin {"unborn", "zombie", "reaped"}
At(p, loc) == ps[p].loc = loc /\ ~ps[p].stopped

\* Mutant: the children are continued before they are stopped.
AfterSwapped ==
  [fork |-> IF version = "thv2" THEN "USR1" ELSE "wait",
   USR1 |-> "CONT", CONT |-> "STOP", STOP |-> "wait", wait |-> "zombie"]

(* The loops of main, one after the other; after the last one it returns.  *)
After ==
  [fork |-> IF version = "thv2" THEN "USR1" ELSE "wait",
   USR1 |-> "STOP", STOP |-> "CONT", CONT |-> "wait", wait |-> "zombie"]

\* Mutant: the loops run to i <= nprocesses.
AdvancePast(r) ==
  IF r.i < n THEN [r EXCEPT !.i = @ + 1, !.loc = IF @ = "fork" THEN Loop ELSE @]
  ELSE [r EXCEPT !.i = 0, !.loc = After[@]]

Advance(r) ==
  IF r.i + 1 < n THEN [r EXCEPT !.i = @ + 1, !.loc = IF @ = "fork" THEN Loop ELSE @]
  ELSE [r EXCEPT !.i = 0, !.loc = After[@]]
-----------------------------------------------------------------------------
(* setitimer, before each fork, for 250 ms and again every 250 ms. *)
Arm(p) ==
  /\ At(p, "arm")
  /\ ps' = [ps EXCEPT ![p].timer = "armed", ![p].loc = "fork"]
  /\ UNCHANGED <<version, n, found, failures>>

(* Nobody handles SIGALRM. *)
Alarm(p) ==
  /\ Alive(p) /\ ps[p].timer = "armed"
  /\ ps' = [ps EXCEPT ![p].timer = "fired", ![p].loc = "zombie",
                      ![p].killed = ps[p].loc = "command"]
  /\ UNCHANGED <<version, n, found, failures>>

(* fork: the child is a copy that knows itself as 0, without a timer and   *)
(* without signals on their way; -1 when it fails.                         *)
Fork(p) ==
  /\ At(p, "fork")
  /\ \/ \E q \in Procs :
          /\ ps[q].loc = "unborn" /\ \A x \in 1..(q - 1) : ps[x].loc # "unborn"
          /\ ps' = [ps EXCEPT
               ![p] = Advance([ps[p] EXCEPT !.pid = Append(ps[p].pid, q)]),
               ![q] = [ps[p] EXCEPT !.loc = IF version = "thv2" THEN "test" ELSE "exec",
                                    !.ppid = p, !.pid = Append(ps[p].pid, 0),
                                    !.pending = {}, !.timer = "off"]]
          /\ UNCHANGED failures
     \/ /\ failures < MaxFailures /\ failures' = failures + 1
        /\ ps' = [ps EXCEPT ![p] = Advance([ps[p] EXCEPT !.pid = Append(ps[p].pid, -1)])]
  /\ UNCHANGED <<version, n, found>>

\* Mutant: the child does not wait for the signal.
TestNothing(p) ==
  /\ At(p, "test")
  /\ ps' = [ps EXCEPT ![p].loc = "exec"]
  /\ UNCHANGED <<version, n, found, failures>>

(* while (! USR1_received) ... *)
Test(p) ==
  /\ At(p, "test")
  /\ ps' = [ps EXCEPT ![p].loc = IF ps[p].received THEN "exec" ELSE "sleep"]
  /\ UNCHANGED <<version, n, found, failures>>

(* ... sleep(1), which ends after a second at the latest. *)
Wake(p) ==
  /\ At(p, "sleep")
  /\ ps' = [ps EXCEPT ![p].loc = "test"]
  /\ UNCHANGED <<version, n, found, failures>>

(* execvp: the process becomes the command or, if there is none, goes on   *)
(* with the loop that forked it.                                           *)
Exec(p) ==
  /\ At(p, "exec")
  /\ ps' = [ps EXCEPT ![p] = IF found THEN [@ EXCEPT !.loc = "command"]
                             ELSE Advance([@ EXCEPT !.loc = "fork"])]
  /\ UNCHANGED <<version, n, found, failures>>

Exit(p) ==
  /\ At(p, "command")
  /\ ps' = [ps EXCEPT ![p].loc = "zombie"]
  /\ UNCHANGED <<version, n, found, failures>>
-----------------------------------------------------------------------------
(* pid[i] *)
Pid(p) == ps[p].pid[ps[p].i + 1]

(* Whom kill(pid, .) reaches: one process, the group, or all others.       *)
Targets(p, pid) ==
  CASE pid > 0 -> {pid}
    [] pid = 0 -> {q \in Procs : Alive(q)}
    [] OTHER   -> {q \in Procs : Alive(q) /\ q # p}

(* What a signal does to a process that gets it: the handler counts it, a  *)
(* command, which has no handler, is killed by it.                         *)
Take(r, s) ==
  CASE s = "USR1" /\ r.loc = "command" -> [r EXCEPT !.loc = "zombie", !.killed = TRUE]
    [] s = "USR1" /\ r.loc # "command" -> [r EXCEPT !.received = TRUE]
    [] s = "STOP" -> [r EXCEPT !.stopped = TRUE]
    [] OTHER -> r

(* What sending it does at once: SIGCONT continues, and cancels a SIGSTOP  *)
(* that has not arrived.                                                   *)
Send(r, s) ==
  IF s = "CONT" THEN [r EXCEPT !.pending = @ \ {"STOP"}, !.stopped = FALSE]
  ELSE [r EXCEPT !.pending = @ \cup {s}]

(* One round of the three signalling loops. A process that signals itself  *)
(* has got the signal when kill returns.                                   *)
Kill(p, s) ==
  /\ At(p, s)
  /\ LET T == Targets(p, Pid(p))
     IN  ps' = [q \in Procs |->
                  CASE q = p -> Advance(IF p \in T THEN Take(ps[p], s) ELSE ps[p])
                    [] q # p /\ q \in T /\ Alive(q) -> Send(ps[q], s)
                    [] OTHER -> ps[q]]
  /\ UNCHANGED <<version, n, found, failures>>

(* A signal arrives, at any time while its process is not stopped. *)
Deliver(p, s) ==
  /\ Alive(p) /\ ~ps[p].stopped /\ s \in ps[p].pending
  /\ ps' = [ps EXCEPT ![p] = Take([ps[p] EXCEPT !.pending = ps[p].pending \ {s}], s)]
  /\ UNCHANGED <<version, n, found, failures>>

Children(p) == {q \in Procs : ps[q].ppid = p /\ ps[q].loc # "reaped"}
Awaited(p) ==
  IF Pid(p) > 0 THEN Children(p) \cap {Pid(p)} ELSE Children(p)

\* Mutant: waitpid with WNOHANG, a child that still runs is left behind.
WaitNoHang(p) ==
  /\ At(p, "wait")
  /\ ps' = [ps EXCEPT ![p] = Advance(@)]
  /\ UNCHANGED <<version, n, found, failures>>

(* waitpid, of one child or, for 0 and -1, of any; it fails at once when   *)
(* there is none to wait for, and goes on waiting after a handler has run  *)
(* (signal restarts it). After the last one, main returns.                 *)
Wait(p) ==
  /\ At(p, "wait")
  /\ \/ Awaited(p) = {} /\ ps' = [ps EXCEPT ![p] = Advance(@)]
     \/ \E q \in Awaited(p) :
          ps[q].loc = "zombie" /\ ps' = [ps EXCEPT ![p] = Advance(@), ![q].loc = "reaped"]
  /\ UNCHANGED <<version, n, found, failures>>

(* The launcher has ended; or nobody is left to continue those who are     *)
(* stopped, and the others wait for them.                                  *)
Quiescent ==
  /\ \A p \in Procs : Alive(p) /\ ~ps[p].stopped =>
       /\ ps[p].loc = "wait" /\ ps[p].pending = {} /\ Awaited(p) # {}
       /\ \A q \in Awaited(p) : ps[q].loc # "zombie"
  /\ ps[Launcher].loc = "zombie" \/ \E p \in Procs : ps[p].stopped
  /\ UNCHANGED vars

Step(p) == Arm(p) \/ Fork(p) \/ Test(p) \/ Wake(p) \/ Exec(p) \/ Wait(p) \/ \E s \in Signals : Kill(p, s)

Next ==
  \/ \E p \in Procs : Step(p) \/ Exit(p) \/ Alarm(p) \/ \E s \in Signals : Deliver(p, s)
  \/ Quiescent

Spec == Init /\ [][Next]_vars

(* Every process that is not stopped goes on, signals arrive, and the      *)
(* command ends. The timer need not run out first.                         *)
Fairness ==
  \A p \in Procs : /\ WF_vars(Step(p)) /\ WF_vars(Exit(p))
                   /\ \A s \in Signals : WF_vars(Deliver(p, s))

FairSpec == Spec /\ Fairness
-----------------------------------------------------------------------------
(* The values the variables may take.  No process leaves its array, and    *)
(* the loops that signal and wait read but pids that have been written.    *)
TypeOK ==
  /\ DOMAIN ps = Procs
  /\ \A p \in Procs :
       /\ ps[p].loc \in DOMAIN After \cup {"unborn", "arm", "test", "sleep", "exec", "command",
                                          "zombie", "reaped"}
       /\ ps[p].i \in 0..n /\ (n > 0 => ps[p].i < n)
       /\ ps[p].pid \in Seq(Procs \cup {0, -1}) /\ Len(ps[p].pid) <= ArraySize[version]
       /\ ps[p].loc = "fork" => ps[p].i = Len(ps[p].pid) /\ ps[p].i < ArraySize[version]
       /\ ps[p].loc \in Signals \cup {"wait"} => ps[p].i < Len(ps[p].pid)
       /\ ps[p].ppid \in Procs \cup {0} /\ ps[p].pending \subseteq {"USR1", "STOP"}
       /\ ps[p].timer \in {"off", "armed", "fired"}
  /\ version \in Versions /\ n \in Nat /\ found \in BOOLEAN /\ failures \in 0..MaxFailures

(* SIGUSR1 reaches every child before its execvp and none after, when it   *)
(* would kill the command (thv2.c:119), as long as every fork succeeded:   *)
(* the pid -1 of one that failed is everybody's (thv2.c:129). The timer of *)
(* thv3 never kills a command, only launchers.                             *)
CommandsSurvive == failures = 0 => \A p \in Procs : ~ps[p].killed

(* In thv2 no copy of the command starts before all have been forked.      *)
StartTogether ==
  version = "thv2" => \A p \in Procs : ps[p].loc = "command" => ps[Launcher].loc # "fork"

(* When the launcher stops the clock all its children have ended before,   *)
(* in whatever order, and they are all the copies that were asked for if   *)
(* every fork succeeded. In thv3 the timer may end the launcher first and  *)
(* leave children behind (thv3.c:262).                                     *)
WaitedForAll ==
  ps[Launcher].loc = "zombie" /\ ps[Launcher].timer # "fired" =>
    LET children == {p \in Procs : ps[p].ppid = Launcher}
    IN  /\ \A p \in children : ps[p].loc = "reaped"
        /\ failures = 0 => Cardinality(children) = n

(* The launcher ends. In thv2 that takes signals that meet a test, a sleep *)
(* or one another and still leave nobody asleep or stopped, which is sure  *)
(* only if the command can be executed.                                    *)
LauncherEnds == (version = "thv2" => found) => <>(ps[Launcher].loc = "zombie")
=============================================================================
