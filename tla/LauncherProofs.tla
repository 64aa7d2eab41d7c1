---------------------------- MODULE LauncherProofs ----------------------------
(***************************************************************************)
(* Proofs about the launchers, for all numbers of copies, of processes and *)
(* of forks that fail, all lengths of pid[], and every order in which      *)
(* processes run and signals arrive; and about the string helpers, for     *)
(* texts of any length and all the numbers of an int.                      *)
(***************************************************************************)
EXTENDS MCLauncher, DataInduction, FiniteSetTheorems, SequenceTheorems, TLAPS

L == ps[Launcher]
Loops == {"fork", "USR1", "STOP", "CONT", "wait"}
Locs == Loops \cup {"unborn", "arm", "test", "sleep", "exec", "command", "zombie", "reaped"}
Pids == Procs \cup {0, -1}
Process == [loc : Locs, i : Nat, pid : Seq(Pids), ppid : Procs \cup {0},
            received : BOOLEAN, pending : SUBSET {"USR1", "STOP"}, stopped : BOOLEAN,
            killed : BOOLEAN, timer : {"off", "armed", "fired"}]

TypeInv ==
  /\ ps \in [Procs -> Process]
  /\ version \in Versions /\ n \in Nat /\ found \in BOOLEAN /\ failures \in 0..MaxFailures

(* The index of a process and the length of its array in the part of the   *)
(* program it is in.                                                       *)
Indexed(r) ==
  /\ Len(r.pid) <= n /\ r.i <= n /\ (n > 0 => r.i < n)
  /\ r.loc \in Loops \cup {"arm", "test", "sleep", "exec", "command"} => n > 0
  /\ r.loc \in {"arm", "fork"} => Len(r.pid) = r.i
  /\ r.loc \in {"test", "sleep", "exec", "command"} => Len(r.pid) = r.i + 1
  /\ r.loc \in Loops \ {"fork"} => Len(r.pid) = n
  /\ r.loc \in {"USR1", "STOP", "CONT", "test", "sleep"} => version = "thv2"
  /\ r.loc = "arm" => version = "thv3"

IndexInv == \A p \in Procs : Indexed(ps[p])

(* Who runs the launcher's loops: if the command can be executed, nobody   *)
(* but the launcher.                                                       *)
RoleInv ==
  /\ L.loc \in Loops \cup {"arm", "zombie"} /\ L.ppid = 0
  /\ ~found => \A p \in Procs : ps[p].loc # "command"
  /\ found => \A p \in Procs \ {Launcher} : ps[p].loc \notin Loops \cup {"arm"} /\ ps[p].timer = "off"

(* The launcher's array has each of its children once.                     *)
FamilyInv ==
  /\ \A k \in 1..Len(L.pid) :
       /\ L.pid[k] # 0 /\ (failures = 0 => L.pid[k] # -1)
       /\ L.pid[k] # -1 => /\ L.pid[k] # Launcher
                           /\ ps[L.pid[k]].ppid = Launcher /\ ps[L.pid[k]].loc # "unborn"
                           /\ \A m \in 1..Len(L.pid) : L.pid[m] = L.pid[k] => m = k
  /\ \A q \in Procs : /\ ps[q].ppid = Launcher => \E k \in 1..Len(L.pid) : L.pid[k] = q
                      /\ ps[q].loc = "unborn" => ps[q].ppid = 0

(* A child at an index the last loop has passed has ended.                 *)
WaitInv ==
  /\ L.loc = "wait" => \A k \in 1..L.i : L.pid[k] # -1 => ps[L.pid[k]].loc = "reaped"
  /\ L.loc = "zombie" /\ L.timer # "fired" =>
       Len(L.pid) = n /\ \A k \in 1..n : L.pid[k] # -1 => ps[L.pid[k]].loc = "reaped"

Untouched(q) == ~ps[q].received /\ "USR1" \notin ps[q].pending

(* Where SIGUSR1 can be: nowhere while the launcher forks, and not with a  *)
(* child whose turn has not come, nor with one that had it.                *)
SignalInv ==
  /\ version # "thv2" => \A q \in Procs : "USR1" \notin ps[q].pending
  /\ version = "thv2" => \A q \in Procs : ps[q].loc \in {"exec", "command"} => ps[q].received
  /\ version = "thv2" /\ found /\ L.loc = "fork" => \A q \in Procs : Untouched(q)
  /\ version = "thv2" /\ found /\ failures = 0 =>
       /\ L.loc = "USR1" => \A k \in (L.i + 1)..n : Untouched(L.pid[k])
       /\ \A q \in Procs : ps[q].received => "USR1" \notin ps[q].pending

IInv == TypeInv /\ IndexInv /\ RoleInv /\ FamilyInv /\ WaitInv /\ SignalInv /\ CommandsSurvive
-----------------------------------------------------------------------------
LEMMA LauncherExists == Launcher \in Procs /\ Procs \subseteq Nat \ {0}
BY LauncherAssumption DEF Launcher, Procs

LEMMA FieldTypes ==
  ASSUME NEW r \in Process
  PROVE  /\ r.loc \in Locs /\ r.i \in Nat /\ r.pid \in Seq(Pids) /\ r.ppid \in Procs \cup {0}
         /\ r.received \in BOOLEAN /\ r.pending \in SUBSET {"USR1", "STOP"}
         /\ r.stopped \in BOOLEAN /\ r.killed \in BOOLEAN /\ r.timer \in {"off", "armed", "fired"}
BY DEF Process

\* Two processes that differ in nothing but their place in the program.
Same(r, s) ==
  /\ r.pid = s.pid /\ r.ppid = s.ppid /\ r.received = s.received /\ r.pending = s.pending
  /\ r.stopped = s.stopped /\ r.killed = s.killed /\ r.timer = s.timer

LEMMA AfterIs ==
  /\ After["fork"] = IF version = "thv2" THEN "USR1" ELSE "wait"
  /\ After["USR1"] = "STOP" /\ After["STOP"] = "CONT" /\ After["CONT"] = "wait"
  /\ After["wait"] = "zombie"
BY DEF After

(* What one round of a loop leaves behind. *)
LEMMA AdvanceIs ==
  ASSUME NEW r \in Process, n \in Nat, r.loc \in Loops
  PROVE  /\ Advance(r) \in Process /\ Same(Advance(r), r)
         /\ r.i + 1 < n => /\ Advance(r).i = r.i + 1
                           /\ Advance(r).loc = IF r.loc = "fork" THEN Loop ELSE r.loc
         /\ ~(r.i + 1 < n) => Advance(r).i = 0 /\ Advance(r).loc = After[r.loc]
<1>1. r.i \in Nat /\ r.i + 1 \in Nat
  BY DEF Process
<1>2. PICK x \in Nat : x = r.i + 1
  BY <1>1
<1>3. CASE r.i + 1 < n
  <2>1. Advance(r) = [r EXCEPT !.i = x, !.loc = IF r.loc = "fork" THEN Loop ELSE r.loc]
    BY <1>2, <1>3 DEF Advance
  <2>2. (IF r.loc = "fork" THEN Loop ELSE r.loc) \in Locs
    BY DEF Loop, Locs, Process
  <2>3. PICK y \in Locs : y = IF r.loc = "fork" THEN Loop ELSE r.loc
    BY <2>2
  <2>4. Advance(r) = [r EXCEPT !.i = x, !.loc = y]
    BY <2>1, <2>3
  <2>5. Advance(r) \in Process /\ Same(Advance(r), r) /\ Advance(r).i = x /\ Advance(r).loc = y
    BY <2>4 DEF Process, Same
  <2>6. QED
    BY <1>2, <1>3, <2>3, <2>5
<1>4. CASE ~(r.i + 1 < n)
  <2>1. PICK y \in Locs : y = After[r.loc]
    BY AfterIs DEF Loops, Locs
  <2>2. PICK z \in Nat : z = 0
    OBVIOUS
  <2>3. Advance(r) = [r EXCEPT !.i = z, !.loc = y]
    BY <1>4, <2>1, <2>2 DEF Advance
  <2>4. Advance(r) \in Process /\ Same(Advance(r), r) /\ Advance(r).i = z /\ Advance(r).loc = y
    BY <2>3 DEF Process, Same
  <2>5. QED
    BY <1>4, <2>1, <2>2, <2>4
<1>5. QED
  BY <1>3, <1>4

(* The launcher's children are processes, and those that the last loop has *)
(* passed are in its array.                                                *)
LEMMA ChildrenExist ==
  ASSUME IInv
  PROVE  /\ \A k \in 1..Len(L.pid) : L.pid[k] # -1 => L.pid[k] \in Procs
         /\ L.loc = "wait" => 1..L.i \subseteq 1..Len(L.pid)
         /\ L.loc = "wait" => L.i + 1 \in 1..Len(L.pid)
<1>1. /\ L \in Process /\ L.pid \in Seq(Pids) /\ L.i \in Nat /\ n \in Nat
  BY LauncherExists, FieldTypes DEF IInv, TypeInv, L
<1>2. \A k \in 1..Len(L.pid) : L.pid[k] # -1 => L.pid[k] \in Procs
  BY <1>1 DEF IInv, FamilyInv, Pids
<1>3. L.loc = "wait" => L.i < n /\ Len(L.pid) = n
  BY <1>1, LauncherExists DEF IInv, IndexInv, Indexed, L, Loops
<1>4. QED
  BY <1>1, <1>2, <1>3

(* Without a failure the launcher's signals go to its children. *)
LEMMA Addressee ==
  ASSUME IInv, L.loc \in {"USR1", "STOP", "CONT"}, failures = 0, NEW k \in (L.i + 1)..n
  PROVE  k \in 1..Len(L.pid) /\ L.pid[k] \in Procs /\ L.pid[k] \notin {0, -1, Launcher}
<1>1. /\ L.i \in Nat /\ n \in Nat
  BY LauncherExists, FieldTypes DEF IInv, TypeInv, L
<1>2. Len(L.pid) = n
  BY LauncherExists DEF IInv, IndexInv, Indexed, L, Loops
<1>3. k \in 1..Len(L.pid)
  BY <1>1, <1>2
<1>4. L.pid[k] # 0 /\ L.pid[k] # -1 /\ L.pid[k] # Launcher
  BY <1>3 DEF IInv, FamilyInv
<1>5. QED
  BY <1>3, <1>4, ChildrenExist

(* A change of one process. *)
LEMMA OneChanges ==
  ASSUME ps \in [Procs -> Process], NEW p \in Procs, NEW r \in Process, ps' = [ps EXCEPT ![p] = r]
  PROVE  ps' \in [Procs -> Process] /\ ps'[p] = r /\ \A q \in Procs \ {p} : ps'[q] = ps[q]
OBVIOUS
-----------------------------------------------------------------------------
(* A step of one process that touches neither its index nor its array.     *)
Plain(p) ==
  /\ ps' \in [Procs -> Process] /\ UNCHANGED <<version, n, found, failures>>
  /\ \A q \in Procs \ {p} : ps'[q] = ps[q]
  /\ ps'[p].i = ps[p].i /\ ps'[p].pid = ps[p].pid /\ ps'[p].ppid = ps[p].ppid
  /\ \/ ps'[p].loc = ps[p].loc /\ ps'[p].timer = ps[p].timer
     \/ ps[p].loc = "arm" /\ ps'[p].loc = "fork"
     \/ /\ ps[p].loc \in {"test", "sleep", "exec"} /\ ps'[p].timer = ps[p].timer
        /\ \/ ps'[p].loc = "command" /\ found
           \/ ps'[p].loc = "exec" /\ ps[p].received
           \/ ps'[p].loc \in {"test", "sleep"} /\ ps[p].loc \in {"test", "sleep"}
     \/ /\ ps[p].loc \notin {"unborn", "reaped", "zombie"} /\ ps'[p].loc = "zombie"
        /\ ps'[p].timer = ps[p].timer \/ (ps'[p].timer = "fired" /\ ps[p].timer = "armed")
        /\ p = Launcher => ps'[p].timer = "fired"

LEMMA PlainKeeps ==
  ASSUME IInv, NEW p \in Procs, Plain(p)
  PROVE  TypeInv' /\ IndexInv' /\ RoleInv' /\ FamilyInv' /\ WaitInv'
<1>1. /\ ps \in [Procs -> Process] /\ ps' \in [Procs -> Process] /\ Launcher \in Procs
      /\ UNCHANGED <<version, n, found, failures>> /\ Procs' = Procs /\ Launcher' = Launcher
  BY LauncherExists DEF IInv, TypeInv, Plain, Procs, Launcher
<1>2. TypeInv'
  BY <1>1 DEF IInv, TypeInv
<1>3. \A q \in Procs : ps'[q].i = ps[q].i /\ ps'[q].pid = ps[q].pid /\ ps'[q].ppid = ps[q].ppid
  BY DEF Plain
<1>4. IndexInv'
  <2>1. SUFFICES ASSUME NEW q \in Procs PROVE Indexed(ps[q])'
    BY <1>1 DEF IndexInv
  <2>2. CASE q # p
    BY <1>1, <2>2 DEF Plain, IInv, IndexInv, Indexed
  <2>3. CASE q = p
    BY <1>1, <1>3, <2>3 DEF Plain, IInv, IndexInv, Indexed, Loops
  <2>4. QED
    BY <2>2, <2>3
<1>5. RoleInv'
  BY <1>1, <1>3 DEF Plain, IInv, RoleInv, Loops, L
<1>6. FamilyInv'
  <2>1. \A q \in Procs : ps'[q].loc = "unborn" <=> ps[q].loc = "unborn"
    BY DEF Plain
  <2>2. L'.pid = L.pid
    BY <1>1, <1>3 DEF L
  <2>3. QED
    BY <1>1, <1>3, <2>1, <2>2, ChildrenExist DEF IInv, FamilyInv
<1>7. WaitInv'
  <2>1. \A q \in Procs : ps[q].loc = "reaped" => ps'[q].loc = "reaped"
    BY DEF Plain
  <2>2. L'.pid = L.pid /\ L'.i = L.i
    BY <1>1, <1>3 DEF L
  <2>3. /\ L'.loc = "wait" => L.loc = "wait"
        /\ L'.loc = "zombie" /\ L'.timer # "fired" => L.loc = "zombie" /\ L.timer # "fired"
    BY <1>1 DEF Plain, IInv, RoleInv, L, Loops
  <2>4. QED
    BY <1>1, <2>1, <2>2, <2>3, ChildrenExist DEF IInv, WaitInv
<1>8. QED
  BY <1>2, <1>4, <1>5, <1>6, <1>7

(* A plain step keeps the whole invariant if it sends and takes nothing,   *)
(* kills nobody, and lets nobody go on who has not got the signal.         *)
LEMMA QuietKeeps ==
  ASSUME IInv, NEW p \in Procs, Plain(p),
         ps'[p].received = ps[p].received, ps'[p].pending = ps[p].pending,
         ps'[p].killed => ps[p].killed,
         ps'[p].loc \in {"exec", "command"} => ps[p].loc \in {"exec", "command"} \/ ps[p].received
  PROVE  IInv'
<1>1. /\ UNCHANGED <<version, n, found, failures>> /\ Launcher \in Procs
      /\ Procs' = Procs /\ Launcher' = Launcher
  BY LauncherExists DEF Plain, Procs, Launcher
<1>2. /\ L'.pid = L.pid /\ L'.i = L.i
      /\ L'.loc = "USR1" => L.loc = "USR1"
      /\ L'.loc = "fork" /\ version = "thv2" => L.loc = "fork"
  BY <1>1 DEF Plain, L, IInv, IndexInv, Indexed
<1>3. \A q \in Procs : /\ ps'[q].received = ps[q].received /\ ps'[q].pending = ps[q].pending
                       /\ (ps'[q].killed => ps[q].killed)
                       /\ Untouched(q) => Untouched(q)'
  BY DEF Plain, Untouched
<1>4. SignalInv'
  <2>1. version # "thv2" => \A q \in Procs : "USR1" \notin ps'[q].pending
    BY <1>3 DEF IInv, SignalInv
  <2>2. version = "thv2" => \A q \in Procs : ps'[q].loc \in {"exec", "command"} => ps'[q].received
    BY <1>3 DEF IInv, SignalInv, Plain
  <2>3. version = "thv2" /\ found /\ L'.loc = "fork" => \A q \in Procs : Untouched(q)'
    BY <1>2, <1>3 DEF IInv, SignalInv
  <2>4. ASSUME version = "thv2", found, failures = 0, L'.loc = "USR1",
               NEW k \in (L.i + 1)..n
        PROVE  Untouched(L.pid[k])'
    <3>1. Untouched(L.pid[k])
      BY <1>2, <2>4 DEF IInv, SignalInv
    <3>2. L.pid[k] \in Procs /\ L'.pid[k] = L.pid[k]
      BY <1>2, <2>4, Addressee
    <3>3. QED
      BY <1>3, <3>1, <3>2 DEF Untouched
  <2>5. QED
    BY <1>1, <1>2, <1>3, <2>1, <2>2, <2>3, <2>4 DEF IInv, SignalInv
<1>5. CommandsSurvive'
  BY <1>1, <1>3 DEF IInv, CommandsSurvive
<1>6. QED
  BY <1>4, <1>5, PlainKeeps DEF IInv

LEMMA ArmKeeps == ASSUME IInv, NEW p \in Procs, Arm(p) PROVE IInv'
<1>1. ps \in [Procs -> Process] /\ ps[p] \in Process /\ ps[p].loc = "arm"
  BY DEF IInv, TypeInv, Arm, At
<1>2. PICK t \in {"off", "armed", "fired"}, y \in Locs : t = "armed" /\ y = "fork"
  BY DEF Locs, Loops
<1>3. PICK r \in Process : r = [ps[p] EXCEPT !.timer = t, !.loc = y]
  BY <1>1 DEF Process
<1>4. /\ r.i = ps[p].i /\ r.pid = ps[p].pid /\ r.ppid = ps[p].ppid /\ r.killed = ps[p].killed
      /\ r.received = ps[p].received /\ r.pending = ps[p].pending
      /\ r.loc = "fork" /\ r.timer = "armed"
  BY <1>1, <1>2, <1>3 DEF Process
<1>5. ps' = [ps EXCEPT ![p] = r]
  BY <1>2, <1>3 DEF Arm
<1>6. Plain(p)
  BY <1>1, <1>4, <1>5, OneChanges DEF Plain, Arm
<1>7. QED
  BY <1>1, <1>4, <1>5, <1>6, OneChanges, QuietKeeps

LEMMA MoveKeeps ==
  ASSUME IInv, NEW p \in Procs, NEW y \in Locs, ps' = [ps EXCEPT ![p].loc = y],
         UNCHANGED <<version, n, found, failures>>,
         \/ ps[p].loc \in {"test", "sleep"} /\ y \in {"test", "sleep"}
         \/ ps[p].loc \in {"test", "sleep"} /\ y = "exec" /\ ps[p].received
         \/ ps[p].loc = "exec" /\ y = "command" /\ found
         \/ ps[p].loc = "command" /\ y = "zombie"
  PROVE  IInv'
<1>1. ps \in [Procs -> Process] /\ ps[p] \in Process
  BY DEF IInv, TypeInv
<1>2. PICK r \in Process : r = [ps[p] EXCEPT !.loc = y]
  BY <1>1 DEF Process
<1>3. /\ r.i = ps[p].i /\ r.pid = ps[p].pid /\ r.ppid = ps[p].ppid /\ r.killed = ps[p].killed
      /\ r.received = ps[p].received /\ r.pending = ps[p].pending /\ r.timer = ps[p].timer
      /\ r.loc = y
  BY <1>1, <1>2 DEF Process
<1>4. ps' = [ps EXCEPT ![p] = r]
  BY <1>2
<1>5. p # Launcher \/ ps[p].loc # "command"
  BY DEF IInv, RoleInv, L, Loops
<1>6. Plain(p)
  BY <1>1, <1>3, <1>4, <1>5, OneChanges DEF Plain
<1>7. ps'[p] = r
  BY <1>1, <1>4, OneChanges
<1>8. y \in {"exec", "command"} => ps[p].loc \in {"exec", "command"} \/ ps[p].received
  OBVIOUS
<1>9. QED
  BY <1>3, <1>6, <1>7, <1>8, QuietKeeps

LEMMA TestKeeps == ASSUME IInv, NEW p \in Procs, Test(p) PROVE IInv'
<1>1. PICK y \in Locs : y = IF ps[p].received THEN "exec" ELSE "sleep"
  BY DEF Locs
<1>2. QED
  BY <1>1, MoveKeeps DEF Test, At

LEMMA WakeKeeps == ASSUME IInv, NEW p \in Procs, Wake(p) PROVE IInv'
<1>1. "test" \in Locs
  BY DEF Locs
<1>2. QED
  BY <1>1, MoveKeeps DEF Wake, At

LEMMA ExitKeeps == ASSUME IInv, NEW p \in Procs, Exit(p) PROVE IInv'
<1>1. "zombie" \in Locs
  BY DEF Locs
<1>2. QED
  BY <1>1, MoveKeeps DEF Exit, At

(* The timer runs in launchers only, which nobody counts as killed. *)
LEMMA AlarmKeeps == ASSUME IInv, NEW p \in Procs, Alarm(p) PROVE IInv'
<1>1. /\ ps \in [Procs -> Process] /\ ps[p] \in Process /\ ps[p].timer = "armed"
      /\ ps[p].loc \notin {"unborn", "zombie", "reaped"}
  BY DEF IInv, TypeInv, Alarm, Alive
<1>2. ps[p].loc # "command"
  BY <1>1, LauncherExists DEF IInv, RoleInv, TypeInv, L, Loops
<1>3. PICK t \in {"off", "armed", "fired"}, y \in Locs, k \in BOOLEAN :
        t = "fired" /\ y = "zombie" /\ k = (ps[p].loc = "command")
  BY DEF Locs
<1>4. PICK r \in Process : r = [ps[p] EXCEPT !.timer = t, !.loc = y, !.killed = k]
  BY <1>1 DEF Process
<1>5. /\ r.i = ps[p].i /\ r.pid = ps[p].pid /\ r.ppid = ps[p].ppid
      /\ r.received = ps[p].received /\ r.pending = ps[p].pending
      /\ r.loc = "zombie" /\ r.timer = "fired" /\ r.killed = FALSE
  BY <1>1, <1>2, <1>3, <1>4 DEF Process
<1>6. ps' = [ps EXCEPT ![p] = r]
  BY <1>3, <1>4 DEF Alarm
<1>7. Plain(p)
  BY <1>1, <1>5, <1>6, OneChanges DEF Plain, Alarm
<1>8. ps'[p] = r
  BY <1>1, <1>6, OneChanges
<1>9. QED
  BY <1>5, <1>7, <1>8, QuietKeeps

(* A signal that arrives: it is taken and changes no place in the program, *)
(* or it is SIGUSR1 and kills a command, after a fork has failed.          *)
LEMMA DeliverKeeps == ASSUME IInv, NEW p \in Procs, NEW s \in Signals, Deliver(p, s) PROVE IInv'
<1>1. /\ ps \in [Procs -> Process] /\ ps[p] \in Process /\ s \in ps[p].pending
      /\ ps[p].loc \notin {"unborn", "zombie", "reaped"} /\ s \in {"USR1", "STOP"}
      /\ UNCHANGED <<version, n, found, failures>>
  BY FieldTypes DEF IInv, TypeInv, Deliver, Alive
<1>2. PICK left \in SUBSET {"USR1", "STOP"} : left = ps[p].pending \ {s}
  BY <1>1, FieldTypes
<1>3. PICK r \in Process : r = [ps[p] EXCEPT !.pending = left]
  BY <1>1 DEF Process
<1>4. /\ r.i = ps[p].i /\ r.pid = ps[p].pid /\ r.ppid = ps[p].ppid /\ r.timer = ps[p].timer
      /\ r.received = ps[p].received /\ r.pending = left /\ r.killed = ps[p].killed
      /\ r.loc = ps[p].loc
  BY <1>1, <1>3 DEF Process
<1>5. ps' = [ps EXCEPT ![p] = Take(r, s)]
  <2>1. [ps[p] EXCEPT !.pending = ps[p].pending \ {s}] = r
    BY <1>2, <1>3
  <2>2. ps' = [ps EXCEPT ![p] = Take([ps[p] EXCEPT !.pending = ps[p].pending \ {s}], s)]
    BY DEF Deliver
  <2>3. QED
    BY <2>1, <2>2
<1>6. CASE s = "USR1" /\ r.loc = "command"
  <2>1. PICK y \in Locs, k \in BOOLEAN : y = "zombie" /\ k = TRUE
    BY DEF Locs
  <2>2. PICK t \in Process : t = [r EXCEPT !.loc = y, !.killed = k]
    BY DEF Process
  <2>3. /\ t.i = ps[p].i /\ t.pid = ps[p].pid /\ t.ppid = ps[p].ppid /\ t.timer = ps[p].timer
        /\ t.received = ps[p].received /\ t.pending = left /\ t.loc = "zombie"
    BY <1>4, <2>1, <2>2 DEF Process
  <2>4. Take(r, s) = t
    BY <1>6, <2>1, <2>2 DEF Take
  <2>5. ps'[p] = t /\ ps' \in [Procs -> Process] /\ \A q \in Procs \ {p} : ps'[q] = ps[q]
    BY <1>1, <1>5, <2>4, OneChanges
  <2>6. found /\ version = "thv2" /\ p # Launcher /\ failures # 0
    BY <1>1, <1>4, <1>6 DEF IInv, TypeInv, RoleInv, SignalInv, L, Loops
  <2>7. Plain(p)
    BY <1>1, <1>4, <1>6, <2>3, <2>5, <2>6 DEF Plain
  <2>8. SignalInv'
    <3>1. L'.loc = "fork" => L.loc = "fork"
      BY <2>5, <2>6, LauncherExists DEF L, Launcher
    <3>2. \A q \in Procs : Untouched(q) => Untouched(q)'
      BY <1>2, <2>3, <2>5 DEF Untouched
    <3>3. \A q \in Procs : ps'[q].loc \in {"exec", "command"} => ps'[q].received
      BY <2>3, <2>5, <2>6 DEF IInv, SignalInv
    <3>4. QED
      BY <1>1, <2>6, <3>1, <3>2, <3>3 DEF IInv, SignalInv, Procs
  <2>9. CommandsSurvive'
    BY <1>1, <2>6 DEF CommandsSurvive
  <2>10. QED
    BY <2>7, <2>8, <2>9, PlainKeeps DEF IInv
<1>7. CASE ~(s = "USR1" /\ r.loc = "command")
  <2>1. PICK u \in BOOLEAN, w \in BOOLEAN :
          /\ u = (r.received \/ s = "USR1") /\ w = (r.stopped \/ s = "STOP")
    OBVIOUS
  <2>2. PICK t \in Process : t = [r EXCEPT !.received = u, !.stopped = w]
    BY DEF Process
  <2>3. /\ t.i = ps[p].i /\ t.pid = ps[p].pid /\ t.ppid = ps[p].ppid /\ t.timer = ps[p].timer
        /\ t.received = u /\ t.pending = left /\ t.loc = ps[p].loc /\ t.killed = ps[p].killed
    BY <1>4, <2>2 DEF Process
  <2>4. Take(r, s) = t
    <3>1. /\ t.i = r.i /\ t.pid = r.pid /\ t.ppid = r.ppid /\ t.timer = r.timer /\ t.loc = r.loc
          /\ t.pending = r.pending /\ t.killed = r.killed /\ t.received = u /\ t.stopped = w
      BY <2>2 DEF Process
    <3>2. CASE s = "USR1" /\ r.loc # "command"
      <4>1. Take(r, s) = [r EXCEPT !.received = TRUE]
        BY <3>2 DEF Take
      <4>2. u = TRUE /\ w = r.stopped
        BY <2>1, <3>2 DEF Process
      <4>3. QED
        BY <2>2, <4>1, <4>2 DEF Process
    <3>3. CASE s = "STOP"
      <4>1. Take(r, s) = [r EXCEPT !.stopped = TRUE]
        BY <3>3 DEF Take
      <4>2. u = r.received /\ w = TRUE
        BY <2>1, <3>3 DEF Process
      <4>3. QED
        BY <2>2, <4>1, <4>2 DEF Process
    <3>4. QED
      BY <1>1, <1>7, <3>2, <3>3
  <2>5. ps'[p] = t /\ ps' \in [Procs -> Process] /\ \A q \in Procs \ {p} : ps'[q] = ps[q]
    BY <1>1, <1>5, <2>4, OneChanges
  <2>6. Plain(p)
    BY <1>1, <2>3, <2>5 DEF Plain
  <2>7. L'.loc = L.loc /\ L'.i = L.i /\ L'.pid = L.pid
    BY <2>3, <2>5, LauncherExists DEF L, Launcher
  <2>8. \A q \in Procs : Untouched(q) => Untouched(q)'
    <3>1. s = "USR1" => ~Untouched(p)
      BY <1>1 DEF Untouched
    <3>2. s # "USR1" => (Untouched(p) => Untouched(p)')
      BY <1>2, <1>4, <2>1, <2>3, <2>5 DEF Untouched
    <3>3. QED
      BY <2>5, <3>1, <3>2 DEF Untouched
  <2>9. SignalInv'
    <3>1. version # "thv2" => \A q \in Procs : "USR1" \notin ps'[q].pending
      BY <1>2, <2>3, <2>5 DEF IInv, SignalInv
    <3>2. version = "thv2" => \A q \in Procs : ps'[q].loc \in {"exec", "command"} => ps'[q].received
      BY <1>4, <2>1, <2>3, <2>5 DEF IInv, SignalInv
    <3>3. version = "thv2" /\ found /\ L'.loc = "fork" => \A q \in Procs : Untouched(q)'
      BY <2>7, <2>8 DEF IInv, SignalInv
    <3>4. ASSUME version = "thv2", found, failures = 0, L'.loc = "USR1",
                 NEW k \in (L.i + 1)..n
          PROVE  Untouched(L.pid[k])'
      <4>1. Untouched(L.pid[k])
        BY <2>7, <3>4 DEF IInv, SignalInv
      <4>2. L.pid[k] \in Procs
        BY <2>7, <3>4, Addressee
      <4>3. QED
        BY <2>7, <2>8, <4>1, <4>2 DEF Untouched
    <3>5. version = "thv2" /\ found /\ failures = 0 =>
            \A q \in Procs : ps'[q].received => "USR1" \notin ps'[q].pending
      BY <1>2, <1>4, <2>1, <2>3, <2>5 DEF IInv, SignalInv
    <3>6. QED
      BY <1>1, <2>7, <3>1, <3>2, <3>3, <3>4, <3>5 DEF SignalInv, Procs, Untouched
  <2>10. CommandsSurvive'
    BY <1>1, <2>3, <2>5 DEF IInv, CommandsSurvive, Procs
  <2>11. QED
    BY <2>6, <2>9, <2>10, PlainKeeps DEF IInv
<1>8. QED
  BY <1>6, <1>7
-----------------------------------------------------------------------------
(* The end of a round, of the loop that forks and of the others. *)
LEMMA ForkRound ==
  ASSUME IInv, NEW r \in Process, r.loc = "fork", Len(r.pid) = r.i + 1, r.i < n
  PROVE  Indexed(Advance(r)) /\ Advance(r).loc \in {"arm", "fork", "USR1", "wait"}
<1>1. /\ r.i \in Nat /\ n \in Nat /\ n > 0
      /\ Advance(r).pid = r.pid
      /\ r.i + 1 < n => Advance(r).i = r.i + 1 /\ Advance(r).loc = Loop
      /\ ~(r.i + 1 < n) => Advance(r).i = 0 /\ Advance(r).loc = After["fork"]
  BY AdvanceIs, FieldTypes DEF IInv, TypeInv, Same, Loops
<1>2. /\ Loop \in {"arm", "fork"} /\ (Loop = "arm" => version = "thv3")
      /\ After["fork"] \in {"USR1", "wait"} /\ (After["fork"] = "USR1" => version = "thv2")
  BY AfterIs DEF Loop
<1>3. CASE r.i + 1 < n
  <2>1. Advance(r).i = Len(r.pid) /\ Advance(r).loc \in {"arm", "fork"} /\ Advance(r).i < n
        /\ (Advance(r).loc = "arm" => version = "thv3")
    BY <1>1, <1>2, <1>3
  <2>2. QED
    BY <1>1, <1>3, <2>1 DEF Indexed, Loops
<1>4. CASE ~(r.i + 1 < n)
  <2>1. Advance(r).i = 0 /\ Advance(r).loc \in {"USR1", "wait"} /\ Len(r.pid) = n
        /\ (Advance(r).loc = "USR1" => version = "thv2")
    BY <1>1, <1>2, <1>4
  <2>2. QED
    BY <1>1, <1>4, <2>1 DEF Indexed, Loops
<1>5. QED
  BY <1>3, <1>4

LEMMA LaterRound ==
  ASSUME IInv, NEW r \in Process, r.loc \in {"USR1", "STOP", "CONT", "wait"}, Indexed(r)
  PROVE  Indexed(Advance(r)) /\ Advance(r).loc \in {"USR1", "STOP", "CONT", "wait", "zombie"}
<1>1. /\ r.i \in Nat /\ n \in Nat /\ n > 0 /\ Len(r.pid) = n
      /\ Advance(r).pid = r.pid
      /\ r.i + 1 < n => Advance(r).i = r.i + 1 /\ Advance(r).loc = r.loc
      /\ ~(r.i + 1 < n) => Advance(r).i = 0 /\ Advance(r).loc = After[r.loc]
  BY AdvanceIs, FieldTypes DEF IInv, TypeInv, Same, Loops, Indexed
<1>2. CASE r.i + 1 < n
  BY <1>1, <1>2 DEF Indexed, Loops
<1>3. CASE ~(r.i + 1 < n)
  <2>1. Advance(r).loc \in {"STOP", "CONT", "wait", "zombie"} /\ Advance(r).i = 0
        /\ (Advance(r).loc \in {"STOP", "CONT"} => version = "thv2")
    BY <1>1, <1>3, AfterIs DEF Indexed
  <2>2. QED
    BY <1>1, <2>1 DEF Indexed, Loops
<1>4. QED
  BY <1>2, <1>3

(* execvp: a child whose command is not found goes on as a launcher; it is *)
(* not the launcher itself.                                                *)
LEMMA ExecKeeps == ASSUME IInv, NEW p \in Procs, Exec(p) PROVE IInv'
<1>1. /\ ps \in [Procs -> Process] /\ ps[p] \in Process /\ ps[p].loc = "exec"
      /\ UNCHANGED <<version, n, found, failures>> /\ found \in BOOLEAN
      /\ Procs' = Procs /\ Launcher' = Launcher
  BY DEF IInv, TypeInv, Exec, At, Procs, Launcher
<1>2. CASE found
  <2>1. PICK y \in Locs : y = "command"
    BY DEF Locs
  <2>2. ps' = [ps EXCEPT ![p].loc = y]
    BY <1>2, <2>1 DEF Exec
  <2>3. QED
    BY <1>1, <1>2, <2>1, <2>2, MoveKeeps
<1>3. CASE ~found
  <2>1. PICK y \in Locs : y = "fork"
    BY DEF Locs, Loops
  <2>2. PICK r \in Process : r = [ps[p] EXCEPT !.loc = y]
    BY <1>1 DEF Process
  <2>3. /\ r.loc = "fork" /\ r.i = ps[p].i /\ r.pid = ps[p].pid /\ r.ppid = ps[p].ppid
        /\ r.received = ps[p].received /\ r.pending = ps[p].pending /\ r.killed = ps[p].killed
    BY <1>1, <2>1, <2>2 DEF Process
  <2>4. Indexed(ps[p]) /\ p # Launcher
    BY <1>1 DEF IInv, IndexInv, RoleInv, L, Loops
  <2>5. Len(r.pid) = r.i + 1 /\ r.i < n
    BY <1>1, <2>3, <2>4 DEF Indexed
  <2>6. PICK t \in Process : t = Advance(r)
    BY <2>3, AdvanceIs DEF IInv, TypeInv, Loops
  <2>7. Indexed(t) /\ t.loc \in {"arm", "fork", "USR1", "wait"} /\ Same(t, r)
    BY <2>3, <2>5, <2>6, ForkRound, AdvanceIs DEF IInv, TypeInv, Loops
  <2>8. ps' = [ps EXCEPT ![p] = t]
    BY <1>3, <2>1, <2>2, <2>6 DEF Exec
  <2>9. ps' \in [Procs -> Process] /\ ps'[p] = t /\ (\A q \in Procs \ {p} : ps'[q] = ps[q]) /\ L' = L
    BY <1>1, <2>4, <2>8, OneChanges, LauncherExists DEF L, Launcher
  <2>10. /\ t.ppid = ps[p].ppid /\ t.received = ps[p].received /\ t.pending = ps[p].pending
         /\ t.killed = ps[p].killed
    BY <2>3, <2>7 DEF Same
  <2>11. TypeInv'
    BY <1>1, <2>9 DEF IInv, TypeInv, Process, Locs, Pids, Procs
  <2>12. IndexInv'
    <3>1. \A q \in Procs : Indexed(ps[q]) => Indexed(ps[q])' \/ q = p
      BY <1>1, <2>9 DEF Indexed
    <3>2. Indexed(ps[p])'
      BY <1>1, <2>7, <2>9 DEF Indexed
    <3>3. QED
      BY <1>1, <3>1, <3>2 DEF IInv, IndexInv
  <2>13. RoleInv'
    BY <1>1, <1>3, <2>7, <2>9 DEF IInv, RoleInv
  <2>14. FamilyInv'
    BY <1>1, <2>7, <2>9, <2>10, ChildrenExist DEF IInv, FamilyInv
  <2>15. WaitInv'
    BY <1>1, <2>9, ChildrenExist DEF IInv, WaitInv
  <2>16. SignalInv'
    BY <1>1, <1>3, <2>7, <2>9, <2>10 DEF IInv, SignalInv
  <2>17. CommandsSurvive'
    BY <1>1, <2>9, <2>10 DEF IInv, CommandsSurvive
  <2>18. QED
    BY <2>11, <2>12, <2>13, <2>14, <2>15, <2>16, <2>17 DEF IInv
<1>4. QED
  BY <1>1, <1>2, <1>3

(* The forking process, with the pid it got, at the end of its round. *)
LEMMA Forked ==
  ASSUME IInv, NEW p \in Procs, ps[p].loc = "fork", NEW x \in Pids
  PROVE  LET t == Advance([ps[p] EXCEPT !.pid = Append(ps[p].pid, x)])
         IN  /\ t \in Process /\ Indexed(t) /\ t.loc \in {"arm", "fork", "USR1", "wait"}
             /\ t.pid = Append(ps[p].pid, x) /\ t.ppid = ps[p].ppid /\ t.timer = ps[p].timer
             /\ t.received = ps[p].received /\ t.pending = ps[p].pending
             /\ t.killed = ps[p].killed
             /\ t.loc = "wait" => t.i = 0
<1>1. /\ ps[p] \in Process /\ ps[p].pid \in Seq(Pids) /\ ps[p].i \in Nat /\ n \in Nat
      /\ Indexed(ps[p])
  BY FieldTypes DEF IInv, TypeInv, IndexInv
<1>2. Len(ps[p].pid) = ps[p].i /\ ps[p].i < n
  BY <1>1 DEF Indexed, Loops
<1>3. PICK s \in Seq(Pids) : s = Append(ps[p].pid, x)
  BY <1>1, AppendProperties
<1>4. PICK r \in Process : r = [ps[p] EXCEPT !.pid = s]
  BY <1>1 DEF Process
<1>5. /\ r.loc = "fork" /\ r.i = ps[p].i /\ r.pid = s /\ r.ppid = ps[p].ppid
      /\ r.received = ps[p].received /\ r.pending = ps[p].pending /\ r.killed = ps[p].killed
      /\ r.timer = ps[p].timer
  BY <1>1, <1>4 DEF Process
<1>6. Len(s) = ps[p].i + 1
  BY <1>1, <1>2, <1>3
<1>7. Indexed(Advance(r)) /\ Advance(r).loc \in {"arm", "fork", "USR1", "wait"}
  BY <1>2, <1>5, <1>6, ForkRound
<1>8. Advance(r) \in Process /\ Same(Advance(r), r)
  BY <1>1, <1>5, AdvanceIs DEF Loops
<1>9. Advance(r).loc = "wait" => Advance(r).i = 0
  BY <1>1, <1>5, AdvanceIs DEF Loops, Loop
<1>10. QED
  BY <1>3, <1>4, <1>5, <1>7, <1>8, <1>9 DEF Same

(* The child. *)
LEMMA Born ==
  ASSUME IInv, NEW p \in Procs, ps[p].loc = "fork"
  PROVE  LET c == [ps[p] EXCEPT !.loc = IF version = "thv2" THEN "test" ELSE "exec",
                                !.ppid = p, !.pid = Append(ps[p].pid, 0),
                                !.pending = {}, !.timer = "off"]
         IN  /\ c \in Process /\ Indexed(c) /\ c.ppid = p /\ c.timer = "off" /\ c.pending = {}
             /\ c.loc = IF version = "thv2" THEN "test" ELSE "exec"
             /\ c.received = ps[p].received /\ c.killed = ps[p].killed
<1>1. /\ ps[p] \in Process /\ ps[p].pid \in Seq(Pids) /\ ps[p].i \in Nat /\ n \in Nat
      /\ Indexed(ps[p])
  BY FieldTypes DEF IInv, TypeInv, IndexInv
<1>2. Len(ps[p].pid) = ps[p].i /\ ps[p].i < n
  BY <1>1 DEF Indexed, Loops
<1>3. PICK s \in Seq(Pids) : s = Append(ps[p].pid, 0)
  <2>1. 0 \in Pids
    BY DEF Pids
  <2>2. QED
    BY <1>1, <2>1, AppendProperties
<1>4. PICK y \in Locs, none \in SUBSET {"USR1", "STOP"}, t \in {"off", "armed", "fired"},
           parent \in Procs \cup {0} :
        /\ y = (IF version = "thv2" THEN "test" ELSE "exec") /\ none = {} /\ t = "off"
        /\ parent = p
  BY DEF Locs
<1>5. PICK c \in Process : c = [ps[p] EXCEPT !.loc = y, !.ppid = parent, !.pid = s,
                                             !.pending = none, !.timer = t]
  BY <1>1 DEF Process
<1>6. /\ c.loc = y /\ c.i = ps[p].i /\ c.pid = s /\ c.ppid = parent /\ c.pending = none
      /\ c.timer = t /\ c.received = ps[p].received /\ c.killed = ps[p].killed
  BY <1>1, <1>5 DEF Process
<1>7. Len(s) = ps[p].i + 1
  BY <1>1, <1>2, <1>3
<1>8. Indexed(c)
  BY <1>1, <1>2, <1>4, <1>6, <1>7 DEF Indexed, Loops
<1>9. QED
  BY <1>3, <1>4, <1>5, <1>6, <1>8

LEMMA UnbornAreNobodys ==
  ASSUME IInv PROVE \A q \in Procs : ps[q].loc = "unborn" => ps[q].ppid # Launcher
BY DEF IInv, FamilyInv, Launcher

(* A step in which the launcher has no new child. *)
LEMMA FamilyKept ==
  ASSUME IInv, L'.pid = L.pid, failures' = 0 => failures = 0,
         \A q \in Procs :
           /\ ps[q].loc # "unborn" => ps'[q].ppid = ps[q].ppid /\ ps'[q].loc # "unborn"
           /\ ps[q].loc = "unborn" => ps'[q].ppid # Launcher
           /\ ps'[q].loc = "unborn" => ps'[q].ppid = ps[q].ppid
  PROVE  FamilyInv'
<1>1. Procs' = Procs /\ Launcher' = Launcher
  BY DEF Procs, Launcher
<1>2. ASSUME NEW k \in 1..Len(L.pid)
      PROVE  /\ L.pid[k] # 0 /\ (failures' = 0 => L.pid[k] # -1)
             /\ L.pid[k] # -1 => /\ L.pid[k] # Launcher
                                 /\ ps'[L.pid[k]].ppid = Launcher /\ ps'[L.pid[k]].loc # "unborn"
                                 /\ \A m \in 1..Len(L.pid) : L.pid[m] = L.pid[k] => m = k
  <2>1. L.pid[k] # -1 => L.pid[k] \in Procs
    BY ChildrenExist
  <2>2. /\ L.pid[k] # 0 /\ (failures = 0 => L.pid[k] # -1)
        /\ L.pid[k] # -1 => /\ L.pid[k] # Launcher
                            /\ ps[L.pid[k]].ppid = Launcher /\ ps[L.pid[k]].loc # "unborn"
                            /\ \A m \in 1..Len(L.pid) : L.pid[m] = L.pid[k] => m = k
    BY DEF IInv, FamilyInv
  <2>3. QED
    BY <2>1, <2>2
<1>3. \A q \in Procs : /\ ps'[q].ppid = Launcher => \E k \in 1..Len(L.pid) : L.pid[k] = q
                       /\ ps'[q].loc = "unborn" => ps'[q].ppid = 0
  BY DEF IInv, FamilyInv
<1>4. QED
  BY <1>1, <1>2, <1>3 DEF FamilyInv

(* If the command can be executed only the launcher forks. *)
LEMMA WhoForks ==
  ASSUME IInv, NEW p \in Procs, ps[p].loc \in Loops, found
  PROVE  p = Launcher
BY DEF IInv, RoleInv

LEMMA ForkFails ==
  ASSUME IInv, NEW p \in Procs, ps[p].loc = "fork", failures < MaxFailures,
         failures' = failures + 1, UNCHANGED <<version, n, found>>,
         ps' = [ps EXCEPT ![p] = Advance([ps[p] EXCEPT !.pid = Append(ps[p].pid, -1)])]
  PROVE  IInv'
<1>1. /\ ps \in [Procs -> Process] /\ ps[p] \in Process /\ Procs' = Procs /\ Launcher' = Launcher
      /\ Launcher \in Procs /\ failures \in Nat /\ failures' # 0 /\ failures' \in 0..MaxFailures
      /\ ps[p].pid \in Seq(Pids)
  BY LauncherExists, LauncherAssumption, FieldTypes DEF IInv, TypeInv, Procs, Launcher
<1>2. PICK x \in Pids : x = -1
  BY DEF Pids
<1>3. PICK t \in Process : t = Advance([ps[p] EXCEPT !.pid = Append(ps[p].pid, x)])
  BY Forked
<1>4. /\ Indexed(t) /\ t.loc \in {"arm", "fork", "USR1", "wait"}
      /\ t.pid = Append(ps[p].pid, x) /\ t.ppid = ps[p].ppid /\ t.timer = ps[p].timer
      /\ t.received = ps[p].received /\ t.pending = ps[p].pending /\ t.killed = ps[p].killed
      /\ (t.loc = "wait" => t.i = 0)
  BY <1>3, Forked
<1>5. ps' \in [Procs -> Process] /\ ps'[p] = t /\ \A q \in Procs \ {p} : ps'[q] = ps[q]
  BY <1>1, <1>2, <1>3, OneChanges
<1>6. TypeInv'
  BY <1>1, <1>5 DEF IInv, TypeInv, Process, Locs, Pids, Procs
<1>7. IndexInv'
  <2>1. Indexed(ps[p])' /\ \A q \in Procs \ {p} : Indexed(ps[q])'
    BY <1>4, <1>5 DEF IInv, IndexInv, Indexed
  <2>2. QED
    BY <1>1, <2>1 DEF IndexInv
<1>8. RoleInv'
  BY <1>1, <1>4, <1>5, WhoForks DEF IInv, RoleInv, L, Loops
<1>9. /\ p # Launcher => L' = L
      /\ p = Launcher => L' = t
  BY <1>1, <1>5 DEF L
<1>10. \A q \in Procs : /\ ps'[q].ppid = ps[q].ppid /\ ps'[q].received = ps[q].received
                        /\ ps'[q].pending = ps[q].pending /\ ps'[q].killed = ps[q].killed
                        /\ (ps'[q].loc = "unborn" <=> ps[q].loc = "unborn")
                        /\ (ps[q].loc = "reaped" => ps'[q].loc = "reaped")
                        /\ (ps'[q].loc \in {"exec", "command"} => ps[q].loc \in {"exec", "command"})
  BY <1>4, <1>5
<1>11. FamilyInv'
  <2>1. CASE p # Launcher
    <3>1. \A q \in Procs :
            /\ ps[q].loc # "unborn" => ps'[q].ppid = ps[q].ppid /\ ps'[q].loc # "unborn"
            /\ ps[q].loc = "unborn" => ps'[q].ppid # Launcher
            /\ ps'[q].loc = "unborn" => ps'[q].ppid = ps[q].ppid
      BY <1>10, UnbornAreNobodys
    <3>2. QED
      BY <1>1, <1>9, <2>1, <3>1, FamilyKept
  <2>2. CASE p = Launcher
    <3>1. /\ Len(L'.pid) = Len(L.pid) + 1 /\ Len(L.pid) \in Nat
          /\ \A k \in 1..Len(L.pid) : L'.pid[k] = L.pid[k]
          /\ L'.pid[Len(L.pid) + 1] = -1
      <4>1. L.pid \in Seq(Pids) /\ L'.pid = Append(L.pid, x)
        BY <1>1, <1>4, <1>9, <2>2 DEF L
      <4>2. QED
        BY <1>2, <4>1, AppendProperties, LenProperties
    <3>2. ASSUME NEW k \in 1..Len(L'.pid)
          PROVE  /\ L'.pid[k] # 0
                 /\ L'.pid[k] # -1 => /\ L'.pid[k] # Launcher
                                      /\ ps'[L'.pid[k]].ppid = Launcher
                                      /\ ps'[L'.pid[k]].loc # "unborn"
                                      /\ \A m \in 1..Len(L'.pid) : L'.pid[m] = L'.pid[k] => m = k
      <4>1. CASE k = Len(L.pid) + 1
        BY <3>1, <4>1
      <4>2. CASE k \in 1..Len(L.pid)
        <5>1. L.pid[k] # -1 => L.pid[k] \in Procs
          BY <4>2, ChildrenExist
        <5>2. \A m \in 1..Len(L'.pid) : m \in 1..Len(L.pid) \/ L'.pid[m] = -1
          BY <3>1
        <5>3. /\ L.pid[k] # 0
              /\ L.pid[k] # -1 => /\ L.pid[k] # Launcher
                                  /\ ps[L.pid[k]].ppid = Launcher /\ ps[L.pid[k]].loc # "unborn"
                                  /\ \A m \in 1..Len(L.pid) : L.pid[m] = L.pid[k] => m = k
          BY <4>2 DEF IInv, FamilyInv
        <5>4. L'.pid[k] = L.pid[k] /\ \A m \in 1..Len(L.pid) : L'.pid[m] = L.pid[m]
          BY <3>1, <4>2
        <5>5. ASSUME L.pid[k] # -1
              PROVE  ps'[L.pid[k]].ppid = Launcher /\ ps'[L.pid[k]].loc # "unborn"
          BY <1>10, <5>1, <5>3, <5>5
        <5>6. ASSUME L.pid[k] # -1, NEW m \in 1..Len(L'.pid), L'.pid[m] = L'.pid[k] PROVE m = k
          BY <5>2, <5>3, <5>4, <5>6
        <5>7. QED
          BY <5>3, <5>4, <5>5, <5>6
      <4>3. QED
        BY <3>1, <4>1, <4>2
    <3>3. ASSUME NEW q \in Procs, ps'[q].ppid = Launcher
          PROVE  \E k \in 1..Len(L'.pid) : L'.pid[k] = q
      BY <1>10, <3>1, <3>3 DEF IInv, FamilyInv
    <3>4. \A q \in Procs : ps'[q].loc = "unborn" => ps'[q].ppid = 0
      BY <1>10 DEF IInv, FamilyInv
    <3>5. failures' # 0 /\ Procs' = Procs /\ Launcher' = Launcher
      BY <1>1
    <3>6. QED
      BY <3>2, <3>3, <3>4, <3>5 DEF FamilyInv
  <2>3. QED
    BY <2>1, <2>2
<1>12. WaitInv'
  <2>1. CASE p # Launcher
    BY <1>1, <1>9, <1>10, <2>1, ChildrenExist DEF IInv, WaitInv
  <2>2. CASE p = Launcher
    BY <1>4, <1>9, <2>2 DEF WaitInv
  <2>3. QED
    BY <2>1, <2>2
<1>13. SignalInv'
  <2>1. found => (L'.loc = "fork" => L.loc = "fork")
    BY <1>1, WhoForks DEF Loops, L
  <2>2. QED
    BY <1>1, <1>10, <2>1 DEF IInv, SignalInv, Untouched
<1>14. CommandsSurvive'
  BY <1>1 DEF CommandsSurvive
<1>15. QED
  BY <1>6, <1>7, <1>8, <1>11, <1>12, <1>13, <1>14 DEF IInv

LEMMA ForkSucceeds ==
  ASSUME IInv, NEW p \in Procs, ps[p].loc = "fork", NEW x \in Procs, ps[x].loc = "unborn",
         UNCHANGED <<version, n, found, failures>>,
         ps' = [ps EXCEPT
               ![p] = Advance([ps[p] EXCEPT !.pid = Append(ps[p].pid, x)]),
               ![x] = [ps[p] EXCEPT !.loc = IF version = "thv2" THEN "test" ELSE "exec",
                                    !.ppid = p, !.pid = Append(ps[p].pid, 0),
                                    !.pending = {}, !.timer = "off"]]
  PROVE  IInv'
<1>1. /\ ps \in [Procs -> Process] /\ ps[p] \in Process /\ Procs' = Procs /\ Launcher' = Launcher
      /\ Launcher \in Procs /\ ps[p].pid \in Seq(Pids) /\ x \in Pids /\ x # p
      /\ x # 0 /\ x # -1
  BY LauncherExists, FieldTypes DEF IInv, TypeInv, Procs, Launcher, Pids
<1>2. PICK t \in Process : t = Advance([ps[p] EXCEPT !.pid = Append(ps[p].pid, x)])
  BY <1>1, Forked
<1>3. /\ Indexed(t) /\ t.loc \in {"arm", "fork", "USR1", "wait"}
      /\ t.pid = Append(ps[p].pid, x) /\ t.ppid = ps[p].ppid /\ t.timer = ps[p].timer
      /\ t.received = ps[p].received /\ t.pending = ps[p].pending /\ t.killed = ps[p].killed
      /\ (t.loc = "wait" => t.i = 0)
  BY <1>1, <1>2, Forked
<1>4. PICK c \in Process :
        c = [ps[p] EXCEPT !.loc = IF version = "thv2" THEN "test" ELSE "exec",
                          !.ppid = p, !.pid = Append(ps[p].pid, 0),
                          !.pending = {}, !.timer = "off"]
  BY Born
<1>5. /\ Indexed(c) /\ c.ppid = p /\ c.timer = "off" /\ c.pending = {}
      /\ c.loc = (IF version = "thv2" THEN "test" ELSE "exec")
      /\ c.received = ps[p].received /\ c.killed = ps[p].killed
  BY <1>4, Born
<1>6. ps' = [ps EXCEPT ![p] = t, ![x] = c]
  BY <1>2, <1>4
<1>7. /\ ps' \in [Procs -> Process] /\ ps'[p] = t /\ ps'[x] = c
      /\ \A q \in Procs \ {p, x} : ps'[q] = ps[q]
  BY <1>1, <1>6
<1>8. TypeInv'
  BY <1>1, <1>7 DEF IInv, TypeInv, Process, Locs, Pids, Procs
<1>9. IndexInv'
  <2>1. Indexed(ps[p])'
    BY <1>3, <1>7 DEF Indexed
  <2>2. Indexed(ps[x])'
    BY <1>5, <1>7 DEF Indexed
  <2>3. \A q \in Procs \ {p, x} : Indexed(ps[q])'
    BY <1>7 DEF IInv, IndexInv, Indexed
  <2>4. QED
    BY <1>1, <2>1, <2>2, <2>3 DEF IndexInv
<1>10. x # Launcher
  BY DEF IInv, RoleInv, L, Loops
<1>11. /\ p # Launcher => L' = L
       /\ p = Launcher => L' = t
  BY <1>1, <1>7, <1>10 DEF L
<1>12. RoleInv'
  <2>1. L'.loc \in Loops \cup {"arm", "zombie"} /\ L'.ppid = 0
    BY <1>3, <1>11 DEF IInv, RoleInv, L, Loops
  <2>2. ~found => \A q \in Procs : ps'[q].loc # "command"
    BY <1>3, <1>5, <1>7 DEF IInv, RoleInv
  <2>3. found => \A q \in Procs \ {Launcher} : ps'[q].loc \notin Loops \cup {"arm"} /\ ps'[q].timer = "off"
    <3>1. c.loc \notin Loops \cup {"arm"}
      BY <1>5 DEF Loops
    <3>2. found => p = Launcher
      BY WhoForks DEF Loops
    <3>3. QED
      BY <1>5, <1>7, <3>1, <3>2 DEF IInv, RoleInv
  <2>4. QED
    BY <1>1, <2>1, <2>2, <2>3 DEF RoleInv
<1>13. \A q \in Procs \ {x} :
         /\ ps'[q].ppid = ps[q].ppid /\ ps'[q].received = ps[q].received
         /\ ps'[q].pending = ps[q].pending /\ ps'[q].killed = ps[q].killed
         /\ (ps'[q].loc = "unborn" <=> ps[q].loc = "unborn")
         /\ (ps[q].loc = "reaped" => ps'[q].loc = "reaped")
         /\ (ps'[q].loc \in {"exec", "command"} => ps[q].loc \in {"exec", "command"})
  BY <1>3, <1>7
<1>14. \A k \in 1..Len(L.pid) :
         /\ L.pid[k] # 0 /\ (failures = 0 => L.pid[k] # -1)
         /\ L.pid[k] # -1 => /\ L.pid[k] \in Procs \ {x, Launcher}
                             /\ ps[L.pid[k]].ppid = Launcher /\ ps[L.pid[k]].loc # "unborn"
                             /\ \A m \in 1..Len(L.pid) : L.pid[m] = L.pid[k] => m = k
  BY ChildrenExist DEF IInv, FamilyInv
<1>15. FamilyInv'
  <2>1. CASE p # Launcher
    <3>1. ps[x].ppid = 0 /\ ps'[x].ppid # Launcher /\ ps'[x].loc # "unborn"
      BY <1>5, <1>7, <2>1 DEF IInv, FamilyInv
    <3>2. L'.pid = L.pid /\ failures' = failures
      BY <1>11, <2>1
    <3>3. ASSUME NEW q \in Procs
          PROVE  /\ ps[q].loc # "unborn" => ps'[q].ppid = ps[q].ppid /\ ps'[q].loc # "unborn"
                 /\ ps[q].loc = "unborn" => ps'[q].ppid # Launcher
                 /\ ps'[q].loc = "unborn" => ps'[q].ppid = ps[q].ppid
      <4>1. CASE q = x
        BY <3>1, <4>1
      <4>2. CASE q # x
        <5>1. ps'[q].ppid = ps[q].ppid /\ (ps'[q].loc = "unborn" <=> ps[q].loc = "unborn")
          BY <1>13, <4>2
        <5>2. QED
          BY <5>1, UnbornAreNobodys
      <4>3. QED
        BY <4>1, <4>2
    <3>4. QED
      BY <3>2, <3>3, FamilyKept
  <2>2. CASE p = Launcher
    <3>1. /\ Len(L'.pid) = Len(L.pid) + 1 /\ Len(L.pid) \in Nat
          /\ \A k \in 1..Len(L.pid) : L'.pid[k] = L.pid[k]
          /\ L'.pid[Len(L.pid) + 1] = x
      <4>1. L.pid \in Seq(Pids) /\ L'.pid = Append(L.pid, x)
        BY <1>1, <1>3, <1>11, <2>2 DEF L
      <4>2. QED
        BY <1>1, <4>1, AppendProperties, LenProperties
    <3>2. ps'[x].ppid = Launcher /\ ps'[x].loc # "unborn"
      BY <1>5, <1>7, <2>2
    <3>3. ASSUME NEW k \in 1..Len(L'.pid)
          PROVE  /\ L'.pid[k] # 0 /\ (failures = 0 => L'.pid[k] # -1)
                 /\ L'.pid[k] # -1 => /\ L'.pid[k] # Launcher
                                      /\ ps'[L'.pid[k]].ppid = Launcher
                                      /\ ps'[L'.pid[k]].loc # "unborn"
                                      /\ \A m \in 1..Len(L'.pid) : L'.pid[m] = L'.pid[k] => m = k
      <4>1. CASE k = Len(L.pid) + 1
        <5>1. \A m \in 1..Len(L'.pid) : m = k \/ (m \in 1..Len(L.pid) /\ L'.pid[m] = L.pid[m])
          BY <3>1, <4>1
        <5>2. \A m \in 1..Len(L.pid) : L.pid[m] # x
          BY <1>1, <1>14
        <5>3. QED
          BY <1>1, <1>10, <3>1, <3>2, <4>1, <5>1, <5>2
      <4>2. CASE k \in 1..Len(L.pid)
        <5>1. \A m \in 1..Len(L'.pid) : (m = Len(L.pid) + 1 /\ L'.pid[m] = x)
                                         \/ (m \in 1..Len(L.pid) /\ L'.pid[m] = L.pid[m])
          BY <3>1
        <5>2. L'.pid[k] = L.pid[k]
          BY <3>1, <4>2
        <5>3. /\ L.pid[k] # 0 /\ (failures = 0 => L.pid[k] # -1)
              /\ L.pid[k] # -1 => /\ L.pid[k] \in Procs \ {x, Launcher}
                                  /\ ps[L.pid[k]].ppid = Launcher /\ ps[L.pid[k]].loc # "unborn"
                                  /\ \A m \in 1..Len(L.pid) : L.pid[m] = L.pid[k] => m = k
          BY <1>14, <4>2
        <5>4. L.pid[k] # -1 => ps'[L.pid[k]].ppid = Launcher /\ ps'[L.pid[k]].loc # "unborn"
          BY <1>13, <5>3
        <5>5. L.pid[k] # -1 => \A m \in 1..Len(L'.pid) : L'.pid[m] = L.pid[k] => m = k
          BY <5>1, <5>3
        <5>6. QED
          BY <5>2, <5>3, <5>4, <5>5
      <4>3. QED
        BY <3>1, <4>1, <4>2
    <3>4. ASSUME NEW q \in Procs
          PROVE  /\ ps'[q].ppid = Launcher => \E k \in 1..Len(L'.pid) : L'.pid[k] = q
                 /\ ps'[q].loc = "unborn" => ps'[q].ppid = 0
      <4>1. CASE q = x
        BY <3>1, <3>2, <4>1
      <4>2. CASE q # x
        <5>1. /\ ps[q].ppid = Launcher => \E k \in 1..Len(L.pid) : L.pid[k] = q
              /\ ps[q].loc = "unborn" => ps[q].ppid = 0
          BY DEF IInv, FamilyInv
        <5>2. \A k \in 1..Len(L.pid) : k \in 1..Len(L'.pid) /\ L'.pid[k] = L.pid[k]
          BY <3>1
        <5>3. ps'[q].ppid = ps[q].ppid /\ (ps'[q].loc = "unborn" <=> ps[q].loc = "unborn")
          BY <1>13, <4>2
        <5>4. ps'[q].ppid = Launcher => \E k \in 1..Len(L'.pid) : L'.pid[k] = q
          <6>1. SUFFICES ASSUME ps[q].ppid = Launcher
                         PROVE  \E k \in 1..Len(L'.pid) : L'.pid[k] = q
            BY <5>3
          <6>2. PICK k \in 1..Len(L.pid) : L.pid[k] = q
            BY <5>1, <6>1
          <6>3. QED
            BY <5>2, <6>2
        <5>5. QED
          BY <5>1, <5>3, <5>4
      <4>3. QED
        BY <4>1, <4>2
    <3>5. QED
      BY <1>1, <3>3, <3>4 DEF FamilyInv
  <2>3. QED
    BY <2>1, <2>2
<1>16. WaitInv'
  <2>1. CASE p # Launcher
    <3>1. \A k \in 1..Len(L.pid) : /\ L.pid[k] # -1 /\ ps[L.pid[k]].loc = "reaped"
                                   => ps'[L.pid[k]].loc = "reaped"
      BY <1>13, <1>14
    <3>2. QED
      BY <1>1, <1>11, <2>1, <3>1, ChildrenExist DEF IInv, WaitInv
  <2>2. CASE p = Launcher
    BY <1>3, <1>11, <2>2 DEF WaitInv
  <2>3. QED
    BY <2>1, <2>2
<1>17. SignalInv'
  <2>1. found => L.loc = "fork" /\ p = Launcher
    BY WhoForks DEF Loops, L
  <2>2. version = "thv2" /\ found => \A q \in Procs : Untouched(q)
    BY <2>1 DEF IInv, SignalInv
  <2>3. version = "thv2" /\ found => \A q \in Procs : Untouched(q)'
    BY <1>5, <1>7, <1>13, <2>2 DEF Untouched
  <2>4. version # "thv2" => \A q \in Procs : "USR1" \notin ps'[q].pending
    BY <1>5, <1>7, <1>13 DEF IInv, SignalInv
  <2>5. version = "thv2" => \A q \in Procs : ps'[q].loc \in {"exec", "command"} => ps'[q].received
    BY <1>5, <1>7, <1>13 DEF IInv, SignalInv
  <2>6. ASSUME version = "thv2", found, failures = 0, L'.loc = "USR1", NEW k \in (L'.i + 1)..n
        PROVE  Untouched(L.pid[k])'
    <3>1. L' = t /\ t.i \in Nat /\ n \in Nat /\ Len(t.pid) = n
      BY <1>3, <1>11, <2>1, <2>6, FieldTypes DEF IInv, TypeInv, Indexed, Loops
    <3>2. k \in 1..Len(L'.pid)
      BY <2>6, <3>1
    <3>3. L'.pid[k] \in Procs
      <4>1. L'.pid[k] # 0 /\ L'.pid[k] # -1
        BY <1>1, <1>15, <2>6, <3>2 DEF FamilyInv
      <4>2. L'.pid \in Seq(Pids)
        BY <3>1, FieldTypes
      <4>3. QED
        BY <3>2, <4>1, <4>2 DEF Pids
    <3>4. QED
      BY <2>3, <2>6, <3>3 DEF Untouched
  <2>7. version = "thv2" /\ found => \A q \in Procs : ps'[q].received => "USR1" \notin ps'[q].pending
    BY <2>3 DEF Untouched
  <2>8. QED
    BY <1>1, <2>3, <2>4, <2>5, <2>6, <2>7 DEF SignalInv
<1>18. CommandsSurvive'
  BY <1>1, <1>5, <1>7, <1>13 DEF IInv, CommandsSurvive
<1>19. QED
  BY <1>8, <1>9, <1>12, <1>15, <1>16, <1>17, <1>18 DEF IInv

LEMMA ForkKeeps == ASSUME IInv, NEW p \in Procs, Fork(p) PROVE IInv'
BY ForkFails, ForkSucceeds DEF Fork, At
-----------------------------------------------------------------------------
(* Where a round of a loop that does not fork ends. *)
LEMMA LaterPlace ==
  ASSUME IInv, NEW r \in Process, r.loc \in {"USR1", "STOP", "CONT", "wait"}, Indexed(r)
  PROVE  /\ Advance(r).loc = "USR1" => r.loc = "USR1" /\ Advance(r).i = r.i + 1
         /\ Advance(r).loc = "wait" => \/ Advance(r).i = 0
                                       \/ r.loc = "wait" /\ Advance(r).i = r.i + 1
         /\ Advance(r).loc = "zombie" => r.loc = "wait" /\ r.i + 1 = n
<1>1. /\ r.i \in Nat /\ n \in Nat /\ r.i < n
      /\ r.i + 1 < n => Advance(r).i = r.i + 1 /\ Advance(r).loc = r.loc
      /\ ~(r.i + 1 < n) => Advance(r).i = 0 /\ Advance(r).loc = After[r.loc]
  BY AdvanceIs, FieldTypes DEF IInv, TypeInv, Loops, Indexed
<1>2. CASE r.i + 1 < n
  BY <1>1, <1>2
<1>3. CASE ~(r.i + 1 < n)
  <2>1. After[r.loc] # "USR1" /\ (After[r.loc] = "zombie" => r.loc = "wait")
    BY AfterIs
  <2>2. QED
    BY <1>1, <1>3, <2>1
<1>4. QED
  BY <1>2, <1>3

(* What a signal changes in a process that takes it and in one it is sent. *)
LEMMA TakeIs ==
  ASSUME NEW r \in Process, NEW s \in Signals, r.loc # "command"
  PROVE  LET t == Take(r, s)
         IN  /\ t \in Process /\ t.loc = r.loc /\ t.i = r.i /\ t.pid = r.pid /\ t.ppid = r.ppid
             /\ t.timer = r.timer /\ t.pending = r.pending /\ t.killed = r.killed
             /\ (s # "USR1" => t.received = r.received) /\ (r.received => t.received)
<1>1. PICK yes \in BOOLEAN : yes = TRUE
  OBVIOUS
<1>2. CASE s = "USR1"
  <2>1. Take(r, s) = [r EXCEPT !.received = yes]
    BY <1>1, <1>2 DEF Take
  <2>2. QED
    BY <1>1, <1>2, <2>1 DEF Process
<1>3. CASE s = "STOP"
  <2>1. Take(r, s) = [r EXCEPT !.stopped = yes]
    BY <1>1, <1>3 DEF Take
  <2>2. QED
    BY <2>1 DEF Process
<1>4. CASE s = "CONT"
  BY <1>4 DEF Take
<1>5. QED
  BY <1>2, <1>3, <1>4 DEF Signals

LEMMA SendIs ==
  ASSUME NEW r \in Process, NEW s \in Signals
  PROVE  LET t == Send(r, s)
         IN  /\ t \in Process /\ t.loc = r.loc /\ t.i = r.i /\ t.pid = r.pid /\ t.ppid = r.ppid
             /\ t.timer = r.timer /\ t.received = r.received /\ t.killed = r.killed
             /\ "USR1" \in t.pending <=> "USR1" \in r.pending \/ s = "USR1"
<1>0. r.pending \in SUBSET {"USR1", "STOP"}
  BY FieldTypes
<1>1. CASE s = "CONT"
  <2>1. PICK new \in SUBSET {"USR1", "STOP"}, no \in BOOLEAN :
          new = r.pending \ {"STOP"} /\ no = FALSE
    BY <1>0
  <2>2. Send(r, s) = [r EXCEPT !.pending = new, !.stopped = no]
    BY <1>1, <2>1 DEF Send
  <2>3. [r EXCEPT !.pending = new, !.stopped = no] \in Process
    BY DEF Process
  <2>4. /\ Send(r, s).loc = r.loc /\ Send(r, s).i = r.i /\ Send(r, s).pid = r.pid
        /\ Send(r, s).ppid = r.ppid /\ Send(r, s).timer = r.timer
        /\ Send(r, s).received = r.received /\ Send(r, s).killed = r.killed
        /\ Send(r, s).pending = new
    BY <2>2 DEF Process
  <2>5. QED
    BY <1>1, <2>1, <2>2, <2>3, <2>4
<1>2. CASE s \in {"USR1", "STOP"}
  <2>1. PICK new \in SUBSET {"USR1", "STOP"} : new = r.pending \cup {s}
    BY <1>0, <1>2
  <2>2. Send(r, s) = [r EXCEPT !.pending = new]
    BY <1>2, <2>1 DEF Send
  <2>3. [r EXCEPT !.pending = new] \in Process
    BY DEF Process
  <2>4. /\ Send(r, s).loc = r.loc /\ Send(r, s).i = r.i /\ Send(r, s).pid = r.pid
        /\ Send(r, s).ppid = r.ppid /\ Send(r, s).timer = r.timer
        /\ Send(r, s).received = r.received /\ Send(r, s).killed = r.killed
        /\ Send(r, s).pending = new
    BY <2>2 DEF Process
  <2>5. QED
    BY <1>2, <2>1, <2>2, <2>3, <2>4
<1>3. QED
  BY <1>1, <1>2 DEF Signals

(* One round of a loop that signals. Without a failure the launcher's      *)
(* SIGUSR1 goes to the one child whose turn it is.                         *)
LEMMA KillKeeps == ASSUME IInv, NEW p \in Procs, NEW s \in Signals, Kill(p, s) PROVE IInv'
<1> DEFINE T == Targets(p, Pid(p))
           me == IF p \in T THEN Take(ps[p], s) ELSE ps[p]
<1>1. /\ ps \in [Procs -> Process] /\ ps[p] \in Process /\ Procs' = Procs /\ Launcher' = Launcher
      /\ Launcher \in Procs /\ UNCHANGED <<version, n, found, failures>>
      /\ ps[p].loc = s /\ s \in {"USR1", "STOP", "CONT"} /\ Indexed(ps[p])
  BY LauncherExists DEF IInv, TypeInv, IndexInv, Procs, Launcher, Kill, At, Signals
<1>2. /\ me \in Process /\ me.loc = s /\ me.i = ps[p].i /\ me.pid = ps[p].pid
      /\ me.ppid = ps[p].ppid /\ me.timer = ps[p].timer /\ me.pending = ps[p].pending
      /\ me.killed = ps[p].killed
      /\ (s # "USR1" => me.received = ps[p].received) /\ (ps[p].received => me.received)
  BY <1>1, TakeIs
<1>3. PICK t \in Process : t = Advance(me)
  BY <1>1, <1>2, AdvanceIs DEF IInv, TypeInv, Loops
<1>4. /\ Indexed(t) /\ t.loc \in {"USR1", "STOP", "CONT", "wait"} /\ Same(t, me)
      /\ (t.loc = "USR1" => s = "USR1" /\ t.i = ps[p].i + 1)
      /\ (t.loc = "wait" => t.i = 0)
  <2>1. Indexed(me)
    BY <1>1, <1>2 DEF Indexed
  <2>2. Same(t, me)
    BY <1>1, <1>2, <1>3, AdvanceIs DEF IInv, TypeInv, Loops
  <2>3. QED
    BY <1>1, <1>2, <1>3, <2>1, <2>2, LaterRound, LaterPlace
<1>5. ps' = [q \in Procs |-> CASE q = p -> Advance(me)
                               [] q # p /\ q \in T /\ Alive(q) -> Send(ps[q], s)
                               [] OTHER -> ps[q]]
  BY DEF Kill
<1>6. ps'[p] = t
  BY <1>3, <1>5
<1>7. ASSUME NEW q \in Procs, q # p
      PROVE  ps'[q] = ps[q] \/ (q \in T /\ ps'[q] = Send(ps[q], s))
  BY <1>5, <1>7
<1>8. ASSUME NEW q \in Procs, q # p
      PROVE  /\ ps'[q] \in Process /\ ps'[q].loc = ps[q].loc /\ ps'[q].i = ps[q].i
             /\ ps'[q].pid = ps[q].pid /\ ps'[q].ppid = ps[q].ppid /\ ps'[q].timer = ps[q].timer
             /\ ps'[q].received = ps[q].received /\ ps'[q].killed = ps[q].killed
             /\ "USR1" \in ps'[q].pending <=>
                  "USR1" \in ps[q].pending \/ (s = "USR1" /\ ps'[q] = Send(ps[q], s))
  <2>1. ps[q] \in Process
    BY <1>1
  <2>2. QED
    BY <1>7, <1>8, <2>1, SendIs
<1>9. /\ t.pid = ps[p].pid /\ t.ppid = ps[p].ppid /\ t.timer = ps[p].timer
      /\ t.pending = ps[p].pending /\ t.killed = ps[p].killed
      /\ (s # "USR1" => t.received = ps[p].received) /\ (ps[p].received => t.received)
  BY <1>2, <1>4 DEF Same
<1>10. TypeInv'
  <2>1. ps' \in [Procs -> Process]
    BY <1>1, <1>5, <1>6, <1>8
  <2>2. QED
    BY <1>1, <2>1 DEF IInv, TypeInv, Process, Locs, Pids, Procs
<1>11. IndexInv'
  <2>1. Indexed(ps[p])'
    BY <1>1, <1>4, <1>6 DEF Indexed
  <2>2. ASSUME NEW q \in Procs, q # p PROVE Indexed(ps[q])'
    <3>1. Indexed(ps[q])
      BY DEF IInv, IndexInv
    <3>2. ps'[q].loc = ps[q].loc /\ ps'[q].i = ps[q].i /\ ps'[q].pid = ps[q].pid
      BY <1>8, <2>2
    <3>3. QED
      BY <1>1, <3>1, <3>2 DEF Indexed
  <2>3. QED
    BY <1>1, <2>1, <2>2 DEF IndexInv
<1>12. found => p = Launcher
  BY <1>1, WhoForks DEF Loops
<1>13. /\ p = Launcher => L' = t
       /\ L'.pid = L.pid
       /\ p # Launcher => L'.loc = L.loc /\ L'.i = L.i /\ L'.timer = L.timer /\ L'.ppid = L.ppid
       /\ p = Launcher => L.loc = s /\ L.i = ps[p].i /\ L.ppid = ps[p].ppid /\ L.timer = ps[p].timer
  BY <1>1, <1>6, <1>8, <1>9 DEF L
<1>14. RoleInv'
  <2>1. L'.loc \in Loops \cup {"arm", "zombie"} /\ L'.ppid = 0
    BY <1>4, <1>9, <1>13 DEF IInv, RoleInv, Loops
  <2>2. \A q \in Procs : ps'[q].loc = "command" => ps[q].loc = "command"
    BY <1>4, <1>6, <1>8
  <2>3. found => \A q \in Procs \ {Launcher} : ps'[q].loc = ps[q].loc /\ ps'[q].timer = ps[q].timer
    BY <1>8, <1>12
  <2>4. QED
    BY <1>1, <2>1, <2>2, <2>3 DEF IInv, RoleInv
<1>15. \A q \in Procs : /\ ps'[q].ppid = ps[q].ppid
                        /\ (ps'[q].loc = "unborn" <=> ps[q].loc = "unborn")
                        /\ (ps[q].loc = "reaped" => ps'[q].loc = "reaped")
                        /\ (ps'[q].killed => ps[q].killed)
                        /\ (ps'[q].loc \in {"exec", "command"} => ps[q].loc \in {"exec", "command"})
                        /\ (ps[q].received => ps'[q].received)
  <2>1. ASSUME NEW q \in Procs, q # p
        PROVE  /\ ps'[q].ppid = ps[q].ppid /\ ps'[q].loc = ps[q].loc
               /\ ps'[q].killed = ps[q].killed /\ ps'[q].received = ps[q].received
    BY <1>8, <2>1
  <2>2. QED
    BY <1>1, <1>4, <1>6, <1>9, <2>1
<1>16. FamilyInv'
  <2>1. \A q \in Procs :
          /\ ps[q].loc # "unborn" => ps'[q].ppid = ps[q].ppid /\ ps'[q].loc # "unborn"
          /\ ps[q].loc = "unborn" => ps'[q].ppid # Launcher
          /\ ps'[q].loc = "unborn" => ps'[q].ppid = ps[q].ppid
    BY <1>15, UnbornAreNobodys
  <2>2. QED
    BY <1>1, <1>13, <2>1, FamilyKept
<1>17. WaitInv'
  <2>1. CASE p # Launcher
    <3>1. \A k \in 1..Len(L.pid) : L.pid[k] # -1 /\ ps[L.pid[k]].loc = "reaped"
                                   => ps'[L.pid[k]].loc = "reaped"
      BY <1>15, ChildrenExist
    <3>2. L'.pid = L.pid /\ L'.loc = L.loc /\ L'.i = L.i /\ L'.timer = L.timer /\ n' = n
      BY <1>1, <1>13, <2>1
    <3>3. L.loc = "wait" => \A k \in 1..L.i : k \in 1..Len(L.pid)
      BY ChildrenExist
    <3>4. L'.loc = "wait" => \A k \in 1..L.i : L.pid[k] # -1 => ps'[L.pid[k]].loc = "reaped"
      BY <3>1, <3>2, <3>3 DEF IInv, WaitInv
    <3>5. L.loc = "zombie" /\ L.timer # "fired" =>
            Len(L.pid) = n /\ \A k \in 1..n : L.pid[k] # -1 => ps'[L.pid[k]].loc = "reaped"
      BY <3>1 DEF IInv, WaitInv
    <3>6. QED
      BY <3>2, <3>4, <3>5 DEF WaitInv
  <2>2. CASE p = Launcher
    BY <1>4, <1>13, <2>2 DEF WaitInv
  <2>3. QED
    BY <2>1, <2>2
<1>18. SignalInv'
  <2>1. version = "thv2"
    BY <1>1 DEF Indexed
  <2>2. \A q \in Procs : ps'[q].loc \in {"exec", "command"} => ps'[q].received
    BY <1>15, <2>1 DEF IInv, SignalInv
  <2>3. found => L'.loc # "fork"
    BY <1>4, <1>12, <1>13
  <2>4. SUFFICES ASSUME found, failures = 0
                 PROVE  /\ L'.loc = "USR1" => \A k \in (L'.i + 1)..n : Untouched(L.pid[k])'
                        /\ \A q \in Procs : ps'[q].received => "USR1" \notin ps'[q].pending
    BY <1>1, <2>1, <2>2, <2>3 DEF SignalInv, Procs
  <2>5. p = Launcher /\ L.loc = s /\ L.i = ps[p].i /\ L'.loc = t.loc /\ L'.i = t.i /\ L = ps[p]
    BY <1>12, <1>13, <2>4 DEF L
  <2>6. L.i \in Nat /\ n \in Nat /\ L.i < n
    BY <1>1, <2>1, <2>5, FieldTypes DEF IInv, TypeInv, Indexed, Loops
  <2>7. \A q \in Procs : ps[q].received => "USR1" \notin ps[q].pending
    BY <2>1, <2>4 DEF IInv, SignalInv
  <2>8. CASE s # "USR1"
    <3>1. L'.loc # "USR1"
      BY <1>4, <2>5, <2>8
    <3>2. \A q \in Procs : ps'[q].received = ps[q].received
                           /\ ("USR1" \in ps'[q].pending => "USR1" \in ps[q].pending)
      <4>1. ASSUME NEW q \in Procs, q # p
            PROVE  ps'[q].received = ps[q].received
                   /\ ("USR1" \in ps'[q].pending => "USR1" \in ps[q].pending)
        BY <1>8, <2>8, <4>1
      <4>2. QED
        BY <1>6, <1>9, <2>8, <4>1
    <3>3. QED
      BY <2>7, <3>1, <3>2
  <2>9. CASE s = "USR1"
    <3>1. PICK k0 \in 1..n : k0 = L.i + 1
      BY <2>6
    <3>2. k0 \in (L.i + 1)..n
      BY <2>6, <3>1
    <3>3. /\ k0 \in 1..Len(L.pid) /\ L.pid[k0] \in Procs /\ L.pid[k0] \notin {0, -1, Launcher}
      BY <2>4, <2>5, <2>9, <3>2, Addressee
    <3>4. Pid(p) = L.pid[k0]
      BY <2>5, <3>1 DEF Pid
    <3>5. T = {L.pid[k0]}
      BY <3>3, <3>4, LauncherExists DEF Targets
    <3>6. \A k \in (L.i + 1)..n : Untouched(L.pid[k])
      BY <2>1, <2>4, <2>5, <2>9 DEF IInv, SignalInv
    <3>7. \A q \in Procs \ {p, L.pid[k0]} : ps'[q] = ps[q]
      BY <1>7, <3>5
    <3>8. ps'[p].pending = ps[p].pending /\ p # L.pid[k0] /\ ps'[p].received = ps[p].received
      <4>1. p # L.pid[k0] /\ p \notin T
        BY <2>5, <3>3, <3>5
      <4>2. me = ps[p]
        BY <4>1
      <4>3. QED
        BY <1>4, <1>6, <4>1, <4>2 DEF Same
    <3>9. ~ps'[L.pid[k0]].received
      <4>1. Untouched(L.pid[k0])
        BY <3>2, <3>6
      <4>2. QED
        BY <1>8, <3>3, <3>8, <4>1 DEF Untouched
    <3>10. \A q \in Procs : ps'[q].received => "USR1" \notin ps'[q].pending
      BY <1>6, <2>7, <3>3, <3>7, <3>8, <3>9
    <3>11. ASSUME L'.loc = "USR1", NEW k \in (L'.i + 1)..n
           PROVE  Untouched(L.pid[k])'
      <4>1. L'.i = L.i + 1
        BY <1>4, <2>5, <3>11
      <4>2. k \in (L.i + 1)..n /\ k # k0
        BY <2>6, <3>1, <3>11, <4>1
      <4>3. k \in 1..Len(L.pid) /\ L.pid[k] \in Procs /\ L.pid[k] # -1 /\ L.pid[k] # Launcher
        BY <2>4, <2>5, <2>9, <4>2, Addressee
      <4>4. L.pid[k] # L.pid[k0]
        BY <3>3, <4>2, <4>3 DEF IInv, FamilyInv
      <4>5. ps'[L.pid[k]] = ps[L.pid[k]]
        BY <2>5, <3>7, <4>3, <4>4
      <4>6. Untouched(L.pid[k])
        BY <3>6, <4>2
      <4>7. QED
        BY <1>13, <4>5, <4>6 DEF Untouched
    <3>12. QED
      BY <3>10, <3>11
  <2>10. QED
    BY <2>8, <2>9
<1>19. CommandsSurvive'
  BY <1>1, <1>15 DEF IInv, CommandsSurvive
<1>20. QED
  BY <1>10, <1>11, <1>14, <1>16, <1>17, <1>18, <1>19 DEF IInv

(* One round of the loop that waits: the child at its index has ended      *)
(* before or is reaped now. A failed fork's entry may reap another child.  *)
LEMMA WaitKeeps == ASSUME IInv, NEW p \in Procs, Wait(p) PROVE IInv'
<1>1. /\ ps \in [Procs -> Process] /\ ps[p] \in Process /\ Procs' = Procs /\ Launcher' = Launcher
      /\ Launcher \in Procs /\ UNCHANGED <<version, n, found, failures>>
      /\ ps[p].loc = "wait" /\ Indexed(ps[p]) /\ p # 0
  BY LauncherExists DEF IInv, TypeInv, IndexInv, Procs, Launcher, Wait, At
<1>2. PICK t \in Process : t = Advance(ps[p])
  BY <1>1, AdvanceIs DEF IInv, TypeInv, Loops
<1>3. /\ Indexed(t) /\ t.loc \in {"USR1", "STOP", "CONT", "wait", "zombie"} /\ t.pid = ps[p].pid
      /\ t.ppid = ps[p].ppid /\ t.timer = ps[p].timer /\ t.pending = ps[p].pending
      /\ t.killed = ps[p].killed /\ t.received = ps[p].received
      /\ t.loc # "USR1"
      /\ (t.loc = "wait" => t.i = 0 \/ t.i = ps[p].i + 1)
      /\ (t.loc = "zombie" => ps[p].i + 1 = n)
  <2>1. Same(t, ps[p])
    BY <1>1, <1>2, AdvanceIs DEF IInv, TypeInv, Loops
  <2>2. QED
    BY <1>1, <1>2, <2>1, LaterRound, LaterPlace DEF Same
<1>4. PICK R \in SUBSET Awaited(p) :
        /\ R = {} => Awaited(p) = {}
        /\ \A q \in R : q \in Procs /\ q # p /\ ps[q].loc = "zombie" /\ ps[q].ppid = p
        /\ \A q, r \in R : q = r
        /\ ps' \in [Procs -> Process] /\ ps'[p] = t
        /\ \A q \in R : ps'[q] = [ps[q] EXCEPT !.loc = "reaped"]
        /\ \A q \in Procs \ (R \cup {p}) : ps'[q] = ps[q]
  <2>1. CASE Awaited(p) = {} /\ ps' = [ps EXCEPT ![p] = Advance(@)]
    <3>1. ps' = [ps EXCEPT ![p] = t]
      BY <1>2, <2>1
    <3>2. ps' \in [Procs -> Process] /\ ps'[p] = t /\ \A q \in Procs \ {p} : ps'[q] = ps[q]
      BY <1>1, <3>1, OneChanges
    <3>3. QED
      BY <2>1, <3>2
  <2>2. ASSUME NEW q \in Awaited(p), ps[q].loc = "zombie",
               ps' = [ps EXCEPT ![p] = Advance(@), ![q].loc = "reaped"]
        PROVE  \E R \in SUBSET Awaited(p) :
                 /\ R = {} => Awaited(p) = {}
                 /\ \A x \in R : x \in Procs /\ x # p /\ ps[x].loc = "zombie" /\ ps[x].ppid = p
                 /\ \A x, r \in R : x = r
                 /\ ps' \in [Procs -> Process] /\ ps'[p] = t
                 /\ \A x \in R : ps'[x] = [ps[x] EXCEPT !.loc = "reaped"]
                 /\ \A x \in Procs \ (R \cup {p}) : ps'[x] = ps[x]
    <3>1. q \in Procs /\ ps[q].ppid = p /\ q # p /\ ps[q] \in Process
      BY <1>1, <2>2 DEF Awaited, Children
    <3>2. PICK y \in Locs : y = "reaped"
      BY DEF Locs
    <3>3. PICK c \in Process : c = [ps[q] EXCEPT !.loc = y]
      BY <3>1 DEF Process
    <3>4. ps' = [ps EXCEPT ![p] = t, ![q] = c]
      BY <1>1, <1>2, <2>2, <3>1, <3>2, <3>3
    <3>5. /\ ps' \in [Procs -> Process] /\ ps'[p] = t /\ ps'[q] = c
          /\ \A x \in Procs \ {p, q} : ps'[x] = ps[x]
      BY <1>1, <3>1, <3>4
    <3>6. WITNESS {q} \in SUBSET Awaited(p)
    <3>7. QED
      BY <2>2, <3>1, <3>2, <3>3, <3>5
  <2>3. QED
    BY <2>1, <2>2 DEF Wait
<1>5. ASSUME NEW q \in R
      PROVE  /\ ps'[q].loc = "reaped" /\ ps'[q].i = ps[q].i /\ ps'[q].pid = ps[q].pid
             /\ ps'[q].ppid = ps[q].ppid /\ ps'[q].timer = ps[q].timer
             /\ ps'[q].received = ps[q].received /\ ps'[q].pending = ps[q].pending
             /\ ps'[q].killed = ps[q].killed
  <2>1. ps[q] \in Process /\ ps'[q] = [ps[q] EXCEPT !.loc = "reaped"]
    BY <1>1, <1>4
  <2>2. QED
    BY <2>1 DEF Process
<1>6. TypeInv'
  BY <1>1, <1>4 DEF IInv, TypeInv, Process, Locs, Pids, Procs
<1>7. IndexInv'
  <2>1. Indexed(ps[p])'
    BY <1>1, <1>3, <1>4 DEF Indexed
  <2>2. ASSUME NEW q \in Procs, q # p PROVE Indexed(ps[q])'
    <3>1. Indexed(ps[q])
      BY DEF IInv, IndexInv
    <3>2. CASE q \in R
      BY <1>1, <1>5, <3>1, <3>2 DEF Indexed, Loops
    <3>3. CASE q \notin R
      BY <1>1, <1>4, <2>2, <3>1, <3>3 DEF Indexed
    <3>4. QED
      BY <3>2, <3>3
  <2>3. QED
    BY <1>1, <2>1, <2>2 DEF IndexInv
<1>8. Launcher \notin R
  BY <1>1, <1>4 DEF IInv, RoleInv, L
<1>9. /\ p = Launcher => L' = t /\ L = ps[p]
      /\ p # Launcher => L' = L
      /\ L'.pid = L.pid /\ L'.timer = L.timer
  BY <1>1, <1>3, <1>4, <1>8 DEF L
<1>10. found => p = Launcher
  BY <1>1, WhoForks DEF Loops
<1>11. \A q \in Procs : /\ ps'[q].ppid = ps[q].ppid /\ ps'[q].timer = ps[q].timer
                        /\ ps'[q].received = ps[q].received /\ ps'[q].pending = ps[q].pending
                        /\ ps'[q].killed = ps[q].killed
                        /\ (ps'[q].loc = "unborn" <=> ps[q].loc = "unborn")
                        /\ (ps[q].loc = "reaped" => ps'[q].loc = "reaped")
                        /\ (ps'[q].loc \in {"exec", "command"} => ps[q].loc \in {"exec", "command"})
                        /\ (ps'[q].loc = "command" => ps[q].loc = "command")
                        /\ q # p => ps'[q].loc \in {ps[q].loc, "reaped"}
  <2>1. SUFFICES ASSUME NEW q \in Procs, q # p
                 PROVE  /\ ps'[q].ppid = ps[q].ppid /\ ps'[q].timer = ps[q].timer
                        /\ ps'[q].received = ps[q].received /\ ps'[q].pending = ps[q].pending
                        /\ ps'[q].killed = ps[q].killed
                        /\ (ps'[q].loc = "unborn" <=> ps[q].loc = "unborn")
                        /\ ps'[q].loc \in {ps[q].loc, "reaped"}
    BY <1>1, <1>3, <1>4
  <2>2. CASE q \in R
    BY <1>4, <1>5, <2>2
  <2>3. CASE q \notin R
    BY <1>4, <2>1, <2>3
  <2>4. QED
    BY <2>2, <2>3
<1>12. RoleInv'
  <2>1. L'.loc \in Loops \cup {"arm", "zombie"} /\ L'.ppid = 0
    BY <1>3, <1>9 DEF IInv, RoleInv, Loops
  <2>2. found => \A q \in Procs \ {Launcher} : ps'[q].loc \notin Loops \cup {"arm"} /\ ps'[q].timer = "off"
    BY <1>10, <1>11 DEF IInv, RoleInv, Loops
  <2>3. QED
    BY <1>1, <1>11, <2>1, <2>2 DEF IInv, RoleInv
<1>13. FamilyInv'
  <2>1. \A q \in Procs :
          /\ ps[q].loc # "unborn" => ps'[q].ppid = ps[q].ppid /\ ps'[q].loc # "unborn"
          /\ ps[q].loc = "unborn" => ps'[q].ppid # Launcher
          /\ ps'[q].loc = "unborn" => ps'[q].ppid = ps[q].ppid
    BY <1>11, UnbornAreNobodys
  <2>2. QED
    BY <1>1, <1>9, <2>1, FamilyKept
<1>14. WaitInv'
  <2>1. \A k \in 1..Len(L.pid) : L.pid[k] # -1 /\ ps[L.pid[k]].loc = "reaped"
                                 => ps'[L.pid[k]].loc = "reaped"
    BY <1>11, ChildrenExist
  <2>2. CASE p # Launcher
    <3>1. L.loc = "wait" => \A k \in 1..L.i : k \in 1..Len(L.pid)
      BY ChildrenExist
    <3>2. L.loc = "wait" => \A k \in 1..L.i : L.pid[k] # -1 => ps'[L.pid[k]].loc = "reaped"
      BY <2>1, <3>1 DEF IInv, WaitInv
    <3>3. L.loc = "zombie" /\ L.timer # "fired" =>
            Len(L.pid) = n /\ \A k \in 1..n : L.pid[k] # -1 => ps'[L.pid[k]].loc = "reaped"
      BY <2>1 DEF IInv, WaitInv
    <3>4. L' = L /\ n' = n
      BY <1>1, <1>9, <2>2
    <3>5. QED
      BY <3>2, <3>3, <3>4 DEF WaitInv
  <2>3. CASE p = Launcher
    <3>1. /\ L = ps[p] /\ L.loc = "wait" /\ L.i \in Nat /\ n \in Nat /\ L.i < n /\ Len(L.pid) = n
      BY <1>1, <1>9, <2>3, FieldTypes DEF IInv, TypeInv, Indexed, Loops
    <3>2. PICK k0 \in 1..n : k0 = L.i + 1
      BY <3>1
    <3>3. L.pid[k0] # -1 => ps'[L.pid[k0]].loc = "reaped"
      <4>1. SUFFICES ASSUME L.pid[k0] # -1
                     PROVE  ps'[L.pid[k0]].loc = "reaped"
        OBVIOUS
      <4>2. L.pid[k0] \in Procs /\ L.pid[k0] # 0 /\ ps[L.pid[k0]].ppid = Launcher
        BY <3>1, <3>2, <4>1, ChildrenExist DEF IInv, FamilyInv
      <4>3. Pid(p) = L.pid[k0]
        BY <3>1, <3>2 DEF Pid
      <4>4. L.pid[k0] > 0
        <5>1. PICK c \in Procs : c = L.pid[k0]
          BY <4>2
        <5>2. c \in 1..MaxProcs
          BY DEF Procs
        <5>3. QED
          BY <5>1, <5>2, LauncherAssumption
      <4>5. Awaited(p) = Children(p) \cap {L.pid[k0]}
        BY <4>3, <4>4 DEF Awaited
      <4>6. CASE R = {}
        <5>1. L.pid[k0] \notin Children(p)
          BY <1>4, <4>5, <4>6
        <5>2. ps[L.pid[k0]].loc = "reaped"
          BY <2>3, <4>2, <5>1 DEF Children
        <5>3. QED
          BY <1>11, <4>2, <5>2
      <4>7. CASE R # {}
        <5>1. L.pid[k0] \in R
          BY <4>5, <4>7
        <5>2. QED
          BY <1>5, <5>1
      <4>8. QED
        BY <4>6, <4>7
    <3>4. \A k \in 1..L.i : L.pid[k] # -1 => ps'[L.pid[k]].loc = "reaped"
      <4>1. \A k \in 1..L.i : k \in 1..Len(L.pid)
        BY <3>1
      <4>2. QED
        BY <2>1, <3>1, <4>1 DEF IInv, WaitInv
    <3>5. \A k \in 1..(L.i + 1) : L.pid[k] # -1 => ps'[L.pid[k]].loc = "reaped"
      <4>1. \A k \in 1..(L.i + 1) : k \in 1..L.i \/ k = k0
        BY <3>1, <3>2
      <4>2. QED
        BY <3>3, <3>4, <4>1
    <3>6. L' = t /\ L'.pid = L.pid /\ n' = n /\ (t.loc = "wait" => t.i = 0 \/ t.i = L.i + 1)
          /\ (t.loc = "zombie" => L.i + 1 = n)
      BY <1>1, <1>3, <1>9, <2>3, <3>1
    <3>7. QED
      BY <3>1, <3>5, <3>6 DEF WaitInv
  <2>4. QED
    BY <2>2, <2>3
<1>15. SignalInv'
  <2>1. /\ L'.loc = "fork" => L.loc = "fork" /\ L'.i = L.i
        /\ L'.loc = "USR1" => L.loc = "USR1" /\ L'.i = L.i
    BY <1>3, <1>9
  <2>2. \A q \in Procs : Untouched(q) => Untouched(q)'
    BY <1>11 DEF Untouched
  <2>3. \A q \in Procs : "USR1" \in ps'[q].pending => "USR1" \in ps[q].pending
    BY <1>11
  <2>4. version = "thv2" => \A q \in Procs : ps'[q].loc \in {"exec", "command"} => ps'[q].received
    BY <1>11 DEF IInv, SignalInv
  <2>5. version = "thv2" /\ found /\ L'.loc = "fork" => \A q \in Procs : Untouched(q)'
    BY <2>1, <2>2 DEF IInv, SignalInv
  <2>6. ASSUME version = "thv2", found, failures = 0, L'.loc = "USR1", NEW k \in (L.i + 1)..n
        PROVE  Untouched(L.pid[k])'
    <3>1. Untouched(L.pid[k])
      BY <2>1, <2>6 DEF IInv, SignalInv
    <3>2. L.pid[k] \in Procs
      BY <2>1, <2>6, Addressee
    <3>3. QED
      BY <1>9, <2>2, <3>1, <3>2 DEF Untouched
  <2>7. version = "thv2" /\ found /\ failures = 0 =>
          \A q \in Procs : ps'[q].received => "USR1" \notin ps'[q].pending
    BY <1>11 DEF IInv, SignalInv
  <2>8. version # "thv2" => \A q \in Procs : "USR1" \notin ps'[q].pending
    BY <2>3 DEF IInv, SignalInv
  <2>9. QED
    BY <1>1, <2>1, <2>4, <2>5, <2>6, <2>7, <2>8 DEF SignalInv
<1>16. CommandsSurvive'
  BY <1>1, <1>11 DEF IInv, CommandsSurvive
<1>17. QED
  BY <1>6, <1>7, <1>12, <1>13, <1>14, <1>15, <1>16 DEF IInv
-----------------------------------------------------------------------------
LEMMA InitInv == Init => IInv
<1> SUFFICES ASSUME Init PROVE IInv
  OBVIOUS
<1>1. /\ n \in Nat /\ version \in Versions /\ found \in BOOLEAN /\ failures = 0
      /\ failures \in 0..MaxFailures
  BY LauncherAssumption DEF Init
<1>2. Launcher \in Procs
  BY LauncherExists
<1>3. PICK y \in Locs : y = IF n > 0 THEN Loop ELSE "zombie"
  BY DEF Loop, Locs, Loops
<1>4. y \in {"arm", "fork", "zombie"} /\ (y = "zombie" <=> ~(n > 0)) /\ (y = "arm" => version = "thv3")
  BY <1>3 DEF Loop
<1>5. Unborn \in Process
  <2>1. << >> \in Seq(Pids)
    OBVIOUS
  <2>2. QED
    BY <2>1 DEF Unborn, Process, Locs
<1>6. PICK r \in Process : r = [Unborn EXCEPT !.loc = y]
  BY <1>5 DEF Process
<1>7. /\ r.loc = y /\ r.i = 0 /\ r.pid = << >> /\ r.ppid = 0 /\ r.received = FALSE
      /\ r.pending = {} /\ r.killed = FALSE /\ r.timer = "off"
  BY <1>6 DEF Unborn
<1>8. ps = [p \in Procs |-> IF p = Launcher THEN r ELSE Unborn]
  BY <1>3, <1>6 DEF Init
<1>9. ps \in [Procs -> Process] /\ L = r /\ \A q \in Procs \ {Launcher} : ps[q] = Unborn
  BY <1>2, <1>5, <1>8 DEF L
<1>10. /\ Unborn.loc = "unborn" /\ Unborn.i = 0 /\ Unborn.pid = << >> /\ Unborn.ppid = 0
       /\ Unborn.received = FALSE /\ Unborn.pending = {} /\ Unborn.killed = FALSE
       /\ Unborn.timer = "off"
  BY DEF Unborn
<1>11. \A q \in Procs : /\ ps[q].i = 0 /\ ps[q].pid = << >> /\ ps[q].ppid = 0
                        /\ ps[q].received = FALSE /\ ps[q].pending = {} /\ ps[q].killed = FALSE
                        /\ ps[q].timer = "off" /\ ps[q].loc \in {y, "unborn"}
                        /\ (q # Launcher => ps[q].loc = "unborn")
  BY <1>2, <1>7, <1>9, <1>10 DEF L
<1>12. Len(<< >>) = 0
  OBVIOUS
<1>13. TypeInv
  BY <1>1, <1>9 DEF TypeInv
<1>14. IndexInv
  <2>1. SUFFICES ASSUME NEW q \in Procs PROVE Indexed(ps[q])
    BY DEF IndexInv
  <2>2. /\ ps[q].i = 0 /\ Len(ps[q].pid) = 0 /\ ps[q].loc \in {y, "unborn"}
    BY <1>11, <1>12
  <2>3. QED
    BY <1>1, <1>4, <2>2 DEF Indexed, Loops
<1>15. RoleInv
  BY <1>4, <1>7, <1>9, <1>11 DEF RoleInv, Loops
<1>16. FamilyInv
  BY <1>7, <1>9, <1>11, <1>12 DEF FamilyInv, Launcher
<1>17. WaitInv
  <2>1. L.loc = "zombie" => n = 0
    BY <1>1, <1>4, <1>7, <1>9
  <2>2. QED
    BY <1>4, <1>7, <1>9, <1>12, <2>1 DEF WaitInv
<1>18. SignalInv
  BY <1>4, <1>7, <1>9, <1>11 DEF SignalInv, Untouched
<1>19. CommandsSurvive
  BY <1>11 DEF CommandsSurvive
<1>20. QED
  BY <1>13, <1>14, <1>15, <1>16, <1>17, <1>18, <1>19 DEF IInv

LEMMA Inductive == IInv /\ [Next]_vars => IInv'
<1> SUFFICES ASSUME IInv, [Next]_vars PROVE IInv'
  OBVIOUS
<1>1. CASE UNCHANGED vars
  BY <1>1 DEF vars, IInv, TypeInv, IndexInv, Indexed, RoleInv, FamilyInv, WaitInv, SignalInv,
              CommandsSurvive, Untouched, L, Procs, Process, Pids, Loop
<1>2. ASSUME NEW p \in Procs, Step(p) PROVE IInv'
  BY <1>2, ArmKeeps, ForkKeeps, TestKeeps, WakeKeeps, ExecKeeps, WaitKeeps, KillKeeps DEF Step
<1>3. ASSUME NEW p \in Procs, Exit(p) \/ Alarm(p) \/ \E s \in Signals : Deliver(p, s) PROVE IInv'
  BY <1>3, ExitKeeps, AlarmKeeps, DeliverKeeps
<1>4. CASE Quiescent
  BY <1>1, <1>4 DEF Quiescent
<1>5. QED
  BY <1>1, <1>2, <1>3, <1>4 DEF Next

LEMMA Invariance == Spec => []IInv
<1>1. Init => IInv
  BY InitInv
<1>2. IInv /\ [Next]_vars => IInv'
  BY Inductive
<1>3. QED
  BY <1>1, <1>2, PTL DEF Spec
-----------------------------------------------------------------------------
(* As many copies as the array has room for are asked for, and stay.       *)
Fits == n <= ArraySize[version]

LEMMA CopiesFit == Spec => []Fits
<1>1. Init => Fits
  BY DEF Init, Fits
<1>2. Fits /\ [Next]_vars => Fits'
  BY DEF Fits, Next, Step, Arm, Fork, Test, Wake, Exec, Wait, Kill, Exit, Alarm, Deliver, Quiescent, vars
<1>3. QED
  BY <1>1, <1>2, PTL DEF Spec

(* For all lengths of pid[], numbers of copies that it has room for and    *)
(* failures: no process writes behind the end of its array, a child that   *)
(* goes on as a launcher included, or reads what it has not written.       *)
THEOREM TypeCorrect == Spec => []TypeOK
<1>1. IInv /\ Fits => TypeOK
  <2> SUFFICES ASSUME IInv, Fits PROVE TypeOK
    OBVIOUS
  <2>1. DOMAIN ps = Procs
    BY DEF IInv, TypeInv
  <2>2. DOMAIN After = Loops
    BY DEF After, Loops
  <2>3. n \in Nat /\ ArraySize[version] \in Nat /\ n <= ArraySize[version]
    BY LauncherAssumption DEF IInv, TypeInv, Fits
  <2>4. ASSUME NEW p \in Procs
        PROVE  /\ ps[p].loc \in DOMAIN After \cup {"unborn", "arm", "test", "sleep", "exec",
                                                   "command", "zombie", "reaped"}
               /\ ps[p].i \in 0..n /\ (n > 0 => ps[p].i < n)
               /\ ps[p].pid \in Seq(Procs \cup {0, -1}) /\ Len(ps[p].pid) <= ArraySize[version]
               /\ ps[p].loc = "fork" => ps[p].i = Len(ps[p].pid) /\ ps[p].i < ArraySize[version]
               /\ ps[p].loc \in Signals \cup {"wait"} => ps[p].i < Len(ps[p].pid)
               /\ ps[p].ppid \in Procs \cup {0} /\ ps[p].pending \subseteq {"USR1", "STOP"}
               /\ ps[p].timer \in {"off", "armed", "fired"}
    <3>1. ps[p] \in Process /\ Indexed(ps[p])
      BY DEF IInv, TypeInv, IndexInv
    <3>2. /\ ps[p].loc \in Locs /\ ps[p].i \in Nat /\ ps[p].pid \in Seq(Pids)
          /\ ps[p].ppid \in Procs \cup {0} /\ ps[p].pending \in SUBSET {"USR1", "STOP"}
          /\ ps[p].timer \in {"off", "armed", "fired"}
      BY <3>1, FieldTypes
    <3>3. /\ ps[p].i <= n /\ (n > 0 => ps[p].i < n) /\ Len(ps[p].pid) <= n
          /\ ps[p].loc \in {"fork", "wait"} \cup Signals => n > 0
          /\ ps[p].loc = "fork" => Len(ps[p].pid) = ps[p].i
          /\ ps[p].loc \in {"wait"} \cup Signals => Len(ps[p].pid) = n
      BY <3>1 DEF Indexed, Loops, Signals
    <3>4. Len(ps[p].pid) \in Nat
      BY <3>2, LenProperties
    <3>5. ps[p].i \in 0..n /\ Len(ps[p].pid) <= ArraySize[version]
      BY <2>3, <3>2, <3>3, <3>4
    <3>6. ps[p].loc = "fork" => ps[p].i = Len(ps[p].pid) /\ ps[p].i < ArraySize[version]
      BY <2>3, <3>2, <3>3
    <3>7. ps[p].loc \in Signals \cup {"wait"} => ps[p].i < Len(ps[p].pid)
      BY <3>3
    <3>8. ps[p].pid \in Seq(Procs \cup {0, -1})
      BY <3>2 DEF Pids
    <3>9. QED
      BY <2>2, <3>2, <3>3, <3>5, <3>6, <3>7, <3>8 DEF Locs
  <2>5. QED
    BY <2>1, <2>4 DEF IInv, TypeInv, TypeOK
<1>2. QED
  BY <1>1, CopiesFit, Invariance, PTL

(* As long as no fork fails SIGUSR1 kills no command: it meets each child  *)
(* once, before its execvp (thv2.c:119-129). Nor does the timer of thv3.   *)
THEOREM NoCommandKilled == Spec => []CommandsSurvive
<1>1. IInv => CommandsSurvive
  BY DEF IInv
<1>2. QED
  BY <1>1, Invariance, PTL

(* However the children's tests, sleeps and signals interleave, and even   *)
(* if forks fail, no command starts before the loop that forks has ended.  *)
THEOREM CommandsStartTogether == Spec => []StartTogether
<1>1. IInv => StartTogether
  <2>1. SUFFICES ASSUME IInv, version = "thv2", NEW p \in Procs, ps[p].loc = "command",
                        L.loc = "fork"
                 PROVE  FALSE
    BY DEF StartTogether, L
  <2>2. found
    BY <2>1 DEF IInv, RoleInv, TypeInv
  <2>3. ~ps[p].received
    BY <2>1, <2>2 DEF IInv, SignalInv, Untouched
  <2>4. QED
    BY <2>1, <2>3 DEF IInv, SignalInv
<1>2. QED
  BY <1>1, Invariance, PTL

(* The time that is printed is that of all copies: the loop of waitpids    *)
(* leaves no child of the launcher behind, in whatever order they end.     *)
THEOREM LauncherWaits == Spec => []WaitedForAll
<1>1. IInv => WaitedForAll
  <2> DEFINE children == {p \in Procs : ps[p].ppid = Launcher}
  <2>1. SUFFICES ASSUME IInv, L.loc = "zombie", L.timer # "fired"
                 PROVE  /\ \A p \in children : ps[p].loc = "reaped"
                        /\ failures = 0 => Cardinality(children) = n
    BY DEF WaitedForAll, L
  <2>2. /\ Len(L.pid) = n /\ n \in Nat
        /\ \A k \in 1..n : L.pid[k] # -1 => ps[L.pid[k]].loc = "reaped"
    BY <2>1 DEF IInv, WaitInv, TypeInv
  <2>3. \A p \in children : \E k \in 1..n : L.pid[k] = p
    BY <2>1, <2>2 DEF IInv, FamilyInv
  <2>4. \A p \in children : ps[p].loc = "reaped"
    <3>1. ASSUME NEW p \in children PROVE ps[p].loc = "reaped"
      <4>1. PICK k \in 1..n : L.pid[k] = p
        BY <2>3
      <4>2. p # -1
        BY LauncherExists
      <4>3. QED
        BY <2>2, <4>1, <4>2
    <3>2. QED
      BY <3>1
  <2>5. ASSUME failures = 0 PROVE Cardinality(children) = n
    <3> DEFINE f == [k \in 1..n |-> L.pid[k]]
    <3>1. ASSUME NEW k \in 1..n
          PROVE  L.pid[k] # -1 /\ L.pid[k] \in Procs /\ ps[L.pid[k]].ppid = Launcher
                 /\ \A m \in 1..n : L.pid[m] = L.pid[k] => m = k
      BY <2>1, <2>2, <2>5, ChildrenExist DEF IInv, FamilyInv
    <3>2. f \in [1..n -> children]
      BY <3>1
    <3>3. \A k, m \in 1..n : f[k] = f[m] => k = m
      BY <3>1
    <3>4. \A p \in children : \E k \in 1..n : f[k] = p
      BY <2>3
    <3>5. f \in Bijection(1..n, children)
      <4> HIDE DEF f, children
      <4>1. QED
        BY <3>2, <3>3, <3>4 DEF Bijection, Injection, Surjection, IsInjective
    <3>6. ExistsBijection(1..n, children)
      BY <3>5 DEF ExistsBijection
    <3>7. QED
      <4> HIDE DEF children
      <4>1. QED
        BY <2>2, <3>6, FS_CountingElements
  <2>6. QED
    BY <2>4, <2>5
<1>2. QED
  BY <1>1, Invariance, PTL
-----------------------------------------------------------------------------
(* The numbers of an int that are not negative.                            *)
Ints == {k \in Nat : k <= 2147483647}

(* The characters of the strings that are put together from numbers.       *)
Char == {"0", "1", "2", "3", "4", "5", "6", "7", "8", "9", ".", " "}

(* A character before a string.                                            *)
LEMMA OneBefore ==
  ASSUME NEW c \in Char, NEW x \in Seq(Char)
  PROVE  /\ <<c>> \in Seq(Char)
         /\ <<c>> \o x \in Seq(Char) /\ Len(<<c>> \o x) = Len(x) + 1 /\ (<<c>> \o x)[1] = c
         /\ \A k \in 2..(Len(x) + 1) : (<<c>> \o x)[k] = x[k - 1]
<1>1. <<c>> \in Seq(Char) /\ Len(<<c>>) = 1 /\ <<c>>[1] = c
  OBVIOUS
<1> DEFINE u == <<c>>
          len == Len(x)
<1>2. len \in Nat /\ Len(u) = 1 /\ u[1] = c /\ u \in Seq(Char)
  BY <1>1
<1> HIDE DEF u
<1>3. /\ u \o x \in Seq(Char) /\ Len(u \o x) = 1 + len
      /\ \A i \in 1..(1 + len) : (u \o x)[i] = IF i <= 1 THEN u[i] ELSE x[i - 1]
  <2>1. /\ u \o x \in Seq(Char) /\ Len(u \o x) = Len(u) + Len(x)
        /\ \A i \in 1..(Len(u) + Len(x)) : (u \o x)[i] = IF i <= Len(u) THEN u[i] ELSE x[i - Len(u)]
    BY <1>2, ConcatProperties
  <2>2. QED
    BY <1>2, <2>1
<1> HIDE DEF len
<1>4. QED
  BY <1>2, <1>3 DEF u, len

(* The ten digits have their values; no other sign is a digit.             *)
LEMMA DigitsAre ==
  /\ \A d \in 0..9 : IsDigit(Digits[d + 1]) /\ DigitValue(Digits[d + 1]) = d
  /\ ~IsDigit(".") /\ ~IsDigit(" ") /\ ~IsDigit("-")
<1>1. \A d \in 1..10 : \A e \in 1..10 : Digits[d] = Digits[e] => d = e
  BY DEF Digits
<1>2. ASSUME NEW d \in 0..9 PROVE IsDigit(Digits[d + 1]) /\ DigitValue(Digits[d + 1]) = d
  <2> DEFINE c == Digits[d + 1]
             e == CHOOSE e \in 1..10 : Digits[e] = c
  <2>1. d + 1 \in 1..10
    OBVIOUS
  <2>2. e \in 1..10 /\ Digits[e] = c
    BY <2>1
  <2>3. e = d + 1
    <3> HIDE DEF e
    <3>1. QED
      BY <1>1, <2>1, <2>2
  <2>4. DigitValue(c) = e - 1
    BY DEF DigitValue
  <2>5. IsDigit(c)
    BY <2>1 DEF IsDigit
  <2> HIDE DEF e
  <2>6. QED
    BY <2>3, <2>4, <2>5
<1>3. ~IsDigit(".") /\ ~IsDigit(" ") /\ ~IsDigit("-")
  BY DEF IsDigit, Digits
<1>4. QED
  BY <1>2, <1>3

(* The value of the digits of x up to each of them.                        *)
Horner(h, x) ==
  /\ h \in [0..Len(x) -> Nat] /\ h[0] = 0
  /\ \A k \in 1..Len(x) : h[k] = 10 * h[k - 1] + DigitValue(x[k])

(* The digits of x are those of number.                                    *)
Numeral(x, number) ==
  /\ x \in Seq(Char) /\ \A k \in 1..Len(x) : IsDigit(x[k])
  /\ \E h : Horner(h, x) /\ h[Len(x)] = number

(* p1atoi reads a numeral up to the first character that is no digit.      *)
LEMMA AtoiReads ==
  ASSUME NEW x, NEW number, Numeral(x, number),
         NEW tail \in Seq(Char), tail # << >> => ~IsDigit(tail[1])
  PROVE  p1atoi(x \o tail) = number
<1> DEFINE s == x \o tail
           l == Len(x)
           Eq(f, end) == f = [k \in 0..(end - 1) |-> IF k = 0 THEN 0 ELSE 10 * f[k - 1] + DigitValue(s[k])]
           First == CHOOSE k \in 1..Len(s) : ~IsDigit(s[k]) /\ \A y \in 1..(k - 1) : IsDigit(s[y])
           end == IF \E k \in 1..Len(s) : ~IsDigit(s[k]) THEN First ELSE Len(s) + 1
<1>1. PICK h : Horner(h, x) /\ h[l] = number
  BY DEF Numeral
<1>2. /\ l \in Nat /\ Len(tail) \in Nat /\ Len(s) = l + Len(tail)
      /\ \A k \in 1..l : s[k] = x[k] /\ IsDigit(s[k])
      /\ Len(tail) > 0 => s[l + 1] = tail[1]
  BY DEF Numeral
<1>3. Len(tail) > 0 => ~IsDigit(s[l + 1])
  <2>1. Len(tail) > 0 => tail # << >>
    OBVIOUS
  <2>2. QED
    BY <1>2, <2>1
<1> HIDE DEF l
<1>4. end = l + 1
  <2>1. CASE Len(tail) = 0
    <3>1. ~\E k \in 1..Len(s) : ~IsDigit(s[k])
      BY <1>2, <2>1
    <3>2. end = Len(s) + 1
      BY <3>1
    <3>3. QED
      BY <1>2, <2>1, <3>2
  <2>2. CASE Len(tail) > 0
    <3> DEFINE Is(k) == ~IsDigit(s[k]) /\ \A y \in 1..(k - 1) : IsDigit(s[y])
    <3>1. l + 1 \in 1..Len(s) /\ ~IsDigit(s[l + 1])
      BY <1>2, <1>3, <2>2
    <3>2. (l + 1) - 1 = l
      BY <1>2
    <3>3. Is(l + 1)
      BY <1>2, <3>1, <3>2
    <3>4. First \in 1..Len(s) /\ Is(First)
      <4>1. \E k \in 1..Len(s) : Is(k)
        <5> HIDE DEF Is
        <5>1. QED
          BY <3>1, <3>3
      <4>2. First = CHOOSE k \in 1..Len(s) : Is(k)
        OBVIOUS
      <4> HIDE DEF First, Is
      <4>3. QED
        BY <4>1, <4>2
    <3>5. end = First
      BY <3>1
    <3>6. First = l + 1
      <4> HIDE DEF First, end, s
      <4>1. ~(First < l + 1)
        BY <1>2, <3>4
      <4>2. ~(First > l + 1)
        BY <1>2, <3>1, <3>4
      <4>3. QED
        BY <1>2, <3>4, <4>1, <4>2
    <3>7. QED
      BY <3>5, <3>6
  <2> HIDE DEF end, First, s
  <2>3. QED
    BY <1>2, <2>1, <2>2
<1> DEFINE ans == CHOOSE f : Eq(f, end)
<1>5. p1atoi(s) = ans[end - 1]
  BY DEF p1atoi
<1> HIDE DEF end
<1>6. h = [k \in 0..l |-> IF k = 0 THEN 0 ELSE 10 * h[k - 1] + DigitValue(s[k])]
  <2>1. h = [k \in 0..l |-> h[k]]
    BY <1>1 DEF Horner, l
  <2>2. \A k \in 0..l : h[k] = IF k = 0 THEN 0 ELSE 10 * h[k - 1] + DigitValue(s[k])
    <3>1. h[0] = 0 /\ \A k \in 1..l : h[k] = 10 * h[k - 1] + DigitValue(x[k])
      BY <1>1 DEF Horner, l
    <3>2. \A k \in 0..l : k # 0 => k \in 1..l
      BY <1>2
    <3> HIDE DEF s
    <3>3. QED
      BY <1>2, <3>1, <3>2
  <2> HIDE DEF s
  <2>3. QED
    BY <2>1, <2>2
<1>7. Eq(h, end)
  <2>1. end - 1 = l
    BY <1>2, <1>4
  <2> HIDE DEF s
  <2>2. QED
    BY <1>6, <2>1
<1>8. Eq(ans, end)
  <2> HIDE DEF Eq
  <2>1. QED
    BY <1>7
<1>9. \A k \in 0..l : ans[k] = IF k = 0 THEN 0 ELSE 10 * ans[k - 1] + DigitValue(s[k])
  <2>1. end - 1 = l
    BY <1>2, <1>4
  <2> HIDE DEF s, ans
  <2>2. ans = [k \in 0..l |-> IF k = 0 THEN 0 ELSE 10 * ans[k - 1] + DigitValue(s[k])]
    BY <1>8, <2>1
  <2>3. QED
    BY <2>2
<1> HIDE DEF ans, s
<1> DEFINE S == {k \in 0..l : ans[k] = h[k]}
<1>10. 0 \in S
  BY <1>1, <1>2, <1>9 DEF Horner
<1>11. ASSUME NEW k \in 0..(l - 1), k \in S PROVE k + 1 \in S
  <2>1. k + 1 \in 0..l /\ k + 1 # 0 /\ (k + 1) - 1 = k
    BY <1>2
  <2>2. h[k + 1] = 10 * h[k] + DigitValue(s[k + 1])
    BY <1>6, <2>1
  <2>3. ans[k + 1] = 10 * ans[k] + DigitValue(s[k + 1])
    BY <1>9, <2>1
  <2>4. QED
    BY <1>11, <2>1, <2>2, <2>3
<1>12. 0..l \subseteq S
  <2> HIDE DEF S
  <2>1. QED
    BY <1>2, <1>10, <1>11, InductionUpTo
<1>13. ans[l] = h[l]
  BY <1>2, <1>12
<1>14. end - 1 = l
  BY <1>2, <1>4
<1>15. QED
  BY <1>1, <1>5, <1>13, <1>14 DEF s

(* A zero before a numeral does not change it.                             *)
LEMMA ZeroBefore ==
  ASSUME NEW x, NEW number, Numeral(x, number)
  PROVE  Numeral(<<"0">> \o x, number)
<1> DEFINE y == <<"0">> \o x
           l == Len(x)
<1>1. PICK h : Horner(h, x) /\ h[l] = number
  BY DEF Numeral
<1>2. /\ l \in Nat /\ Len(y) = l + 1 /\ y \in Seq(Char) /\ y[1] = "0"
      /\ \A k \in 2..(l + 1) : y[k] = x[k - 1]
      /\ \A k \in 1..l : IsDigit(x[k])
  <2>1. x \in Seq(Char) /\ \A k \in 1..l : IsDigit(x[k])
    BY DEF Numeral
  <2>2. "0" \in Char
    BY DEF Char
  <2>3. /\ Len(y) = l + 1 /\ y \in Seq(Char) /\ y[1] = "0"
        /\ \A k \in 2..(l + 1) : y[k] = x[k - 1]
    BY <2>1, <2>2, OneBefore
  <2>4. l \in Nat
    BY <2>1
  <2>5. QED
    BY <2>1, <2>3, <2>4
<1>3. h \in [0..l -> Nat] /\ h[0] = 0 /\ \A k \in 1..l : h[k] = 10 * h[k - 1] + DigitValue(x[k])
  BY <1>1 DEF Horner
<1>4. IsDigit("0") /\ DigitValue("0") = 0
  <2>1. Digits[0 + 1] = "0"
    BY DEF Digits
  <2>2. 0 \in 0..9
    OBVIOUS
  <2>3. QED
    BY <2>1, <2>2, DigitsAre
<1> HIDE DEF l, y
<1> DEFINE g == [k \in 0..(l + 1) |-> IF k = 0 THEN 0 ELSE h[k - 1]]
<1>5. g \in [0..(l + 1) -> Nat] /\ g[0] = 0 /\ g[1] = 0 /\ g[l + 1] = h[l]
  BY <1>2, <1>3
<1>6. ASSUME NEW k \in 1..(l + 1) PROVE g[k] = 10 * g[k - 1] + DigitValue(y[k]) /\ IsDigit(y[k])
  <2>1. CASE k = 1
    BY <1>2, <1>4, <1>5, <2>1
  <2>2. CASE k \in 2..(l + 1)
    <3>1. k - 1 \in 1..l /\ k - 1 # 0 /\ k - 1 \in 0..(l + 1) /\ k # 0 /\ k \in 0..(l + 1)
      BY <1>2, <2>2
    <3>2. g[k] = h[k - 1] /\ g[k - 1] = h[(k - 1) - 1]
      BY <3>1
    <3>3. h[k - 1] = 10 * h[(k - 1) - 1] + DigitValue(x[k - 1])
      BY <1>3, <3>1
    <3> HIDE DEF g
    <3>4. QED
      BY <1>2, <2>2, <3>1, <3>2, <3>3
  <2>3. QED
    BY <1>2, <2>1, <2>2
<1> HIDE DEF g
<1>7. Horner(g, y) /\ g[Len(y)] = number
  BY <1>1, <1>2, <1>5, <1>6 DEF Horner, l
<1>8. QED
  BY <1>2, <1>6, <1>7 DEF Numeral, y

LEMMA CharsAssociative ==
  ASSUME NEW u \in Seq(Char), NEW v \in Seq(Char), NEW w \in Seq(Char)
  PROVE  (u \o v) \o w = u \o (v \o w)
BY ConcatAssociative

(* Nor do any number of zeros.                                             *)
LEMMA ZerosBefore ==
  ASSUME NEW x, NEW number, Numeral(x, number), NEW c \in Int
  PROVE  Numeral(Fill("0", c) \o x, number)
<1> DEFINE zeros(m) == [i \in 1..m |-> "0"]
           S == {m \in Nat : Numeral(zeros(m) \o x, number)}
<1>1. 0 \in S
  <2>1. zeros(0) = << >>
    OBVIOUS
  <2>2. x \in Seq(Char)
    BY DEF Numeral
  <2> HIDE DEF zeros
  <2>3. zeros(0) \o x = x
    BY <2>1, <2>2
  <2>4. QED
    BY <2>3
<1>2. ASSUME NEW m \in Nat, m \in S PROVE m + 1 \in S
  <2>1. zeros(m + 1) = <<"0">> \o zeros(m) /\ zeros(m) \in Seq(Char)
    <3> DEFINE u == zeros(m)
               w == <<"0">> \o u
    <3>1. u \in Seq(Char) /\ Len(u) = m /\ (\A i \in 1..m : u[i] = "0") /\ "0" \in Char
      <4>1. "0" \in Char
        BY DEF Char
      <4>2. QED
        BY <4>1
    <3> HIDE DEF u
    <3>2. /\ w \in Seq(Char) /\ Len(w) = m + 1 /\ w[1] = "0"
          /\ \A k \in 2..(m + 1) : w[k] = u[k - 1]
      BY <3>1, OneBefore
    <3>3. ASSUME NEW i \in 1..(m + 1) PROVE w[i] = "0"
      <4>1. CASE i = 1
        BY <3>2, <4>1
      <4>2. CASE i # 1
        <5>1. w[i] = u[i - 1] /\ i - 1 \in 1..m
          BY <3>2, <4>2
        <5>2. QED
          BY <3>1, <5>1
      <4>3. QED
        BY <4>1, <4>2
    <3> HIDE DEF w
    <3>4. w = [i \in 1..(m + 1) |-> w[i]]
      BY <3>2
    <3>5. [i \in 1..(m + 1) |-> w[i]] = [i \in 1..(m + 1) |-> "0"]
      BY <3>3
    <3>6. QED
      BY <3>1, <3>4, <3>5 DEF u, w
  <2>2. x \in Seq(Char)
    BY DEF Numeral
  <2>3. Numeral(<<"0">> \o (zeros(m) \o x), number)
    BY <1>2, ZeroBefore
  <2> HIDE DEF zeros
  <2>4. zeros(m + 1) \o x = <<"0">> \o (zeros(m) \o x)
    <3> DEFINE o == <<"0">>
               z == zeros(m)
    <3>1. o \in Seq(Char)
      <4>1. "0" \in Char
        BY DEF Char
      <4>2. QED
        BY <2>2, <4>1, OneBefore
    <3>2. zeros(m + 1) = o \o z /\ z \in Seq(Char)
      BY <2>1
    <3> HIDE DEF o, z
    <3>3. (o \o z) \o x = o \o (z \o x)
      BY <2>2, <3>1, <3>2, CharsAssociative
    <3>4. QED
      BY <3>2, <3>3 DEF o, z
  <2>5. Numeral(zeros(m + 1) \o x, number)
    BY <2>3, <2>4
  <2>6. m + 1 \in Nat
    OBVIOUS
  <2>7. QED
    BY <2>5, <2>6
<1>3. Nat \subseteq S
  <2> HIDE DEF S
  <2>1. QED
    BY <1>1, <1>2, Induction
<1>4. PICK m \in Nat : m = IF c > 0 THEN c ELSE 0
  OBVIOUS
<1>5. Fill("0", c) = zeros(m)
  BY <1>4 DEF Fill
<1>6. QED
  BY <1>3, <1>5

(* What is left of a number of up to ten digits without its last k ones.   *)
Quotients(r, number) ==
  /\ r \in [0..10 -> Nat] /\ r[0] = number
  /\ \A k \in 1..10 : r[k] = r[k - 1] \div 10

(* Division by ten keeps bounds.                                           *)
LEMMA Quotient ==
  ASSUME NEW a \in Nat, NEW b \in Nat
  PROVE  /\ a \div 10 \in Nat
         /\ a < 10 * b => a \div 10 < b
         /\ a >= 10 * b => a \div 10 >= b
OBVIOUS

(* Ten digits are enough for an int; how many a small number needs.        *)
LEMMA QuotientsAre ==
  ASSUME NEW number \in Ints, NEW r, Quotients(r, number)
  PROVE  /\ r[10] = 0
         /\ number < 10 => r[1] = 0
         /\ number < 100 => r[2] = 0
         /\ number < 1000 => r[3] = 0
         /\ number >= 10 => r[1] > 0
         /\ number >= 100 => r[2] > 0
         /\ number >= 1000 => r[3] > 0
<1>1. r[0] = number /\ \A k \in 0..10 : r[k] \in Nat
  BY DEF Quotients
<1>2. ASSUME NEW k \in 0..9, NEW b \in Nat
      PROVE  /\ r[k] < 10 * b => r[k + 1] < b
             /\ r[k] >= 10 * b => r[k + 1] >= b
  <2>1. k + 1 \in 1..10 /\ (k + 1) - 1 = k /\ k \in 0..10
    OBVIOUS
  <2>2. r[k] \in Nat /\ r[k + 1] = r[k] \div 10
    BY <1>1, <2>1 DEF Quotients
  <2>3. QED
    BY <2>2, Quotient
<1> DEFINE Below(k, b) == r[k] < b
           From(k, b) == r[k] >= b
<1>3. \A k \in 0..9 : \A b \in Nat : Below(k, 10 * b) => Below(k + 1, b)
  BY <1>2
<1>4. \A k \in 0..9 : \A b \in Nat : From(k, 10 * b) => From(k + 1, b)
  BY <1>2
<1>5. Below(0, 10000000000)
  BY SMT, <1>1 DEF Ints
<1> HIDE DEF Below, From
<1>6. Below(1, 1000000000)
  BY SMT, <1>3, <1>5
<1>7. Below(2, 100000000)
  BY SMT, <1>3, <1>6
<1>8. Below(3, 10000000)
  BY SMT, <1>3, <1>7
<1>9. Below(4, 1000000)
  BY SMT, <1>3, <1>8
<1>10. Below(5, 100000)
  BY SMT, <1>3, <1>9
<1>11. Below(6, 10000)
  BY SMT, <1>3, <1>10
<1>12. Below(7, 1000)
  BY SMT, <1>3, <1>11
<1>13. Below(8, 100)
  BY SMT, <1>3, <1>12
<1>14. Below(9, 10)
  BY SMT, <1>3, <1>13
<1>15. Below(10, 1)
  BY SMT, <1>3, <1>14
<1>16. r[10] = 0
  BY <1>1, <1>15 DEF Below
<1>17. number < 10 => Below(1, 1)
  <2>1. number < 10 => Below(0, 10)
    BY <1>1 DEF Below
  <2>2. Below(0, 10) => Below(1, 1)
    BY SMT, <1>3
  <2>3. QED
    BY <2>1, <2>2
<1>18. number >= 10 => From(1, 1)
  <2>1. number >= 10 => From(0, 10)
    BY <1>1 DEF From
  <2>2. From(0, 10) => From(1, 1)
    BY SMT, <1>4
  <2>3. QED
    BY <2>1, <2>2
<1>19. number < 100 => Below(2, 1)
  <2>1. number < 100 => Below(0, 100)
    BY <1>1 DEF Below
  <2>2. Below(0, 100) => Below(1, 10)
    BY SMT, <1>3
  <2>3. Below(1, 10) => Below(2, 1)
    BY SMT, <1>3
  <2>4. QED
    BY <2>1, <2>2, <2>3
<1>20. number >= 100 => From(2, 1)
  <2>1. number >= 100 => From(0, 100)
    BY <1>1 DEF From
  <2>2. From(0, 100) => From(1, 10)
    BY SMT, <1>4
  <2>3. From(1, 10) => From(2, 1)
    BY SMT, <1>4
  <2>4. QED
    BY <2>1, <2>2, <2>3
<1>21. number < 1000 => Below(3, 1)
  <2>1. number < 1000 => Below(0, 1000)
    BY <1>1 DEF Below
  <2>2. Below(0, 1000) => Below(1, 100)
    BY SMT, <1>3
  <2>3. Below(1, 100) => Below(2, 10)
    BY SMT, <1>3
  <2>4. Below(2, 10) => Below(3, 1)
    BY SMT, <1>3
  <2>5. QED
    BY <2>1, <2>2, <2>3, <2>4
<1>22. number >= 1000 => From(3, 1)
  <2>1. number >= 1000 => From(0, 1000)
    BY <1>1 DEF From
  <2>2. From(0, 1000) => From(1, 100)
    BY SMT, <1>4
  <2>3. From(1, 100) => From(2, 10)
    BY SMT, <1>4
  <2>4. From(2, 10) => From(3, 1)
    BY SMT, <1>4
  <2>5. QED
    BY <2>1, <2>2, <2>3, <2>4
<1>23. QED
  BY <1>1, <1>16, <1>17, <1>18, <1>19, <1>20, <1>21, <1>22 DEF Below, From

(* The length of a number without zeros before it.                         *)
Digitful(x, number) ==
  /\ number < 10 => Len(x) = 1
  /\ number >= 10 /\ number < 100 => Len(x) = 2
  /\ number >= 100 /\ number < 1000 => Len(x) = 3
  /\ number >= 1000 => Len(x) > 3

(* The digits of a number from the first one that counts.                  *)
LEMMA DecimalIs ==
  ASSUME NEW number \in Ints, number > 0
  PROVE  Numeral(Decimal(number), number) /\ Digitful(Decimal(number), number)
<1> DEFINE Eq(r) == r = [k \in 0..10 |-> IF k = 0 THEN number ELSE r[k - 1] \div 10]
           rest == CHOOSE r : Eq(r)
           count == CHOOSE k \in 1..10 : rest[k] = 0 /\ rest[k - 1] > 0
           x == [k \in 1..count |-> Digits[(rest[count - k] % 10) + 1]]
<1>1. Decimal(number) = x
  BY DEF Decimal
<1>2. number \in Nat
  BY SMT DEF Ints
<1>3. Quotients(rest, number)
  <2> DEFINE step == [p \in Nat \X (1..10) |-> p[1] \div 10]
  <2>1. step \in Steps(Nat, 10)
    <3>1. \A a \in Nat : a \div 10 \in Nat
      OBVIOUS
    <3>2. QED
      BY <3>1 DEF Steps
  <2>2. PICK f : IsRun(f, Nat, 10, number, step)
    <3> HIDE DEF step
    <3>1. 10 \in Nat
      OBVIOUS
    <3>2. QED
      BY <1>2, <2>1, <3>1, Recursion
  <2>3. f \in [0..10 -> Nat] /\ f[0] = number /\ \A k \in 1..10 : f[k] = step[<<f[k - 1], k>>]
    BY <2>2 DEF IsRun
  <2>4. ASSUME NEW k \in 1..10 PROVE f[k] = f[k - 1] \div 10
    <3>1. f[k - 1] \in Nat
      BY <2>3
    <3>2. QED
      BY <2>3, <3>1
  <2>5. Eq(f)
    <3>1. \A k \in 0..10 : f[k] = IF k = 0 THEN number ELSE f[k - 1] \div 10
      BY <2>3, <2>4
    <3>2. QED
      BY <2>3, <3>1
  <2>6. Eq(rest)
    <3> HIDE DEF Eq
    <3>1. QED
      BY <2>5
  <2> HIDE DEF rest
  <2>7. \A k \in 0..10 : rest[k] = IF k = 0 THEN number ELSE rest[k - 1] \div 10
    BY <2>6
  <2> DEFINE S == {k \in 0..10 : rest[k] = f[k]}
  <2>8. 0 \in S
    BY <2>3, <2>7
  <2>9. ASSUME NEW k \in 0..9, k \in S PROVE k + 1 \in S
    <3>1. k + 1 \in 1..10 /\ k + 1 # 0 /\ (k + 1) - 1 = k /\ k + 1 \in 0..10
      OBVIOUS
    <3>2. f[k + 1] = f[k] \div 10
      BY <2>4, <3>1
    <3>3. rest[k + 1] = rest[k] \div 10
      BY <2>7, <3>1
    <3>4. QED
      BY <2>9, <3>1, <3>2, <3>3
  <2>10. 0..10 \subseteq S
    <3> HIDE DEF S
    <3>1. 10 \in Nat /\ \A k \in 0..(10 - 1) : k \in S => k + 1 \in S
      BY <2>9
    <3>2. QED
      BY <2>8, <3>1, InductionUpTo
  <2>11. rest = [k \in 0..10 |-> rest[k]] /\ \A k \in 0..10 : rest[k] = f[k]
    BY <2>6, <2>10
  <2>12. rest \in [0..10 -> Nat]
    BY <2>3, <2>11
  <2>13. \A k \in 1..10 : k # 0 /\ k \in 0..10
    OBVIOUS
  <2>14. QED
    BY <2>7, <2>12, <2>13 DEF Quotients
<1> HIDE DEF rest
<1>4. /\ rest \in [0..10 -> Nat] /\ rest[0] = number /\ rest[10] = 0
      /\ \A k \in 1..10 : rest[k] = rest[k - 1] \div 10
  BY <1>3, QuotientsAre DEF Quotients
<1>5. count \in 1..10 /\ rest[count] = 0 /\ rest[count - 1] > 0
  <2> DEFINE Is(k) == rest[k] = 0 /\ rest[k - 1] > 0
  <2>1. \E k \in 1..10 : Is(k)
    <3>1. SUFFICES ASSUME \A k \in 1..10 : ~Is(k) PROVE FALSE
      OBVIOUS
    <3> DEFINE S == {k \in 0..10 : rest[k] > 0}
    <3>2. 0 \in S
      BY <1>4
    <3>3. ASSUME NEW k \in 0..9, k \in S PROVE k + 1 \in S
      <4>1. k + 1 \in 1..10 /\ (k + 1) - 1 = k /\ rest[k + 1] \in Nat
        BY <1>4
      <4>2. rest[k + 1] # 0
        BY <3>1, <3>3, <4>1
      <4>3. QED
        BY <4>1, <4>2
    <3>4. 0..10 \subseteq S
      <4> HIDE DEF S
      <4>1. 10 \in Nat /\ \A k \in 0..(10 - 1) : k \in S => k + 1 \in S
        BY <3>3
      <4>2. QED
        BY <3>2, <4>1, InductionUpTo
    <3>5. rest[10] > 0
      BY <3>4
    <3>6. QED
      BY <1>4, <3>5
  <2>2. count = CHOOSE k \in 1..10 : Is(k)
    OBVIOUS
  <2> HIDE DEF Is, count
  <2>3. count \in 1..10 /\ Is(count)
    BY <2>1, <2>2
  <2>4. QED
    BY <2>3 DEF Is
<1> HIDE DEF count
<1>6. ASSUME NEW k \in 1..count
      PROVE  /\ x[k] \in Char /\ IsDigit(x[k])
             /\ rest[count - k] = 10 * rest[count - (k - 1)] + DigitValue(x[k])
  <2>1. count - k \in 0..10 /\ count - (k - 1) \in 1..10 /\ (count - (k - 1)) - 1 = count - k
    BY <1>5
  <2>2. rest[count - k] \in Nat /\ rest[count - (k - 1)] = rest[count - k] \div 10
    BY <1>4, <2>1
  <2>3. \A a \in Nat : a % 10 \in 0..9 /\ a = 10 * (a \div 10) + (a % 10)
    OBVIOUS
  <2>4. PICK d \in 0..9 : d = rest[count - k] % 10
    BY <2>2, <2>3
  <2>5. x[k] = Digits[d + 1]
    BY <2>4
  <2>6. \A e \in 0..9 : Digits[e + 1] \in Char
    <3>1. /\ Digits[1] = "0" /\ Digits[2] = "1" /\ Digits[3] = "2" /\ Digits[4] = "3" /\ Digits[5] = "4"
          /\ Digits[6] = "5" /\ Digits[7] = "6" /\ Digits[8] = "7" /\ Digits[9] = "8" /\ Digits[10] = "9"
      BY DEF Digits
    <3>2. /\ Digits[1] \in Char /\ Digits[2] \in Char /\ Digits[3] \in Char /\ Digits[4] \in Char
          /\ Digits[5] \in Char /\ Digits[6] \in Char /\ Digits[7] \in Char /\ Digits[8] \in Char
          /\ Digits[9] \in Char /\ Digits[10] \in Char
      BY <3>1 DEF Char
    <3>3. \A e \in 1..10 :
            e = 1 \/ e = 2 \/ e = 3 \/ e = 4 \/ e = 5 \/ e = 6 \/ e = 7 \/ e = 8 \/ e = 9 \/ e = 10
      OBVIOUS
    <3>4. \A e \in 1..10 : Digits[e] \in Char
      BY <3>2, <3>3
    <3>5. \A e \in 0..9 : e + 1 \in 1..10
      OBVIOUS
    <3>6. QED
      BY <3>4, <3>5
  <2> HIDE DEF x
  <2>7. x[k] \in Char /\ IsDigit(x[k]) /\ DigitValue(x[k]) = d
    BY <2>5, <2>6, DigitsAre
  <2>8. QED
    BY <2>2, <2>3, <2>4, <2>7
<1>7. x \in Seq(Char) /\ Len(x) = count
  <2>1. x = [k \in 1..count |-> x[k]]
    OBVIOUS
  <2> HIDE DEF x
  <2>2. x \in [1..count -> Char] /\ count \in Nat
    BY <1>5, <1>6, <2>1
  <2>3. QED
    BY <2>2
<1> HIDE DEF x
<1> DEFINE h == [k \in 0..count |-> rest[count - k]]
<1>8. h \in [0..count -> Nat] /\ h[0] = 0 /\ h[count] = number
  <2>1. \A k \in 0..count : count - k \in 0..10
    BY <1>5
  <2>2. 0 \in 0..count /\ count \in 0..count /\ count - 0 = count /\ count - count = 0
    BY <1>5
  <2>3. QED
    BY <1>4, <1>5, <2>1, <2>2
<1>9. \A k \in 1..count : h[k] = 10 * h[k - 1] + DigitValue(x[k])
  <2>1. TAKE k \in 1..count
  <2>2. k \in 0..count /\ k - 1 \in 0..count
    BY <1>5
  <2>3. QED
    BY <1>6, <2>2
<1> HIDE DEF h
<1>10. Numeral(x, number)
  <2>1. Horner(h, x) /\ h[Len(x)] = number
    BY <1>7, <1>8, <1>9 DEF Horner
  <2>2. QED
    BY <1>6, <1>7, <2>1 DEF Numeral
<1>11. Digitful(x, number)
  <2>1. /\ number < 100 => rest[2] = 0
        /\ number < 1000 => rest[3] = 0
        /\ number >= 10 => rest[1] > 0
        /\ number >= 100 => rest[2] > 0
        /\ number >= 1000 => rest[3] > 0
        /\ number < 10 => rest[1] = 0
    BY <1>3, QuotientsAre
  <2> DEFINE S(m) == {k \in m..10 : rest[k] = 0}
  <2>2. ASSUME NEW m \in 0..9, rest[m] = 0 PROVE count <= m
    <3>1. SUFFICES ASSUME count > m PROVE FALSE
      BY <1>5
    <3> DEFINE T == {k \in 0..(10 - m) : rest[m + k] = 0}
    <3>2. 0 \in T
      BY <2>2
    <3>3. ASSUME NEW k \in 0..((10 - m) - 1), k \in T PROVE k + 1 \in T
      <4>1. m + k \in 0..10 /\ m + (k + 1) \in 1..10 /\ (m + (k + 1)) - 1 = m + k
        OBVIOUS
      <4>2. rest[m + (k + 1)] = rest[m + k] \div 10
        BY <1>4, <4>1
      <4>3. rest[m + k] = 0
        BY <3>3
      <4>4. QED
        BY <4>2, <4>3
    <3>4. 0..(10 - m) \subseteq T
      <4> HIDE DEF T
      <4>1. 10 - m \in Nat
        OBVIOUS
      <4>2. QED
        BY <3>2, <3>3, <4>1, InductionUpTo
    <3>5. (count - 1) - m \in 0..(10 - m) /\ m + ((count - 1) - m) = count - 1
      BY <1>5, <3>1
    <3>6. rest[count - 1] = 0
      BY <3>4, <3>5
    <3>7. QED
      BY <1>5, <3>6
  <2>3. ASSUME NEW m \in 0..10, rest[m] > 0 PROVE count # m
    BY <1>5, <2>3
  <2>4. rest[0] > 0
    BY <1>4
  <2>5. QED
    BY <1>2, <1>5, <1>7, <2>1, <2>2, <2>3, <2>4 DEF Digitful
<1>12. QED
  BY <1>1, <1>10, <1>11

LEMMA IntsAreNat == \A k \in Ints : k \in Nat
BY SMT DEF Ints

(* What is written of a number.                                            *)
LEMMA NumbersWritten ==
  ASSUME NEW k \in Ints
  PROVE  /\ Numeral(p1itoa(k), k) /\ Digitful(p1itoa(k), k)
         /\ p1putint(k) = p1itoa(k)
         /\ k > 0 => p1itoa(-k) = <<"-">> \o p1itoa(k)
<1>1. k \in Nat
  BY SMT DEF Ints
<1>2. CASE k = 0
  <2>1. Numeral(<<"0">>, 0)
    <3> DEFINE x == << >>
               h == [i \in 0..0 |-> 0]
    <3>1. x \in Seq(Char) /\ Len(x) = 0
      OBVIOUS
    <3>2. Horner(h, x) /\ h[Len(x)] = 0
      BY <3>1 DEF Horner
    <3>3. \A i \in 1..Len(x) : FALSE
      BY <3>1
    <3> HIDE DEF x, h
    <3>4. Numeral(x, 0)
      BY <3>1, <3>2, <3>3 DEF Numeral
    <3>5. Numeral(<<"0">> \o x, 0)
      BY <3>4, ZeroBefore
    <3>6. <<"0">> \in Seq({"0"})
      OBVIOUS
    <3>7. <<"0">> \o x = <<"0">>
      BY <3>6, ConcatEmptySeq DEF x
    <3>8. QED
      BY <3>5, <3>7
  <2>2. p1itoa(k) = <<"0">> /\ p1putint(k) = <<"0">>
    BY <1>2 DEF p1itoa, p1putint
  <2>3. Len(<<"0">>) = 1
    OBVIOUS
  <2>4. Digitful(<<"0">>, 0)
    BY <2>3 DEF Digitful
  <2>5. QED
    BY <1>2, <2>1, <2>2, <2>4
<1>3. CASE k > 0
  <2>1. k # 0 /\ -k # 0 /\ ~(-k > 0) /\ -(-k) = k
    BY <1>1, <1>3
  <2>2. p1itoa(k) = Decimal(k) /\ p1putint(k) = Decimal(k)
    BY <1>3, <2>1 DEF p1itoa, p1putint
  <2>3. p1itoa(-k) = <<"-">> \o Decimal(-(-k))
    BY <2>1 DEF p1itoa
  <2>4. QED
    BY <1>3, <2>1, <2>2, <2>3, DecimalIs
<1>4. QED
  BY <1>1, <1>2, <1>3

(* A numeral reads as its number.                                          *)
LEMMA NumeralReads ==
  ASSUME NEW x, NEW number, Numeral(x, number)
  PROVE  p1atoi(x) = number
<1>1. << >> \in Seq(Char)
  OBVIOUS
<1>2. p1atoi(x \o << >>) = number
  BY <1>1, AtoiReads
<1>3. x \in Seq(Char)
  BY DEF Numeral
<1>4. QED
  BY <1>2, <1>3, ConcatEmptySeq

(* A field is filled with one character.                                   *)
LEMMA FillIs ==
  ASSUME NEW c \in Char, NEW count \in Int
  PROVE  /\ Fill(c, count) \in Seq(Char)
         /\ Len(Fill(c, count)) = IF count > 0 THEN count ELSE 0
         /\ Fill(c, count) # << >> => Fill(c, count)[1] = c
<1> DEFINE m == IF count > 0 THEN count ELSE 0
<1>1. m \in Nat /\ Fill(c, count) = [i \in 1..m |-> c]
  BY DEF Fill
<1> HIDE DEF m
<1>2. Fill(c, count) \in Seq(Char) /\ Len(Fill(c, count)) = m /\ \A i \in 1..m : Fill(c, count)[i] = c
  BY <1>1
<1>3. Fill(c, count) # << >> => m \in Nat \ {0}
  BY <1>2, EmptySeq
<1>4. QED
  BY <1>2, <1>3 DEF m

(* A number in a field of three, with zeros before or blanks behind it.    *)
LEMMA FieldsAre ==
  ASSUME NEW k \in Ints
  PROVE  /\ p1atoi(p1strpack(p1itoa(k), -3, "0")) = k
         /\ Len(p1strpack(p1itoa(k), -3, "0")) = IF k < 1000 THEN 3 ELSE Len(p1itoa(k))
         /\ p1atoi(p1strpack(p1itoa(k), 3, " ")) = k
         /\ Len(p1strpack(p1itoa(k), 3, " ")) = IF k < 1000 THEN 3 ELSE Len(p1itoa(k))
<1> DEFINE x == p1itoa(k)
           l == Len(x)
           zeros == Fill("0", 3 - l)
           blanks == Fill(" ", 3 - l)
<1>1. Numeral(x, k) /\ Digitful(x, k)
  BY NumbersWritten
<1>2. "0" \in Char /\ " " \in Char
  BY DEF Char
<1>3. x \in Seq(Char) /\ l \in Nat /\ k \in Nat
  BY <1>1, IntsAreNat DEF Numeral
<1>4. IF k < 1000 THEN l \in 1..3 ELSE l > 3
  BY <1>1, <1>3 DEF Digitful
<1> HIDE DEF x, l
<1>5. /\ zeros \in Seq(Char) /\ blanks \in Seq(Char) /\ (blanks # << >> => blanks[1] = " ")
      /\ Len(zeros) = IF 3 - l > 0 THEN 3 - l ELSE 0
      /\ Len(blanks) = IF 3 - l > 0 THEN 3 - l ELSE 0
  <2>1. 3 - l \in Int
    BY <1>3
  <2> HIDE DEF zeros, blanks
  <2>2. QED
    BY <1>2, <2>1, FillIs DEF zeros, blanks
<1>6. Numeral(zeros \o x, k)
  <2>1. 3 - l \in Int
    BY <1>3
  <2>2. QED
    BY <1>1, <2>1, ZerosBefore
<1>7. p1strpack(x, -3, "0") = zeros \o x /\ p1strpack(x, 3, " ") = x \o blanks
  BY DEF p1strpack, l
<1> HIDE DEF zeros, blanks
<1>8. p1atoi(zeros \o x) = k
  BY <1>6, NumeralReads
<1>9. p1atoi(x \o blanks) = k
  BY <1>1, <1>5, AtoiReads, DigitsAre
<1>10. Len(zeros \o x) = Len(zeros) + l /\ Len(x \o blanks) = l + Len(blanks)
  BY <1>3, <1>5, ConcatProperties DEF l
<1>11. /\ Len(zeros \o x) = (IF k < 1000 THEN 3 ELSE l)
       /\ Len(x \o blanks) = (IF k < 1000 THEN 3 ELSE l)
  <2> DEFINE a == Len(zeros)
             b == Len(blanks)
  <2>1. a = (IF 3 - l > 0 THEN 3 - l ELSE 0) /\ b = (IF 3 - l > 0 THEN 3 - l ELSE 0)
    <3> HIDE DEF zeros, blanks, l, x
    <3>1. QED
      BY <1>5
  <2>2. Len(zeros \o x) = a + l /\ Len(x \o blanks) = l + b
    BY <1>10
  <2> HIDE DEF a, b
  <2>3. CASE k < 1000
    <3>1. l \in 1..3
      BY <1>4, <2>3
    <3>2. QED
      BY <2>3, <2>1, <2>2, <3>1
  <2>4. CASE ~(k < 1000)
    <3>1. l > 3
      BY <1>4, <2>4
    <3>2. a = 0 /\ b = 0
      BY <1>3, <2>1, <3>1
    <3>3. QED
      BY <1>3, <2>4, <2>2, <3>2
  <2>5. QED
    BY <2>3, <2>4
<1>12. QED
  <2>1. p1strpack(p1itoa(k), -3, "0") = zeros \o x /\ p1strpack(p1itoa(k), 3, " ") = x \o blanks
    BY <1>7 DEF x
  <2>2. Len(p1itoa(k)) = l
    BY DEF x, l
  <2> HIDE DEF x, l
  <2>3. p1atoi(p1strpack(p1itoa(k), -3, "0")) = k /\ p1atoi(p1strpack(p1itoa(k), 3, " ")) = k
    BY <1>8, <1>9, <2>1
  <2>4. Len(p1strpack(p1itoa(k), -3, "0")) = IF k < 1000 THEN 3 ELSE Len(p1itoa(k))
    BY <1>11, <2>1, <2>2
  <2>5. Len(p1strpack(p1itoa(k), 3, " ")) = IF k < 1000 THEN 3 ELSE Len(p1itoa(k))
    BY <1>11, <2>1, <2>2
  <2>6. QED
    BY <2>3, <2>4, <2>5

LEMMA CharsConcat ==
  \A v, w \in Seq(Char) :
    /\ v \o w \in Seq(Char) /\ Len(v \o w) = Len(v) + Len(w)
    /\ Len(v) \in Nat /\ Len(w) \in Nat
    /\ \A i \in 1..Len(v) : (v \o w)[i] = v[i]
    /\ \A i \in 1..Len(w) : (v \o w)[Len(v) + i] = w[i]
OBVIOUS

(* The microseconds of k whole milliseconds and u more, u of a whole one;  *)
(* the seconds in k milliseconds and what is left.                         *)
Micros(usec, k, u) == k \in Ints /\ u \in Nat /\ u < 1000 /\ usec = 1000 * k + u
Seconds(k) == k \div 1000
Millis(k) == k % 1000

(* What Elapsed computes.                                                  *)
LEMMA SecondsAre ==
  ASSUME NEW k, NEW u, NEW usec, Micros(usec, k, u)
  PROVE  /\ usec \div 1000000 = Seconds(k)
         /\ usec \div 1000 - Seconds(k) * 1000 = Millis(k)
         /\ Seconds(k) \in Ints /\ Millis(k) \in Ints
         /\ Millis(k) \in Nat /\ Millis(k) < 1000 /\ Seconds(k) \in Nat
<1>1. k \in Nat /\ u \in Nat /\ u < 1000 /\ usec = 1000 * k + u
  BY SMT DEF Micros, Ints
<1>2. /\ k \div 1000 \in Nat /\ k % 1000 \in Nat /\ k % 1000 < 1000
      /\ k = 1000 * (k \div 1000) + (k % 1000)
  BY SMT, <1>1
<1>3. PICK c \in Nat, d \in Nat : c = k \div 1000 /\ d = k % 1000 /\ d < 1000 /\ k = 1000 * c + d
  BY SMT, <1>2
<1>4. usec \div 1000000 = c
  BY SMT, <1>1, <1>3
<1>5. usec \div 1000 - c * 1000 = d
  BY SMT, <1>1, <1>3
<1>6. Seconds(k) = c /\ Millis(k) = d
  BY SMT, <1>3 DEF Seconds, Millis
<1>7. c \in Ints /\ d \in Ints
  BY SMT, <1>1, <1>3 DEF Micros, Ints
<1>8. QED
  BY SMT, <1>3, <1>4, <1>5, <1>6, <1>7

(* What Elapsed puts together.                                             *)
LEMMA ElapsedParts ==
  ASSUME NEW k, NEW u, NEW usec, Micros(usec, k, u)
  PROVE  Elapsed(usec) = p1putint(Seconds(k)) \o <<".">>
                         \o (IF Millis(k) < 100 THEN <<"0">> ELSE << >>)
                         \o (IF Millis(k) < 10 THEN <<"0">> ELSE << >>) \o p1itoa(Millis(k))
<1>1. usec \div 1000000 = Seconds(k) /\ usec \div 1000 - Seconds(k) * 1000 = Millis(k)
  BY SMT, SecondsAre
<1> DEFINE perLeft == usec \div 1000000
           perRight == usec \div 1000 - perLeft * 1000
<1>2. Elapsed(usec) = p1putint(perLeft) \o <<".">>
                      \o (IF perRight < 100 THEN <<"0">> ELSE << >>)
                      \o (IF perRight < 10 THEN <<"0">> ELSE << >>) \o p1itoa(perRight)
  BY SMT DEF Elapsed
<1>3. perLeft = Seconds(k)
  BY SMT, <1>1
<1> HIDE DEF perLeft
<1>4. perRight = Millis(k)
  <2>1. usec \div 1000 - perLeft * 1000 = usec \div 1000 - Seconds(k) * 1000
    BY <1>3
  <2>2. QED
    BY SMT, <1>1, <2>1
<1> HIDE DEF perRight
<1>5. QED
  BY SMT, <1>2, <1>3, <1>4

(* Seconds, a point, and the milliseconds with three digits.               *)
LEMMA ElapsedIs ==
  ASSUME NEW k, NEW u, NEW usec, Micros(usec, k, u)
  PROVE  \E a, f : /\ Numeral(a, Seconds(k)) /\ Numeral(f, Millis(k)) /\ Len(f) = 3
                  /\ Elapsed(usec) = (a \o <<".">>) \o f
<1> DEFINE left == Seconds(k)
           right == Millis(k)
           a == p1putint(left)
           b == p1itoa(right)
           y == IF right < 100 THEN <<"0">> ELSE << >>
           z == IF right < 10 THEN <<"0">> ELSE << >>
           p == <<".">>
           f == y \o (z \o b)
<1>1. left \in Ints /\ right \in Ints /\ right \in Nat /\ left \in Nat
  BY SecondsAre
<1>2. Elapsed(usec) = (((a \o p) \o y) \o z) \o b
  BY ElapsedParts
<1>3. Numeral(a, left) /\ Numeral(b, right) /\ Digitful(b, right)
  <2> HIDE DEF left, right
  <2>1. p1putint(left) = p1itoa(left)
    BY <1>1, NumbersWritten
  <2>2. QED
    BY <1>1, <2>1, NumbersWritten
<1> HIDE DEF left, right, a, b
<1>4. a \in Seq(Char) /\ b \in Seq(Char)
  BY <1>3 DEF Numeral
<1>5. <<"0">> \in Seq(Char) /\ << >> \in Seq(Char) /\ p \in Seq(Char)
  <2>1. "0" \in Char /\ "." \in Char
    BY DEF Char
  <2>2. QED
    BY <2>1
<1>6. /\ y \in Seq(Char) /\ z \in Seq(Char)
      /\ Len(y) = (IF right < 100 THEN 1 ELSE 0) /\ Len(z) = (IF right < 10 THEN 1 ELSE 0)
  BY <1>5
<1>7. Numeral(z \o b, right)
  BY <1>3, <1>4, ZeroBefore, ConcatEmptySeq
<1>8. Numeral(f, right)
  <2> HIDE DEF z
  <2>1. z \o b \in Seq(Char)
    BY <1>7 DEF Numeral
  <2>2. QED
    BY <1>7, <2>1, ZeroBefore, ConcatEmptySeq
<1> HIDE DEF y, z, p
<1>9. Len(f) = 3
  <2>1. z \o b \in Seq(Char) /\ Len(z \o b) = Len(z) + Len(b)
    BY <1>4, <1>6, CharsConcat
  <2>2. Len(f) = Len(y) + (Len(z) + Len(b))
    BY <1>6, <2>1, CharsConcat
  <2>3. CASE right < 10
    <3>1. Len(b) = 1 /\ Len(y) = 1 /\ Len(z) = 1
      BY <1>1, <1>3, <1>6, <2>3 DEF Digitful
    <3>2. QED
      BY <2>2, <3>1
  <2>4. CASE right >= 10 /\ right < 100
    <3>1. Len(b) = 2 /\ Len(y) = 1 /\ Len(z) = 0
      BY <1>1, <1>3, <1>6, <2>4 DEF Digitful
    <3>2. QED
      BY <2>2, <3>1
  <2>5. CASE right >= 100
    <3>1. Len(b) = 3 /\ Len(y) = 0 /\ Len(z) = 0
      BY SMT, <1>1, <1>3, <1>6, <2>5, SecondsAre DEF Digitful, right
    <3>2. QED
      BY <2>2, <3>1
  <2>6. QED
    BY <1>1, <2>3, <2>4, <2>5
<1>10. (((a \o p) \o y) \o z) \o b = (a \o p) \o f
  <2> DEFINE ap == a \o p
  <2>1. ap \in Seq(Char)
    BY <1>4, <1>5, CharsConcat
  <2> HIDE DEF ap
  <2>2. ap \o y \in Seq(Char)
    BY <1>6, <2>1, CharsConcat
  <2>3. ((ap \o y) \o z) \o b = (ap \o y) \o (z \o b)
    BY <1>4, <1>6, <2>2, CharsAssociative
  <2>4. z \o b \in Seq(Char)
    BY <1>4, <1>6, CharsConcat
  <2>5. (ap \o y) \o (z \o b) = ap \o (y \o (z \o b))
    BY <1>6, <2>1, <2>4, CharsAssociative
  <2>6. QED
    BY <2>3, <2>5 DEF ap
<1> HIDE DEF f
<1>11. Elapsed(usec) = (a \o <<".">>) \o f
  BY <1>2, <1>10 DEF p
<1>12. QED
  BY <1>3, <1>8, <1>9, <1>11 DEF left, right

(* An elapsed time reads as its seconds and its milliseconds.              *)
LEMMA ElapsedReads ==
  ASSUME NEW k, NEW u, NEW usec, Micros(usec, k, u),
         NEW printed, printed = Elapsed(usec)
  PROVE  /\ printed[Len(printed) - 3] = "."
         /\ p1atoi(SubSeq(printed, 1, (Len(printed) - 3) - 1)) = Seconds(k)
         /\ p1atoi(SubSeq(printed, (Len(printed) - 3) + 1, Len(printed))) = Millis(k)
<1>1. PICK a, f : /\ Numeral(a, Seconds(k)) /\ Numeral(f, Millis(k)) /\ Len(f) = 3
                  /\ printed = (a \o <<".">>) \o f
  <2>1. \E a, f : /\ Numeral(a, Seconds(k)) /\ Numeral(f, Millis(k)) /\ Len(f) = 3
                  /\ Elapsed(usec) = (a \o <<".">>) \o f
    BY ElapsedIs
  <2>2. Elapsed(usec) = printed
    OBVIOUS
  <2>3. QED
    BY <2>1, <2>2
<1> DEFINE p == <<".">>
           l == Len(a)
<1>2. p \in Seq(Char) /\ Len(p) = 1 /\ p[1] = "."
  <2>1. "." \in Char
    BY DEF Char
  <2>2. QED
    BY <2>1
<1>3. a \in Seq(Char) /\ f \in Seq(Char) /\ l \in Nat
  BY <1>1 DEF Numeral
<1>4. printed = (a \o p) \o f
  BY <1>1
<1> HIDE DEF p
<1>5. a \o p \in Seq(Char) /\ Len(a \o p) = l + 1
  <2>1. a \o p \in Seq(Char) /\ Len(a \o p) = Len(a) + Len(p)
    BY <1>2, <1>3, CharsConcat
  <2>2. QED
    BY <1>2, <2>1
<1>6. p \o f \in Seq(Char) /\ printed = a \o (p \o f)
  <2>1. p \o f \in Seq(Char)
    BY <1>2, <1>3, CharsConcat
  <2>2. (a \o p) \o f = a \o (p \o f)
    BY <1>2, <1>3, CharsAssociative
  <2>3. QED
    BY <1>4, <2>1, <2>2
<1>7. printed \in Seq(Char) /\ Len(printed) = (l + 1) + 3
  <2>1. (a \o p) \o f \in Seq(Char) /\ Len((a \o p) \o f) = Len(a \o p) + Len(f)
    BY <1>3, <1>5, CharsConcat
  <2>2. QED
    BY <1>1, <1>4, <1>5, <2>1
<1>8. SubSeq(printed, 1, l) = a
  BY <1>3, <1>6, Parts
<1>9. SubSeq(printed, (l + 1) + 1, Len(printed)) = f
  BY <1>3, <1>4, <1>5, Parts
<1>10. printed[l + 1] = "."
  <2>1. l + 1 \in 1..Len(a \o p) /\ 1 \in 1..Len(p)
    BY <1>2, <1>3, <1>5
  <2>2. printed[l + 1] = (a \o p)[l + 1]
    BY <1>3, <1>4, <1>5, <2>1, CharsConcat
  <2>3. (a \o p)[l + 1] = p[1]
    BY <1>2, <1>3, <2>1, CharsConcat
  <2>4. QED
    BY <1>2, <2>2, <2>3
<1>11. Len(printed) - 3 = l + 1 /\ (Len(printed) - 3) - 1 = l
  BY <1>3, <1>7
<1>12. p1atoi(a) = Seconds(k) /\ p1atoi(f) = Millis(k)
  BY <1>1, NumeralReads
<1> HIDE DEF l
<1>13. QED
  BY <1>8, <1>9, <1>10, <1>11, <1>12

(* Every number of an int that is not negative reads as it was written.    *)
THEOREM NumbersReadBack == \A k \in Ints : ReadsBack(k)
<1>1. SUFFICES ASSUME NEW k \in Ints PROVE ReadsBack(k)
  OBVIOUS
<1>2. /\ p1atoi(p1itoa(k)) = k /\ p1atoi(p1putint(k)) = k
      /\ k > 0 => p1itoa(-k) = <<"-">> \o p1itoa(k)
  BY NumbersWritten, NumeralReads
<1> DEFINE Reads(usec) ==
             LET printed == Elapsed(1000 * k + usec)
                 point == Len(printed) - 3
             IN  /\ printed[point] = "."
                 /\ p1atoi(SubSeq(printed, 1, point - 1)) = k \div 1000
                 /\ p1atoi(SubSeq(printed, point + 1, Len(printed))) = k % 1000
<1>3. ASSUME NEW usec \in {0, 999} PROVE Reads(usec)
  <2>1. Micros(1000 * k + usec, k, usec)
    BY SMT DEF Micros
  <2> DEFINE printed == Elapsed(1000 * k + usec)
  <2>2. /\ printed[Len(printed) - 3] = "."
        /\ p1atoi(SubSeq(printed, 1, (Len(printed) - 3) - 1)) = Seconds(k)
        /\ p1atoi(SubSeq(printed, (Len(printed) - 3) + 1, Len(printed))) = Millis(k)
    <3> DEFINE time == 1000 * k + usec
    <3>1. Micros(time, k, usec) /\ printed = Elapsed(time)
      BY <2>1
    <3> HIDE DEF printed, time
    <3>2. QED
      BY <3>1, ElapsedReads
  <2>3. Seconds(k) = k \div 1000 /\ Millis(k) = k % 1000
    BY SMT DEF Seconds, Millis
  <2>4. QED
    BY SMT, <2>2, <2>3
<1>4. /\ p1atoi(p1strpack(p1itoa(k), -3, "0")) = k
      /\ Len(p1strpack(p1itoa(k), -3, "0")) = IF k < 1000 THEN 3 ELSE Len(p1itoa(k))
  BY FieldsAre
<1>5. /\ p1atoi(p1strpack(p1itoa(k), 3, " ")) = k
      /\ Len(p1strpack(p1itoa(k), 3, " ")) = IF k < 1000 THEN 3 ELSE Len(p1itoa(k))
  BY FieldsAre
<1>6. \A usec \in {0, 999} : Reads(usec)
  <2> HIDE DEF Reads
  <2>1. QED
    BY <1>3
<1>7. QED
  BY <1>2, <1>4, <1>5, <1>6 DEF ReadsBack

(* So does every number that is tried when the last copy has ended.        *)
THEOREM TimesRead == Spec => []TimesReadRight
<1>1. \A k \in 0..MsecMax : k \in Ints
  BY SMT, TextAssumption DEF Ints
<1>2. EveryNumber
  BY <1>1, NumbersReadBack DEF EveryNumber
<1>3. TimesReadRight
  BY <1>2 DEF TimesReadRight
<1>4. QED
  BY <1>3, PTL
-----------------------------------------------------------------------------
(* e is the first index of buf from i on that is in C, or the end.         *)
FirstOf(buf, i, C, e) ==
  /\ e \in i..(Len(buf) + 1)
  /\ e <= Len(buf) => e \in C
  /\ \A k \in i..(e - 1) : k \notin C

Holding(buf, C) == {k \in 1..Len(buf) : buf[k] \in C}
Lacking(buf, C) == {k \in 1..Len(buf) : buf[k] \notin C}

(* There is one first index.                                               *)
LEMMA FirstOfOne ==
  ASSUME NEW S, NEW buf \in Seq(S), NEW i \in Nat, NEW C, NEW d, NEW e,
         FirstOf(buf, i, C, d), FirstOf(buf, i, C, e)
  PROVE  d = e
<1>1. Len(buf) \in Nat /\ d \in i..(Len(buf) + 1) /\ e \in i..(Len(buf) + 1)
  BY DEF FirstOf
<1>2. ~(d < e)
  BY <1>1 DEF FirstOf
<1>3. ~(e < d)
  BY <1>1 DEF FirstOf
<1>4. QED
  BY <1>1, <1>2, <1>3

(* The two searches of p1strchr's callers.                                 *)
LEMMA NextIs ==
  ASSUME NEW S, NEW buf \in Seq(S), NEW i \in 1..(Len(buf) + 1), NEW C
  PROVE  /\ FirstOf(buf, i, Holding(buf, C), NextIn(buf, i, C))
         /\ FirstOf(buf, i, Lacking(buf, C), NextNotIn(buf, i, C))
<1> DEFINE l == Len(buf)
<1>1. l \in Nat
  OBVIOUS
<1>2. ASSUME NEW A, A \subseteq 1..l, \E k \in i..l : k \in A
      PROVE  \E k \in i..l : k \in A /\ \A x \in i..(k - 1) : x \notin A
  <2> DEFINE B == {k \in A : k >= i}
  <2>1. B \subseteq Nat /\ B # {}
    <3>1. PICK k \in i..l : k \in A
      BY <1>2
    <3>2. k \in B
      BY <1>1, <3>1
    <3>3. \A x \in A : x \in Nat
      BY <1>1, <1>2
    <3>4. QED
      BY <3>2, <3>3
  <2>2. PICK m \in B : \A x \in B : m <= x
    <3> HIDE DEF B
    <3>1. QED
      BY <2>1, Least
  <2>3. QED
    BY <1>1, <1>2, <2>2
<1> HIDE DEF l
<1>3. FirstOf(buf, i, Holding(buf, C), NextIn(buf, i, C))
  <2> DEFINE Is(k) == buf[k] \in C /\ \A x \in i..(k - 1) : buf[x] \notin C
             e == NextIn(buf, i, C)
  <2>1. \A k \in i..l : k \in Holding(buf, C) <=> buf[k] \in C
    BY DEF Holding, l
  <2>2. CASE \E k \in i..l : buf[k] \in C
    <3>1. \E k \in i..l : k \in Holding(buf, C) /\ \A x \in i..(k - 1) : x \notin Holding(buf, C)
      <4>1. Holding(buf, C) \subseteq 1..l /\ \E k \in i..l : k \in Holding(buf, C)
        BY <2>1, <2>2 DEF Holding, l
      <4>2. QED
        BY <1>2, <4>1
    <3>2. \E k \in i..l : Is(k)
      BY <1>1, <2>1, <3>1
    <3>3. e = CHOOSE k \in i..l : Is(k)
      BY <2>2 DEF NextIn, l
    <3> HIDE DEF Is, e
    <3>4. e \in i..l /\ Is(e)
      BY <3>2, <3>3
    <3>5. QED
      BY <1>1, <2>1, <3>4 DEF FirstOf, Is, e, l
  <2>3. CASE ~\E k \in i..l : buf[k] \in C
    <3>1. e = l + 1
      BY <2>3 DEF NextIn, l
    <3> HIDE DEF e
    <3>2. FirstOf(buf, i, Holding(buf, C), e)
      BY <1>1, <2>1, <2>3, <3>1 DEF FirstOf, l
    <3>3. QED
      BY <3>2 DEF e
  <2>4. QED
    BY <2>2, <2>3
<1>4. FirstOf(buf, i, Lacking(buf, C), NextNotIn(buf, i, C))
  <2> DEFINE Is(k) == buf[k] \notin C /\ \A x \in i..(k - 1) : buf[x] \in C
             e == NextNotIn(buf, i, C)
  <2>1. \A k \in i..l : k \in Lacking(buf, C) <=> buf[k] \notin C
    BY DEF Lacking, l
  <2>2. CASE \E k \in i..l : buf[k] \notin C
    <3>1. \E k \in i..l : k \in Lacking(buf, C) /\ \A x \in i..(k - 1) : x \notin Lacking(buf, C)
      <4>1. Lacking(buf, C) \subseteq 1..l /\ \E k \in i..l : k \in Lacking(buf, C)
        BY <2>1, <2>2 DEF Lacking, l
      <4>2. QED
        BY <1>2, <4>1
    <3>2. \E k \in i..l : Is(k)
      BY <1>1, <2>1, <3>1
    <3>3. e = CHOOSE k \in i..l : Is(k)
      BY <2>2 DEF NextNotIn, l
    <3> HIDE DEF Is, e
    <3>4. e \in i..l /\ Is(e)
      BY <3>2, <3>3
    <3>5. QED
      BY <1>1, <2>1, <3>4 DEF FirstOf, Is, e, l
  <2>3. CASE ~\E k \in i..l : buf[k] \notin C
    <3>1. e = l + 1
      BY <2>3 DEF NextNotIn, l
    <3> HIDE DEF e
    <3>2. FirstOf(buf, i, Lacking(buf, C), e)
      BY <1>1, <2>1, <2>3, <3>1 DEF FirstOf, l
    <3>3. QED
      BY <3>2 DEF e
  <2>4. QED
    BY <2>2, <2>3
<1>5. QED
  BY <1>3, <1>4

(* A quote is no blank.                                                    *)
LEMMA MarksDiffer == Quotes \cap Blanks = {}
BY DEF Quotes, Blanks

(* What p1getword finds: where the word starts, its quote if it has one,   *)
(* and where it ends.                                                      *)
LEMMA GetWordIs ==
  ASSUME NEW S, NEW buf \in Seq(S), NEW i \in 1..(Len(buf) + 1),
         NEW start, start = NextNotIn(buf, i, Blanks)
  PROVE  /\ start \in i..(Len(buf) + 1)
         /\ start > Len(buf) => p1getword(buf, i) = [next |-> -1, word |-> << >>]
         /\ start <= Len(buf) /\ buf[start] \in Quotes =>
              LET end == NextIn(buf, start + 1, {buf[start]})
              IN  p1getword(buf, i) = [next |-> IF end <= Len(buf) THEN end + 1 ELSE end,
                                       word |-> SubSeq(buf, start + 1, end - 1)]
         /\ start <= Len(buf) /\ buf[start] \notin Quotes =>
              LET end == NextIn(buf, start, Blanks)
              IN  p1getword(buf, i) = [next |-> end, word |-> SubSeq(buf, start, end - 1)]
<1>1. start \in i..(Len(buf) + 1)
  BY NextIs DEF FirstOf
<1>2. ASSUME start > Len(buf)
      PROVE  p1getword(buf, i) = [next |-> -1, word |-> << >>]
  BY <1>2 DEF p1getword
<1>3. ASSUME start <= Len(buf), buf[start] \in Quotes
      PROVE  LET end == NextIn(buf, start + 1, {buf[start]})
             IN  p1getword(buf, i) = [next |-> IF end <= Len(buf) THEN end + 1 ELSE end,
                                      word |-> SubSeq(buf, start + 1, end - 1)]
  <2>1. ~(start > Len(buf))
    BY <1>1, <1>3
  <2>2. QED
    BY <1>3, <2>1 DEF p1getword
<1>4. ASSUME start <= Len(buf), buf[start] \notin Quotes
      PROVE  LET end == NextIn(buf, start, Blanks)
             IN  p1getword(buf, i) = [next |-> end, word |-> SubSeq(buf, start, end - 1)]
  <2>1. ~(start > Len(buf))
    BY <1>1, <1>4
  <2>2. QED
    BY <1>4, <2>1 DEF p1getword
<1>5. QED
  BY <1>1, <1>2, <1>3, <1>4

(* Parts of a sequence, also empty ones.                                   *)
LEMMA SubSeqType ==
  ASSUME NEW S, NEW s \in Seq(S), NEW m \in 1..(Len(s) + 1), NEW e \in 0..Len(s)
  PROVE  /\ SubSeq(s, m, e) \in Seq(S)
         /\ Len(SubSeq(s, m, e)) = IF m <= e THEN (e - m) + 1 ELSE 0
         /\ \A k \in 1..((e - m) + 1) : SubSeq(s, m, e)[k] = s[(m + k) - 1]
<1>1. \A k \in m..e : s[k] \in S
  <2>1. ASSUME NEW k \in m..e PROVE s[k] \in S
    <3>1. k \in 1..Len(s)
      OBVIOUS
    <3>2. QED
      BY <3>1, ElementOfSeq
  <2>2. QED
    BY <2>1
<1>2. QED
  BY <1>1, SubSeqProperties

(* It goes on by at least one character, or there is no other word.        *)
LEMMA GetWordAdvances ==
  ASSUME NEW S, NEW buf \in Seq(S), NEW i \in 1..(Len(buf) + 1)
  PROVE  /\ p1getword(buf, i).word \in Seq(S)
         /\ \/ p1getword(buf, i).next = -1
            \/ p1getword(buf, i).next \in (i + 1)..(Len(buf) + 1)
<1> DEFINE l == Len(buf)
           start == NextNotIn(buf, i, Blanks)
           first == start + 1
           q == {buf[start]}
           close == NextIn(buf, first, q)
           blank == NextIn(buf, start, Blanks)
           got == p1getword(buf, i)
<1>1. l \in Nat /\ start \in i..(l + 1)
  <2>1. l \in Nat
    OBVIOUS
  <2>2. start \in i..(l + 1)
    BY GetWordIs
  <2>3. QED
    BY <2>1, <2>2
<1>2. ASSUME start > l
      PROVE  got.word \in Seq(S) /\ got.next = -1
  <2>1. got = [next |-> -1, word |-> << >>]
    BY <1>2, GetWordIs
  <2>2. QED
    BY <2>1
<1>3. ASSUME start <= l, buf[start] \in Quotes
      PROVE  got.word \in Seq(S) /\ got.next \in (i + 1)..(l + 1)
  <2>1. got = [next |-> IF close <= l THEN close + 1 ELSE close, word |-> SubSeq(buf, first, close - 1)]
    BY <1>3, GetWordIs
  <2>2. first \in 1..(l + 1) /\ first > i
    BY <1>1, <1>3
  <2>3. close \in first..(l + 1)
    <3> HIDE DEF first, q
    <3>1. QED
      BY <2>2, NextIs DEF FirstOf
  <2> HIDE DEF close
  <2>4. close - 1 \in 0..l
    BY <1>1, <2>2, <2>3
  <2>5. SubSeq(buf, first, close - 1) \in Seq(S)
    <3> HIDE DEF first
    <3>1. QED
      BY <2>2, <2>4, SubSeqType
  <2> HIDE DEF got, first
  <2>6. QED
    BY <1>1, <2>1, <2>2, <2>3, <2>5
<1>4. ASSUME start <= l, buf[start] \notin Quotes
      PROVE  got.word \in Seq(S) /\ got.next \in (i + 1)..(l + 1)
  <2>1. got = [next |-> blank, word |-> SubSeq(buf, start, blank - 1)]
    BY <1>4, GetWordIs
  <2>2. start \in 1..(l + 1) /\ start >= i
    BY <1>1
  <2>3. FirstOf(buf, start, Holding(buf, Blanks), blank) /\ FirstOf(buf, i, Lacking(buf, Blanks), start)
    <3>1. FirstOf(buf, i, Lacking(buf, Blanks), start)
      BY NextIs
    <3> HIDE DEF start
    <3>2. QED
      BY <2>2, <3>1, NextIs
  <2>4. blank \in start..(l + 1) /\ blank # start
    <3>1. start \notin Holding(buf, Blanks)
      BY <1>1, <1>4, <2>3 DEF FirstOf, Holding, Lacking
    <3>2. blank \in start..(l + 1) /\ (blank <= l => blank \in Holding(buf, Blanks))
      BY <2>3 DEF FirstOf
    <3> HIDE DEF blank, start
    <3>3. QED
      BY <1>4, <3>1, <3>2
  <2> HIDE DEF blank
  <2>5. blank - 1 \in 0..l
    BY <1>1, <2>2, <2>4
  <2>6. SubSeq(buf, start, blank - 1) \in Seq(S)
    <3> HIDE DEF start
    <3>1. QED
      BY <2>2, <2>5, SubSeqType
  <2> HIDE DEF got, start
  <2>7. QED
    BY <1>1, <2>1, <2>2, <2>4, <2>6
<1>5. start > l \/ (start <= l /\ buf[start] \in Quotes) \/ (start <= l /\ buf[start] \notin Quotes)
  BY <1>1
<1> HIDE DEF start, got
<1>6. QED
  BY <1>2, <1>3, <1>4, <1>5 DEF got

-----------------------------------------------------------------------------
(* The loop over the words: where it is and what it has after every turn.  *)
NextTurn(command, before) ==
  LET got == p1getword(command, before.at)
  IN  IF before.at = -1 THEN before
      ELSE [at |-> got.next, arg |-> IF got.next = -1 THEN before.arg ELSE Append(before.arg, got.word)]

Turns(command, f) ==
  /\ f[0] = [at |-> 1, arg |-> << >>]
  /\ \A k \in 1..(Len(command) + 1) : f[k] = NextTurn(command, f[k - 1])

(* After k turns there are k words, or the loop has ended.                 *)
AfterTurn(S, command, k) ==
  {r \in [at : {-1} \cup (1..(Len(command) + 1)), arg : Seq(Seq(S))] :
     /\ r.at # -1 => r.at > k /\ Len(r.arg) = k
     /\ Len(r.arg) <= Len(command)}

(* A turn adds a word and goes on, or ends the loop.                       *)
LEMMA TurnKeeps ==
  ASSUME NEW S, NEW command \in Seq(S), NEW k \in 0..Len(command), NEW r \in AfterTurn(S, command, k)
  PROVE  NextTurn(command, r) \in AfterTurn(S, command, k + 1)
<1> DEFINE l == Len(command)
           got == p1getword(command, r.at)
<1>1. /\ r \in [at : {-1} \cup (1..(l + 1)), arg : Seq(Seq(S))]
      /\ r.at # -1 => r.at > k /\ Len(r.arg) = k
      /\ Len(r.arg) <= l /\ l \in Nat
  BY DEF AfterTurn
<1>2. r.arg \in Seq(Seq(S)) /\ Len(r.arg) \in Nat
  BY <1>1
<1>3. CASE r.at = -1
  <2>1. NextTurn(command, r) = r
    BY <1>3 DEF NextTurn
  <2>2. QED
    BY <1>1, <1>3, <2>1 DEF AfterTurn
<1>4. CASE r.at # -1
  <2>1. r.at \in 1..(l + 1) /\ r.at > k /\ Len(r.arg) = k
    BY <1>1, <1>4
  <2>2. /\ got.word \in Seq(S)
        /\ got.next = -1 \/ got.next \in (r.at + 1)..(l + 1)
    BY <2>1, GetWordAdvances
  <2>3. NextTurn(command, r) =
          [at |-> got.next, arg |-> IF got.next = -1 THEN r.arg ELSE Append(r.arg, got.word)]
    BY <1>4 DEF NextTurn
  <2> DEFINE next == got.next
             word == got.word
             more == Append(r.arg, word)
  <2>4. more \in Seq(Seq(S)) /\ Len(more) = k + 1
    <3> HIDE DEF word
    <3>1. QED
      BY <1>2, <2>1, <2>2 DEF word
  <2>5. CASE next = -1
    <3>1. NextTurn(command, r) = [at |-> -1, arg |-> r.arg]
      BY <2>3, <2>5
    <3>2. QED
      BY <1>1, <1>2, <3>1 DEF AfterTurn
  <2>6. CASE next # -1
    <3>1. NextTurn(command, r) = [at |-> next, arg |-> more]
      BY <2>3, <2>6
    <3>2. next \in (r.at + 1)..(l + 1)
      BY <2>2, <2>6
    <3> HIDE DEF next, more
    <3>3. next \in 1..(l + 1) /\ next > k + 1 /\ k + 1 <= l
      BY <1>1, <2>1, <3>2
    <3> HIDE DEF l
    <3>4. QED
      BY <2>4, <3>1, <3>3 DEF AfterTurn, l
  <2>7. QED
    BY <2>5, <2>6
<1>5. QED
  BY <1>3, <1>4

(* Words is where the last turn ends.                                      *)
LEMMA WordsAre ==
  ASSUME NEW S, NEW command \in Seq(S)
  PROVE  \E f : /\ Turns(command, f) /\ Words(command) = f[Len(command) + 1]
                /\ \A k \in 0..(Len(command) + 1) : f[k] \in AfterTurn(S, command, k)
<1> DEFINE l == Len(command)
           N == l + 1
           c == [at |-> 1, arg |-> << >>]
           X == [k \in 0..N |-> AfterTurn(S, command, k)]
           All == UNION {X[k] : k \in 0..N}
           step == [p \in All \X (1..N) |-> NextTurn(command, p[1])]
           Eq(f) == f = [k \in 0..N |-> IF k = 0 THEN c ELSE NextTurn(command, f[k - 1])]
           loop == CHOOSE f : Eq(f)
<1>1. l \in Nat /\ N \in Nat
  OBVIOUS
<1>2. Words(command) = loop[N]
  BY DEF Words, NextTurn
<1>3. c \in X[0]
  <2>1. << >> \in Seq(Seq(S)) /\ Len(<< >>) = 0
    OBVIOUS
  <2>2. c \in [at : {-1} \cup (1..(l + 1)), arg : Seq(Seq(S))]
    BY <1>1, <2>1
  <2>3. QED
    BY <1>1, <2>1, <2>2 DEF AfterTurn
<1>4. ASSUME NEW k \in 1..N, NEW r \in X[k - 1]
      PROVE  NextTurn(command, r) \in X[k] /\ step[<<r, k>>] = NextTurn(command, r)
  <2>1. k - 1 \in 0..l /\ (k - 1) + 1 = k /\ k \in 0..N /\ k - 1 \in 0..N
    BY <1>1
  <2>2. r \in AfterTurn(S, command, k - 1) /\ r \in All
    BY <1>4, <2>1
  <2>3. NextTurn(command, r) \in AfterTurn(S, command, (k - 1) + 1)
    BY <2>1, <2>2, TurnKeeps
  <2>4. X[k] = AfterTurn(S, command, k)
    BY <2>1
  <2>5. step[<<r, k>>] = NextTurn(command, r)
    <3> HIDE DEF All, N
    <3>1. QED
      BY <2>2
  <2>6. QED
    BY <2>1, <2>3, <2>4, <2>5
<1>5. Leads(X, N, step)
  <2> HIDE DEF X, N, step
  <2>1. QED
    BY <1>4 DEF Leads
<1>6. PICK f : Repeats(f, N, c, step) /\ \A k \in 0..N : f[k] \in X[k]
  <2> HIDE DEF X, N, step, c
  <2>1. QED
    BY <1>1, <1>3, <1>5, InvariantRecursion
<1>7. Eq(f)
  <2>1. f = [k \in 0..N |-> IF k = 0 THEN c ELSE step[<<f[k - 1], k>>]]
    BY <1>6 DEF Repeats
  <2>2. \A k \in 0..N : (IF k = 0 THEN c ELSE step[<<f[k - 1], k>>])
                        = IF k = 0 THEN c ELSE NextTurn(command, f[k - 1])
    <3>1. TAKE k \in 0..N
    <3>2. CASE k = 0
      BY <3>2
    <3>3. CASE k # 0
      <4>1. k \in 1..N /\ k - 1 \in 0..N
        BY <1>1, <3>3
      <4>2. f[k - 1] \in X[k - 1]
        BY <1>6, <4>1
      <4>3. step[<<f[k - 1], k>>] = NextTurn(command, f[k - 1])
        BY <1>4, <4>1, <4>2
      <4>4. QED
        BY <3>3, <4>3
    <3>4. QED
      BY <3>2, <3>3
  <2> HIDE DEF step, c, N
  <2>3. QED
    BY <2>1, <2>2
<1>8. Eq(loop)
  <2> HIDE DEF Eq
  <2>1. QED
    BY <1>7
<1> HIDE DEF loop
<1>9. \A k \in 0..N : loop[k] = IF k = 0 THEN c ELSE NextTurn(command, loop[k - 1])
  <2> HIDE DEF c, N
  <2>1. QED
    BY <1>8
<1>10. loop[0] = c /\ \A k \in 1..N : loop[k] = NextTurn(command, loop[k - 1])
  <2>1. 0 \in 0..N /\ \A k \in 1..N : k \in 0..N /\ k # 0
    BY <1>1
  <2> HIDE DEF N, c
  <2>2. QED
    BY <1>9, <2>1
<1>11. \A k \in 0..N : loop[k] \in X[k]
  <2>1. loop[0] \in X[0]
    BY <1>3, <1>10
  <2>2. \A k \in 1..N : loop[k - 1] \in X[k - 1] => loop[k] \in X[k]
    BY <1>4, <1>10
  <2> HIDE DEF X, N
  <2>3. QED
    BY <1>1, <2>1, <2>2, InvariantValues
<1>12. \A k \in 0..N : loop[k] \in AfterTurn(S, command, k)
  BY <1>11
<1>13. Turns(command, loop)
  BY <1>10 DEF Turns
<1>14. QED
  BY <1>2, <1>12, <1>13

(* Whatever a command is, its words and the final NULL fit into arg.       *)
LEMMA SlotsSuffice ==
  ASSUME NEW S, NEW command \in Seq(S)
  PROVE  FitsSlots(command)
<1>1. Words(command) \in AfterTurn(S, command, Len(command) + 1) /\ Len(command) \in Nat
  <2>1. Len(command) \in Nat /\ Len(command) + 1 \in 0..(Len(command) + 1)
    OBVIOUS
  <2>2. QED
    BY <2>1, WordsAre
<1> DEFINE r == Words(command)
<1> HIDE DEF r
<1>2. /\ r.at \in {-1} \cup (1..(Len(command) + 1))
      /\ r.at # -1 => r.at > Len(command) + 1
      /\ Len(r.arg) <= Len(command) /\ Len(r.arg) \in Nat
  BY <1>1 DEF AfterTurn, r
<1>3. r.at = -1 /\ Len(r.arg) < Len(command) + 1
  BY <1>1, <1>2
<1>4. QED
  BY <1>3 DEF FitsSlots, Slots, r

-----------------------------------------------------------------------------
(* A word that can be written in one of the quotes.                        *)
Quotable(word) == \E q \in Quotes : \A k \in DOMAIN word : word[k] # q

InQuotes(v, x, q) == /\ q \in Quotes /\ (\A k \in 1..Len(v) : v[k] # q) /\ Len(x) = Len(v) + 2
                     /\ x[1] = q /\ x[Len(v) + 2] = q /\ \A k \in 1..Len(v) : x[k + 1] = v[k]
Unquoted(v, x) == x = v /\ v # << >> /\ v[1] \notin Quotes /\ \A k \in 1..Len(v) : v[k] \notin Blanks

(* A word is written in quotes or as it is.                                *)
LEMMA QuotedIs ==
  ASSUME NEW S, Quotes \subseteq S, NEW v \in Seq(S), Quotable(v)
  PROVE  /\ Quoted(v) \in Seq(S)
         /\ (\E q \in Quotes : InQuotes(v, Quoted(v), q)) \/ Unquoted(v, Quoted(v))
         /\ Quoted(v) # v => \E q \in Quotes : InQuotes(v, Quoted(v), q)
<1> DEFINE needs == v = << >> \/ v[1] \in Quotes \/ \E k \in DOMAIN v : v[k] \in Blanks
           Free(c) == \A k \in DOMAIN v : v[k] # c
           q == CHOOSE c \in Quotes : Free(c)
           x == (<<q>> \o v) \o <<q>>
<1>1. DOMAIN v = 1..Len(v) /\ Len(v) \in Nat
  OBVIOUS
<1>2. CASE needs
  <2>1. Quoted(v) = x
    BY <1>2 DEF Quoted
  <2>2. q \in Quotes /\ Free(q)
    <3>1. \E c \in Quotes : Free(c)
      BY DEF Quotable
    <3> HIDE DEF Free
    <3>2. QED
      BY <3>1
  <2> HIDE DEF q
  <2> DEFINE o == <<q>>
  <2>3. o \in Seq(S) /\ Len(o) = 1 /\ o[1] = q
    BY <2>2
  <2> HIDE DEF o
  <2>4. /\ o \o v \in Seq(S) /\ Len(o \o v) = 1 + Len(v)
        /\ \A k \in 1..(1 + Len(v)) : (o \o v)[k] = IF k <= 1 THEN o[k] ELSE v[k - 1]
    <3>1. /\ o \o v \in Seq(S) /\ Len(o \o v) = Len(o) + Len(v)
          /\ \A k \in 1..(Len(o) + Len(v)) : (o \o v)[k] = IF k <= Len(o) THEN o[k] ELSE v[k - Len(o)]
      BY <2>3, ConcatProperties
    <3>2. QED
      BY <2>3, <3>1
  <2> DEFINE y == o \o v
             z == y \o o
  <2>5. /\ y \in Seq(S) /\ Len(y) = 1 + Len(v) /\ y[1] = q
        /\ \A k \in 1..Len(v) : y[k + 1] = v[k]
    <3>1. \A k \in 1..Len(v) : k + 1 \in 1..(1 + Len(v)) /\ ~(k + 1 <= 1) /\ (k + 1) - 1 = k
      BY <1>1
    <3>2. 1 \in 1..(1 + Len(v))
      BY <1>1
    <3>3. QED
      BY <2>3, <2>4, <3>1, <3>2
  <2> HIDE DEF y
  <2>6. /\ z \in Seq(S) /\ Len(z) = Len(y) + Len(o)
        /\ \A k \in 1..(Len(y) + Len(o)) : z[k] = IF k <= Len(y) THEN y[k] ELSE o[k - Len(y)]
    BY <2>3, <2>5, ConcatProperties
  <2>7. Len(z) = Len(v) + 2 /\ z[1] = q /\ z[Len(v) + 2] = q /\ \A k \in 1..Len(v) : z[k + 1] = v[k]
    <3>1. Len(y) + Len(o) = Len(v) + 2 /\ Len(y) = Len(v) + 1
      BY <1>1, <2>3, <2>5
    <3>2. 1 \in 1..(Len(v) + 2) /\ 1 <= Len(v) + 1
      BY <1>1
    <3>3. /\ Len(v) + 2 \in 1..(Len(v) + 2) /\ ~(Len(v) + 2 <= Len(v) + 1)
          /\ (Len(v) + 2) - (Len(v) + 1) = 1
      BY <1>1
    <3>4. \A k \in 1..Len(v) : k + 1 \in 1..(Len(v) + 2) /\ k + 1 <= Len(v) + 1
      BY <1>1
    <3> HIDE DEF z
    <3>5. \A k \in 1..(Len(v) + 2) : z[k] = IF k <= Len(v) + 1 THEN y[k] ELSE o[k - (Len(v) + 1)]
      BY <2>6, <3>1
    <3>6. Len(z) = Len(v) + 2
      BY <2>6, <3>1
    <3>7. z[1] = q
      BY <2>5, <3>2, <3>5
    <3>8. z[Len(v) + 2] = q
      BY <2>3, <3>3, <3>5
    <3>9. \A k \in 1..Len(v) : z[k + 1] = v[k]
      BY <2>5, <3>4, <3>5
    <3>10. QED
      BY <3>6, <3>7, <3>8, <3>9
  <2>8. x = z
    BY DEF o, y
  <2> HIDE DEF x, z, Free
  <2>9. InQuotes(v, x, q)
    <3>1. \A k \in 1..Len(v) : v[k] # q
      BY <1>1, <2>2 DEF Free
    <3>2. QED
      BY <2>2, <2>7, <2>8, <3>1 DEF InQuotes
  <2>10. QED
    BY <2>1, <2>2, <2>6, <2>8, <2>9
<1>3. CASE ~needs
  <2>1. Quoted(v) = v
    BY <1>3 DEF Quoted
  <2>2. Unquoted(v, v)
    BY <1>1, <1>3 DEF Unquoted
  <2>3. QED
    BY <2>1, <2>2
<1>4. QED
  BY <1>2, <1>3

(* The text x is in buf from start on.                                     *)
Stands(buf, start, x) ==
  /\ start \in Nat \ {0} /\ (start + Len(x)) - 1 <= Len(buf)
  /\ \A k \in 1..Len(x) : buf[(start + k) - 1] = x[k]

(* It is found there.                                                      *)
LEMMA StandsIs ==
  ASSUME NEW S, NEW buf \in Seq(S), NEW v \in Seq(S), NEW start, Stands(buf, start, v)
  PROVE  SubSeq(buf, start, (start + Len(v)) - 1) = v
<1> DEFINE e == (start + Len(v)) - 1
           u == SubSeq(buf, start, e)
<1>1. Len(v) \in Nat /\ Len(buf) \in Nat /\ start \in Nat \ {0} /\ e <= Len(buf)
  BY DEF Stands
<1>2. start \in 1..(Len(buf) + 1) /\ e \in 0..Len(buf)
  BY <1>1
<1>3. /\ u \in Seq(S) /\ Len(u) = IF start <= e THEN (e - start) + 1 ELSE 0
      /\ \A k \in 1..((e - start) + 1) : u[k] = buf[(start + k) - 1]
  <2> HIDE DEF e
  <2>1. QED
    BY <1>2, SubSeqType
<1> HIDE DEF u
<1>4. Len(u) = Len(v) /\ (e - start) + 1 = Len(v)
  BY <1>1, <1>3
<1>5. \A k \in 1..Len(v) : u[k] = v[k]
  BY <1>3, <1>4 DEF Stands
<1>6. QED
  BY <1>3, <1>4, <1>5, SeqEqual DEF u

(* A word that was written, behind blanks, is read as it was.              *)
LEMMA GetsWord ==
  ASSUME NEW S, Quotes \subseteq S, NEW buf \in Seq(S), NEW v \in Seq(S), Quotable(v),
         NEW i \in 1..(Len(buf) + 1), NEW start \in i..Len(buf),
         \A k \in i..(start - 1) : buf[k] \in Blanks,
         Stands(buf, start, Quoted(v)),
         Quoted(v) = v => \/ start + Len(v) = Len(buf) + 1
                          \/ start + Len(v) <= Len(buf) /\ buf[start + Len(v)] \in Blanks
  PROVE  p1getword(buf, i) = [next |-> start + Len(Quoted(v)), word |-> v]
<1> DEFINE l == Len(buf)
           m == Len(v)
           x == Quoted(v)
<1>1. l \in Nat /\ m \in Nat /\ x \in Seq(S) /\ start \in Nat \ {0} /\ start <= l
  BY QuotedIs
<1>2. \/ \E q \in Quotes : InQuotes(v, x, q)
      \/ Unquoted(v, x)
  BY QuotedIs
<1>3. Len(x) >= 1 /\ buf[start] = x[1] /\ (start + Len(x)) - 1 <= l
  <2>1. Len(x) \in Nat \ {0}
    <3>1. CASE Unquoted(v, x)
      BY <1>1, <3>1, EmptySeq DEF Unquoted
    <3>2. CASE \E q \in Quotes : InQuotes(v, x, q)
      <4>1. Len(x) = m + 2
        BY <3>2 DEF InQuotes
      <4>2. QED
        BY <1>1, <4>1
    <3>3. QED
      BY <1>2, <3>1, <3>2
  <2>2. 1 \in 1..Len(x) /\ (start + 1) - 1 = start
    BY <1>1, <2>1
  <2>3. (start + Len(x)) - 1 <= l /\ \A k \in 1..Len(x) : buf[(start + k) - 1] = x[k]
    BY DEF Stands
  <2> HIDE DEF x, l
  <2>4. buf[(start + 1) - 1] = x[1]
    BY <2>2, <2>3
  <2>5. QED
    BY <2>1, <2>2, <2>3, <2>4
<1> DEFINE first == NextNotIn(buf, i, Blanks)
<1>4. ASSUME buf[start] \notin Blanks PROVE first = start
  <2>1. FirstOf(buf, i, Lacking(buf, Blanks), start)
    BY <1>1, <1>4 DEF FirstOf, Lacking
  <2>2. FirstOf(buf, i, Lacking(buf, Blanks), first)
    BY NextIs
  <2>3. i \in Nat
    OBVIOUS
  <2> HIDE DEF first
  <2>4. QED
    BY <2>1, <2>2, <2>3, FirstOfOne
<1>5. ASSUME NEW q \in Quotes, InQuotes(v, x, q)
      PROVE  p1getword(buf, i) = [next |-> start + Len(x), word |-> v]
  <2>1. buf[start] = q /\ Len(x) = m + 2 /\ first = start
    BY <1>3, <1>4, <1>5, MarksDiffer DEF InQuotes
  <2> DEFINE s == start + 1
             close == NextIn(buf, s, {q})
             e == s + m
  <2>2. s \in 1..(l + 1) /\ e \in s..l /\ s \in Nat
    BY <1>1, <1>3, <2>1
  <2>3. buf[e] = q
    <3>1. m + 2 \in 1..Len(x) /\ (start + (m + 2)) - 1 = e
      BY <1>1, <2>1
    <3>2. buf[(start + (m + 2)) - 1] = x[m + 2]
      BY <3>1 DEF Stands
    <3>3. QED
      BY <1>5, <3>1, <3>2 DEF InQuotes
  <2>4. \A k \in 1..m : buf[(s + k) - 1] = v[k] /\ v[k] # q
    <3>1. TAKE k \in 1..m
    <3>2. k + 1 \in 1..Len(x) /\ (start + (k + 1)) - 1 = (s + k) - 1
      BY <1>1, <2>1
    <3>3. buf[(start + (k + 1)) - 1] = x[k + 1]
      BY <3>2 DEF Stands
    <3>4. QED
      BY <1>5, <3>2, <3>3 DEF InQuotes
  <2>5. FirstOf(buf, s, Holding(buf, {q}), e)
    <3>1. ASSUME NEW k \in s..(e - 1) PROVE buf[k] # q
      <4>1. (k - s) + 1 \in 1..m /\ (s + ((k - s) + 1)) - 1 = k
        BY <1>1, <2>2
      <4>2. QED
        BY <2>4, <4>1
    <3> HIDE DEF e, s
    <3>2. QED
      BY <1>1, <2>2, <2>3, <3>1 DEF FirstOf, Holding
  <2>6. close = e
    <3>1. FirstOf(buf, s, Holding(buf, {q}), close)
      <4> HIDE DEF s
      <4>1. QED
        BY <2>2, NextIs
    <3> HIDE DEF s, close, e
    <3>2. QED
      BY <2>2, <2>5, <3>1, FirstOfOne
  <2>7. p1getword(buf, i) = [next |-> IF close <= l THEN close + 1 ELSE close,
                             word |-> SubSeq(buf, s, close - 1)]
    <3>1. first <= l /\ buf[first] = q /\ q \in Quotes
      BY <1>1, <2>1
    <3>2. p1getword(buf, i) = LET end == NextIn(buf, first + 1, {buf[first]})
                              IN  [next |-> IF end <= l THEN end + 1 ELSE end,
                                   word |-> SubSeq(buf, first + 1, end - 1)]
      <4> HIDE DEF first
      <4>1. QED
        BY <3>1, GetWordIs DEF first
    <3> HIDE DEF first
    <3>3. QED
      BY <2>1, <3>2
  <2>8. SubSeq(buf, s, e - 1) = v
    <3>1. Stands(buf, s, v)
      <4>1. (s + m) - 1 <= l
        BY <1>1, <2>2
      <4>2. s \in Nat \ {0}
        BY <1>1
      <4> HIDE DEF s
      <4>3. QED
        BY <2>4, <4>1, <4>2 DEF Stands
    <3> HIDE DEF s
    <3>2. QED
      BY <3>1, StandsIs
  <2>9. e + 1 = start + Len(x) /\ e <= l
    BY <1>1, <2>1, <2>2
  <2> HIDE DEF close, e, s
  <2>10. QED
    BY <2>6, <2>7, <2>8, <2>9
<1>6. ASSUME Unquoted(v, x)
      PROVE  p1getword(buf, i) = [next |-> start + Len(x), word |-> v]
  <2>1. x = v /\ v # << >> /\ v[1] \notin Quotes /\ \A k \in 1..m : v[k] \notin Blanks
    BY <1>6 DEF Unquoted
  <2>2. m >= 1 /\ Stands(buf, start, v)
    BY <1>3, <2>1
  <2>3. \A k \in 1..m : buf[(start + k) - 1] = v[k] /\ v[k] \notin Blanks
    BY <2>1, <2>2 DEF Stands
  <2>4. buf[start] \notin Blanks /\ buf[start] \notin Quotes /\ first = start
    <3>1. 1 \in 1..m /\ buf[start] = v[1]
      BY <1>1, <1>3, <2>1, <2>2
    <3>2. QED
      BY <1>4, <2>1, <3>1
  <2> DEFINE blank == NextIn(buf, start, Blanks)
             e == start + m
  <2>5. e \in start..(l + 1) /\ (e <= l => buf[e] \in Blanks)
    BY <1>1, <1>3, <2>1
  <2>6. FirstOf(buf, start, Holding(buf, Blanks), e)
    <3>1. ASSUME NEW k \in start..(e - 1) PROVE buf[k] \notin Blanks
      <4>1. (k - start) + 1 \in 1..m /\ (start + ((k - start) + 1)) - 1 = k
        BY <1>1
      <4>2. QED
        BY <2>3, <4>1
    <3> HIDE DEF e
    <3>2. QED
      BY <1>1, <2>5, <3>1 DEF FirstOf, Holding
  <2>7. blank = e
    <3>1. start \in 1..(l + 1)
      BY <1>1
    <3>2. FirstOf(buf, start, Holding(buf, Blanks), blank)
      BY <3>1, NextIs
    <3> HIDE DEF blank, e
    <3>3. QED
      BY <1>1, <2>6, <3>2, FirstOfOne
  <2>8. p1getword(buf, i) = [next |-> blank, word |-> SubSeq(buf, start, blank - 1)]
    <3>1. first <= l /\ buf[first] \notin Quotes
      BY <1>1, <2>4
    <3>2. p1getword(buf, i) = LET end == NextIn(buf, first, Blanks)
                              IN  [next |-> end, word |-> SubSeq(buf, first, end - 1)]
      <4> HIDE DEF first
      <4>1. QED
        BY <3>1, GetWordIs DEF first
    <3> HIDE DEF first
    <3>3. QED
      BY <2>4, <3>2
  <2>9. SubSeq(buf, start, e - 1) = v
    BY <2>2, StandsIs
  <2> HIDE DEF blank
  <2>10. QED
    BY <2>1, <2>7, <2>8, <2>9
<1>7. QED
  BY <1>2, <1>5, <1>6

(* At the end there is no other word.                                      *)
LEMMA NoWordLeft ==
  ASSUME NEW S, NEW buf \in Seq(S)
  PROVE  p1getword(buf, Len(buf) + 1) = [next |-> -1, word |-> << >>]
<1> DEFINE i == Len(buf) + 1
           start == NextNotIn(buf, i, Blanks)
<1>1. Len(buf) \in Nat /\ i \in 1..(Len(buf) + 1)
  OBVIOUS
<1>2. /\ start \in i..(Len(buf) + 1)
      /\ start > Len(buf) => p1getword(buf, i) = [next |-> -1, word |-> << >>]
  <2> HIDE DEF i
  <2>1. QED
    BY <1>1, GetWordIs
<1> HIDE DEF start
<1>3. start > Len(buf)
  BY <1>1, <1>2
<1>4. QED
  BY <1>2, <1>3

(* After the second word the loop only finds the end.                      *)
LEMMA TwoTurns ==
  ASSUME NEW S, NEW command \in Seq(S), NEW v, NEW w, NEW a \in 1..(Len(command) + 1), Len(command) >= 1,
         p1getword(command, 1) = [next |-> a, word |-> v],
         p1getword(command, a) = [next |-> Len(command) + 1, word |-> w]
  PROVE  Words(command).arg = <<v, w>>
<1> DEFINE l == Len(command)
<1>1. l \in Nat /\ l >= 1
  OBVIOUS
<1>2. PICK f : Turns(command, f) /\ Words(command) = f[l + 1]
  BY WordsAre
<1>3. f[0] = [at |-> 1, arg |-> << >>] /\ \A k \in 1..(l + 1) : f[k] = NextTurn(command, f[k - 1])
  BY <1>2 DEF Turns
<1>4. f[1] = [at |-> a, arg |-> <<v>>]
  <2>1. 1 \in 1..(l + 1) /\ 1 - 1 = 0 /\ a # -1
    BY <1>1
  <2>2. f[1] = NextTurn(command, [at |-> 1, arg |-> << >>])
    BY <1>3, <2>1
  <2>3. Append(<< >>, v) = <<v>>
    <3>1. << >> \in Seq({v}) /\ Len(<< >>) = 0
      OBVIOUS
    <3> DEFINE s == << >>
    <3>2. s \in Seq({v}) /\ Len(s) = 0 /\ <<v>> \in Seq({v}) /\ Len(<<v>>) = 1 /\ <<v>>[1] = v
      BY <3>1
    <3> HIDE DEF s
    <3>3. Append(s, v) \in Seq({v}) /\ Len(Append(s, v)) = 1 /\ Append(s, v)[1] = v
      BY <3>2, AppendProperties
    <3>4. Append(s, v) = <<v>>
      BY <3>2, <3>3, SeqEqual
    <3>5. QED
      BY <3>4 DEF s
  <2>4. QED
    BY <2>1, <2>2, <2>3 DEF NextTurn
<1>5. f[2] = [at |-> l + 1, arg |-> <<v, w>>]
  <2>1. 2 \in 1..(l + 1) /\ 2 - 1 = 1 /\ a # -1 /\ l + 1 # -1
    BY <1>1
  <2>2. f[2] = NextTurn(command, [at |-> a, arg |-> <<v>>])
    BY <1>3, <1>4, <2>1
  <2>3. Append(<<v>>, w) = <<v, w>>
    <3> DEFINE s == <<v>>
               t == <<v, w>>
    <3>1. /\ s \in Seq({v, w}) /\ Len(s) = 1 /\ s[1] = v
          /\ t \in Seq({v, w}) /\ Len(t) = 2 /\ t[1] = v /\ t[2] = w
      OBVIOUS
    <3> HIDE DEF s, t
    <3>2. /\ Append(s, w) \in Seq({v, w}) /\ Len(Append(s, w)) = 2
          /\ Append(s, w)[1] = v /\ Append(s, w)[2] = w
      <4> DEFINE U == {v, w}
      <4>1. w \in U /\ s \in Seq(U)
        BY <3>1
      <4> HIDE DEF U
      <4>2. /\ Append(s, w) \in Seq(U) /\ Len(Append(s, w)) = Len(s) + 1
            /\ \A k \in 1..Len(s) : Append(s, w)[k] = s[k]
            /\ Append(s, w)[Len(s) + 1] = w
        BY <4>1, AppendProperties
      <4>3. QED
        BY <3>1, <4>2 DEF U
    <3>3. \A k \in 1..2 : Append(s, w)[k] = t[k]
      BY <3>1, <3>2
    <3>4. Append(s, w) = t
      BY <3>1, <3>2, <3>3, SeqEqual
    <3>5. QED
      BY <3>4 DEF s, t
  <2>4. QED
    BY <2>1, <2>2, <2>3 DEF NextTurn
<1> DEFINE Done(r) == r.arg = <<v, w>> /\ r.at \in {-1, l + 1}
           T == {k \in 0..(l - 1) : Done(f[2 + k])}
<1>6. 0 \in T
  BY <1>1, <1>5
<1>7. ASSUME NEW k \in 0..((l - 1) - 1), k \in T PROVE k + 1 \in T
  <2> DEFINE r == f[2 + k]
  <2>1. 2 + (k + 1) \in 1..(l + 1) /\ (2 + (k + 1)) - 1 = 2 + k /\ k + 1 \in 0..(l - 1)
    BY <1>1
  <2>2. f[2 + (k + 1)] = NextTurn(command, r)
    BY <1>3, <2>1
  <2>3. r.arg = <<v, w>> /\ r.at \in {-1, l + 1}
    BY <1>7
  <2> HIDE DEF r
  <2>4. Done(NextTurn(command, r))
    <3>1. CASE r.at = -1
      BY <2>3, <3>1 DEF NextTurn
    <3>2. CASE r.at # -1
      <4>1. r.at = l + 1
        BY <2>3, <3>2
      <4>2. p1getword(command, r.at) = [next |-> -1, word |-> << >>]
        BY <4>1, NoWordLeft
      <4>3. NextTurn(command, r) = [at |-> -1, arg |-> r.arg]
        BY <3>2, <4>2 DEF NextTurn
      <4>4. QED
        BY <2>3, <4>3
    <3>3. QED
      BY <3>1, <3>2
  <2>5. QED
    BY <2>1, <2>2, <2>4
<1>8. 0..(l - 1) \subseteq T
  <2> HIDE DEF T
  <2>1. l - 1 \in Nat
    BY <1>1
  <2>2. QED
    BY <1>6, <1>7, <2>1, InductionUpTo
<1>9. l - 1 \in 0..(l - 1) /\ 2 + (l - 1) = l + 1
  BY <1>1
<1>10. f[l + 1].arg = <<v, w>>
  BY <1>8, <1>9
<1>11. QED
  BY <1>2, <1>10

(* Two words with nothing or a blank between them.                         *)
LEMMA TwoWords ==
  ASSUME NEW S, Quotes \cup Blanks \subseteq S, NEW v \in Seq(S), NEW w \in Seq(S),
         Quotable(v), Quotable(w), NEW gap \in {0, 1}, NEW command \in Seq(S),
         LET m == Len(Quoted(v))
         IN  /\ Len(command) = (m + gap) + Len(Quoted(w))
             /\ \A k \in 1..m : command[k] = Quoted(v)[k]
             /\ \A k \in 1..Len(Quoted(w)) : command[(m + gap) + k] = Quoted(w)[k]
             /\ gap = 1 => command[m + 1] \in Blanks,
         Quoted(v) = v => gap = 1
  PROVE  Words(command).arg = <<v, w>>
<1> DEFINE m == Len(Quoted(v))
           o == Len(Quoted(w))
           l == Len(command)
<1>1. Quotes \subseteq S /\ Quoted(v) \in Seq(S) /\ Quoted(w) \in Seq(S)
  BY QuotedIs
<1>2. ASSUME NEW u \in {v, w} PROVE Len(Quoted(u)) \in Nat \ {0}
  <2>1. u \in Seq(S) /\ Quotable(u) /\ Len(u) \in Nat
    OBVIOUS
  <2>2. (\E q \in Quotes : InQuotes(u, Quoted(u), q)) \/ Unquoted(u, Quoted(u))
    BY <1>1, <2>1, QuotedIs
  <2>3. CASE \E q \in Quotes : InQuotes(u, Quoted(u), q)
    <3>1. Len(Quoted(u)) = Len(u) + 2
      BY <2>3 DEF InQuotes
    <3>2. QED
      BY <2>1, <3>1
  <2>4. CASE Unquoted(u, Quoted(u))
    <3>1. Quoted(u) = u /\ u # << >>
      BY <2>4 DEF Unquoted
    <3>2. QED
      BY <2>1, <3>1, EmptySeq
  <2>5. QED
    BY <2>2, <2>3, <2>4
<1>3. m \in Nat \ {0} /\ o \in Nat \ {0} /\ l = (m + gap) + o /\ gap \in 0..1
  BY <1>2
<1>4. /\ \A k \in 1..m : command[k] = Quoted(v)[k]
      /\ \A k \in 1..o : command[(m + gap) + k] = Quoted(w)[k]
      /\ gap = 1 => command[m + 1] \in Blanks
  OBVIOUS
<1> HIDE DEF m, o, l
<1>5. p1getword(command, 1) = [next |-> 1 + m, word |-> v]
  <2>1. 1 \in 1..(l + 1) /\ 1 \in 1..l /\ \A k \in 1..(1 - 1) : FALSE
    BY <1>3
  <2>2. Stands(command, 1, Quoted(v))
    <3>1. (1 + m) - 1 <= l /\ \A k \in 1..m : (1 + k) - 1 = k
      BY <1>3
    <3>2. QED
      BY <1>4, <3>1 DEF Stands, m, l
  <2>3. Quoted(v) = v => 1 + Len(v) <= l /\ command[1 + Len(v)] \in Blanks
    <3>1. SUFFICES ASSUME Quoted(v) = v PROVE 1 + Len(v) <= l /\ command[1 + Len(v)] \in Blanks
      OBVIOUS
    <3>2. gap = 1 /\ Len(v) = m
      BY <3>1 DEF m
    <3>3. 1 + m = m + 1 /\ 1 + m <= l
      BY <1>3, <3>2
    <3>4. QED
      BY <1>4, <3>2, <3>3
  <2>4. QED
    BY <1>1, <2>1, <2>2, <2>3, GetsWord DEF m, l
<1> DEFINE a == 1 + m
           start == a + gap
<1>6. p1getword(command, a) = [next |-> l + 1, word |-> w]
  <2>1. a \in 1..(l + 1) /\ start \in a..l /\ start + o = l + 1 /\ start \in Nat \ {0}
    <3>1. gap \in Nat /\ gap <= 1
      BY <1>3
    <3>2. m \in Nat /\ m >= 1 /\ o \in Nat /\ o >= 1 /\ l = (m + gap) + o
      BY <1>3
    <3>3. a \in Nat /\ a >= 1 /\ a <= l
      BY <3>1, <3>2
    <3>4. start \in Nat /\ start >= a /\ start + o = l + 1
      <4>1. start = (1 + m) + gap
        OBVIOUS
      <4> HIDE DEF start
      <4>2. QED
        BY <3>1, <3>2, <4>1
    <3> HIDE DEF a, start
    <3>5. QED
      BY <3>2, <3>3, <3>4
  <2>2. ASSUME NEW k \in a..(start - 1) PROVE command[k] \in Blanks
    <3>1. gap = 1 /\ k = m + 1
      BY <1>3
    <3>2. QED
      BY <1>4, <3>1
  <2>3. Stands(command, start, Quoted(w))
    <3>1. (start + o) - 1 <= l /\ \A k \in 1..o : (start + k) - 1 = (m + gap) + k
      BY <1>3, <2>1
    <3> HIDE DEF start
    <3>2. QED
      BY <1>4, <2>1, <3>1 DEF Stands, o, l
  <2>4. Quoted(w) = w => start + Len(w) = l + 1
    BY <2>1 DEF o
  <2> HIDE DEF start, a
  <2>5. p1getword(command, a) = [next |-> start + o, word |-> w]
    BY <1>1, <2>1, <2>2, <2>3, <2>4, GetsWord DEF o, l
  <2>6. QED
    BY <2>1, <2>5
<1>7. a \in 1..(l + 1) /\ l >= 1
  BY <1>3
<1> HIDE DEF a
<1>8. QED
  BY <1>5, <1>6, <1>7, TwoTurns DEF a, l

LEMMA OneIs ==
  ASSUME NEW S, NEW c \in S
  PROVE  <<c>> \in Seq(S) /\ Len(<<c>>) = 1 /\ <<c>>[1] = c
OBVIOUS

(* Words of any characters that can be quoted come apart again.            *)
LEMMA WordsComeApart ==
  ASSUME NEW S, Quotes \cup Blanks \subseteq S, NEW v \in Seq(S), NEW w \in Seq(S),
         Quotable(v), Quotable(w)
  PROVE  ComeApart(v, w)
<1> DEFINE x == Quoted(v)
           y == Quoted(w)
           b == <<" ">>
<1>1. x \in Seq(S) /\ y \in Seq(S)
  BY QuotedIs
<1>2. b \in Seq(S) /\ Len(b) = 1 /\ b[1] = " " /\ " " \in Blanks
  <2>1. " " \in Blanks
    BY DEF Blanks
  <2>2. " " \in S
    BY <2>1
  <2>3. <<" ">> \in Seq(S) /\ Len(<<" ">>) = 1 /\ <<" ">>[1] = " "
    BY <2>2, OneIs
  <2>4. QED
    BY <2>1, <2>3
<1> HIDE DEF x, y, b
<1>3. Len(x) \in Nat /\ Len(y) \in Nat
  BY <1>1
<1>4. /\ x \o b \in Seq(S) /\ Len(x \o b) = Len(x) + 1 /\ Len(x) \in Nat /\ Len(y) \in Nat
      /\ \A k \in 1..Len(x) : (x \o b)[k] = x[k]
      /\ (x \o b)[Len(x) + 1] = " "
  <2>1. /\ x \o b \in Seq(S) /\ Len(x \o b) = Len(x) + Len(b)
        /\ \A k \in 1..(Len(x) + Len(b)) : (x \o b)[k] = IF k <= Len(x) THEN x[k] ELSE b[k - Len(x)]
    BY <1>1, <1>2, ConcatProperties
  <2>2. Len(x) \in Nat /\ Len(y) \in Nat
    BY <1>1
  <2>3. /\ \A k \in 1..Len(x) : k \in 1..(Len(x) + Len(b)) /\ k <= Len(x)
        /\ Len(x) + 1 \in 1..(Len(x) + Len(b)) /\ ~(Len(x) + 1 <= Len(x)) /\ (Len(x) + 1) - Len(x) = 1
    <3>1. Len(b) = 1
      BY <1>2
    <3>2. QED
      BY <2>2, <3>1
  <2>4. \A k \in 1..Len(x) : (x \o b)[k] = x[k]
    BY <2>1, <2>3
  <2>5. (x \o b)[Len(x) + 1] = " "
    BY <1>2, <2>1, <2>3
  <2>6. QED
    BY <1>2, <2>1, <2>2, <2>4, <2>5
<1>5. Words((x \o b) \o y).arg = <<v, w>>
  <2> DEFINE z == x \o b
             command == z \o y
  <2>1. z \in Seq(S) /\ Len(z) = Len(x) + 1
    BY <1>4
  <2> HIDE DEF z
  <2>2. /\ command \in Seq(S) /\ Len(command) = Len(z) + Len(y)
        /\ \A k \in 1..(Len(z) + Len(y)) : command[k] = IF k <= Len(z) THEN z[k] ELSE y[k - Len(z)]
    BY <1>1, <2>1, ConcatProperties
  <2> HIDE DEF command
  <2>3. /\ Len(command) = (Len(x) + 1) + Len(y)
        /\ \A k \in 1..Len(x) : command[k] = z[k]
        /\ command[Len(x) + 1] = z[Len(x) + 1]
        /\ \A k \in 1..Len(y) : command[(Len(x) + 1) + k] = y[k]
    <3>1. Len(z) = Len(x) + 1
      BY <2>1
    <3>2. \A k \in 1..Len(x) : k \in 1..(Len(z) + Len(y)) /\ k <= Len(z)
      BY <1>3, <3>1
    <3>3. Len(x) + 1 \in 1..(Len(z) + Len(y)) /\ Len(x) + 1 <= Len(z)
      BY <1>3, <3>1
    <3>4. \A k \in 1..Len(y) : /\ (Len(x) + 1) + k \in 1..(Len(z) + Len(y))
                               /\ ~((Len(x) + 1) + k <= Len(z)) /\ ((Len(x) + 1) + k) - Len(z) = k
      BY <1>3, <3>1
    <3>5. /\ \A k \in 1..Len(x) : command[k] = z[k]
          /\ command[Len(x) + 1] = z[Len(x) + 1]
      BY <2>2, <3>2, <3>3
    <3>6. \A k \in 1..Len(y) : command[(Len(x) + 1) + k] = y[k]
      BY <2>2, <3>4
    <3>7. QED
      BY <2>1, <2>2, <3>5, <3>6
  <2>4. /\ \A k \in 1..Len(x) : command[k] = x[k]
        /\ command[Len(x) + 1] \in Blanks
    BY <1>2, <1>4, <2>3 DEF z
  <2>5. Words(command).arg = <<v, w>>
    BY <2>2, <2>3, <2>4, TwoWords DEF x, y
  <2>6. QED
    BY <2>5 DEF command, z
<1>6. ASSUME x # v PROVE Words(x \o y).arg = <<v, w>>
  <2> DEFINE command == x \o y
  <2>1. /\ command \in Seq(S) /\ Len(command) = Len(x) + Len(y)
        /\ \A k \in 1..(Len(x) + Len(y)) : command[k] = IF k <= Len(x) THEN x[k] ELSE y[k - Len(x)]
    BY <1>1, ConcatProperties
  <2> HIDE DEF command
  <2>2. /\ Len(command) = (Len(x) + 0) + Len(y)
        /\ \A k \in 1..Len(x) : command[k] = x[k]
        /\ \A k \in 1..Len(y) : command[(Len(x) + 0) + k] = y[k]
    <3>1. \A k \in 1..Len(x) : k \in 1..(Len(x) + Len(y)) /\ k <= Len(x)
      BY <1>3
    <3>2. \A k \in 1..Len(y) : /\ (Len(x) + 0) + k \in 1..(Len(x) + Len(y))
                               /\ ~((Len(x) + 0) + k <= Len(x)) /\ ((Len(x) + 0) + k) - Len(x) = k
      BY <1>3
    <3>3. Len(x) + 0 = Len(x)
      BY <1>3
    <3>4. \A k \in 1..Len(x) : command[k] = x[k]
      BY <2>1, <3>1
    <3>5. \A k \in 1..Len(y) : command[(Len(x) + 0) + k] = y[k]
      BY <2>1, <3>2
    <3>6. QED
      BY <2>1, <3>3, <3>4, <3>5
  <2>3. Words(command).arg = <<v, w>>
    <3>1. 0 \in {0, 1} /\ (0 = 1 => command[Len(x) + 1] \in Blanks) /\ (x = v => 0 = 1)
      BY <1>6
    <3>2. QED
      BY <2>1, <2>2, <3>1, TwoWords DEF x, y
  <2>4. QED
    BY <2>3 DEF command
<1>7. QED
  BY <1>5, <1>6 DEF ComeApart, x, y, b
-----------------------------------------------------------------------------
(* One line: all up to a newline, as far as the buffer or the file goes.   *)
LEMMA LineIs ==
  ASSUME NEW S, NEW file \in Seq(S), NEW i \in 1..(Len(file) + 1), NEW size \in Nat, size >= 2
  PROVE  LET line == p1getline(file, i, size)
             next == i + Len(line)
         IN  /\ line \in Seq(S) /\ next \in i..(Len(file) + 1) /\ (i <= Len(file) => next > i)
             /\ line = SubSeq(file, i, next - 1)
             /\ \A c \in 1..(Len(line) - 1) : line[c] # "\n"
             /\ \/ line # << >> /\ line[Len(line)] = "\n"
                \/ Len(line) = size - 1
                \/ next = Len(file) + 1
<1> DEFINE l == Len(file)
           newline == NextIn(file, i, {"\n"})
           fill == i + size - 2
           end == IF newline < fill THEN newline ELSE fill
           to == IF end < l THEN end ELSE l
           line == p1getline(file, i, size)
           next == i + Len(line)
<1>1. line = SubSeq(file, i, to)
  BY DEF p1getline
<1>2. FirstOf(file, i, Holding(file, {"\n"}), newline)
  BY NextIs
<1>3. l \in Nat /\ newline \in i..(l + 1) /\ fill \in Int /\ fill >= i
  BY <1>2 DEF FirstOf
<1> HIDE DEF newline, fill
<1>4. /\ to \in 0..l /\ to >= i - 1 /\ (i <= l => to >= i) /\ to <= newline
  BY <1>3
<1>5. to = newline \/ to = fill \/ to = l
  OBVIOUS
<1> HIDE DEF to
<1>6. /\ line \in Seq(S) /\ Len(line) = IF i <= to THEN (to - i) + 1 ELSE 0
      /\ \A k \in 1..((to - i) + 1) : line[k] = file[(i + k) - 1]
  BY <1>1, <1>4, SubSeqType
<1> HIDE DEF line
<1>7. Len(line) = (to - i) + 1 /\ next = to + 1 /\ Len(line) \in Nat
  BY <1>3, <1>4, <1>6
<1>8. ASSUME NEW c \in 1..(Len(line) - 1) PROVE line[c] # "\n"
  <2>1. c \in 1..((to - i) + 1) /\ (i + c) - 1 \in i..(newline - 1) /\ (i + c) - 1 \in 1..l
    BY <1>3, <1>4, <1>7
  <2>2. (i + c) - 1 \notin Holding(file, {"\n"})
    BY <1>2, <2>1 DEF FirstOf
  <2>3. file[(i + c) - 1] # "\n"
    BY <2>1, <2>2 DEF Holding
  <2>4. QED
    BY <1>6, <2>1, <2>3
<1>9. /\ line \in Seq(S) /\ next \in i..(l + 1) /\ (i <= l => next > i)
       /\ line = SubSeq(file, i, next - 1)
       /\ \A c \in 1..(Len(line) - 1) : line[c] # "\n"
  <2>1. next - 1 = to /\ line = SubSeq(file, i, to)
    BY <1>1, <1>4, <1>7 DEF line
  <2>2. next \in i..(l + 1) /\ (i <= l => next > i)
    BY <1>3, <1>4, <1>7
  <2> HIDE DEF next
  <2>3. QED
    BY <1>6, <1>8, <2>1, <2>2
<1> HIDE DEF next
<1>10. CASE to = newline
  <2>1. newline <= l /\ newline \in Holding(file, {"\n"})
    BY <1>2, <1>3, <1>4, <1>10 DEF FirstOf
  <2>2. file[to] = "\n" /\ to >= i
    BY <1>3, <1>10, <2>1 DEF Holding
  <2>3. Len(line) \in 1..((to - i) + 1) /\ (i + Len(line)) - 1 = to /\ Len(line) > 0
    BY <1>3, <1>4, <1>7, <2>2
  <2>4. line[Len(line)] = "\n"
    BY <1>6, <2>2, <2>3
  <2>5. line # << >>
    BY <2>3
  <2>6. QED
    BY <1>9, <2>4, <2>5 DEF line, next
<1>11. CASE to = fill
  <2>1. Len(line) = size - 1
    BY <1>4, <1>7, <1>11 DEF fill
  <2>2. QED
    BY <1>9, <2>1 DEF line, next
<1>12. CASE to = l
  <2>1. next = l + 1
    BY <1>7, <1>12
  <2>2. QED
    BY <1>9, <2>1 DEF line, next
<1>13. QED
  BY <1>5, <1>10, <1>11, <1>12

(* The lines of a file of any characters, one after another.               *)
LEMMA LinesRead ==
  ASSUME NEW S, NEW file \in Seq(S), NEW size \in Nat, size >= 2
  PROVE  ReadsLines(file, size)
<1> DEFINE l == Len(file)
           N == l + 1
           Onward(s) == s + Len(p1getline(file, s, size))
           X == [k \in 0..N |-> {s \in 1..N : s > k \/ s = N}]
           step == [p \in (1..N) \X (1..N) |-> Onward(p[1])]
           Eq(f) == f = [k \in 0..N |-> IF k = 0 THEN 1 ELSE Onward(f[k - 1])]
           start == CHOOSE f : Eq(f)
           line == [k \in 1..N |-> p1getline(file, start[k - 1], size)]
<1>1. l \in Nat /\ N \in Nat
  OBVIOUS
<1>2. ASSUME NEW s \in 1..N
      PROVE  LET text == p1getline(file, s, size)
             IN  /\ Onward(s) \in s..N /\ (s <= l => Onward(s) > s)
                 /\ text = SubSeq(file, s, Onward(s) - 1)
                 /\ \A c \in 1..(Len(text) - 1) : text[c] # "\n"
                 /\ \/ text # << >> /\ text[Len(text)] = "\n"
                    \/ Len(text) = size - 1
                    \/ Onward(s) = N
  BY LineIs
<1>3. ASSUME NEW k \in 1..N, NEW s \in X[k - 1]
      PROVE  Onward(s) \in X[k] /\ step[<<s, k>>] = Onward(s)
  <2>1. k - 1 \in 0..N /\ k \in 0..N
    BY <1>1
  <2>2. s \in 1..N /\ (s > k - 1 \/ s = N)
    BY <1>3, <2>1
  <2>3. Onward(s) \in s..N /\ (s <= l => Onward(s) > s)
    BY <1>2, <2>2
  <2>4. step[<<s, k>>] = Onward(s)
    <3> HIDE DEF Onward, N
    <3>1. QED
      BY <2>2
  <2> HIDE DEF Onward, step
  <2>5. Onward(s) \in 1..N /\ (Onward(s) > k \/ Onward(s) = N)
    BY <1>1, <2>2, <2>3
  <2>6. Onward(s) \in X[k]
    <3> HIDE DEF N
    <3>1. QED
      BY <2>1, <2>5
  <2>7. QED
    BY <2>4, <2>6
<1>4. 1 \in X[0] /\ 0 \in 0..N
  BY <1>1
<1>5. Leads(X, N, step)
  <2> HIDE DEF X, N, step, Onward
  <2>1. QED
    BY <1>3 DEF Leads
<1>6. PICK f : Repeats(f, N, 1, step) /\ \A k \in 0..N : f[k] \in X[k]
  <2> HIDE DEF X, N, step
  <2>1. QED
    BY <1>1, <1>4, <1>5, InvariantRecursion
<1>7. Eq(f)
  <2>1. f = [k \in 0..N |-> IF k = 0 THEN 1 ELSE step[<<f[k - 1], k>>]]
    BY <1>6 DEF Repeats
  <2>2. \A k \in 0..N : (IF k = 0 THEN 1 ELSE step[<<f[k - 1], k>>])
                        = IF k = 0 THEN 1 ELSE Onward(f[k - 1])
    <3>1. TAKE k \in 0..N
    <3>2. CASE k = 0
      BY <3>2
    <3>3. CASE k # 0
      <4>1. k \in 1..N /\ k - 1 \in 0..N
        BY <1>1, <3>3
      <4>2. f[k - 1] \in X[k - 1]
        BY <1>6, <4>1
      <4>3. step[<<f[k - 1], k>>] = Onward(f[k - 1])
        BY <1>3, <4>1, <4>2
      <4> HIDE DEF step, Onward
      <4>4. QED
        BY <3>3, <4>3
    <3>4. QED
      BY <3>2, <3>3
  <2> HIDE DEF step, N, Onward
  <2>3. QED
    BY <2>1, <2>2
<1>8. Eq(start)
  <2> HIDE DEF Eq
  <2>1. QED
    BY <1>7
<1> HIDE DEF start
<1>9. start[0] = 1 /\ \A k \in 1..N : start[k] = Onward(start[k - 1])
  <2>1. 0 \in 0..N /\ \A k \in 1..N : k \in 0..N /\ k # 0
    BY <1>1
  <2> HIDE DEF N, Onward
  <2>2. \A k \in 0..N : start[k] = IF k = 0 THEN 1 ELSE Onward(start[k - 1])
    BY <1>8
  <2>3. QED
    BY <2>1, <2>2
<1>10. \A k \in 0..N : start[k] \in X[k]
  <2>1. start[0] \in X[0]
    BY <1>4, <1>9
  <2>2. \A k \in 1..N : start[k - 1] \in X[k - 1] => start[k] \in X[k]
    BY <1>3, <1>9
  <2> HIDE DEF X, N
  <2>3. QED
    BY <1>1, <2>1, <2>2, InvariantValues
<1>11. start[N] = N
  <2>1. N \in 0..N /\ start[N] \in X[N]
    BY <1>1, <1>10
  <2>2. start[N] \in 1..N /\ (start[N] > N \/ start[N] = N)
    BY <2>1
  <2>3. QED
    BY <1>1, <2>2
<1>12. ASSUME NEW k \in 1..N
       PROVE  /\ line[k] = SubSeq(file, start[k - 1], start[k] - 1)
              /\ \A c \in 1..(Len(line[k]) - 1) : line[k][c] # "\n"
              /\ \/ line[k] # << >> /\ line[k][Len(line[k])] = "\n"
                 \/ Len(line[k]) = size - 1 \/ start[k] = N
  <2>1. k - 1 \in 0..N
    BY <1>1
  <2>2. start[k - 1] \in 1..N
    BY <1>10, <2>1
  <2>3. line[k] = p1getline(file, start[k - 1], size) /\ start[k] = Onward(start[k - 1])
    BY <1>9
  <2> HIDE DEF line, Onward, N
  <2>4. QED
    BY <1>2, <2>2, <2>3
<1>13. DOMAIN line = 1..N
  OBVIOUS
<1>14. ReadsLines(file, size) <=>
         /\ start[l + 1] = l + 1
         /\ \A k \in DOMAIN line :
              /\ line[k] = SubSeq(file, start[k - 1], start[k] - 1)
              /\ \A c \in 1..(Len(line[k]) - 1) : line[k][c] # "\n"
              /\ \/ line[k] # << >> /\ line[k][Len(line[k])] = "\n"
                 \/ Len(line[k]) = size - 1 \/ start[k] = l + 1
  BY DEF ReadsLines, start
<1> HIDE DEF line
<1>15. QED
  BY <1>11, <1>12, <1>13, <1>14
-----------------------------------------------------------------------------
(* The strings that are tried are sequences.                               *)
LEMMA StringsAre ==
  ASSUME NEW A, NEW max, NEW s \in Strings(A, max)
  PROVE  s \in Seq(A)
<1>1. PICK k \in 0..max : s \in [1..k -> A]
  BY DEF Strings
<1>2. k \in Nat
  OBVIOUS
<1>3. QED
  BY <1>1, <1>2

(* Words, of any characters, that can be quoted come apart again; any      *)
(* command fits into its slots and any file comes in lines.                *)
THEOREM EveryTextComesApart ==
  ASSUME NEW S, Quotes \cup Blanks \subseteq S
  PROVE  /\ \A v, w \in Seq(S) : Quotable(v) /\ Quotable(w) => ComeApart(v, w)
         /\ \A command \in Seq(S) : FitsSlots(command)
         /\ \A file \in Seq(S) : \A size \in Nat : size >= 2 => ReadsLines(file, size)
<1>1. ASSUME NEW v \in Seq(S), NEW w \in Seq(S), Quotable(v), Quotable(w) PROVE ComeApart(v, w)
  BY <1>1, WordsComeApart
<1>2. \A command \in Seq(S) : FitsSlots(command)
  BY SlotsSuffice
<1>3. ASSUME NEW file \in Seq(S), NEW size \in Nat, size >= 2 PROVE ReadsLines(file, size)
  BY <1>3, LinesRead
<1>4. QED
  BY <1>1, <1>2, <1>3

(* So do the commands and files that are tried.                            *)
THEOREM TextsComeApart == Spec => []TextComesApart
<1> DEFINE A == {"x", " ", "'"}
           S == {"x", " ", "\t", "'", "\""}
<1>1. ASSUME NEW v \in Strings(A, CommandMax \div 2) PROVE v \in Seq(S) /\ Quotable(v)
  <2>1. v \in Seq(A)
    BY StringsAre
  <2>2. A \subseteq S
    OBVIOUS
  <2>3. v \in Seq(S)
    <3> HIDE DEF A, S
    <3>1. QED
      BY <2>1, <2>2, SeqMonotonic
  <2>4. ASSUME NEW k \in DOMAIN v PROVE v[k] # "\""
    <3>1. v[k] \in A
      <4> HIDE DEF A
      <4>1. QED
        BY <2>1
    <3>2. QED
      BY <3>1
  <2>5. "\"" \in Quotes
    BY DEF Quotes
  <2>6. QED
    BY <2>3, <2>4, <2>5 DEF Quotable
<1>2. Quotes \cup Blanks \subseteq S
  BY DEF Quotes, Blanks
<1>3. \A command \in Strings(S, CommandMax) : command \in Seq(S)
  BY StringsAre
<1> HIDE DEF A, S
<1>4. /\ \A v, w \in Strings(A, CommandMax \div 2) : ComeApart(v, w)
      /\ \A command \in Strings(S, CommandMax) : FitsSlots(command)
  BY <1>1, <1>2, <1>3, EveryTextComesApart
<1>5. EveryCommand
  BY <1>4 DEF EveryCommand, A, S
<1>6. EveryFile
  <2> DEFINE B == {"x", "\n"}
  <2>1. \A file \in Strings(B, CommandMax) : file \in Seq(B)
    BY StringsAre
  <2>2. \A size \in 2..4 : size \in Nat /\ size >= 2
    OBVIOUS
  <2> HIDE DEF B
  <2>3. \A file \in Strings(B, CommandMax), size \in 2..4 : ReadsLines(file, size)
    BY <2>1, <2>2, LinesRead
  <2>4. QED
    BY <2>3 DEF EveryFile, B
<1>7. TextComesApart
  BY <1>5, <1>6 DEF TextComesApart
<1>8. QED
  BY <1>7, PTL
=============================================================================
