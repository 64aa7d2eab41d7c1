-------------------------- MODULE DiskDriverProofs --------------------------
(***************************************************************************)
(* Proofs about DiskDriver, for every set of applications, every number of *)
(* vouchers, every buffer size and every number of descriptors.  The first *)
(* part is about the owners of vouchers and mutexes and about the wakeups. *)
(* In the second the driver is the disk service: each redemption collects  *)
(* the outcome of its own request, and each direction is served first      *)
(* come, first served, whatever the threads do in between.  It never loses *)
(* a voucher, the sizes that make waiting and refusals superfluous are     *)
(* those of the theorems, and no descriptor is in two places but through   *)
(* the redemption of a read.                                               *)
(***************************************************************************)
EXTENDS DiskDriver, SequenceTheorems, FiniteSetTheorems, TLAPS

(* Every step is an action of one thread or leaves everything unchanged;   *)
(* the case analysis of all the preservation proofs below.                 *)
LEMMA StepCases ==
  ASSUME [Next]_vars
  PROVE  \/ \E a \in Apps : AppStep(a)
         \/ \E d \in Threads : WorkerStep(d)
         \/ UNCHANGED vars
  BY DEF Next, Quiescent

(* What an application or a worker refers to exists: the typing that needs *)
(* the control points.                                                     *)
InHand ==
  /\ \A a \in Apps : pc[a] \notin {"idle", "take", "putback"} => v[a] # NoVoucher
  /\ \A a \in Apps : pc[a] # "idle" => sd[a] # NoSD
  /\ \A a \in Apps : Redeeming(a) \/ pc[a] = "queue" => vsd[v[a]] # NoSD
  /\ \A d \in Threads : wpc[d] # "await" => wv[d] # NoVoucher

TypeInv == TypeOK /\ InHand

(* The type invariant holds of what init_disk_driver sets up. *)
LEMMA TypeInit == Init => TypeInv
<1> SUFFICES ASSUME Init PROVE TypeInv
  OBVIOUS
<1>1. fsds \in Seq(Descriptors)
  BY DriverAssumption DEF Init, Descriptors
<1>2. vouchBB \in Seq(Vouchers)
  BY DriverAssumption DEF Init, Vouchers
<1>3. QED
  BY <1>1, <1>2, DriverAssumption
     DEF Init, TypeInv, TypeOK, InHand, Redeeming, AppState, WorkerState, Threads,
         NoThread, NoVoucher, NoSD, None

(* The voucher of an application that has taken one is a voucher. *)
LEMMA AppVoucher ==
  ASSUME TypeInv, NEW a \in Apps, pc[a] \notin {"idle", "take", "putback"}
  PROVE  v[a] \in Vouchers
  BY DEF TypeInv, TypeOK, InHand, NoVoucher

(* No step takes a variable out of its type, given that a thread past its  *)
(* first step has a voucher in hand.                                       *)
LEMMA TypeOKStep == TypeInv /\ [Next]_vars => TypeOK'
<1> SUFFICES ASSUME TypeInv, [Next]_vars PROVE TypeOK'
  OBVIOUS
<1> USE DriverAssumption
    DEF TypeInv, TypeOK, InHand, Redeeming, AppState, WorkerState, NoVoucher, NoSD, NoThread,
        DirOf, Threads, vars, voucherVars, workerVars, appVars
<1>1. ASSUME NEW a \in Apps, GetDescriptor(a) PROVE TypeOK'
  BY <1>1 DEF GetDescriptor, None
<1>2. ASSUME NEW a \in Apps, TakeVoucher(a) PROVE TypeOK'
  BY <1>2 DEF TakeVoucher
<1>3. ASSUME NEW a \in Apps, FillVoucher(a) PROVE TypeOK'
  BY <1>3 DEF FillVoucher
<1>4. ASSUME NEW a \in Apps, QueueVoucher(a) PROVE TypeOK'
  <2>1. v[a] \in Vouchers /\ DirOf(a) \in Threads
    BY <1>4 DEF QueueVoucher
  <2>2. Append(queue[DirOf(a)], v[a]) \in Seq(Vouchers)
    BY <2>1
  <2>3. queue' \in [Threads -> Seq(Vouchers)]
    BY <1>4, <2>1, <2>2 DEF QueueVoucher
  <2>4. QED
    BY <1>4, <2>3 DEF QueueVoucher
<1>5. ASSUME NEW a \in Apps, QueueFull(a) PROVE TypeOK'
  BY <1>5 DEF QueueFull
<1>6. ASSUME NEW a \in Apps, UndoNonblocking(a) PROVE TypeOK'
  <2>1. mode' \in [Apps -> {"blocking", "nonblocking"}]
    BY <1>6 DEF UndoNonblocking
  <2>2. vouchBB' \in Seq(Vouchers)
    <3>1. v[a] \in Vouchers
      BY <1>6 DEF UndoNonblocking
    <3>2. QED
      BY <1>6, <3>1 DEF UndoNonblocking
  <2>3. /\ v' \in [Apps -> Vouchers \cup {NoVoucher}] /\ pc' \in [Apps -> AppState]
        /\ UNCHANGED <<fsds, queue, voucherVars, mute, waiters, workerVars, sd, seen, out, ret,
                       requests>>
    BY <1>6 DEF UndoNonblocking
  <2>4. QED
    BY <2>1, <2>2, <2>3
<1>7. ASSUME NEW a \in Apps, PutDescriptor(a) PROVE TypeOK'
  BY <1>7 DEF PutDescriptor
<1>8. ASSUME NEW a \in Apps, RedeemLock(a) PROVE TypeOK'
  BY <1>8 DEF RedeemLock
<1>9. ASSUME NEW a \in Apps, CheckCompleted(a) PROVE TypeOK'
  BY <1>9 DEF CheckCompleted
<1>10. ASSUME NEW a \in Apps, CondWait(a) PROVE TypeOK'
  <2>1. waiters' \in [Vouchers -> SUBSET Apps]
    <3>1. waiters' = [waiters EXCEPT ![v[a]] = @ \cup {a}]
      BY ONLY <1>10 DEF CondWait
    <3>2. v[a] \in Vouchers /\ waiters \in [Vouchers -> SUBSET Apps]
      BY <1>10 DEF CondWait
    <3>3. QED
      BY ONLY <3>1, <3>2, a \in Apps
  <2>2. mute' \in [Vouchers -> Apps \cup Threads \cup {NoThread}]
    <3>1. mute' = [mute EXCEPT ![v[a]] = NoThread]
      BY ONLY <1>10 DEF CondWait
    <3>2. QED
      BY ONLY <3>1, TypeInv DEF TypeInv, TypeOK
  <2>3. QED
    BY <1>10, <2>1, <2>2 DEF CondWait
<1>11. ASSUME NEW a \in Apps, SpuriousWakeup(a) PROVE TypeOK'
  BY <1>11 DEF SpuriousWakeup
<1>12. ASSUME NEW a \in Apps, Reacquire(a) PROVE TypeOK'
  BY <1>12 DEF Reacquire
<1>13. ASSUME NEW a \in Apps, Collect(a) PROVE TypeOK'
  <2>a. pc[a] = "collect"
    BY <1>13 DEF Collect
  <2>b. v[a] \in Vouchers
    BY <2>a
  <2>1. v[a] \in Vouchers /\ vsd[v[a]] \in Descriptors
    BY <2>a, <2>b
  <2>2. fsds' \in Seq(Descriptors)
    BY <1>13, <2>1 DEF Collect
  <2>3. /\ sd' \in [Apps -> Descriptors \cup {NoSD}]
        /\ out' \in [Apps -> Descriptors \cup {NoSD}]
    <3>1. CASE status[v[a]] = 1 /\ read_write[v[a]] = "write"
      <4>1. /\ sd' = [sd EXCEPT ![a] = vsd[v[a]]]
            /\ out' = [out EXCEPT ![a] = vsd[v[a]]]
        BY <1>13, <3>1 DEF Collect
      <4>2. QED
        BY <4>1, <2>1
    <3>2. CASE ~(status[v[a]] = 1 /\ read_write[v[a]] = "write")
      <4>1. sd' = sd /\ out' = out
        BY <1>13, <3>2 DEF Collect
      <4>2. QED
        BY <4>1
    <3>3. QED
      BY <3>1, <3>2
  <2>4. seen' \in [Apps -> {0, 1, None}] /\ completed' \in [Vouchers -> {0, 1}]
    BY <1>13, <2>1 DEF Collect
  <2>5. QED
    BY <1>13, <2>2, <2>3, <2>4 DEF Collect
<1>14. ASSUME NEW a \in Apps, GiveBack(a) PROVE TypeOK'
  <2>a. pc[a] = "giveback" /\ vouchBB' = Append(vouchBB, v[a])
    BY <1>14 DEF GiveBack
  <2>b. v[a] \in Vouchers
    BY <2>a
  <2>1. vouchBB' \in Seq(Vouchers)
    BY <2>a, <2>b
  <2>2. QED
    BY <1>14, <2>1 DEF GiveBack
<1>15. ASSUME NEW a \in Apps, RedeemUnlock(a) PROVE TypeOK'
  BY <1>15 DEF RedeemUnlock
<1>16. ASSUME NEW a \in Apps, RedeemReturn(a) PROVE TypeOK'
  <2>1. v[a] \in Vouchers
    BY <1>16 DEF RedeemReturn
  <2>2. ret' \in [Apps -> {0, 1, None}] /\ seen' \in [Apps -> {0, 1, None}]
    BY <1>16, <2>1 DEF RedeemReturn
  <2>3. v' \in [Apps -> Vouchers \cup {NoVoucher}] /\ pc' \in [Apps -> AppState]
    BY <1>16 DEF RedeemReturn
  <2>4. QED
    BY <1>16, <2>2, <2>3 DEF RedeemReturn
<1>17. ASSUME NEW d \in Threads, Dequeue(d) PROVE TypeOK'
  BY <1>17 DEF Dequeue
<1>18. ASSUME NEW d \in Threads, WorkerLock(d) PROVE TypeOK'
  BY <1>18 DEF WorkerLock
<1>19. ASSUME NEW d \in Threads, Device(d) PROVE TypeOK'
  BY <1>19 DEF Device, DeviceResult
<1>20. ASSUME NEW d \in Threads, Finish(d) PROVE TypeOK'
  BY <1>20 DEF Finish, Signal
<1>21. CASE UNCHANGED vars
  BY <1>21
<1>22. QED
  BY <1>1, <1>2, <1>3, <1>4, <1>5, <1>6, <1>7, <1>8, <1>9, <1>10, <1>11, <1>12, <1>13, <1>14, <1>15, <1>16, <1>17, <1>18, <1>19, <1>20, <1>21, StepCases DEF AppStep, WorkerStep

(* Threads have a voucher in hand exactly as long as their code has one.   *)
LEMMA InHandStep == TypeInv /\ [Next]_vars => InHand'
<1> SUFFICES ASSUME TypeInv, [Next]_vars PROVE InHand'
  OBVIOUS
<1> USE DriverAssumption
    DEF TypeInv, TypeOK, InHand, Redeeming, AppState, WorkerState, NoVoucher, NoSD, NoThread,
        Vouchers, Descriptors, DirOf, Threads, vars, voucherVars, workerVars, appVars
<1>1. ASSUME NEW a \in Apps, GetDescriptor(a) PROVE InHand'
  BY <1>1 DEF GetDescriptor, None
<1>2. ASSUME NEW a \in Apps, TakeVoucher(a) PROVE InHand'
  BY <1>2 DEF TakeVoucher
<1>3. ASSUME NEW a \in Apps, FillVoucher(a) PROVE InHand'
  BY <1>3 DEF FillVoucher
<1>4. ASSUME NEW a \in Apps, QueueVoucher(a) PROVE InHand'
  BY <1>4 DEF QueueVoucher
<1>5. ASSUME NEW a \in Apps, QueueFull(a) PROVE InHand'
  BY <1>5 DEF QueueFull
<1>6. ASSUME NEW a \in Apps, UndoNonblocking(a) PROVE InHand'
  BY <1>6 DEF UndoNonblocking
<1>7. ASSUME NEW a \in Apps, PutDescriptor(a) PROVE InHand'
  BY <1>7 DEF PutDescriptor
<1>8. ASSUME NEW a \in Apps, RedeemLock(a) PROVE InHand'
  BY <1>8 DEF RedeemLock
<1>9. ASSUME NEW a \in Apps, CheckCompleted(a) PROVE InHand'
  BY <1>9 DEF CheckCompleted
<1>10. ASSUME NEW a \in Apps, CondWait(a) PROVE InHand'
  BY <1>10 DEF CondWait
<1>11. ASSUME NEW a \in Apps, SpuriousWakeup(a) PROVE InHand'
  BY <1>11 DEF SpuriousWakeup
<1>12. ASSUME NEW a \in Apps, Reacquire(a) PROVE InHand'
  BY <1>12 DEF Reacquire
<1>13. ASSUME NEW a \in Apps, Collect(a) PROVE InHand'
  <2>a. pc[a] = "collect"
    BY <1>13 DEF Collect
  <2>b. v[a] \in Vouchers
    BY <2>a
  <2>1. v[a] \in Vouchers /\ vsd[v[a]] \in Descriptors
    BY <2>a, <2>b
  <2>2. \A b \in Apps : pc'[b] # "idle" => sd'[b] # NoSD
    BY <1>13, <2>1 DEF Collect
  <2>3. QED
    BY <1>13, <2>2 DEF Collect
<1>14. ASSUME NEW a \in Apps, GiveBack(a) PROVE InHand'
  BY <1>14 DEF GiveBack
<1>15. ASSUME NEW a \in Apps, RedeemUnlock(a) PROVE InHand'
  BY <1>15 DEF RedeemUnlock
<1>16. ASSUME NEW a \in Apps, RedeemReturn(a) PROVE InHand'
  BY <1>16 DEF RedeemReturn, None
<1>17. ASSUME NEW d \in Threads, Dequeue(d) PROVE InHand'
  BY <1>17 DEF Dequeue
<1>18. ASSUME NEW d \in Threads, WorkerLock(d) PROVE InHand'
  BY <1>18 DEF WorkerLock
<1>19. ASSUME NEW d \in Threads, Device(d) PROVE InHand'
  BY <1>19 DEF Device, DeviceResult
<1>20. ASSUME NEW d \in Threads, Finish(d) PROVE InHand'
  BY <1>20 DEF Finish, Signal
<1>21. CASE UNCHANGED vars
  BY <1>21
<1>22. QED
  BY <1>1, <1>2, <1>3, <1>4, <1>5, <1>6, <1>7, <1>8, <1>9, <1>10, <1>11, <1>12, <1>13, <1>14, <1>15, <1>16, <1>17, <1>18, <1>19, <1>20, <1>21, StepCases DEF AppStep, WorkerStep

-----------------------------------------------------------------------------
(* A thread inside a critical section of a voucher owns its mutex. *)
MutexInv ==
  /\ \A a \in Apps : pc[a] \in {"check", "sleep", "collect", "giveback", "unlock"} =>
                         mute[v[a]] = a
  /\ \A d \in Threads : wpc[d] \in {"device", "finish"} => mute[wv[d]] = d

(* A filled voucher carries its application's request until it is collected. *)
RequestInv ==
  /\ RequestIntact
  /\ \A a \in Apps : pc[a] = "queue" =>
       vsd[v[a]] = sd[a] /\ read_write[v[a]] = DirOf(a) /\ completed[v[a]] = 0

(* What redeem_voucher read of completed holds while it has the mutex. *)
CheckInv ==
  /\ \A a \in Apps : pc[a] = "sleep" => completed[v[a]] = 0
  /\ \A a \in Apps : pc[a] = "collect" => completed[v[a]] = 1

(* A request without an outcome is in flight. *)
ProgressInv == \A a \in Apps : Redeeming(a) /\ completed[v[a]] = 0 => InFlight(v[a])

(* Only the application that owns a voucher sleeps on it. *)
SleepInv ==
  \A x \in Vouchers : \A a \in waiters[x] :
    pc[a] = "waiting" /\ v[a] = x /\ completed[x] = 0

IInv == /\ TypeInv /\ MutexInv /\ ClientOwnership /\ ServerOwnership
        /\ RequestInv /\ CheckInv /\ ProgressInv /\ SleepInv

(* A voucher's mutex is held by whoever is between its lock and unlock.    *)
LEMMA MutexStep == TypeInv /\ MutexInv /\ [Next]_vars => MutexInv'
<1> SUFFICES ASSUME TypeInv /\ MutexInv, [Next]_vars PROVE MutexInv'
  OBVIOUS
<1> USE DriverAssumption
    DEF TypeInv, TypeOK, InHand, AppState, WorkerState, NoVoucher, NoThread, Threads,
        vars, voucherVars, workerVars, appVars,
        MutexInv, Redeeming
<1>1. ASSUME NEW a \in Apps, GetDescriptor(a) PROVE MutexInv'
  BY <1>1 DEF GetDescriptor, None
<1>2. ASSUME NEW a \in Apps, TakeVoucher(a) PROVE MutexInv'
  BY <1>2 DEF TakeVoucher
<1>3. ASSUME NEW a \in Apps, FillVoucher(a) PROVE MutexInv'
  BY <1>3 DEF FillVoucher
<1>4. ASSUME NEW a \in Apps, QueueVoucher(a) PROVE MutexInv'
  BY <1>4 DEF QueueVoucher
<1>5. ASSUME NEW a \in Apps, QueueFull(a) PROVE MutexInv'
  BY <1>5 DEF QueueFull
<1>6. ASSUME NEW a \in Apps, UndoNonblocking(a) PROVE MutexInv'
  BY <1>6 DEF UndoNonblocking
<1>7. ASSUME NEW a \in Apps, PutDescriptor(a) PROVE MutexInv'
  BY <1>7 DEF PutDescriptor
<1>8. ASSUME NEW a \in Apps, RedeemLock(a) PROVE MutexInv'
  <2>1. \A b \in Apps : b # NoThread
    OBVIOUS
  <2>2. ASSUME NEW b \in Apps, pc'[b] \in {"check", "sleep", "collect", "giveback", "unlock"}
        PROVE  mute'[v[b]] = b
    <3>1. CASE b = a
      BY <1>8, <3>1 DEF RedeemLock
    <3>2. CASE b # a
      <4>1. mute[v[b]] = b
        BY <1>8, <2>2, <3>2 DEF RedeemLock
      <4>2. v[b] # v[a]
        BY <1>8, <2>1, <4>1 DEF RedeemLock
      <4>3. QED
        BY <1>8, <4>1, <4>2 DEF RedeemLock
    <3>3. QED
      BY <3>1, <3>2
  <2>3. \A d \in Threads : wpc[d] \in {"device", "finish"} => mute'[wv[d]] = d
    BY <1>8 DEF RedeemLock
  <2>4. QED
    BY <1>8, <2>2, <2>3 DEF RedeemLock
<1>9. ASSUME NEW a \in Apps, CheckCompleted(a) PROVE MutexInv'
  BY <1>9 DEF CheckCompleted
<1>10. ASSUME NEW a \in Apps, CondWait(a) PROVE MutexInv'
  BY <1>10 DEF CondWait
<1>11. ASSUME NEW a \in Apps, SpuriousWakeup(a) PROVE MutexInv'
  BY <1>11 DEF SpuriousWakeup
<1>12. ASSUME NEW a \in Apps, Reacquire(a) PROVE MutexInv'
  <2>1. \A b \in Apps : b # NoThread
    OBVIOUS
  <2>2. ASSUME NEW b \in Apps, pc'[b] \in {"check", "sleep", "collect", "giveback", "unlock"}
        PROVE  mute'[v[b]] = b
    <3>1. CASE b = a
      BY <1>12, <3>1 DEF Reacquire
    <3>2. CASE b # a
      <4>1. mute[v[b]] = b
        BY <1>12, <2>2, <3>2 DEF Reacquire
      <4>2. v[b] # v[a]
        BY <1>12, <2>1, <4>1 DEF Reacquire
      <4>3. QED
        BY <1>12, <4>1, <4>2 DEF Reacquire
    <3>3. QED
      BY <3>1, <3>2
  <2>3. \A d \in Threads : wpc[d] \in {"device", "finish"} => mute'[wv[d]] = d
    BY <1>12 DEF Reacquire
  <2>4. QED
    BY <1>12, <2>2, <2>3 DEF Reacquire
<1>13. ASSUME NEW a \in Apps, Collect(a) PROVE MutexInv'
  BY <1>13 DEF Collect
<1>14. ASSUME NEW a \in Apps, GiveBack(a) PROVE MutexInv'
  BY <1>14 DEF GiveBack
<1>15. ASSUME NEW a \in Apps, RedeemUnlock(a) PROVE MutexInv'
  BY <1>15 DEF RedeemUnlock
<1>16. ASSUME NEW a \in Apps, RedeemReturn(a) PROVE MutexInv'
  BY <1>16 DEF RedeemReturn, None
<1>17. ASSUME NEW d \in Threads, Dequeue(d) PROVE MutexInv'
  BY <1>17 DEF Dequeue
<1>18. ASSUME NEW d \in Threads, WorkerLock(d) PROVE MutexInv'
  BY <1>18 DEF WorkerLock
<1>19. ASSUME NEW d \in Threads, Device(d) PROVE MutexInv'
  BY <1>19 DEF Device, DeviceResult
<1>20. ASSUME NEW d \in Threads, Finish(d) PROVE MutexInv'
  BY <1>20 DEF Finish, Signal
<1>21. CASE UNCHANGED vars
  BY <1>21
<1>22. QED
  BY <1>1, <1>2, <1>3, <1>4, <1>5, <1>6, <1>7, <1>8, <1>9, <1>10, <1>11, <1>12, <1>13, <1>14, <1>15, <1>16, <1>17, <1>18, <1>19, <1>20, <1>21, StepCases DEF AppStep, WorkerStep

(* Vouchers stay in one place on the applications' side: only the pool     *)
(* hands them out (l.131-176) and only their owner puts them back.         *)
LEMMA ClientOwnershipStep == TypeInv /\ ClientOwnership /\ [Next]_vars => ClientOwnership'
<1> SUFFICES ASSUME TypeInv /\ ClientOwnership, [Next]_vars PROVE ClientOwnership'
  OBVIOUS
<1> USE DriverAssumption
    DEF TypeInv, TypeOK, InHand, AppState, WorkerState, NoVoucher, NoThread, Threads,
        vars, voucherVars, workerVars, appVars,
        ClientOwnership, Owns, Redeeming
<1>1. ASSUME NEW a \in Apps, GetDescriptor(a) PROVE ClientOwnership'
  BY <1>1 DEF GetDescriptor, None
<1>2. ASSUME NEW a \in Apps, TakeVoucher(a) PROVE ClientOwnership'
  BY <1>2 DEF TakeVoucher
<1>3. ASSUME NEW a \in Apps, FillVoucher(a) PROVE ClientOwnership'
  BY <1>3 DEF FillVoucher
<1>4. ASSUME NEW a \in Apps, QueueVoucher(a) PROVE ClientOwnership'
  BY <1>4 DEF QueueVoucher
<1>5. ASSUME NEW a \in Apps, QueueFull(a) PROVE ClientOwnership'
  BY <1>5 DEF QueueFull
<1>6. ASSUME NEW a \in Apps, UndoNonblocking(a) PROVE ClientOwnership'
  BY <1>6 DEF UndoNonblocking
<1>7. ASSUME NEW a \in Apps, PutDescriptor(a) PROVE ClientOwnership'
  BY <1>7 DEF PutDescriptor
<1>8. ASSUME NEW a \in Apps, RedeemLock(a) PROVE ClientOwnership'
  BY <1>8 DEF RedeemLock
<1>9. ASSUME NEW a \in Apps, CheckCompleted(a) PROVE ClientOwnership'
  BY <1>9 DEF CheckCompleted
<1>10. ASSUME NEW a \in Apps, CondWait(a) PROVE ClientOwnership'
  BY <1>10 DEF CondWait
<1>11. ASSUME NEW a \in Apps, SpuriousWakeup(a) PROVE ClientOwnership'
  BY <1>11 DEF SpuriousWakeup
<1>12. ASSUME NEW a \in Apps, Reacquire(a) PROVE ClientOwnership'
  BY <1>12 DEF Reacquire
<1>13. ASSUME NEW a \in Apps, Collect(a) PROVE ClientOwnership'
  BY <1>13 DEF Collect
<1>14. ASSUME NEW a \in Apps, GiveBack(a) PROVE ClientOwnership'
  BY <1>14 DEF GiveBack
<1>15. ASSUME NEW a \in Apps, RedeemUnlock(a) PROVE ClientOwnership'
  BY <1>15 DEF RedeemUnlock
<1>16. ASSUME NEW a \in Apps, RedeemReturn(a) PROVE ClientOwnership'
  BY <1>16 DEF RedeemReturn, None
<1>17. ASSUME NEW d \in Threads, Dequeue(d) PROVE ClientOwnership'
  BY <1>17 DEF Dequeue
<1>18. ASSUME NEW d \in Threads, WorkerLock(d) PROVE ClientOwnership'
  BY <1>18 DEF WorkerLock
<1>19. ASSUME NEW d \in Threads, Device(d) PROVE ClientOwnership'
  BY <1>19 DEF Device, DeviceResult
<1>20. ASSUME NEW d \in Threads, Finish(d) PROVE ClientOwnership'
  BY <1>20 DEF Finish, Signal
<1>21. CASE UNCHANGED vars
  BY <1>21
<1>22. QED
  BY <1>1, <1>2, <1>3, <1>4, <1>5, <1>6, <1>7, <1>8, <1>9, <1>10, <1>11, <1>12, <1>13, <1>14, <1>15, <1>16, <1>17, <1>18, <1>19, <1>20, <1>21, StepCases DEF AppStep, WorkerStep

(* The voucher a worker has in hand belongs to an application that awaits  *)
(* its outcome, so no other application owns it.                           *)
LEMMA WorkerClient ==
  ASSUME IInv, NEW d \in Threads, wpc[d] # "await"
  PROVE  /\ wv[d] \in Vouchers
         /\ \A a \in Apps : Owns(a) /\ v[a] = wv[d] =>
              Redeeming(a) /\ DirOf(a) = d /\ completed[wv[d]] = 0
<1>1. wv[d] \in Vouchers
  BY DEF IInv, TypeInv, TypeOK, InHand, NoVoucher
<1>2. PICK b \in Apps : Awaits(b, wv[d], d)
  BY DEF IInv, ServerOwnership
<1>3. ASSUME NEW a \in Apps, Owns(a), v[a] = wv[d] PROVE a = b
  BY <1>2, <1>3 DEF IInv, ClientOwnership, Awaits, Owns
<1>4. QED
  BY <1>1, <1>2, <1>3 DEF Awaits

(* A request keeps waiting until a worker has finished it. *)
AwaitsKept ==
  \A b \in Apps, x \in Vouchers, e \in Threads :
    Awaits(b, x, e) => Awaits(b, x, e)' \/ \E d \in Threads : Finish(d) /\ wv[d] = x

(* An application stops waiting for its outcome only when a worker finishes *)
(* its voucher.                                                            *)
LEMMA AwaitsStep == IInv /\ [Next]_vars => AwaitsKept
<1> SUFFICES ASSUME IInv, [Next]_vars PROVE AwaitsKept
  OBVIOUS
<1> USE DriverAssumption
    DEF TypeInv, TypeOK, InHand, AppState, WorkerState, NoVoucher, NoThread, Threads,
        vars, voucherVars, workerVars, appVars,
        IInv, ClientOwnership, CheckInv, AwaitsKept, Awaits, Owns, Redeeming, DirOf
<1>1. ASSUME NEW a \in Apps, GetDescriptor(a) PROVE AwaitsKept
  BY <1>1 DEF GetDescriptor, None
<1>2. ASSUME NEW a \in Apps, TakeVoucher(a) PROVE AwaitsKept
  BY <1>2 DEF TakeVoucher
<1>3. ASSUME NEW a \in Apps, FillVoucher(a) PROVE AwaitsKept
  BY <1>3 DEF FillVoucher
<1>4. ASSUME NEW a \in Apps, QueueVoucher(a) PROVE AwaitsKept
  BY <1>4 DEF QueueVoucher
<1>5. ASSUME NEW a \in Apps, QueueFull(a) PROVE AwaitsKept
  BY <1>5 DEF QueueFull
<1>6. ASSUME NEW a \in Apps, UndoNonblocking(a) PROVE AwaitsKept
  BY <1>6 DEF UndoNonblocking
<1>7. ASSUME NEW a \in Apps, PutDescriptor(a) PROVE AwaitsKept
  BY <1>7 DEF PutDescriptor
<1>8. ASSUME NEW a \in Apps, RedeemLock(a) PROVE AwaitsKept
  BY <1>8 DEF RedeemLock
<1>9. ASSUME NEW a \in Apps, CheckCompleted(a) PROVE AwaitsKept
  BY <1>9 DEF CheckCompleted
<1>10. ASSUME NEW a \in Apps, CondWait(a) PROVE AwaitsKept
  BY <1>10 DEF CondWait
<1>11. ASSUME NEW a \in Apps, SpuriousWakeup(a) PROVE AwaitsKept
  BY <1>11 DEF SpuriousWakeup
<1>12. ASSUME NEW a \in Apps, Reacquire(a) PROVE AwaitsKept
  BY <1>12 DEF Reacquire
<1>13. ASSUME NEW a \in Apps, Collect(a) PROVE AwaitsKept
  BY <1>13 DEF Collect
<1>14. ASSUME NEW a \in Apps, GiveBack(a) PROVE AwaitsKept
  BY <1>14 DEF GiveBack
<1>15. ASSUME NEW a \in Apps, RedeemUnlock(a) PROVE AwaitsKept
  BY <1>15 DEF RedeemUnlock
<1>16. ASSUME NEW a \in Apps, RedeemReturn(a) PROVE AwaitsKept
  BY <1>16 DEF RedeemReturn, None
<1>17. ASSUME NEW d \in Threads, Dequeue(d) PROVE AwaitsKept
  BY <1>17 DEF Dequeue
<1>18. ASSUME NEW d \in Threads, WorkerLock(d) PROVE AwaitsKept
  BY <1>18 DEF WorkerLock
<1>19. ASSUME NEW d \in Threads, Device(d) PROVE AwaitsKept
  BY <1>19 DEF Device, DeviceResult
<1>20. ASSUME NEW d \in Threads, Finish(d) PROVE AwaitsKept
  <2>1. v' = v /\ pc' = pc /\ completed' = [completed EXCEPT ![wv[d]] = 1]
    BY ONLY <1>20 DEF Finish, appVars
  <2>2. ASSUME NEW b \in Apps, NEW x \in Vouchers, NEW e \in Threads, Awaits(b, x, e), x # wv[d]
        PROVE  Awaits(b, x, e)'
    <3>1. completed'[x] = completed[x]
      BY ONLY <2>1, x # wv[d], x \in Vouchers, IInv DEF IInv, TypeInv, TypeOK
    <3>2. QED
      BY ONLY <2>1, <2>2, <3>1 DEF Awaits, Redeeming, DirOf
  <2> HIDE DEF Awaits
  <2>3. QED
    BY ONLY <1>20, <2>2, d \in Threads DEF AwaitsKept
<1>21. CASE UNCHANGED vars
  BY <1>21
<1>22. QED
  BY <1>1, <1>2, <1>3, <1>4, <1>5, <1>6, <1>7, <1>8, <1>9, <1>10, <1>11, <1>12, <1>13, <1>14, <1>15, <1>16, <1>17, <1>18, <1>19, <1>20, <1>21, StepCases DEF AppStep, WorkerStep

(* The fields of a submitted voucher are not touched by anyone else.       *)
LEMMA RequestStep == IInv /\ [Next]_vars => RequestInv'
<1> SUFFICES ASSUME IInv, [Next]_vars PROVE RequestInv'
  OBVIOUS
<1> USE DriverAssumption
    DEF TypeInv, TypeOK, InHand, AppState, WorkerState, NoVoucher, NoThread, Threads,
        vars, voucherVars, workerVars, appVars,
        IInv, ClientOwnership, RequestInv, RequestIntact, Owns, Redeeming, DirOf
<1>1. ASSUME NEW a \in Apps, GetDescriptor(a) PROVE RequestInv'
  BY <1>1 DEF GetDescriptor, None
<1>2. ASSUME NEW a \in Apps, TakeVoucher(a) PROVE RequestInv'
  BY <1>2 DEF TakeVoucher
<1>3. ASSUME NEW a \in Apps, FillVoucher(a) PROVE RequestInv'
  <2>1. v[a] \in Vouchers /\ UNCHANGED <<v, sd>>
    <3>1. pc[a] = "fill" /\ v' = v /\ sd' = sd
      BY <1>3 DEF FillVoucher
    <3>2. QED
      BY ONLY <3>1, TypeInv, AppVoucher
  <2>2. vsd'[v[a]] = sd[a] /\ read_write'[v[a]] = DirOf(a) /\ completed'[v[a]] = 0
    BY <1>3, <2>1 DEF FillVoucher
  <2>3. ASSUME NEW b \in Apps, b # a, Redeeming(b) \/ pc[b] = "queue"
        PROVE  /\ pc'[b] = pc[b] /\ vsd'[v[b]] = vsd[v[b]]
               /\ read_write'[v[b]] = read_write[v[b]] /\ completed'[v[b]] = completed[v[b]]
    <3>1. v[b] # v[a]
      BY <1>3, <2>3 DEF FillVoucher
    <3>2. QED
      BY <1>3, <2>1, <3>1 DEF FillVoucher
  <2>4. \A b \in Apps : b # a => pc'[b] = pc[b]
    BY <1>3 DEF FillVoucher
  <2>5. pc'[a] = "queue"
    BY <1>3 DEF FillVoucher
  <2>6. ASSUME NEW b \in Apps
        PROVE  /\ Redeeming(b)' => vsd'[v'[b]] = sd'[b] /\ read_write'[v'[b]] = DirOf(b)
               /\ pc'[b] = "queue" => vsd'[v'[b]] = sd'[b] /\ read_write'[v'[b]] = DirOf(b)
                                      /\ completed'[v'[b]] = 0
    <3>1. CASE b = a
      BY <2>1, <2>2, <2>5, <3>1
    <3>2. CASE b # a
      BY <2>1, <2>3, <2>4, <3>2
    <3>3. QED
      BY <3>1, <3>2
  <2>7. QED
    BY <2>6
<1>4. ASSUME NEW a \in Apps, QueueVoucher(a) PROVE RequestInv'
  BY <1>4 DEF QueueVoucher
<1>5. ASSUME NEW a \in Apps, QueueFull(a) PROVE RequestInv'
  BY <1>5 DEF QueueFull
<1>6. ASSUME NEW a \in Apps, UndoNonblocking(a) PROVE RequestInv'
  BY <1>6 DEF UndoNonblocking
<1>7. ASSUME NEW a \in Apps, PutDescriptor(a) PROVE RequestInv'
  BY <1>7 DEF PutDescriptor
<1>8. ASSUME NEW a \in Apps, RedeemLock(a) PROVE RequestInv'
  BY <1>8 DEF RedeemLock
<1>9. ASSUME NEW a \in Apps, CheckCompleted(a) PROVE RequestInv'
  BY <1>9 DEF CheckCompleted
<1>10. ASSUME NEW a \in Apps, CondWait(a) PROVE RequestInv'
  BY <1>10 DEF CondWait
<1>11. ASSUME NEW a \in Apps, SpuriousWakeup(a) PROVE RequestInv'
  BY <1>11 DEF SpuriousWakeup
<1>12. ASSUME NEW a \in Apps, Reacquire(a) PROVE RequestInv'
  BY <1>12 DEF Reacquire
<1>13. ASSUME NEW a \in Apps, Collect(a) PROVE RequestInv'
  BY <1>13 DEF Collect
<1>14. ASSUME NEW a \in Apps, GiveBack(a) PROVE RequestInv'
  BY <1>14 DEF GiveBack
<1>15. ASSUME NEW a \in Apps, RedeemUnlock(a) PROVE RequestInv'
  BY <1>15 DEF RedeemUnlock
<1>16. ASSUME NEW a \in Apps, RedeemReturn(a) PROVE RequestInv'
  BY <1>16 DEF RedeemReturn, None
<1>17. ASSUME NEW d \in Threads, Dequeue(d) PROVE RequestInv'
  BY <1>17 DEF Dequeue
<1>18. ASSUME NEW d \in Threads, WorkerLock(d) PROVE RequestInv'
  BY <1>18 DEF WorkerLock
<1>19. ASSUME NEW d \in Threads, Device(d) PROVE RequestInv'
  BY <1>19 DEF Device, DeviceResult
<1>20. ASSUME NEW d \in Threads, Finish(d) PROVE RequestInv'
  <2>1. /\ UNCHANGED <<v, sd, pc, vsd, read_write>> /\ wpc[d] # "await"
        /\ completed' = [completed EXCEPT ![wv[d]] = 1]
    BY <1>20 DEF Finish
  <2>2. \A a \in Apps : pc[a] = "queue" => v[a] # wv[d]
    BY <2>1, WorkerClient
  <2>3. QED
    BY <2>1, <2>2
<1>21. CASE UNCHANGED vars
  BY <1>21
<1>22. QED
  BY <1>1, <1>2, <1>3, <1>4, <1>5, <1>6, <1>7, <1>8, <1>9, <1>10, <1>11, <1>12, <1>13, <1>14, <1>15, <1>16, <1>17, <1>18, <1>19, <1>20, <1>21, StepCases DEF AppStep, WorkerStep

(* What redeem_voucher found out under the mutex stays true while it holds *)
(* it: an incomplete voucher stays incomplete up to pthread_cond_wait.     *)
LEMMA CheckStep == IInv /\ [Next]_vars => CheckInv'
<1> SUFFICES ASSUME IInv, [Next]_vars PROVE CheckInv'
  OBVIOUS
<1> USE DriverAssumption
    DEF TypeInv, TypeOK, InHand, AppState, WorkerState, NoVoucher, NoThread, Threads,
        vars, voucherVars, workerVars, appVars,
        IInv, MutexInv, ClientOwnership, CheckInv, Owns, Redeeming
<1>1. ASSUME NEW a \in Apps, GetDescriptor(a) PROVE CheckInv'
  BY <1>1 DEF GetDescriptor, None
<1>2. ASSUME NEW a \in Apps, TakeVoucher(a) PROVE CheckInv'
  BY <1>2 DEF TakeVoucher
<1>3. ASSUME NEW a \in Apps, FillVoucher(a) PROVE CheckInv'
  BY <1>3 DEF FillVoucher
<1>4. ASSUME NEW a \in Apps, QueueVoucher(a) PROVE CheckInv'
  BY <1>4 DEF QueueVoucher
<1>5. ASSUME NEW a \in Apps, QueueFull(a) PROVE CheckInv'
  BY <1>5 DEF QueueFull
<1>6. ASSUME NEW a \in Apps, UndoNonblocking(a) PROVE CheckInv'
  BY <1>6 DEF UndoNonblocking
<1>7. ASSUME NEW a \in Apps, PutDescriptor(a) PROVE CheckInv'
  BY <1>7 DEF PutDescriptor
<1>8. ASSUME NEW a \in Apps, RedeemLock(a) PROVE CheckInv'
  BY <1>8 DEF RedeemLock
<1>9. ASSUME NEW a \in Apps, CheckCompleted(a) PROVE CheckInv'
  BY <1>9 DEF CheckCompleted
<1>10. ASSUME NEW a \in Apps, CondWait(a) PROVE CheckInv'
  BY <1>10 DEF CondWait
<1>11. ASSUME NEW a \in Apps, SpuriousWakeup(a) PROVE CheckInv'
  BY <1>11 DEF SpuriousWakeup
<1>12. ASSUME NEW a \in Apps, Reacquire(a) PROVE CheckInv'
  BY <1>12 DEF Reacquire
<1>13. ASSUME NEW a \in Apps, Collect(a) PROVE CheckInv'
  BY <1>13 DEF Collect
<1>14. ASSUME NEW a \in Apps, GiveBack(a) PROVE CheckInv'
  BY <1>14 DEF GiveBack
<1>15. ASSUME NEW a \in Apps, RedeemUnlock(a) PROVE CheckInv'
  BY <1>15 DEF RedeemUnlock
<1>16. ASSUME NEW a \in Apps, RedeemReturn(a) PROVE CheckInv'
  BY <1>16 DEF RedeemReturn, None
<1>17. ASSUME NEW d \in Threads, Dequeue(d) PROVE CheckInv'
  BY <1>17 DEF Dequeue
<1>18. ASSUME NEW d \in Threads, WorkerLock(d) PROVE CheckInv'
  BY <1>18 DEF WorkerLock
<1>19. ASSUME NEW d \in Threads, Device(d) PROVE CheckInv'
  BY <1>19 DEF Device, DeviceResult
<1>20. ASSUME NEW d \in Threads, Finish(d) PROVE CheckInv'
  BY <1>20 DEF Finish, Signal
<1>21. CASE UNCHANGED vars
  BY <1>21
<1>22. QED
  BY <1>1, <1>2, <1>3, <1>4, <1>5, <1>6, <1>7, <1>8, <1>9, <1>10, <1>11, <1>12, <1>13, <1>14, <1>15, <1>16, <1>17, <1>18, <1>19, <1>20, <1>21, StepCases DEF AppStep, WorkerStep

(* Only the owner of a voucher ever sleeps on it.                          *)
LEMMA SleepStep == IInv /\ [Next]_vars => SleepInv'
<1> SUFFICES ASSUME IInv, [Next]_vars PROVE SleepInv'
  OBVIOUS
<1> USE DriverAssumption
    DEF TypeInv, TypeOK, InHand, AppState, WorkerState, NoVoucher, NoThread, Threads,
        vars, voucherVars, workerVars, appVars,
        IInv, ClientOwnership, CheckInv, SleepInv, Owns, Redeeming
<1>1. ASSUME NEW a \in Apps, GetDescriptor(a) PROVE SleepInv'
  BY <1>1 DEF GetDescriptor, None
<1>2. ASSUME NEW a \in Apps, TakeVoucher(a) PROVE SleepInv'
  BY <1>2 DEF TakeVoucher
<1>3. ASSUME NEW a \in Apps, FillVoucher(a) PROVE SleepInv'
  BY <1>3 DEF FillVoucher
<1>4. ASSUME NEW a \in Apps, QueueVoucher(a) PROVE SleepInv'
  BY <1>4 DEF QueueVoucher
<1>5. ASSUME NEW a \in Apps, QueueFull(a) PROVE SleepInv'
  BY <1>5 DEF QueueFull
<1>6. ASSUME NEW a \in Apps, UndoNonblocking(a) PROVE SleepInv'
  BY <1>6 DEF UndoNonblocking
<1>7. ASSUME NEW a \in Apps, PutDescriptor(a) PROVE SleepInv'
  BY <1>7 DEF PutDescriptor
<1>8. ASSUME NEW a \in Apps, RedeemLock(a) PROVE SleepInv'
  BY <1>8 DEF RedeemLock
<1>9. ASSUME NEW a \in Apps, CheckCompleted(a) PROVE SleepInv'
  BY <1>9 DEF CheckCompleted
<1>10. ASSUME NEW a \in Apps, CondWait(a) PROVE SleepInv'
  BY <1>10 DEF CondWait
<1>11. ASSUME NEW a \in Apps, SpuriousWakeup(a) PROVE SleepInv'
  BY <1>11 DEF SpuriousWakeup
<1>12. ASSUME NEW a \in Apps, Reacquire(a) PROVE SleepInv'
  BY <1>12 DEF Reacquire
<1>13. ASSUME NEW a \in Apps, Collect(a) PROVE SleepInv'
  BY <1>13 DEF Collect
<1>14. ASSUME NEW a \in Apps, GiveBack(a) PROVE SleepInv'
  BY <1>14 DEF GiveBack
<1>15. ASSUME NEW a \in Apps, RedeemUnlock(a) PROVE SleepInv'
  BY <1>15 DEF RedeemUnlock
<1>16. ASSUME NEW a \in Apps, RedeemReturn(a) PROVE SleepInv'
  BY <1>16 DEF RedeemReturn, None
<1>17. ASSUME NEW d \in Threads, Dequeue(d) PROVE SleepInv'
  BY <1>17 DEF Dequeue
<1>18. ASSUME NEW d \in Threads, WorkerLock(d) PROVE SleepInv'
  BY <1>18 DEF WorkerLock
<1>19. ASSUME NEW d \in Threads, Device(d) PROVE SleepInv'
  BY <1>19 DEF Device, DeviceResult
<1>20. ASSUME NEW d \in Threads, Finish(d) PROVE SleepInv'
  BY <1>20 DEF Finish, Signal
<1>21. CASE UNCHANGED vars
  BY <1>21
<1>22. QED
  BY <1>1, <1>2, <1>3, <1>4, <1>5, <1>6, <1>7, <1>8, <1>9, <1>10, <1>11, <1>12, <1>13, <1>14, <1>15, <1>16, <1>17, <1>18, <1>19, <1>20, <1>21, StepCases DEF AppStep, WorkerStep

(* Only three kinds of step move a request between a buffer, a worker and  *)
(* its application.                                                        *)
LEMMA QueueFrame ==
  ASSUME [Next]_vars
  PROVE  \/ UNCHANGED <<queue, wpc, wv>>
         \/ \E a \in Apps : QueueVoucher(a)
         \/ \E d \in Threads : WorkerStep(d)
<1>1. ASSUME NEW a \in Apps, AppStep(a)
      PROVE  UNCHANGED <<queue, wpc, wv>> \/ QueueVoucher(a)
  BY <1>1 DEF AppStep, GetDescriptor, TakeVoucher, FillVoucher, QueueFull, UndoNonblocking,
       PutDescriptor, RedeemLock, CheckCompleted, CondWait, SpuriousWakeup, Reacquire, Collect,
       GiveBack, RedeemUnlock, RedeemReturn, workerVars
<1>2. CASE UNCHANGED vars
  BY <1>2 DEF vars, workerVars
<1>3. QED
  BY <1>1, <1>2, StepCases

(* A voucher being queued is nowhere else in the driver. *)
LEMMA QueuedOnce ==
  ASSUME IInv, NEW a \in Apps, pc[a] = "queue"
  PROVE  /\ v[a] \in Vouchers
         /\ \A d \in Threads : \A i \in 1..Len(queue[d]) : queue[d][i] # v[a]
         /\ \A d \in Threads : wpc[d] # "await" => wv[d] # v[a]
<1>1. v[a] \in Vouchers
  BY DEF IInv, TypeInv, TypeOK, InHand, NoVoucher
<1>2. \A b \in Apps, d \in Threads : ~Awaits(b, v[a], d)
  BY DEF IInv, ClientOwnership, Awaits, Owns, Redeeming
<1>3. QED
  BY <1>1, <1>2 DEF IInv, ServerOwnership

(* Requests stay in one place on the driver's side: buffer, then worker.   *)
LEMMA ServerOwnershipStep == IInv /\ [Next]_vars => ServerOwnership'
<1> SUFFICES ASSUME IInv, [Next]_vars PROVE ServerOwnership'
  OBVIOUS
<1>1. AwaitsKept
  BY AwaitsStep
<1>2. /\ queue \in [Threads -> Seq(Vouchers)]
      /\ wpc \in [Threads -> WorkerState]
      /\ wv \in [Threads -> Vouchers \cup {NoVoucher}]
  BY DEF IInv, TypeInv, TypeOK
<1>3. \A d \in Threads : \A i \in 1..Len(queue[d]) : queue[d][i] \in Vouchers
  BY <1>2
<1>4. \A d \in Threads : wpc[d] # "await" => wv[d] \in Vouchers
  BY WorkerClient
<1>5. ServerOwnership
  BY DEF IInv
<1>6. CASE UNCHANGED <<queue, wpc, wv>>
  <2>1. \A d \in Threads : ~Finish(d)
    BY <1>2, <1>6 DEF Finish, WorkerState
  <2>2. QED
    BY <1>1, <1>3, <1>4, <1>5, <1>6, <2>1 DEF ServerOwnership, AwaitsKept
<1>7. ASSUME NEW a \in Apps, QueueVoucher(a) PROVE ServerOwnership'
  <2>1. /\ pc[a] = "queue" /\ UNCHANGED <<wpc, wv>> /\ DirOf(a) \in Threads
        /\ queue' = [queue EXCEPT ![DirOf(a)] = Append(@, v[a])]
    BY <1>7 DEF QueueVoucher, workerVars, DirOf, Threads
  <2>2. /\ v[a] \in Vouchers
        /\ \A d \in Threads : \A i \in 1..Len(queue[d]) : queue[d][i] # v[a]
        /\ \A d \in Threads : wpc[d] # "await" => wv[d] # v[a]
    BY <2>1, QueuedOnce
  <2>3. \A b \in Apps, x \in Vouchers, e \in Threads : Awaits(b, x, e) => Awaits(b, x, e)'
    BY <1>1, <1>2, <2>1 DEF AwaitsKept, Finish, WorkerState
  <2>4. Awaits(a, v[a], DirOf(a))'
    BY <1>7, <2>1, DriverAssumption
       DEF QueueVoucher, Awaits, Redeeming, IInv, RequestInv, appVars, voucherVars, DirOf,
           TypeInv, TypeOK, AppState
  <2>5. \A d \in Threads : d # DirOf(a) => queue'[d] = queue[d]
    BY <1>2, <2>1
  <2>6. /\ Len(queue'[DirOf(a)]) = Len(queue[DirOf(a)]) + 1
        /\ \A i \in 1..Len(queue[DirOf(a)]) : queue'[DirOf(a)][i] = queue[DirOf(a)][i]
        /\ queue'[DirOf(a)][Len(queue[DirOf(a)]) + 1] = v[a]
    BY <1>2, <2>1, <2>2
  <2>7. \A d \in Threads : Len(queue[d]) \in Nat
    BY <1>2
  <2>8. \A d \in Threads : \A i, j \in 1..Len(queue'[d]) : queue'[d][i] = queue'[d][j] => i = j
    BY <1>5, <2>2, <2>5, <2>6, <2>7 DEF ServerOwnership
  <2>9. \A d \in Threads : \A i \in 1..Len(queue'[d]) :
          \E b \in Apps : Awaits(b, queue[d][i], d)'
    <3> SUFFICES ASSUME NEW d \in Threads, NEW i \in 1..Len(queue'[d])
                 PROVE  \E b \in Apps : Awaits(b, queue[d][i], d)'
      OBVIOUS
    <3>1. CASE d = DirOf(a) /\ i = Len(queue[d]) + 1
      <4>1. queue'[d][i] = v'[a]
        BY <1>7, <2>6, <3>1 DEF QueueVoucher, appVars
      <4>2. QED
        BY <2>4, <3>1, <4>1
    <3>2. CASE ~(d = DirOf(a) /\ i = Len(queue[d]) + 1)
      <4>1. i \in 1..Len(queue[d]) /\ queue'[d][i] = queue[d][i]
        BY <2>5, <2>6, <2>7, <3>2
      <4>2. PICK b \in Apps : Awaits(b, queue[d][i], d)
        BY <1>5, <4>1 DEF ServerOwnership
      <4>3. queue[d][i] \in Vouchers
        BY <1>3, <4>1
      <4>4. QED
        BY <2>3, <4>1, <4>2, <4>3
    <3>3. QED
      BY <3>1, <3>2
  <2>10. \A d \in Threads : wpc'[d] # "await" =>
           /\ \E b \in Apps : Awaits(b, wv[d], d)'
           /\ \A i \in 1..Len(queue'[d]) : queue'[d][i] # wv'[d]
    BY <1>4, <1>5, <2>1, <2>2, <2>3, <2>5, <2>6, <2>7 DEF ServerOwnership
  <2>11. QED
    BY <2>8, <2>9, <2>10 DEF ServerOwnership
<1>8. ASSUME NEW d \in Threads, Dequeue(d) PROVE ServerOwnership'
  <2>1. /\ wpc[d] = "await" /\ queue[d] # << >>
        /\ wv' = [wv EXCEPT ![d] = Head(queue[d])]
        /\ queue' = [queue EXCEPT ![d] = Tail(@)]
        /\ wpc' = [wpc EXCEPT ![d] = "lock"]
    BY <1>8 DEF Dequeue
  <2>2. \A b \in Apps, x \in Vouchers, e \in Threads : Awaits(b, x, e) => Awaits(b, x, e)'
    <3>1. \A e \in Threads : ~Finish(e)
      <4>1. \A e \in Threads : Finish(e) => wpc[e] = "finish" /\ wpc'[e] = "await"
        BY <1>2 DEF Finish
      <4>2. \A e \in Threads : wpc'[e] = "await" => wpc[e] = "await"
        BY <1>2, <2>1
      <4>3. QED
        BY <4>1, <4>2
    <3>2. QED
      BY <1>1, <3>1 DEF AwaitsKept
  <2>3. \A e \in Threads : e # d => queue'[e] = queue[e] /\ wpc'[e] = wpc[e] /\ wv'[e] = wv[e]
    BY <1>2, <2>1
  <2>4. /\ Len(queue'[d]) = Len(queue[d]) - 1 /\ Len(queue[d]) \in Nat \ {0}
        /\ \A i \in 1..Len(queue'[d]) : queue'[d][i] = queue[d][i + 1]
        /\ wv'[d] = queue[d][1]
    BY <1>2, <2>1
  <2>5. \A e \in Threads : \A i, j \in 1..Len(queue'[e]) : queue'[e][i] = queue'[e][j] => i = j
    <3>1. ASSUME NEW i \in 1..Len(queue'[d]), NEW j \in 1..Len(queue'[d]),
                 queue'[d][i] = queue'[d][j]
          PROVE  i = j
      <4>1. i + 1 \in 1..Len(queue[d]) /\ j + 1 \in 1..Len(queue[d])
        BY <2>4
      <4>2. queue[d][i + 1] = queue[d][j + 1]
        BY <2>4, <3>1
      <4>3. i + 1 = j + 1
        BY <1>5, <4>1, <4>2 DEF ServerOwnership
      <4>4. QED
        BY <4>3
    <3>2. QED
      BY <1>5, <2>3, <3>1 DEF ServerOwnership
  <2>6. \A e \in Threads : \A i \in 1..Len(queue'[e]) :
          \E b \in Apps : Awaits(b, queue[e][i], e)'
    <3>1. \A i \in 1..Len(queue'[d]) : i + 1 \in 1..Len(queue[d])
      BY <2>4
    <3>2. \A i \in 1..Len(queue'[d]) : \E b \in Apps : Awaits(b, queue[d][i], d)'
      BY <1>3, <1>5, <2>2, <2>4, <3>1 DEF ServerOwnership
    <3>3. QED
      BY <1>3, <1>5, <2>2, <2>3, <3>2 DEF ServerOwnership
  <2>7. \A e \in Threads : wpc'[e] # "await" =>
          /\ \E b \in Apps : Awaits(b, wv[e], e)'
          /\ \A i \in 1..Len(queue'[e]) : queue'[e][i] # wv'[e]
    <3>1. 1 \in 1..Len(queue[d])
      BY <2>4
    <3>2. \E b \in Apps : Awaits(b, wv[d], d)'
      BY <1>3, <1>5, <2>2, <2>4, <3>1 DEF ServerOwnership
    <3>3. \A i \in 1..Len(queue'[d]) : queue'[d][i] # wv'[d]
      BY <1>5, <2>4 DEF ServerOwnership
    <3>4. QED
      BY <1>4, <1>5, <2>2, <2>3, <3>2, <3>3 DEF ServerOwnership
  <2>8. QED
    BY <2>5, <2>6, <2>7 DEF ServerOwnership
<1>9. ASSUME NEW d \in Threads, WorkerLock(d) \/ Device(d) PROVE ServerOwnership'
  <2>1. /\ UNCHANGED <<queue, wv>> /\ wpc[d] # "await"
        /\ \A e \in Threads : e # d => wpc'[e] = wpc[e]
    BY <1>2, <1>9 DEF WorkerLock, Device
  <2>2. \A e \in Threads : ~Finish(e)
    BY <1>2, <1>9 DEF Finish, WorkerLock, Device, WorkerState
  <2>3. QED
    BY <1>1, <1>3, <1>4, <1>5, <2>1, <2>2 DEF ServerOwnership, AwaitsKept
<1>10. ASSUME NEW d \in Threads, Finish(d) PROVE ServerOwnership'
  <2>1. /\ UNCHANGED queue /\ wpc[d] # "await" /\ wpc'[d] = "await"
        /\ \A e \in Threads : e # d => wpc'[e] = wpc[e] /\ wv'[e] = wv[e]
    BY <1>2, <1>10 DEF Finish
  <2>2. \A e \in Threads : Finish(e) => e = d
    BY <1>2, <2>1 DEF Finish, WorkerState
  <2>3. \A b \in Apps, x \in Vouchers, e \in Threads :
          x # wv[d] /\ Awaits(b, x, e) => Awaits(b, x, e)'
    BY <1>1, <2>2 DEF AwaitsKept
  <2>4. \A b \in Apps, e \in Threads : Awaits(b, wv[d], e) => e = d
    BY <2>1, WorkerClient DEF Awaits, Owns
  <2>5. /\ \A e \in Threads : \A i \in 1..Len(queue[e]) : queue[e][i] # wv[d]
        /\ \A e \in Threads : e # d /\ wpc[e] # "await" => wv[e] # wv[d]
    BY <1>5, <2>1, <2>4 DEF ServerOwnership
  <2>6. QED
    BY <1>3, <1>4, <1>5, <2>1, <2>3, <2>5 DEF ServerOwnership
<1>11. QED
  BY <1>6, <1>7, <1>8, <1>9, <1>10, QueueFrame DEF WorkerStep

(* A voucher in flight stays in flight until a worker has finished it. *)
InFlightKept ==
  \A x \in Vouchers : InFlight(x) => InFlight(x)' \/ \E d \in Threads : Finish(d) /\ wv[d] = x

(* A request leaves the driver only by being finished.                     *)
LEMMA InFlightStep == IInv /\ [Next]_vars => InFlightKept
<1> SUFFICES ASSUME IInv, [Next]_vars PROVE InFlightKept
  OBVIOUS
<1>1. /\ queue \in [Threads -> Seq(Vouchers)]
      /\ wpc \in [Threads -> WorkerState]
      /\ wv \in [Threads -> Vouchers \cup {NoVoucher}]
  BY DEF IInv, TypeInv, TypeOK
<1>2. SUFFICES ASSUME NEW x \in Vouchers, InFlight(x), \A d \in Threads : ~(Finish(d) /\ wv[d] = x)
               PROVE  InFlight(x)'
  BY DEF InFlightKept
<1>3. CASE UNCHANGED <<queue, wpc, wv>>
  BY <1>2, <1>3 DEF InFlight
<1>4. ASSUME NEW a \in Apps, QueueVoucher(a) PROVE InFlight(x)'
  <2>1. /\ UNCHANGED <<wpc, wv>> /\ DirOf(a) \in Threads /\ pc[a] = "queue"
        /\ queue' = [queue EXCEPT ![DirOf(a)] = Append(@, v[a])]
    BY <1>4 DEF QueueVoucher, workerVars, DirOf, Threads
  <2>2. v[a] \in Vouchers
    BY <2>1, QueuedOnce
  <2>3. \A d \in Threads : \A i \in 1..Len(queue[d]) :
          i \in 1..Len(queue'[d]) /\ queue'[d][i] = queue[d][i]
    BY <1>1, <2>1, <2>2
  <2>4. QED
    BY <1>2, <2>1, <2>3 DEF InFlight
<1>5. ASSUME NEW d \in Threads, Dequeue(d) PROVE InFlight(x)'
  <2>1. /\ wpc[d] = "await" /\ queue[d] # << >>
        /\ wv' = [wv EXCEPT ![d] = Head(queue[d])]
        /\ queue' = [queue EXCEPT ![d] = Tail(@)]
        /\ wpc' = [wpc EXCEPT ![d] = "lock"]
    BY <1>5 DEF Dequeue
  <2>2. \A e \in Threads : e # d => queue'[e] = queue[e] /\ wpc'[e] = wpc[e] /\ wv'[e] = wv[e]
    BY <1>1, <2>1
  <2>3. /\ wv'[d] = queue[d][1] /\ wpc'[d] = "lock"
        /\ \A i \in 2..Len(queue[d]) :
             i - 1 \in 1..Len(queue'[d]) /\ queue'[d][i - 1] = queue[d][i]
    BY <1>1, <2>1
  <2>4. \A i \in 1..Len(queue[d]) : i = 1 \/ i \in 2..Len(queue[d])
    BY <1>1
  <2>5. ASSUME NEW i \in 1..Len(queue[d]), queue[d][i] = x PROVE InFlight(x)'
    <3>1. CASE i = 1
      BY <2>3, <2>5, <3>1 DEF InFlight
    <3>2. CASE i \in 2..Len(queue[d])
      BY <2>3, <2>5, <3>2 DEF InFlight
    <3>3. QED
      BY <2>4, <3>1, <3>2
  <2>6. QED
    BY <1>2, <2>1, <2>2, <2>5 DEF InFlight
<1>6. ASSUME NEW d \in Threads, WorkerLock(d) \/ Device(d) PROVE InFlight(x)'
  <2>1. /\ UNCHANGED <<queue, wv>> /\ wpc'[d] # "await"
        /\ \A e \in Threads : e # d => wpc'[e] = wpc[e]
    BY <1>1, <1>6 DEF WorkerLock, Device
  <2>2. QED
    BY <1>2, <2>1 DEF InFlight
<1>7. ASSUME NEW d \in Threads, Finish(d) PROVE InFlight(x)'
  <2>1. /\ UNCHANGED queue /\ wv[d] # x
        /\ \A e \in Threads : e # d => wpc'[e] = wpc[e] /\ wv'[e] = wv[e]
    BY <1>1, <1>2, <1>7 DEF Finish
  <2>2. QED
    BY <1>2, <2>1 DEF InFlight
<1>8. QED
  BY <1>3, <1>4, <1>5, <1>6, <1>7, QueueFrame DEF WorkerStep

(* A request without an outcome either was one before or is being queued. *)
Unserved(b) == Redeeming(b) /\ completed[v[b]] = 0
UnservedBefore ==
  \A b \in Apps : Unserved(b)' => \/ Unserved(b) /\ v'[b] = v[b]
                                  \/ QueueVoucher(b)

(* Only queueing makes a request an unserved one.                          *)
LEMMA UnservedStep == IInv /\ [Next]_vars => UnservedBefore
<1> SUFFICES ASSUME IInv, [Next]_vars PROVE UnservedBefore
  OBVIOUS
<1> USE DriverAssumption
    DEF TypeInv, TypeOK, InHand, AppState, WorkerState, NoVoucher, NoThread, Threads,
        vars, voucherVars, workerVars, appVars,
        IInv, ClientOwnership, UnservedBefore, Unserved, Owns, Redeeming
<1>1. ASSUME NEW a \in Apps, GetDescriptor(a) PROVE UnservedBefore
  BY <1>1 DEF GetDescriptor, None
<1>2. ASSUME NEW a \in Apps, TakeVoucher(a) PROVE UnservedBefore
  BY <1>2 DEF TakeVoucher
<1>3. ASSUME NEW a \in Apps, FillVoucher(a) PROVE UnservedBefore
  BY <1>3 DEF FillVoucher
<1>4. ASSUME NEW a \in Apps, QueueVoucher(a) PROVE UnservedBefore
  <2>1. v' = v /\ completed' = completed /\ pc' = [pc EXCEPT ![a] = "queued"]
    BY ONLY <1>4 DEF QueueVoucher, voucherVars, appVars
  <2>2. ASSUME NEW b \in Apps, b # a PROVE pc'[b] = pc[b]
    BY ONLY <2>1, <2>2, b \in Apps, IInv DEF IInv, TypeInv, TypeOK
  <2>3. ASSUME NEW b \in Apps, b # a, Unserved(b)' PROVE Unserved(b) /\ v'[b] = v[b]
    BY ONLY <2>1, <2>2, <2>3, b \in Apps DEF Unserved, Redeeming
  <2> HIDE DEF Unserved
  <2>4. QED
    BY ONLY <1>4, <2>3 DEF UnservedBefore
<1>5. ASSUME NEW a \in Apps, QueueFull(a) PROVE UnservedBefore
  BY <1>5 DEF QueueFull
<1>6. ASSUME NEW a \in Apps, UndoNonblocking(a) PROVE UnservedBefore
  BY <1>6 DEF UndoNonblocking
<1>7. ASSUME NEW a \in Apps, PutDescriptor(a) PROVE UnservedBefore
  BY <1>7 DEF PutDescriptor
<1>8. ASSUME NEW a \in Apps, RedeemLock(a) PROVE UnservedBefore
  BY <1>8 DEF RedeemLock
<1>9. ASSUME NEW a \in Apps, CheckCompleted(a) PROVE UnservedBefore
  BY <1>9 DEF CheckCompleted
<1>10. ASSUME NEW a \in Apps, CondWait(a) PROVE UnservedBefore
  BY <1>10 DEF CondWait
<1>11. ASSUME NEW a \in Apps, SpuriousWakeup(a) PROVE UnservedBefore
  BY <1>11 DEF SpuriousWakeup
<1>12. ASSUME NEW a \in Apps, Reacquire(a) PROVE UnservedBefore
  BY <1>12 DEF Reacquire
<1>13. ASSUME NEW a \in Apps, Collect(a) PROVE UnservedBefore
  BY <1>13 DEF Collect
<1>14. ASSUME NEW a \in Apps, GiveBack(a) PROVE UnservedBefore
  BY <1>14 DEF GiveBack
<1>15. ASSUME NEW a \in Apps, RedeemUnlock(a) PROVE UnservedBefore
  BY <1>15 DEF RedeemUnlock
<1>16. ASSUME NEW a \in Apps, RedeemReturn(a) PROVE UnservedBefore
  BY <1>16 DEF RedeemReturn, None
<1>17. ASSUME NEW d \in Threads, Dequeue(d) PROVE UnservedBefore
  BY <1>17 DEF Dequeue
<1>18. ASSUME NEW d \in Threads, WorkerLock(d) PROVE UnservedBefore
  BY <1>18 DEF WorkerLock
<1>19. ASSUME NEW d \in Threads, Device(d) PROVE UnservedBefore
  BY <1>19 DEF Device, DeviceResult
<1>20. ASSUME NEW d \in Threads, Finish(d) PROVE UnservedBefore
  BY <1>20 DEF Finish, Signal
<1>21. CASE UNCHANGED vars
  BY <1>21
<1>22. QED
  BY <1>1, <1>2, <1>3, <1>4, <1>5, <1>6, <1>7, <1>8, <1>9, <1>10, <1>11, <1>12, <1>13, <1>14, <1>15, <1>16, <1>17, <1>18, <1>19, <1>20, <1>21, StepCases DEF AppStep, WorkerStep

(* A request whose outcome is awaited is with the driver.                  *)
LEMMA ProgressStep == IInv /\ [Next]_vars => ProgressInv'
<1> SUFFICES ASSUME IInv, [Next]_vars, NEW b \in Apps, Unserved(b)'
             PROVE  InFlight(v[b])'
  BY DEF ProgressInv, Unserved
<1>1. CASE QueueVoucher(b)
  <2>1. /\ UNCHANGED v /\ DirOf(b) \in Threads /\ pc[b] = "queue"
        /\ queue' = [queue EXCEPT ![DirOf(b)] = Append(@, v[b])]
    BY <1>1 DEF QueueVoucher, appVars, DirOf, Threads
  <2>2. v[b] \in Vouchers /\ queue \in [Threads -> Seq(Vouchers)]
    BY <2>1, QueuedOnce DEF IInv, TypeInv, TypeOK
  <2>3. LET n == Len(queue[DirOf(b)]) + 1
        IN  n \in 1..Len(queue'[DirOf(b)]) /\ queue'[DirOf(b)][n] = v[b]
    BY <2>1, <2>2
  <2>4. QED
    BY <2>1, <2>3 DEF InFlight
<1>2. CASE Unserved(b) /\ v'[b] = v[b]
  <2>1. v[b] \in Vouchers
    BY <1>2 DEF Unserved, Redeeming, IInv, TypeInv, TypeOK, InHand, NoVoucher
  <2>2. InFlight(v[b])
    BY <1>2 DEF IInv, ProgressInv, Unserved
  <2>3. ASSUME NEW d \in Threads, Finish(d), wv[d] = v[b] PROVE FALSE
    BY <1>2, <2>1, <2>3 DEF Finish, Unserved, IInv, TypeInv, TypeOK
  <2>4. QED
    BY <1>2, <2>1, <2>2, <2>3, InFlightStep DEF InFlightKept
<1>3. QED
  BY <1>1, <1>2, UnservedStep DEF UnservedBefore
-----------------------------------------------------------------------------
(* The inductive invariant: initially true and kept by every step.         *)
LEMMA Inductive == Spec => []IInv
<1>1. Init => IInv
  <2> SUFFICES ASSUME Init PROVE IInv
    OBVIOUS
  <2>1. TypeInv
    BY TypeInit
  <2>2. ClientOwnership
    BY DriverAssumption DEF Init, ClientOwnership, Owns, Redeeming, Vouchers
  <2>3. ServerOwnership
    BY DEF Init, ServerOwnership
  <2>4. QED
    BY <2>1, <2>2, <2>3
       DEF Init, IInv, MutexInv, RequestInv, RequestIntact, CheckInv, ProgressInv, SleepInv,
           Redeeming
<1>2. IInv /\ [Next]_vars => IInv'
  <2> SUFFICES ASSUME IInv, [Next]_vars PROVE IInv'
    OBVIOUS
  <2>1. TypeInv' /\ MutexInv' /\ ClientOwnership'
    BY TypeOKStep, InHandStep, MutexStep, ClientOwnershipStep DEF IInv, TypeInv
  <2>2. ServerOwnership' /\ RequestInv' /\ CheckInv' /\ ProgressInv' /\ SleepInv'
    BY ServerOwnershipStep, RequestStep, CheckStep, ProgressStep, SleepStep
  <2>3. QED
    BY <2>1, <2>2 DEF IInv
<1>3. QED
  BY <1>1, <1>2, PTL DEF Spec

(* Every variable keeps its type: in particular the pool, the buffers and  *)
(* the store only ever hold vouchers and descriptors that exist.           *)
THEOREM TypeCorrect == Spec => []TypeOK
  BY Inductive, PTL DEF IInv, TypeInv

(* A request reaches the disk and its redemption with the descriptor and   *)
(* the direction it was submitted with.                                    *)
THEOREM RequestsIntact == Spec => []RequestIntact
  BY Inductive, PTL DEF IInv, RequestInv

(* No application sleeps on a voucher nobody is going to signal. *)
THEOREM WakeupsNotLost == Spec => []NoLostWakeup
<1>1. IInv => NoLostWakeup
  BY DEF IInv, SleepInv, ProgressInv, NoLostWakeup, Redeeming, TypeInv, TypeOK
<1>2. QED
  BY <1>1, Inductive, PTL
-----------------------------------------------------------------------------
AtDisk(d) == wpc[d] \in {"lock", "device"}

\* The vouchers of a direction that have no outcome yet, oldest first ...
InLine(d) == (IF AtDisk(d) THEN <<wv[d]>> ELSE << >>) \o queue[d]

\* ... their applications, the outcomes that are not collected yet and those
\* about to be returned: what DiskDriver's Service has for line, outcome and
\* answer.
Line(d) ==
  (IF wpc[d] \in {"lock", "device"} THEN <<ClientOf(wv[d])>> ELSE << >>)
    \o [i \in 1..Len(queue[d]) |-> ClientOf(queue[d][i])]
Uncollected(a) == IF Redeeming(a) /\ ~Pending(v[a]) THEN status[v[a]] ELSE None
Answer(a) == IF Returning(a) THEN status[v[a]] ELSE None

(* Whoever stands in line waits for the voucher at its place.              *)
LineInv ==
  \A d \in Threads :
    /\ InLine(d) \in Seq(Vouchers) /\ Line(d) \in Seq(Apps)
    /\ Len(Line(d)) = Len(InLine(d))
    /\ \A i \in 1..Len(InLine(d)) : Awaits(Line(d)[i], InLine(d)[i], d)

InSomeLine(x) == \E d \in Threads : \E i \in 1..Len(InLine(d)) : InLine(d)[i] = x

(* An application stands in line until the disk has served its request.    *)
PendingInv == \A a \in Apps : Redeeming(a) => (Pending(v[a]) <=> InSomeLine(v[a]))

ServiceInv == IInv /\ LineInv /\ PendingInv

(* A voucher with a redeeming application has one client, that application. *)
LEMMA ClientKnown ==
  ASSUME IInv, NEW a \in Apps, Redeeming(a)
  PROVE  ClientOf(v[a]) = a
<1>1. \A b \in Apps : Redeeming(b) /\ v[b] = v[a] => b = a
  BY DEF IInv, ClientOwnership, Owns
<1>2. \E b \in Apps : (\E c \in Apps : Redeeming(c) /\ v[c] = v[a]) => Redeeming(b) /\ v[b] = v[a]
  OBVIOUS
<1> DEFINE C(b) == (\E c \in Apps : Redeeming(c) /\ v[c] = v[a]) => Redeeming(b) /\ v[b] = v[a]
<1>3. ClientOf(v[a]) = CHOOSE b \in Apps : C(b)
  BY DEF ClientOf
<1>4. (\E b \in Apps : C(b)) => (CHOOSE b \in Apps : C(b)) \in Apps /\ C(CHOOSE b \in Apps : C(b))
  <2> HIDE DEF C
  <2>1. QED
    OBVIOUS
<1>5. C(ClientOf(v[a])) /\ ClientOf(v[a]) \in Apps
  BY <1>2, <1>3, <1>4
<1>6. QED
  BY <1>1, <1>5

(* What stands in line: the voucher with the worker, then those queued.    *)
LEMMA InLineIs ==
  ASSUME IInv, NEW d \in Threads
  PROVE  /\ queue[d] \in Seq(Vouchers) /\ InLine(d) \in Seq(Vouchers)
         /\ AtDisk(d) => /\ Len(InLine(d)) = Len(queue[d]) + 1 /\ InLine(d)[1] = wv[d]
                         /\ \A i \in 1..Len(queue[d]) : InLine(d)[i + 1] = queue[d][i]
                         /\ Tail(InLine(d)) = queue[d]
         /\ ~AtDisk(d) => InLine(d) = queue[d]
<1>1. queue[d] \in Seq(Vouchers)
  BY DEF IInv, TypeInv, TypeOK
<1>2. CASE AtDisk(d)
  <2>1. wv[d] \in Vouchers
    BY <1>2, WorkerClient DEF AtDisk
  <2>2. <<wv[d]>> \in Seq(Vouchers) /\ Len(<<wv[d]>>) = 1 /\ <<wv[d]>>[1] = wv[d]
    BY <2>1
  <2>3. InLine(d) = <<wv[d]>> \o queue[d]
    BY <1>2 DEF InLine
  <2>4. /\ InLine(d) \in Seq(Vouchers) /\ Len(InLine(d)) = Len(queue[d]) + 1
        /\ InLine(d)[1] = wv[d]
        /\ \A i \in 1..Len(queue[d]) : InLine(d)[i + 1] = queue[d][i]
    BY <1>1, <2>1, <2>3
  <2>5. Tail(InLine(d)) = queue[d]
    <3>1. InLine(d) # << >>
      BY <1>1, <2>4
    <3>2. /\ Tail(InLine(d)) \in Seq(Vouchers) /\ Len(Tail(InLine(d))) = Len(InLine(d)) - 1
          /\ \A i \in 1..Len(Tail(InLine(d))) : Tail(InLine(d))[i] = InLine(d)[i + 1]
      BY <2>4, <3>1, HeadTailProperties
    <3>3. Len(Tail(InLine(d))) = Len(queue[d])
      BY <1>1, <2>4, <3>2
    <3>4. \A i \in 1..Len(queue[d]) : Tail(InLine(d))[i] = queue[d][i]
      BY <2>4, <3>2, <3>3
    <3>5. QED
      BY <1>1, <3>2, <3>3, <3>4, SeqEqual
  <2>6. QED
    BY <1>1, <1>2, <2>4, <2>5
<1>3. CASE ~AtDisk(d)
  <2>1. InLine(d) = << >> \o queue[d]
    BY <1>3 DEF InLine
  <2>2. QED
    BY <1>1, <1>3, <2>1
<1>4. QED
  BY <1>2, <1>3

(* A voucher stands in line with the worker or in the buffer.              *)
LEMMA InLineMember ==
  ASSUME IInv, NEW d \in Threads, NEW x
  PROVE  (\E i \in 1..Len(InLine(d)) : InLine(d)[i] = x)
           <=> (AtDisk(d) /\ wv[d] = x) \/ \E i \in 1..Len(queue[d]) : queue[d][i] = x
<1>1. Len(queue[d]) \in Nat
  BY InLineIs
<1>2. CASE AtDisk(d)
  <2>1. /\ Len(InLine(d)) = Len(queue[d]) + 1 /\ InLine(d)[1] = wv[d]
        /\ \A i \in 1..Len(queue[d]) : InLine(d)[i + 1] = queue[d][i]
    BY <1>2, InLineIs
  <2>2. ASSUME NEW i \in 1..Len(InLine(d)), InLine(d)[i] = x, i # 1
        PROVE  \E j \in 1..Len(queue[d]) : queue[d][j] = x
    <3>1. i - 1 \in 1..Len(queue[d]) /\ (i - 1) + 1 = i
      BY <1>1, <2>1, <2>2
    <3>2. QED
      BY <2>1, <2>2, <3>1
  <2>3. ASSUME NEW i \in 1..Len(queue[d]), queue[d][i] = x
        PROVE  \E j \in 1..Len(InLine(d)) : InLine(d)[j] = x
    <3>1. i + 1 \in 1..Len(InLine(d))
      BY <1>1, <2>1
    <3>2. QED
      BY <2>1, <2>3, <3>1
  <2>4. 1 \in 1..Len(InLine(d))
    BY <1>1, <2>1
  <2>5. QED
    BY <1>2, <2>1, <2>2, <2>3, <2>4
<1>3. CASE ~AtDisk(d)
  BY <1>3, InLineIs
<1>4. QED
  BY <1>2, <1>3

(* Whoever has a voucher in line is its client.                            *)
LEMMA InLineAwaited ==
  ASSUME IInv, NEW d \in Threads, NEW i \in 1..Len(InLine(d))
  PROVE  /\ ClientOf(InLine(d)[i]) \in Apps
         /\ Awaits(ClientOf(InLine(d)[i]), InLine(d)[i], d)
<1>1. \E a \in Apps : Awaits(a, InLine(d)[i], d)
  <2>1. (AtDisk(d) /\ wv[d] = InLine(d)[i]) \/ \E j \in 1..Len(queue[d]) : queue[d][j] = InLine(d)[i]
    BY InLineMember
  <2>2. QED
    BY <2>1 DEF IInv, ServerOwnership, AtDisk
<1>2. QED
  BY <1>1, ClientKnown DEF Awaits

LEMMA LineIs == IInv => LineInv
<1> SUFFICES ASSUME IInv, NEW d \in Threads
             PROVE  /\ InLine(d) \in Seq(Vouchers) /\ Line(d) \in Seq(Apps)
                    /\ Len(Line(d)) = Len(InLine(d))
                    /\ \A i \in 1..Len(InLine(d)) : Awaits(Line(d)[i], InLine(d)[i], d)
  BY DEF LineInv
<1>1. InLine(d) \in Seq(Vouchers) /\ queue[d] \in Seq(Vouchers) /\ Len(queue[d]) \in Nat
  BY InLineIs
<1> DEFINE Q == [i \in 1..Len(queue[d]) |-> ClientOf(queue[d][i])]
<1>2. ASSUME NEW i \in 1..Len(queue[d]) PROVE ClientOf(queue[d][i]) \in Apps
  BY ClientKnown DEF IInv, ServerOwnership, Awaits
<1>3. Q \in Seq(Apps) /\ Len(Q) = Len(queue[d])
  BY <1>1, <1>2
<1>4. /\ Line(d) \in Seq(Apps) /\ Len(Line(d)) = Len(InLine(d))
      /\ \A i \in 1..Len(InLine(d)) : Line(d)[i] = ClientOf(InLine(d)[i])
  <2>1. CASE AtDisk(d)
    <3>1. ClientOf(wv[d]) \in Apps
      BY <2>1, ClientKnown DEF IInv, ServerOwnership, Awaits, AtDisk
    <3>2. Line(d) = <<ClientOf(wv[d])>> \o Q
      BY <2>1 DEF Line, AtDisk
    <3>3. /\ Line(d) \in Seq(Apps) /\ Len(Line(d)) = Len(queue[d]) + 1
          /\ Line(d)[1] = ClientOf(wv[d])
          /\ \A i \in 2..(Len(queue[d]) + 1) : Line(d)[i] = Q[i - 1]
      <4> HIDE DEF Q
      <4>1. QED
        BY <1>1, <1>3, <3>1, <3>2
    <3>4. ASSUME NEW i \in 2..(Len(queue[d]) + 1) PROVE Line(d)[i] = ClientOf(InLine(d)[i])
      <4>1. i - 1 \in 1..Len(queue[d]) /\ (i - 1) + 1 = i
        BY <1>1
      <4>2. InLine(d)[i] = queue[d][i - 1]
        BY <2>1, <4>1, InLineIs
      <4>3. QED
        BY <3>3, <4>1, <4>2
    <3>5. Len(InLine(d)) = Len(queue[d]) + 1 /\ InLine(d)[1] = wv[d]
      BY <2>1, InLineIs
    <3>6. \A i \in 1..Len(InLine(d)) : i = 1 \/ i \in 2..(Len(queue[d]) + 1)
      BY <1>1, <3>5
    <3>7. QED
      BY <3>3, <3>4, <3>5, <3>6
  <2>2. CASE ~AtDisk(d)
    <3>1. Line(d) = << >> \o Q
      BY <2>2 DEF Line, AtDisk
    <3>2. Line(d) = Q
      <4> HIDE DEF Q
      <4>1. QED
        BY <1>3, <3>1
    <3>3. InLine(d) = queue[d]
      BY <2>2, InLineIs
    <3>4. QED
      BY <1>3, <3>2, <3>3
  <2>3. QED
    BY <2>1, <2>2
<1>5. QED
  BY <1>1, <1>4, InLineAwaited

LEMMA PendingIs == IInv => PendingInv
<1> SUFFICES ASSUME IInv, NEW a \in Apps, Redeeming(a)
             PROVE  Pending(v[a]) <=>
                      \E d \in Threads : \E i \in 1..Len(InLine(d)) : InLine(d)[i] = v[a]
  BY DEF PendingInv, InSomeLine
<1>1. \A d \in Threads : wpc[d] \in WorkerState
  BY DEF IInv, TypeInv, TypeOK
<1>2. ASSUME Pending(v[a])
      PROVE  \E d \in Threads : \E i \in 1..Len(InLine(d)) : InLine(d)[i] = v[a]
  <2>1. PICK d \in Threads : (AtDisk(d) /\ wv[d] = v[a]) \/ \E i \in 1..Len(queue[d]) : queue[d][i] = v[a]
    <3>1. CASE \E d \in Threads : wpc[d] # "await" /\ wv[d] = v[a]
      BY <1>1, <1>2, <3>1 DEF Pending, AtDisk, WorkerState
    <3>2. QED
      BY <1>2, <3>1 DEF Pending, InFlight
  <2>2. QED
    BY <2>1, InLineMember
<1>3. ASSUME NEW d \in Threads, NEW i \in 1..Len(InLine(d)), InLine(d)[i] = v[a]
      PROVE  Pending(v[a])
  <2>1. (AtDisk(d) /\ wv[d] = v[a]) \/ \E j \in 1..Len(queue[d]) : queue[d][j] = v[a]
    BY <1>3, InLineMember
  <2>2. InFlight(v[a])
    BY <2>1 DEF InFlight, AtDisk
  <2>3. DirOf(a) = d
    <3>1. Awaits(ClientOf(v[a]), v[a], d)
      BY <1>3, InLineAwaited
    <3>2. QED
      BY <3>1, ClientKnown DEF Awaits
  <2>4. ASSUME NEW e \in Threads, wpc[e] = "finish", wv[e] = v[a] PROVE FALSE
    <3>1. DirOf(a) = e
      BY <2>4, WorkerClient DEF Owns
    <3>2. CASE AtDisk(d)
      BY <2>3, <2>4, <3>1, <3>2 DEF AtDisk
    <3>3. CASE \E j \in 1..Len(queue[d]) : queue[d][j] = v[a]
      BY <2>3, <2>4, <3>1, <3>3 DEF IInv, ServerOwnership
    <3>4. QED
      BY <2>1, <3>2, <3>3
  <2>5. QED
    BY <2>2, <2>4 DEF Pending
<1>4. QED
  BY <1>2, <1>3
-----------------------------------------------------------------------------
(* A voucher that stays in line stays with its application.                *)
LEMMA SamePlace ==
  ASSUME ServiceInv, ServiceInv', [Next]_vars, NEW d \in Threads,
         NEW i \in 1..Len(InLine(d)), NEW j \in 1..Len(InLine(d)'), InLine(d)'[j] = InLine(d)[i]
  PROVE  Line(d)'[j] = Line(d)[i]
<1>1. PICK x \in Vouchers, a \in Apps :
        x = InLine(d)[i] /\ a = Line(d)[i] /\ Awaits(a, x, d)
  BY DEF ServiceInv, LineInv
<1>2. PICK b \in Apps :
        b = Line(d)'[j] /\ Redeeming(b)' /\ v'[b] = x /\ completed'[x] = 0
  BY <1>1 DEF ServiceInv, LineInv, Awaits
<1>3. ASSUME NEW e \in Threads, Finish(e), wv[e] = x PROVE FALSE
  BY <1>2, <1>3 DEF Finish, ServiceInv, IInv, TypeInv, TypeOK
<1>4. Awaits(a, x, d)'
  BY <1>1, <1>3, AwaitsStep DEF AwaitsKept, ServiceInv
<1>5. QED
  BY <1>1, <1>2, <1>4 DEF Awaits, ServiceInv, IInv, ClientOwnership, Owns

LEMMA LineStays ==
  ASSUME ServiceInv, ServiceInv', [Next]_vars, NEW d \in Threads, InLine(d)' = InLine(d)
  PROVE  Line(d)' = Line(d)
<1>1. /\ Line(d) \in Seq(Apps) /\ Line(d)' \in Seq(Apps)
      /\ Len(Line(d)) = Len(InLine(d)) /\ Len(Line(d)') = Len(InLine(d)')
  BY DEF ServiceInv, LineInv
<1>2. \A i \in 1..Len(Line(d)) : Line(d)'[i] = Line(d)[i]
  BY <1>1, SamePlace
<1>3. QED
  BY <1>1, <1>2, SeqEqual

LEMMA UncollectedStays ==
  ASSUME ServiceInv, ServiceInv', NEW b \in Apps, Redeeming(b)' <=> Redeeming(b),
         Redeeming(b) => /\ v'[b] = v[b] /\ status'[v[b]] = status[v[b]]
                         /\ InSomeLine(v[b])' <=> InSomeLine(v[b])
  PROVE  Uncollected(b)' = Uncollected(b)
<1>1. Redeeming(b) => (Pending(v[b])' <=> Pending(v[b]))
  BY DEF ServiceInv, PendingInv
<1>2. QED
  BY <1>1 DEF Uncollected

LineOf == [d \in Threads |-> Line(d)]
UncollectedOf == [a \in Apps |-> Uncollected(a)]
AnswerOf == [a \in Apps |-> Answer(a)]

(* A step that leaves the lines and the outcomes alone is none of the      *)
(* service's.                                                              *)
LEMMA Stutter ==
  ASSUME ServiceInv, ServiceInv', [Next]_vars, UNCHANGED status,
         \A d \in Threads : InLine(d)' = InLine(d),
         \A b \in Apps : /\ (Redeeming(b)' <=> Redeeming(b)) /\ (Returning(b)' <=> Returning(b))
                         /\ Redeeming(b) \/ Returning(b) => v'[b] = v[b]
  PROVE  UNCHANGED <<LineOf, UncollectedOf, AnswerOf>>
<1>1. \A d \in Threads : Line(d)' = Line(d)
  BY LineStays
<1>2. ASSUME NEW b \in Apps, Redeeming(b) PROVE InSomeLine(v[b])' <=> InSomeLine(v[b])
  BY <1>2 DEF InSomeLine
<1>3. \A b \in Apps : Uncollected(b)' = Uncollected(b)
  BY <1>2, UncollectedStays
<1>4. \A b \in Apps : Answer(b)' = Answer(b)
  BY DEF Answer
<1>5. QED
  BY <1>1, <1>3, <1>4 DEF LineOf, UncollectedOf, AnswerOf

Private(a) ==
  \/ TakeVoucher(a) \/ FillVoucher(a) \/ QueueFull(a)
  \/ UndoNonblocking(a) \/ PutDescriptor(a) \/ RedeemLock(a) \/ CheckCompleted(a)
  \/ CondWait(a) \/ SpuriousWakeup(a) \/ Reacquire(a) \/ GiveBack(a) \/ RedeemUnlock(a)

LEMMA PrivateStutters ==
  ASSUME ServiceInv, ServiceInv', [Next]_vars, NEW a \in Apps, Private(a)
  PROVE  UNCHANGED <<LineOf, UncollectedOf, AnswerOf, ret>>
<1>1. v \in [Apps -> Vouchers \cup {NoVoucher}] /\ pc \in [Apps -> AppState]
  BY DEF ServiceInv, IInv, TypeInv, TypeOK
<1>2. UNCHANGED <<queue, status, wpc, wv, ret>>
  BY DEF Private, TakeVoucher, FillVoucher, QueueFull, UndoNonblocking,
         PutDescriptor, RedeemLock, CheckCompleted, CondWait, SpuriousWakeup, Reacquire, GiveBack,
         RedeemUnlock, voucherVars, workerVars, appVars
<1>3. \A b \in Apps : /\ (Redeeming(b)' <=> Redeeming(b)) /\ (Returning(b)' <=> Returning(b))
                      /\ Redeeming(b) \/ Returning(b) => v'[b] = v[b]
  BY <1>1
     DEF Private, TakeVoucher, FillVoucher, QueueFull, UndoNonblocking,
         PutDescriptor, RedeemLock, CheckCompleted, CondWait, SpuriousWakeup, Reacquire, GiveBack,
         RedeemUnlock, Redeeming, Returning, appVars
<1>4. \A d \in Threads : InLine(d)' = InLine(d)
  BY <1>2 DEF InLine, AtDisk
<1>5. QED
  BY <1>2, <1>3, <1>4, Stutter

(* Taking a descriptor for the next request forgets the last reply.        *)
LEMMA GetForgets ==
  ASSUME ServiceInv, ServiceInv', [Next]_vars, NEW a \in Apps, GetDescriptor(a)
  PROVE  /\ UNCHANGED <<LineOf, UncollectedOf, AnswerOf>>
         /\ ret' = [ret EXCEPT ![a] = None]
<1>1. v \in [Apps -> Vouchers \cup {NoVoucher}] /\ pc \in [Apps -> AppState]
  BY DEF ServiceInv, IInv, TypeInv, TypeOK
<1>2. UNCHANGED <<queue, status, wpc, wv>> /\ ret' = [ret EXCEPT ![a] = None]
  BY DEF GetDescriptor, voucherVars, workerVars
<1>3. \A b \in Apps : /\ (Redeeming(b)' <=> Redeeming(b)) /\ (Returning(b)' <=> Returning(b))
                      /\ Redeeming(b) \/ Returning(b) => v'[b] = v[b]
  BY <1>1 DEF GetDescriptor, Redeeming, Returning
<1>4. \A d \in Threads : InLine(d)' = InLine(d)
  BY <1>2 DEF InLine, AtDisk
<1>5. QED
  BY <1>2, <1>3, <1>4, Stutter

LEMMA WorkerStutters ==
  ASSUME ServiceInv, ServiceInv', [Next]_vars, NEW d \in Threads,
         Dequeue(d) \/ WorkerLock(d) \/ Finish(d)
  PROVE  UNCHANGED <<LineOf, UncollectedOf, AnswerOf, ret>>
<1>1. /\ queue \in [Threads -> Seq(Vouchers)] /\ wpc \in [Threads -> WorkerState]
      /\ wv \in [Threads -> Vouchers \cup {NoVoucher}]
  BY DEF ServiceInv, IInv, TypeInv, TypeOK
<1>2. /\ UNCHANGED <<status, ret, pc, v>>
      /\ \A e \in Threads \ {d} : queue'[e] = queue[e] /\ wpc'[e] = wpc[e] /\ wv'[e] = wv[e]
  BY <1>1 DEF Dequeue, WorkerLock, Finish, voucherVars, appVars
<1>3. InLine(d)' = InLine(d)
  <2>1. CASE Dequeue(d)
    <3>1. /\ ~AtDisk(d) /\ AtDisk(d)' /\ queue[d] # << >>
          /\ wv'[d] = Head(queue[d]) /\ queue'[d] = Tail(queue[d])
      BY <1>1, <2>1 DEF Dequeue, AtDisk
    <3>2. InLine(d) = queue[d] /\ queue[d] \in Seq(Vouchers)
      BY <3>1, InLineIs DEF ServiceInv
    <3>3. InLine(d)' = <<Head(queue[d])>> \o Tail(queue[d])
      BY <3>1 DEF InLine
    <3>4. <<Head(queue[d])>> \o Tail(queue[d]) = queue[d]
      BY <3>1, <3>2
    <3>5. QED
      BY <3>2, <3>3, <3>4
  <2>2. CASE WorkerLock(d)
    BY <1>1, <2>2 DEF WorkerLock, InLine, AtDisk
  <2>3. CASE Finish(d)
    BY <1>1, <2>3 DEF Finish, InLine, AtDisk
  <2>4. QED
    BY <2>1, <2>2, <2>3
<1>4. \A e \in Threads : InLine(e)' = InLine(e)
  BY <1>2, <1>3 DEF InLine, AtDisk
<1>5. \A b \in Apps : /\ (Redeeming(b)' <=> Redeeming(b)) /\ (Returning(b)' <=> Returning(b))
                      /\ Redeeming(b) \/ Returning(b) => v'[b] = v[b]
  BY <1>2 DEF Redeeming, Returning
<1>6. QED
  BY <1>2, <1>4, <1>5, Stutter
-----------------------------------------------------------------------------
(* Putting a voucher into a buffer submits the request of its application. *)
LEMMA QueueVoucherSubmits ==
  ASSUME ServiceInv, ServiceInv', [Next]_vars, NEW a \in Apps, QueueVoucher(a)
  PROVE  /\ UncollectedOf[a] = None /\ AnswerOf[a] = None
         /\ \A d \in Threads : \A i \in 1..Len(LineOf[d]) : LineOf[d][i] # a
         /\ LineOf' = [LineOf EXCEPT ![DirOf(a)] = Append(@, a)]
         /\ UNCHANGED <<UncollectedOf, AnswerOf, ret>>
<1> DEFINE d == DirOf(a)
<1>1. /\ d \in Threads /\ pc[a] = "queue" /\ ~Redeeming(a) /\ Redeeming(a)'
      /\ UNCHANGED <<v, wpc, wv, status, ret>>
      /\ queue'[d] = Append(queue[d], v[a])
      /\ \A e \in Threads \ {d} : queue'[e] = queue[e]
      /\ \A b \in Apps \ {a} : Redeeming(b)' <=> Redeeming(b)
      /\ ~Returning(a) /\ \A b \in Apps : Returning(b)' <=> Returning(b)
  BY DEF QueueVoucher, DirOf, Threads, Redeeming, Returning, voucherVars, workerVars, appVars, ServiceInv,
         IInv, TypeInv, TypeOK
<1> HIDE DEF d
<1>2. v[a] \in Vouchers /\ queue[d] \in Seq(Vouchers) /\ InLine(d) \in Seq(Vouchers)
  BY <1>1, QueuedOnce, InLineIs DEF ServiceInv
<1>3. InLine(d)' = Append(InLine(d), v[a])
  <2>1. CASE AtDisk(d)
    <3>1. wv[d] \in Vouchers
      BY <1>1, <2>1, WorkerClient DEF AtDisk, ServiceInv
    <3>2. InLine(d) = <<wv[d]>> \o queue[d] /\ InLine(d)' = <<wv[d]>> \o Append(queue[d], v[a])
      BY <1>1, <2>1 DEF InLine, AtDisk
    <3>3. QED
      BY <1>2, <3>1, <3>2
  <2>2. CASE ~AtDisk(d)
    <3>1. InLine(d) = << >> \o queue[d] /\ InLine(d)' = << >> \o Append(queue[d], v[a])
      BY <1>1, <2>2 DEF InLine, AtDisk
    <3>2. QED
      BY <1>2, <3>1
  <2>3. QED
    BY <2>1, <2>2
<1>4. \A e \in Threads \ {d} : InLine(e)' = InLine(e)
  BY <1>1 DEF InLine, AtDisk
<1>5. Line(d)' = Append(Line(d), a)
  <2>1. /\ Line(d) \in Seq(Apps) /\ Line(d)' \in Seq(Apps)
        /\ Len(Line(d)) = Len(InLine(d)) /\ Len(Line(d)') = Len(InLine(d)')
    BY <1>1 DEF ServiceInv, LineInv
  <2>2. /\ Len(InLine(d)') = Len(InLine(d)) + 1
        /\ InLine(d)'[Len(InLine(d)) + 1] = v[a]
        /\ \A i \in 1..Len(InLine(d)) : InLine(d)'[i] = InLine(d)[i]
    BY <1>2, <1>3, AppendProperties
  <2>3. Len(InLine(d)) \in Nat
    BY <1>2
  <2>4. \A i \in 1..Len(InLine(d)) : i \in 1..Len(InLine(d)')
    BY <2>2, <2>3
  <2>5. \A i \in 1..Len(Line(d)) : Line(d)'[i] = Line(d)[i]
    BY <1>1, <2>1, <2>2, <2>4, SamePlace
  <2>6. Line(d)'[Len(Line(d)) + 1] = a
    <3>1. Len(InLine(d)) + 1 \in 1..Len(InLine(d)')
      BY <2>2, <2>3
    <3>2. PICK b \in Apps : b = Line(d)'[Len(Line(d)) + 1] /\ Redeeming(b)' /\ v'[b] = v[a]
      BY <1>1, <2>1, <2>2, <3>1 DEF ServiceInv, LineInv, Awaits
    <3>3. QED
      BY <1>1, <3>2 DEF ServiceInv, IInv, ClientOwnership, Owns
  <2>7. /\ Append(Line(d), a) \in Seq(Apps) /\ Len(Append(Line(d), a)) = Len(Line(d)) + 1
        /\ \A i \in 1..Len(Line(d)) : Append(Line(d), a)[i] = Line(d)[i]
        /\ Append(Line(d), a)[Len(Line(d)) + 1] = a
    BY <2>1, AppendProperties
  <2>8. \A i \in 1..Len(Line(d)') : i \in 1..Len(Line(d)) \/ i = Len(Line(d)) + 1
    BY <2>1, <2>2, <2>3
  <2>9. QED
    <3>1. Len(Line(d)') = Len(Append(Line(d), a))
      BY <2>1, <2>2, <2>7
    <3>2. \A i \in 1..Len(Line(d)') : Line(d)'[i] = Append(Line(d), a)[i]
      BY <2>5, <2>6, <2>7, <2>8
    <3>3. QED
      BY <2>1, <2>7, <3>1, <3>2, SeqEqual
<1>6. \A e \in Threads \ {d} : Line(e)' = Line(e)
  BY <1>4, LineStays
<1>7. ASSUME NEW e \in Threads, NEW i \in 1..Len(Line(e)) PROVE Line(e)[i] # a
  BY <1>1, <1>7 DEF ServiceInv, LineInv, Awaits
<1>8. ASSUME NEW b \in Apps PROVE Uncollected(b)' = Uncollected(b)
  <2>1. CASE b = a
    <3>1. InSomeLine(v[a])'
      <4>1. /\ Len(InLine(d)) + 1 \in 1..Len(InLine(d)')
            /\ InLine(d)'[Len(InLine(d)) + 1] = v'[a]
        BY <1>1, <1>2, <1>3
      <4>2. QED
        BY <1>1, <4>1 DEF InSomeLine
    <3>2. Pending(v[a])'
      BY <1>1, <3>1 DEF ServiceInv, PendingInv
    <3>3. QED
      BY <1>1, <2>1, <3>2 DEF Uncollected
  <2>2. CASE b # a /\ Redeeming(b)
    <3>1. v[b] # v[a]
      BY <1>1, <2>2 DEF ServiceInv, IInv, ClientOwnership, Owns
    <3>2. /\ Len(InLine(d)') = Len(InLine(d)) + 1 /\ Len(InLine(d)) \in Nat
          /\ InLine(d)'[Len(InLine(d)) + 1] = v[a]
          /\ \A i \in 1..Len(InLine(d)) : InLine(d)'[i] = InLine(d)[i]
      BY <1>2, <1>3, AppendProperties
    <3>3. /\ \A i \in 1..Len(InLine(d)) : i \in 1..Len(InLine(d)')
          /\ \A i \in 1..Len(InLine(d)') : i \in 1..Len(InLine(d)) \/ i = Len(InLine(d)) + 1
      BY <3>2
    <3>4. (\E i \in 1..Len(InLine(d)') : InLine(d)'[i] = v[b])
            <=> \E i \in 1..Len(InLine(d)) : InLine(d)[i] = v[b]
      BY <3>1, <3>2, <3>3
    <3>5. InSomeLine(v[b])' <=> InSomeLine(v[b])
      BY <1>1, <1>4, <3>4 DEF InSomeLine
    <3>6. QED
      BY <1>1, <2>2, <3>5, UncollectedStays
  <2>3. CASE b # a /\ ~Redeeming(b)
    BY <1>1, <2>3 DEF Uncollected
  <2>4. QED
    BY <2>1, <2>2, <2>3
<1>9. UncollectedOf[a] = None
  BY <1>1 DEF UncollectedOf, Uncollected
<1>10. AnswerOf[a] = None /\ \A b \in Apps : Answer(b)' = Answer(b)
  BY <1>1 DEF AnswerOf, Answer
<1>11. QED
  BY <1>1, <1>5, <1>6, <1>7, <1>8, <1>9, <1>10 DEF LineOf, UncollectedOf, AnswerOf, d

(* The disk serves the request at the head of a line.                      *)
LEMMA DeviceServes ==
  ASSUME ServiceInv, ServiceInv', [Next]_vars, NEW d \in Threads, Device(d)
  PROVE  /\ LineOf[d] # << >>
         /\ \E s \in {0, 1}, overtaken \in SUBSET {b \in Apps : AnswerOf[b] # None} :
              /\ UncollectedOf' = [UncollectedOf EXCEPT ![Head(LineOf[d])] = s]
              /\ AnswerOf' = [b \in Apps |-> IF b \in overtaken THEN s ELSE AnswerOf[b]]
         /\ LineOf' = [LineOf EXCEPT ![d] = Tail(@)]
         /\ UNCHANGED ret
<1>1. /\ AtDisk(d) /\ wpc[d] = "device" /\ wpc'[d] = "finish"
      /\ UNCHANGED <<queue, wv, pc, v, ret>>
      /\ \A e \in Threads \ {d} : wpc'[e] = wpc[e]
  BY DEF Device, AtDisk, appVars, ServiceInv, IInv, TypeInv, TypeOK
<1>2. PICK s \in {0, 1} : status' = [status EXCEPT ![wv[d]] = s]
  BY DEF Device, DeviceResult
<1>3. /\ InLine(d) \in Seq(Vouchers) /\ queue[d] \in Seq(Vouchers)
      /\ Len(InLine(d)) = Len(queue[d]) + 1 /\ InLine(d)[1] = wv[d]
      /\ \A i \in 1..Len(queue[d]) : InLine(d)[i + 1] = queue[d][i]
      /\ Len(queue[d]) \in Nat
  <2>1. IInv /\ AtDisk(d)
    BY <1>1 DEF ServiceInv
  <2>2. QED
    BY <2>1, InLineIs
<1>4. InLine(d)' = queue[d]
  <2>1. InLine(d)' = << >> \o queue[d]
    BY <1>1 DEF InLine, AtDisk
  <2>2. QED
    BY <1>3, <2>1
<1>5. \A e \in Threads \ {d} : InLine(e)' = InLine(e)
  BY <1>1 DEF InLine, AtDisk
<1>6. /\ Line(d) \in Seq(Apps) /\ Line(d)' \in Seq(Apps)
      /\ Len(Line(d)) = Len(InLine(d)) /\ Len(Line(d)') = Len(InLine(d)')
  BY DEF ServiceInv, LineInv
<1>7. Line(d) # << >> /\ Head(Line(d)) = Line(d)[1]
  BY <1>3, <1>6
<1>8. Line(d)' = Tail(Line(d))
  <2>1. /\ Tail(Line(d)) \in Seq(Apps) /\ Len(Tail(Line(d))) = Len(Line(d)) - 1
        /\ \A i \in 1..Len(Tail(Line(d))) : Tail(Line(d))[i] = Line(d)[i + 1]
    BY <1>6, <1>7, HeadTailProperties
  <2>2. Len(Line(d)') = Len(queue[d]) /\ Len(Tail(Line(d))) = Len(queue[d])
    BY <1>3, <1>4, <1>6, <2>1
  <2>3. ASSUME NEW i \in 1..Len(queue[d]) PROVE Line(d)'[i] = Line(d)[i + 1]
    <3>1. /\ i \in 1..Len(InLine(d)') /\ i + 1 \in 1..Len(InLine(d))
          /\ InLine(d)'[i] = InLine(d)[i + 1]
      BY <1>3, <1>4
    <3>2. QED
      BY <3>1, SamePlace
  <2>4. QED
    BY <1>6, <2>1, <2>2, <2>3, SeqEqual
<1>9. \A e \in Threads \ {d} : Line(e)' = Line(e)
  BY <1>5, LineStays
<1>10. PICK a \in Apps : a = Line(d)[1] /\ Awaits(a, wv[d], d) /\ wv[d] \in Vouchers
  BY <1>1, <1>3, WorkerClient DEF ServiceInv, LineInv, AtDisk
<1>11. Uncollected(a)' = s
  <2>1. Redeeming(a)' /\ v'[a] = wv[d] /\ status'[wv[d]] = s
    BY <1>1, <1>2, <1>10 DEF Awaits, Redeeming, ServiceInv, IInv, TypeInv, TypeOK
  <2>2. ~Pending(v[a])'
    BY <1>1, <2>1 DEF Pending
  <2>3. QED
    BY <2>1, <2>2 DEF Uncollected
<1>12. ASSUME NEW b \in Apps \ {a} PROVE Uncollected(b)' = Uncollected(b)
  <2>1. CASE Redeeming(b)
    <3>1. v[b] # wv[d] /\ v[b] \in Vouchers
      <4>1. v[b] # wv[d]
        BY <1>10, <2>1 DEF Awaits, ServiceInv, IInv, ClientOwnership, Owns
      <4>2. QED
        BY <2>1, <4>1, AppVoucher DEF ServiceInv, IInv, Redeeming
    <3>2. status'[v[b]] = status[v[b]]
      BY <1>2, <3>1 DEF ServiceInv, IInv, TypeInv, TypeOK
    <3>3. InSomeLine(v[b])' <=> InSomeLine(v[b])
      <4>1. /\ \A i \in 1..Len(queue[d]) : i + 1 \in 1..Len(InLine(d))
            /\ \A i \in 1..Len(InLine(d)) : i = 1 \/ (i - 1 \in 1..Len(queue[d]) /\ (i - 1) + 1 = i)
        BY <1>3
      <4>2. (\E i \in 1..Len(InLine(d)) : InLine(d)[i] = v[b])
              <=> \E i \in 1..Len(queue[d]) : queue[d][i] = v[b]
        <5>1. ASSUME NEW i \in 1..Len(InLine(d)), InLine(d)[i] = v[b]
              PROVE  \E j \in 1..Len(queue[d]) : queue[d][j] = v[b]
          <6>1. i - 1 \in 1..Len(queue[d]) /\ InLine(d)[(i - 1) + 1] = v[b]
            BY <1>3, <3>1, <4>1, <5>1
          <6>2. QED
            BY <1>3, <6>1
        <5>2. ASSUME NEW i \in 1..Len(queue[d]), queue[d][i] = v[b]
              PROVE  \E j \in 1..Len(InLine(d)) : InLine(d)[j] = v[b]
          BY <1>3, <4>1, <5>2
        <5>3. QED
          BY <5>1, <5>2
      <4>3. QED
        BY <1>1, <1>4, <1>5, <4>2 DEF InSomeLine
    <3>4. QED
      BY <1>1, <2>1, <3>2, <3>3, UncollectedStays DEF Redeeming
  <2>2. CASE ~Redeeming(b)
    BY <1>1, <2>2 DEF Uncollected, Redeeming
  <2>3. QED
    BY <2>1, <2>2
<1>13. UncollectedOf' = [UncollectedOf EXCEPT ![a] = s]
  BY <1>11, <1>12 DEF UncollectedOf
<1>14. LineOf' = [LineOf EXCEPT ![d] = Tail(@)]
  BY <1>8, <1>9 DEF LineOf
<1>15. DEFINE overtaken == {b \in Apps : Returning(b) /\ v[b] = wv[d]}
<1>16. overtaken \in SUBSET {b \in Apps : AnswerOf[b] # None}
  <2>1. ASSUME NEW b \in Apps, Returning(b) PROVE status[v[b]] \in {0, 1}
    <3>1. v[b] \in Vouchers
      BY <2>1, AppVoucher DEF Returning, ServiceInv, IInv
    <3>2. QED
      BY <3>1 DEF ServiceInv, IInv, TypeInv, TypeOK
  <2>2. QED
    BY <2>1 DEF AnswerOf, Answer, None
<1>17. AnswerOf' = [b \in Apps |-> IF b \in overtaken THEN s ELSE AnswerOf[b]]
  <2>1. ASSUME NEW b \in Apps
        PROVE  Answer(b)' = IF b \in overtaken THEN s ELSE Answer(b)
    <3>1. Returning(b)' <=> Returning(b)
      BY <1>1 DEF Returning
    <3>2. ASSUME Returning(b)
          PROVE  status'[v[b]] = IF v[b] = wv[d] THEN s ELSE status[v[b]]
      <4>1. v[b] \in Vouchers
        BY <3>2, AppVoucher DEF Returning, ServiceInv, IInv
      <4>2. status \in [Vouchers -> {0, 1}]
        BY DEF ServiceInv, IInv, TypeInv, TypeOK
      <4>3. QED
        BY <1>2, <4>1, <4>2
    <3>3. QED
      BY <1>1, <3>1, <3>2 DEF Answer
  <2>2. QED
    BY <2>1 DEF AnswerOf
<1>18. QED
  <2>1. Head(LineOf[d]) = a /\ LineOf[d] # << >>
    BY <1>7, <1>10 DEF LineOf
  <2> HIDE DEF overtaken
  <2>2. QED
    BY <1>1, <1>13, <1>14, <1>16, <1>17, <2>1

(* Collecting a finished request tells its application the outcome.        *)
LEMMA CollectRedeems ==
  ASSUME ServiceInv, ServiceInv', [Next]_vars, NEW a \in Apps, Collect(a)
  PROVE  /\ UncollectedOf[a] # None
         /\ AnswerOf' = [AnswerOf EXCEPT ![a] = UncollectedOf[a]]
         /\ UncollectedOf' = [UncollectedOf EXCEPT ![a] = None]
         /\ UNCHANGED <<LineOf, ret>>
<1>1. /\ pc[a] = "collect" /\ Redeeming(a) /\ ~Redeeming(a)'
      /\ UNCHANGED <<queue, wpc, wv, v, status, ret>> /\ Returning(a)'
      /\ \A b \in Apps \ {a} : (Redeeming(b)' <=> Redeeming(b)) /\ (Returning(b)' <=> Returning(b))
  BY DEF Collect, Redeeming, Returning, workerVars, ServiceInv, IInv, TypeInv, TypeOK
<1>2. \A d \in Threads : InLine(d)' = InLine(d)
  BY <1>1 DEF InLine, AtDisk
<1>3. \A d \in Threads : Line(d)' = Line(d)
  BY <1>2, LineStays
<1>4. ~Pending(v[a])
  <2>1. completed[v[a]] = 1
    BY <1>1 DEF ServiceInv, IInv, CheckInv
  <2>2. ASSUME NEW d \in Threads, NEW i \in 1..Len(InLine(d)), InLine(d)[i] = v[a] PROVE FALSE
    BY <2>1, <2>2 DEF ServiceInv, LineInv, Awaits
  <2>3. QED
    BY <1>1, <2>2 DEF ServiceInv, PendingInv, InSomeLine
<1>5. Uncollected(a) = status[v[a]] /\ Uncollected(a)' = None
  BY <1>1, <1>4 DEF Uncollected
<1>6. status[v[a]] # None
  <2>1. v[a] \in Vouchers
    BY <1>1, AppVoucher DEF ServiceInv, IInv
  <2>2. QED
    <3>1. status \in [Vouchers -> {0, 1}]
      BY DEF ServiceInv, IInv, TypeInv, TypeOK
    <3>2. QED
      BY <2>1, <3>1 DEF None
<1>7. ASSUME NEW b \in Apps \ {a} PROVE Uncollected(b)' = Uncollected(b)
  <2>1. InSomeLine(v[b])' <=> InSomeLine(v[b])
    BY <1>1, <1>2 DEF InSomeLine
  <2>2. QED
    BY <1>1, <2>1, UncollectedStays
<1>8. Answer(a)' = status[v[a]] /\ \A b \in Apps \ {a} : Answer(b)' = Answer(b)
  BY <1>1 DEF Answer
<1>9. QED
  BY <1>1, <1>3, <1>5, <1>6, <1>7, <1>8 DEF LineOf, UncollectedOf, AnswerOf

(* What redeem_voucher returns is what its voucher's status is by then.    *)
LEMMA ReturnDelivers ==
  ASSUME ServiceInv, ServiceInv', [Next]_vars, NEW a \in Apps, RedeemReturn(a)
  PROVE  /\ AnswerOf[a] # None
         /\ ret' = [ret EXCEPT ![a] = AnswerOf[a]]
         /\ AnswerOf' = [AnswerOf EXCEPT ![a] = None]
         /\ UNCHANGED <<LineOf, UncollectedOf>>
<1>1. /\ pc[a] = "return" /\ UNCHANGED <<queue, wpc, wv, status>>
      /\ Returning(a) /\ ~Returning(a)' /\ ret' = [ret EXCEPT ![a] = status[v[a]]]
      /\ \A b \in Apps : (Redeeming(b)' <=> Redeeming(b)) /\ (Redeeming(b) => v'[b] = v[b])
      /\ \A b \in Apps \ {a} : (Returning(b)' <=> Returning(b)) /\ v'[b] = v[b]
  BY DEF RedeemReturn, Redeeming, Returning, voucherVars, workerVars, ServiceInv, IInv, TypeInv,
         TypeOK
<1>2. \A d \in Threads : InLine(d)' = InLine(d)
  BY <1>1 DEF InLine, AtDisk
<1>3. \A d \in Threads : Line(d)' = Line(d)
  BY <1>2, LineStays
<1>4. ASSUME NEW b \in Apps PROVE Uncollected(b)' = Uncollected(b)
  <2>1. Redeeming(b) => (InSomeLine(v[b])' <=> InSomeLine(v[b]))
    BY <1>1, <1>2 DEF InSomeLine
  <2>2. QED
    BY <1>1, <2>1, UncollectedStays
<1>5. Answer(a) = status[v[a]] /\ Answer(a)' = None
  BY <1>1 DEF Answer
<1>6. \A b \in Apps \ {a} : Answer(b)' = Answer(b)
  BY <1>1 DEF Answer
<1>7. status[v[a]] # None
  <2>1. v[a] \in Vouchers
    BY <1>1, AppVoucher DEF ServiceInv, IInv
  <2>2. status \in [Vouchers -> {0, 1}]
    BY DEF ServiceInv, IInv, TypeInv, TypeOK
  <2>3. QED
    BY <2>1, <2>2 DEF None
<1>8. QED
  BY <1>1, <1>3, <1>4, <1>5, <1>6, <1>7 DEF LineOf, UncollectedOf, AnswerOf
-----------------------------------------------------------------------------
(* Every step of the driver is a step of the service or none.              *)
LEMMA StepRefines ==
  ASSUME ServiceInv, ServiceInv', [Next]_vars
  PROVE  [Service!ServiceNext]_<<LineOf, UncollectedOf, AnswerOf, ret>>
<1>1. ASSUME NEW a \in Apps, QueueVoucher(a)
      PROVE  Service!Submit(a, DirOf(a))
  <2>1. /\ UncollectedOf[a] = None /\ AnswerOf[a] = None
        /\ \A d \in Threads : \A i \in 1..Len(LineOf[d]) : LineOf[d][i] # a
        /\ LineOf' = [LineOf EXCEPT ![DirOf(a)] = Append(@, a)]
        /\ UNCHANGED <<UncollectedOf, AnswerOf, ret>>
    BY <1>1, QueueVoucherSubmits
  <2>2. ~Service!Waiting(a)
    BY <2>1 DEF Service!Waiting, LineOf, Line, Threads
  <2>3. QED
    BY <2>1, <2>2 DEF Service!Submit, Service!None, None, LineOf, Line, UncollectedOf, Uncollected, AnswerOf, Answer
<1>2. ASSUME NEW d \in Threads, Device(d)
      PROVE  Service!Serve(d)
  BY <1>2, DeviceServes
     DEF Service!Serve, Service!Outcome, Service!Clients, Service!None, None, Apps, LineOf, Line, UncollectedOf, Uncollected, AnswerOf, Answer
<1>3. ASSUME NEW a \in Apps, Collect(a)
      PROVE  Service!Redeem(a)
  BY <1>3, CollectRedeems
     DEF Service!Redeem, Service!None, None, LineOf, Line, UncollectedOf, Uncollected, AnswerOf, Answer
<1>4. ASSUME NEW a \in Apps, RedeemReturn(a)
      PROVE  Service!Deliver(a)
  BY <1>4, ReturnDelivers
     DEF Service!Deliver, Service!None, None, LineOf, Line, UncollectedOf, Uncollected, AnswerOf, Answer
<1>5. ASSUME NEW a \in Apps, AppStep(a)
      PROVE  [Service!ServiceNext]_<<LineOf, UncollectedOf, AnswerOf, ret>>
  <2>1. CASE QueueVoucher(a)
    BY <1>1, <2>1 DEF Service!ServiceNext, DirOf, Apps
  <2>2. CASE Collect(a) \/ RedeemReturn(a)
    BY <1>3, <1>4, <2>2 DEF Service!ServiceNext, Service!Clients, Apps
  <2>3. CASE Private(a)
    BY <2>3, PrivateStutters
  <2>4. CASE GetDescriptor(a)
    <3>1. UNCHANGED <<LineOf, UncollectedOf, AnswerOf>> /\ ret' = [ret EXCEPT ![a] = None]
      BY <2>4, GetForgets
    <3>2. CASE ret[a] = None
      <4>1. ret' = ret
        BY <3>1, <3>2 DEF ServiceInv, IInv, TypeInv, TypeOK
      <4>2. QED
        BY <3>1, <4>1
    <3>3. CASE ret[a] # None
      <4>1. Service!Forget(a)
        BY <3>1, <3>3
           DEF Service!Forget, Service!None, None, LineOf, Line, UncollectedOf, Uncollected,
               AnswerOf, Answer
      <4>2. QED
        BY <4>1 DEF Service!ServiceNext, Service!Clients, Apps
    <3>4. QED
      BY <3>2, <3>3
  <2>5. QED
    BY <1>5, <2>1, <2>2, <2>3, <2>4 DEF AppStep, Private
<1>6. ASSUME NEW d \in Threads, WorkerStep(d)
      PROVE  [Service!ServiceNext]_<<LineOf, UncollectedOf, AnswerOf, ret>>
  <2>1. CASE Device(d)
    BY <1>2, <2>1 DEF Service!ServiceNext, Threads
  <2>2. CASE ~Device(d)
    BY <1>6, <2>2, WorkerStutters DEF WorkerStep
  <2>3. QED
    BY <2>1, <2>2
<1>7. CASE UNCHANGED vars
  BY <1>7, Stutter
     DEF vars, voucherVars, workerVars, appVars, InLine, AtDisk, Redeeming, Returning
<1>8. QED
  BY <1>5, <1>6, <1>7, StepCases

LEMMA ServiceInductive == Spec => []ServiceInv
  BY Inductive, LineIs, PendingIs, PTL DEF ServiceInv

(* The driver is the service, for every number of applications, vouchers,  *)
(* buffer slots and descriptors. A voucher leads its application to the    *)
(* outcome of the request it was given for, although vouchers change hands *)
(* and their fields are written without a lock (l.129-189, l.205-226);     *)
(* what line 229 returns is that outcome or a later one.                   *)
THEOREM DriverImplementsService == Spec => ImplementsDiskService
<1>1. Init => Service!ServiceInit
  BY DEF Init, Service!ServiceInit, Service!Clients, Service!None, None, Threads, Apps, Redeeming,
         Returning
<1>2. ServiceInv /\ ServiceInv' /\ [Next]_vars => [Service!ServiceNext]_(Service!serviceVars)
  BY StepRefines
     DEF Service!serviceVars, LineOf, Line, UncollectedOf, Uncollected, AnswerOf, Answer
<1>3. QED
  BY <1>1, <1>2, ServiceInductive, PTL DEF Spec, ImplementsDiskService, Service!ServiceSpec
-----------------------------------------------------------------------------
(* A pool without duplicates has no room for more than there are.          *)
LEMMA PoolBound ==
  ASSUME IInv, NEW a \in Apps, Owns(a)
  PROVE  Len(vouchBB) < VSIZE /\ Len(vouchBB) < PoolCapacity
<1>1. v[a] \in Vouchers /\ Len(vouchBB) \in Nat /\ VSIZE \in Nat \ {0} /\ PtrSize \in Nat \ {0}
  <2>1. v[a] \in Vouchers
    <3>1. pc[a] \notin {"idle", "take", "putback"}
      BY DEF Owns, Redeeming
    <3>2. TypeInv
      BY DEF IInv
    <3>3. QED
      BY <3>1, <3>2, AppVoucher
  <2>2. vouchBB \in Seq(Vouchers)
    BY DEF IInv, TypeInv, TypeOK
  <2>3. Len(vouchBB) \in Nat
    BY <2>2, LenProperties
  <2>4. VSIZE \in Nat \ {0} /\ PtrSize \in Nat \ {0}
    BY DriverAssumption
  <2>5. QED
    BY <2>1, <2>3, <2>4
<1> DEFINE S == 1..Len(vouchBB)
           T == Vouchers \ {v[a]}
           f == [i \in S |-> vouchBB[i]]
<1>2. IsFiniteSet(S) /\ Cardinality(S) = Len(vouchBB)
  <2>1. ASSUME NEW n \in Nat PROVE IsFiniteSet(1..n) /\ Cardinality(1..n) = n
    <3>1. IsFiniteSet(1..n) /\ Cardinality(1..n) = IF 1 > n THEN 0 ELSE n - 1 + 1
      BY FS_Interval
    <3>2. (IF 1 > n THEN 0 ELSE n - 1 + 1) = n
      OBVIOUS
    <3>3. QED
      BY <3>1, <3>2
  <2>2. QED
    BY <1>1, <2>1
<1>3. IsFiniteSet(T) /\ Cardinality(T) = VSIZE - 1
  <2>1. IsFiniteSet(Vouchers) /\ Cardinality(Vouchers) = VSIZE
    BY <1>1, FS_Interval DEF Vouchers
  <2>2. QED
    BY <1>1, <2>1, FS_RemoveElement
<1>4. f \in [S -> T]
  BY DEF IInv, TypeInv, TypeOK, ClientOwnership
<1>5. \A i, j \in S : f[i] = f[j] => i = j
  BY DEF IInv, ClientOwnership
<1>6. ~(Cardinality(T) < Cardinality(S))
  <2> HIDE DEF S, T, f
  <2>1. SUFFICES ASSUME Cardinality(T) < Cardinality(S) PROVE FALSE
    OBVIOUS
  <2>2. \E i, j \in S : i # j /\ f[i] = f[j]
    BY <1>2, <1>3, <1>4, <2>1, FS_PigeonHole
  <2>3. QED
    BY <1>5, <2>2
<1>7. Len(vouchBB) <= VSIZE - 1
  BY <1>1, <1>2, <1>3, <1>6
<1>8. VSIZE <= VSIZE * PtrSize
  BY <1>1
<1>9. QED
  BY <1>1, <1>7, <1>8 DEF PoolCapacity

LEMMA ConservedStep == IInv /\ Conserved /\ [Next]_vars => Conserved'
<1> SUFFICES ASSUME IInv, Conserved, [Next]_vars PROVE Conserved'
  OBVIOUS
<1>1. vouchBB \in Seq(Vouchers) /\ v \in [Apps -> Vouchers \cup {NoVoucher}] /\ pc \in [Apps -> AppState]
  BY DEF IInv, TypeInv, TypeOK
\* A step that leaves the pool alone, and every owner its voucher.
<1>2. ASSUME UNCHANGED vouchBB, \A b \in Apps : Owns(b) => Owns(b)' /\ v'[b] = v[b]
      PROVE  Conserved'
  BY <1>2 DEF Conserved, Pooled, Owned
\* A step that returns the voucher of an application.
<1>3. ASSUME NEW a \in Apps, vouchBB' = Append(vouchBB, v[a]), v[a] \in Vouchers,
             \A b \in Apps \ {a} : Owns(b) => Owns(b)' /\ v'[b] = v[b]
      PROVE  Conserved'
  <2>1. /\ Len(vouchBB') = Len(vouchBB) + 1 /\ vouchBB'[Len(vouchBB) + 1] = v[a]
        /\ Len(vouchBB) \in Nat /\ \A i \in 1..Len(vouchBB) : vouchBB'[i] = vouchBB[i]
    BY <1>1, <1>3
  <2>2. ASSUME NEW x \in Vouchers PROVE Pooled(x)' \/ Owned(x)'
    <3>1. CASE Pooled(x)
      BY <2>1, <3>1 DEF Pooled
    <3>2. CASE x = v[a]
      BY <2>1, <3>2 DEF Pooled
    <3>3. CASE ~Pooled(x) /\ x # v[a]
      BY <1>3, <3>3 DEF Owned, Conserved
    <3>4. QED
      BY <3>1, <3>2, <3>3
  <2>3. QED
    BY <2>2 DEF Conserved
<1>4. ASSUME NEW a \in Apps, TakeVoucher(a) PROVE Conserved'
  <2>1. /\ vouchBB # << >> /\ v'[a] = Head(vouchBB) /\ vouchBB' = Tail(vouchBB) /\ Owns(a)'
    BY <1>1, <1>4 DEF TakeVoucher, Owns, Redeeming
  <2>2. \A b \in Apps : Owns(b) => Owns(b)' /\ v'[b] = v[b]
    BY <1>1, <1>4 DEF TakeVoucher, Owns, Redeeming
  <2>3. /\ Head(vouchBB) = vouchBB[1] /\ Len(Tail(vouchBB)) = Len(vouchBB) - 1
        /\ Len(vouchBB) \in Nat \ {0}
        /\ \A i \in 1..(Len(vouchBB) - 1) : Tail(vouchBB)[i] = vouchBB[i + 1]
    BY <1>1, <2>1
  <2>4. ASSUME NEW x \in Vouchers PROVE Pooled(x)' \/ Owned(x)'
    <3>1. CASE Owned(x)
      BY <2>2, <3>1 DEF Owned
    <3>2. CASE Pooled(x)
      <4>1. PICK i \in 1..Len(vouchBB) : vouchBB[i] = x
        BY <3>2 DEF Pooled
      <4>2. CASE i = 1
        BY <2>1, <2>3, <4>1, <4>2 DEF Owned
      <4>3. CASE i # 1
        <5>1. i - 1 \in 1..(Len(vouchBB) - 1) /\ vouchBB[(i - 1) + 1] = x
          BY <2>3, <4>1, <4>3
        <5>2. QED
          BY <2>1, <2>3, <5>1 DEF Pooled
      <4>4. QED
        BY <4>2, <4>3
    <3>3. QED
      BY <3>1, <3>2 DEF Conserved
  <2>5. QED
    BY <2>4 DEF Conserved
<1>5. ASSUME NEW a \in Apps, UndoNonblocking(a) PROVE Conserved'
  <2>1. Owns(a) /\ v[a] \in Vouchers
    BY <1>5, AppVoucher DEF UndoNonblocking, Owns, IInv
  <2>2. vouchBB' = Append(vouchBB, v[a])
    BY <1>5, <2>1, PoolBound DEF UndoNonblocking
  <2>3. \A b \in Apps \ {a} : Owns(b) => Owns(b)' /\ v'[b] = v[b]
    BY <1>1, <1>5 DEF UndoNonblocking, Owns, Redeeming
  <2>4. QED
    BY <1>3, <2>1, <2>2, <2>3
<1>6. ASSUME NEW a \in Apps, GiveBack(a) PROVE Conserved'
  <2>1. v[a] \in Vouchers /\ vouchBB' = Append(vouchBB, v[a])
    BY <1>6, AppVoucher DEF GiveBack, IInv
  <2>2. \A b \in Apps \ {a} : Owns(b) => Owns(b)' /\ v'[b] = v[b]
    BY <1>1, <1>6 DEF GiveBack, Owns, Redeeming, appVars
  <2>3. QED
    BY <1>3, <2>1, <2>2
<1>7. ASSUME NEW a \in Apps,
             \/ GetDescriptor(a) \/ FillVoucher(a) \/ QueueVoucher(a) \/ QueueFull(a)
             \/ PutDescriptor(a) \/ RedeemLock(a) \/ CheckCompleted(a) \/ CondWait(a)
             \/ SpuriousWakeup(a) \/ Reacquire(a) \/ Collect(a) \/ RedeemUnlock(a) \/ RedeemReturn(a)
      PROVE  Conserved'
  <2>1. UNCHANGED vouchBB
    BY <1>7 DEF GetDescriptor, FillVoucher, QueueVoucher, QueueFull, PutDescriptor, RedeemLock,
         CheckCompleted, CondWait, SpuriousWakeup, Reacquire, Collect, RedeemUnlock, RedeemReturn
  <2>2. \A b \in Apps : Owns(b) => Owns(b)' /\ v'[b] = v[b]
    BY <1>1, <1>7 DEF GetDescriptor, FillVoucher, QueueVoucher, QueueFull, PutDescriptor, RedeemLock,
         CheckCompleted, CondWait, SpuriousWakeup, Reacquire, Collect, RedeemUnlock, RedeemReturn,
         Owns, Redeeming, appVars
  <2>3. QED
    BY <1>2, <2>1, <2>2
<1>8. ASSUME NEW d \in Threads, WorkerStep(d) PROVE Conserved'
  <2>1. UNCHANGED <<vouchBB, pc, v>>
    BY <1>8 DEF WorkerStep, Dequeue, WorkerLock, Device, Finish, appVars
  <2>2. QED
    BY <1>2, <2>1 DEF Owns, Redeeming
<1>9. CASE UNCHANGED vars
  BY <1>2, <1>9 DEF Owns, Redeeming, vars, appVars
<1>10. QED
  BY <1>4, <1>5, <1>6, <1>7, <1>8, <1>9, StepCases DEF AppStep

LEMMA ConservedAlways == Spec => []Conserved
<1>1. Init => Conserved
  BY DriverAssumption DEF Init, Conserved, Pooled, Vouchers
<1>2. QED
  BY <1>1, ConservedStep, Inductive, PTL DEF Spec

(* For any number of applications and vouchers a voucher is never lost,    *)
(* never with two owners, never free while owned and never queued twice:   *)
(* nothing of this is protected by a lock in init, take, fill and queue    *)
(* (l.129-189).                                                            *)
THEOREM VouchersOwned == Spec => []VoucherOwnership
  BY Inductive, ConservedAlways, PTL DEF IInv, VoucherOwnership

\* With a voucher for every application no nonblocking call waits for one.
NeverWaitsForPool ==
  Cardinality(Apps) <= VSIZE => \A a \in Apps : pc[a] = "take" => vouchBB # << >>

(* As many vouchers as applications are enough for the calls that promise  *)
(* not to block (diskdriver.h:40) and yet begin with blockingReadBB        *)
(* (l.141, l.176).                                                         *)
THEOREM PoolSuffices == Spec => []NeverWaitsForPool
<1>1. ASSUME IInv, Conserved PROVE NeverWaitsForPool
  <2>1. SUFFICES ASSUME Cardinality(Apps) <= VSIZE, NEW a \in Apps
                 PROVE  pc[a] = "take" => vouchBB # << >>
    BY DEF NeverWaitsForPool
  <2>3. ASSUME pc[a] = "take", vouchBB = << >> PROVE FALSE
    <3> DEFINE T == Apps \ {a}
               f == [x \in Vouchers |-> CHOOSE b \in Apps : Owns(b) /\ v[b] = x]
    <3>1. VSIZE \in Nat /\ IsFiniteSet(Vouchers) /\ Cardinality(Vouchers) = VSIZE
      BY DriverAssumption, FS_Interval DEF Vouchers
    <3>2. IsFiniteSet(T) /\ Cardinality(T) = Cardinality(Apps) - 1 /\ Cardinality(Apps) \in Nat
      BY FiniteThreads, FS_RemoveElement, FS_CardinalityType
    <3>3. \A x \in Vouchers : f[x] \in Apps /\ Owns(f[x]) /\ v[f[x]] = x
      <4>1. \A x \in Vouchers : Owned(x)
        BY <1>1, <2>3 DEF Conserved, Pooled
      <4>2. QED
        BY <4>1 DEF Owned
    <3>4. ~Owns(a)
      BY <2>3 DEF Owns, Redeeming
    <3>5. f \in [Vouchers -> T]
      BY <3>3, <3>4
    <3>6. \A x, y \in Vouchers : f[x] = f[y] => x = y
      BY <3>3
    <3>7. Cardinality(T) < Cardinality(Vouchers)
      BY <2>1, <3>1, <3>2
    <3> HIDE DEF T, f
    <3>8. \E x, y \in Vouchers : x # y /\ f[x] = f[y]
      BY <3>1, <3>2, <3>5, <3>7, FS_PigeonHole
    <3>9. QED
      BY <3>6, <3>8
  <2>4. QED
    BY <2>3
<1>2. QED
  BY <1>1, Inductive, ConservedAlways, PTL
-----------------------------------------------------------------------------
(* With room for every application of a direction no request of one is     *)
(* refused and none waits for room.                                        *)
THEOREM BuffersSuffice == Spec => []NeverRefused
<1>1. ASSUME IInv PROVE NeverRefused
  <2>1. SUFFICES ASSUME NEW a \in Apps, pc[a] = "queue",
                        Cardinality({b \in Apps : DirOf(b) = DirOf(a)}) <= SIZE
                 PROVE  Len(queue[DirOf(a)]) < SIZE
    BY DEF NeverRefused
  <2> DEFINE d == DirOf(a)
             D == {b \in Apps : DirOf(b) = d}
             S == 1..Len(queue[d])
             T == D \ {a}
             f == [i \in S |-> CHOOSE b \in Apps : Awaits(b, queue[d][i], d)]
  <2>2. d \in Threads /\ SIZE \in Nat /\ Len(queue[d]) \in Nat
    BY <1>1, DriverAssumption DEF IInv, TypeInv, TypeOK, DirOf, Threads
  <2>3. IsFiniteSet(S) /\ Cardinality(S) = Len(queue[d])
    BY <2>2, FS_Interval
  <2>4. /\ IsFiniteSet(D) /\ Cardinality(D) \in Nat
        /\ IsFiniteSet(T) /\ Cardinality(T) = Cardinality(D) - 1
    <3>1. IsFiniteSet(D) /\ a \in D
      BY FiniteThreads, FS_Subset
    <3> HIDE DEF D
    <3>2. QED
      BY <3>1, FS_RemoveElement, FS_CardinalityType
  <2>5. \A i \in S : f[i] \in Apps /\ Awaits(f[i], queue[d][i], d)
    BY <1>1, <2>2 DEF IInv, ServerOwnership
  <2>6. f \in [S -> T]
    BY <2>1, <2>5 DEF Awaits, Redeeming
  <2>7. \A i, j \in S : f[i] = f[j] => i = j
    <3>1. \A i \in S : v[f[i]] = queue[d][i]
      BY <2>5 DEF Awaits
    <3>2. \A i, j \in S : queue[d][i] = queue[d][j] => i = j
      BY <1>1, <2>2 DEF IInv, ServerOwnership
    <3>3. QED
      BY <3>1, <3>2
  <2>8. Cardinality(D) <= SIZE
    BY <2>1
  <2> HIDE DEF S, T, f, D
  <2>9. ~(Cardinality(T) < Cardinality(S))
    BY <2>3, <2>4, <2>6, <2>7, FS_PigeonHole
  <2>10. QED
    BY <2>2, <2>3, <2>4, <2>8, <2>9
<1>2. QED
  BY <1>1, Inductive, PTL
-----------------------------------------------------------------------------
(* Descriptors stay apart: a step that touches neither the store nor       *)
(* anybody's descriptor, and lets nobody begin, keeps them so.             *)
LEMMA DescriptorStep ==
  ASSUME IInv, OneHolder, [Next]_vars
  PROVE  OneHolder' \/ \E a \in Readers : pc[a] = "collect" /\ pc'[a] = "giveback"
<1>1. /\ fsds \in Seq(Descriptors) /\ sd \in [Apps -> Descriptors \cup {NoSD}]
      /\ pc \in [Apps -> AppState] /\ v \in [Apps -> Vouchers \cup {NoVoucher}]
  BY DEF IInv, TypeInv, TypeOK
<1>2. /\ \A i, j \in 1..Len(fsds) : fsds[i] = fsds[j] => i = j
      /\ \A a \in Apps : pc[a] # "idle" =>
           /\ \A i \in 1..Len(fsds) : fsds[i] # sd[a]
           /\ \A b \in Apps \ {a} : pc[b] # "idle" => sd[a] # sd[b]
  BY DEF OneHolder
<1>3. ASSUME UNCHANGED <<fsds, sd>>, \A b \in Apps : pc'[b] # "idle" => pc[b] # "idle"
      PROVE  OneHolder'
  BY <1>2, <1>3 DEF OneHolder
<1>4. ASSUME NEW a \in Apps, GetDescriptor(a) PROVE OneHolder'
  <2>1. /\ fsds # << >> /\ fsds' = Tail(fsds) /\ sd' = [sd EXCEPT ![a] = Head(fsds)]
        /\ pc' = [pc EXCEPT ![a] = "take"]
    BY <1>4 DEF GetDescriptor
  <2>2. /\ Len(fsds) \in Nat \ {0} /\ Head(fsds) = fsds[1] /\ Len(Tail(fsds)) = Len(fsds) - 1
        /\ \A i \in 1..(Len(fsds) - 1) : Tail(fsds)[i] = fsds[i + 1]
    BY <1>1, <2>1
  <2>3. \A i \in 1..Len(fsds') : i + 1 \in 1..Len(fsds) /\ i + 1 # 1 /\ fsds'[i] = fsds[i + 1]
    BY <2>1, <2>2
  <2>4. \A i, j \in 1..Len(fsds') : fsds'[i] = fsds'[j] => i = j
    <3>1. SUFFICES ASSUME NEW i \in 1..Len(fsds'), NEW j \in 1..Len(fsds'), fsds'[i] = fsds'[j]
                   PROVE  i = j
      OBVIOUS
    <3>2. i + 1 = j + 1
      BY <1>2, <2>3, <3>1
    <3>3. QED
      BY <2>1, <2>2, <3>2
  <2>5. 1 \in 1..Len(fsds)
    BY <2>2
  <2>6. \A i \in 1..Len(fsds') : fsds'[i] # Head(fsds)
    BY <1>2, <2>2, <2>3, <2>5
  <2>7. \A b \in Apps \ {a} : pc'[b] # "idle" =>
          sd'[b] = sd[b] /\ sd[b] # Head(fsds) /\ \A i \in 1..Len(fsds') : fsds'[i] # sd[b]
    BY <1>1, <1>2, <2>1, <2>2, <2>3, <2>5
  <2>8. sd'[a] = Head(fsds)
    BY <1>1, <2>1
  <2>9. \A b, c \in Apps \ {a} : b # c /\ pc'[b] # "idle" /\ pc'[c] # "idle" => sd'[b] # sd'[c]
    BY <1>1, <1>2, <2>1
  <2>10. QED
    BY <2>4, <2>6, <2>7, <2>8, <2>9 DEF OneHolder
<1>5. ASSUME NEW a \in Apps, PutDescriptor(a) PROVE OneHolder'
  <2>1. /\ pc[a] = "putback" /\ fsds' = Append(fsds, sd[a]) /\ pc' = [pc EXCEPT ![a] = "idle"]
        /\ UNCHANGED sd
    BY <1>5 DEF PutDescriptor, appVars
  <2>2. /\ Len(fsds) \in Nat /\ Len(fsds') = Len(fsds) + 1 /\ fsds'[Len(fsds) + 1] = sd[a]
        /\ \A i \in 1..Len(fsds) : fsds'[i] = fsds[i]
    BY <1>1, <2>1
  <2>3. \A i \in 1..Len(fsds') : i \in 1..Len(fsds) \/ i = Len(fsds) + 1
    BY <2>2
  <2>4. \A i, j \in 1..Len(fsds') : fsds'[i] = fsds'[j] => i = j
    BY <1>2, <2>1, <2>2, <2>3
  <2>5. \A b \in Apps : pc'[b] # "idle" => b # a /\ pc[b] # "idle"
    BY <1>1, <2>1
  <2>6. \A b \in Apps : pc'[b] # "idle" => \A i \in 1..Len(fsds') : fsds'[i] # sd[b]
    BY <1>2, <2>1, <2>2, <2>3, <2>5
  <2>7. QED
    BY <1>2, <2>1, <2>4, <2>5, <2>6 DEF OneHolder
<1>6. ASSUME NEW a \in Apps \ Readers, Collect(a) PROVE OneHolder'
  <2>1. pc[a] = "collect" /\ v[a] \in Vouchers /\ DirOf(a) = "write"
    BY <1>6, AppVoucher DEF Collect, IInv, DirOf, Apps
  <2>2. vsd[v[a]] = sd[a] /\ read_write[v[a]] = "write"
    BY <2>1 DEF IInv, RequestInv, RequestIntact, Redeeming
  <2>3. sd' = sd
    BY <1>1, <1>6, <2>2 DEF Collect
  <2>4. fsds' = fsds
    BY <1>6, <2>2 DEF Collect
  <2>5. \A b \in Apps : pc'[b] # "idle" => pc[b] # "idle"
    BY <1>1, <1>6, <2>1 DEF Collect
  <2>6. QED
    BY <1>3, <2>3, <2>4, <2>5
<1>7. ASSUME NEW a \in Apps,
             \/ TakeVoucher(a) \/ FillVoucher(a) \/ QueueVoucher(a) \/ QueueFull(a)
             \/ UndoNonblocking(a) \/ RedeemLock(a) \/ CheckCompleted(a) \/ CondWait(a)
             \/ SpuriousWakeup(a) \/ Reacquire(a) \/ GiveBack(a) \/ RedeemUnlock(a)
             \/ RedeemReturn(a)
      PROVE  OneHolder'
  <2>1. UNCHANGED <<fsds, sd>>
    BY <1>7 DEF TakeVoucher, FillVoucher, QueueVoucher, QueueFull, UndoNonblocking, RedeemLock,
         CheckCompleted, CondWait, SpuriousWakeup, Reacquire, GiveBack, RedeemUnlock, RedeemReturn,
         appVars
  <2>2. \A b \in Apps : pc'[b] # "idle" => pc[b] # "idle"
    BY <1>1, <1>7 DEF TakeVoucher, FillVoucher, QueueVoucher, QueueFull, UndoNonblocking,
         RedeemLock, CheckCompleted, CondWait, SpuriousWakeup, Reacquire, GiveBack, RedeemUnlock,
         RedeemReturn
  <2>3. QED
    BY <1>3, <2>1, <2>2
<1>8. ASSUME NEW d \in Threads, WorkerStep(d) PROVE OneHolder'
  <2>1. UNCHANGED <<fsds, sd, pc>>
    BY <1>8 DEF WorkerStep, Dequeue, WorkerLock, Device, Finish, appVars
  <2>2. QED
    BY <1>3, <2>1
<1>9. CASE UNCHANGED vars
  BY <1>3, <1>9 DEF vars, appVars
<1>10. ASSUME NEW a \in Readers, Collect(a) PROVE pc[a] = "collect" /\ pc'[a] = "giveback"
  BY <1>1, <1>10 DEF Collect, Apps
<1>11. QED
  BY <1>4, <1>5, <1>6, <1>7, <1>8, <1>9, <1>10, StepCases DEF AppStep

(* Nothing but a reader's redemption ever puts a descriptor in two places. *)
THEOREM DescriptorsOwned == Spec => DescriptorsStayApart
<1>1. ASSUME IInv, [Next]_vars
      PROVE  [OneHolder => \/ OneHolder'
                           \/ \E a \in Readers : pc[a] = "collect" /\ pc'[a] = "giveback"]_vars
  BY <1>1, DescriptorStep
<1>2. QED
  BY <1>1, Inductive, PTL DEF Spec, DescriptorsStayApart
================================================================================
