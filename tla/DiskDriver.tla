------------------------------ MODULE DiskDriver ------------------------------
(***************************************************************************)
(* project2/diskdriver.c: applications queue sector reads and writes and   *)
(* redeem the voucher they were given; one worker thread per direction     *)
(* drives the disk.  Each action is a stretch of code between two points   *)
(* where another thread can interfere: a bounded-buffer or store call, a   *)
(* mutex operation, the device call, an access to a field outside a lock.  *)
(* The applications, the bounded buffer, the descriptor store and the disk *)
(* are object files: they are modelled from how the driver uses them.      *)
(***************************************************************************)
EXTENDS Integers, Sequences, FiniteSets

CONSTANTS Writers,   \* application threads that write sectors
          Readers,   \* application threads that read sectors
          VSIZE,     \* number of vouchers
          SIZE,      \* capacity of writeBB and of readBB
          PtrSize,   \* sizeof(Voucher *): vouchBB is created that much larger
          NumSD,     \* sector descriptors carved by create_free_sector_descriptors
          MaxRequests \* bound: requests the applications make before time is up

Threads == {"write", "read"}       \* the two workers, named by direction
Apps == Writers \cup Readers
NoThread == "nobody"

ASSUME DriverAssumption ==
  /\ Writers \cap Readers = {}
  /\ Apps \cap {"write", "read", "nobody"} = {}
  /\ VSIZE \in Nat \ {0}
  /\ SIZE \in Nat \ {0}
  /\ PtrSize \in Nat \ {0}
  /\ NumSD \in Nat
  /\ MaxRequests \in Nat

ASSUME FiniteThreads == IsFiniteSet(Apps)

VARIABLES
  fsds,       \* free sector descriptor store, a FIFO queue of descriptors
  vouchBB,    \* bounded buffer of free vouchers
  queue,      \* queue["write"] is writeBB, queue["read"] is readBB
  status, vsd, read_write, completed,   \* the fields of vouchers[]
  mute,       \* owner of each voucher's mutex
  waiters,    \* applications blocked in pthread_cond_wait, per voucher
  wpc, wv,    \* control point and voucher of each worker
  pc,         \* control point of each application
  v, sd, mode,\* its voucher, its descriptor, the kind of call it is making
  seen,       \* history: the status redeem_voucher tested at line 213
  out,        \* history: the descriptor the last redemption stored in *sd
  ret,        \* what redeem_voucher last returned
  requests    \* number of requests made so far

voucherVars == <<status, vsd, read_write, completed>>
workerVars == <<wpc, wv>>
appVars == <<v, sd, mode, seen, out, ret, requests>>
vars == <<fsds, vouchBB, queue, voucherVars, mute, waiters, workerVars, pc, appVars>>

Vouchers == 1..VSIZE
NoVoucher == 0
Descriptors == 1..NumSD
NoSD == 0
\* Mutant: the disk also reports an error code.
DeviceResultWithError == {-1, 0, 1}
DeviceResult == {0, 1}
None == -1
PoolCapacity == VSIZE * PtrSize
DirOf(a) == IF a \in Writers THEN "write" ELSE "read"

(* An application is inside redeem_voucher, its outcome not collected yet. *)
Redeeming(a) == pc[a] \in {"queued", "check", "sleep", "waiting", "collect"}
(* The voucher is on its way to an outcome. *)
InFlight(x) == \/ \E d \in Threads : \E i \in 1..Len(queue[d]) : queue[d][i] = x
               \/ \E d \in Threads : wpc[d] # "await" /\ wv[d] = x

AppState == {"idle", "take", "fill", "queue", "undo", "queued", "check",
             "sleep", "waiting", "collect", "giveback", "unlock", "return", "putback"}
WorkerState == {"await", "lock", "device", "finish"}
-----------------------------------------------------------------------------
(* init_disk_driver: the store is filled, every voucher is free. The       *)
(* vouchers are static storage, so the fields it does not set are zero.    *)
Init ==
  /\ fsds = [i \in Descriptors |-> i]
  /\ vouchBB = [i \in Vouchers |-> i]
  /\ queue = [d \in Threads |-> << >>]
  /\ status = [x \in Vouchers |-> 0]
  /\ vsd = [x \in Vouchers |-> NoSD]
  /\ read_write = [x \in Vouchers |-> "read"]
  /\ completed = [x \in Vouchers |-> 0]
  /\ mute = [x \in Vouchers |-> NoThread]
  /\ waiters = [x \in Vouchers |-> {}]
  /\ wpc = [d \in Threads |-> "await"]
  /\ wv = [d \in Threads |-> NoVoucher]
  /\ pc = [a \in Apps |-> "idle"]
  /\ v = [a \in Apps |-> NoVoucher]
  /\ sd = [a \in Apps |-> NoSD]
  /\ mode = [a \in Apps |-> "blocking"]
  /\ seen = [a \in Apps |-> None]
  /\ out = [a \in Apps |-> NoSD]
  /\ ret = [a \in Apps |-> None]
  /\ requests = 0
-----------------------------------------------------------------------------
(* The application takes a descriptor and chooses the call to make. Its    *)
(* old return value is dead and is forgotten.                              *)
GetDescriptor(a) ==
  /\ pc[a] = "idle" /\ requests < MaxRequests
  /\ fsds # << >>
  /\ sd' = [sd EXCEPT ![a] = Head(fsds)]
  /\ fsds' = Tail(fsds)
  /\ \E m \in {"blocking", "nonblocking"} : mode' = [mode EXCEPT ![a] = m]
  /\ ret' = [ret EXCEPT ![a] = None]
  /\ out' = [out EXCEPT ![a] = NoSD]
  /\ requests' = requests + 1
  /\ pc' = [pc EXCEPT ![a] = "take"]
  /\ UNCHANGED <<vouchBB, queue, voucherVars, mute, waiters, workerVars, v, seen>>

(* All four calls begin with blockingReadBB(vouchBB), the nonblocking ones too. *)
TakeVoucher(a) ==
  /\ pc[a] = "take"
  /\ vouchBB # << >>
  /\ v' = [v EXCEPT ![a] = Head(vouchBB)]
  /\ vouchBB' = Tail(vouchBB)
  /\ pc' = [pc EXCEPT ![a] = "fill"]
  /\ UNCHANGED <<fsds, queue, voucherVars, mute, waiters, workerVars, sd, mode, seen, out, ret, requests>>

(* The voucher is filled in without its mutex. *)
FillVoucher(a) ==
  /\ pc[a] = "fill"
  /\ read_write' = [read_write EXCEPT ![v[a]] = DirOf(a)]
  /\ completed' = [completed EXCEPT ![v[a]] = 0]
  /\ vsd' = [vsd EXCEPT ![v[a]] = sd[a]]
  /\ pc' = [pc EXCEPT ![a] = "queue"]
  /\ UNCHANGED <<fsds, vouchBB, queue, status, mute, waiters, workerVars, appVars>>

\* Mutant: line 150's return is missing, the queued voucher is given back too.
QueueAndGiveBack(a) ==
  /\ pc[a] = "queue" /\ Len(queue[DirOf(a)]) < SIZE
  /\ queue' = [queue EXCEPT ![DirOf(a)] = Append(@, v[a])]
  /\ vouchBB' = IF mode[a] = "nonblocking" THEN Append(vouchBB, v[a]) ELSE vouchBB
  /\ pc' = [pc EXCEPT ![a] = "queued"]
  /\ UNCHANGED <<fsds, voucherVars, mute, waiters, workerVars, appVars>>

(* blockingWriteBB, or nonblockingWriteBB finding room. Which of the four  *)
(* functions was called matters no longer, and mode forgets it.            *)
QueueVoucher(a) ==
  /\ pc[a] = "queue"
  /\ Len(queue[DirOf(a)]) < SIZE
  /\ queue' = [queue EXCEPT ![DirOf(a)] = Append(@, v[a])]
  /\ pc' = [pc EXCEPT ![a] = "queued"]
  /\ mode' = [mode EXCEPT ![a] = "blocking"]
  /\ UNCHANGED <<fsds, vouchBB, voucherVars, mute, waiters, workerVars, v, sd, seen, out, ret, requests>>

(* nonblockingWriteBB finds the buffer full. *)
QueueFull(a) ==
  /\ pc[a] = "queue" /\ mode[a] = "nonblocking"
  /\ Len(queue[DirOf(a)]) >= SIZE
  /\ pc' = [pc EXCEPT ![a] = "undo"]
  /\ UNCHANGED <<fsds, vouchBB, queue, voucherVars, mute, waiters, workerVars, appVars>>

\* Mutant: line 152 (187) is missing, a refused call loses its voucher.
UndoLosesVoucher(a) ==
  /\ pc[a] = "undo"
  /\ v' = [v EXCEPT ![a] = NoVoucher]
  /\ pc' = [pc EXCEPT ![a] = "putback"]
  /\ UNCHANGED <<fsds, vouchBB, queue, voucherVars, mute, waiters, workerVars, sd, mode, seen,
                 out, ret, requests>>

\* Mutant: a refused call also frees the descriptor, which its caller frees again.
UndoFreesDescriptor(a) ==
  /\ pc[a] = "undo"
  /\ vouchBB' = Append(vouchBB, v[a])
  /\ fsds' = Append(fsds, sd[a])
  /\ v' = [v EXCEPT ![a] = NoVoucher]
  /\ pc' = [pc EXCEPT ![a] = "putback"]
  /\ UNCHANGED <<queue, voucherVars, mute, waiters, workerVars, sd, mode, seen, out, ret, requests>>

(* The voucher goes back with a nonblocking write whose result is ignored: *)
(* a full pool would lose it. The call returns 0 and *v is never assigned. *)
UndoNonblocking(a) ==
  /\ pc[a] = "undo"
  /\ vouchBB' = IF Len(vouchBB) < PoolCapacity THEN Append(vouchBB, v[a]) ELSE vouchBB
  /\ v' = [v EXCEPT ![a] = NoVoucher]
  /\ pc' = [pc EXCEPT ![a] = "putback"]
  /\ mode' = [mode EXCEPT ![a] = "blocking"]
  /\ UNCHANGED <<fsds, queue, voucherVars, mute, waiters, workerVars, sd, seen, out, ret, requests>>

(* The application returns its descriptor: after a refused call, and, if   *)
(* it is a reader, at the end of every request.                            *)
PutDescriptor(a) ==
  /\ pc[a] = "putback"
  /\ fsds' = Append(fsds, sd[a])
  /\ pc' = [pc EXCEPT ![a] = "idle"]
  /\ UNCHANGED <<vouchBB, queue, voucherVars, mute, waiters, workerVars, appVars>>
-----------------------------------------------------------------------------
(* redeem_voucher takes the voucher's mutex. *)
RedeemLock(a) ==
  /\ pc[a] = "queued"
  /\ mute[v[a]] = NoThread
  /\ mute' = [mute EXCEPT ![v[a]] = a]
  /\ pc' = [pc EXCEPT ![a] = "check"]
  /\ UNCHANGED <<fsds, vouchBB, queue, voucherVars, waiters, workerVars, appVars>>

(* while (v->completed != 1) ... *)
CheckCompleted(a) ==
  /\ pc[a] = "check"
  /\ pc' = [pc EXCEPT ![a] = IF completed[v[a]] # 1 THEN "sleep" ELSE "collect"]
  /\ UNCHANGED <<fsds, vouchBB, queue, voucherVars, mute, waiters, workerVars, appVars>>

(* ... pthread_cond_wait: starts to wait and releases the mutex. *)
CondWait(a) ==
  /\ pc[a] = "sleep"
  /\ waiters' = [waiters EXCEPT ![v[a]] = @ \cup {a}]
  /\ mute' = [mute EXCEPT ![v[a]] = NoThread]
  /\ pc' = [pc EXCEPT ![a] = "waiting"]
  /\ UNCHANGED <<fsds, vouchBB, queue, voucherVars, workerVars, appVars>>

(* POSIX lets pthread_cond_wait return without a signal. *)
SpuriousWakeup(a) ==
  /\ pc[a] = "waiting" /\ a \in waiters[v[a]]
  /\ waiters' = [waiters EXCEPT ![v[a]] = @ \ {a}]
  /\ UNCHANGED <<fsds, vouchBB, queue, voucherVars, mute, workerVars, pc, appVars>>

\* Mutant: line 209 tests with if instead of while.
ReacquireWithoutTest(a) ==
  /\ pc[a] = "waiting" /\ a \notin waiters[v[a]]
  /\ mute[v[a]] = NoThread
  /\ mute' = [mute EXCEPT ![v[a]] = a]
  /\ pc' = [pc EXCEPT ![a] = "collect"]
  /\ UNCHANGED <<fsds, vouchBB, queue, voucherVars, waiters, workerVars, appVars>>

(* A woken thread takes the mutex again and tests the condition again. *)
Reacquire(a) ==
  /\ pc[a] = "waiting" /\ a \notin waiters[v[a]]
  /\ mute[v[a]] = NoThread
  /\ mute' = [mute EXCEPT ![v[a]] = a]
  /\ pc' = [pc EXCEPT ![a] = "check"]
  /\ UNCHANGED <<fsds, vouchBB, queue, voucherVars, waiters, workerVars, appVars>>

(* The request is complete: *sd is assigned (for a successful WRITE, as    *)
(* the code has it), a read's descriptor goes to the store, and the        *)
(* voucher is reset. Line 213's reading of the status is kept in seen.     *)
Collect(a) ==
  /\ pc[a] = "collect"
  /\ IF status[v[a]] = 1 /\ read_write[v[a]] = "write"
       THEN /\ sd' = [sd EXCEPT ![a] = vsd[v[a]]]
            /\ out' = [out EXCEPT ![a] = vsd[v[a]]]
       ELSE UNCHANGED <<sd, out>>
  /\ fsds' = IF read_write[v[a]] = "read" THEN Append(fsds, vsd[v[a]]) ELSE fsds
  /\ seen' = [seen EXCEPT ![a] = status[v[a]]]
  /\ completed' = [completed EXCEPT ![v[a]] = 0]
  /\ pc' = [pc EXCEPT ![a] = "giveback"]
  /\ UNCHANGED <<vouchBB, queue, status, vsd, read_write, mute, waiters, workerVars,
                 v, mode, ret, requests>>

\* Mutant: line 227 is missing, a redeemed voucher never returns to the pool.
GiveBackForgotten(a) ==
  /\ pc[a] = "giveback"
  /\ pc' = [pc EXCEPT ![a] = "unlock"]
  /\ UNCHANGED <<fsds, vouchBB, queue, voucherVars, mute, waiters, workerVars, appVars>>

(* The voucher is free again while its mutex is still held ... *)
GiveBack(a) ==
  /\ pc[a] = "giveback"
  /\ Len(vouchBB) < PoolCapacity
  /\ vouchBB' = Append(vouchBB, v[a])
  /\ pc' = [pc EXCEPT ![a] = "unlock"]
  /\ UNCHANGED <<fsds, queue, voucherVars, mute, waiters, workerVars, appVars>>

RedeemUnlock(a) ==
  /\ pc[a] = "unlock"
  /\ mute' = [mute EXCEPT ![v[a]] = NoThread]
  /\ pc' = [pc EXCEPT ![a] = "return"]
  /\ UNCHANGED <<fsds, vouchBB, queue, voucherVars, waiters, workerVars, appVars>>

(* ... and its status is read once more, with no lock and no ownership. *)
RedeemReturn(a) ==
  /\ pc[a] = "return"
  /\ ret' = [ret EXCEPT ![a] = status[v[a]]]
  /\ seen' = [seen EXCEPT ![a] = None]
  /\ v' = [v EXCEPT ![a] = NoVoucher]
  /\ pc' = [pc EXCEPT ![a] = IF a \in Readers THEN "putback" ELSE "idle"]
  /\ UNCHANGED <<fsds, vouchBB, queue, voucherVars, mute, waiters, workerVars, sd, mode, out, requests>>
-----------------------------------------------------------------------------
\* Mutant: the worker looks at the oldest request without removing it.
DequeuePeeks(d) ==
  /\ wpc[d] = "await" /\ queue[d] # << >>
  /\ wv' = [wv EXCEPT ![d] = Head(queue[d])]
  /\ wpc' = [wpc EXCEPT ![d] = "lock"]
  /\ UNCHANGED <<fsds, vouchBB, queue, voucherVars, mute, waiters, pc, appVars>>

(* The worker threads read() and write(). *)
Dequeue(d) ==
  /\ wpc[d] = "await"
  /\ queue[d] # << >>
  /\ wv' = [wv EXCEPT ![d] = Head(queue[d])]
  /\ queue' = [queue EXCEPT ![d] = Tail(@)]
  /\ wpc' = [wpc EXCEPT ![d] = "lock"]
  /\ UNCHANGED <<fsds, vouchBB, voucherVars, mute, waiters, pc, appVars>>

\* Mutant: line 52 (72) is missing, the worker serves without the mutex.
WorkerWithoutLock(d) ==
  /\ wpc[d] = "lock"
  /\ wpc' = [wpc EXCEPT ![d] = "device"]
  /\ UNCHANGED <<fsds, vouchBB, queue, voucherVars, mute, waiters, wv, pc, appVars>>

WorkerLock(d) ==
  /\ wpc[d] = "lock"
  /\ mute[wv[d]] = NoThread
  /\ mute' = [mute EXCEPT ![wv[d]] = d]
  /\ wpc' = [wpc EXCEPT ![d] = "device"]
  /\ UNCHANGED <<fsds, vouchBB, queue, voucherVars, waiters, wv, pc, appVars>>

(* read_sector / write_sector: the disk decides the outcome. *)
Device(d) ==
  /\ wpc[d] = "device"
  /\ \E s \in DeviceResult : status' = [status EXCEPT ![wv[d]] = s]
  /\ wpc' = [wpc EXCEPT ![d] = "finish"]
  /\ UNCHANGED <<fsds, vouchBB, queue, vsd, read_write, completed, mute, waiters, wv, pc, appVars>>

(* pthread_cond_signal wakes one waiter, if there is one. *)
Signal(x) ==
  IF waiters[x] = {} THEN UNCHANGED waiters
  ELSE \E a \in waiters[x] : waiters' = [waiters EXCEPT ![x] = @ \ {a}]

\* Mutant: line 55 (75) is missing, nobody is woken.
FinishSilently(d) ==
  /\ wpc[d] = "finish"
  /\ completed' = [completed EXCEPT ![wv[d]] = 1]
  /\ mute' = [mute EXCEPT ![wv[d]] = NoThread]
  /\ wpc' = [wpc EXCEPT ![d] = "await"]
  /\ wv' = [wv EXCEPT ![d] = NoVoucher]
  /\ UNCHANGED <<fsds, vouchBB, queue, status, vsd, read_write, waiters, pc, appVars>>

(* completed = 1, signal and unlock, all under the mutex. *)
Finish(d) ==
  /\ wpc[d] = "finish"
  /\ completed' = [completed EXCEPT ![wv[d]] = 1]
  /\ Signal(wv[d])
  /\ mute' = [mute EXCEPT ![wv[d]] = NoThread]
  /\ wpc' = [wpc EXCEPT ![d] = "await"]
  /\ wv' = [wv EXCEPT ![d] = NoVoucher]
  /\ UNCHANGED <<fsds, vouchBB, queue, status, vsd, read_write, pc, appVars>>
-----------------------------------------------------------------------------
(* Time is up, or the store has run dry, for every application: nothing    *)
(* can happen any more.                                                    *)
Quiescent ==
  /\ \A a \in Apps : pc[a] = "idle"
  /\ requests = MaxRequests \/ fsds = << >>
  /\ \A d \in Threads : wpc[d] = "await" /\ queue[d] = << >>
  /\ UNCHANGED vars

AppStep(a) ==
  \/ GetDescriptor(a) \/ TakeVoucher(a) \/ FillVoucher(a) \/ QueueVoucher(a)
  \/ QueueFull(a) \/ UndoNonblocking(a) \/ PutDescriptor(a)
  \/ RedeemLock(a) \/ CheckCompleted(a) \/ CondWait(a) \/ SpuriousWakeup(a) \/ Reacquire(a)
  \/ Collect(a) \/ GiveBack(a) \/ RedeemUnlock(a) \/ RedeemReturn(a)

WorkerStep(d) == Dequeue(d) \/ WorkerLock(d) \/ Device(d) \/ Finish(d)

Next ==
  \/ \E a \in Apps : AppStep(a)
  \/ \E d \in Threads : WorkerStep(d)
  \/ Quiescent

Spec == Init /\ [][Next]_vars

(* A thread that can move does so eventually; no thread is promised a      *)
(* spurious wakeup or a descriptor. A worker is not starved of a mutex     *)
(* that is free again and again.                                           *)
Fairness ==
  /\ \A a \in Apps :
       /\ WF_vars(TakeVoucher(a)) /\ WF_vars(FillVoucher(a))
       /\ WF_vars(QueueVoucher(a) \/ QueueFull(a)) /\ WF_vars(UndoNonblocking(a))
       /\ WF_vars(PutDescriptor(a)) /\ WF_vars(RedeemLock(a))
       /\ WF_vars(CheckCompleted(a)) /\ WF_vars(CondWait(a)) /\ WF_vars(Reacquire(a))
       /\ WF_vars(Collect(a))
       /\ WF_vars(GiveBack(a)) /\ WF_vars(RedeemUnlock(a)) /\ WF_vars(RedeemReturn(a))
  /\ \A d \in Threads :
       /\ WF_vars(Dequeue(d)) /\ SF_vars(WorkerLock(d))
       /\ WF_vars(Device(d)) /\ WF_vars(Finish(d))

FairSpec == Spec /\ Fairness
-----------------------------------------------------------------------------
TypeOK ==
  /\ fsds \in Seq(Descriptors)
  /\ vouchBB \in Seq(Vouchers)
  /\ queue \in [Threads -> Seq(Vouchers)]
  /\ status \in [Vouchers -> {0, 1}]
  /\ vsd \in [Vouchers -> Descriptors \cup {NoSD}]
  /\ read_write \in [Vouchers -> Threads]
  /\ completed \in [Vouchers -> {0, 1}]
  /\ mute \in [Vouchers -> Apps \cup Threads \cup {NoThread}]
  /\ waiters \in [Vouchers -> SUBSET Apps]
  /\ wpc \in [Threads -> WorkerState]
  /\ wv \in [Threads -> Vouchers \cup {NoVoucher}]
  /\ pc \in [Apps -> AppState]
  /\ v \in [Apps -> Vouchers \cup {NoVoucher}]
  /\ sd \in [Apps -> Descriptors \cup {NoSD}]
  /\ mode \in [Apps -> {"blocking", "nonblocking"}]
  /\ seen \in [Apps -> {0, 1, None}]
  /\ out \in [Apps -> Descriptors \cup {NoSD}]
  /\ ret \in [Apps -> {0, 1, None}]
  /\ requests \in 0..MaxRequests

(* The application owns its voucher: from the moment it took it from the   *)
(* pool to the moment it puts it back.                                     *)
Owns(a) == Redeeming(a) \/ pc[a] \in {"fill", "queue", "undo", "giveback"}

(* A voucher is at most once in the pool, with at most one application,    *)
(* never in the pool while an application owns it.                         *)
ClientOwnership ==
  /\ \A i, j \in 1..Len(vouchBB) : vouchBB[i] = vouchBB[j] => i = j
  /\ \A a, b \in Apps : Owns(a) /\ Owns(b) /\ v[a] = v[b] => a = b
  /\ \A a \in Apps : Owns(a) => \A i \in 1..Len(vouchBB) : vouchBB[i] # v[a]

(* a is waiting for the outcome of x, a request of direction d. *)
Awaits(a, x, d) ==
  Redeeming(a) /\ v[a] = x /\ DirOf(a) = d /\ completed[x] = 0

(* The driver works only on requests whose application still waits for     *)
(* them, each queued at most once and in the buffer of its direction.      *)
ServerOwnership ==
  /\ \A d \in Threads : \A i, j \in 1..Len(queue[d]) :
       queue[d][i] = queue[d][j] => i = j
  /\ \A d \in Threads : \A i \in 1..Len(queue[d]) :
       \E a \in Apps : Awaits(a, queue[d][i], d)
  /\ \A d \in Threads : wpc[d] # "await" =>
       /\ \E a \in Apps : Awaits(a, wv[d], d)
       /\ \A i \in 1..Len(queue[d]) : queue[d][i] # wv[d]

Pooled(x) == \E i \in 1..Len(vouchBB) : vouchBB[i] = x
Owned(x) == \E a \in Apps : Owns(a) /\ v[a] = x

(* No voucher is lost, although l.152 and l.187 ignore what                *)
(* nonblockingWriteBB answers: an empty pool, at which even a nonblocking  *)
(* call waits (l.141, l.176), means that applications have all vouchers.   *)
Conserved == \A x \in Vouchers : Pooled(x) \/ Owned(x)

(* Every voucher is in one place exactly, across pool, buffers, workers    *)
(* and applications, although its fields are written without its mutex     *)
(* (l.132) and it is free again before its mutex is (l.227).               *)
VoucherOwnership == ClientOwnership /\ ServerOwnership /\ Conserved

(* A queued request reaches the disk as it was submitted: nobody touches   *)
(* its descriptor and direction until its application has collected it.    *)
RequestIntact ==
  \A a \in Apps : Redeeming(a) =>
    vsd[v[a]] = sd[a] /\ read_write[v[a]] = DirOf(a)

(* No wakeup is lost: an application asleep on a voucher is the one that   *)
(* owns it, and a worker is still to come and signal it (l.55, l.75).      *)
NoLostWakeup ==
  \A x \in Vouchers : \A a \in waiters[x] :
    pc[a] = "waiting" /\ v[a] = x /\ completed[x] = 0 /\ InFlight(x)

(* With room for a request of every application of a direction, no         *)
(* nonblocking call is refused and no blocking call waits.                 *)
NeverRefused ==
  \A a \in Apps : pc[a] = "queue" =>
    (Cardinality({b \in Apps : DirOf(b) = DirOf(a)}) <= SIZE => Len(queue[DirOf(a)]) < SIZE)

(* A descriptor is in one place at most: in the store once, or with one    *)
(* application.                                                            *)
OneHolder ==
  /\ \A i, j \in 1..Len(fsds) : fsds[i] = fsds[j] => i = j
  /\ \A a \in Apps : pc[a] # "idle" =>
       /\ \A i \in 1..Len(fsds) : fsds[i] # sd[a]
       /\ \A b \in Apps \ {a} : pc[b] # "idle" => sd[a] # sd[b]

(* One step alone ever puts a descriptor in two places: redeem_voucher     *)
(* handing a read's descriptor to the store (l.223), whose reader still    *)
(* has it. Writes, refused calls and the workers keep descriptors apart.   *)
DescriptorsStayApart ==
  [][OneHolder => \/ OneHolder'
                  \/ \E a \in Readers : pc[a] = "collect" /\ pc'[a] = "giveback"]_vars

(* Every redemption comes back, and every request that got its descriptor  *)
(* ends: no wakeup, voucher or buffer slot is ever waited for in vain.     *)
RedeemReturns == \A a \in Apps : pc[a] = "queued" ~> pc[a] = "return"
RequestsEnd == \A a \in Apps : pc[a] = "take" ~> pc[a] = "idle"

(* diskdriver.h:66, the return value is 1 if the read or write was         *)
(* successful and 0 if not: what redeem_voucher returns is the status of   *)
(* the request being redeemed.                                             *)
ReturnsOwnStatus ==
  [][\A a \in Apps : pc[a] = "return" /\ pc'[a] # "return" => ret'[a] = seen[a]]_vars

(* diskdriver.h:68, a successful read returns its descriptor in *sd. *)
SuccessfulReadReturnsDescriptor ==
  \A a \in Readers : pc[a] = "giveback" /\ seen[a] = 1 => out[a] = vsd[v[a]]
-----------------------------------------------------------------------------
(* The driver implements DiskService. A voucher in a buffer or with a      *)
(* worker that has not heard from the disk stands for its application's    *)
(* pending request; the outcome of a served request is the voucher's       *)
(* status field, and so is the answer while redeem_voucher is on its way   *)
(* to line 229; the reply is what line 229 returned.                       *)
ClientOf(x) ==
  CHOOSE a \in Apps : (\E b \in Apps : Redeeming(b) /\ v[b] = x) => Redeeming(a) /\ v[a] = x
Pending(x) == InFlight(x) /\ \A d \in Threads : ~(wpc[d] = "finish" /\ wv[d] = x)
Returning(a) == pc[a] \in {"giveback", "unlock", "return"}

Service == INSTANCE DiskService WITH
  line <- [d \in Threads |->
             (IF wpc[d] \in {"lock", "device"} THEN <<ClientOf(wv[d])>> ELSE << >>)
             \o [i \in 1..Len(queue[d]) |-> ClientOf(queue[d][i])]],
  outcome <- [a \in Apps |->
                IF Redeeming(a) /\ ~Pending(v[a]) THEN status[v[a]] ELSE None],
  answer <- [a \in Apps |-> IF Returning(a) THEN status[v[a]] ELSE None],
  reply <- ret

(* The disk serves each direction first come, first served; a redemption   *)
(* collects the outcome of its own request once the disk has served it,    *)
(* and returns that outcome or one that the disk produced for another      *)
(* request after the collecting. That it is always the former is           *)
(* ReturnsOwnStatus, which the driver does not keep.                       *)
ImplementsDiskService == Service!ServiceSpec
=============================================================================
