# Specifications of the CIS 415 projects

This directory holds TLA+ specifications of the programs of this repository,
the TLC configurations that check them on small instances, and proofs, checked
by TLAPS for every value of the constants, of most of what these runs check.
`PROJECT.json` maps every definition to the lines it models.

## The system

The repository holds independent C programs, one per course project.

| part | state | operations | what is hard |
|---|---|---|---|
| `project2/diskdriver.c`: a disk driver between applications and a disk | a pool of vouchers (`vouchBB`), one bounded buffer per direction, the voucher fields, a mutex and condition per voucher, two worker threads | blocking and nonblocking read and write, `redeem_voucher`, the two worker loops | any number of threads; vouchers are filled, queued and reused without a common lock; condition variables; full buffers and an empty pool; blocking calls under a mutex |
| `project0/mlist.c`, `mlistLL.c`, `mentry.c`, `finddupl.c`: potential duplicates in a mailing list | a hash table of chains and a global `size`; or a linked list with `first` and `last` | `ml_add`, `ml_lookup`, `resize`, `ml_destroy`, the loop of `finddupl` | resizing moves every entry; the end of a chain is a cell; hashes wrap around; malloc fails |
| `extraCredit/treeset.c`: an ordered set | an AVL tree and a size | add, remove, the two polls, clear, destroy, eight queries, arrays and iterators | rotations and incremental balances; callbacks; malloc fails |
| `extraCredit/linkedlist.c`: a doubly linked list | nodes around a sentinel, a free list, a size | insert and add, remove, set, get, clear, destroy, arrays and iterators | pointer surgery at the ends; a free list that malloc may fill partly |
| `extraCredit/file_crawler_single.c`, `iterator.c`, `re.c`: the files below some directories whose names match a pattern | a linked list of directories, a treeset of paths, a compiled pattern, an array and an index | a recursive walk that fills the list, a scan that empties it and fills the set, printing in order | ownership of the strings through every early exit; streams open at each level; files that change between the passes |
| `project1/thv1.c`, `thv2.c`, `thv3.c`: start *n* copies of a command and time them | the pids; a flag set by a signal handler; an interval timer | options, fork, exec, signals, wait, the elapsed time | signals that race with tests, sleeps and exec; forks and execs that fail; a timer without a handler |
| `project1/p1fxns.c` | none | lines, words, numbers, fields | boundaries of conversions |

How they interact: applications call the driver; the driver's calls hand vouchers
to its workers through the buffers and the workers wake the callers through the
condition. `finddupl` owns the entries until an mlist has taken them. The file
crawler uses the linked list as a queue of directories, the regular expressions as
a filter and the treeset as its sorted result, which it walks with an iterator.
Some of project 2 (bounded buffer, descriptor store, device, applications) exists
as object files only; it is modelled from the way the driver uses it and marked
external in the map.

## Modules

| module | models |
|---|---|
| `DiskService` | abstract: what the disk driver promises its applications |
| `DiskDriver` | `diskdriver.c`, one action per stretch of code between two points where another thread can interfere |
| `MCDiskDriver` | symmetry for TLC |
| `DiskDriverProofs` | the driver's inductive invariant and its theorems on ownership and wakeups; what the driver never runs out of, whose the writers' descriptors are; the driver implements `DiskService` |
| `MEntry` | `mentry.c`: keys, comparison, hash |
| `MailList` | abstract: what `finddupl` promises with either list |
| `MListLL` | `mlistLL.c` under the loop of `finddupl.c` |
| `MListHash` | `mlist.c` under the same loop |
| `Finddupl`, `MCFinddupl` | `finddupl.c`: the two programs side by side on the same file (extends `MListHash`, instantiates `MListLL`) |
| `DataInduction` | induction over the numbers up to a bound, what recursive functions over them, or over anything ranked by them, compute, ranks in ordered sets, parts of sequences |
| `FindduplProofs` | the table's inductive invariant and its theorems; both programs' types, what they agree on; the linked list refines `MailList` |
| `SortedSet` | abstract: `treeset.h` |
| `TreeSet`, `MCTreeSet` | `treeset.c`; the MC module generates the AVL trees of a size |
| `TreeSetProofs` | what insert, remove and the queries make of any AVL tree; the treeset's inductive invariant; it implements `SortedSet` |
| `List` | abstract: `linkedlist.h` |
| `LinkedList`, `MCLinkedList` | `linkedlist.c`, at the level of its pointers |
| `LinkedListProofs` | the shape of the list's memory, and that the list implements `List` |
| `Iterator`, `RegExp` | `iterator.c`, `re.c` as operators |
| `FileCrawler`, `MCFileCrawler` | `file_crawler_single.c`: composes `List`, `SortedSet`, `Iterator` and `RegExp` |
| `FileCrawlerProofs` | who owns which string and stream; the crawler's types |
| `CrawlerOutputProofs` | places and the order of paths; what the crawler prints; what its patterns match |
| `Launcher` | `thv1.c`, `thv2.c` and `thv3.c` |
| `LauncherProofs` | the launchers' inductive invariant and theorems; what the helpers of p1fxns make of any text and number |
| `P1Fxns` | the helpers of `p1fxns.c` as operators, and what the launchers use them for |
| `MCLauncher` | instance of `Launcher`; what is asked of `P1Fxns` (extended by `LauncherProofs`) |

### The disk driver

`DiskDriver` has the program counter `pc[a]` of each application and `wpc[d]` of
each worker, `d` being "write" or "read". An application runs
`GetDescriptor`, `TakeVoucher`, `FillVoucher`, then `QueueVoucher` or, if the call is
a nonblocking one and the buffer is full, `QueueFull`, `UndoNonblocking` and
`PutDescriptor`; a queued request is redeemed with `RedeemLock`, `CheckCompleted`,
perhaps `CondWait` and `Reacquire`, then `Collect`, `GiveBack`, `RedeemUnlock` and
`RedeemReturn`. A worker runs `Dequeue`, `WorkerLock`, `Device`, `Finish`. The steps
are as large as the code allows: a buffer call, a lock, an unlock and each access
to a voucher outside its mutex is a step of its own, and what runs under the mutex
is split wherever another thread could see it. The two unlocked accesses, the
filling in lines 132-134 and the return value in line 229, are separate steps.

`seen`, `out` and `ret` remember what a redemption tested, stored and returned; they change nothing
in the behaviour. `Collect` hands a read's descriptor to the store without waiting: the store has room for
all descriptors there are. `requests` bounds how many requests are made, because the
applications only stop when their time is up. `Quiescent` lets the system stutter
once nothing is left to do, so that a deadlock anywhere else is an error.

Applications, as the harness runs them, have one request outstanding, redeem every
voucher once, and readers put their descriptor back after each request (writers do
not, and line 57 is commented out: each write costs a descriptor).

### The mailing lists

A string is the sequence of its words. `me_get` keeps the surname, the house number
and the whole third line, the city included. In `MListHash` a chain of *n* + 1 cells
is the sequence of its first *n* entries, since nothing reads the entry of the last
cell; `resize` walks the old chains (`MoveChains`, `MoveChain`) and appends each entry to its new
bucket, and the last of a new bucket becomes the end of the chain and with that invisible (`Chain`). `added` is
history. `Finddupl` gives the table and the list the same address in each round; each may run
out of memory on its own.

### The treeset

Trees are nested records; the operators return what the C functions return and have
their names. The recursion of the C code is that of functions over `Trees`, the trees of up to as many
levels as there are elements: on a path down a tree every node has an element of its own, so that no tree
of the program is higher. `Inserted` and `Removed` are what follows the recursive call. `drift` counts polls, which do not touch the size and would let it grow
for ever. The elements are integers compared by their difference.

### The linked list

`m` is the memory: the fields of each node, the nodes malloc gave (`heap`) and the
head of the free list. The loops of `getEntry`, `purge` and `ll_destroy` are
recursive functions over a bounded number of rounds. The abstract `List` is a sequence.

### The launchers

`ps[p]` is what process *p* is doing: the loop of `main` it is in, the
index and the array of pids it has there, `USR1_received`, and what the kernel knows
of it (parent, signals on their way, stopped, timer). A child is a copy of its parent at
the fork. Every system call is a step, `sleep(1)` ends at any time, and a signal
takes effect at any time after it was sent, except that SIGCONT acts at once and
cancels a SIGSTOP, and that a process which signals itself has got the signal when
`kill` returns. A command keeps the default action of SIGUSR1.

`version` says which program runs: in thv1 a child goes straight to `execvp`; in thv3
the launcher arms the timer before every fork, and the timer, which children do not inherit, may
run out at any time from then on (`Alarm`). The handlers and queues of a scheduler at the
top of `thv3.c` are neither installed nor called. `setitimer` cannot fail with the arguments it gets
(`thv3.c:262`), so that `Arm` has no error return.

The properties depend on nothing of the options and the environment but the number of copies, so `Init` takes
any of `Copies`, and 0 where `main` ends before it forks. No program compares it with the size of `pid[]`, `ArraySize`, which
is 1024 entries in thv1 and thv2 (`MAX_PIDS`) and 512 in thv3 (`MAX_ARGS`, `thv3.c:24`): with more copies the loop of `thv3.c:266`
writes past the array. The model starts from numbers that fit. `TypeOK` says that no process
leaves the array then, one that goes on as a launcher with the copied array and index included, and that the loops which signal
and wait read written entries only.

The model follows a child whose `execvp` fails where the code takes it: back into
the launcher's loops, with its own entry of the array equal to 0, so that its
signals go to the whole process group. All of them may then stop each other for good, the
launcher included; `Quiescent` allows for it. `FALSE \in Outcomes` has TLC explore that.

### The file crawler

A path is the sequence of what is between its slashes, a file system a function from places
to what is there: the `d_type` that readdir shows, a number of which the code tests one bit, and
whether opendir succeeds, as it can for directories and entries of unknown type. `frames` is the stack of `processDirectory`: for each call the string `d`
and the entries its stream has yet to return, in any order. The operations on the list and on
the set are the actions of `List` and `SortedSet`, which are shown to be implemented by
`LinkedList` and `TreeSet` in runs of their own, and `ll_add` may fail as `List` says. `ts_add` does not look at what malloc
gives it: without memory it counts the element and answers 1, but links no node (`LoseElement`; `lost` counts these
elements). From then on the balances are wrong, so that an insertion may follow a null link (`FollowNull`), and the iterator's
array has entries that nobody has set (`Garbage`); both may kill the process.
`owned` counts the strings on the heap and the open streams. Each opendir, readdir and
container call is a step, so that the file system can change between any two (`Change`); a stream
shows the entries as they were when it was opened. `cvtPattern` is an operator; `RegexMatches`
states what regexec does for the expressions it produces, and `ShellMatches` what a pattern means. Both know
bracket expressions of ordinary characters (`Brackets`), such as the `[ch]` of the program's own example; the other
operators of extended regular expressions (`Operators`), which `cvtPattern` passes through, are in no pattern.

### Words, numbers and times

`P1Fxns` has the helpers by name, on sequences of characters. `Words` is the loop of the launchers
that fills `arg`, `Elapsed` the digits they print. `MCLauncher` checks them on all short inputs,
in the states in which the launchers call them.

## Runs

| run | instance | shows |
|---|---|---|
| `driver_contention` | 1 writer, 2 readers, 2 vouchers, buffers of 1, 2 descriptors, 3 requests | `TypeOK`, `VoucherOwnership`, `RequestIntact`, `NoLostWakeup`, `NeverRefused`, `DescriptorsStayApart`, `ImplementsDiskService` |
| `driver_liveness` | 1 writer, 1 reader, 1 voucher, 3 requests | `RedeemReturns`, `RequestsEnd` |
| `finddupl` | 6 keys at 7 addresses, files of up to 6, a first table of 1 bucket, 1 failing malloc | `BothTypeOK`, four properties of the table and the two programs side by side, below |
| `treeset` | 7 elements, at most 2 polls between two clearings; every AVL tree on 12 elements | order, balance, queries, array size, purging, `ImplementsSortedSet`; `DeepRemovals` |
| `linkedlist` | 2 elements, 3 nodes, refills of 2 | pointers, free list, leaks, purging, `ImplementsList` |
| `launchers` | 3 programs, up to 2 copies in arrays of 2 entries, commands that exist and commands that do not, 1 failing fork; commands of up to 5 characters, times up to 2 s | `TypeOK`, `CommandsSurvive`, `StartTogether`, `WaitedForAll`, `LauncherEnds`; `TextComesApart`, `TimesReadRight` |
| `crawler` | every tree of up to 2 levels with 2 directories and 3 files, of 5 kinds; 4 argument lists; 2 streams; 1 malloc failure, the treeset's included, 1 change; patterns and names of up to 3 characters | `TypeOK`, `NothingLeaks`, `PrintsOnlyFiles`, `PrintsAllFiles`, `PatternMeaning`, `CrawlerEnds` |

Why the bounds suffice. The driver: two vouchers among three applications make one
of them wait for the pool and let a voucher be reused while its former owner has not
returned; buffers of one slot make the blocking calls wait and the nonblocking ones
be refused; three requests are one more than there are vouchers. The hash table
starts with one bucket in place of twenty, so that five lines pass two resizes and a sixth looks
an address up after them; the
house numbers keep most entries together after each. Seven elements make trees of
height four with every rotation; a removal that rotates twice needs twelve elements,
which is too many for all sequences of calls, so `DeepRemovals` applies one removal to
every AVL tree of that size. Three nodes are one full and one cut-off refill. Two copies
give each of the launcher's loops a first and a last round, and, when the command cannot be
executed, four processes that fork, signal and wait. Two streams are one fewer than the
deepest directories need, so that opendir fails in the walk; a change exchanges the whole tree
for any other one, and the lists of arguments have a trailing slash, `/`, an empty name, and two that overlap.
Milliseconds up to 2010 have every number of leading zeros, before and after the first second.

In `driver_contention` `NeverRefused` speaks of the writer, who has a buffer of its own; the two
readers share one slot and are refused, so that refused calls return vouchers and descriptors. No voucher is lost, although
the code ignores what `nonblockingWriteBB` answers when it puts one back (a part of `VoucherOwnership`). A redemption of a read hands
its descriptor to the store while the reader still has it and will hand it back again: `DescriptorsStayApart` says
that no other step ever puts a descriptor in two places.

In `finddupl`: the global size is that of the table and every entry a lookup can find lies in
the bucket the hash says, also after a resize (`BucketsConsistent`), and only once (`StoredOnce`),
although hidden entries are stored again; the table has all that was added until the first resize and afterwards has lost at
most one entry per bucket of each table a resize made (`LossBounded`). The linked list is the
mailing list (`ImplementsMailList`), and the table never reports a duplicate that the list does
not, and exactly the same ones until the first resize (`SameAnswers`), as long as both had memory
for the same entries. The run does not check for deadlock: the program ends with its input.

In `crawler`: every string on the heap is on the list, in the set or in `main`'s hands, or was lost by `ts_add`, and every
stream belongs to a call under way, at each step and on each early exit (`NothingLeaks`); the
lines are sorted paths of files that match (`PrintsOnlyFiles`), what comes of unset pointers behind them, and none is missing that was there
all the time (`PrintsAllFiles`). The latter excepts malloc failures, directories nested deeper
than streams can be open, arguments without characters, and overlapping arguments, for the code
ends its search there. It excepts sockets, block devices and whiteouts too (`LeftOut`): what the search should find
is told by the types (`Files`), and the code, which tests a bit of them (`file_crawler_single.c:116`, `160`), takes these for directories.

The definitions marked *Mutant* are plausible mistakes in the code, a dropped guard or a
swapped order. No specification uses them: `PROJECT.json` pairs each property with one that
breaks it when it takes the place of the definition it is derived from.

### Disagreements with the documentation

Each of these runs checks one statement of a header or a comment, and TLC shows how the
code violates it.

| run | statement | what the code does |
|---|---|---|
| `driver_late_status` | `diskdriver.h:66` | the status is read after the voucher has gone back to the pool |
| `driver_read_sd` | `diskdriver.h:68` | `*sd` is assigned for writes, not for reads |
| `mlist_hash_lookup` | `mlist.h:16` | a resize hides the last entry of every new bucket |
| `treeset_purge` | `treeset.h:144` | the user function is called with the heir |
| `crawler_leak` | `file_crawler_single.c:264` | a path for which `ts_add` has no memory is never freed (`treeset.c:131`) |

`file_crawler_single.c:172` treats a file that is found a second time, below two overlapping
arguments, as a failure, and `main` leaves the loop with directories still on the list, although
line 242 says "for each directory in the linked list"; `PrintsAllFiles` leaves such arguments
out. Other disagreements are plain from one line and have no run: the city is part of the zip code
(`mentry.c:60`), although `M.out:1-9` reports duplicates across cities; two different
entries each compare as the smaller one (`mentry.c:115`, `mentry.h:22`); the polls do not lower
the size (`treeset.c:435`, `treeset.h:151`), so that the array of an iterator created after one has unset entries at its
end; the table grows when a bucket has more than `size` entries before the addition (`mlist.c:179`), hence chains may have
`size` + 1, although line 63 says "if any hash bucket reaches size, the table size needs to increase" and line 178
"exceed 20 values" (the theorem `HashChainBound` states the bound that the code keeps).

## Fairness

`FairSpec` gives weak fairness to each step of a running thread: a thread that can
go on does. There is none for `SpuriousWakeup` and none for `GetDescriptor`, since an
application may wait for a descriptor for ever (writes use them up). `WorkerLock`
alone has strong fairness: the redeeming application takes and releases the mutex
each time it wakes up, and weak fairness would allow the worker to find it taken
whenever it looks. A pthread mutex does not promise this in so many words, but
spurious wakeups are rare and waiting threads are queued.

The crawler goes on (`WF_vars(Step)`), whatever the environment does to its files; changes, and
with them the loops they might keep alive, are bounded. In `Launcher` each process that is not stopped goes on, signals that were sent arrive, and commands
end; all of it is weak fairness, since nothing but a stop ever takes a step away again. The timer has
none: whether it runs out before the copies end is open.

## Proofs

`DiskDriverProofs` proves, for any numbers of applications, vouchers, buffer slots,
descriptors and requests, under `DriverAssumption` alone:

- `TypeCorrect`: `Spec => []TypeOK`
- `VouchersOwned`: `Spec => []VoucherOwnership`
- `RequestsIntact`: `Spec => []RequestIntact`
- `WakeupsNotLost`: `Spec => []NoLostWakeup`

None of the last three is inductive. `NoLostWakeup` needs that a sleeping
application's request is in flight, which needs that a request leaves the driver only
by being finished, which needs that the worker's voucher is the one its application
waits for (`ServerOwnership`), which needs that no other application can own it
(`ClientOwnership`); and between the test of `completed` and the wait nothing may
change, which is what the mutex is for (`MutexInv`, `CheckInv`). `IInv` is the
conjunction of these:

| conjunct | says |
|---|---|
| `TypeInv` | `TypeOK`, and a thread has a voucher in hand when its code does |
| `MutexInv` | whoever is between lock and unlock holds the mutex |
| `ClientOwnership` | a voucher is in the pool once or with one application |
| `ServerOwnership` | a queued or served voucher is there once, in its direction, and awaited |
| `RequestInv` | a filled voucher carries its application's request |
| `CheckInv` | what was read of `completed` under the mutex still holds |
| `ProgressInv` | an awaited outcome is in flight |
| `SleepInv` | only the owner of a voucher sleeps on it |

Each has a lemma that every step keeps it, with one proof step per action; `Inductive`
puts them together and the theorems follow from it.

`FileCrawlerProofs` proves `OwnershipKept`: `Spec => []NothingLeaks`, under
`FileCrawlerAssumption`, for all file systems and whatever changes in them, all lists of
arguments, and any numbers of streams and of failures of `malloc`, those in `ts_add` included: a string that
the set has lost is one of the cases of the account. Its `IInv` adds to the account
of strings and streams (`Counted`) what makes the account balance at the program's early exits:
streams are open in their own pass only, and a directory that is read has a name (`Placed`); the
engine has its program when it is used and destroyed (`EngineInv`); the list holds paths, the set
is finite (`TypeInv`). Each step of the crawler has a lemma; `ProcessDirectoryStep` and
`EndScanStep` are those of the two functions that are called from more than one place.
`CrawlerTypeCorrect` (`TypeOK`) adds `Limits`: a stream is opened only if fewer than `OpenMax` are open, and
the account says how many are.

`CrawlerOutputProofs` proves `OnlyFilesPrinted`: `Spec => []PrintsOnlyFiles`. That needs what each string on
its way to the output leads to, from the first pass to the last line (`Contents`):

| conjunct | says |
|---|---|
| `Calls` | the directory of the *k*-th call of `processDirectory` is *k* - 1 directories below an argument |
| `Noted`, `Scanned` | so are those on the list and the one applyRe reads, fewer than `OpenMax` |
| `Wanted` | a path in the set is that of a file, `PrintsOnlyFiles` says which |
| `Output`, `Printing` | what is printed is the beginning of the array, or `Garbage` behind it |

An entry of a stream was in a file system there was (`Listed`); if there is no other, each directory on the
way to it was opened in this one (`Way`). The depth is bounded because one stream is open for each
call (`Counted`). The order of the lines is that of the array, in which an element's place is the number of
those before it (`SortedInOrder`): `strcmp` orders the paths (`BeforeTransitive`, `BeforeTotal`), so that no two
have the same number and every number is someone's (`Ranks`).

`Files` is defined by the types of the entries and `IsDirectory` by a bit; `FoundAreFiles` and `FilesAreFound` say where the two agree.

The same module proves the converse, `AllFilesPrinted`: `Spec => []PrintsAllFiles`. A file is lost if its
directory is not put on the list, if the list is left before it is this directory's turn, if the file is not
seen there, or if its line is in the set already, for `main` takes that for a failure and stops searching.
`OnceInv` and `PrintedAll` rule these out:

| conjunct | says |
|---|---|
| `Distinct` | no directory is on the list twice, or has on it what is still to be walked; no line that is still to be added is in the set |
| `Complete` | the argument, the call or the list entry that leads to a sought file is still there, or its line is in the set (`Promise`) |
| `Stable` | as long as the file system is the first one, every directory on the list can be opened, and the list is empty after the search |
| `PrintedAll` | when it is done, everything in the set has been printed |

`Distinct` is where `Apart` is needed: two arguments one of which is below the other make the second pass meet
a line again. It rests on paths that begin with each other (`Begins`) and on the calls on the stack
being ever deeper. `Complete` follows a file from its argument name by name (`Route`, `Reaches`): the call
for the *k*-th name has *k* - 1 streams open, hence fewer than `OpenMax`, and the entry for the next
name is in its stream in each file system in which the file should be found. Here `FileCrawlerAssumption` counts: with a
place, a file system has those on the way to it. An argument without characters is the name of no directory, for `opendir` refuses
it, and `PrintsAllFiles` leaves it out; the proof is what brought this up.

Its last part is about `PatternMeaning`. `PatternsAgreeOnNames` says of any pattern without `Operators`,
whatever its length, bracket expressions and other characters, that the regular expression `cvtPattern` makes of it
matches the names that the pattern matches; `PatternsMean` is `Spec => []PatternMeaning`. Both ways of
matching are functions of how much of the pattern and of the text is left, defined by recursion; that each
satisfies its equation (`RegexIs`, `ShellIs`) is `RankedRecursion`, with what is left of both as the rank.
`Positions` says where the conversion puts the *k*-th character of the pattern, and `RegexOnCharacter` what the
regular expression does there: one step of it is one step of the shell's matching, so that the two
agree by induction on the rank.

The second part of `DiskDriverProofs` proves the properties that count, under `DriverAssumption` and
`FiniteThreads`. `PoolSuffices` says that with a voucher for every application no call waits for
the pool (`NeverWaitsForPool`, which is stated in this module): every voucher is in the
pool or with an application (`Conserved`), so that an empty pool would leave no voucher for the
application that asks. `BuffersSuffice` (`NeverRefused`) counts a queued voucher for its
application, of which there are too few to fill the buffer when one of them is about to
queue. `DescriptorsOwned` (`DescriptorsStayApart`) goes through the steps that move a descriptor: given `OneHolder`,
all but a reader's `Collect` keep it.

Its last theorem is `DriverImplementsService`: `Spec => ImplementsDiskService`, under
`DriverAssumption`. The link between a voucher and its application (`ClientOf`) is a
choice; `ClientOwnership` makes it unique, so that each place in line belongs to one application
(`LineInv`) until its request is served (`PendingInv`). `SamePlace` says that a voucher
that stays in line stays with its application, hence the steps that leave the lines of vouchers alone
stutter (`Stutter`), `Dequeue` among them, which only moves the head of a line to the
worker. The others are the service's: `QueueVoucher` submits, `Device` serves, `Collect` redeems, `RedeemReturn`
delivers, and the application's next `GetDescriptor` forgets.

The reply of the service is what line 229 of the code returns, and between `GiveBack` and that line the voucher may be another
request's already. The service allows for it: `Serve` may overtake the answers that are on their way. So the
refinement says that a redemption waits for its own request to be served, and that what it returns is its outcome or that of a
request served after the collecting; that it is always its own is `ReturnsOwnStatus`, which `driver_late_status` refutes.

`DataInduction` gives the proofs about recursive functions what the library's induction theorems
cannot, since these take an operator as a parameter: a set with 0 and with the successor of each of
its numbers has all numbers (`Induction`, which follows from the pigeonhole principle of `FiniteSetTheorems`, and
`InductionUpTo`). A function defined by recursion is a choice of one that satisfies its equation; that
there is one, and that its values are in the sets where each step leads, is `Recursion` and
`InvariantRecursion`; `RankedRecursion` is the same for arguments that are not numbers but have a rank.

`FindduplProofs` proves of the table, for all addresses, files, first sizes, loads and numbers of
allocations that fail, under `MListAssumption` and `AddressAssumption`: `HashTypeCorrect`
(`TypeOK`), `HashBucketsConsistent` (`BucketsConsistent`), `HashStoredOnce` (`StoredOnce`), `HashLossBounded`
(`LossBounded`) and `HashChainBound` (`ChainBound`, no chain is longer than the size plus one, which no run checks). The invariant `HashInv` is about the entries a lookup can find and,
until `ml_destroy` has freed the table, says of it (`TableInv`):

| conjunct | says |
|---|---|
| `Sound` | there are as many buckets as the size says; an entry lies in the bucket of its hash, and only once |
| | no chain is longer than the size plus one; every entry in the table was added |
| | of the entries that were added, at most twice as many are lost as the table has grown by |

What a resize does is an induction over the chain that is moved and another over the chains
(`MoveChain`, `MoveChains`): a new bucket holds entries of the old table that hash to it, each of them
once, and its last one alone is lost.

Of the two programs together it proves `BothTypeCorrect` (`BothTypeOK`),
`AnswersAgree` (`SameAnswers`) and `LinkedListIsMailList` (`ImplementsMailList`), for all
addresses and files. What it takes is that `me_compare` answers 0 for equal keys only, so that a walk
finds an entry exactly when it is in the set of entries, and that the table holds no entry that the list
does not.

`LinkedListProofs` proves of `linkedlist.c`, for all elements, any number of nodes there is memory for and any
size of a refill, under `LinkedListAssumption`: `ListCircular` (`Circular`), `ListNodesAccounted` (`NodesAccounted`),
`ListPurgedInOrder` (`PurgedInOrder`) and `LinkedListImplementsList` (`ImplementsList`, the refinement of `List`). The
properties speak of walks over pointers, and none of them is inductive, for nothing in the walk forwards
says that the pointers backwards are those an operation needs. `ListInv` states the shape of
the memory instead:

| operator | says |
|---|---|
| `Ring` | a sequence *c* of nodes that begins with the sentinel: each is linked forwards and backwards to the next, the last to the sentinel |
| `FreeList` | a sequence *f* of nodes that are linked forwards, to nil in the end |
| `Layout` | the two have no node twice and none in common, they are all the nodes malloc gave, and the nodes of *c* carry the elements |
| `Stores` | there are such a *c* and *f*, of the size there is, for this list of elements |

One lemma says what a node linked in, or out, does to a ring (`Linked`, `Unlinked`), and the operations
put these together: taking a node from the free list, or refilling it with as many nodes as malloc has left; the
walk of `getEntry` from the nearer end; `purge`, which empties the ring one element after the other, and
`ll_destroy`. A walk is an induction over `0..N`. Given `Stores`, an element of the abstract
list is what a node of the ring holds, and each operation's answer is that of `List`.

`TreeSetProofs` proves of `treeset.c`, for any finite set of integers and any number of polls, under
`TreeSetAssumption`: `AlwaysSearchTree` (`SearchTree`), `AlwaysQueriesAnswer` (`QueriesAnswer`), `AlwaysArrayLargeEnough`
(`ArrayLargeEnough`), `AlwaysPurgedOnce` (`PurgedOnce`) and `TreeSetIsSortedSet` (`ImplementsSortedSet`, the
refinement of `SortedSet`). The assumption says nothing of the trees but that the null pointer is not one of their nodes.

The trees up to a height come with an induction of their own (`TreeInduction`), and each function over them with a
lemma that gives its equation (`InsertIs`, `RemoveIs`, `FindIs`, `AboveIs`, ...). On these rest, for an AVL tree of
whatever size:

| lemma or theorem | says |
|---|---|
| `Build`, `Split` | what a node makes of two subtrees and an element between them, and what an AVL tree is made of |
| `Rebalanced` | a node one of whose sides is two levels higher than the other is an AVL tree after the single or the double rotation, with the same elements; of which height decides whether rebalancing goes on |
| `InsertShape` | `insert` gives an AVL tree with the element more; if `done` is not set it is one level higher, else as high as before |
| `RemoveShape` | `remove` gives an AVL tree without the element; if `done` is not set it is one level lower, else as high as before; the user function gets one element of the tree |
| `FindShape`, `QueriesShape` | `find` and the loops of the queries, which remember one candidate, miss nothing beside the path they take |

None of the properties is inductive, for a balance that is right at the top says nothing of the balances
below that a rotation copies upwards. `TreeSetInv` says it of all nodes at once: the root is an AVL tree whose elements are
elements, and the size is at least their number. `insert` needs room for one more level, which is where the
number of elements comes in: an AVL tree without *e* has fewer nodes than there are elements (`RoomForAnother`).
`RemoveShape` is the general form of what `DeepRemovals` looks at in twelve elements.

`LauncherProofs` proves, for each version of the launcher, all lengths of `pid[]`, numbers of copies that fit, numbers
of processes and any forks that fail, under `LauncherAssumption`: `TypeCorrect` (`TypeOK`), `NoCommandKilled`
(`CommandsSurvive`), `CommandsStartTogether` (`StartTogether`) and `LauncherWaits`
(`WaitedForAll`). `CommandsSurvive` is not inductive: that no signal meets a command needs to
know where SIGUSR1 can be on its way. The conjuncts of `IInv`:

| conjunct | says |
|---|---|
| `TypeInv` | `TypeOK` |
| `IndexInv` | where in its loop a launcher is, and how long its array of pids is by then |
| `RoleInv` | who runs the launcher's loops and who the child's code |
| `FamilyInv` | a launcher's array has each of its children, and each once |
| `WaitInv` | the children that the waiting loop has passed have ended and been collected |
| `SignalInv` | whom SIGUSR1 may have been sent to, and who has taken it |
| `CommandsSurvive` | itself |

Each action has one lemma that it keeps `IInv`. That the copies fit (`Fits`) is an invariant of its own, and with the lengths
in `IndexInv` gives what `TypeOK` says of the arrays.

The second part of `LauncherProofs` is about the helpers, under `TextAssumption`, which says no more than that the
bounds are numbers, that of the times one of an `int`. `NumbersReadBack` (hence `TimesRead`: `TimesReadRight`) says of every
*k* up to 2147483647 that `ReadsBack(k)`. A string is a numeral of a number if all its characters are digits and their values
add up to it from the left (`Numeral`); `p1itoa` writes one (`DecimalIs`: the quotients of the number by ten are, backwards,
the values of its beginnings), zeros before it do not change it (`ZerosBefore`), and `p1atoi` reads it up to the first
character that is no digit (`AtoiReads`). `Digitful` counts the digits, so that the milliseconds always have three.

`EveryTextComesApart` (hence `TextsComeApart`: `TextComesApart`) is about strings of any length over any characters. `FirstOf`
says what the loops over `p1strchr` stop at. A call of `p1getword` goes on by at least one character
or finds that no word is left (`GetWordAdvances`); after *k* turns of the loop there are therefore *k* words and it is at a
character behind the *k*-th (`AfterTurn`), which bounds the words by the characters. A word in its quotes, or without if it needs none, is
read as it was (`GetsWord`), from wherever it stands. Each line ends behind where it begins (`LineIs`), so that the last one ends at the end of the file. The only
condition is on a word that needs quotes: it must lack one of the two, for there is no way to write another one
(`Quotable`).

Model-checked only: liveness (`RedeemReturns`, `RequestsEnd`, `LauncherEnds`, `CrawlerEnds`), which
TLAPS does not prove; `DeepRemovals`, because a `RECURSIVE` operator generates its trees (`RemoveShape` states it of every
tree).

## What is not modelled

The text of messages, opening and reading files (`p1getline` aside); string copying and comparing;
a read that fails in `p1getline` (`p1fxns.c:24`); malformed addresses; `malloc` failing where the code does not look at
the result, except for the treeset of the file crawler; `ll_get` and the like with a negative index, which `index < size` lets
pass; callbacks that change the list or set they are called from; `redeem_voucher` of a null voucher; the insides of the
object files of project 2.

Of the file crawler: paths that go up (`..`) or through symbolic links, so that the process's
directory is the root of the tree; path buffers, which are taken to be long enough; patterns with
operators of regular expressions other than `*`, `?`, `.` and bracket expressions of ordinary characters; `re_status` and `re_regmatch`,
which only read. Of the launchers: how options and environment are read, words of 100 characters and more, numbers beyond those of an
`int`, a clock that is set back, more copies than `pid[]` has entries. Of `thv3.c`, the queues and handlers of a scheduler that
nothing calls. Of `signal.c` and `testDriver.c`, manual experiments, nothing.

## Plan

1. Done: the disk driver with its theorems, the mailing lists and their composition, the treeset,
   the linked list, the file crawler with its parts, the launchers, the helpers of p1fxns.
2. Done: proofs of the safety properties of the disk driver and its refinement of `DiskService`, of
   the launchers, of the crawler's ownership and output, of both mailing lists, of the linked list with its
   refinement of `List`, of what patterns match, of the treeset with its refinement of `SortedSet`,
   and of the helpers of p1fxns.
3. Left: what the provers cannot do (see "Model-checked only"), and the scheduler's handlers of
   `thv3.c`, for which the code has no caller yet.
