------------------------------ MODULE FileCrawler ------------------------------
(***************************************************************************)
(* extraCredit/file_crawler_single.c: the files below some directories     *)
(* whose names match a pattern, printed in the order of their paths.  A    *)
(* first pass puts every directory that can be opened on a linked list, a  *)
(* second one takes them off and puts the matching files into a treeset,   *)
(* which is then printed.  List and set are those that linkedlist.h and    *)
(* treeset.h promise; the crawler owns the strings in them.                *)
(*                                                                         *)
(* A path is the sequence of what is between its slashes: "a/b" is <<a,    *)
(* b>>, "/" is <<Nothing, Nothing>>.  Names are numbers, ordered as strcmp *)
(* orders the strings with a slash behind them.                            *)
(***************************************************************************)
EXTENDS Iterator, RegExp, FiniteSets

CONSTANTS Trees,        \* the file systems there may be: entries by their place
          Arguments,    \* the lists of directories the crawler may be given
          Matching,     \* the names that match the pattern
          OpenMax,      \* directory streams a process may have open
          MaxFailures,  \* bound: calls that may run out of memory
          MaxChanges    \* bound: changes of the file system meanwhile

DotDot  == 0
Dot     == 1
Nothing == 2

DT_DIR == 4

\* The values there are of d_type, and the names that an entry may have.
FileTypes == {0, 1, 2, DT_DIR, 6, 8, 10, 12, 14}
Names == Nat \ {DotDot, Dot, Nothing}

ASSUME FileCrawlerAssumption ==
  /\ \A t \in Trees : /\ DOMAIN t \subseteq Seq(Names) /\ << >> \in DOMAIN t
                      /\ t \in [DOMAIN t -> [type : FileTypes, opens : BOOLEAN]]
                      /\ t[<< >>].opens
                      /\ \A p \in DOMAIN t : t[p].opens => t[p].type \in {0, DT_DIR}
                      /\ \A p \in DOMAIN t : \A k \in 0..Len(p) : SubSeq(p, 1, k) \in DOMAIN t
  /\ \A a \in Arguments : /\ a \in Seq(Seq(Nat)) /\ a # << >>
                          /\ \A k \in DOMAIN a : Len(a[k]) > 0
  /\ OpenMax \in Nat \ {0} /\ MaxFailures \in Nat /\ MaxChanges \in Nat

VARIABLES fs,        \* the file system, an entry for each place below the root
          past,      \* the file systems there were so far
          args,      \* argv[2], argv[3], ...
          at,        \* where main is, and the argument it has come to
          frames,    \* the calls of processDirectory: directory and rest of its stream
          list,      \* the linked list, ...
          llReply,   \* ... and what its last operation returned
          scan,      \* applyRe's directory, held by sp, and the rest of its stream
          set,       \* the treeset, ...
          tsReply,   \* ... and what its last operation returned
          lost,      \* the elements it counts for which it had no memory
          reg,       \* the regular expression's engine
          it,        \* the iterator
          out,       \* the lines printed
          owned,     \* how many strings and open streams there are, and what else
          failures   \* calls that ran out of memory so far

vars == <<fs, past, args, at, frames, list, llReply, scan, set, tsReply, lost, reg, it,
          out, owned, failures>>

LL == INSTANCE List WITH Element <- {}, reply <- llReply
TS == INSTANCE SortedSet WITH Element <- {}, None <- << >>, reply <- tsReply

NoScan == [dir |-> << >>, rest |-> {}]
NoIterator == it_create(0, << >>)
NothingOwned == [strings |-> 0, streams |-> 0, objects |-> {}]

Init ==
  /\ fs \in Trees /\ past = {fs} /\ args \in Arguments
  /\ at = [main |-> "start", arg |-> 1]
  /\ frames = << >> /\ LL!ListInit /\ scan = NoScan /\ TS!SortedSetInit /\ lost = 0
  /\ reg = NoEngine /\ it = NoIterator /\ out = << >>
  /\ owned = NothingOwned /\ failures = 0

Goto(place) == at' = [at EXCEPT !.main = place]

Fail == failures < MaxFailures /\ failures' = failures + 1
-----------------------------------------------------------------------------
(* The file system, as opendir and readdir show it.  The process's         *)
(* directory is the root, so that ".", "/" and "" lead nowhere else.       *)
Place(path) ==
  LET real == {k \in DOMAIN path : path[k] > Nothing}
  IN  [i \in 1..Cardinality(real) |-> path[CHOOSE k \in real :
                                             Cardinality({x \in real : x <= k}) = i]]

Opens(path) ==
  /\ path # <<Nothing>> /\ Place(path) \in DOMAIN fs
  /\ fs[Place(path)].opens /\ owned.streams < OpenMax

(* What readdir returns until it returns NULL, in some order: the entries  *)
(* at the time of opendir. d_type is a set of bits that is used as such.   *)
Entries(tree, place) ==
  {[name |-> n, type |-> DT_DIR] : n \in {Dot, DotDot}} \cup
  {[name |-> p[Len(p)], type |-> tree[p].type] :
     p \in {q \in DOMAIN tree : q # << >> /\ SubSeq(q, 1, Len(q) - 1) = place}}

\* "." and ".." are skipped.
Stream(path) == {e \in Entries(fs, Place(path)) : e.name \notin {Dot, DotDot}}

\* Mutant: the bit that is tested is the one of DT_REG.
HasRegularBit(entry) == (entry.type \div 8) % 2 = 1

\* d_type & DT_DIR: also a bit of sockets (12) and block devices (6).
IsDirectory(entry) == (entry.type \div DT_DIR) % 2 = 1

(* The file system changes at any time; only while it is read can it       *)
(* matter.                                                                 *)
Change ==
  /\ at.main \in {"walk", "apply"} /\ Cardinality(past) <= MaxChanges
  /\ fs' \in Trees \ past /\ past' = past \cup {fs'}
  /\ UNCHANGED <<args, at, frames, list, llReply, scan, set, tsReply, lost, reg, it, out,
                 owned, failures>>
-----------------------------------------------------------------------------
(* main, up to the first directory. re_create, ll_create and ts_create may *)
(* run out of memory; the pattern may be none.                             *)
CreateEngine ==
  /\ at.main = "start"
  /\ \/ reg' = re_create /\ Goto("compile") /\ UNCHANGED failures
     \/ Fail /\ Goto("end") /\ UNCHANGED reg
  /\ UNCHANGED <<fs, past, args, frames, list, llReply, scan, set, tsReply, lost, it, out,
                 owned>>

CompilePattern ==
  /\ at.main = "compile"
  /\ \E code \in {0, REG_BADPAT} :
       LET compiled == re_compile(reg, code)
       IN  IF Compiled(compiled)
           THEN reg' = compiled /\ Goto("create")
           ELSE reg' = re_destroy(compiled) /\ Goto("end")
  /\ UNCHANGED <<fs, past, args, frames, list, llReply, scan, set, tsReply, lost, it, out,
                 owned, failures>>

CreateContainers ==
  /\ at.main = "create"
  /\ \/ owned' = [owned EXCEPT !.objects = {"ll", "ts"}] /\ Goto("walk") /\ UNCHANGED failures
     \/ /\ Fail /\ Goto("done")
        /\ \E created \in {{}, {"ll"}} : owned' = [owned EXCEPT !.objects = created]
  /\ UNCHANGED <<fs, past, args, frames, list, llReply, scan, set, tsReply, lost, reg, it, out>>
-----------------------------------------------------------------------------
Root == <<Nothing, Nothing>>

(* One slash at the end of a path is taken away, unless it is all there is. *)
Strip(path) ==
  IF Len(path) > 1 /\ path # Root /\ path[Len(path)] = Nothing
  THEN SubSeq(path, 1, Len(path) - 1) ELSE path

\* What the names in a directory are appended to: nothing, if it is "/".
Prefix(path) == IF path = Root THEN <<Nothing>> ELSE Strip(path)

(* Out of memory in a call of processDirectory, made by those on the       *)
(* stack: they all return 0, and each closes its stream.                   *)
GiveUp(stack) ==
  /\ Fail /\ Goto("done") /\ frames' = << >>
  /\ owned' = [owned EXCEPT !.streams = (@ + 1) - (Len(stack) + 1)]

\* Mutant: main tries an argument that cannot be opened again.
ProcessAgain(stack, path, arg) ==
  LET d == Strip(path)
  IN  IF ~Opens(d)
      THEN frames' = stack /\ UNCHANGED <<at, list, llReply, owned, failures>>
      ELSE \/ GiveUp(stack) /\ UNCHANGED <<list, llReply>>
           \/ /\ LL!InsertElement(<<"addLast", d>>, Len(list), d)
              /\ llReply'.ret = 1
              /\ frames' = Append(stack, [dir |-> Prefix(path), rest |-> Stream(d)])
              /\ owned' = [owned EXCEPT !.strings = @ + 1, !.streams = @ + 1]
              /\ at' = [at EXCEPT !.arg = arg] /\ UNCHANGED failures

(* processDirectory up to its loop. A directory that cannot be opened is   *)
(* passed over in silence.                                                 *)
processDirectory(stack, path, arg) ==
  LET d == Strip(path)
      returned == at' = [at EXCEPT !.arg = arg] /\ UNCHANGED failures
  IN  IF ~Opens(d)
      THEN frames' = stack /\ returned /\ UNCHANGED <<list, llReply, owned>>
      ELSE \/ GiveUp(stack) /\ UNCHANGED <<list, llReply>>
           \/ /\ LL!InsertElement(<<"addLast", d>>, Len(list), d)
              /\ IF llReply'.ret = 0 THEN GiveUp(stack)
                 ELSE /\ frames' = Append(stack, [dir |-> Prefix(path), rest |-> Stream(d)])
                      /\ owned' = [owned EXCEPT !.strings = @ + 1, !.streams = @ + 1]
                      /\ returned

afterWalk == <<fs, past, args, scan, set, tsReply, lost, reg, it, out>>

WalkArgument ==
  /\ at.main = "walk" /\ frames = << >> /\ at.arg <= Len(args)
  /\ processDirectory(<< >>, args[at.arg], at.arg + 1)
  /\ UNCHANGED afterWalk

(* One round of the loop over the directory's entries. *)
WalkEntry ==
  /\ at.main = "walk" /\ frames # << >>
  /\ LET top == frames[Len(frames)]
     IN  \E e \in top.rest :
           LET stack == [frames EXCEPT ![Len(frames)].rest = @ \ {e}]
           IN  IF IsDirectory(e)
               THEN processDirectory(stack, Append(top.dir, e.name), at.arg)
               ELSE frames' = stack /\ UNCHANGED <<at, list, llReply, owned, failures>>
  /\ UNCHANGED afterWalk

\* Mutant: the stream is not closed.
WalkReturnOpen ==
  /\ at.main = "walk" /\ frames # << >> /\ frames[Len(frames)].rest = {}
  /\ frames' = SubSeq(frames, 1, Len(frames) - 1)
  /\ UNCHANGED <<owned, at, list, llReply, failures>> /\ UNCHANGED afterWalk

WalkReturn ==
  /\ at.main = "walk" /\ frames # << >> /\ frames[Len(frames)].rest = {}
  /\ frames' = SubSeq(frames, 1, Len(frames) - 1)
  /\ owned' = [owned EXCEPT !.streams = @ - 1]
  /\ UNCHANGED <<at, list, llReply, failures>> /\ UNCHANGED afterWalk

WalkEnds ==
  /\ at.main = "walk" /\ frames = << >> /\ at.arg > Len(args)
  /\ Goto("apply")
  /\ UNCHANGED <<frames, list, llReply, owned, failures>> /\ UNCHANGED afterWalk
-----------------------------------------------------------------------------
(* The loop over the linked list: ll_removeFirst hands out sp, and applyRe *)
(* opens the directory again.                                              *)
NextDirectory ==
  /\ at.main = "apply" /\ scan = NoScan
  /\ LL!RemoveElement(<<"removeFirst">>, 0)
  /\ IF llReply'.ret = 0 THEN Goto("sort") /\ UNCHANGED <<scan, owned>>
     ELSE LET sp == llReply'.out[1]
          IN  IF Opens(sp)
              THEN /\ scan' = [dir |-> sp, rest |-> Stream(sp)]
                   /\ owned' = [owned EXCEPT !.streams = @ + 1] /\ UNCHANGED at
              ELSE /\ owned' = [owned EXCEPT !.strings = @ - 1]
                   /\ Goto("sort") /\ UNCHANGED scan
  /\ UNCHANGED <<fs, past, args, frames, set, tsReply, lost, reg, it, out, failures>>

\* Mutant: applyRe frees the directory's name as well.
EndScanTwice(stat) ==
  /\ scan' = NoScan
  /\ owned' = [owned EXCEPT !.streams = @ - 1, !.strings = @ - 2]
  /\ IF stat = 0 THEN Goto("sort") ELSE UNCHANGED at

(* applyRe closes its stream and returns; main frees sp and, after a 0,    *)
(* leaves the loop.                                                        *)
EndScan(stat) ==
  /\ scan' = NoScan
  /\ owned' = [owned EXCEPT !.streams = @ - 1, !.strings = @ - 1]
  /\ IF stat = 0 THEN Goto("sort") ELSE UNCHANGED at

Added(rest) ==
  /\ scan' = [scan EXCEPT !.rest = rest]
  /\ owned' = [owned EXCEPT !.strings = @ + 1] /\ UNCHANGED at

(* Without memory for its node ts_add answers 1 all the same, and counts   *)
(* an element that is nowhere in the tree.                                 *)
LoseElement(path) ==
  /\ path \notin set /\ Fail /\ lost' = lost + 1
  /\ tsReply' = TS!Reply("add", path, 1) /\ UNCHANGED set

(* The balances count the nodes that are missing, so that this insertion   *)
(* or a later one may rotate around a null link.                           *)
FollowNull(path) ==
  /\ path \notin set /\ set # {} /\ Cardinality(set) + lost > 1
  /\ Fail \/ (lost > 0 /\ UNCHANGED failures)
  /\ Goto("killed") /\ UNCHANGED <<scan, set, tsReply, lost, owned>>

\* Mutant: the path that is in the set already is not freed.
AddPathLeaks(path, rest) ==
  \/ /\ Fail /\ EndScan(0) /\ UNCHANGED <<set, tsReply, lost>>
  \/ /\ TS!AddElement(path) /\ UNCHANGED <<failures, lost>>
     /\ IF tsReply'.ret = 0
        THEN /\ scan' = NoScan /\ Goto("sort")
             /\ owned' = [owned EXCEPT !.streams = @ - 1]
        ELSE Added(rest)
  \/ LoseElement(path) /\ Added(rest)
  \/ FollowNull(path)

(* strdup and ts_add; a copy of a path that is in the set is freed again   *)
(* and ends the search.                                                    *)
AddPath(path, rest) ==
  \/ /\ Fail /\ EndScan(0) /\ UNCHANGED <<set, tsReply, lost>>
  \/ /\ TS!AddElement(path) /\ UNCHANGED <<failures, lost>>
     /\ IF tsReply'.ret = 0 THEN EndScan(0) ELSE Added(rest)
  \/ LoseElement(path) /\ Added(rest)
  \/ FollowNull(path)

(* One round of applyRe's loop: directories are passed over, the names of  *)
(* all others matched.                                                     *)
ScanEntry ==
  /\ at.main = "apply" /\ scan # NoScan
  /\ \E e \in scan.rest :
       LET rest == scan.rest \ {e}
           engine == re_match(reg, IF e.name \in Matching THEN 0 ELSE REG_NOMATCH)
           skip == /\ scan' = [scan EXCEPT !.rest = rest]
                   /\ UNCHANGED <<at, set, tsReply, lost, owned, failures>>
       IN  IF IsDirectory(e) THEN skip /\ UNCHANGED reg
           ELSE /\ reg' = engine
                /\ IF Matched(engine) THEN AddPath(Append(scan.dir, e.name), rest) ELSE skip
  /\ UNCHANGED <<fs, past, args, frames, list, llReply, it, out>>

ScanEnds ==
  /\ at.main = "apply" /\ scan # NoScan /\ scan.rest = {}
  /\ EndScan(1)
  /\ UNCHANGED <<fs, past, args, frames, list, llReply, set, tsReply, lost, reg, it, out,
                 failures>>
-----------------------------------------------------------------------------
(* strcmp on the strings of two paths. *)
Before(p, q) ==
  \E k \in 1..Len(q) : /\ k > Len(p) \/ p[k] < q[k]
                       /\ \A i \in 1..(k - 1) : p[i] = q[i]

\* The order in which the treeset's array is filled.
Sorted(S) ==
  [i \in 1..Cardinality(S) |-> CHOOSE p \in S : Cardinality({q \in S : Before(q, p)}) = i - 1]

(* ts_it_create, which has no iterator for a set of size 0.  Its array has *)
(* room for the elements that were lost, and leaves it uninitialised.      *)
CreateIterator ==
  /\ at.main = "sort"
  /\ LET size == Cardinality(set) + lost
     IN  \/ size = 0 /\ Goto("done") /\ UNCHANGED <<it, owned, failures>>
         \/ size # 0 /\ Fail /\ Goto("done") /\ UNCHANGED <<it, owned>>
         \/ /\ size # 0 /\ it' = it_create(size, Sorted(set)) /\ Goto("print")
            /\ owned' = [owned EXCEPT !.objects = @ \cup {"it"}] /\ UNCHANGED failures
  /\ UNCHANGED <<fs, past, args, frames, list, llReply, scan, set, tsReply, lost, reg, out>>

\* What is printed through a pointer that nobody has set.
Garbage == << >>

(* One round of the loop; a pointer that nobody has set may be the end.    *)
PrintLine ==
  /\ at.main = "print" /\ it_hasNext(it)
  /\ LET initialized == it.next < Cardinality(set)
     IN  \/ /\ out' = Append(out, IF initialized THEN Current(it) ELSE Garbage)
            /\ it' = it_next(it) /\ UNCHANGED at
         \/ ~initialized /\ Goto("killed") /\ UNCHANGED <<out, it>>
  /\ UNCHANGED <<fs, past, args, frames, list, llReply, scan, set, tsReply, lost, reg, owned,
                 failures>>

PrintEnds ==
  /\ at.main = "print" /\ ~it_hasNext(it)
  /\ it' = NoIterator /\ owned' = [owned EXCEPT !.objects = @ \ {"it"}] /\ Goto("done")
  /\ UNCHANGED <<fs, past, args, frames, list, llReply, scan, set, tsReply, lost, reg, out,
                 failures>>

(* ll_destroy and ts_destroy free the strings that are left in them.       *)
Cleanup ==
  /\ at.main = "done" /\ Goto("end")
  /\ LL!Empty("destroy") /\ TS!Empty("destroy") /\ reg' = re_destroy(reg)
  /\ owned' = [owned EXCEPT !.strings = @ - (Len(list) + Cardinality(set)),
                            !.objects = @ \ {"ll", "ts"}]
  /\ UNCHANGED <<fs, past, args, frames, scan, lost, it, out, failures>>

Terminated == at.main \in {"end", "killed"} /\ UNCHANGED vars

Step ==
  \/ CreateEngine \/ CompilePattern \/ CreateContainers
  \/ WalkArgument \/ WalkEntry \/ WalkReturn \/ WalkEnds
  \/ NextDirectory \/ ScanEntry \/ ScanEnds
  \/ CreateIterator \/ PrintLine \/ PrintEnds \/ Cleanup

Next == Step \/ Change \/ Terminated

Spec == Init /\ [][Next]_vars

\* The crawler runs, whatever happens to the files.
FairSpec == Spec /\ WF_vars(Step)
-----------------------------------------------------------------------------
(* The values the variables may take. *)
TypeOK ==
  /\ fs \in Trees /\ fs \in past /\ past \subseteq Trees /\ args \in Arguments
  /\ at.main \in {"start", "compile", "create", "walk", "apply", "sort", "print", "done", "end",
                  "killed"}
  /\ at.arg \in 1..(Len(args) + 1)
  /\ owned.strings \in Nat /\ owned.streams \in 0..OpenMax
  /\ owned.objects \subseteq {"ll", "ts", "it"} /\ failures \in 0..MaxFailures /\ lost \in Nat
  /\ reg.storage \subseteq {"engine", "program"}

(* Every string on the heap is on the list, in the set, held by sp, or was *)
(* lost by the set, and every stream is that of a call under way: nothing  *)
(* is freed twice, and in the end nothing is left but what was lost,       *)
(* however early the crawler gave up.                                      *)
NothingLeaks ==
  /\ owned.strings = Len(list) + Cardinality(set) + lost + (IF scan = NoScan THEN 0 ELSE 1)
  /\ owned.streams = Len(frames) + (IF scan = NoScan THEN 0 ELSE 1)
  /\ at.main = "end" => /\ owned = [NothingOwned EXCEPT !.strings = lost]
                        /\ reg.storage = {}

(* "cleanup after ourselves so there are no memory leaks"                  *)
(* (file_crawler_single.c:264), which does not find what the set has lost. *)
NothingLeft == at.main = "end" => owned = NothingOwned /\ reg.storage = {}

(* Block devices, sockets and whiteouts have DT_DIR's bit in their types,  *)
(* so that the search takes them for directories, and leaves them out.     *)
LeftOut == {6, 12, 14}

(* The files that a search of the tree from an argument should find: their *)
(* names match, the directories on the way to them are known as such and   *)
(* can be opened, and all of these can be open at the same time.           *)
Files(tree, argument) ==
  LET start == Place(argument)
      Way(p) == {SubSeq(p, 1, k) : k \in Len(start)..(Len(p) - 1)}
  IN  {p \in DOMAIN tree :
         /\ Len(p) > Len(start) /\ SubSeq(p, 1, Len(start)) = start
         /\ Len(p) - Len(start) <= OpenMax
         /\ p[Len(p)] \in Matching /\ tree[p].type # DT_DIR
         /\ \A q \in Way(p) : tree[q].opens /\ (q = start \/ tree[q].type = DT_DIR)}

Given == {args[i] : i \in DOMAIN args}
Printed == {Place(out[i]) : i \in DOMAIN out}

(* No argument is another one or one below it. *)
Apart ==
  \A i, j \in DOMAIN args :
    i # j => LET p == Prefix(args[i])
             IN  Len(p) > Len(args[j]) \/ SubSeq(args[j], 1, Len(p)) # p

(* The lines are in ascending order and each is the path of a matching     *)
(* file below an argument; unless the file system changed, of one that the *)
(* search should find. What comes of pointers that nobody has set is last. *)
PrintsOnlyFiles ==
  /\ \A i, j \in DOMAIN out : i < j => out[j] = Garbage \/ Before(out[i], out[j])
  /\ \A i \in DOMAIN out : out[i] # Garbage => \E a \in Given :
       LET p == Place(out[i])
           below == SubSeq(p, Len(Place(a)) + 1, Len(p))
       IN  /\ out[i] \in {Strip(a) \o below, Prefix(a) \o below}
           /\ \E t \in past : p \in DOMAIN t /\ t[p].type # DT_DIR
           /\ p[Len(p)] \in Matching
           /\ Cardinality(past) = 1 => p \in Files(fs, a)

(* Unless memory ran out or two arguments overlap, every file that the     *)
(* search should find in all the file systems there were is printed,       *)
(* whatever else changed between and during the two passes; a change that  *)
(* ends the search before its list is empty excepted, and the types that   *)
(* it leaves out. An argument without characters is the name of no         *)
(* directory.                                                              *)
PrintsAllFiles ==
  at.main = "done" /\ failures = 0 /\ Apart /\ (list = << >> \/ Cardinality(past) = 1) =>
    \A a \in Given \ {<<Nothing>>} :
      {p \in Files(fs, a) : \A t \in past : p \in Files(t, a) /\ t[p].type \notin LeftOut}
        \subseteq Printed

(* The walk comes back from every directory, and the crawler ends, or is   *)
(* ended at a pointer that leads nowhere.                                  *)
CrawlerEnds == <>(at.main \in {"end", "killed"})
-----------------------------------------------------------------------------
\* Mutant: `?' may also stand for nothing.
ConvertOptional(c) ==
  CASE c = "*" -> <<".", "*">> [] c = "." -> <<"\\", ".">> [] c = "?" -> <<".", "*">>
    [] OTHER -> <<c>>

Convert(c) ==
  CASE c = "*" -> <<".", "*">> [] c = "." -> <<"\\", ".">> [] c = "?" -> <<".">>
    [] OTHER -> <<c>>

(* The regular expression for a pattern of the shell; a bracket expression *)
(* without `*', `.' and `?' goes into it as it is.                         *)
cvtPattern(bashpat) ==
  LET p[i \in 0..Len(bashpat)] == IF i = 0 THEN <<"^">> ELSE p[i - 1] \o Convert(bashpat[i])
  IN  Append(p[Len(bashpat)], "$")

(* What the shell means by a pattern of `*', `?', bracket expressions and  *)
(* other characters.                                                       *)
ShellMatches(bashpat, text) ==
  LET m[here \in (1..(Len(bashpat) + 1)) \X (1..(Len(text) + 1))] ==
        LET i == here[1]
            j == here[2]
        IN  IF i > Len(bashpat) THEN j > Len(text)
            ELSE \/ /\ bashpat[i] = "*"
                    /\ m[<<i + 1, j>>] \/ (j <= Len(text) /\ m[<<i, j + 1>>])
                 \/ /\ bashpat[i] # "*" /\ j <= Len(text)
                    /\ bashpat[i] = "?" \/ Stands(bashpat[i], text[j])
                    /\ m[<<i + 1, j + 1>>]
  IN  m[<<1, 1>>]
=============================================================================
