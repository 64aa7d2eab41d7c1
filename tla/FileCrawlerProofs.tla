--------------------------- MODULE FileCrawlerProofs ---------------------------
(***************************************************************************)
(* Who owns the file crawler's strings and streams, for every file system, *)
(* whatever happens to it, every list of arguments and every number of     *)
(* streams, failures and changes; and the values its variables take.       *)
(***************************************************************************)
EXTENDS FileCrawler, DataInduction

Places == {"start", "compile", "create", "walk", "apply", "sort", "print", "done", "end",
           "killed"}
Path == {p \in Seq(Nat) : Len(p) > 0}
Entry == [name : Nat, type : Nat]
Frame == [dir : Path, rest : SUBSET Entry]
Objects == {"ll", "ts", "it"}
Owned == [strings : Int, streams : Int, objects : SUBSET Objects]
Held == IF scan = NoScan THEN 0 ELSE 1

TypeInv ==
  /\ fs \in Trees /\ args \in Arguments
  /\ at \in [main : Places, arg : Nat \ {0}]
  /\ frames \in Seq(Frame)
  /\ list \in Seq(Path)
  /\ scan \in [dir : Seq(Nat), rest : SUBSET Entry]
  /\ IsFiniteSet(set) /\ lost \in Nat
  /\ owned \in Owned

\* Every string has one owner or was lost, every stream has one.
Counted ==
  /\ owned.strings = Len(list) + Cardinality(set) + lost + Held
  /\ owned.streams = Len(frames) + Held

\* Streams are open in their pass only, containers filled between creation and cleanup.
Placed ==
  /\ frames # << >> => at.main = "walk"
  /\ scan # NoScan => at.main \in {"apply", "killed"} /\ scan.dir # << >>
  /\ at.main \in {"start", "compile", "create", "end"} =>
       list = << >> /\ set = {} /\ owned.objects = {}
  /\ at.main \notin {"print", "killed"} => "it" \notin owned.objects

\* What the engine has allocated.
EngineInv ==
  /\ at.main \in {"start", "end"} => reg.storage = {}
  /\ at.main = "compile" => reg = re_create
  /\ at.main \notin {"start", "compile", "end"} =>
       /\ reg \in [status : {"COMPILED"}, compSts : Int, execSts : Int,
                   storage : {{"engine", "program"}}]

IInv == TypeInv /\ Counted /\ Placed /\ EngineInv
-----------------------------------------------------------------------------
(* What a step counts, one field of the account or both. *)
LEMMA OwnedTypes ==
  ASSUME NEW o \in Owned
  PROVE  o.strings \in Int /\ o.streams \in Int /\ o.objects \in SUBSET Objects
BY DEF Owned

LEMMA OwnedStrings ==
  ASSUME NEW o \in Owned, NEW x \in Int
  PROVE  LET n == [o EXCEPT !.strings = x]
         IN  n \in Owned /\ n.strings = x /\ n.streams = o.streams /\ n.objects = o.objects
BY DEF Owned

LEMMA OwnedStreams ==
  ASSUME NEW o \in Owned, NEW x \in Int
  PROVE  LET n == [o EXCEPT !.streams = x]
         IN  n \in Owned /\ n.strings = o.strings /\ n.streams = x /\ n.objects = o.objects
BY DEF Owned

LEMMA OwnedObjects ==
  ASSUME NEW o \in Owned, NEW z \in SUBSET Objects
  PROVE  LET n == [o EXCEPT !.objects = z]
         IN  n \in Owned /\ n.strings = o.strings /\ n.streams = o.streams /\ n.objects = z
BY DEF Owned

(* The place main goes to. *)
LEMMA Going ==
  ASSUME NEW a \in [main : Places, arg : Nat \ {0}], NEW p \in Places
  PROVE  LET b == [a EXCEPT !.main = p]
         IN  b \in [main : Places, arg : Nat \ {0}] /\ b.main = p
OBVIOUS

(* A sequence without its first or its last element. *)
LEMMA OneLess ==
  ASSUME NEW S, NEW s \in Seq(S), s # << >>
  PROVE  /\ SubSeq(s, 2, Len(s)) \in Seq(S) /\ Len(SubSeq(s, 2, Len(s))) = Len(s) - 1
         /\ SubSeq(s, 1, Len(s) - 1) \in Seq(S) /\ Len(SubSeq(s, 1, Len(s) - 1)) = Len(s) - 1
         /\ s[1] \in S
<1>1. Len(s) \in Nat \ {0}
  BY EmptySeq
<1>2. PICK m \in Nat : Len(s) = m + 1
  <2>1. Len(s) - 1 \in Nat /\ Len(s) = (Len(s) - 1) + 1
    BY <1>1
  <2>2. QED
    BY <2>1
<1>3. \A i \in 1..(m + 1) : s[i] \in S
  BY <1>2, ElementOfSeq
<1>4. 1 \in 1..(m + 1) /\ 1..m \subseteq 1..(m + 1) /\ 2..(m + 1) \subseteq 1..(m + 1)
  BY <1>2
<1>5. SubSeq(s, 1, m) \in Seq(S) /\ Len(SubSeq(s, 1, m)) = m
  <2>1. SubSeq(s, 1, m) \in Seq(S) /\ Len(SubSeq(s, 1, m)) = IF 1 <= m THEN m - 1 + 1 ELSE 0
    BY <1>2, <1>3, <1>4, SubSeqProperties
  <2>2. (IF 1 <= m THEN m - 1 + 1 ELSE 0) = m
    BY <1>2
  <2>3. QED
    BY <2>1, <2>2
<1>6. SubSeq(s, 2, m + 1) \in Seq(S) /\ Len(SubSeq(s, 2, m + 1)) = m
  <2>1. m + 1 \in Int /\ \A i \in 2..(m + 1) : s[i] \in S
    BY <1>2, <1>3, <1>4
  <2>2. /\ SubSeq(s, 2, m + 1) \in Seq(S)
        /\ Len(SubSeq(s, 2, m + 1)) = IF 2 <= m + 1 THEN (m + 1) - 2 + 1 ELSE 0
    BY <2>1, SubSeqProperties
  <2>3. (IF 2 <= m + 1 THEN (m + 1) - 2 + 1 ELSE 0) = m
    BY <1>2
  <2>4. QED
    BY <2>2, <2>3
<1>7. Len(s) - 1 = m
  BY <1>2
<1>8. QED
  BY <1>2, <1>3, <1>4, <1>5, <1>6, <1>7

(* The last call on the stack. *)
LEMMA LastFrame ==
  ASSUME NEW s \in Seq(Frame), s # << >>
  PROVE  Len(s) \in Nat \ {0} /\ s[Len(s)] \in Frame
<1>1. Len(s) \in Nat \ {0}
  BY EmptySeq
<1>2. Len(s) \in 1..Len(s)
  BY <1>1
<1>3. QED
  BY <1>1, <1>2, ElementOfSeq

LEMMA InvImplies == IInv => NothingLeaks
<1>1. SUFFICES ASSUME IInv PROVE NothingLeaks
  OBVIOUS
<1>2. at.main = "end" => owned = [NothingOwned EXCEPT !.strings = lost]
  <2>1. SUFFICES ASSUME at.main = "end" PROVE owned = [NothingOwned EXCEPT !.strings = lost]
    OBVIOUS
  <2>2. frames = << >> /\ scan = NoScan /\ list = << >> /\ set = {} /\ owned.objects = {}
    BY <1>1, <2>1 DEF IInv, Placed
  <2>3. Cardinality(set) = 0
    BY <2>2, FS_EmptySet
  <2>4. owned.strings = lost /\ owned.streams = 0
    BY <1>1, <2>2, <2>3 DEF IInv, TypeInv, Counted, Held
  <2>5. QED
    <3>1. owned \in Owned /\ owned.objects = {}
      BY <1>1, <2>2 DEF IInv, TypeInv
    <3>2. owned = [strings |-> lost, streams |-> 0, objects |-> {}]
      BY <2>4, <3>1 DEF Owned
    <3>3. QED
      BY <3>2 DEF NothingOwned
<1>3. QED
  BY <1>1, <1>2 DEF IInv, TypeInv, Counted, Held, EngineInv, NothingLeaks

LEMMA InitInv == Init => IInv
<1>1. SUFFICES ASSUME Init PROVE IInv
  OBVIOUS
<1>2. list = << >> /\ set = {} /\ IsFiniteSet(set) /\ Cardinality(set) = 0
  BY <1>1, FS_EmptySet DEF Init, LL!ListInit, TS!SortedSetInit
<1>3. TypeInv
  BY <1>1, <1>2 DEF Init, TypeInv, Places, NoScan, NothingOwned, Owned, Objects, Frame
<1>4. QED
  BY <1>1, <1>2, <1>3
  DEF Init, IInv, Counted, Placed, EngineInv, Held, NoScan, NothingOwned, NoEngine

LEMMA StreamType == ASSUME fs \in Trees, NEW path PROVE Stream(path) \in SUBSET Entry
<1>1. /\ DOMAIN fs \subseteq Seq(Names) /\ Names \subseteq Nat
      /\ fs \in [DOMAIN fs -> [type : FileTypes, opens : BOOLEAN]] /\ FileTypes \subseteq Nat
  BY FileCrawlerAssumption DEF FileTypes, Names, DT_DIR
<1>2. ASSUME NEW p \in DOMAIN fs, p # << >>
      PROVE  [name |-> p[Len(p)], type |-> fs[p].type] \in Entry
  BY <1>1, <1>2 DEF Entry
<1>3. Entries(fs, Place(path)) \subseteq Entry
  BY <1>2 DEF Entries, Entry, DT_DIR, Dot, DotDot
<1>4. QED
  BY <1>3 DEF Stream

LEMMA PathOperators ==
  ASSUME NEW path \in Path
  PROVE  /\ Strip(path) \in Path /\ Prefix(path) \in Path
         /\ \A n \in Nat : Append(path, n) \in Path
<1>1. Strip(path) \in Path
  <2>1. ASSUME Len(path) > 1 PROVE SubSeq(path, 1, Len(path) - 1) \in Path
    BY <2>1 DEF Path
  <2>2. QED
    BY <2>1 DEF Strip
<1>2. Prefix(path) \in Path
  BY <1>1 DEF Prefix, Path, Nothing
<1>3. QED
  BY <1>1, <1>2 DEF Path

LEMMA ArgumentsArePaths ==
  ASSUME NEW a \in Arguments, NEW k \in Nat \ {0}, k <= Len(a) PROVE a[k] \in Path
BY FileCrawlerAssumption DEF Path

(* ll_add and ll_removeFirst on the list. *)
LEMMA ListAdd ==
  ASSUME NEW l \in Seq(Path), NEW p \in Path
  PROVE  LL!InsertAt(l, Len(l) + 1, p) \in Seq(Path)
         /\ Len(LL!InsertAt(l, Len(l) + 1, p)) = Len(l) + 1
BY DEF LL!InsertAt

LEMMA ListRemove ==
  ASSUME NEW l \in Seq(Path), Len(l) > 0
  PROVE  LL!RemoveAt(l, 1) \in Seq(Path) /\ Len(LL!RemoveAt(l, 1)) = Len(l) - 1 /\ l[1] \in Path
<1>1. SubSeq(l, 1, 0) \in Seq(Path) /\ Len(SubSeq(l, 1, 0)) = 0
  OBVIOUS
<1>2. l # << >>
  BY EmptySeq
<1>3. SubSeq(l, 2, Len(l)) \in Seq(Path) /\ Len(SubSeq(l, 2, Len(l))) = Len(l) - 1 /\ l[1] \in Path
  BY <1>2, OneLess
<1>4. LL!RemoveAt(l, 1) = SubSeq(l, 1, 0) \o SubSeq(l, 2, Len(l))
  BY DEF LL!RemoveAt
<1>5. QED
  BY <1>1, <1>2, <1>3, <1>4
-----------------------------------------------------------------------------
(* The steps, one by one. *)
LEMMA CreateEngineStep == IInv /\ CreateEngine => IInv'
<1>1. SUFFICES ASSUME IInv, CreateEngine PROVE IInv'
  OBVIOUS
<1>2. reg' = re_create \/ reg' = reg
  BY <1>1 DEF CreateEngine
<1>3. TypeInv' /\ Counted' /\ Placed'
  BY <1>1 DEF IInv, TypeInv, Counted, Placed, Held, CreateEngine, Goto, Places
<1>4. EngineInv'
  BY <1>1 DEF IInv, TypeInv, EngineInv, CreateEngine, Goto, Places
<1>5. QED
  BY <1>3, <1>4 DEF IInv

LEMMA CompilePatternStep == IInv /\ CompilePattern => IInv'
<1>1. SUFFICES ASSUME IInv, CompilePattern PROVE IInv'
  OBVIOUS
<1>2. TypeInv' /\ Counted' /\ Placed'
  BY <1>1 DEF IInv, TypeInv, Counted, Placed, Held, CompilePattern, Goto, Places
<1>3. EngineInv'
  <2>1. PICK code \in {0, REG_BADPAT} :
          LET compiled == re_compile(reg, code)
          IN  IF Compiled(compiled)
              THEN reg' = compiled /\ Goto("create")
              ELSE reg' = re_destroy(compiled) /\ Goto("end")
    BY <1>1 DEF CompilePattern
  <2>2. reg = re_create
    BY <1>1 DEF IInv, EngineInv, CompilePattern
  <2>3. CASE code = 0
    BY <1>1, <2>1, <2>2, <2>3
    DEF IInv, TypeInv, Places, EngineInv, Goto, re_create, NoEngine, re_compile, Compiled
  <2>4. CASE code = REG_BADPAT
    BY <1>1, <2>1, <2>2, <2>4
    DEF IInv, TypeInv, Places, EngineInv, Goto, re_create, NoEngine, re_compile, Compiled,
        re_destroy, REG_BADPAT
  <2>5. QED
    BY <2>3, <2>4
<1>4. QED
  BY <1>2, <1>3 DEF IInv

LEMMA CreateContainersStep == IInv /\ CreateContainers => IInv'
<1>1. SUFFICES ASSUME IInv, CreateContainers PROVE IInv'
  OBVIOUS
<1>2. /\ owned' \in Owned /\ owned'.strings = owned.strings
      /\ owned'.streams = owned.streams /\ "it" \notin owned'.objects
  <2>1. PICK z \in {{"ll", "ts"}, {}, {"ll"}} : owned' = [owned EXCEPT !.objects = z]
    BY <1>1 DEF CreateContainers
  <2>2. z \in SUBSET Objects /\ "it" \notin z
    BY <2>1 DEF Objects
  <2>3. owned \in Owned
    BY <1>1 DEF IInv, TypeInv
  <2>4. QED
    BY <2>1, <2>2, <2>3, OwnedObjects
<1>3. TypeInv' /\ Counted' /\ Placed'
  BY <1>1, <1>2 DEF IInv, TypeInv, Counted, Placed, Held, CreateContainers, Goto, Places
<1>4. EngineInv'
  BY <1>1 DEF IInv, TypeInv, EngineInv, CreateContainers, Goto, Places
<1>5. QED
  BY <1>3, <1>4 DEF IInv

(* A call of processDirectory, whoever makes it: its name is a path, and   *)
(* the calls under way have what they had open.                            *)
LEMMA ProcessDirectoryStep ==
  ASSUME IInv, at.main = "walk", UNCHANGED <<fs, args, scan, set, lost, reg>>,
         NEW stack \in Seq(Frame), Len(stack) = Len(frames),
         NEW path \in Path, NEW arg \in Nat \ {0},
         processDirectory(stack, path, arg)
  PROVE  IInv'
<1> DEFINE d == Strip(path)
<1>1. d \in Path /\ Prefix(path) \in Path
  BY PathOperators
<1>2. /\ owned \in Owned
      /\ at \in [main : Places, arg : Nat \ {0}] /\ list \in Seq(Path) /\ fs \in Trees
      /\ IsFiniteSet(set) /\ Cardinality(set) \in Nat /\ lost \in Nat
  BY FS_CardinalityType DEF IInv, TypeInv
<1>3. scan = NoScan /\ Held' = Held /\ Held = 0
  BY DEF IInv, Placed, Held, NoScan
<1>4. CASE /\ frames' = stack /\ at' = [at EXCEPT !.arg = arg]
           /\ UNCHANGED <<list, owned>>
  <2>1. at'.main = "walk" /\ at' \in [main : Places, arg : Nat \ {0}]
    BY <1>2, <1>4
  <2>2. TypeInv' /\ Counted'
    BY <1>2, <1>3, <1>4, <2>1 DEF IInv, TypeInv, Counted
  <2>3. Placed' /\ EngineInv'
    BY <1>3, <1>4, <2>1 DEF IInv, Placed, EngineInv
  <2>4. QED
    BY <2>2, <2>3 DEF IInv
<1>5. CASE GiveUp(stack) /\ UNCHANGED list
  <2>1. /\ at' = [at EXCEPT !.main = "done"] /\ frames' = << >>
        /\ owned' = [owned EXCEPT !.streams = (@ + 1) - (Len(stack) + 1)]
    BY <1>5 DEF GiveUp, Goto
  <2>2. at'.main = "done" /\ at' \in [main : Places, arg : Nat \ {0}]
    BY <1>2, <2>1, Going DEF Places
  <2>3. /\ owned' \in Owned /\ owned'.strings = owned.strings
        /\ owned'.streams = owned.streams - Len(frames) /\ owned'.objects = owned.objects
    <3>1. Len(stack) \in Nat /\ owned.streams \in Int
      BY <1>2, OwnedTypes
    <3>2. (owned.streams + 1) - (Len(stack) + 1) \in Int
      BY <3>1
    <3>3. (owned.streams + 1) - (Len(stack) + 1) = owned.streams - Len(frames)
      BY <3>1
    <3>4. QED
      BY <1>2, <2>1, <3>2, <3>3, OwnedStreams
  <2>4. TypeInv'
    <3>1. frames' \in Seq(Frame)
      BY <2>1
    <3>2. QED
      BY <1>2, <1>5, <2>2, <2>3, <3>1 DEF IInv, TypeInv
  <2>5. Counted'
    BY <1>2, <1>3, <1>5, <2>3, <2>1 DEF IInv, Counted
  <2>6. Placed' /\ EngineInv'
    BY <1>2, <1>3, <2>1, <2>2, <2>3 DEF IInv, Placed, EngineInv
  <2>7. QED
    BY <2>4, <2>5, <2>6 DEF IInv
<1>6. CASE /\ list' = LL!InsertAt(list, Len(list) + 1, d)
           /\ frames' = Append(stack, [dir |-> Prefix(path), rest |-> Stream(d)])
           /\ owned' = [owned EXCEPT !.strings = @ + 1, !.streams = @ + 1]
           /\ at' = [at EXCEPT !.arg = arg]
  <2>1. at'.main = "walk" /\ at' \in [main : Places, arg : Nat \ {0}]
    BY <1>2, <1>6
  <2>2. list' \in Seq(Path) /\ Len(list') = Len(list) + 1
    BY <1>1, <1>2, <1>6, ListAdd
  <2>3. /\ frames' \in Seq(Frame)
        /\ Len(frames') = Len(frames) + 1
    <3>1. [dir |-> Prefix(path), rest |-> Stream(d)] \in Frame
      BY <1>1, <1>2, StreamType DEF Frame
    <3>2. frames' = Append(stack, [dir |-> Prefix(path), rest |-> Stream(d)])
      BY <1>6
    <3>3. QED
      BY <3>1, <3>2, AppendProperties
  <2>4. /\ owned' \in Owned /\ owned'.strings = owned.strings + 1
        /\ owned'.streams = owned.streams + 1 /\ owned'.objects = owned.objects
    <3>1. owned.strings + 1 \in Int /\ owned.streams + 1 \in Int
      BY <1>2, OwnedTypes
    <3>2. owned \in Owned /\ owned' = [owned EXCEPT !.strings = @ + 1, !.streams = @ + 1]
      BY <1>2, <1>6
    <3>3. PICK x \in Int, y \in Int : x = owned.strings + 1 /\ y = owned.streams + 1
      BY <3>1
    <3>4. owned' = [owned EXCEPT !.strings = x, !.streams = y]
      BY <3>2, <3>3
    <3>5. owned' \in Owned /\ owned'.strings = x /\ owned'.streams = y
          /\ owned'.objects = owned.objects
      BY <3>2, <3>4 DEF Owned
    <3>6. QED
      BY <3>3, <3>5
  <2>5. TypeInv'
    BY <1>2, <2>4, <2>1, <2>2, <2>3 DEF IInv, TypeInv
  <2>6. Counted'
    BY <1>2, <1>3, <2>4, <2>2, <2>3 DEF IInv, Counted
  <2>7. Placed' /\ EngineInv'
    BY <1>2, <1>3, <1>6, <2>4, <2>1 DEF IInv, Placed, EngineInv
  <2>8. QED
    BY <2>5, <2>6, <2>7 DEF IInv
<1>7. QED
  BY <1>4, <1>5, <1>6 DEF processDirectory, LL!InsertElement, LL!Refused, LL!Reply

LEMMA WalkArgumentStep == IInv /\ WalkArgument => IInv'
<1>1. SUFFICES ASSUME IInv, WalkArgument PROVE IInv'
  OBVIOUS
<1>2. args[at.arg] \in Path /\ at.arg + 1 \in Nat \ {0}
  BY <1>1, ArgumentsArePaths DEF IInv, TypeInv, WalkArgument
<1>3. UNCHANGED <<fs, args, scan, set, lost, reg>> /\ at.main = "walk" /\ frames = << >>
  BY <1>1 DEF WalkArgument, afterWalk
<1>4. << >> \in Seq(Frame) /\ Len(<< >>) = Len(frames)
  BY <1>3
<1>5. processDirectory(<< >>, args[at.arg], at.arg + 1)
  BY <1>1 DEF WalkArgument
<1>6. QED
  BY <1>1, <1>2, <1>3, <1>4, <1>5, ProcessDirectoryStep

LEMMA WalkEntryStep == IInv /\ WalkEntry => IInv'
<1>1. SUFFICES ASSUME IInv, WalkEntry PROVE IInv'
  OBVIOUS
<1> DEFINE n == Len(frames)
           stack(e) == [frames EXCEPT ![n].rest = @ \ {e}]
<1>2. PICK e \in frames[n].rest :
        IF IsDirectory(e)
        THEN processDirectory(stack(e), Append(frames[n].dir, e.name), at.arg)
        ELSE frames' = stack(e) /\ UNCHANGED <<at, list, llReply, owned, failures>>
  BY <1>1 DEF WalkEntry
<1>3. /\ frames \in Seq(Frame) /\ n \in 1..Len(frames)
      /\ frames[n] \in Frame
  <2>1. frames \in Seq(Frame) /\ frames # << >>
    BY <1>1 DEF IInv, TypeInv, WalkEntry
  <2>2. QED
    BY <2>1, LastFrame
<1>4. /\ stack(e) \in Seq(Frame)
      /\ Len(stack(e)) = Len(frames)
  <2>1. [frames[n] EXCEPT !.rest = @ \ {e}] \in Frame
    BY <1>3 DEF Frame
  <2>2. QED
    BY <1>3, <2>1, ExceptSeq
<1>5. Append(frames[n].dir, e.name) \in Path
  <2>1. frames[n].dir \in Path /\ e \in Entry
    BY <1>2, <1>3 DEF Frame
  <2>2. e.name \in Nat
    BY <2>1 DEF Entry
  <2>3. QED
    BY <2>1, <2>2, PathOperators
<1>6. UNCHANGED <<fs, args, scan, set, lost, reg>> /\ at.main = "walk" /\ at.arg \in Nat \ {0}
  BY <1>1 DEF WalkEntry, afterWalk, IInv, TypeInv
<1>7. CASE IsDirectory(e)
  BY <1>1, <1>2, <1>4, <1>5, <1>6, <1>7, ProcessDirectoryStep
<1>8. CASE ~IsDirectory(e)
  <2>1. frames' = stack(e) /\ UNCHANGED <<at, list, owned>>
    BY <1>2, <1>8
  <2>2. TypeInv' /\ Counted' /\ Placed' /\ EngineInv'
    BY <1>1, <1>4, <1>6, <2>1 DEF IInv, TypeInv, Counted, Placed, EngineInv, Held
  <2>3. QED
    BY <2>2 DEF IInv
<1>9. QED
  BY <1>7, <1>8

LEMMA WalkReturnStep == IInv /\ WalkReturn => IInv'
<1>1. SUFFICES ASSUME IInv, WalkReturn PROVE IInv'
  OBVIOUS
<1>2. /\ frames' \in Seq(Frame)
      /\ Len(frames') = Len(frames) - 1
  <2>1. /\ frames \in Seq(Frame) /\ frames # << >>
        /\ frames' = SubSeq(frames, 1, Len(frames) - 1)
    BY <1>1 DEF IInv, TypeInv, WalkReturn
  <2>2. QED
    BY <2>1, OneLess
<1>3. /\ owned' \in Owned /\ owned'.strings = owned.strings
      /\ owned'.streams = owned.streams - 1 /\ owned'.objects = owned.objects
  <2>1. owned \in Owned /\ owned' = [owned EXCEPT !.streams = @ - 1]
    BY <1>1 DEF IInv, TypeInv, WalkReturn
  <2>2. owned.streams - 1 \in Int
    BY <2>1, OwnedTypes
  <2>3. QED
    BY <2>1, <2>2, OwnedStreams
<1>4. /\ UNCHANGED <<fs, args, at, list, scan, set, lost, reg>> /\ at.main = "walk"
      /\ Held' = Held /\ Held \in {0, 1} /\ Len(frames) \in Nat
      /\ Len(list) \in Nat /\ Cardinality(set) \in Nat /\ lost \in Nat
  BY <1>1, FS_CardinalityType DEF IInv, TypeInv, Held, WalkReturn, afterWalk
<1>5. TypeInv'
  BY <1>1, <1>2, <1>3, <1>4 DEF IInv, TypeInv
<1>6. Placed' /\ EngineInv'
  BY <1>1, <1>3, <1>4 DEF IInv, Placed, EngineInv
<1>7. Counted'
  BY <1>1, <1>2, <1>3, <1>4 DEF IInv, Counted
<1>8. QED
  BY <1>5, <1>6, <1>7 DEF IInv

LEMMA WalkEndsStep == IInv /\ WalkEnds => IInv'
<1>1. SUFFICES ASSUME IInv, WalkEnds PROVE IInv'
  OBVIOUS
<1>2. TypeInv' /\ Counted' /\ Placed'
  BY <1>1 DEF IInv, TypeInv, Counted, Placed, Held, WalkEnds, afterWalk, Goto, Places
<1>3. EngineInv'
  BY <1>1 DEF IInv, TypeInv, EngineInv, WalkEnds, afterWalk, Goto, Places
<1>4. QED
  BY <1>2, <1>3 DEF IInv

LEMMA NextDirectoryStep == IInv /\ NextDirectory => IInv'
<1>1. SUFFICES ASSUME IInv, NextDirectory PROVE IInv'
  OBVIOUS
<1>2. /\ owned \in Owned /\ list \in Seq(Path) /\ scan = NoScan /\ at.main = "apply"
      /\ at \in [main : Places, arg : Nat \ {0}] /\ fs \in Trees
      /\ UNCHANGED <<fs, args, frames, set, lost, reg>>
      /\ Len(frames) = 0 /\ Cardinality(set) \in Nat /\ lost \in Nat /\ Held = 0
  BY <1>1, FS_CardinalityType DEF IInv, TypeInv, Placed, Held, NextDirectory
<1>3. CASE list = << >>
  <2>1. list' = list /\ at' = [at EXCEPT !.main = "sort"] /\ UNCHANGED <<scan, owned>>
    BY <1>1, <1>3 DEF NextDirectory, LL!RemoveElement, LL!Reply, LL!Refused, Goto
  <2>2. at' \in [main : Places, arg : Nat \ {0}] /\ at'.main = "sort"
    BY <1>2, <2>1, Going DEF Places
  <2>3. QED
    BY <1>1, <1>2, <2>1, <2>2 DEF IInv, TypeInv, Counted, Placed, EngineInv, Held
<1>4. CASE list # << >>
  <2> DEFINE sp == list[1]
  <2>1. /\ list' = LL!RemoveAt(list, 1)
        /\ IF Opens(sp)
           THEN /\ scan' = [dir |-> sp, rest |-> Stream(sp)]
                /\ owned' = [owned EXCEPT !.streams = @ + 1] /\ UNCHANGED at
           ELSE /\ owned' = [owned EXCEPT !.strings = @ - 1]
                /\ at' = [at EXCEPT !.main = "sort"] /\ UNCHANGED scan
    BY <1>1, <1>4 DEF NextDirectory, LL!RemoveElement, LL!Reply, LL!Refused, Goto
  <2>2. list' \in Seq(Path) /\ Len(list') = Len(list) - 1 /\ sp \in Path
    BY <1>2, <1>4, <2>1, ListRemove
  <2>3. CASE Opens(sp)
    <3>1. owned' = [owned EXCEPT !.streams = @ + 1] /\ owned.streams + 1 \in Int
      BY <1>2, <2>1, <2>3, OwnedTypes
    <3>2. /\ owned' \in Owned /\ owned'.strings = owned.strings
          /\ owned'.streams = owned.streams + 1 /\ owned'.objects = owned.objects
      BY <1>2, <3>1, OwnedStreams
    <3>3. scan' = [dir |-> sp, rest |-> Stream(sp)] /\ UNCHANGED at
      BY <2>1, <2>3
    <3>4. scan' \in [dir : Seq(Nat), rest : SUBSET Entry] /\ scan'.dir # << >>
      BY <1>2, <2>2, <3>3, StreamType DEF Path
    <3>5. TypeInv'
      BY <1>1, <1>2, <2>2, <3>2, <3>3, <3>4 DEF IInv, TypeInv
    <3>6. Counted'
      BY <1>1, <1>2, <2>2, <3>2, <3>4 DEF IInv, Counted, Held, NoScan
    <3>7. Placed' /\ EngineInv'
      BY <1>1, <1>2, <3>2, <3>3, <3>4 DEF IInv, Placed, EngineInv
    <3>8. QED
      BY <3>5, <3>6, <3>7 DEF IInv
  <2>4. CASE ~Opens(sp)
    <3>1. owned' = [owned EXCEPT !.strings = @ - 1] /\ owned.strings - 1 \in Int
      BY <1>2, <2>1, <2>4, OwnedTypes
    <3>2. /\ owned' \in Owned /\ owned'.strings = owned.strings - 1
          /\ owned'.streams = owned.streams /\ owned'.objects = owned.objects
      BY <1>2, <3>1, OwnedStrings
    <3>3. at' = [at EXCEPT !.main = "sort"] /\ UNCHANGED scan
      BY <2>1, <2>4
    <3>4. at' \in [main : Places, arg : Nat \ {0}] /\ at'.main = "sort"
      BY <1>2, <3>3, Going DEF Places
    <3>5. TypeInv'
      BY <1>1, <1>2, <2>2, <3>2, <3>3, <3>4 DEF IInv, TypeInv
    <3>6. Counted'
      BY <1>1, <1>2, <2>2, <3>2, <3>3 DEF IInv, Counted, Held
    <3>7. Placed' /\ EngineInv'
      BY <1>1, <1>2, <3>2, <3>3, <3>4 DEF IInv, Placed, EngineInv
    <3>8. QED
      BY <3>5, <3>6, <3>7 DEF IInv
  <2>5. QED
    BY <2>3, <2>4
<1>5. QED
  BY <1>3, <1>4

(* applyRe returns to main, which frees sp. *)
LEMMA EndScanStep ==
  ASSUME IInv, at.main = "apply", scan # NoScan, UNCHANGED <<fs, args, frames, list, set, lost>>,
         reg' \in [status : {"COMPILED"}, compSts : Int, execSts : Int,
                   storage : {{"engine", "program"}}],
         NEW stat, EndScan(stat)
  PROVE  IInv'
<1>1. /\ owned \in Owned /\ list \in Seq(Path)
      /\ at \in [main : Places, arg : Nat \ {0}]
      /\ Len(frames) = 0 /\ Cardinality(set) \in Nat /\ lost \in Nat /\ Held = 1
      /\ scan' = NoScan /\ NoScan \in [dir : Seq(Nat), rest : SUBSET Entry]
  BY FS_CardinalityType DEF IInv, TypeInv, Placed, Held, EndScan, NoScan
<1>2. /\ owned' \in Owned /\ owned'.strings = owned.strings - 1
      /\ owned'.streams = owned.streams - 1 /\ owned'.objects = owned.objects
  <2>1. owned' = [owned EXCEPT !.streams = @ - 1, !.strings = @ - 1]
    BY DEF EndScan
  <2>2. owned.strings - 1 \in Int /\ owned.streams - 1 \in Int
    BY <1>1, OwnedTypes
  <2>3. PICK x \in Int, y \in Int : x = owned.strings - 1 /\ y = owned.streams - 1
    BY <2>2
  <2>4. owned' = [owned EXCEPT !.streams = y, !.strings = x]
    BY <2>1, <2>3
  <2>5. owned' = [owned EXCEPT !.strings = x, !.streams = y]
    BY <1>1, <2>4 DEF Owned
  <2>6. owned' \in Owned /\ owned'.strings = x /\ owned'.streams = y
        /\ owned'.objects = owned.objects
    BY <1>1, <2>5 DEF Owned
  <2>7. QED
    BY <2>3, <2>6
<1>3. at' \in [main : Places, arg : Nat \ {0}] /\ at'.main \in {"apply", "sort"}
  <2>1. at' = [at EXCEPT !.main = "sort"] \/ at' = at
    BY DEF EndScan, Goto
  <2>2. "sort" \in Places
    BY DEF Places
  <2>3. CASE at' = [at EXCEPT !.main = "sort"]
    BY <1>1, <2>2, <2>3, Going
  <2>4. QED
    BY <1>1, <2>1, <2>3
<1>4. TypeInv'
  BY <1>1, <1>2, <1>3 DEF IInv, TypeInv
<1>5. Counted'
  BY <1>1, <1>2 DEF IInv, Counted, Held
<1>6. Placed' /\ EngineInv'
  BY <1>1, <1>2, <1>3 DEF IInv, Placed, EngineInv
<1>7. QED
  BY <1>4, <1>5, <1>6 DEF IInv

(* What comes of a path: it ends the scan, it goes on, or it ends it all.  *)
LEMMA AddPathWays ==
  ASSUME NEW path, NEW rest, AddPath(path, rest)
  PROVE  \/ EndScan(0) /\ UNCHANGED <<set, lost>>
         \/ /\ \/ path \notin set /\ set' = set \cup {path} /\ lost' = lost
               \/ set' = set /\ lost' = lost + 1
            /\ Added(rest)
         \/ FollowNull(path)
<1>1. CASE /\ TS!AddElement(path) /\ UNCHANGED lost
           /\ IF tsReply'.ret = 0 THEN EndScan(0) ELSE Added(rest)
  <2>1. /\ tsReply'.ret = IF path \in set THEN 0 ELSE 1
        /\ set' = set \cup {path}
    BY <1>1 DEF TS!AddElement, TS!Reply
  <2>2. path \in set => set' = set
    BY <2>1
  <2>3. QED
    BY <1>1, <2>1, <2>2
<1>2. CASE LoseElement(path) /\ Added(rest)
  BY <1>2 DEF LoseElement
<1>3. QED
  BY <1>1, <1>2 DEF AddPath

LEMMA ScanEntryStep == IInv /\ ScanEntry => IInv'
<1>1. SUFFICES ASSUME IInv, ScanEntry PROVE IInv'
  OBVIOUS
<1> DEFINE rest(e) == scan.rest \ {e}
           engine(e) == re_match(reg, IF e.name \in Matching THEN 0 ELSE REG_NOMATCH)
           path(e) == Append(scan.dir, e.name)
           Engine == [status : {"COMPILED"}, compSts : Int, execSts : Int,
                      storage : {{"engine", "program"}}]
<1>2. PICK e \in scan.rest :
        \/ /\ scan' = [scan EXCEPT !.rest = rest(e)]
           /\ UNCHANGED <<at, set, lost, owned>> /\ reg' \in {reg, engine(e)}
        \/ reg' = engine(e) /\ AddPath(path(e), rest(e))
  BY <1>1 DEF ScanEntry
<1>3. /\ owned \in Owned /\ list \in Seq(Path) /\ at.main = "apply"
      /\ at \in [main : Places, arg : Nat \ {0}]
      /\ scan \in [dir : Seq(Nat), rest : SUBSET Entry] /\ scan # NoScan
      /\ UNCHANGED <<fs, args, frames, list>> /\ Len(frames) = 0
      /\ IsFiniteSet(set) /\ Cardinality(set) \in Nat /\ lost \in Nat /\ Held = 1
  BY <1>1, FS_CardinalityType DEF IInv, TypeInv, Placed, Held, ScanEntry
<1>4. reg' \in Engine
  <2>1. reg \in Engine
    BY <1>1, <1>3 DEF IInv, EngineInv
  <2>2. engine(e) \in Engine
    BY <2>1 DEF re_match, REG_NOMATCH
  <2>3. QED
    BY <1>2, <2>1, <2>2
<1>5. ASSUME scan' = [scan EXCEPT !.rest = rest(e)]
      PROVE  scan' \in [dir : Seq(Nat), rest : SUBSET Entry] /\ Held' = 1 /\ scan'.dir # << >>
  <2>1. scan.dir # << >>
    BY <1>1, <1>3 DEF IInv, Placed
  <2>2. scan' \in [dir : Seq(Nat), rest : SUBSET Entry] /\ scan'.dir = scan.dir
    BY <1>3, <1>5
  <2>3. scan' # NoScan
    BY <2>1, <2>2 DEF NoScan
  <2>4. QED
    BY <2>1, <2>2, <2>3 DEF Held
<1>6. CASE /\ scan' = [scan EXCEPT !.rest = rest(e)] /\ UNCHANGED <<at, set, lost, owned>>
  <2>1. TypeInv' /\ Counted'
    BY <1>1, <1>3, <1>5, <1>6 DEF IInv, TypeInv, Counted
  <2>2. Placed' /\ EngineInv'
    BY <1>1, <1>3, <1>4, <1>5, <1>6 DEF IInv, Placed, EngineInv
  <2>3. QED
    BY <2>1, <2>2 DEF IInv
<1>7. CASE EndScan(0) /\ UNCHANGED <<set, lost>>
  BY <1>1, <1>3, <1>4, <1>7, EndScanStep
<1>8. CASE /\ \/ path(e) \notin set /\ set' = set \cup {path(e)} /\ lost' = lost
              \/ set' = set /\ lost' = lost + 1
           /\ Added(rest(e))
  <2>1. /\ IsFiniteSet(set') /\ lost' \in Nat /\ Cardinality(set') \in Nat
        /\ Cardinality(set') + lost' = Cardinality(set) + lost + 1
    <3>1. CASE path(e) \notin set /\ set' = set \cup {path(e)} /\ lost' = lost
      <4>1. IsFiniteSet(set') /\ Cardinality(set') = Cardinality(set) + 1
        BY <1>3, <3>1, FS_AddElement
      <4>2. Cardinality(set) \in Nat /\ lost \in Nat /\ lost' = lost
        BY <1>3, <3>1
      <4> HIDE DEF path
      <4>3. QED
        BY <4>1, <4>2
    <3>2. CASE set' = set /\ lost' = lost + 1
      BY <1>3, <3>2
    <3>3. QED
      BY <1>8, <3>1, <3>2
  <2>2. /\ scan' = [scan EXCEPT !.rest = rest(e)] /\ UNCHANGED at
        /\ owned' = [owned EXCEPT !.strings = @ + 1]
    BY <1>8 DEF Added
  <2>3. /\ owned' \in Owned /\ owned'.strings = owned.strings + 1
        /\ owned'.streams = owned.streams /\ owned'.objects = owned.objects
    <3>1. owned.strings + 1 \in Int
      BY <1>3, OwnedTypes
    <3>2. QED
      BY <1>3, <2>2, <3>1, OwnedStrings
  <2>4. TypeInv'
    BY <1>1, <1>3, <1>5, <2>1, <2>2, <2>3 DEF IInv, TypeInv
  <2>5. Counted'
    <3>1. /\ Len(list) \in Nat /\ Held' = 1 /\ owned.streams = Len(frames) + Held
          /\ owned.strings = Len(list) + Cardinality(set) + lost + Held
      BY <1>1, <1>3, <1>5, <2>2 DEF IInv, Counted
    <3>2. owned'.strings = Len(list) + (Cardinality(set') + lost') + 1
      BY <1>3, <2>1, <2>3, <3>1
    <3>3. owned'.strings = Len(list') + Cardinality(set') + lost' + Held'
      BY <1>3, <2>1, <3>1, <3>2
    <3>4. owned'.streams = Len(frames') + Held'
      BY <1>3, <2>3, <3>1
    <3>5. QED
      BY <3>3, <3>4 DEF Counted
  <2>6. Placed' /\ EngineInv'
    BY <1>1, <1>3, <1>4, <1>5, <2>2, <2>3 DEF IInv, Placed, EngineInv
  <2>7. QED
    BY <2>4, <2>5, <2>6 DEF IInv
<1>9. CASE FollowNull(path(e))
  <2>1. at' = [at EXCEPT !.main = "killed"] /\ UNCHANGED <<scan, set, lost, owned>>
    BY <1>9 DEF FollowNull, Goto
  <2>2. at' \in [main : Places, arg : Nat \ {0}] /\ at'.main = "killed"
    BY <1>3, <2>1, Going DEF Places
  <2>3. TypeInv' /\ Counted'
    BY <1>1, <1>3, <2>1, <2>2 DEF IInv, TypeInv, Counted, Held
  <2>4. Placed' /\ EngineInv'
    BY <1>1, <1>3, <1>4, <2>1, <2>2 DEF IInv, Placed, EngineInv
  <2>5. QED
    BY <2>3, <2>4 DEF IInv
<1>10. QED
  BY <1>2, <1>6, <1>7, <1>8, <1>9, AddPathWays

LEMMA ScanEndsStep == IInv /\ ScanEnds => IInv'
<1>1. SUFFICES ASSUME IInv, ScanEnds PROVE IInv'
  OBVIOUS
<1>2. /\ at.main = "apply" /\ scan # NoScan /\ UNCHANGED <<fs, args, frames, list, set, lost, reg>>
      /\ EndScan(1)
  BY <1>1 DEF ScanEnds
<1>3. reg' \in [status : {"COMPILED"}, compSts : Int, execSts : Int,
               storage : {{"engine", "program"}}]
  BY <1>1, <1>2 DEF IInv, EngineInv
<1>4. QED
  BY <1>1, <1>2, <1>3, EndScanStep

LEMMA CreateIteratorStep == IInv /\ CreateIterator => IInv'
<1>1. SUFFICES ASSUME IInv, CreateIterator PROVE IInv'
  OBVIOUS
<1>2. /\ owned \in Owned /\ at.main = "sort" /\ at \in [main : Places, arg : Nat \ {0}]
      /\ UNCHANGED <<fs, args, frames, list, scan, set, lost, reg>> /\ Held' = Held
  BY <1>1 DEF IInv, TypeInv, Held, CreateIterator
<1>3. CASE at' = [at EXCEPT !.main = "done"] /\ UNCHANGED owned
  <2>1. at' \in [main : Places, arg : Nat \ {0}] /\ at'.main = "done"
    BY <1>2, <1>3, Going DEF Places
  <2>2. QED
    BY <1>1, <1>2, <1>3, <2>1 DEF IInv, TypeInv, Counted, Placed, EngineInv
<1>4. CASE /\ at' = [at EXCEPT !.main = "print"]
           /\ owned' = [owned EXCEPT !.objects = @ \cup {"it"}]
  <2>1. at' \in [main : Places, arg : Nat \ {0}] /\ at'.main = "print"
    BY <1>2, <1>4, Going DEF Places
  <2>2. owned.objects \cup {"it"} \in SUBSET Objects
    BY <1>2, OwnedTypes DEF Objects
  <2>3. /\ owned' \in Owned /\ owned'.strings = owned.strings
        /\ owned'.streams = owned.streams
    BY <1>2, <1>4, <2>2, OwnedObjects
  <2>4. QED
    BY <1>1, <1>2, <2>1, <2>3 DEF IInv, TypeInv, Counted, Placed, EngineInv
<1>5. QED
  BY <1>1, <1>3, <1>4 DEF CreateIterator, Goto

LEMMA PrintLineStep == IInv /\ PrintLine => IInv'
<1>1. SUFFICES ASSUME IInv, PrintLine PROVE IInv'
  OBVIOUS
<1>2. /\ at.main = "print" /\ at \in [main : Places, arg : Nat \ {0}]
      /\ UNCHANGED <<fs, args, frames, list, scan, set, lost, reg, owned>> /\ Held' = Held
      /\ UNCHANGED at \/ at' = [at EXCEPT !.main = "killed"]
  BY <1>1 DEF IInv, TypeInv, Held, PrintLine, Goto
<1>3. at' \in [main : Places, arg : Nat \ {0}] /\ at'.main \in {"print", "killed"}
  <2>1. CASE UNCHANGED at
    BY <1>2, <2>1
  <2>2. CASE at' = [at EXCEPT !.main = "killed"]
    BY <1>2, <2>2, Going DEF Places
  <2>3. QED
    BY <1>2, <2>1, <2>2
<1>4. QED
  BY <1>1, <1>2, <1>3 DEF IInv, TypeInv, Counted, Placed, EngineInv

LEMMA PrintEndsStep == IInv /\ PrintEnds => IInv'
<1>1. SUFFICES ASSUME IInv, PrintEnds PROVE IInv'
  OBVIOUS
<1>2. /\ owned \in Owned /\ at.main = "print" /\ at \in [main : Places, arg : Nat \ {0}]
      /\ at' = [at EXCEPT !.main = "done"] /\ owned' = [owned EXCEPT !.objects = @ \ {"it"}]
      /\ UNCHANGED <<fs, args, frames, list, scan, set, lost, reg>> /\ Held' = Held
  BY <1>1 DEF IInv, TypeInv, Held, PrintEnds, Goto
<1>3. at' \in [main : Places, arg : Nat \ {0}] /\ at'.main = "done"
  BY <1>2, Going DEF Places
<1>4. owned.objects \ {"it"} \in SUBSET Objects
  BY <1>2, OwnedTypes
<1>5. /\ owned' \in Owned /\ owned'.strings = owned.strings /\ owned'.streams = owned.streams
      /\ owned'.objects = owned.objects \ {"it"}
  BY <1>2, <1>4, OwnedObjects
<1>6. QED
  BY <1>1, <1>2, <1>3, <1>5 DEF IInv, TypeInv, Counted, Placed, EngineInv

LEMMA CleanupStep == IInv /\ Cleanup => IInv'
<1>1. SUFFICES ASSUME IInv, Cleanup PROVE IInv'
  OBVIOUS
<1>2. /\ owned \in Owned /\ at.main = "done" /\ at \in [main : Places, arg : Nat \ {0}]
      /\ at' = [at EXCEPT !.main = "end"]
      /\ list' = << >> /\ set' = {} /\ reg' = re_destroy(reg)
      /\ UNCHANGED <<fs, args, frames, scan, lost>> /\ Held' = Held /\ Held = 0 /\ lost \in Nat
      /\ frames = << >> /\ scan = NoScan /\ "it" \notin owned.objects
  BY <1>1 DEF IInv, TypeInv, Placed, Held, Cleanup, Goto, LL!Empty, TS!Empty
<1>3. at' \in [main : Places, arg : Nat \ {0}] /\ at'.main = "end"
  BY <1>2, Going DEF Places
<1>4. IsFiniteSet(set') /\ Cardinality(set') = 0
  BY <1>2, FS_EmptySet
<1>5. owned' \in Owned /\ owned'.strings = lost /\ owned'.streams = 0 /\ owned'.objects = {}
  <2>1. /\ owned' = [owned EXCEPT !.strings = @ - (Len(list) + Cardinality(set)),
                                  !.objects = @ \ {"ll", "ts"}]
        /\ Len(list) \in Nat /\ Cardinality(set) \in Nat /\ lost \in Nat
    BY <1>1, FS_CardinalityType DEF IInv, TypeInv, Cleanup
  <2>2. owned.strings - (Len(list) + Cardinality(set)) = lost /\ owned.streams = 0
    <3>1. owned.strings = Len(list) + Cardinality(set) + lost + 0 /\ owned.streams = Len(frames) + 0
      BY <1>1, <1>2 DEF IInv, Counted
    <3>2. QED
      BY <1>2, <2>1, <3>1
  <2>3. owned.objects \ {"ll", "ts"} = {}
    BY <1>2, OwnedTypes DEF Objects
  <2>4. owned' = [owned EXCEPT !.strings = lost, !.objects = {}]
    BY <2>1, <2>2, <2>3
  <2>5. QED
    <3>1. owned \in Owned /\ lost \in Int /\ owned.streams = 0
      BY <1>2, <2>2
    <3>2. QED
      BY <2>4, <3>1 DEF Owned
<1>6. reg'.storage = {}
  BY <1>1, <1>2 DEF IInv, EngineInv, re_destroy, NoEngine
<1>7. TypeInv' /\ Counted'
  BY <1>1, <1>2, <1>3, <1>4, <1>5 DEF IInv, TypeInv, Counted
<1>8. Placed' /\ EngineInv'
  BY <1>2, <1>3, <1>5, <1>6 DEF Placed, EngineInv
<1>9. QED
  BY <1>7, <1>8 DEF IInv

LEMMA ChangeStep == IInv /\ Change => IInv'
BY DEF IInv, TypeInv, Counted, Placed, EngineInv, Held, Change
-----------------------------------------------------------------------------
LEMMA Inductive == IInv /\ [Next]_vars => IInv'
<1>1. ASSUME IInv, UNCHANGED vars PROVE IInv'
  BY <1>1 DEF IInv, TypeInv, Counted, Placed, EngineInv, Held, vars
<1>2. QED
  BY <1>1, CreateEngineStep, CompilePatternStep, CreateContainersStep, WalkArgumentStep,
     WalkEntryStep, WalkReturnStep, WalkEndsStep, NextDirectoryStep, ScanEntryStep,
     ScanEndsStep, CreateIteratorStep, PrintLineStep, PrintEndsStep, CleanupStep, ChangeStep
  DEF Next, Step, Terminated

(* Every string on the heap is on the list, in the set, held by sp, or was *)
(* lost by the set, which had no memory for its node; every stream is that *)
(* of a call under way; and nothing is left in the end but what was lost,  *)
(* however early the crawler gave up.                                      *)
THEOREM OwnershipKept == Spec => []NothingLeaks
BY InitInv, Inductive, InvImplies, PTL DEF Spec
-----------------------------------------------------------------------------
(* What is bounded: places in the list of arguments, failures and streams; *)
(* and the file systems there were are some of those there may be.         *)
Limits ==
  /\ past \subseteq Trees /\ fs \in past /\ IsFiniteSet(past)
  /\ at.arg <= Len(args) + 1
  /\ failures \in 0..MaxFailures
  /\ owned.streams <= OpenMax

LEMMA TypesImplied == IInv /\ Limits => TypeOK
<1>1. SUFFICES ASSUME IInv, Limits PROVE TypeOK
  OBVIOUS
<1>2. /\ at.main \in Places /\ at.arg \in Nat \ {0} /\ owned \in Owned
      /\ Len(list) \in Nat /\ Len(frames) \in Nat /\ Cardinality(set) \in Nat /\ lost \in Nat /\ Held \in {0, 1}
      /\ args \in Seq(Seq(Nat))
  BY <1>1, FS_CardinalityType, FileCrawlerAssumption DEF IInv, TypeInv, Held
<1>3. owned.strings \in Nat /\ owned.streams \in Nat
  BY <1>1, <1>2 DEF IInv, Counted
<1>4. owned.objects \subseteq {"ll", "ts", "it"}
  BY <1>2, OwnedTypes DEF Objects
<1>5. reg.storage \subseteq {"engine", "program"}
  BY <1>1, <1>2 DEF IInv, EngineInv, Places, re_create, NoEngine
<1>6. at.arg \in 1..(Len(args) + 1) /\ owned.streams \in 0..OpenMax
  <2>1. Len(args) \in Nat
    BY <1>2
  <2>2. QED
    BY <1>1, <1>2, <1>3, <2>1, FileCrawlerAssumption DEF Limits
<1>7. QED
  BY <1>1, <1>2, <1>3, <1>4, <1>5, <1>6 DEF TypeOK, IInv, TypeInv, Limits, Places

(* The three ways a call of processDirectory can go.                       *)
Passed(stack, arg) ==
  frames' = stack /\ at' = [at EXCEPT !.arg = arg] /\ UNCHANGED <<list, owned, failures>>

Entered(stack, path, arg) ==
  /\ Opens(Strip(path))
  /\ list' = LL!InsertAt(list, Len(list) + 1, Strip(path))
  /\ frames' = Append(stack, [dir |-> Prefix(path), rest |-> Stream(Strip(path))])
  /\ owned' = [owned EXCEPT !.strings = @ + 1, !.streams = @ + 1]
  /\ at' = [at EXCEPT !.arg = arg] /\ UNCHANGED failures

LEMMA ProcessDirectoryWays ==
  ASSUME NEW stack, NEW path, NEW arg, processDirectory(stack, path, arg)
  PROVE  \/ Passed(stack, arg) \/ Entered(stack, path, arg)
         \/ GiveUp(stack) /\ UNCHANGED list
BY DEF processDirectory, Passed, Entered, LL!InsertElement, LL!Refused, LL!Reply

LEMMA WalkLimits ==
  ASSUME IInv, Limits, UNCHANGED <<fs, past, args>>,
         NEW stack, Len(stack) = Len(frames), NEW path, NEW arg \in Nat, arg <= Len(args) + 1,
         processDirectory(stack, path, arg)
  PROVE  Limits'
<1>1. /\ owned \in Owned /\ owned.streams \in Int /\ owned.strings \in Int
      /\ at \in [main : Places, arg : Nat \ {0}] /\ Len(frames) \in Nat
  BY OwnedTypes DEF IInv, TypeInv
<1>2. CASE Passed(stack, arg)
  BY <1>1, <1>2 DEF Passed, Limits
<1>3. CASE Entered(stack, path, arg)
  <2>1. owned.streams < OpenMax /\ OpenMax \in Nat
    BY <1>3, FileCrawlerAssumption DEF Entered, Opens
  <2>2. owned'.streams = owned.streams + 1 /\ at'.arg = arg /\ failures' = failures
    BY <1>1, <1>3 DEF Entered, Owned
  <2>3. owned'.streams <= OpenMax
    BY <1>1, <2>1, <2>2
  <2>4. QED
    BY <2>2, <2>3 DEF Limits
<1>4. CASE GiveUp(stack)
  <2>1. /\ owned' = [owned EXCEPT !.streams = (@ + 1) - (Len(stack) + 1)]
        /\ at' = [at EXCEPT !.main = "done"] /\ failures < MaxFailures /\ failures' = failures + 1
    BY <1>4 DEF GiveUp, Fail, Goto
  <2>2. (owned.streams + 1) - (Len(stack) + 1) <= owned.streams
    BY <1>1
  <2>3. owned'.streams = (owned.streams + 1) - (Len(stack) + 1) /\ at'.arg = at.arg
    BY <1>1, <2>1 DEF Owned
  <2>4. owned'.streams <= OpenMax
    BY <1>1, <2>2, <2>3, FileCrawlerAssumption DEF Limits
  <2>5. failures' \in 0..MaxFailures
    BY <2>1, FileCrawlerAssumption DEF Limits
  <2>6. QED
    BY <2>3, <2>4, <2>5 DEF Limits
<1>5. QED
  BY <1>2, <1>3, <1>4, ProcessDirectoryWays

(* Every step keeps within the bounds.                                     *)
LEMMA FailLimits == Limits /\ Fail => failures' \in 0..MaxFailures
BY FileCrawlerAssumption DEF Limits, Fail

LEMMA LimitsKept ==
  ASSUME IInv, Limits, Next
  PROVE  Limits'
<1>1. /\ owned \in Owned /\ owned.streams \in Int /\ owned.strings \in Int
      /\ at \in [main : Places, arg : Nat \ {0}] /\ Len(frames) \in Nat /\ args \in Seq(Seq(Nat))
      /\ Len(args) \in Nat
  <2>1. args \in Seq(Seq(Nat))
    BY FileCrawlerAssumption DEF IInv, TypeInv
  <2>2. QED
    BY <2>1, OwnedTypes DEF IInv, TypeInv
<1>2. ASSUME NEW place, Goto(place) PROVE at'.arg = at.arg
  BY <1>1, <1>2 DEF Goto
<1>3. CASE CreateEngine
  <2>1. failures' \in 0..MaxFailures
    BY <1>3, FailLimits DEF CreateEngine, Limits
  <2>2. at'.arg = at.arg /\ UNCHANGED <<fs, past, args, owned>>
    BY <1>2, <1>3 DEF CreateEngine
  <2>3. QED
    BY <2>1, <2>2 DEF Limits
<1>4. CASE CompilePattern
  <2>1. at'.arg = at.arg /\ UNCHANGED <<fs, past, args, owned, failures>>
    BY <1>2, <1>4 DEF CompilePattern
  <2>2. QED
    BY <2>1 DEF Limits
<1>5. CASE CreateContainers
  <2>1. failures' \in 0..MaxFailures
    BY <1>5, FailLimits DEF CreateContainers, Limits
  <2>2. at'.arg = at.arg /\ UNCHANGED <<fs, past, args>>
    BY <1>2, <1>5 DEF CreateContainers
  <2>3. owned'.streams = owned.streams
    BY <1>1, <1>5 DEF CreateContainers, Owned
  <2>4. QED
    BY <2>1, <2>2, <2>3 DEF Limits
<1>6. CASE WalkArgument
  <2>1. /\ UNCHANGED <<fs, past, args>> /\ frames = << >> /\ at.arg <= Len(args)
        /\ processDirectory(<< >>, args[at.arg], at.arg + 1)
    BY <1>6 DEF WalkArgument, afterWalk
  <2>2. at.arg + 1 \in Nat /\ at.arg + 1 <= Len(args) + 1 /\ Len(<< >>) = Len(frames)
    BY <1>1, <2>1
  <2>3. QED
    BY <2>1, <2>2, WalkLimits
<1>7. CASE WalkEntry
  <2> DEFINE n == Len(frames)
             stack(e) == [frames EXCEPT ![n].rest = @ \ {e}]
  <2>1. UNCHANGED <<fs, past, args>> /\ frames \in Seq(Frame)
    BY <1>7 DEF WalkEntry, afterWalk, IInv, TypeInv
  <2>2. PICK e \in frames[n].rest :
          IF IsDirectory(e)
          THEN processDirectory(stack(e), Append(frames[n].dir, e.name), at.arg)
          ELSE frames' = stack(e) /\ UNCHANGED <<at, list, llReply, owned, failures>>
    BY <1>7 DEF WalkEntry
  <2>3. Len(stack(e)) = Len(frames)
    BY <2>1
  <2>4. CASE ~IsDirectory(e)
    BY <2>1, <2>2, <2>4 DEF Limits
  <2>5. CASE IsDirectory(e)
    <3>1. processDirectory(stack(e), Append(frames[n].dir, e.name), at.arg)
      BY <2>2, <2>5
    <3>2. at.arg \in Nat /\ at.arg <= Len(args) + 1
      BY <1>1 DEF Limits
    <3> HIDE DEF stack
    <3>3. QED
      BY <2>1, <2>3, <3>1, <3>2, WalkLimits
  <2>6. QED
    BY <2>4, <2>5
<1>8. CASE WalkReturn
  <2>1. owned'.streams = owned.streams - 1 /\ UNCHANGED <<fs, past, args, at, failures>>
    BY <1>1, <1>8 DEF WalkReturn, afterWalk, Owned
  <2>2. owned'.streams <= OpenMax
    BY <1>1, <2>1, FileCrawlerAssumption DEF Limits
  <2>3. QED
    BY <2>1, <2>2 DEF Limits
<1>9. CASE WalkEnds
  <2>1. at'.arg = at.arg /\ UNCHANGED <<fs, past, args, owned, failures>>
    BY <1>2, <1>9 DEF WalkEnds, afterWalk
  <2>2. QED
    BY <2>1 DEF Limits
<1>10. CASE NextDirectory
  <2>1. UNCHANGED <<fs, past, args, failures>>
    BY <1>10 DEF NextDirectory
  <2>2. \/ Goto("sort") /\ UNCHANGED <<scan, owned>>
        \/ Goto("sort") /\ owned' = [owned EXCEPT !.strings = @ - 1]
        \/ UNCHANGED at /\ owned.streams < OpenMax /\ owned' = [owned EXCEPT !.streams = @ + 1]
    BY <1>10 DEF NextDirectory, Opens
  <2>3. at'.arg = at.arg
    BY <1>2, <2>2
  <2>4. owned'.streams = owned.streams \/ (owned.streams < OpenMax /\ owned'.streams = owned.streams + 1)
    BY <1>1, <2>2 DEF Owned
  <2>5. owned'.streams <= OpenMax
    BY <1>1, <2>4, FileCrawlerAssumption DEF Limits
  <2>6. QED
    BY <2>1, <2>3, <2>5 DEF Limits
<1>11. ASSUME NEW stat, EndScan(stat) PROVE at'.arg = at.arg /\ owned'.streams <= OpenMax
  <2>1. at'.arg = at.arg
    BY <1>2, <1>11 DEF EndScan
  <2>2. owned'.streams = owned.streams - 1
    BY <1>1, <1>11 DEF EndScan, Owned
  <2>3. QED
    BY <1>1, <2>1, <2>2, FileCrawlerAssumption DEF Limits
<1>12. CASE ScanEntry
  <2>1. UNCHANGED <<fs, past, args>>
    BY <1>12 DEF ScanEntry
  <2>2. \/ UNCHANGED <<at, owned, failures>>
        \/ Fail /\ EndScan(0)
        \/ UNCHANGED failures /\ EndScan(0)
        \/ (Fail \/ UNCHANGED failures) /\ at'.arg = at.arg /\ owned'.streams = owned.streams
    <3>1. ASSUME NEW path, NEW rest, AddPath(path, rest)
          PROVE  \/ Fail /\ EndScan(0)
                 \/ UNCHANGED failures /\ EndScan(0)
                 \/ (Fail \/ UNCHANGED failures) /\ at'.arg = at.arg /\ owned'.streams = owned.streams
      <4>1. ASSUME Added(rest) PROVE UNCHANGED at /\ owned'.streams = owned.streams
        BY <1>1, <4>1 DEF Added, Owned
      <4>2. ASSUME FollowNull(path)
            PROVE  (Fail \/ UNCHANGED failures) /\ at'.arg = at.arg /\ UNCHANGED owned
        BY <1>2, <4>2 DEF FollowNull
      <4>3. QED
        BY <3>1, <4>1, <4>2 DEF AddPath, LoseElement
    <3>2. QED
      BY <1>12, <3>1 DEF ScanEntry
  <2>3. failures' \in 0..MaxFailures
    BY <2>2, FailLimits DEF Limits
  <2>4. at'.arg = at.arg
    BY <1>11, <2>2
  <2>5. owned'.streams <= OpenMax
    BY <1>11, <2>2 DEF Limits
  <2>6. QED
    BY <2>1, <2>3, <2>4, <2>5 DEF Limits
<1>13. CASE ScanEnds
  <2>1. EndScan(1) /\ UNCHANGED <<fs, past, args, failures>>
    BY <1>13 DEF ScanEnds
  <2>2. QED
    BY <1>11, <2>1 DEF Limits
<1>14. CASE CreateIterator
  <2>1. failures' \in 0..MaxFailures
    BY <1>14, FailLimits DEF CreateIterator, Limits
  <2>2. at'.arg = at.arg /\ UNCHANGED <<fs, past, args>>
    BY <1>2, <1>14 DEF CreateIterator
  <2>3. owned'.streams = owned.streams
    BY <1>1, <1>14 DEF CreateIterator, Owned
  <2>4. QED
    BY <2>1, <2>2, <2>3 DEF Limits
<1>15. CASE PrintLine
  <2>1. at'.arg = at.arg /\ UNCHANGED <<fs, past, args, owned, failures>>
    BY <1>2, <1>15 DEF PrintLine
  <2>2. QED
    BY <2>1 DEF Limits
<1>16. CASE PrintEnds
  <2>1. at'.arg = at.arg /\ owned'.streams = owned.streams /\ UNCHANGED <<fs, past, args, failures>>
    BY <1>1, <1>2, <1>16 DEF PrintEnds, Owned
  <2>2. QED
    BY <2>1 DEF Limits
<1>17. CASE Cleanup
  <2>1. at'.arg = at.arg /\ owned'.streams = owned.streams /\ UNCHANGED <<fs, past, args, failures>>
    BY <1>1, <1>2, <1>17 DEF Cleanup, Owned
  <2>2. QED
    BY <2>1 DEF Limits
<1>18. CASE Change
  <2>1. /\ fs' \in Trees /\ past' = past \cup {fs'} /\ UNCHANGED <<args, at, owned, failures>>
    BY <1>18 DEF Change
  <2>2. IsFiniteSet(past')
    BY <2>1, FS_AddElement DEF Limits
  <2>3. QED
    BY <2>1, <2>2 DEF Limits
<1>19. CASE Terminated
  BY <1>19 DEF Terminated, vars, Limits
<1>20. QED
  BY <1>3, <1>4, <1>5, <1>6, <1>7, <1>8, <1>9, <1>10, <1>12, <1>13, <1>14, <1>15, <1>16, <1>17,
     <1>18, <1>19 DEF Next, Step

LEMMA LimitsInit == Init => Limits
<1>1. SUFFICES ASSUME Init PROVE Limits
  OBVIOUS
<1>2. args \in Seq(Seq(Nat)) /\ at.arg = 1 /\ failures = 0 /\ owned.streams = 0 /\ past = {fs} /\ fs \in Trees
  BY <1>1, FileCrawlerAssumption DEF Init, NothingOwned
<1>3. IsFiniteSet(past) /\ Len(args) \in Nat
  <2>1. IsFiniteSet({fs})
    BY FS_Singleton
  <2>2. QED
    BY <1>2, <2>1
<1>4. QED
  BY <1>2, <1>3, FileCrawlerAssumption DEF Limits

LEMMA LimitsStep == IInv /\ Limits /\ [Next]_vars => Limits'
<1>1. ASSUME Limits, UNCHANGED vars PROVE Limits'
  BY <1>1 DEF Limits, vars
<1>2. QED
  BY <1>1, LimitsKept

(* The variables keep the values they may take: no more streams are open   *)
(* than a process may have, and main never leaves the arguments.           *)
THEOREM CrawlerTypeCorrect == Spec => []TypeOK
<1>1. IInv /\ Limits /\ [Next]_vars => (IInv /\ Limits)'
  BY Inductive, LimitsStep
<1>2. QED
  BY <1>1, InitInv, LimitsInit, TypesImplied, PTL DEF Spec
================================================================================
