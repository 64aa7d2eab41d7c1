------------------------------- MODULE MListHash -------------------------------
(***************************************************************************)
(* project0/mlist.c, the hash-table mlist, driven by the main loop of      *)
(* finddupl.c.  A bucket is a chain of cells whose last one, the only one  *)
(* with a NULL next_node, marks the end: nothing ever reads its entry, so  *)
(* a chain of n + 1 cells is the sequence of its first n entries.          *)
(***************************************************************************)
EXTENDS MEntry, FiniteSets

CONSTANTS Address,   \* the addresses a mailing list may contain
          InitSize,  \* BUCKETS, the buckets of the first table (20)
          MaxLines   \* bound: addresses in the file

ASSUME MListAssumption == InitSize \in Nat \ {0} /\ MaxLines \in Nat

\* A house number is an int, and characters are numbers.
ASSUME AddressAssumption ==
  \A r \in Address : r.house \in Int /\ \A w \in {r.surname, r.city, r.zip} : Code[w] \in Int

VARIABLES hash,      \* m->hash: the chain of each bucket
          size,      \* the global size, which ml_destroy goes by
          report,    \* what the loop did with the last address
          lines,     \* addresses read so far
          added      \* history: the entries ml_add stored since the start

vars == <<hash, size, report, lines, added>>

(* m->size, the number of buckets of a table. *)
SizeOf(h) == Cardinality(DOMAIN h)

ml_create(n) == [b \in 0..(n - 1) |-> << >>]

Init ==
  /\ size = InitSize /\ hash = ml_create(InitSize)
  /\ report = "none" /\ lines = 0 /\ added = {}

ml_lookup(h, me) ==
  LET chain == h[me_hash(me, SizeOf(h))]
  IN  \E i \in DOMAIN chain : me_compare(chain[i], me) = 0

(* resize's inner loop: the cells of an old chain are linked one by one to *)
(* the ends of their new buckets.                                          *)
MoveChain(table, chain, modulus) ==
  LET moved[i \in 0..Len(chain)] ==
        IF i = 0 THEN table
        ELSE [moved[i - 1] EXCEPT ![me_hash(chain[i], modulus)] = Append(@, chain[i])]
  IN  moved[Len(chain)]

(* Its outer loop, over the old buckets, into a table of twice the size.   *)
MoveChains(h, modulus) ==
  LET moved[b \in 0..SizeOf(h)] ==
        IF b = 0 THEN ml_create(2 * SizeOf(h)) ELSE MoveChain(moved[b - 1], h[b - 1], modulus)
  IN  moved[SizeOf(h)]

(* What resize makes of the entries that go to one bucket: they are linked *)
(* to one another in the place of the empty cell that ml_create put there, *)
(* and the last of them becomes the cell that marks the end.               *)
Chain(entries) == IF entries = << >> THEN << >> ELSE SubSeq(entries, 1, Len(entries) - 1)

\* Mutant: the entries keep the buckets the old size gave them.
ResizeOldHash(h) ==
  LET table == MoveChains(h, SizeOf(h)) IN [b \in DOMAIN table |-> Chain(table[b])]

\* Mutant: the walk of every old chain stops one entry early.
ResizeStopsEarly(h) ==
  LET table == MoveChains([b \in DOMAIN h |-> Chain(h[b])], 2 * SizeOf(h))
  IN  [b \in DOMAIN table |-> Chain(table[b])]

(* The table of twice the size into which resize moves the cells of h. *)
resize(h) ==
  LET table == MoveChains(h, 2 * SizeOf(h)) IN [b \in DOMAIN table |-> Chain(table[b])]

\* Mutant: the loop of ml_add stops one cell early.
StoreOverLast(h, me) ==
  [h EXCEPT ![me_hash(me, SizeOf(h))] = IF @ = << >> THEN <<me>> ELSE Append(Chain(@), me)]

(* me is stored in the end cell of its bucket and a new end is linked on.  *)
Store(h, me) == [h EXCEPT ![me_hash(me, SizeOf(h))] = Append(@, me)]

(* bucket_size counts the cells passed on the way to the end, those of the *)
(* entries that were there before. The table is thus resized when a bucket *)
(* comes to hold size + 2 entries, not when it reaches size (mlist.c:63)   *)
(* or exceeds 20 (mlist.c:178).                                            *)
Full(h, me) == Len(h[me_hash(me, SizeOf(h))]) > SizeOf(h)

\* Mutant: me is stored without looking for a match.
AddUnseen(me) ==
  /\ hash' = Store(hash, me) /\ size' = size
  /\ report' = "new" /\ added' = added \cup {me}

(* ml_add of an entry that is not found; when the bucket was already full  *)
(* the whole table is replaced. malloc may fail.                           *)
Add(me) ==
  /\ ~ml_lookup(hash, me)
  /\ \/ /\ IF Full(hash, me)
           THEN hash' = resize(Store(hash, me)) /\ size' = 2 * SizeOf(hash)
           ELSE hash' = Store(hash, me) /\ UNCHANGED size
        /\ report' = "new" /\ added' = added \cup {me}
     \/ report' = "failed" /\ UNCHANGED <<hash, size, added>>

(* A match was found: both are printed and the new entry is destroyed. *)
Report(me) ==
  /\ ml_lookup(hash, me)
  /\ report' = "duplicate" /\ UNCHANGED <<hash, size, added>>

(* One round of finddupl's loop. *)
Process(r) ==
  /\ report # "end" /\ lines < MaxLines /\ lines' = lines + 1
  /\ Add(me_get(r)) \/ Report(me_get(r))

(* The end of the file: ml_destroy frees the chains 0..size-1, and the     *)
(* program ends.                                                           *)
Finish ==
  /\ report # "end" /\ report' = "end"
  /\ hash' = [b \in DOMAIN hash \ (0..(size - 1)) |-> hash[b]]
  /\ UNCHANGED <<size, lines, added>>

Next == (\E r \in Address : Process(r)) \/ Finish

Spec == Init /\ [][Next]_vars
-----------------------------------------------------------------------------
(* The entries a lookup can find. *)
Visible == UNION {{hash[b][i] : i \in DOMAIN hash[b]} : b \in DOMAIN hash}

(* The values the variables may take. *)
TypeOK ==
  /\ \A b \in DOMAIN hash : b \in Nat /\ hash[b] \in Seq(MEntries(Address))
  /\ size \in Nat \ {0}
  /\ report \in {"none", "new", "failed", "duplicate", "end"}
  /\ lines \in 0..MaxLines
  /\ added \subseteq MEntries(Address)

(* The global size is that of the one table there is, and an entry that is *)
(* not at the end of a chain is where ml_lookup looks for it, also after   *)
(* the table was resized: ml_destroy, which goes by the global             *)
(* (mlist.c:223), frees every chain and nothing else.                      *)
BucketsConsistent ==
  IF report = "end" THEN DOMAIN hash = {}
  ELSE /\ DOMAIN hash = 0..(size - 1)
       /\ \A b \in DOMAIN hash : \A i \in DOMAIN hash[b] :
            me_hash(hash[b][i], SizeOf(hash)) = b

(* No entry is in the table twice, although a resize hides entries from    *)
(* ml_lookup and lets ml_add store them again (mlist.c:148).               *)
StoredOnce ==
  \A b, c \in DOMAIN hash : \A i \in DOMAIN hash[b], j \in DOMAIN hash[c] :
    hash[b][i] = hash[c][j] => b = c /\ i = j

(* The table holds nothing that was not added and, until the first resize, *)
(* all that was; what the resizes hide or drop (mlist.c:92) is bounded:    *)
(* one entry of each bucket of each table that a resize created.           *)
LossBounded ==
  report # "end" => /\ Visible \subseteq added
                    /\ Cardinality(added \ Visible) <= 2 * (size - InitSize)

(* mlist.h:16, ml_lookup returns the matching entry of the list: whatever  *)
(* was added successfully is found again.                                  *)
LookupFindsAdded ==
  report # "end" => \A me \in added : ml_lookup(hash, me)
=============================================================================
