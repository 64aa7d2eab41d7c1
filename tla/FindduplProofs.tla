---------------------------- MODULE FindduplProofs ----------------------------
(***************************************************************************)
(* The table of mlist.c keeps its invariants through any resizes; and the  *)
(* linked list of mlistLL.c is the mailing list that finddupl promises,    *)
(* for all addresses and files of any length.                              *)
(***************************************************************************)
EXTENDS Finddupl, DataInduction

LEMMA ModRange ==
  ASSUME NEW a \in Int, NEW n \in Nat \ {0}
  PROVE  a % n \in 0..(n - 1)
OBVIOUS

(* A quotient with a remainder is the quotient, with the remainder.         *)
LEMMA ModUnique ==
  ASSUME NEW a \in Int, NEW n \in Nat \ {0}, NEW q \in Int, NEW t \in 0..(n - 1), a = n * q + t
  PROVE  a % n = t
<1> DEFINE d == a \div n
<1>1. d \in Int /\ a % n \in 0..(n - 1) /\ a = (n * d) + (a % n)
  OBVIOUS
<1> HIDE DEF d
<1>2. n * (q - d) = (a % n) - t
  BY <1>1
<1>3. q - d = 0
  <2>1. q - d \in Int
    BY <1>1
  <2>2. \A z \in Int : z >= 1 => n * z >= n
    OBVIOUS
  <2>3. \A z \in Int : z <= -1 => n * z <= -n
    OBVIOUS
  <2>4. QED
    BY <1>1, <1>2, <2>1, <2>2, <2>3
<1>4. QED
  BY <1>1, <1>2, <1>3

(* A remainder modulo 2n determines the one modulo n.                      *)
LEMMA ModDouble ==
  ASSUME NEW a \in Int, NEW n \in Nat \ {0}
  PROVE  (a % (2 * n)) % n = a % n
<1> DEFINE q == a \div (2 * n)
           r == a % (2 * n)
<1>1. 2 * n \in Nat \ {0}
  OBVIOUS
<1>2. q \in Int /\ r \in 0..(2 * n - 1) /\ a = (2 * n) * q + r
  <2> HIDE DEF q, r
  <2>1. \A m \in Nat \ {0} : a \div m \in Int /\ a % m \in 0..(m - 1) /\ a = (m * (a \div m)) + (a % m)
    OBVIOUS
  <2>2. QED
    BY <1>1, <2>1 DEF q, r
<1> HIDE DEF q, r
<1>3. CASE r < n
  <2>1. a = n * (2 * q) + r
    BY <1>2
  <2>2. a % n = r /\ r % n = r
    BY <1>2, <1>3, <2>1, ModUnique
  <2>3. QED
    BY <2>2 DEF r
<1>4. CASE r >= n
  <2>1. a = n * (2 * q + 1) + (r - n) /\ r = n * 1 + (r - n)
    BY <1>2
  <2>2. a % n = r - n /\ r % n = r - n
    BY <1>2, <1>4, <2>1, ModUnique
  <2>3. QED
    BY <2>2 DEF r
<1>5. QED
  BY <1>2, <1>3, <1>4

(* help_hash computes an unsigned number.                                  *)
LEMMA HelpHashType ==
  ASSUME NEW str, Len(str) \in Nat, \A i \in 1..Len(str) : Code[str[i]] \in Int
  PROVE  help_hash(str) \in Nat
<1> DEFINE N == Len(str)
           X == [k \in 0..N |-> Nat]
           step == [p \in Nat \X (1..N) |-> (Code[str[p[2]]] + 31 * p[1]) % Word]
           IsHash(g) ==
             g = [i \in 0..N |-> IF i = 0 THEN 0 ELSE (Code[str[i]] + 31 * g[i - 1]) % Word]
           hash0 == CHOOSE g : IsHash(g)
<1>1. ASSUME NEW k \in 1..N, NEW x \in Nat PROVE (Code[str[k]] + 31 * x) % Word \in Nat
  <2> DEFINE sum == Code[str[k]] + 31 * x
  <2>1. sum \in Int
    BY <1>1
  <2> HIDE DEF sum
  <2>2. sum % Word \in Nat
    BY <2>1, ModRange, MEntryAssumption
  <2>3. QED
    BY <2>2 DEF sum
<1>2. \E g : IsHash(g)
  <2>1. Leads(X, N, step)
    BY <1>1 DEF Leads
  <2>2. 0 \in X[0]
    OBVIOUS
  <2>3. PICK g : Repeats(g, N, 0, step) /\ \A k \in 0..N : g[k] \in X[k]
    <3> HIDE DEF X, step
    <3>1. QED
      BY <2>1, <2>2, InvariantRecursion
  <2>4. IsHash(g)
    <3>1. \A k \in 1..N : step[<<g[k - 1], k>>] = (Code[str[k]] + 31 * g[k - 1]) % Word
      BY <2>3
    <3> HIDE DEF step
    <3>2. g = [k \in 0..N |-> IF k = 0 THEN 0 ELSE step[<<g[k - 1], k>>]]
      BY <2>3 DEF Repeats
    <3>3. \A k \in 0..N : (IF k = 0 THEN 0 ELSE step[<<g[k - 1], k>>])
                           = (IF k = 0 THEN 0 ELSE (Code[str[k]] + 31 * g[k - 1]) % Word)
      <4>1. \A k \in 0..N : k = 0 \/ k \in 1..N
        OBVIOUS
      <4>2. QED
        BY <3>1, <4>1
    <3>4. QED
      BY <3>2, <3>3
  <2>5. QED
    <3> HIDE DEF IsHash
    <3>1. QED
      BY <2>4
<1>3. IsHash(hash0)
  <2> HIDE DEF IsHash
  <2>1. QED
    BY <1>2
<1>4. help_hash(str) = hash0[N]
  BY DEF help_hash
<1> HIDE DEF hash0
<1>5. \A k \in 0..N : hash0[k] = IF k = 0 THEN 0 ELSE (Code[str[k]] + 31 * hash0[k - 1]) % Word
  BY <1>3
<1>6. \A k \in 0..N : hash0[k] \in X[k]
  <2>1. hash0[0] \in X[0]
    BY <1>5
  <2>2. ASSUME NEW k \in 1..N, hash0[k - 1] \in X[k - 1] PROVE hash0[k] \in X[k]
    <3>1. hash0[k] = (Code[str[k]] + 31 * hash0[k - 1]) % Word
      BY <1>5
    <3>2. QED
      BY <1>1, <2>2, <3>1
  <2> HIDE DEF X
  <2>3. QED
    BY <2>1, <2>2, InvariantValues
<1>7. QED
  BY <1>4, <1>6

-----------------------------------------------------------------------------
(* The entries that addresses give.                                        *)
Entry == MEntries(Address)

Occurs(chain, e) == \E i \in 1..Len(chain) : chain[i] = e

(* The entry e is in the bucket where a table of n buckets has it.         *)
Holds(h, n, e) == Occurs(h[me_hash(e, n)], e)

(* A table of n chains has every entry in its bucket, and nowhere twice.   *)
Sound(h, n) ==
  /\ h \in [0..(n - 1) -> Seq(Entry)]
  /\ \A b \in 0..(n - 1) : \A i \in 1..Len(h[b]) : me_hash(h[b][i], n) = b
  /\ \A b \in 0..(n - 1) : \A i, j \in 1..Len(h[b]) : h[b][i] = h[b][j] => i = j

(* A cell for e is linked to the end of its chain.                         *)
Link(h, e, n) == [h EXCEPT ![me_hash(e, n)] = Append(@, e)]

LEMMA SizeOfTable ==
  ASSUME NEW n \in Nat \ {0}, NEW h, DOMAIN h = 0..(n - 1)
  PROVE  SizeOf(h) = n
BY FS_Interval DEF SizeOf

(* me_compare answers 0 for equal entries, and for no others.              *)
LEMMA CompareEquality ==
  ASSUME NEW me1 \in Entry, NEW me2 \in Entry
  PROVE  me_compare(me1, me2) = 0 <=> me1 = me2
BY DEF Entry, MEntries, me_compare

(* The buckets of an entry in a table of n buckets and in one of 2n.       *)
LEMMA BucketRange ==
  ASSUME NEW me \in Entry, NEW n \in Nat \ {0}
  PROVE  /\ me_hash(me, n) \in 0..(n - 1) /\ me_hash(me, 2 * n) \in 0..(2 * n - 1)
         /\ me_hash(me, 2 * n) % n = me_hash(me, n)
<1> DEFINE sum == help_hash(me.surname) + help_hash(me.zipcode) + me.house_number
           code == sum % Word
<1>1. help_hash(me.surname) \in Nat /\ help_hash(me.zipcode) \in Nat /\ me.house_number \in Int
  <2>1. PICK r1 \in Address, r2 \in Address, r3 \in Address :
          me.surname = <<r1.surname>> /\ me.house_number = r2.house /\ me.zipcode = <<r3.city, r3.zip>>
    BY DEF Entry, MEntries
  <2>2. Code[r1.surname] \in Int /\ Code[r3.city] \in Int /\ Code[r3.zip] \in Int /\ r2.house \in Int
    BY AddressAssumption
  <2>3. Len(<<r1.surname>>) = 1 /\ Len(<<r3.city, r3.zip>>) = 2
    OBVIOUS
  <2>4. help_hash(<<r1.surname>>) \in Nat
    <3>1. \A i \in 1..1 : Code[<<r1.surname>>[i]] \in Int
      BY <2>2
    <3>2. QED
      BY <2>3, <3>1, HelpHashType
  <2>5. help_hash(<<r3.city, r3.zip>>) \in Nat
    <3>1. \A i \in 1..2 : i = 1 \/ i = 2
      OBVIOUS
    <3>2. \A i \in 1..2 : Code[<<r3.city, r3.zip>>[i]] \in Int
      BY <2>2, <3>1
    <3>3. QED
      BY <2>3, <3>2, HelpHashType
  <2>6. QED
    BY <2>1, <2>2, <2>4, <2>5
<1>2. sum \in Int
  BY <1>1
<1> HIDE DEF sum
<1>3. code \in Nat
  BY <1>2, ModRange, MEntryAssumption
<1>4. \A m \in Nat : me_hash(me, m) = code % m
  BY DEF me_hash, sum
<1> HIDE DEF code
<1>5. 2 * n \in Nat \ {0}
  OBVIOUS
<1>6. code % n \in 0..(n - 1) /\ code % (2 * n) \in 0..(2 * n - 1)
  BY <1>3, <1>5, ModRange
<1>7. (code % (2 * n)) % n = code % n
  <2>1. code \in Int
    BY <1>3
  <2>2. QED
    BY <2>1, ModDouble, Zenon
<1>8. QED
  BY <1>4, <1>5, <1>6, <1>7

(* Linking an entry to the end of its chain, as ml_add and resize do.      *)
LEMMA AppendCell ==
  ASSUME NEW n \in Nat \ {0}, NEW h, Sound(h, n), NEW e \in Entry, ~Holds(h, n, e),
         NEW g, g = Link(h, e, n)
  PROVE  /\ Sound(g, n)
         /\ \A x \in Entry : Holds(g, n, x) <=> Holds(h, n, x) \/ x = e
         /\ \A b \in 0..(n - 1) :
              Len(g[b]) = IF b = me_hash(e, n) THEN Len(h[b]) + 1 ELSE Len(h[b])
<1> DEFINE a == me_hash(e, n)
<1>1. a \in 0..(n - 1)
  BY BucketRange
<1>2. h[a] \in Seq(Entry) /\ DOMAIN h = 0..(n - 1) /\ Len(h[a]) \in Nat
  BY <1>1 DEF Sound
<1>3. /\ g \in [0..(n - 1) -> Seq(Entry)]
      /\ \A b \in 0..(n - 1) : b # a => g[b] = h[b]
      /\ g[a] = Append(h[a], e)
  BY <1>1, <1>2 DEF Sound, Link
<1>4. /\ Len(g[a]) = Len(h[a]) + 1 /\ g[a][Len(h[a]) + 1] = e
      /\ \A i \in 1..Len(h[a]) : g[a][i] = h[a][i]
  BY <1>2, <1>3
<1>5. \A i \in 1..Len(h[a]) : h[a][i] # e
  BY DEF Holds, Occurs
<1> HIDE DEF a
<1>6. ASSUME NEW b \in 0..(n - 1), NEW i \in 1..Len(g[b]) PROVE me_hash(g[b][i], n) = b
  <2>1. CASE b = a
    <3>1. i \in 1..Len(h[a]) \/ i = Len(h[a]) + 1
      BY <1>2, <1>4, <2>1
    <3>2. QED
      BY <1>1, <1>4, <2>1, <3>1 DEF Sound, a
  <2>2. QED
    BY <1>3, <2>1 DEF Sound
<1>7. ASSUME NEW b \in 0..(n - 1), NEW i \in 1..Len(g[b]), NEW j \in 1..Len(g[b]), g[b][i] = g[b][j]
      PROVE  i = j
  <2>1. CASE b = a
    <3>1. (i \in 1..Len(h[a]) \/ i = Len(h[a]) + 1) /\ (j \in 1..Len(h[a]) \/ j = Len(h[a]) + 1)
      BY <1>2, <1>4, <2>1
    <3>2. \A p, q \in 1..Len(h[a]) : h[a][p] = h[a][q] => p = q
      BY <1>1 DEF Sound
    <3>3. QED
      BY <1>4, <1>5, <1>7, <2>1, <3>1, <3>2
  <2>2. QED
    BY <1>3, <1>7, <2>1 DEF Sound
<1>8. ASSUME NEW x \in Entry PROVE Holds(g, n, x) <=> Holds(h, n, x) \/ x = e
  <2>1. me_hash(x, n) \in 0..(n - 1)
    BY BucketRange
  <2>2. CASE me_hash(x, n) = a
    <3>1. Len(h[a]) + 1 \in 1..Len(g[a]) /\ \A i \in 1..Len(g[a]) : i \in 1..Len(h[a]) \/ i = Len(h[a]) + 1
      BY <1>2, <1>4
    <3>2. \A i \in 1..Len(h[a]) : i \in 1..Len(g[a])
      BY <1>2, <1>4
    <3>3. QED
      BY <1>4, <2>2, <3>1, <3>2 DEF Holds, Occurs
  <2>3. CASE me_hash(x, n) # a
    BY <1>3, <2>1, <2>3 DEF Holds, a
  <2>4. QED
    BY <2>2, <2>3
<1>9. QED
  BY <1>3, <1>4, <1>6, <1>7, <1>8 DEF Sound, a

(* The entries of a chain are different ones that the table t has not got. *)
Apart(t, n, chain) ==
  /\ chain \in Seq(Entry)
  /\ \A i, j \in 1..Len(chain) : chain[i] = chain[j] => i = j
  /\ \A i \in 1..Len(chain) : ~Holds(t, n, chain[i])

(* The table u is t with the entries of the chain, each in its bucket.     *)
Joins(u, t, n, chain) ==
  /\ Sound(u, n)
  /\ \A x \in Entry : Holds(u, n, x) <=> Holds(t, n, x) \/ Occurs(chain, x)
  /\ \A b \in 0..(n - 1) : Len(u[b]) <= Len(t[b]) + Len(chain)
  /\ \A b \in 0..(n - 1) :
       (\A i \in 1..Len(chain) : me_hash(chain[i], n) # b) => Len(u[b]) = Len(t[b])

(* resize's inner loop moves the entries of a chain that the table does    *)
(* not hold, and no bucket grows by more than them.                        *)
LEMMA MoveChainIs ==
  ASSUME NEW n \in Nat \ {0}, NEW t, Sound(t, n), NEW chain, Apart(t, n, chain)
  PROVE  Joins(MoveChain(t, chain, n), t, n, chain)
<1> USE DEF Apart
<1> DEFINE N == Len(chain)
           Table == [0..(n - 1) -> Seq(Entry)]
           Moved(k, v) ==
             /\ Sound(v, n)
             /\ \A x \in Entry : Holds(v, n, x) <=> Holds(t, n, x) \/ \E i \in 1..k : chain[i] = x
             /\ \A b \in 0..(n - 1) : Len(v[b]) <= Len(t[b]) + k
             /\ \A b \in 0..(n - 1) :
                  (\A i \in 1..Len(chain) : me_hash(chain[i], n) # b) => Len(v[b]) = Len(t[b])
           X == [k \in 0..N |-> {v \in Table : Moved(k, v)}]
           step == [p \in Table \X (1..N) |-> Link(p[1], chain[p[2]], n)]
           Moves(f) ==
             f = [i \in 0..N |-> IF i = 0 THEN t ELSE Link(f[i - 1], chain[i], n)]
           moved == CHOOSE f : Moves(f)
<1>1. ASSUME NEW k \in 1..N, NEW v \in Table, Moved(k - 1, v)
      PROVE  Link(v, chain[k], n) \in Table /\ Moved(k, Link(v, chain[k], n))
  <2> DEFINE g == Link(v, chain[k], n)
  <2>1. chain[k] \in Entry /\ k - 1 \in Nat /\ N \in Nat
    OBVIOUS
  <2>2. ~Holds(v, n, chain[k])
    <3>1. ~Holds(t, n, chain[k])
      OBVIOUS
    <3>2. \A i \in 1..(k - 1) : i \in 1..N /\ i # k
      OBVIOUS
    <3>3. QED
      BY <1>1, <2>1, <3>1, <3>2
  <2>3. /\ Sound(g, n)
        /\ \A x \in Entry : Holds(g, n, x) <=> Holds(v, n, x) \/ x = chain[k]
        /\ \A b \in 0..(n - 1) :
             Len(g[b]) = IF b = me_hash(chain[k], n) THEN Len(v[b]) + 1 ELSE Len(v[b])
    BY <1>1, <2>1, <2>2, AppendCell
  <2>4. \A b \in 0..(n - 1) : Len(v[b]) \in Nat /\ Len(t[b]) \in Nat
    BY <1>1 DEF Sound
  <2> HIDE DEF g
  <2>5. \A x \in Entry : Holds(g, n, x) <=> Holds(t, n, x) \/ \E i \in 1..k : chain[i] = x
    <3>1. \A i : i \in 1..k <=> i \in 1..(k - 1) \/ i = k
      OBVIOUS
    <3>2. \A x \in Entry : Holds(v, n, x) <=> Holds(t, n, x) \/ \E i \in 1..(k - 1) : chain[i] = x
      BY <1>1
    <3>3. QED
      BY <2>3, <3>1, <3>2, Zenon
  <2>6. /\ \A b \in 0..(n - 1) : Len(g[b]) <= Len(t[b]) + k
        /\ \A b \in 0..(n - 1) :
             (\A i \in 1..Len(chain) : me_hash(chain[i], n) # b) => Len(g[b]) = Len(t[b])
    <3>1. k - 1 + 1 = k /\ k \in Nat
      OBVIOUS
    <3>2. \A b \in 0..(n - 1) : Len(v[b]) <= Len(t[b]) + (k - 1)
      BY <1>1
    <3>3. \A b \in 0..(n - 1) :
            (\A i \in 1..Len(chain) : me_hash(chain[i], n) # b) =>
              Len(v[b]) = Len(t[b]) /\ Len(g[b]) = Len(v[b])
      BY <1>1, <2>3
    <3>4. \A b \in 0..(n - 1) : Len(g[b]) <= Len(v[b]) + 1
      <4>1. \A b \in 0..(n - 1) : Len(g[b]) = Len(v[b]) + 1 \/ Len(g[b]) = Len(v[b])
        BY <2>3
      <4>2. QED
        BY <2>4, <4>1
    <3>5. \A b \in 0..(n - 1) : Len(g[b]) <= Len(t[b]) + k
      <4> HIDE DEF Moved
      <4>1. \A b \in 0..(n - 1) : Len(g[b]) \in Nat
        BY <2>3, <2>4
      <4>2. \A b \in 0..(n - 1) : Len(v[b]) \in Nat /\ Len(t[b]) \in Nat
        BY <2>4
      <4>3. ASSUME NEW b \in 0..(n - 1) PROVE Len(g[b]) <= Len(t[b]) + k
        <5>1. /\ Len(g[b]) \in Nat /\ Len(v[b]) \in Nat /\ Len(t[b]) \in Nat
              /\ Len(g[b]) <= Len(v[b]) + 1 /\ Len(v[b]) <= Len(t[b]) + (k - 1)
          BY <3>2, <3>4, <4>1, <4>2
        <5>2. \A x, y, z \in Nat : x <= y + 1 /\ y <= z + (k - 1) => x <= z + k
          BY <3>1
        <5>3. QED
          BY ONLY <5>1, <5>2
      <4>4. QED
        BY <4>3
    <3>6. QED
      BY <3>3, <3>5
  <2>7. g \in Table
    BY <2>3 DEF Sound
  <2>8. QED
    BY <2>3, <2>5, <2>6, <2>7 DEF g
<1>2. t \in X[0]
  <2>1. \A b \in 0..(n - 1) : Len(t[b]) \in Nat
    BY DEF Sound
  <2>2. Moved(0, t)
    BY <2>1
  <2>3. QED
    BY <2>2 DEF Sound
<1> HIDE DEF Moved
<1>3. \E f : Moves(f)
  <2>1. Leads(X, N, step)
    <3>1. ASSUME NEW k \in 1..N, NEW v \in X[k - 1] PROVE step[<<v, k>>] \in X[k]
      <4>1. k - 1 \in 0..N /\ k \in 0..N
        OBVIOUS
      <4>2. v \in Table /\ Moved(k - 1, v)
        BY <4>1
      <4>3. step[<<v, k>>] = Link(v, chain[k], n)
        BY <4>2
      <4>4. QED
        BY <1>1, <4>1, <4>2, <4>3
    <3>2. QED
      BY <3>1 DEF Leads
  <2>2. N \in Nat
    OBVIOUS
  <2>3. PICK f : Repeats(f, N, t, step) /\ \A k \in 0..N : f[k] \in X[k]
    <3> HIDE DEF X, step, N
    <3>1. QED
      BY <1>2, <2>1, <2>2, InvariantRecursion
  <2>4. \A k \in 1..N :
          step[<<f[k - 1], k>>] = Link(f[k - 1], chain[k], n)
    BY <2>3
  <2>5. Moves(f)
    <3> HIDE DEF step, N
    <3>1. f = [k \in 0..N |-> IF k = 0 THEN t ELSE step[<<f[k - 1], k>>]]
      BY <2>3 DEF Repeats
    <3>2. \A k \in 0..N : k = 0 \/ k \in 1..N
      BY <2>2
    <3>3. \A k \in 0..N : f[k] = IF k = 0 THEN t ELSE Link(f[k - 1], chain[k], n)
      BY <2>4, <3>1, <3>2
    <3>4. f = [k \in 0..N |-> f[k]]
      BY <3>1
    <3>5. QED
      BY <3>3, <3>4
  <2>6. QED
    <3> HIDE DEF Moves
    <3>1. QED
      BY <2>5
<1>4. Moves(moved)
  <2> HIDE DEF Moves
  <2>1. QED
    BY <1>3
<1>5. MoveChain(t, chain, n) = moved[N]
  BY DEF MoveChain, Link
<1> HIDE DEF moved
<1>6. /\ moved[0] = t
      /\ \A k \in 1..N : moved[k] = Link(moved[k - 1], chain[k], n)
  BY <1>4
<1>7. \A k \in 0..N : moved[k] \in X[k]
  <2>1. N \in Nat /\ moved[0] \in X[0]
    BY <1>2, <1>6
  <2>2. ASSUME NEW k \in 1..N, moved[k - 1] \in X[k - 1] PROVE moved[k] \in X[k]
    <3>1. k - 1 \in 0..N /\ k \in 0..N
      OBVIOUS
    <3>2. moved[k - 1] \in Table /\ Moved(k - 1, moved[k - 1])
      BY <2>2, <3>1
    <3>3. QED
      BY <1>1, <1>6, <3>1, <3>2
  <2> HIDE DEF X, N
  <2>3. QED
    BY <2>1, <2>2, InvariantValues
<1>8. N \in Nat /\ Moved(N, MoveChain(t, chain, n))
  BY <1>5, <1>7
<1>9. QED
  BY <1>8 DEF Moved, Occurs, Joins

(* resize's outer loop moves every entry of the old table, and those of an *)
(* old bucket b to the buckets b and b + s of the new table.               *)
LEMMA MoveChainsIs ==
  ASSUME NEW s \in Nat \ {0}, NEW h, Sound(h, s), NEW u, u = MoveChains(h, 2 * s)
  PROVE  /\ Sound(u, 2 * s)
         /\ \A x \in Entry : Holds(u, 2 * s, x) <=> Holds(h, s, x)
         /\ \A c \in 0..(2 * s - 1) : Len(u[c]) <= Len(h[c % s])
<1> DEFINE n == 2 * s
           Table == [0..(n - 1) -> Seq(Entry)]
           Moved(b, v) ==
             /\ Sound(v, n)
             /\ \A x \in Entry : Holds(v, n, x) <=> Holds(h, s, x) /\ me_hash(x, s) < b
             /\ \A c \in 0..(n - 1) :
                  IF c % s < b THEN Len(v[c]) <= Len(h[c % s]) ELSE Len(v[c]) = 0
           X == [b \in 0..s |-> {v \in Table : Moved(b, v)}]
           step == [p \in Table \X (1..s) |-> MoveChain(p[1], h[p[2] - 1], n)]
           Moves(f) ==
             f = [b \in 0..s |->
                    IF b = 0 THEN ml_create(n) ELSE MoveChain(f[b - 1], h[b - 1], n)]
           moved == CHOOSE f : Moves(f)
<1>1. n \in Nat \ {0} /\ SizeOf(h) = s
  BY SizeOfTable DEF Sound
<1>2. ASSUME NEW c \in 0..(n - 1) PROVE c % s \in 0..(s - 1)
  <2>1. c \in Int
    BY <1>1
  <2>2. QED
    BY <2>1, ModRange
<1>3. \A x \in Entry : /\ me_hash(x, s) \in 0..(s - 1) /\ me_hash(x, n) \in 0..(n - 1)
                       /\ me_hash(x, n) % s = me_hash(x, s)
  BY BucketRange
<1> HIDE DEF n
<1>4. ASSUME NEW b \in 1..s, NEW v \in Table, Moved(b - 1, v)
      PROVE  MoveChain(v, h[b - 1], n) \in Table /\ Moved(b, MoveChain(v, h[b - 1], n))
  <2> DEFINE chain == h[b - 1]
             g == MoveChain(v, chain, n)
  <2>1. b - 1 \in 0..(s - 1) /\ b \in Nat
    OBVIOUS
  <2>2. /\ chain \in Seq(Entry) /\ Len(chain) \in Nat
        /\ \A i, j \in 1..Len(chain) : chain[i] = chain[j] => i = j
        /\ \A i \in 1..Len(chain) : chain[i] \in Entry /\ me_hash(chain[i], s) = b - 1
    BY <2>1 DEF Sound
  <2>3. \A i \in 1..Len(chain) : ~Holds(v, n, chain[i])
    BY <1>4, <2>1, <2>2
  <2>4. Joins(g, v, n, chain)
    <3>1. Sound(v, n) /\ Apart(v, n, chain)
      BY <1>4, <2>2, <2>3 DEF Apart
    <3> HIDE DEF chain
    <3>2. QED
      BY <1>1, <3>1, MoveChainIs
  <2>5. ASSUME NEW x \in Entry
        PROVE  Holds(g, n, x) <=> Holds(h, s, x) /\ me_hash(x, s) < b
    <3>1. Occurs(chain, x) => me_hash(x, s) = b - 1
      BY <2>2 DEF Occurs
    <3>2. me_hash(x, s) = b - 1 => (Holds(h, s, x) <=> Occurs(chain, x))
      BY DEF Holds
    <3>3. Holds(g, n, x) <=> (Holds(h, s, x) /\ me_hash(x, s) < b - 1) \/ Occurs(chain, x)
      BY <1>4, <2>4 DEF Joins
    <3>4. me_hash(x, s) < b <=> me_hash(x, s) < b - 1 \/ me_hash(x, s) = b - 1
      BY <1>3, <2>1
    <3>5. QED
      BY <3>1, <3>2, <3>3, <3>4
  <2>6. ASSUME NEW c \in 0..(n - 1)
        PROVE  IF c % s < b THEN Len(g[c]) <= Len(h[c % s]) ELSE Len(g[c]) = 0
    <3>1. c % s \in 0..(s - 1)
      BY <1>2
    <3>2. IF c % s < b - 1 THEN Len(v[c]) <= Len(h[c % s]) ELSE Len(v[c]) = 0
      BY <1>4
    <3>3. CASE c % s = b - 1
      <4>1. Len(v[c]) = 0 /\ Len(g[c]) <= Len(v[c]) + Len(chain)
        BY <2>1, <2>4, <3>2, <3>3 DEF Joins
      <4>2. QED
        BY <2>1, <2>2, <3>3, <4>1
    <3>4. CASE c % s # b - 1
      <4>1. \A i \in 1..Len(chain) : me_hash(chain[i], n) # c
        BY <1>3, <2>2, <3>4
      <4>2. Len(g[c]) = Len(v[c])
        BY <2>4, <4>1 DEF Joins
      <4>3. c % s < b <=> c % s < b - 1
        BY <2>1, <3>1, <3>4
      <4>4. QED
        BY <3>2, <4>2, <4>3
    <3>5. QED
      BY <3>3, <3>4
  <2>7. g \in Table
    BY <2>4 DEF Joins, Sound
  <2>8. QED
    BY <2>4, <2>5, <2>6, <2>7 DEF Joins
<1>5. ml_create(n) \in X[0]
  <2>1. ml_create(n) \in Table /\ \A c \in 0..(n - 1) : ml_create(n)[c] = << >>
    BY DEF ml_create
  <2>2. Sound(ml_create(n), n)
    BY <2>1 DEF Sound
  <2>3. \A x \in Entry : ~Holds(ml_create(n), n, x) /\ ~(me_hash(x, s) < 0)
    BY <1>3, <2>1 DEF Holds, Occurs
  <2>4. \A c \in 0..(n - 1) : Len(ml_create(n)[c]) = 0 /\ ~(c % s < 0)
    BY <1>2, <2>1
  <2>5. QED
    BY <2>1, <2>2, <2>3, <2>4
<1> HIDE DEF Moved
<1>6. \E f : Moves(f)
  <2>1. Leads(X, s, step)
    <3>1. ASSUME NEW k \in 1..s, NEW v \in X[k - 1] PROVE step[<<v, k>>] \in X[k]
      <4>1. k - 1 \in 0..s /\ k \in 0..s
        OBVIOUS
      <4>2. v \in Table /\ Moved(k - 1, v)
        BY <4>1
      <4>3. step[<<v, k>>] = MoveChain(v, h[k - 1], n)
        BY <4>2
      <4>4. QED
        BY <1>4, <4>1, <4>2, <4>3
    <3>2. QED
      BY <3>1 DEF Leads
  <2>2. PICK f : Repeats(f, s, ml_create(n), step) /\ \A k \in 0..s : f[k] \in X[k]
    <3> HIDE DEF X, step
    <3>1. QED
      BY <1>5, <2>1, InvariantRecursion
  <2>3. \A k \in 1..s : step[<<f[k - 1], k>>] = MoveChain(f[k - 1], h[k - 1], n)
    BY <2>2
  <2>4. Moves(f)
    <3> HIDE DEF step
    <3>1. f = [k \in 0..s |-> IF k = 0 THEN ml_create(n) ELSE step[<<f[k - 1], k>>]]
      BY <2>2 DEF Repeats
    <3>2. \A k \in 0..s : k = 0 \/ k \in 1..s
      OBVIOUS
    <3>3. \A k \in 0..s :
            f[k] = IF k = 0 THEN ml_create(n) ELSE MoveChain(f[k - 1], h[k - 1], n)
      BY <2>3, <3>1, <3>2
    <3>4. f = [k \in 0..s |-> f[k]]
      BY <3>1
    <3>5. QED
      BY <3>3, <3>4
  <2>5. QED
    <3> HIDE DEF Moves
    <3>1. QED
      BY <2>4
<1>7. Moves(moved)
  <2> HIDE DEF Moves
  <2>1. QED
    BY <1>6
<1>8. u = moved[s]
  BY <1>1 DEF MoveChains, n
<1> HIDE DEF moved
<1>9. moved[0] = ml_create(n) /\ \A k \in 1..s : moved[k] = MoveChain(moved[k - 1], h[k - 1], n)
  BY <1>7
<1>10. \A k \in 0..s : moved[k] \in X[k]
  <2>1. moved[0] \in X[0]
    BY <1>5, <1>9
  <2>2. ASSUME NEW k \in 1..s, moved[k - 1] \in X[k - 1] PROVE moved[k] \in X[k]
    <3>1. k - 1 \in 0..s /\ k \in 0..s
      OBVIOUS
    <3>2. moved[k - 1] \in Table /\ Moved(k - 1, moved[k - 1])
      BY <2>2, <3>1
    <3>3. QED
      BY <1>4, <1>9, <3>1, <3>2
  <2> HIDE DEF X
  <2>3. QED
    BY <2>1, <2>2, InvariantValues
<1>11. Moved(s, u)
  BY <1>8, <1>10
<1>12. QED
  <2>1. \A x \in Entry : me_hash(x, s) < s
    BY <1>3
  <2>2. \A c \in 0..(n - 1) : c % s < s
    BY <1>2
  <2>3. QED
    BY <1>11, <2>1, <2>2 DEF Moved, n

(* Of a chain of moved entries all but the end remain visible.            *)
LEMMA ChainIs ==
  ASSUME NEW entries \in Seq(Entry)
  PROVE  /\ Chain(entries) \in Seq(Entry) /\ Len(Chain(entries)) <= Len(entries)
         /\ Len(entries) <= Len(Chain(entries)) + 1
         /\ \A i \in 1..Len(Chain(entries)) : i \in 1..Len(entries) /\ Chain(entries)[i] = entries[i]
<1>1. CASE entries = << >>
  BY <1>1 DEF Chain
<1>2. CASE entries # << >>
  <2>1. Len(entries) \in Nat /\ Len(entries) >= 1
    BY <1>2
  <2> DEFINE sub == SubSeq(entries, 1, Len(entries) - 1)
  <2>2. Chain(entries) = sub
    BY <1>2 DEF Chain
  <2>3. \A i \in 1..(Len(entries) - 1) : entries[i] \in Entry
    BY <2>1
  <2>4. sub \in Seq(Entry) /\ Len(sub) = Len(entries) - 1
    <3> DEFINE end == Len(entries) - 1
    <3>1. end \in Nat /\ \A i \in 1..end : entries[i] \in Entry
      BY <2>1, <2>3
    <3> HIDE DEF end
    <3>2. /\ SubSeq(entries, 1, end) \in Seq(Entry)
          /\ Len(SubSeq(entries, 1, end)) = IF 1 <= end THEN end - 1 + 1 ELSE 0
      BY <3>1, SubSeqProperties
    <3>3. SubSeq(entries, 1, end) \in Seq(Entry) /\ Len(SubSeq(entries, 1, end)) = end
      BY <3>1, <3>2
    <3>4. QED
      BY <3>3 DEF end
  <2>5. \A i \in 1..Len(sub) : sub[i] = entries[i]
    BY <2>1, <2>4, SubSeqProperties
  <2> HIDE DEF sub
  <2>6. QED
    BY <2>1, <2>2, <2>4, <2>5
<1>3. QED
  BY <1>1, <1>2

(* The entries that a resize to n buckets made of h loses have different   *)
(* buckets, and no chain is longer than the one its entries come from.     *)
LEMMA ResizeIs ==
  ASSUME NEW s \in Nat \ {0}, NEW h, Sound(h, s)
  PROVE  /\ Sound(resize(h), 2 * s)
         /\ \A x \in Entry : Holds(resize(h), 2 * s, x) => Holds(h, s, x)
         /\ \A x, y \in Entry :
              /\ Holds(h, s, x) /\ ~Holds(resize(h), 2 * s, x)
              /\ Holds(h, s, y) /\ ~Holds(resize(h), 2 * s, y)
              /\ me_hash(x, 2 * s) = me_hash(y, 2 * s)
              => x = y
         /\ \A c \in 0..(2 * s - 1) : Len(resize(h)[c]) <= Len(h[c % s]) /\ c % s \in 0..(s - 1)
<1> DEFINE n == 2 * s
           t == MoveChains(h, n)
           r == resize(h)
<1>1. /\ Sound(t, n)
      /\ \A x \in Entry : Holds(t, n, x) <=> Holds(h, s, x)
      /\ \A c \in 0..(n - 1) : Len(t[c]) <= Len(h[c % s])
  BY MoveChainsIs
<1>2. n \in Nat \ {0} /\ SizeOf(h) = s
  BY SizeOfTable DEF Sound
<1>3. \A x \in Entry : me_hash(x, n) \in 0..(n - 1)
  BY BucketRange
<1>4. r = [b \in 0..(n - 1) |-> Chain(t[b])]
  BY <1>1, <1>2 DEF resize, Sound
<1>5. ASSUME NEW c \in 0..(n - 1) PROVE c % s \in 0..(s - 1)
  <2>1. c \in Int
    BY <1>2
  <2>2. QED
    BY <2>1, ModRange
<1> HIDE DEF r, t, n
<1>6. ASSUME NEW c \in 0..(n - 1)
      PROVE  /\ t[c] \in Seq(Entry) /\ r[c] = Chain(t[c])
             /\ r[c] \in Seq(Entry) /\ Len(r[c]) \in Nat /\ Len(t[c]) \in Nat
             /\ Len(r[c]) <= Len(t[c]) /\ Len(t[c]) <= Len(r[c]) + 1
             /\ \A i \in 1..Len(r[c]) : i \in 1..Len(t[c]) /\ r[c][i] = t[c][i]
  <2>1. t[c] \in Seq(Entry) /\ r[c] = Chain(t[c])
    BY <1>1, <1>4 DEF Sound
  <2>2. QED
    BY <2>1, ChainIs
<1>7. Sound(r, n)
  <2>1. r \in [0..(n - 1) -> Seq(Entry)]
    BY <1>4, <1>6
  <2>2. ASSUME NEW b \in 0..(n - 1), NEW i \in 1..Len(r[b]) PROVE me_hash(r[b][i], n) = b
    <3>1. i \in 1..Len(t[b]) /\ r[b][i] = t[b][i]
      BY <1>6
    <3>2. QED
      BY <1>1, <3>1 DEF Sound
  <2>3. ASSUME NEW b \in 0..(n - 1), NEW i \in 1..Len(r[b]), NEW j \in 1..Len(r[b]), r[b][i] = r[b][j]
        PROVE  i = j
    <3>1. i \in 1..Len(t[b]) /\ r[b][i] = t[b][i] /\ j \in 1..Len(t[b]) /\ r[b][j] = t[b][j]
      BY <1>6
    <3>2. QED
      BY <1>1, <2>3, <3>1 DEF Sound
  <2>4. QED
    BY <2>1, <2>2, <2>3 DEF Sound
<1>8. ASSUME NEW x \in Entry, Holds(r, n, x) PROVE Holds(h, s, x)
  <2>1. me_hash(x, n) \in 0..(n - 1)
    BY <1>3
  <2>2. Holds(t, n, x)
    BY <1>6, <1>8, <2>1 DEF Holds, Occurs
  <2>3. QED
    BY <1>1, <2>2
<1>9. ASSUME NEW x \in Entry, NEW y \in Entry,
             Holds(h, s, x), ~Holds(r, n, x), Holds(h, s, y), ~Holds(r, n, y),
             me_hash(x, n) = me_hash(y, n)
      PROVE  x = y
  <2> DEFINE c == me_hash(x, n)
  <2>1. c \in 0..(n - 1)
    BY <1>3
  <2>2. PICK i \in 1..Len(t[c]), j \in 1..Len(t[c]) : t[c][i] = x /\ t[c][j] = y
    <3>1. Holds(t, n, x) /\ Holds(t, n, y)
      BY <1>1, <1>9
    <3>2. Occurs(t[c], x) /\ Occurs(t[c], y)
      BY <1>9, <3>1 DEF Holds
    <3>3. QED
      BY <3>2 DEF Occurs
  <2>3. i \notin 1..Len(r[c]) /\ j \notin 1..Len(r[c])
    BY <1>6, <1>9, <2>1, <2>2 DEF Holds, Occurs
  <2> HIDE DEF c
  <2>4. i = Len(r[c]) + 1 /\ j = Len(r[c]) + 1
    BY <1>6, <2>1, <2>3
  <2>5. QED
    BY <2>2, <2>4
<1>10. ASSUME NEW c \in 0..(n - 1) PROVE Len(r[c]) <= Len(h[c % s])
  <2>1. Len(h[c % s]) \in Nat
    BY <1>5 DEF Sound
  <2>2. QED
    BY <1>1, <1>6, <2>1
<1>11. QED
  BY <1>5, <1>7, <1>8, <1>9, <1>10 DEF r, n

-----------------------------------------------------------------------------
(* The added entries that no lookup can find.                              *)
Lost == {x \in added : ~Holds(hash, size, x)}

(* The table, as long as there is one.                                     *)
TableInv ==
  /\ Sound(hash, size)
  /\ \A b \in 0..(size - 1) : Len(hash[b]) <= size + 1
  /\ \A x \in Entry : Holds(hash, size, x) => x \in added
  /\ Cardinality(Lost) <= 2 * (size - InitSize)

(* The inductive invariant.                                                *)
HashInv ==
  /\ size \in Nat \ {0} /\ lines \in 0..MaxLines
  /\ report \in {"none", "new", "failed", "duplicate", "end"}
  /\ added \subseteq Entry /\ IsFiniteSet(added)
  /\ IF report = "end" THEN DOMAIN hash = {} ELSE TableInv

(* The bucket of an entry is where ml_lookup finds it.                     *)
LEMMA LookupIs ==
  ASSUME NEW n \in Nat \ {0}, NEW h, Sound(h, n), NEW me \in Entry
  PROVE  ml_lookup(h, me) <=> Holds(h, n, me)
<1>1. SizeOf(h) = n /\ me_hash(me, n) \in 0..(n - 1)
  BY SizeOfTable, BucketRange DEF Sound
<1> DEFINE chain == h[me_hash(me, n)]
<1>2. chain \in Seq(Entry)
  BY <1>1 DEF Sound
<1>3. DOMAIN chain = 1..Len(chain) /\ \A i \in 1..Len(chain) : chain[i] \in Entry
  BY <1>2
<1> HIDE DEF chain
<1>4. \A i \in 1..Len(chain) : me_compare(chain[i], me) = 0 <=> chain[i] = me
  BY <1>3, CompareEquality
<1>5. ml_lookup(h, me) <=> \E i \in DOMAIN chain : me_compare(chain[i], me) = 0
  BY <1>1 DEF ml_lookup, chain
<1>6. Holds(h, n, me) <=> \E i \in 1..Len(chain) : chain[i] = me
  BY DEF Holds, Occurs, chain
<1>7. QED
  BY <1>3, <1>4, <1>5, <1>6

(* The visible entries are those that the table holds.                     *)
LEMMA VisibleIs ==
  ASSUME NEW n \in Nat \ {0}, Sound(hash, n)
  PROVE  Visible = {x \in Entry : Holds(hash, n, x)}
<1>1. DOMAIN hash = 0..(n - 1)
  BY DEF Sound
<1>2. ASSUME NEW b \in 0..(n - 1)
      PROVE  /\ DOMAIN hash[b] = 1..Len(hash[b])
             /\ \A i \in 1..Len(hash[b]) : hash[b][i] \in Entry /\ me_hash(hash[b][i], n) = b
  BY DEF Sound
<1>3. ASSUME NEW b \in 0..(n - 1), NEW i \in 1..Len(hash[b])
      PROVE  hash[b][i] \in Entry /\ Holds(hash, n, hash[b][i])
  BY <1>2 DEF Holds, Occurs
<1>4. ASSUME NEW x \in Entry, Holds(hash, n, x)
      PROVE  \E b \in 0..(n - 1) : \E i \in 1..Len(hash[b]) : hash[b][i] = x
  BY <1>4, BucketRange DEF Holds, Occurs
<1>5. \A x : x \in Visible <=> \E b \in 0..(n - 1) : \E i \in 1..Len(hash[b]) : hash[b][i] = x
  BY <1>1, <1>2 DEF Visible
<1>6. QED
  BY <1>3, <1>4, <1>5

\* The length that a chain never exceeds. It is the code's: a bucket that
\* reaches size, as mlist.c:63 has it, or exceeds 20 values, as mlist.c:178
\* has it, is left alone until its chain would be longer than this.
ChainBound == \A b \in DOMAIN hash : Len(hash[b]) <= size + 1

(* What the invariant says of a state.                                     *)
LEMMA HashInvImplies ==
  ASSUME HashInv
  PROVE  TypeOK /\ BucketsConsistent /\ StoredOnce /\ LossBounded /\ ChainBound
<1>1. CASE report = "end"
  <2>1. DOMAIN hash = {}
    BY <1>1 DEF HashInv
  <2>2. QED
    BY <1>1, <2>1
    DEF HashInv, TypeOK, BucketsConsistent, StoredOnce, LossBounded, ChainBound, Entry
<1>2. CASE report # "end"
  <2>1. TableInv /\ size \in Nat \ {0} /\ DOMAIN hash = 0..(size - 1) /\ SizeOf(hash) = size
    BY <1>2, SizeOfTable DEF HashInv, TableInv, Sound
  <2>2. ASSUME NEW b \in 0..(size - 1)
        PROVE  hash[b] \in Seq(Entry) /\ DOMAIN hash[b] = 1..Len(hash[b]) /\ b \in Nat
    BY <2>1 DEF TableInv, Sound
  <2>3. TypeOK
    BY <2>1, <2>2 DEF HashInv, TypeOK, Entry
  <2>4. BucketsConsistent
    <3>1. \A b \in 0..(size - 1) : \A i \in 1..Len(hash[b]) : me_hash(hash[b][i], size) = b
      BY <2>1 DEF TableInv, Sound
    <3>2. QED
      BY <1>2, <2>1, <2>2, <3>1 DEF BucketsConsistent
  <2>5. StoredOnce
    <3>1. ASSUME NEW b \in DOMAIN hash, NEW c \in DOMAIN hash,
                 NEW i \in DOMAIN hash[b], NEW j \in DOMAIN hash[c], hash[b][i] = hash[c][j]
          PROVE  b = c /\ i = j
      <4>1. i \in 1..Len(hash[b]) /\ j \in 1..Len(hash[c]) /\ b \in 0..(size - 1) /\ c \in 0..(size - 1)
        BY <2>1, <2>2
      <4>2. me_hash(hash[b][i], size) = b /\ me_hash(hash[c][j], size) = c
        BY <2>1, <4>1 DEF TableInv, Sound
      <4>3. b = c
        BY <3>1, <4>2
      <4>4. QED
        BY <2>1, <3>1, <4>1, <4>3 DEF TableInv, Sound
    <3>2. QED
      BY <3>1 DEF StoredOnce
  <2>6. LossBounded
    <3>1. Visible = {x \in Entry : Holds(hash, size, x)}
      BY <2>1, VisibleIs DEF TableInv
    <3>2. added \subseteq Entry
      BY DEF HashInv
    <3>3. added \ Visible = Lost /\ Visible \subseteq added
      BY <2>1, <3>1, <3>2 DEF TableInv, Lost
    <3>4. QED
      BY <2>1, <3>3 DEF LossBounded, TableInv
  <2>7. ChainBound
    BY <2>1 DEF ChainBound, TableInv
  <2>8. QED
    BY <2>3, <2>4, <2>5, <2>6, <2>7
<1>3. QED
  BY <1>1, <1>2

LEMMA HashInvInit ==
  ASSUME Init
  PROVE  HashInv
<1>1. size = InitSize /\ hash = ml_create(InitSize) /\ report = "none" /\ lines = 0 /\ added = {}
  BY DEF Init
<1>2. InitSize \in Nat \ {0} /\ MaxLines \in Nat
  BY MListAssumption
<1>3. hash \in [0..(size - 1) -> Seq(Entry)] /\ \A b \in 0..(size - 1) : hash[b] = << >>
  BY <1>1, <1>2 DEF ml_create
<1>4. Sound(hash, size)
  BY <1>3 DEF Sound
<1>5. \A x \in Entry : ~Holds(hash, size, x)
  <2>1. ASSUME NEW x \in Entry PROVE hash[me_hash(x, size)] = << >>
    BY <1>1, <1>2, <1>3, BucketRange
  <2>2. QED
    BY <2>1 DEF Holds, Occurs
<1>6. Lost = {} /\ Cardinality({}) = 0 /\ IsFiniteSet({})
  BY <1>1, FS_EmptySet DEF Lost
<1>7. TableInv
  <2>1. \A b \in 0..(size - 1) : Len(hash[b]) <= size + 1
    BY <1>1, <1>2, <1>3
  <2>2. Cardinality(Lost) <= 2 * (size - InitSize)
    BY <1>1, <1>2, <1>6
  <2>3. QED
    BY <1>4, <1>5, <2>1, <2>2 DEF TableInv
<1>8. QED
  BY <1>1, <1>2, <1>6, <1>7 DEF HashInv

(* At most n entries have n buckets to themselves.                         *)
LEMMA OnePerBucket ==
  ASSUME NEW n \in Nat, NEW D, IsFiniteSet(D), NEW f \in [D -> 0..(n - 1)],
         \A x, y \in D : f[x] = f[y] => x = y
  PROVE  Cardinality(D) <= n
<1>1. IsFiniteSet(0..(n - 1)) /\ Cardinality(0..(n - 1)) = n
  BY FS_Interval
<1>2. Cardinality(D) \in Nat
  BY FS_CardinalityType
<1>3. ~(Cardinality(0..(n - 1)) < Cardinality(D))
  BY <1>1, FS_PigeonHole
<1>4. QED
  BY <1>1, <1>2, <1>3

(* ml_add keeps the invariant, whether the table is replaced or not.       *)
LEMMA AddKeeps ==
  ASSUME HashInv, report # "end", NEW me \in Entry, Add(me), lines' \in 0..MaxLines
  PROVE  HashInv'
<1>1. /\ size \in Nat \ {0} /\ TableInv /\ SizeOf(hash) = size
      /\ added \subseteq Entry /\ IsFiniteSet(added)
  BY SizeOfTable DEF HashInv, TableInv, Sound
<1>2. ~Holds(hash, size, me)
  BY <1>1, LookupIs DEF Add, TableInv
<1>3. IsFiniteSet(Lost) /\ IsFiniteSet(added \cup {me}) /\ added \cup {me} \subseteq Entry
  BY <1>1, FS_Subset, FS_AddElement DEF Lost
<1>4. Cardinality(Lost) \in Nat /\ Cardinality(Lost) <= 2 * (size - InitSize) /\ InitSize \in Nat
  BY <1>1, <1>3, FS_CardinalityType, MListAssumption DEF TableInv
<1> DEFINE g == Link(hash, me, size)
           a == me_hash(me, size)
<1>5. /\ Sound(g, size)
      /\ \A x \in Entry : Holds(g, size, x) <=> Holds(hash, size, x) \/ x = me
      /\ \A b \in 0..(size - 1) : Len(g[b]) = IF b = a THEN Len(hash[b]) + 1 ELSE Len(hash[b])
  <2>1. g = Link(hash, me, size)
    OBVIOUS
  <2> HIDE DEF g
  <2>2. QED
    BY <1>1, <1>2, <2>1, AppendCell DEF TableInv
<1>6. Store(hash, me) = g
  BY <1>1 DEF Store, Link
<1>7. \A b \in 0..(size - 1) : Len(hash[b]) \in Nat /\ Len(hash[b]) <= size + 1 /\ Len(g[b]) \in Nat
  BY <1>1, <1>5 DEF TableInv, Sound
<1>8. a \in 0..(size - 1)
  BY <1>1, BucketRange
<1> HIDE DEF g, a
<1>9. CASE report' = "failed" /\ UNCHANGED <<hash, size, added>>
  <2>1. TableInv'
    BY <1>1, <1>9 DEF TableInv, Lost
  <2>2. QED
    BY <1>1, <1>9, <2>1 DEF HashInv
<1>10. CASE /\ ~Full(hash, me) /\ hash' = g /\ UNCHANGED size
            /\ report' = "new" /\ added' = added \cup {me}
  <2>1. Len(hash[a]) <= size
    BY <1>1, <1>7, <1>8, <1>10 DEF Full, a
  <2>2. \A b \in 0..(size' - 1) : Len(hash'[b]) <= size' + 1
    <3>1. ASSUME NEW b \in 0..(size - 1) PROVE Len(g[b]) <= size + 1
      <4>1. CASE b = a
        BY <1>1, <1>5, <1>7, <2>1, <4>1
      <4>2. CASE b # a
        BY <1>5, <1>7, <4>2
      <4>3. QED
        BY <4>1, <4>2
    <3>2. QED
      BY <1>10, <3>1
  <2>3. \A x \in Entry : Holds(hash', size', x) <=> Holds(hash, size, x) \/ x = me
    BY <1>5, <1>10
  <2>4. Lost' = Lost \ {me}
    BY <1>1, <1>10, <2>3 DEF Lost
  <2>5. Cardinality(Lost') <= 2 * (size' - InitSize)
    <3>1. Cardinality(Lost') <= Cardinality(Lost) /\ Cardinality(Lost') \in Nat
      BY <1>3, <2>4, FS_Subset, FS_CardinalityType
    <3>2. QED
      BY <1>1, <1>4, <1>10, <3>1
  <2>6. \A x \in Entry : Holds(hash', size', x) => x \in added'
    BY <1>1, <1>10, <2>3 DEF TableInv
  <2>7. TableInv'
    BY <1>5, <1>10, <2>2, <2>5, <2>6 DEF TableInv
  <2>8. QED
    BY <1>1, <1>3, <1>10, <2>7 DEF HashInv
<1>11. CASE /\ Full(hash, me) /\ hash' = resize(g) /\ size' = 2 * size
            /\ report' = "new" /\ added' = added \cup {me}
  <2> DEFINE h == resize(g)
             n == 2 * size
             D == {x \in Entry : Holds(g, size, x) /\ ~Holds(h, n, x)}
             f == [x \in D |-> me_hash(x, n)]
  <2>1. /\ Sound(h, n)
        /\ \A x \in Entry : Holds(h, n, x) => Holds(g, size, x)
        /\ \A x, y \in Entry :
             Holds(g, size, x) /\ ~Holds(h, n, x) /\ Holds(g, size, y) /\ ~Holds(h, n, y)
               /\ me_hash(x, n) = me_hash(y, n) => x = y
        /\ \A c \in 0..(n - 1) : Len(h[c]) <= Len(g[c % size]) /\ c % size \in 0..(size - 1)
    BY <1>1, <1>5, ResizeIs
  <2>2. n \in Nat \ {0} /\ n = 2 * size
    BY <1>1
  <2>3. \A x \in Entry : me_hash(x, n) \in 0..(n - 1)
    BY <1>1, BucketRange
  <2> HIDE DEF h, n
  <2>4. D \subseteq added \cup {me}
    BY <1>1, <1>5 DEF TableInv
  <2>5. IsFiniteSet(D)
    BY <1>3, <2>4, FS_Subset
  <2>6. Cardinality(D) <= n
    <3>1. f \in [D -> 0..(n - 1)]
      BY <2>3
    <3>2. \A x, y \in D : f[x] = f[y] => x = y
      BY <2>1
    <3> HIDE DEF f, D
    <3>3. QED
      BY <2>2, <2>5, <3>1, <3>2, OnePerBucket
  <2>7. hash' = h /\ size' = n
    BY <1>11 DEF h, n
  <2>8. Lost' \subseteq Lost \cup D
    BY <1>1, <1>5, <1>11, <2>7 DEF Lost
  <2> HIDE DEF D
  <2>9. Cardinality(Lost') <= 2 * (n - InitSize)
    <3>1. IsFiniteSet(Lost \cup D) /\ Cardinality(Lost \cup D) <= Cardinality(Lost) + Cardinality(D)
      <4>1. /\ IsFiniteSet(Lost \cup D) /\ IsFiniteSet(Lost \cap D)
            /\ Cardinality(Lost \cup D) =
                 Cardinality(Lost) + Cardinality(D) - Cardinality(Lost \cap D)
        BY <1>3, <2>5, FS_Union, FS_Subset
      <4>2. Cardinality(Lost \cap D) \in Nat /\ Cardinality(D) \in Nat
        BY <2>5, <4>1, FS_CardinalityType
      <4>3. QED
        BY <1>4, <4>1, <4>2
    <3>2. Cardinality(Lost') <= Cardinality(Lost \cup D) /\ Cardinality(Lost') \in Nat
      BY <2>8, <3>1, FS_Subset, FS_CardinalityType
    <3>3. Cardinality(Lost \cup D) \in Nat /\ Cardinality(D) \in Nat
      BY <2>5, <3>1, FS_CardinalityType
    <3>4. QED
      BY <1>1, <1>4, <2>2, <2>6, <3>1, <3>2, <3>3
  <2>10. \A c \in 0..(n - 1) : Len(h[c]) <= n + 1
    <3>1. \A b \in 0..(size - 1) : Len(g[b]) <= size + 2
      BY <1>1, <1>5, <1>7
    <3>2. \A c \in 0..(n - 1) : Len(h[c]) \in Nat
      BY <2>1 DEF Sound
    <3>3. size + 2 <= n + 1
      BY <1>1, <2>2
    <3>4. ASSUME NEW c \in 0..(n - 1) PROVE Len(h[c]) <= n + 1
      <4>1. Len(h[c]) <= Len(g[c % size]) /\ Len(g[c % size]) <= size + 2
        BY <2>1, <3>1
      <4>2. Len(g[c % size]) \in Nat
        BY <1>7, <2>1
      <4>3. QED
        BY <1>1, <2>2, <3>2, <3>3, <4>1, <4>2
    <3>5. QED
      BY <3>4
  <2>11. \A x \in Entry : Holds(h, n, x) => x \in added'
    BY <1>1, <1>5, <1>11, <2>1 DEF TableInv
  <2>12. TableInv'
    BY <2>1, <2>7, <2>9, <2>10, <2>11 DEF TableInv
  <2>13. QED
    BY <1>3, <1>11, <2>2, <2>7, <2>12 DEF HashInv
<1>12. QED
  BY <1>1, <1>6, <1>9, <1>10, <1>11 DEF Add

LEMMA HashInvNext ==
  ASSUME HashInv, [Next]_vars
  PROVE  HashInv'
<1>1. ASSUME NEW r \in Address, Process(r) PROVE HashInv'
  <2>1. me_get(r) \in Entry
    BY DEF Entry, MEntries, me_get
  <2>2. report # "end" /\ lines' \in 0..MaxLines
    BY <1>1, MListAssumption DEF Process, HashInv
  <2>3. CASE Add(me_get(r))
    BY <2>1, <2>2, <2>3, AddKeeps
  <2>4. CASE Report(me_get(r))
    <3>1. report' = "duplicate" /\ UNCHANGED <<hash, size, added>>
      BY <2>4 DEF Report
    <3>2. QED
      BY <2>2, <3>1 DEF HashInv, TableInv, Lost
  <2>5. QED
    BY <1>1, <2>3, <2>4 DEF Process
<1>2. CASE Finish
  <2>1. /\ report # "end" /\ report' = "end" /\ UNCHANGED <<size, lines, added>>
        /\ hash' = [b \in DOMAIN hash \ (0..(size - 1)) |-> hash[b]]
    BY <1>2 DEF Finish
  <2>2. DOMAIN hash' = {}
    BY <2>1 DEF HashInv, TableInv, Sound
  <2>3. QED
    BY <2>1, <2>2 DEF HashInv
<1>3. CASE UNCHANGED vars
  BY <1>3 DEF vars, HashInv, TableInv, Lost
<1>4. QED
  BY <1>1, <1>2, <1>3 DEF Next

LEMMA HashInvAlways == Spec => []HashInv
BY HashInvInit, HashInvNext, PTL DEF Spec

(* mlist.c keeps its variables in their ranges, for any addresses.         *)
THEOREM HashTypeCorrect == Spec => []TypeOK
BY HashInvAlways, HashInvImplies, PTL

(* Every entry that is not at the end of a chain is in the bucket where    *)
(* ml_lookup looks for it, and ml_destroy frees every chain (mlist.c:223). *)
THEOREM HashBucketsConsistent == Spec => []BucketsConsistent
BY HashInvAlways, HashInvImplies, PTL

(* No entry is in the table twice (mlist.c:148).                           *)
THEOREM HashStoredOnce == Spec => []StoredOnce
BY HashInvAlways, HashInvImplies, PTL

(* What the resizes lose is at most one entry of each bucket of each table *)
(* they created (mlist.c:92).                                              *)
THEOREM HashLossBounded == Spec => []LossBounded
BY HashInvAlways, HashInvImplies, PTL

(* No chain outgrows the table by more than one entry: the bound that the  *)
(* test at mlist.c:179 gives, which is weaker than the comments at         *)
(* mlist.c:63 and mlist.c:178 say.                                         *)
THEOREM HashChainBound == Spec => []ChainBound
BY HashInvAlways, HashInvImplies, PTL
-----------------------------------------------------------------------------
(* Both mailing lists side by side, as finddupl uses them.                 *)
ListInv == list \in Seq(Entry)

LEMMA EntryType == ASSUME NEW r \in Address PROVE me_get(r) \in Entry
BY DEF Entry, MEntries, me_get

(* The walk of ml_lookup finds what is on the list.                        *)
LEMMA LookupFinds ==
  ASSUME ListInv, NEW me \in Entry
  PROVE  LL!ml_lookup(list, me) <=> me \in LL!Entries
<1>1. \A i \in 1..Len(list) : list[i] \in Entry
  BY DEF ListInv
<1>2. \A i \in 1..Len(list) : me_compare(me, list[i]) = 0 <=> me = list[i]
  BY <1>1, CompareEquality
<1>3. QED
  BY <1>2 DEF LL!ml_lookup, LL!Entries, LL!me_compare, me_compare

(* ml_add puts the new entry before the others.                            *)
LEMMA EntriesPrepended ==
  ASSUME ListInv, NEW me \in Entry, list' = <<me>> \o list
  PROVE  ListInv' /\ LL!Entries' = LL!Entries \cup {me}
<1>1. list \in Seq(Entry)
  BY DEF ListInv
<1>2. /\ Len(list) \in Nat /\ Len(list') = Len(list) + 1 /\ list'[1] = me
      /\ \A i \in 1..Len(list) : list'[i + 1] = list[i]
  BY <1>1
<1>3. ListInv'
  BY <1>1 DEF ListInv
<1>4. LL!Entries' \subseteq LL!Entries \cup {me}
  <2>1. SUFFICES ASSUME NEW i \in 1..Len(list') PROVE list'[i] \in LL!Entries \cup {me}
    BY DEF LL!Entries
  <2>2. CASE i = 1
    BY <1>2, <2>2
  <2>3. CASE i # 1
    <3>1. i - 1 \in 1..Len(list) /\ list'[(i - 1) + 1] = list[i - 1] /\ (i - 1) + 1 = i
      BY <1>2, <2>1, <2>3
    <3>2. QED
      BY <3>1 DEF LL!Entries
  <2>4. QED
    BY <2>2, <2>3
<1>5. LL!Entries \cup {me} \subseteq LL!Entries'
  <2>1. me \in LL!Entries'
    <3>1. 1 \in 1..Len(list')
      BY <1>2
    <3>2. QED
      BY <1>2, <3>1 DEF LL!Entries
  <2>2. ASSUME NEW i \in 1..Len(list) PROVE list[i] \in LL!Entries'
    <3>1. i + 1 \in 1..Len(list') /\ list'[i + 1] = list[i]
      BY <1>2
    <3>2. QED
      BY <3>1 DEF LL!Entries
  <2>3. QED
    BY <2>1, <2>2 DEF LL!Entries
<1>6. QED
  BY <1>3, <1>4, <1>5
-----------------------------------------------------------------------------
(* One round of the loop is a step of the abstract mailing list.           *)
LEMMA ProcessRefines ==
  ASSUME ListInv, NEW r \in Address, LL!Process(r)
  PROVE  ListInv' /\ LL!Abstract!MailListNext
<1> DEFINE me == me_get(r)
<1>1. me \in Entry /\ LL!me_get(r) = me
  BY EntryType DEF LL!me_get, me_get
<1>2. LL!ml_lookup(list, me) <=> me \in LL!Entries
  BY <1>1, LookupFinds
<1>3. CASE /\ ~LL!ml_lookup(list, me) /\ list' = <<me>> \o list /\ llReport' = <<"new", me>>
  <2>1. ListInv' /\ LL!Entries' = LL!Entries \cup {me}
    BY <1>1, <1>3, EntriesPrepended
  <2>2. LL!Abstract!NewAddress(r)
    BY <1>1, <1>2, <1>3, <2>1 DEF LL!Abstract!NewAddress
  <2>3. QED
    BY <2>1, <2>2 DEF LL!Abstract!MailListNext
<1>4. CASE /\ ~LL!ml_lookup(list, me) /\ UNCHANGED list /\ llReport' = <<"failed", me>>
  <2>1. ListInv' /\ LL!Entries' = LL!Entries
    BY <1>4 DEF ListInv, LL!Entries
  <2>2. LL!Abstract!OutOfMemory(r)
    BY <1>1, <1>2, <1>4, <2>1 DEF LL!Abstract!OutOfMemory
  <2>3. QED
    BY <2>1, <2>2 DEF LL!Abstract!MailListNext
<1>5. CASE /\ LL!ml_lookup(list, me) /\ UNCHANGED list /\ llReport' = <<"duplicate", me>>
  <2>1. ListInv' /\ LL!Entries' = LL!Entries
    BY <1>5 DEF ListInv, LL!Entries
  <2>2. LL!Abstract!Duplicate(r)
    BY <1>1, <1>2, <1>5, <2>1 DEF LL!Abstract!Duplicate
  <2>3. QED
    BY <2>1, <2>2 DEF LL!Abstract!MailListNext
<1>6. QED
  BY <1>1, <1>3, <1>4, <1>5 DEF LL!Process, LL!Add, LL!Report

LEMMA StepRefines ==
  ASSUME ListInv, [BothNext]_bothVars
  PROVE  /\ ListInv'
         /\ [llReport' = <<"end">> \/ LL!Abstract!MailListNext]_<<list, last, llReport>>
<1>1. CASE \E r \in Address : ProcessBoth(r)
  BY <1>1, ProcessRefines DEF ProcessBoth
<1>2. CASE FinishBoth
  BY <1>2 DEF FinishBoth, LL!Finish, ListInv
<1>3. CASE UNCHANGED bothVars
  BY <1>3 DEF bothVars, ListInv
<1>4. QED
  BY <1>1, <1>2, <1>3 DEF BothNext

(* Whatever the file holds, the program with the linked list reports every *)
(* address that matches a stored one as a duplicate and no other.          *)
THEOREM LinkedListIsMailList == BothSpec => ImplementsMailList
<1>1. BothInit => ListInv /\ LL!Abstract!MailListInit
  BY DEF BothInit, LL!Init, ListInv, LL!Abstract!MailListInit, LL!Entries
<1>2. QED
  BY <1>1, StepRefines, PTL DEF BothSpec, ImplementsMailList, LL!ImplementsMailList
-----------------------------------------------------------------------------
(* Both programs: what each keeps.                                         *)
BothInv ==
  /\ HashInv /\ ListInv
  /\ last \in {<< >>} \cup {<<me>> : me \in Entry}
  /\ llReport \in {<<"none">>, <<"end">>} \cup ({"new", "failed", "duplicate"} \X Entry)
  /\ failures \in 0..MaxFailures

LEMMA BothInvInit ==
  ASSUME BothInit
  PROVE  BothInv
BY HashInvInit, FindduplAssumption DEF BothInit, LL!Init, BothInv, ListInv

LEMMA BothInvNext ==
  ASSUME BothInv, [BothNext]_bothVars
  PROVE  BothInv'
<1>1. HashInv' /\ ListInv'
  BY HashInvNext, StepRefines DEF BothInv, BothNext, bothVars, ProcessBoth, FinishBoth, Next
<1>2. CASE \E r \in Address : ProcessBoth(r)
  <2>1. PICK r \in Address : ProcessBoth(r)
    BY <1>2
  <2>2. me_get(r) \in Entry /\ LL!me_get(r) = me_get(r)
    BY EntryType DEF LL!me_get, me_get
  <2>3. /\ last' = last \/ last' = <<me_get(r)>>
        /\ \E w \in {"new", "failed", "duplicate"} : llReport' = <<w, me_get(r)>>
    BY <2>1, <2>2 DEF ProcessBoth, LL!Process, LL!Add, LL!Report
  <2>4. failures' \in 0..MaxFailures
    <3>1. /\ failures' = failures + Failed /\ failures' <= MaxFailures
          /\ failures \in Nat /\ Failed \in Nat /\ MaxFailures \in Nat
      BY <2>1, FindduplAssumption DEF ProcessBoth, BothInv, Failed
    <3>2. QED
      BY <3>1
  <2>5. QED
    BY <1>1, <2>2, <2>3, <2>4 DEF BothInv
<1>3. CASE FinishBoth
  BY <1>1, <1>3 DEF FinishBoth, LL!Finish, BothInv
<1>4. CASE UNCHANGED bothVars
  BY <1>1, <1>4 DEF bothVars, BothInv
<1>5. QED
  BY <1>2, <1>3, <1>4 DEF BothNext

LEMMA BothInvAlways == BothSpec => []BothInv
BY BothInvInit, BothInvNext, PTL DEF BothSpec

(* Both programs keep their variables in their ranges.                     *)
THEOREM BothTypeCorrect == BothSpec => []BothTypeOK
<1>1. ASSUME BothInv PROVE BothTypeOK
  <2>1. TypeOK
    BY <1>1, HashInvImplies DEF BothInv
  <2>2. LL!MEntries(Address) = Entry
    BY DEF LL!MEntries, MEntries, Entry
  <2>3. LL!TypeOK
    BY <1>1, <2>2 DEF BothInv, LL!TypeOK, HashInv, ListInv
  <2>4. QED
    BY <1>1, <2>1, <2>3 DEF BothTypeOK, BothInv
<1>2. QED
  BY <1>1, BothInvAlways, PTL

(* Until the first resize nothing is lost.                                 *)
LEMMA NothingLost ==
  ASSUME HashInv, report # "end", size = InitSize
  PROVE  \A x \in added : Holds(hash, size, x)
<1>1. IsFiniteSet(Lost) /\ Cardinality(Lost) <= 2 * (size - InitSize)
  BY FS_Subset DEF HashInv, TableInv, Lost
<1>2. Cardinality(Lost) \in Nat /\ 2 * (size - InitSize) = 0
  BY <1>1, FS_CardinalityType, MListAssumption
<1>3. Lost = {}
  <2>1. Cardinality(Lost) = 0
    BY <1>1, <1>2
  <2>2. QED
    BY <1>1, <2>1, FS_EmptySet
<1>4. QED
  BY <1>3 DEF Lost

(* The hash table never calls an address a duplicate that the linked list  *)
(* does not, whatever its resizes lose, and until the first one both give  *)
(* the same answers (finddupl.c:28).                                       *)
THEOREM AnswersAgree == BothSpec => SameAnswers
<1> DEFINE Agree(r) ==
      LET duplicate == report' = "duplicate"
          llDuplicate == llReport' = <<"duplicate", me_get(r)>>
      IN  /\ added \subseteq LL!Entries => (duplicate => llDuplicate)
          /\ added = LL!Entries /\ size = InitSize => (duplicate <=> llDuplicate)
<1>1. ASSUME BothInv, NEW r \in Address, ProcessBoth(r) PROVE Agree(r)
  <2>1. me_get(r) \in Entry /\ LL!me_get(r) = me_get(r)
    BY EntryType DEF LL!me_get, me_get
  <2>2. report # "end" /\ TableInv /\ size \in Nat \ {0} /\ HashInv /\ ListInv
    BY <1>1 DEF ProcessBoth, Process, BothInv, HashInv
  <2>3. report' = "duplicate" <=> Holds(hash, size, me_get(r))
    <3>1. ml_lookup(hash, me_get(r)) <=> Holds(hash, size, me_get(r))
      BY <2>1, <2>2, LookupIs DEF TableInv
    <3>2. QED
      BY <1>1, <3>1 DEF ProcessBoth, Process, Add, Report
  <2>4. llReport' = <<"duplicate", me_get(r)>> <=> me_get(r) \in LL!Entries
    <3>1. LL!ml_lookup(list, me_get(r)) <=> me_get(r) \in LL!Entries
      BY <2>1, <2>2, LookupFinds
    <3>2. QED
      BY <1>1, <2>1, <3>1 DEF ProcessBoth, LL!Process, LL!Add, LL!Report
  <2>5. Holds(hash, size, me_get(r)) => me_get(r) \in added
    BY <2>1, <2>2 DEF TableInv
  <2>6. size = InitSize => (me_get(r) \in added => Holds(hash, size, me_get(r)))
    BY <2>2, NothingLost
  <2>7. QED
    BY <2>3, <2>4, <2>5, <2>6
<1>2. BothInv => [\A r \in Address : ProcessBoth(r) => Agree(r)]_bothVars
  BY <1>1
<1>3. QED
  BY <1>2, BothInvAlways, PTL DEF SameAnswers

(* Side by side with the list the table runs as it does alone, so that what *)
(* is proved of it above holds of both programs together.                   *)
LEMMA TableRunsAlone == BothSpec => Spec
<1>1. BothInit => Init
  BY DEF BothInit
<1>2. [BothNext]_bothVars => [Next]_vars
  BY DEF BothNext, ProcessBoth, FinishBoth, Next, bothVars
<1>3. QED
  BY <1>1, <1>2, PTL DEF BothSpec, Spec
===============================================================================
