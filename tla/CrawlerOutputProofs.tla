------------------------- MODULE CrawlerOutputProofs --------------------------
(***************************************************************************)
(* What the file crawler prints, for every file system, whatever happens   *)
(* to it, every list of arguments and every number of streams, failures    *)
(* and changes.                                                            *)
(***************************************************************************)
EXTENDS FileCrawlerProofs, MCFileCrawler

\* The places in a path that count.
Real(path) == {k \in DOMAIN path : path[k] > Nothing}

LEMMA PlaceIs ==
  ASSUME NEW path \in Seq(Nat)
  PROVE  /\ Real(path) \in SUBSET Nat /\ Real(path) \subseteq 1..Len(path) /\ IsFiniteSet(Real(path))
         /\ Cardinality(Real(path)) \in Nat
         /\ Place(path) = [i \in 1..Cardinality(Real(path)) |-> path[Ith(Real(path), i)]]
         /\ Place(path) \in Seq(Names) /\ Place(path) \in Seq(Nat)
         /\ Len(Place(path)) = Cardinality(Real(path))
<1> DEFINE S == Real(path)
           n == Cardinality(S)
<1>1. S \in SUBSET Nat /\ S \subseteq 1..Len(path) /\ \A k \in S : path[k] \in Names
  BY DEF Real, Names, Nothing, Dot, DotDot
<1>2. IsFiniteSet(S)
  <2>1. IsFiniteSet(1..Len(path))
    BY FS_Interval
  <2>2. QED
    BY <1>1, <2>1, FS_Subset
<1>3. n \in Nat
  BY <1>2, FS_CardinalityType
<1>4. Place(path) = [i \in 1..n |-> path[Ith(S, i)]]
  BY DEF Place, Real, Ith, UpTo
<1>5. \A i \in 1..n : Ith(S, i) \in S
  BY <1>1, <1>2, IthIs
<1> HIDE DEF S, n
<1>6. \A i \in 1..n : path[Ith(S, i)] \in Names /\ path[Ith(S, i)] \in Nat
  BY <1>1, <1>5 DEF Names
<1>7. Place(path) \in Seq(Names) /\ Place(path) \in Seq(Nat) /\ Len(Place(path)) = n
  BY <1>3, <1>4, <1>6
<1>8. QED
  BY <1>1, <1>2, <1>3, <1>4, <1>7 DEF S, n

(* What counts is what is appended, unless it is nothing.                  *)
LEMMA PlaceAppend ==
  ASSUME NEW path \in Seq(Nat), NEW name \in Nat
  PROVE  Place(Append(path, name)) =
           IF name > Nothing THEN Append(Place(path), name) ELSE Place(path)
<1> DEFINE q == Append(path, name)
           n == Len(path)
           S == Real(path)
           T == Real(q)
           m == Cardinality(S)
<1>1. /\ q \in Seq(Nat) /\ n \in Nat /\ Len(q) = n + 1 /\ q[n + 1] = name
      /\ \A i \in 1..n : q[i] = path[i]
  OBVIOUS
<1>2. /\ S \in SUBSET Nat /\ S \subseteq 1..n /\ IsFiniteSet(S) /\ m \in Nat
      /\ Place(path) = [i \in 1..m |-> path[Ith(S, i)]]
      /\ Place(path) \in Seq(Names) /\ Len(Place(path)) = m
  BY PlaceIs
<1>3. /\ T \in SUBSET Nat /\ IsFiniteSet(T)
      /\ Place(q) = [i \in 1..Cardinality(T) |-> q[Ith(T, i)]]
  BY <1>1, PlaceIs
<1>4. \A i \in 1..m : /\ Ith(S, i) \in S /\ Cardinality(UpTo(S, Ith(S, i))) = i
                      /\ \A k \in S : Cardinality(UpTo(S, k)) = i => k = Ith(S, i)
  BY <1>2, IthIs
<1>5. \A i \in 1..m : q[Ith(S, i)] = path[Ith(S, i)]
  BY <1>1, <1>2, <1>4
<1>6. CASE ~(name > Nothing)
  <2>1. T = S
    BY <1>1, <1>6 DEF Real
  <2> HIDE DEF q, n, S, T, m
  <2>2. Place(q) = Place(path)
    BY <1>2, <1>3, <1>5, <2>1 DEF m
  <2>3. QED
    BY <1>6, <2>2 DEF q
<1>7. CASE name > Nothing
  <2>1. T = S \cup {n + 1} /\ n + 1 \notin S
    BY <1>1, <1>2, <1>7 DEF Real
  <2> HIDE DEF q, n, S, T
  <2>2. Cardinality(T) = m + 1
    BY <1>2, <2>1, FS_AddElement
  <2>3. \A i \in 1..(m + 1) : Ith(T, i) \in T /\ Cardinality(UpTo(T, Ith(T, i))) = i
    BY <1>3, <2>2, IthIs
  <2>4. UpTo(T, n + 1) = T
    <3>1. \A k \in S : k <= n + 1
      BY <1>1, <1>2
    <3>2. \A k \in T : k <= n + 1
      BY <1>1, <2>1, <3>1
    <3>3. QED
      BY <3>2 DEF UpTo
  <2>5. ASSUME NEW k \in S PROVE UpTo(T, k) = UpTo(S, k)
    <3>1. ~(n + 1 <= k)
      BY <1>1, <1>2
    <3>2. QED
      BY <2>1, <3>1 DEF UpTo
  <2>6. ASSUME NEW i \in 1..m PROVE q[Ith(T, i)] = path[Ith(S, i)]
    <3>1. i \in 1..(m + 1) /\ i # m + 1
      BY <1>2
    <3>2. Ith(T, i) \in T /\ Cardinality(UpTo(T, Ith(T, i))) = i
      BY <2>3, <3>1
    <3>3. Ith(T, i) # n + 1
      BY <2>2, <2>4, <3>1, <3>2
    <3>4. Ith(T, i) \in S
      BY <2>1, <3>2, <3>3
    <3>5. Ith(T, i) = Ith(S, i)
      BY <1>4, <2>5, <3>2, <3>4
    <3>6. QED
      BY <1>5, <3>5
  <2>7. q[Ith(T, m + 1)] = name
    <3>1. m + 1 \in 1..(m + 1)
      BY <1>2
    <3>2. Ith(T, m + 1) \in T /\ Cardinality(UpTo(T, Ith(T, m + 1))) = m + 1
      BY <2>3, <3>1
    <3>3. \A k \in S : Cardinality(UpTo(S, k)) \in 1..m
      BY <1>2, IthIs DEF m
    <3>4. ~(m + 1 \in 1..m)
      BY <1>2
    <3>5. Ith(T, m + 1) \notin S
      BY <2>5, <3>2, <3>3, <3>4
    <3>6. Ith(T, m + 1) = n + 1
      BY <2>1, <3>2, <3>5
    <3>7. QED
      BY <1>1, <3>6
  <2> DEFINE a == Append(Place(path), name)
  <2>8. /\ a \in Seq(Nat) /\ Len(a) = m + 1 /\ a[m + 1] = name
        /\ \A i \in 1..m : a[i] = path[Ith(S, i)]
    <3>1. Place(path) \in Seq(Nat)
      BY PlaceIs
    <3>2. \A i \in 1..m : Place(path)[i] = path[Ith(S, i)]
      BY <1>2
    <3>3. QED
      BY <1>2, <3>1, <3>2, AppendProperties
  <2> HIDE DEF a
  <2>9. \A i \in 1..(m + 1) : a[i] = q[Ith(T, i)]
    <3>1. \A i \in 1..(m + 1) : i \in 1..m \/ i = m + 1
      BY <1>2
    <3>2. QED
      BY <2>6, <2>7, <2>8, <3>1
  <2>10. a = [i \in 1..(m + 1) |-> q[Ith(T, i)]]
    <3>1. a = [i \in 1..(m + 1) |-> a[i]]
      BY <2>8, <1>2
    <3>2. QED
      BY <2>9, <3>1
  <2>11. Place(q) = a
    BY <1>3, <2>2, <2>10
  <2>12. QED
    BY <1>7, <2>11 DEF a, q
<1>8. QED
  BY <1>6, <1>7

(* A path and the strings that are kept of it lead to the same place.      *)
LEMMA SamePlace ==
  ASSUME NEW path \in Path
  PROVE  Place(Strip(path)) = Place(path) /\ Place(Prefix(path)) = Place(path)
<1>1. path \in Seq(Nat) /\ path # << >>
  BY DEF Path
<1>2. Place(Strip(path)) = Place(path)
  <2>1. CASE Strip(path) = path
    BY <2>1
  <2>2. CASE Strip(path) # path
    <3> DEFINE front == SubSeq(path, 1, Len(path) - 1)
    <3>1. Strip(path) = front /\ path[Len(path)] = Nothing
      BY <2>2 DEF Strip
    <3>2. front \in Seq(Nat) /\ path = Append(front, path[Len(path)])
      BY <1>1, Ending
    <3>3. ~(Nothing > Nothing) /\ Nothing \in Nat
      BY DEF Nothing
    <3> HIDE DEF front
    <3>4. Place(path) = Place(front)
      BY <3>1, <3>2, <3>3, PlaceAppend
    <3>5. QED
      BY <3>1, <3>4
  <2>3. QED
    BY <2>1, <2>2
<1>3. Place(Prefix(path)) = Place(path)
  <2>1. CASE path = Root
    <3>1. /\ Nothing \in Nat /\ ~(Nothing > Nothing) /\ <<Nothing>> \in Seq(Nat)
          /\ Root = Append(<<Nothing>>, Nothing)
      BY DEF Nothing, Root
    <3>2. Place(Root) = Place(<<Nothing>>)
      BY <3>1, PlaceAppend
    <3>3. QED
      BY <2>1, <3>2 DEF Prefix
  <2>2. CASE path # Root
    BY <1>2, <2>2 DEF Prefix
  <2>3. QED
    BY <2>1, <2>2
<1>4. QED
  BY <1>2, <1>3

(* The path of an entry is kept as it is, and leads to the entry.          *)
LEMMA EntryPath ==
  ASSUME NEW dir \in Path, NEW name \in Names
  PROVE  /\ Append(dir, name) \in Path
         /\ Strip(Append(dir, name)) = Append(dir, name)
         /\ Prefix(Append(dir, name)) = Append(dir, name)
         /\ Place(Append(dir, name)) = Append(Place(dir), name)
<1> DEFINE p == Append(dir, name)
<1>1. /\ dir \in Seq(Nat) /\ Len(dir) > 0 /\ name \in Nat /\ name > Nothing /\ name # Nothing
      /\ Len(dir) \in Nat
  BY LenProperties DEF Path, Names, Nothing, Dot, DotDot
<1>2. p \in Seq(Nat) /\ Len(p) = Len(dir) + 1 /\ p[Len(p)] = name
  BY <1>1, AppendProperties
<1>3. p \in Path
  BY <1>1, <1>2 DEF Path
<1>4. Strip(p) = p
  BY <1>1, <1>2 DEF Strip
<1>5. p # Root
  <2>1. Root[Len(Root)] = Nothing
    BY DEF Root
  <2>2. QED
    BY <1>1, <1>2, <2>1
<1>6. Place(p) = Append(Place(dir), name)
  BY <1>1, PlaceAppend
<1> HIDE DEF p
<1>7. Strip(p) = p /\ Prefix(p) = p
  BY <1>4, <1>5 DEF Prefix
<1>8. QED
  BY <1>3, <1>6, <1>7 DEF p
-----------------------------------------------------------------------------
(* strcmp orders the paths: at the first place where two of them differ,   *)
(* the one that comes first has ended or has the lower name.               *)
Lower(p, q, k) ==
  /\ k \in 1..Len(q) /\ (k = Len(p) + 1 \/ (k <= Len(p) /\ p[k] < q[k]))
  /\ \A i \in 1..(k - 1) : p[i] = q[i]

LEMMA BeforeIsLower ==
  ASSUME NEW p \in Seq(Nat), NEW q \in Seq(Nat)
  PROVE  Before(p, q) <=> \E k \in Nat : Lower(p, q, k)
<1>1. Len(p) \in Nat /\ Len(q) \in Nat
  BY LenProperties
<1>2. ASSUME Before(p, q) PROVE \E k \in Nat : Lower(p, q, k)
  <2>1. PICK k \in 1..Len(q) : /\ k > Len(p) \/ p[k] < q[k]
                               /\ \A i \in 1..(k - 1) : p[i] = q[i]
    BY <1>2 DEF Before
  <2>2. CASE k > Len(p)
    <3>1. Len(p) + 1 \in 1..Len(q) /\ \A i \in 1..((Len(p) + 1) - 1) : i \in 1..(k - 1)
      BY <1>1, <2>2
    <3>2. Lower(p, q, Len(p) + 1)
      BY <2>1, <3>1 DEF Lower
    <3>3. QED
      BY <1>1, <3>2
  <2>3. CASE ~(k > Len(p))
    <3>1. k <= Len(p) /\ k \in Nat
      BY <1>1, <2>3
    <3>2. QED
      BY <2>1, <2>3, <3>1 DEF Lower
  <2>4. QED
    BY <2>2, <2>3
<1>3. ASSUME NEW k \in Nat, Lower(p, q, k) PROVE Before(p, q)
  <2>1. k > Len(p) \/ p[k] < q[k]
    BY <1>1, <1>3 DEF Lower
  <2>2. QED
    BY <1>3, <2>1 DEF Lower, Before
<1>4. QED
  BY <1>2, <1>3

LEMMA NotBeforeItself == ASSUME NEW p \in Seq(Nat) PROVE ~Before(p, p)
<1>1. Len(p) \in Nat /\ \A k \in 1..Len(p) : p[k] \in Nat
  BY LenProperties, ElementOfSeq
<1>2. \A k \in Nat : ~Lower(p, p, k)
  BY <1>1 DEF Lower
<1>3. QED
  BY <1>2, BeforeIsLower

LEMMA BeforeTransitive ==
  ASSUME NEW p \in Seq(Nat), NEW q \in Seq(Nat), NEW r \in Seq(Nat), Before(p, q), Before(q, r)
  PROVE  Before(p, r)
<1>1. /\ Len(p) \in Nat /\ Len(q) \in Nat /\ Len(r) \in Nat
      /\ \A k \in 1..Len(p) : p[k] \in Nat
      /\ \A k \in 1..Len(q) : q[k] \in Nat
      /\ \A k \in 1..Len(r) : r[k] \in Nat
  BY LenProperties, ElementOfSeq
<1>2. PICK j \in Nat : Lower(p, q, j)
  BY BeforeIsLower
<1>3. PICK k \in Nat : Lower(q, r, k)
  BY BeforeIsLower
<1>4. CASE j < k
  <2>1. j \in 1..(k - 1) /\ j \in 1..Len(r)
    BY <1>1, <1>2, <1>3, <1>4 DEF Lower
  <2>2. q[j] = r[j]
    BY <1>3, <2>1 DEF Lower
  <2>3. \A i \in 1..(j - 1) : p[i] = r[i]
    <3>1. \A i \in 1..(j - 1) : i \in 1..(k - 1)
      BY <1>4
    <3>2. QED
      BY <1>2, <1>3, <3>1 DEF Lower
  <2>4. Lower(p, r, j)
    BY <1>2, <2>1, <2>2, <2>3 DEF Lower
  <2>5. QED
    BY <2>4, BeforeIsLower
<1>5. CASE j = k
  <2>1. j <= Len(q) /\ j \in 1..Len(q) /\ j \in 1..Len(r) /\ q[j] < r[j]
    BY <1>1, <1>2, <1>3, <1>5 DEF Lower
  <2>2. j = Len(p) + 1 \/ (j \in 1..Len(p) /\ p[j] < q[j])
    BY <1>1, <1>2 DEF Lower
  <2>3. j = Len(p) + 1 \/ (j <= Len(p) /\ p[j] < r[j])
    <3>1. q[j] \in Nat /\ r[j] \in Nat /\ (j \in 1..Len(p) => p[j] \in Nat /\ j <= Len(p))
      BY <1>1, <2>1
    <3>2. CASE j \in 1..Len(p) /\ p[j] < q[j]
      <4>1. /\ p[j] \in Nat /\ q[j] \in Nat /\ r[j] \in Nat /\ j <= Len(p)
            /\ p[j] < q[j] /\ q[j] < r[j]
        BY <2>1, <3>1, <3>2
      <4>2. \A x, y, z \in Nat : x < y /\ y < z => x < z
        OBVIOUS
      <4>3. QED
        BY ONLY <4>1, <4>2
    <3>3. QED
      BY <2>2, <3>2
  <2>4. \A i \in 1..(j - 1) : p[i] = r[i]
    BY <1>2, <1>3, <1>5 DEF Lower
  <2>5. Lower(p, r, j)
    BY <2>1, <2>3, <2>4 DEF Lower
  <2>6. QED
    BY <2>5, BeforeIsLower
<1>6. CASE k < j
  <2>1. k \in 1..(j - 1) /\ k <= Len(p) /\ k # Len(q) + 1 /\ k \in 1..Len(r)
    <3>1. /\ j \in 1..Len(q) /\ (j = Len(p) + 1 \/ j <= Len(p)) /\ k \in 1..Len(r)
          /\ Len(p) \in Nat /\ Len(q) \in Nat
      <4>1. j \in 1..Len(q) /\ (j = Len(p) + 1 \/ j <= Len(p))
        BY <1>2 DEF Lower
      <4>2. k \in 1..Len(r)
        BY <1>3 DEF Lower
      <4>3. QED
        BY <1>1, <4>1, <4>2
    <3>2. \A x, y \in Nat : j \in 1..y /\ (j = x + 1 \/ j <= x) /\ k \in 1..Len(r) =>
                            k \in 1..(j - 1) /\ k <= x /\ k # y + 1
      BY <1>6
    <3>3. QED
      BY ONLY <3>1, <3>2
  <2>2. p[k] = q[k] /\ q[k] < r[k]
    BY <1>2, <1>3, <2>1 DEF Lower
  <2>3. \A i \in 1..(k - 1) : p[i] = r[i]
    <3>1. \A i \in 1..(k - 1) : i \in 1..(j - 1)
      BY <1>6
    <3>2. QED
      BY <1>2, <1>3, <3>1 DEF Lower
  <2>4. Lower(p, r, k)
    BY <2>1, <2>2, <2>3 DEF Lower
  <2>5. QED
    BY <2>4, BeforeIsLower
<1>7. QED
  BY <1>4, <1>5, <1>6

LEMMA BeforeTotal ==
  ASSUME NEW p \in Seq(Nat), NEW q \in Seq(Nat), p # q
  PROVE  Before(p, q) \/ Before(q, p)
<1> DEFINE D == {k \in Nat \ {0} : \/ k > Len(p) \/ k > Len(q)
                                   \/ p[k] # q[k]}
<1>1. /\ Len(p) \in Nat /\ Len(q) \in Nat
      /\ \A k \in 1..Len(p) : p[k] \in Nat
      /\ \A k \in 1..Len(q) : q[k] \in Nat
  BY LenProperties, ElementOfSeq
<1>2. D \in SUBSET Nat /\ Len(p) + 1 \in D
  BY <1>1
<1>3. PICK m \in D : \A k \in D : m <= k
  <2> HIDE DEF D
  <2>1. QED
    BY <1>2, Least
<1>4. /\ m \in Nat \ {0} /\ m <= Len(p) + 1
      /\ m > Len(p) \/ m > Len(q) \/ p[m] # q[m]
  BY <1>2, <1>3
<1>5. ASSUME NEW i \in 1..(m - 1) PROVE p[i] = q[i] /\ i <= Len(p) /\ i <= Len(q)
  <2>1. i \in Nat \ {0} /\ ~(m <= i)
    BY <1>4
  <2>2. i \notin D
    BY <1>3, <2>1
  <2>3. QED
    BY <1>1, <2>1, <2>2
<1>6. m <= Len(q) + 1
  <2>1. CASE m = 1
    BY <1>1, <2>1
  <2>2. CASE m # 1
    <3>1. m - 1 \in 1..(m - 1)
      BY <1>4, <2>2
    <3>2. m - 1 <= Len(q)
      BY <1>5, <3>1
    <3>3. QED
      BY <1>1, <1>4, <3>2
  <2>3. QED
    BY <2>1, <2>2
<1> HIDE DEF D
<1>7. CASE m > Len(p) /\ m > Len(q)
  <2>1. Len(p) = Len(q) /\ m - 1 = Len(p)
    BY <1>1, <1>4, <1>6, <1>7
  <2>2. \A i \in 1..Len(p) : p[i] = q[i]
    BY <1>5, <2>1
  <2>3. QED
    BY <2>1, <2>2, SeqEqual
<1>8. CASE m > Len(p) /\ ~(m > Len(q))
  <2>1. m = Len(p) + 1 /\ m \in 1..Len(q)
    BY <1>1, <1>4, <1>8
  <2>2. Lower(p, q, m)
    BY <1>5, <2>1 DEF Lower
  <2>3. QED
    BY <1>4, <2>2, BeforeIsLower
<1>9. CASE m > Len(q) /\ ~(m > Len(p))
  <2>1. m = Len(q) + 1 /\ m \in 1..Len(p)
    BY <1>1, <1>4, <1>6, <1>9
  <2>2. Lower(q, p, m)
    BY <1>5, <2>1 DEF Lower
  <2>3. QED
    BY <1>4, <2>2, BeforeIsLower
<1>10. CASE ~(m > Len(p)) /\ ~(m > Len(q))
  <2>1. m \in 1..Len(p) /\ m \in 1..Len(q) /\ p[m] # q[m] /\ m <= Len(p) /\ m <= Len(q)
    BY <1>1, <1>4, <1>10
  <2>2. p[m] < q[m] \/ q[m] < p[m]
    BY <1>1, <2>1
  <2>3. Lower(p, q, m) \/ Lower(q, p, m)
    BY <1>5, <2>1, <2>2 DEF Lower
  <2>4. QED
    BY <1>4, <2>3, BeforeIsLower
<1>11. QED
  BY <1>7, <1>8, <1>9, <1>10

(* The array of the treeset has its elements in order.                     *)
LEMMA SortedInOrder ==
  ASSUME NEW S \in SUBSET Seq(Nat), IsFiniteSet(S)
  PROVE  /\ Cardinality(S) \in Nat
         /\ \A i \in 1..Cardinality(S) : Sorted(S)[i] \in S
         /\ \A i, j \in 1..Cardinality(S) : i < j => Before(Sorted(S)[i], Sorted(S)[j])
         /\ \A p \in S : \E i \in 1..Cardinality(S) : Sorted(S)[i] = p
<1> DEFINE R == {z \in S \X S : Before(z[1], z[2])}
           n == Cardinality(S)
           r(p) == Rank(R, S, p)
<1>1. n \in Nat
  BY FS_CardinalityType
<1>2. \A p, q \in S : <<p, q>> \in R <=> Before(p, q)
  OBVIOUS
<1>3. Orders(R, S)
  <2> HIDE DEF R
  <2>1. \A p, q, t \in S : <<p, q>> \in R /\ <<q, t>> \in R => <<p, t>> \in R
    BY <1>2, BeforeTransitive
  <2>2. \A p, q \in S : p = q \/ <<p, q>> \in R \/ <<q, p>> \in R
    BY <1>2, BeforeTotal
  <2>3. \A p \in S : <<p, p>> \notin R
    BY <1>2, NotBeforeItself
  <2>4. QED
    BY <2>1, <2>2, <2>3 DEF Orders
<1>4. \A p \in S : r(p) = Cardinality({q \in S : Before(q, p)})
  <2>1. ASSUME NEW p \in S PROVE {q \in S : <<q, p>> \in R} = {q \in S : Before(q, p)}
    BY <1>2
  <2>2. QED
    BY <2>1 DEF Rank
<1>5. /\ \A p \in S : r(p) \in 0..(n - 1)
      /\ \A p, q \in S : r(p) < r(q) <=> <<p, q>> \in R
      /\ \A i \in 0..(n - 1) : \E p \in S : r(p) = i
  <2> HIDE DEF R
  <2>1. QED
    BY <1>3, Ranks
<1> HIDE DEF r, R, n
<1>6. ASSUME NEW i \in 1..n PROVE Sorted(S)[i] \in S /\ r(Sorted(S)[i]) = i - 1
  <2>1. i - 1 \in 0..(n - 1)
    BY <1>1
  <2>2. \E p \in S : Cardinality({q \in S : Before(q, p)}) = i - 1
    BY <1>4, <1>5, <2>1
  <2>3. Sorted(S)[i] = CHOOSE p \in S : Cardinality({q \in S : Before(q, p)}) = i - 1
    BY DEF Sorted, n
  <2>4. QED
    BY <1>4, <2>2, <2>3
<1>7. ASSUME NEW i \in 1..n, NEW j \in 1..n, i < j
      PROVE  Before(Sorted(S)[i], Sorted(S)[j])
  <2>1. i - 1 < j - 1
    BY <1>1, <1>7
  <2>2. QED
    BY <1>2, <1>5, <1>6, <2>1
<1>8. ASSUME NEW p \in S PROVE \E i \in 1..n : Sorted(S)[i] = p
  <2>1. r(p) + 1 \in 1..n /\ (r(p) + 1) - 1 = r(p)
    BY <1>1, <1>5
  <2>2. Sorted(S)[r(p) + 1] \in S /\ r(Sorted(S)[r(p) + 1]) = r(p)
    BY <1>6, <2>1
  <2> DEFINE q == Sorted(S)[r(p) + 1]
  <2>3. q \in S /\ r(q) = r(p)
    BY <2>2
  <2> HIDE DEF q
  <2>4. ~(r(q) < r(p)) /\ ~(r(p) < r(q))
    BY <1>1, <1>5, <2>3
  <2>5. q = p
    BY <1>3, <1>5, <2>3, <2>4 DEF Orders
  <2>6. QED
    BY <2>1, <2>5 DEF q
<1>9. QED
  BY <1>1, <1>6, <1>7, <1>8 DEF n
-----------------------------------------------------------------------------
\* The types that pass for a directory.
DirectoryTypes == {DT_DIR} \cup LeftOut

(* What the search finds: what it passes over is of one of these types.    *)
Found(tree, argument) ==
  LET start == Place(argument)
      Ways(p) == {SubSeq(p, 1, k) : k \in Len(start)..(Len(p) - 1)}
  IN  {p \in DOMAIN tree :
         /\ Len(p) > Len(start) /\ SubSeq(p, 1, Len(start)) = start
         /\ Len(p) - Len(start) <= OpenMax
         /\ p[Len(p)] \in Matching /\ tree[p].type \notin DirectoryTypes
         /\ \A q \in Ways(p) : tree[q].opens /\ (q = start \/ tree[q].type \in DirectoryTypes)}

(* The directories from an argument's place down to q have been seen as    *)
(* such, and opened.                                                       *)
Way(a, q) ==
  \A k \in Len(Place(a))..Len(q) :
    /\ fs[SubSeq(q, 1, k)].opens
    /\ k = Len(Place(a)) \/ fs[SubSeq(q, 1, k)].type \in DirectoryTypes

(* d is the string of a directory s below the argument a.                  *)
LeadsTo(a, d, s) ==
  /\ s \in Seq(Nat) /\ Place(d) = Place(a) \o s
  /\ d = Strip(a) \o s \/ d = Prefix(a) \o s

DirectoryBelow(a, d, n) ==
  /\ \E s : LeadsTo(a, d, s) /\ Len(s) = n
  /\ past = {fs} => Way(a, Place(d))

\* An entry that a stream of the directory d returned.
Listed(d, e) ==
  /\ e.name \in Names /\ e.type \in FileTypes
  /\ \E t \in past : /\ Append(Place(d), e.name) \in DOMAIN t
                     /\ t[Append(Place(d), e.name)].type = e.type

(* What PrintsOnlyFiles says of a line, for the argument a.                *)
FileBelow(a, line) ==
  LET p == Place(line)
      below == SubSeq(p, Len(Place(a)) + 1, Len(p))
  IN  /\ line \in {Strip(a) \o below, Prefix(a) \o below}
      /\ \E t \in past : p \in DOMAIN t /\ t[p].type \notin DirectoryTypes
      /\ p[Len(p)] \in Matching
      /\ Cardinality(past) = 1 => p \in Found(fs, a)

LEMMA DirectoryBits ==
  ASSUME NEW type \in FileTypes, NEW name
  PROVE  IsDirectory([name |-> name, type |-> type]) <=> type \in DirectoryTypes
BY DEF IsDirectory, FileTypes, DirectoryTypes, LeftOut, DT_DIR

LEMMA ListedBits ==
  ASSUME NEW d, NEW e \in Entry, Listed(d, e)
  PROVE  IsDirectory(e) <=> e.type \in DirectoryTypes
BY DirectoryBits DEF Listed, Entry, IsDirectory

LEMMA TreeFacts ==
  ASSUME NEW t \in Trees
  PROVE  /\ \A p \in DOMAIN t : p \in Seq(Names) /\ p \in Seq(Nat) /\ t[p].type \in FileTypes
         /\ << >> \in DOMAIN t
<1>1. Names \subseteq Nat
  BY DEF Names
<1>2. ASSUME NEW p \in Seq(Names) PROVE p \in Seq(Nat)
  BY <1>1, SeqMonotonic
<1>3. QED
  BY <1>2, FileCrawlerAssumption

(* A stream lists the entries of its directory.                            *)
LEMMA StreamListed ==
  ASSUME fs \in Trees, fs \in past, NEW d, Place(d) \in Seq(Nat), NEW e \in Stream(d)
  PROVE  Listed(d, e)
<1>1. e \in Entries(fs, Place(d)) /\ e.name # Dot /\ e.name # DotDot
  BY DEF Stream
<1>2. PICK p \in DOMAIN fs : /\ p # << >> /\ SubSeq(p, 1, Len(p) - 1) = Place(d)
                             /\ e = [name |-> p[Len(p)], type |-> fs[p].type]
  BY <1>1 DEF Entries
<1>3. p \in Seq(Names) /\ p \in Seq(Nat) /\ fs[p].type \in FileTypes
  BY TreeFacts
<1>4. Len(p) \in Nat \ {0} /\ p = Append(Place(d), p[Len(p)])
  BY <1>2, <1>3, Ending
<1>5. p[Len(p)] \in Names
  BY <1>3, <1>4, ElementOfSeq
<1>6. QED
  BY <1>2, <1>3, <1>4, <1>5 DEF Listed

(* The directory of an argument.                                           *)
LEMMA ArgumentDirectory ==
  ASSUME NEW a \in Path, Opens(Strip(a))
  PROVE  DirectoryBelow(a, Strip(a), 0) /\ DirectoryBelow(a, Prefix(a), 0)
<1>1. Place(Strip(a)) = Place(a) /\ Place(Prefix(a)) = Place(a)
  BY SamePlace
<1>2. Place(a) \in Seq(Nat) /\ Strip(a) \in Seq(Nat) /\ Prefix(a) \in Seq(Nat) /\ << >> \in Seq(Nat)
  BY PathOperators, PlaceIs DEF Path
<1>3. /\ Place(a) \o << >> = Place(a) /\ Strip(a) \o << >> = Strip(a)
      /\ Prefix(a) \o << >> = Prefix(a) /\ Len(<< >>) = 0
  BY <1>2, ConcatEmptySeq
<1>4. LeadsTo(a, Strip(a), << >>) /\ LeadsTo(a, Prefix(a), << >>)
  BY <1>1, <1>2, <1>3 DEF LeadsTo
<1>5. Way(a, Place(a))
  <2>1. SubSeq(Place(a), 1, Len(Place(a))) = Place(a) /\ fs[Place(a)].opens
    BY <1>1, <1>2, SubSeqFull DEF Opens
  <2>2. \A k \in Len(Place(a))..Len(Place(a)) : k = Len(Place(a))
    BY <1>2, LenProperties
  <2>3. QED
    BY <2>1, <2>2 DEF Way
<1>6. QED
  BY <1>1, <1>3, <1>4, <1>5 DEF DirectoryBelow

LEMMA AppendBehind ==
  ASSUME NEW x \in Seq(Nat), NEW s \in Seq(Nat), NEW e \in Nat
  PROVE  Append(x \o s, e) = x \o Append(s, e)
<1>1. x \o s \in Seq(Nat) /\ <<e>> \in Seq(Nat)
  BY ConcatProperties
<1>2. Append(x \o s, e) = (x \o s) \o <<e>> /\ Append(s, e) = s \o <<e>>
  BY <1>1, AppendIsConcat
<1>3. (x \o s) \o <<e>> = x \o (s \o <<e>>)
  BY <1>1, ConcatAssociative
<1>4. QED
  BY <1>2, <1>3

(* What is below an entry's directory is below the argument.               *)
LEMMA LeadsOn ==
  ASSUME NEW a \in Path, NEW d \in Path, NEW s, LeadsTo(a, d, s), NEW name \in Names
  PROVE  /\ LeadsTo(a, Append(d, name), Append(s, name)) /\ Len(Append(s, name)) = Len(s) + 1
         /\ Place(Append(d, name)) = Append(Place(d), name)
<1>1. /\ name \in Nat /\ s \in Seq(Nat) /\ Strip(a) \in Seq(Nat) /\ Prefix(a) \in Seq(Nat)
      /\ Place(a) \in Seq(Nat)
  BY PathOperators, PlaceIs DEF Path, Names, LeadsTo
<1>2. Append(s, name) \in Seq(Nat) /\ Len(Append(s, name)) = Len(s) + 1
  BY <1>1, AppendProperties
<1>3. Place(Append(d, name)) = Append(Place(d), name)
  BY EntryPath
<1>4. ASSUME NEW x \in Seq(Nat) PROVE Append(x \o s, name) = x \o Append(s, name)
  BY <1>1, AppendBehind
<1>5. QED
  BY <1>1, <1>2, <1>3, <1>4 DEF LeadsTo

LEMMA EntryDirectory ==
  ASSUME fs \in Trees, NEW a \in Path, NEW d \in Path, NEW n \in Nat, DirectoryBelow(a, d, n),
         NEW e \in Entry, Listed(d, e), IsDirectory(e), Opens(Append(d, e.name))
  PROVE  DirectoryBelow(a, Append(d, e.name), n + 1)
<1> DEFINE c == Append(d, e.name)
<1>1. PICK s : LeadsTo(a, d, s) /\ Len(s) = n
  BY DEF DirectoryBelow
<1>2. e.name \in Names /\ e.name \in Nat
  BY DEF Listed, Names
<1>3. LeadsTo(a, c, Append(s, e.name)) /\ Len(Append(s, e.name)) = n + 1
      /\ Place(c) = Append(Place(d), e.name)
  BY <1>1, <1>2, LeadsOn
<1>4. ASSUME past = {fs} PROVE Way(a, Place(c))
  <2>1. Place(d) \in Seq(Nat) /\ Place(a) \in Seq(Nat)
    BY PlaceIs DEF Path
  <2>2. Len(Place(d)) \in Nat /\ Len(Place(a)) \in Nat /\ Len(Place(c)) = Len(Place(d)) + 1
        /\ Place(c) \in Seq(Nat)
    BY <1>2, <1>3, <2>1, LenProperties, AppendProperties
  <2>3. Len(Place(d)) >= Len(Place(a))
    <3>1. Place(d) = Place(a) \o s /\ s \in Seq(Nat)
      BY <1>1 DEF LeadsTo
    <3>2. Len(Place(d)) = Len(Place(a)) + Len(s) /\ Len(s) \in Nat
      BY <2>1, <3>1, ConcatProperties, LenProperties
    <3>3. QED
      BY <2>2, <3>2
  <2>4. ASSUME NEW k \in Len(Place(a))..Len(Place(d))
        PROVE  /\ fs[SubSeq(Place(c), 1, k)].opens
               /\ k = Len(Place(a)) \/ fs[SubSeq(Place(c), 1, k)].type \in DirectoryTypes
    <3>1. k \in 0..Len(Place(d))
      BY <2>2
    <3>2. SubSeq(Place(c), 1, k) = SubSeq(Place(d), 1, k)
      BY <1>2, <1>3, <2>1, <3>1, Beginnings
    <3>3. Way(a, Place(d))
      BY <1>4 DEF DirectoryBelow
    <3>4. QED
      BY <3>2, <3>3 DEF Way
  <2>5. /\ fs[SubSeq(Place(c), 1, Len(Place(c)))].opens
        /\ fs[SubSeq(Place(c), 1, Len(Place(c)))].type \in DirectoryTypes
    <3>1. SubSeq(Place(c), 1, Len(Place(c))) = Place(c)
      BY <2>2, SubSeqFull
    <3>2. fs[Place(c)].opens
      BY DEF Opens
    <3>3. fs[Place(c)].type = e.type
      BY <1>3, <1>4 DEF Listed
    <3>4. QED
      BY <3>1, <3>2, <3>3, ListedBits
  <2>6. \A k \in Len(Place(a))..Len(Place(c)) : k \in Len(Place(a))..Len(Place(d)) \/ k = Len(Place(c))
    BY <2>2, <2>3
  <2> HIDE DEF c
  <2>7. QED
    BY <2>4, <2>5, <2>6 DEF Way
<1> HIDE DEF c
<1>5. DirectoryBelow(a, c, n + 1)
  BY <1>3, <1>4 DEF DirectoryBelow
<1>6. QED
  BY <1>5 DEF c

(* A file that matches, in a directory that fewer than OpenMax others lead *)
(* to, is one the search should find.                                      *)
LEMMA EntryFile ==
  ASSUME fs \in Trees, fs \in past, IsFiniteSet(past),
         NEW a \in Path, NEW d \in Path, NEW n \in 0..(OpenMax - 1), DirectoryBelow(a, d, n),
         NEW e \in Entry, Listed(d, e), ~IsDirectory(e), e.name \in Matching
  PROVE  FileBelow(a, Append(d, e.name))
<1> DEFINE c == Append(d, e.name)
           p == Place(c)
           start == Place(a)
<1>1. PICK s : LeadsTo(a, d, s) /\ Len(s) = n
  BY DEF DirectoryBelow
<1>2. e.name \in Names /\ e.name \in Nat
  BY DEF Listed, Names
<1> DEFINE u == Append(s, e.name)
<1>3. LeadsTo(a, c, u) /\ Len(u) = n + 1 /\ p = Append(Place(d), e.name)
  BY <1>1, <1>2, LeadsOn
<1>4. /\ start \in Seq(Nat) /\ u \in Seq(Nat) /\ Place(d) \in Seq(Nat)
      /\ p = start \o u /\ c \in {Strip(a) \o u, Prefix(a) \o u}
      /\ n \in Nat /\ n + 1 <= OpenMax
  <2>1. u \in Seq(Nat) /\ p = start \o u /\ c \in {Strip(a) \o u, Prefix(a) \o u}
    BY <1>3 DEF LeadsTo
  <2>2. a \in Seq(Nat) /\ d \in Seq(Nat)
    BY DEF Path
  <2>3. start \in Seq(Nat) /\ Place(d) \in Seq(Nat)
    BY <2>2, PlaceIs
  <2>4. n \in Nat /\ n + 1 <= OpenMax
    BY FileCrawlerAssumption
  <2>5. QED
    BY <2>1, <2>3, <2>4
<1> HIDE DEF u, c, p, start
<1>5. /\ SubSeq(p, 1, Len(start)) = start /\ SubSeq(p, Len(start) + 1, Len(p)) = u
      /\ Len(p) = Len(start) + (n + 1) /\ Len(start) \in Nat /\ Len(p) \in Nat
  <2>1. SubSeq(p, 1, Len(start)) = start /\ SubSeq(p, Len(start) + 1, Len(p)) = u
    BY <1>4, Parts
  <2>2. Len(p) = Len(start) + Len(u) /\ Len(start) \in Nat
    BY <1>4, ConcatProperties, LenProperties
  <2>3. QED
    BY <1>3, <1>4, <2>1, <2>2
<1>6. p[Len(p)] = e.name /\ Len(p) = Len(Place(d)) + 1 /\ Len(Place(d)) \in Nat
  <2>1. Len(Place(d)) \in Nat
    BY <1>4, LenProperties
  <2>2. p = Append(Place(d), e.name)
    BY <1>3
  <2>3. Place(d) \in Seq(Nat) /\ e.name \in Nat
    BY <1>2, <1>4
  <2>4. Len(p) = Len(Place(d)) + 1 /\ p[Len(Place(d)) + 1] = e.name
    BY <2>2, <2>3, AppendProperties
  <2>5. QED
    BY <2>1, <2>4
<1>7. PICK t \in past : p \in DOMAIN t /\ t[p].type = e.type
  BY <1>3 DEF Listed, p
<1>8. t[p].type \notin DirectoryTypes
  BY <1>7, ListedBits
<1>9. ASSUME Cardinality(past) = 1 PROVE p \in Found(fs, a)
  <2>1. past = {fs}
    BY <1>9, FS_Singleton
  <2>2. t = fs /\ Way(a, Place(d))
    BY <2>1 DEF DirectoryBelow
  <2>3. ASSUME NEW k \in Len(start)..(Len(p) - 1)
        PROVE  LET q == SubSeq(p, 1, k)
               IN  fs[q].opens /\ (q = start \/ fs[q].type \in DirectoryTypes)
    <3>1. k \in 0..Len(Place(d)) /\ k \in Len(start)..Len(Place(d))
      BY <1>5, <1>6
    <3>2. SubSeq(p, 1, k) = SubSeq(Place(d), 1, k)
      <4>1. p = Append(Place(d), e.name)
        BY <1>3
      <4>2. Place(d) \in Seq(Nat) /\ e.name \in Nat
        BY <1>2, <1>4
      <4>3. QED
        BY <3>1, <4>1, <4>2, Beginnings
    <3>3. /\ fs[SubSeq(p, 1, k)].opens
          /\ k = Len(start) \/ fs[SubSeq(p, 1, k)].type \in DirectoryTypes
      BY <2>2, <3>1, <3>2 DEF Way, start
    <3>4. QED
      BY <1>5, <3>3
  <2> DEFINE Ways == {SubSeq(p, 1, k) : k \in Len(start)..(Len(p) - 1)}
  <2>4. \A q \in Ways : fs[q].opens /\ (q = start \/ fs[q].type \in DirectoryTypes)
    BY <2>3
  <2>5. Len(p) > Len(start) /\ Len(p) - Len(start) <= OpenMax
    <3>1. n \in Nat /\ n + 1 <= OpenMax
      BY <1>4
    <3>2. OpenMax \in Nat
      BY FileCrawlerAssumption
    <3>3. Len(p) = Len(start) + (n + 1) /\ Len(start) \in Nat
      BY <1>5
    <3>4. QED
      BY <3>1, <3>2, <3>3
  <2>6. p \in DOMAIN fs /\ fs[p].type \notin DirectoryTypes /\ p[Len(p)] \in Matching
    BY <1>6, <1>7, <1>8, <2>2
  <2>7. QED
    BY <1>5, <2>4, <2>5, <2>6 DEF Found, start
<1>10. FileBelow(a, c)
  <2>1. p = Place(c) /\ start = Place(a)
    BY DEF p, start
  <2>2. /\ c \in {Strip(a) \o u, Prefix(a) \o u} /\ SubSeq(p, Len(start) + 1, Len(p)) = u
        /\ \E x \in past : p \in DOMAIN x /\ x[p].type \notin DirectoryTypes
        /\ p[Len(p)] \in Matching
    BY <1>4, <1>5, <1>6, <1>7, <1>8
  <2>3. QED
    BY <1>9, <2>1, <2>2 DEF FileBelow
<1>11. QED
  BY <1>10 DEF c
-----------------------------------------------------------------------------
(* A directory that fewer than OpenMax others lead to from an argument.    *)
From(d) == \E a \in Given : \E n \in 0..(OpenMax - 1) : DirectoryBelow(a, d, n)

\* The k-th call of processDirectory is in a directory that k - 1 others lead to.
Calls(stack) ==
  \A k \in 1..Len(stack) : /\ \E a \in Given : DirectoryBelow(a, stack[k].dir, k - 1)
                           /\ \A e \in stack[k].rest : Listed(stack[k].dir, e)

Noted(l) == \A k \in 1..Len(l) : From(l[k])

Scanned(s) == s # NoScan => From(s.dir) /\ \A e \in s.rest : Listed(s.dir, e)

Wanted(line) == \E a \in Given : FileBelow(a, line)

Ascending(lines) ==
  \A i, j \in DOMAIN lines : i < j => lines[j] = Garbage \/ Before(lines[i], lines[j])

(* What has been printed is the beginning of the array, whose end nobody   *)
(* has written.                                                            *)
Printing ==
  /\ it = [next |-> Len(out), size |-> Cardinality(set) + lost, elements |-> Sorted(set)]
  /\ Len(out) <= Cardinality(set) + lost
  /\ \A i \in 1..Len(out) : out[i] = IF i <= Cardinality(set) THEN Sorted(set)[i] ELSE Garbage

Output ==
  /\ out \in Seq(Seq(Nat))
  /\ at.main \notin {"print", "done", "end", "killed"} => out = << >>
  /\ at.main = "print" => Printing
  /\ Ascending(out) /\ \A i \in 1..Len(out) : out[i] = Garbage \/ Wanted(out[i])

Contents ==
  /\ Calls(frames) /\ Noted(list) /\ Scanned(scan)
  /\ set \subseteq Seq(Nat) /\ \A line \in set : Wanted(line)
  /\ Output

(* On the way to what it finds there are but directories.                  *)
LEMMA FoundAreFiles ==
  ASSUME NEW t \in Trees, NEW a \in Path, NEW p \in Found(t, a)
  PROVE  p \in Files(t, a)
<1> DEFINE start == Place(a)
<1>1. /\ p \in DOMAIN t /\ Len(p) > Len(start) /\ SubSeq(p, 1, Len(start)) = start
      /\ Len(p) - Len(start) <= OpenMax /\ p[Len(p)] \in Matching
      /\ t[p].type \notin DirectoryTypes
      /\ \A k \in Len(start)..(Len(p) - 1) :
           /\ t[SubSeq(p, 1, k)].opens
           /\ SubSeq(p, 1, k) = start \/ t[SubSeq(p, 1, k)].type \in DirectoryTypes
  BY DEF Found
<1>2. Len(start) \in Nat /\ Len(p) \in Nat
  <2>1. p \in Seq(Nat) /\ start \in Seq(Nat)
    BY <1>1, TreeFacts, PlaceIs DEF Path
  <2>2. QED
    BY <2>1, LenProperties
<1>3. ASSUME NEW k \in Len(start)..(Len(p) - 1), SubSeq(p, 1, k) # start
      PROVE  t[SubSeq(p, 1, k)].type = DT_DIR
  <2>1. k \in 0..Len(p)
    BY <1>2
  <2>2. SubSeq(p, 1, k) \in DOMAIN t
    BY <1>1, <2>1, FileCrawlerAssumption
  <2>3. t[SubSeq(p, 1, k)].type \in {0, DT_DIR}
    BY <1>1, <2>2, FileCrawlerAssumption
  <2>4. t[SubSeq(p, 1, k)].type \in DirectoryTypes
    BY <1>1, <1>3
  <2>5. QED
    BY <2>3, <2>4 DEF DirectoryTypes, LeftOut, DT_DIR
<1>4. t[p].type # DT_DIR
  BY <1>1 DEF DirectoryTypes
<1> HIDE DEF start
<1>5. \A q \in {SubSeq(p, 1, k) : k \in Len(start)..(Len(p) - 1)} :
        t[q].opens /\ (q = start \/ t[q].type = DT_DIR)
  BY <1>1, <1>3
<1>6. QED
  BY <1>1, <1>4, <1>5 DEF Files, start

(* A file that the search should find, and that it does not leave out, is  *)
(* found.                                                                  *)
LEMMA FilesAreFound ==
  ASSUME NEW t, NEW a, NEW p \in Files(t, a), t[p].type \notin LeftOut
  PROVE  p \in Found(t, a)
BY DEF Files, Found, DirectoryTypes

LEMMA GivenArePaths == IInv => \A a \in Given : a \in Path
<1>1. SUFFICES ASSUME IInv, NEW a \in Given PROVE a \in Path
  OBVIOUS
<1>2. PICK i \in DOMAIN args : a = args[i]
  BY DEF Given
<1>3. args \in Arguments
  BY <1>1 DEF IInv, TypeInv
<1>4. args \in Seq(Seq(Nat)) /\ Len(args[i]) > 0
  BY <1>3, FileCrawlerAssumption
<1>5. args[i] \in Seq(Nat)
  BY <1>4, ElementOfSeq
<1>6. QED
  BY <1>2, <1>4, <1>5 DEF Path

LEMMA LinesImplied == IInv /\ Contents => PrintsOnlyFiles
<1>1. SUFFICES ASSUME IInv, Contents PROVE PrintsOnlyFiles
  OBVIOUS
<1>2. /\ DOMAIN out = 1..Len(out) /\ Ascending(out)
      /\ \A i \in 1..Len(out) : out[i] = Garbage \/ Wanted(out[i])
  BY <1>1 DEF Contents, Output
<1>3. ASSUME NEW a \in Given, NEW line, FileBelow(a, line)
      PROVE  LET p == Place(line)
                 below == SubSeq(p, Len(Place(a)) + 1, Len(p))
             IN  /\ line \in {Strip(a) \o below, Prefix(a) \o below}
                 /\ \E t \in past : p \in DOMAIN t /\ t[p].type # DT_DIR
                 /\ p[Len(p)] \in Matching
                 /\ Cardinality(past) = 1 => p \in Files(fs, a)
  <2>1. a \in Path /\ fs \in Trees
    BY <1>1, GivenArePaths DEF IInv, TypeInv
  <2>2. \A t : t[Place(line)].type \notin DirectoryTypes => t[Place(line)].type # DT_DIR
    BY DEF DirectoryTypes
  <2>3. Place(line) \in Found(fs, a) => Place(line) \in Files(fs, a)
    BY <2>1, FoundAreFiles
  <2>4. QED
    BY <1>3, <2>2, <2>3 DEF FileBelow
<1>4. \A i \in DOMAIN out : out[i] # Garbage => \E a \in Given : FileBelow(a, out[i])
  BY <1>2 DEF Wanted
<1>5. QED
  BY <1>2, <1>3, <1>4 DEF Ascending, PrintsOnlyFiles

LEMMA ContentsInit == Init => Contents
<1>1. SUFFICES ASSUME Init PROVE Contents
  OBVIOUS
<1>2. frames = << >> /\ list = << >> /\ scan = NoScan /\ set = {} /\ out = << >> /\ at.main = "start"
  BY <1>1 DEF Init, LL!ListInit, TS!SortedSetInit
<1>3. Calls(frames) /\ Noted(list) /\ Scanned(scan) /\ Ascending(out)
  BY <1>2 DEF Calls, Noted, Scanned, Ascending
<1>4. Output
  BY <1>2, <1>3 DEF Output
<1>5. QED
  BY <1>2, <1>3, <1>4 DEF Contents

(* What was there stays there, while the file system does not change, ...  *)
LEMMA SameFiles ==
  ASSUME UNCHANGED <<fs, past, args>>
  PROVE  /\ \A stack : Calls(stack)' <=> Calls(stack)
         /\ \A l : Noted(l)' <=> Noted(l)
         /\ \A s : Scanned(s)' <=> Scanned(s)
         /\ \A line : Wanted(line)' <=> Wanted(line)
<1>1. /\ \A a, d, n : DirectoryBelow(a, d, n)' <=> DirectoryBelow(a, d, n)
      /\ \A d, e : Listed(d, e)' <=> Listed(d, e)
      /\ \A a, line : FileBelow(a, line)' <=> FileBelow(a, line)
      /\ Given' = Given
  BY DEF DirectoryBelow, LeadsTo, Way, Listed, FileBelow, Given
<1>2. \A d : From(d)' <=> From(d)
  BY <1>1 DEF From
<1>3. QED
  BY <1>1, <1>2 DEF Calls, Noted, Scanned, Wanted

(* ... and if it changes, it is only said of a file that there was one.    *)
LEMMA ChangedFiles ==
  ASSUME Limits, Change
  PROVE  /\ \A stack : Calls(stack) => Calls(stack)'
         /\ \A l : Noted(l) => Noted(l)'
         /\ \A s : Scanned(s) => Scanned(s)'
         /\ \A line : Wanted(line) => Wanted(line)'
<1>1. /\ fs \in past /\ IsFiniteSet(past) /\ fs' \notin past /\ past' = past \cup {fs'} /\ args' = args
      /\ past \subseteq past'
  BY DEF Limits, Change
<1>2. past' # {fs'} /\ Cardinality(past') # 1
  <2>1. fs \in past' /\ fs' \in past' /\ fs # fs'
    BY <1>1
  <2>2. IsFiniteSet(past')
    BY <1>1, FS_AddElement
  <2>3. ASSUME Cardinality(past') = 1 PROVE FALSE
    <3>1. \E x : past' = {x}
      BY <2>2, <2>3, FS_Singleton
    <3>2. QED
      BY <2>1, <3>1
  <2>4. QED
    BY <2>1, <2>3
<1>3. ASSUME NEW a, NEW d, NEW n, DirectoryBelow(a, d, n) PROVE DirectoryBelow(a, d, n)'
  <2>1. \E s : LeadsTo(a, d, s)' /\ Len(s) = n
    BY <1>3 DEF DirectoryBelow, LeadsTo
  <2>2. QED
    BY <1>2, <2>1 DEF DirectoryBelow
<1>4. \A d, e : Listed(d, e) => Listed(d, e)'
  BY <1>1 DEF Listed
<1>5. ASSUME NEW a, NEW line, FileBelow(a, line) PROVE FileBelow(a, line)'
  <2> DEFINE p == Place(line)
             below == SubSeq(p, Len(Place(a)) + 1, Len(p))
  <2>1. /\ line \in {Strip(a) \o below, Prefix(a) \o below}
        /\ \E t \in past : p \in DOMAIN t /\ t[p].type \notin DirectoryTypes
        /\ p[Len(p)] \in Matching
    BY <1>5 DEF FileBelow
  <2>2. \E t \in past' : p \in DOMAIN t /\ t[p].type \notin DirectoryTypes
    BY <1>1, <2>1
  <2>3. QED
    BY <1>2, <2>1, <2>2 DEF FileBelow
<1>6. Given' = Given
  BY <1>1 DEF Given
<1>7. \A d : From(d) => From(d)'
  BY <1>3, <1>6 DEF From
<1>8. QED
  BY <1>3, <1>4, <1>5, <1>6, <1>7 DEF Calls, Noted, Scanned, Wanted

(* The list with one directory more or one less.                           *)
LEMMA ListElements ==
  ASSUME NEW l \in Seq(Path)
  PROVE  /\ \A p \in Path :
              \A k \in 1..(Len(l) + 1) :
                LL!InsertAt(l, Len(l) + 1, p)[k] = IF k <= Len(l) THEN l[k] ELSE p
         /\ Len(l) > 0 => \A k \in 1..(Len(l) - 1) : LL!RemoveAt(l, 1)[k] = l[k + 1]
<1>1. Len(l) \in Nat
  BY LenProperties
<1>2. ASSUME NEW p \in Path, NEW k \in 1..(Len(l) + 1)
      PROVE  LL!InsertAt(l, Len(l) + 1, p)[k] = IF k <= Len(l) THEN l[k] ELSE p
  BY <1>1 DEF LL!InsertAt
<1>3. ASSUME Len(l) > 0, NEW k \in 1..(Len(l) - 1) PROVE LL!RemoveAt(l, 1)[k] = l[k + 1]
  BY <1>1, <1>3 DEF LL!RemoveAt
<1>4. QED
  BY <1>2, <1>3

LEMMA NotedMore ==
  ASSUME NEW l \in Seq(Path), Noted(l), NEW p \in Path, From(p)
  PROVE  Noted(LL!InsertAt(l, Len(l) + 1, p))
<1> DEFINE m == LL!InsertAt(l, Len(l) + 1, p)
<1>1. Len(l) \in Nat /\ Len(m) = Len(l) + 1
  BY ListAdd, LenProperties
<1>2. \A k \in 1..(Len(l) + 1) : m[k] = IF k <= Len(l) THEN l[k] ELSE p
  BY ListElements
<1> HIDE DEF m
<1>3. ASSUME NEW k \in 1..Len(m) PROVE From(m[k])
  <2>1. k \in 1..(Len(l) + 1)
    BY <1>1
  <2>2. CASE k <= Len(l)
    <3>1. k \in 1..Len(l) /\ m[k] = l[k]
      BY <1>1, <1>2, <2>1, <2>2
    <3>2. QED
      BY <3>1 DEF Noted
  <2>3. CASE ~(k <= Len(l))
    BY <1>2, <2>1, <2>3
  <2>4. QED
    BY <2>2, <2>3
<1>4. QED
  BY <1>3 DEF Noted, m

LEMMA NotedLess ==
  ASSUME NEW l \in Seq(Path), Noted(l), Len(l) > 0
  PROVE  From(l[1]) /\ Noted(LL!RemoveAt(l, 1))
<1> DEFINE m == LL!RemoveAt(l, 1)
<1>1. Len(l) \in Nat /\ Len(m) = Len(l) - 1
  BY ListRemove, LenProperties
<1>2. \A k \in 1..(Len(l) - 1) : m[k] = l[k + 1]
  BY ListElements
<1> HIDE DEF m
<1>3. ASSUME NEW k \in 1..Len(m) PROVE From(m[k])
  <2>1. k \in 1..(Len(l) - 1) /\ k + 1 \in 1..Len(l)
    BY <1>1
  <2>2. QED
    BY <1>2, <2>1 DEF Noted
<1>4. 1 \in 1..Len(l)
  BY <1>1
<1>5. QED
  BY <1>3, <1>4 DEF Noted, m

\* Nothing is printed before the loop that prints.
LEMMA StillSilent ==
  ASSUME Contents, at.main \notin {"print", "done", "end", "killed"}, out' = out, at'.main # "print"
  PROVE  Output'
<1>1. out = << >>
  BY DEF Contents, Output
<1>2. Ascending(out') /\ out' \in Seq(Seq(Nat)) /\ Len(out') = 0
  BY <1>1 DEF Ascending
<1>3. QED
  BY <1>1, <1>2 DEF Output

(* A call of processDirectory for a directory below an argument, found in  *)
(* the directory of the last call.                                         *)
LEMMA WalkContents ==
  ASSUME IInv, Limits, Contents, at.main = "walk",
         UNCHANGED <<fs, past, args, scan, set, out>>,
         NEW stack \in Seq(Frame), Len(stack) = Len(frames), Calls(stack),
         NEW path \in Path, NEW arg \in Nat \ {0}, NEW a \in Given,
         Opens(Strip(path)) => /\ DirectoryBelow(a, Strip(path), Len(stack))
                               /\ DirectoryBelow(a, Prefix(path), Len(stack)),
         processDirectory(stack, path, arg)
  PROVE  Contents'
<1> DEFINE d == Strip(path)
           call == [dir |-> Prefix(path), rest |-> Stream(d)]
<1>1. at \in [main : Places, arg : Nat \ {0}] /\ list \in Seq(Path) /\ owned \in Owned
  BY DEF IInv, TypeInv
<1>2. /\ \A s : Calls(s)' <=> Calls(s)
      /\ \A l : Noted(l)' <=> Noted(l)
      /\ \A s : Scanned(s)' <=> Scanned(s)
      /\ \A line : Wanted(line)' <=> Wanted(line)
  BY SameFiles
<1>3. Scanned(scan') /\ set' \subseteq Seq(Nat) /\ (\A line \in set' : Wanted(line))
  BY DEF Contents
<1>4. ASSUME at'.main # "print", Calls(frames'), Noted(list') PROVE Contents'
  <2>1. Output'
    BY <1>4, StillSilent
  <2>2. Calls(frames)' /\ Noted(list)' /\ Scanned(scan)'
    BY <1>2, <1>3, <1>4
  <2>3. set' \subseteq Seq(Nat) /\ \A line \in set' : Wanted(line)'
    BY <1>2, <1>3
  <2>4. QED
    BY <2>1, <2>2, <2>3 DEF Contents
<1>5. CASE Passed(stack, arg)
  <2>1. at'.main = "walk" /\ frames' = stack /\ list' = list
    BY <1>1, <1>5 DEF Passed
  <2>2. QED
    BY <1>4, <2>1 DEF Contents
<1>6. CASE GiveUp(stack) /\ UNCHANGED list
  <2>1. at'.main = "done" /\ frames' = << >>
    BY <1>1, <1>6 DEF GiveUp, Goto
  <2>2. Calls(frames')
    BY <2>1 DEF Calls
  <2>3. QED
    BY <1>4, <1>6, <2>1, <2>2 DEF Contents
<1>7. CASE Entered(stack, path, arg)
  <2>1. /\ Opens(d) /\ list' = LL!InsertAt(list, Len(list) + 1, d)
        /\ frames' = Append(stack, call) /\ at'.main = "walk"
    BY <1>1, <1>7 DEF Entered
  <2>2. d \in Path /\ Prefix(path) \in Path /\ Place(d) = Place(path)
        /\ Place(Prefix(path)) = Place(path)
    BY PathOperators, SamePlace
  <2>3. Len(stack) \in 0..(OpenMax - 1)
    <3>1. scan = NoScan
      BY DEF IInv, Placed, NoScan
    <3>2. owned.streams = Len(frames) /\ owned.streams < OpenMax
      BY <2>1, <3>1, <1>1, OwnedTypes DEF IInv, Counted, Held, Opens
    <3>3. Len(stack) \in Nat /\ OpenMax \in Nat
      BY LenProperties, FileCrawlerAssumption
    <3>4. QED
      BY <3>2, <3>3
  <2>4. /\ DirectoryBelow(a, d, Len(stack)) /\ DirectoryBelow(a, Prefix(path), Len(stack))
    BY <2>1
  <2>5. From(d)
    BY <2>3, <2>4 DEF From
  <2>6. Noted(list')
    BY <1>1, <2>1, <2>2, <2>5, NotedMore DEF Contents
  <2>7. ASSUME NEW e \in Stream(d) PROVE Listed(Prefix(path), e)
    <3>1. fs \in Trees /\ fs \in past
      BY DEF IInv, TypeInv, Limits
    <3>2. Place(d) \in Seq(Nat)
      BY <2>2, PlaceIs DEF Path
    <3>3. Listed(d, e)
      BY <3>1, <3>2, StreamListed
    <3>4. QED
      BY <2>2, <3>3 DEF Listed
  <2>8. Calls(frames')
    <3>1. call \in Frame
      BY <2>2, StreamType DEF Frame, IInv, TypeInv
    <3> DEFINE n == Len(stack)
    <3>2. call.dir = Prefix(path) /\ call.rest = Stream(d)
      OBVIOUS
    <3> HIDE DEF call
    <3>3. /\ n \in Nat /\ Len(frames') = n + 1 /\ frames'[n + 1] = call
          /\ \A k \in 1..n : frames'[k] = stack[k]
      BY <2>1, <3>1, AppendProperties, LenProperties
    <3>4. \A k \in 1..(n + 1) : k \in 1..n \/ k = n + 1
      BY <3>3
    <3>5. (n + 1) - 1 = n
      BY <3>3
    <3>6. ASSUME NEW k \in 1..n
          PROVE  /\ \E b \in Given : DirectoryBelow(b, frames'[k].dir, k - 1)
                 /\ \A e \in frames'[k].rest : Listed(frames'[k].dir, e)
      BY <3>3 DEF Calls
    <3>7. /\ \E b \in Given : DirectoryBelow(b, frames'[n + 1].dir, (n + 1) - 1)
          /\ \A e \in frames'[n + 1].rest : Listed(frames'[n + 1].dir, e)
      BY <2>4, <2>7, <3>2, <3>3, <3>5
    <3>8. QED
      BY <3>3, <3>4, <3>6, <3>7 DEF Calls
  <2>9. QED
    BY <1>4, <2>1, <2>6, <2>8
<1>8. QED
  BY <1>5, <1>6, <1>7, ProcessDirectoryWays

LEMMA WalkArgumentContents == IInv /\ Limits /\ Contents /\ WalkArgument => Contents'
<1>1. SUFFICES ASSUME IInv, Limits, Contents, WalkArgument PROVE Contents'
  OBVIOUS
<1>2. args[at.arg] \in Path /\ at.arg + 1 \in Nat \ {0} /\ args[at.arg] \in Given
  <2>1. at.arg \in Nat \ {0} /\ at.arg <= Len(args) /\ args \in Arguments
    BY <1>1 DEF IInv, TypeInv, WalkArgument
  <2>2. args \in Seq(Seq(Nat))
    BY <2>1, FileCrawlerAssumption
  <2>3. DOMAIN args = 1..Len(args) /\ Len(args) \in Nat
    BY <2>2, LenProperties
  <2>4. QED
    BY <2>1, <2>3, ArgumentsArePaths DEF Given
<1>3. UNCHANGED <<fs, past, args, scan, set, out>> /\ at.main = "walk" /\ frames = << >>
  BY <1>1 DEF WalkArgument, afterWalk
<1>4. << >> \in Seq(Frame) /\ Len(<< >>) = Len(frames) /\ Len(<< >>) = 0 /\ Calls(<< >>)
  BY <1>3 DEF Calls
<1>5. processDirectory(<< >>, args[at.arg], at.arg + 1)
  BY <1>1 DEF WalkArgument
<1>6. Opens(Strip(args[at.arg])) =>
        /\ DirectoryBelow(args[at.arg], Strip(args[at.arg]), Len(<< >>))
        /\ DirectoryBelow(args[at.arg], Prefix(args[at.arg]), Len(<< >>))
  BY <1>2, <1>4, ArgumentDirectory
<1>7. QED
  BY <1>1, <1>2, <1>3, <1>4, <1>5, <1>6, WalkContents

LEMMA WalkEntryContents == IInv /\ Limits /\ Contents /\ WalkEntry => Contents'
<1>1. SUFFICES ASSUME IInv, Limits, Contents, WalkEntry PROVE Contents'
  OBVIOUS
<1> DEFINE n == Len(frames)
           stack(e) == [frames EXCEPT ![n].rest = @ \ {e}]
<1>2. PICK e \in frames[n].rest :
        IF IsDirectory(e)
        THEN processDirectory(stack(e), Append(frames[n].dir, e.name), at.arg)
        ELSE frames' = stack(e) /\ UNCHANGED <<at, list, llReply, owned, failures>>
  BY <1>1 DEF WalkEntry
<1>3. frames \in Seq(Frame) /\ n \in 1..Len(frames) /\ frames[n] \in Frame /\ n \in Nat
  <2>1. frames \in Seq(Frame) /\ frames # << >>
    BY <1>1 DEF IInv, TypeInv, WalkEntry
  <2>2. QED
    BY <2>1, LastFrame
<1>4. /\ stack(e) \in Seq(Frame) /\ Len(stack(e)) = Len(frames)
      /\ \A k \in 1..n : stack(e)[k].dir = frames[k].dir /\ stack(e)[k].rest \subseteq frames[k].rest
  <2> DEFINE call == [frames[n] EXCEPT !.rest = @ \ {e}]
  <2>1. call \in Frame /\ call.dir = frames[n].dir /\ call.rest \subseteq frames[n].rest
    BY <1>3 DEF Frame
  <2>2. stack(e) = [frames EXCEPT ![n] = call]
    OBVIOUS
  <2> HIDE DEF stack, call
  <2>3. stack(e) \in Seq(Frame) /\ Len(stack(e)) = Len(frames)
    BY <1>3, <2>1, <2>2, ExceptSeq
  <2>4. \A k \in 1..n : stack(e)[k] = IF k = n THEN call ELSE frames[k]
    BY <1>3, <2>2
  <2>5. QED
    BY <2>1, <2>3, <2>4
<1> HIDE DEF stack
<1>5. Calls(frames)
  BY <1>1 DEF Contents
<1>6. Calls(stack(e))
  BY <1>4, <1>5 DEF Calls
<1>7. UNCHANGED <<fs, past, args, scan, set, out>> /\ at.main = "walk" /\ at.arg \in Nat \ {0}
  BY <1>1 DEF WalkEntry, afterWalk, IInv, TypeInv
<1>8. CASE IsDirectory(e)
  <2> DEFINE path == Append(frames[n].dir, e.name)
  <2>1. PICK a \in Given : DirectoryBelow(a, frames[n].dir, n - 1)
    BY <1>3, <1>5 DEF Calls
  <2>2. Listed(frames[n].dir, e) /\ e \in Entry /\ frames[n].dir \in Path /\ e.name \in Names
    <3>1. Listed(frames[n].dir, e)
      BY <1>3, <1>5 DEF Calls
    <3>2. QED
      BY <1>3, <3>1 DEF Frame, Listed
  <2>3. a \in Path /\ fs \in Trees
    BY <1>1, GivenArePaths DEF IInv, TypeInv
  <2>4. path \in Path /\ Strip(path) = path /\ Prefix(path) = path
    BY <2>2, EntryPath
  <2>5. ASSUME Opens(path) PROVE DirectoryBelow(a, path, n)
    <3>1. n - 1 \in Nat /\ (n - 1) + 1 = n
      BY <1>3
    <3>2. DirectoryBelow(a, path, (n - 1) + 1)
      BY <1>8, <2>1, <2>2, <2>3, <2>5, <3>1, EntryDirectory
    <3>3. QED
      BY <3>1, <3>2
  <2>6. processDirectory(stack(e), path, at.arg)
    BY <1>2, <1>8
  <2> HIDE DEF path
  <2>7. Opens(Strip(path)) => /\ DirectoryBelow(a, Strip(path), Len(stack(e)))
                              /\ DirectoryBelow(a, Prefix(path), Len(stack(e)))
    BY <1>4, <2>4, <2>5
  <2>8. QED
    BY <1>1, <1>4, <1>6, <1>7, <2>4, <2>6, <2>7, WalkContents
<1>9. CASE ~IsDirectory(e)
  <2>1. frames' = stack(e) /\ UNCHANGED <<at, list>>
    BY <1>2, <1>9
  <2>2. Output'
    BY <1>1, <1>7, <2>1, StillSilent
  <2>3. Calls(frames)'
    BY <1>6, <1>7, <2>1, SameFiles
  <2>4. Noted(list)' /\ Scanned(scan)' /\ set' \subseteq Seq(Nat) /\ \A line \in set' : Wanted(line)'
    BY <1>1, <1>7, <2>1, SameFiles DEF Contents
  <2>5. QED
    BY <2>2, <2>3, <2>4 DEF Contents
<1>10. QED
  BY <1>8, <1>9

LEMMA WalkReturnContents == IInv /\ Contents /\ WalkReturn => Contents'
<1>1. SUFFICES ASSUME IInv, Contents, WalkReturn PROVE Contents'
  OBVIOUS
<1>2. /\ frames \in Seq(Frame) /\ frames # << >> /\ at.main = "walk"
      /\ frames' = SubSeq(frames, 1, Len(frames) - 1)
      /\ UNCHANGED <<fs, past, args, at, list, scan, set, out>>
  BY <1>1 DEF IInv, TypeInv, WalkReturn, afterWalk
<1>3. Len(frames) \in Nat \ {0} /\ Len(frames') = Len(frames) - 1
  BY <1>2, LastFrame, OneLess
<1>4. \A k \in 1..Len(frames') : k \in 1..Len(frames) /\ frames'[k] = frames[k]
  BY <1>2, <1>3
<1>5. Calls(frames')
  BY <1>1, <1>4 DEF Contents, Calls
<1>6. Calls(frames)' /\ Noted(list)' /\ Scanned(scan)'
  BY <1>1, <1>2, <1>5, SameFiles DEF Contents
<1>7. set' \subseteq Seq(Nat) /\ \A line \in set' : Wanted(line)'
  BY <1>1, <1>2, SameFiles DEF Contents
<1>8. Output'
  BY <1>1, <1>2, StillSilent
<1>9. QED
  BY <1>6, <1>7, <1>8 DEF Contents

LEMMA NextDirectoryContents == IInv /\ Limits /\ Contents /\ NextDirectory => Contents'
<1>1. SUFFICES ASSUME IInv, Limits, Contents, NextDirectory PROVE Contents'
  OBVIOUS
<1>2. /\ list \in Seq(Path) /\ scan = NoScan /\ at.main = "apply" /\ fs \in Trees /\ fs \in past
      /\ at \in [main : Places, arg : Nat \ {0}]
      /\ UNCHANGED <<fs, past, args, frames, set, out>> /\ Len(list) \in Nat
  BY <1>1 DEF IInv, TypeInv, Limits, NextDirectory
<1>3. \/ list' = list /\ UNCHANGED scan
      \/ /\ Len(list) > 0 /\ list' = LL!RemoveAt(list, 1)
         /\ scan' \in {scan, [dir |-> list[1], rest |-> Stream(list[1])]}
  BY <1>1 DEF NextDirectory, LL!RemoveElement, LL!Reply, LL!Refused
<1>4. at'.main # "print"
  BY <1>1, <1>2 DEF NextDirectory, Goto
<1>5. Output'
  BY <1>1, <1>2, <1>4, StillSilent
<1>6. Noted(list) /\ Scanned(scan)
  BY <1>1 DEF Contents
<1>7. Noted(list') /\ Scanned(scan')
  <2>1. CASE list' = list /\ UNCHANGED scan
    BY <1>6, <2>1
  <2>2. CASE Len(list) > 0 /\ list' = LL!RemoveAt(list, 1)
    <3>1. From(list[1]) /\ Noted(list') /\ list[1] \in Path
      BY <1>2, <1>6, <2>2, NotedLess, ListRemove
    <3>2. ASSUME scan' = [dir |-> list[1], rest |-> Stream(list[1])] PROVE Scanned(scan')
      <4>1. scan'.dir = list[1] /\ scan'.rest = Stream(list[1])
        BY <3>2
      <4>2. Place(list[1]) \in Seq(Nat)
        BY <3>1, PlaceIs DEF Path
      <4>3. \A e \in Stream(list[1]) : Listed(list[1], e)
        BY <1>2, <4>2, StreamListed
      <4>4. QED
        BY <3>1, <4>1, <4>3 DEF Scanned
    <3>3. QED
      BY <1>3, <1>6, <3>1, <3>2
  <2>3. QED
    BY <1>3, <2>1, <2>2
<1>8. Calls(frames)' /\ Noted(list)' /\ Scanned(scan)'
  BY <1>1, <1>2, <1>7, SameFiles DEF Contents
<1>9. set' \subseteq Seq(Nat) /\ \A line \in set' : Wanted(line)'
  BY <1>1, <1>2, SameFiles DEF Contents
<1>10. QED
  BY <1>5, <1>8, <1>9 DEF Contents

(* applyRe's steps leave the list alone and end, or go on with less.       *)
LEMMA ScanContents ==
  ASSUME IInv, Contents, at.main = "apply",
         UNCHANGED <<fs, past, args, frames, list, out>>, at'.main # "print",
         scan' = NoScan \/ (scan'.dir = scan.dir /\ scan'.rest \subseteq scan.rest /\ scan # NoScan),
         set' \subseteq Seq(Nat), \A line \in set' : Wanted(line)
  PROVE  Contents'
<1>1. Scanned(scan')
  BY DEF Scanned, Contents
<1>2. Calls(frames)' /\ Noted(list)' /\ Scanned(scan)'
  BY <1>1, SameFiles DEF Contents
<1>3. \A line \in set' : Wanted(line)'
  BY SameFiles
<1>4. Output'
  BY StillSilent
<1>5. QED
  BY <1>2, <1>3, <1>4 DEF Contents

LEMMA EndScanWays ==
  ASSUME IInv, at.main = "apply", NEW stat, EndScan(stat)
  PROVE  scan' = NoScan /\ at'.main # "print"
<1>1. at \in [main : Places, arg : Nat \ {0}]
  BY DEF IInv, TypeInv
<1>2. QED
  BY <1>1 DEF EndScan, Goto

LEMMA ScanEndsContents == IInv /\ Contents /\ ScanEnds => Contents'
<1>1. SUFFICES ASSUME IInv, Contents, ScanEnds PROVE Contents'
  OBVIOUS
<1>2. at.main = "apply" /\ UNCHANGED <<fs, past, args, frames, list, set, out>> /\ EndScan(1)
  BY <1>1 DEF ScanEnds
<1>3. scan' = NoScan /\ at'.main # "print"
  BY <1>1, <1>2, EndScanWays
<1>4. set' \subseteq Seq(Nat) /\ \A line \in set' : Wanted(line)
  BY <1>1, <1>2 DEF Contents
<1>5. QED
  BY <1>1, <1>2, <1>3, <1>4, ScanContents

LEMMA ScanEntryContents == IInv /\ Limits /\ Contents /\ ScanEntry => Contents'
<1>1. SUFFICES ASSUME IInv, Limits, Contents, ScanEntry PROVE Contents'
  OBVIOUS
<1> DEFINE rest(e) == scan.rest \ {e}
           engine(e) == re_match(reg, IF e.name \in Matching THEN 0 ELSE REG_NOMATCH)
           path(e) == Append(scan.dir, e.name)
<1>2. PICK e \in scan.rest :
        \/ scan' = [scan EXCEPT !.rest = rest(e)] /\ UNCHANGED <<at, set>>
        \/ ~IsDirectory(e) /\ Matched(engine(e)) /\ AddPath(path(e), rest(e))
  BY <1>1 DEF ScanEntry
<1>3. /\ at.main = "apply" /\ at \in [main : Places, arg : Nat \ {0}] /\ fs \in Trees /\ fs \in past
      /\ IsFiniteSet(past) /\ scan # NoScan /\ scan \in [dir : Seq(Nat), rest : SUBSET Entry]
      /\ scan.dir # << >> /\ UNCHANGED <<fs, past, args, frames, list, out>>
  BY <1>1 DEF IInv, TypeInv, Limits, Placed, ScanEntry
<1>4. /\ From(scan.dir) /\ Listed(scan.dir, e) /\ set \subseteq Seq(Nat)
      /\ \A line \in set : Wanted(line)
  BY <1>1, <1>3 DEF Contents, Scanned
<1>5. ASSUME scan' = [scan EXCEPT !.rest = rest(e)]
      PROVE  scan'.dir = scan.dir /\ scan'.rest \subseteq scan.rest
  BY <1>3, <1>5
<1>6. CASE scan' = [scan EXCEPT !.rest = rest(e)] /\ UNCHANGED <<at, set>>
  BY <1>1, <1>3, <1>4, <1>5, <1>6, ScanContents
<1>7. CASE ~IsDirectory(e) /\ Matched(engine(e)) /\ AddPath(path(e), rest(e))
  <2>1. scan.dir \in Path /\ e \in Entry /\ e.name \in Nat
    <3>1. Len(scan.dir) > 0
      BY <1>3, EmptySeq
    <3>2. QED
      BY <1>3, <3>1 DEF Path, Entry
  <2>2. e.name \in Matching
    BY <1>7 DEF Matched, re_match, REG_NOMATCH
  <2>3. Wanted(path(e))
    <3>1. PICK a \in Given, n \in 0..(OpenMax - 1) : DirectoryBelow(a, scan.dir, n)
      BY <1>4 DEF From
    <3>2. a \in Path
      BY <1>1, GivenArePaths
    <3>3. FileBelow(a, path(e))
      BY <1>3, <1>4, <1>7, <2>1, <2>2, <3>1, <3>2, EntryFile
    <3>4. QED
      BY <3>3 DEF Wanted
  <2>4. path(e) \in Seq(Nat)
    BY <1>3, <2>1
  <2>5. \/ EndScan(0) /\ set' = set
        \/ /\ set' \in {set, set \cup {path(e)}}
           /\ scan' = [scan EXCEPT !.rest = rest(e)] /\ UNCHANGED at
        \/ FollowNull(path(e))
    BY <1>7, AddPathWays DEF Added
  <2>6. ASSUME FollowNull(path(e))
        PROVE  at'.main # "print" /\ set' = set /\ scan'.dir = scan.dir /\ scan'.rest \subseteq scan.rest
    BY <1>3, <2>6 DEF FollowNull, Goto
  <2> HIDE DEF path
  <2>7. set' \subseteq Seq(Nat) /\ \A line \in set' : Wanted(line)
    BY <1>4, <2>3, <2>4, <2>5, <2>6
  <2>8. EndScan(0) => scan' = NoScan /\ at'.main # "print"
    BY <1>1, <1>3, EndScanWays
  <2>9. QED
    BY <1>1, <1>3, <1>5, <2>5, <2>7, <2>8, <2>6, ScanContents
<1>8. QED
  BY <1>2, <1>6, <1>7

LEMMA OtherContents ==
  ASSUME Contents, UNCHANGED <<fs, past, args, frames, scan>>, list' \in {list, << >>},
         set' \in {set, {}}, Output'
  PROVE  Contents'
<1>1. Noted(list')
  BY DEF Contents, Noted
<1>2. Calls(frames)' /\ Noted(list)' /\ Scanned(scan)'
  BY <1>1, SameFiles DEF Contents
<1>3. set' \subseteq Seq(Nat) /\ \A line \in set' : Wanted(line)'
  BY SameFiles DEF Contents
<1>4. QED
  BY <1>2, <1>3 DEF Contents

(* The other steps put nothing on the list or into the set.                *)
LEMMA CreateIteratorContents == IInv /\ Contents /\ CreateIterator => Contents'
<1>1. SUFFICES ASSUME IInv, Contents, CreateIterator PROVE Contents'
  OBVIOUS
<1>2. /\ at.main = "sort" /\ at \in [main : Places, arg : Nat \ {0}]
      /\ IsFiniteSet(set) /\ lost \in Nat /\ UNCHANGED <<fs, past, args, frames, list, scan, set, lost, out>>
  BY <1>1 DEF IInv, TypeInv, CreateIterator
<1>3. out = << >>
  BY <1>1, <1>2 DEF Contents, Output
<1>4. at'.main = "done" \/ (at'.main = "print" /\ it' = it_create(Cardinality(set) + lost, Sorted(set)))
  BY <1>1, <1>2 DEF CreateIterator, Goto
<1>5. at'.main = "print" => Printing'
  <2>1. Cardinality(set) \in Nat /\ Len(out') = 0 /\ set' = set /\ lost' = lost /\ lost \in Nat
    BY <1>2, <1>3, FS_CardinalityType
  <2>2. it' = it_create(Cardinality(set) + lost, Sorted(set)) =>
          it' = [next |-> Len(out'), size |-> Cardinality(set') + lost', elements |-> Sorted(set')]
    BY <2>1 DEF it_create
  <2>3. QED
    BY <1>4, <2>1, <2>2 DEF Printing
<1>6. Output'
  <2>1. Ascending(out') /\ out' \in Seq(Seq(Nat)) /\ Len(out') = 0
    BY <1>2, <1>3 DEF Ascending
  <2>2. QED
    BY <1>2, <1>3, <1>5, <2>1 DEF Output
<1>7. QED
  BY <1>1, <1>2, <1>6, OtherContents

\* What was printed stays as it is.
LEMMA OutputKept ==
  ASSUME Contents, UNCHANGED <<fs, past, args, out>>, at'.main # "print",
         at.main \in {"print", "done", "end", "killed"} => at'.main \in {"done", "end", "killed"}
  PROVE  Output'
<1>1. \A i \in 1..Len(out) : out[i] = Garbage \/ Wanted(out[i])'
  BY SameFiles DEF Contents, Output
<1>2. Ascending(out') /\ out' \in Seq(Seq(Nat)) /\ (at'.main \notin {"print", "done", "end", "killed"} => out' = << >>)
  BY DEF Contents, Output
<1>3. QED
  BY <1>1, <1>2 DEF Output

(* The next line is the next element of the array, or comes of what nobody *)
(* has written there.                                                      *)
LEMMA PrintLineContents == IInv /\ Contents /\ PrintLine => Contents'
<1>1. SUFFICES ASSUME IInv, Contents, PrintLine PROVE Contents'
  OBVIOUS
<1> DEFINE n == Len(out)
           c == Cardinality(set)
           m == c + lost
           line == IF n + 1 <= c THEN Sorted(set)[n + 1] ELSE Garbage
<1>2. /\ at.main = "print" /\ IsFiniteSet(set) /\ lost \in Nat /\ it_hasNext(it)
      /\ at \in [main : Places, arg : Nat \ {0}]
      /\ UNCHANGED <<fs, past, args, frames, list, scan, set, lost>>
  BY <1>1 DEF IInv, TypeInv, PrintLine
<1>3. /\ it = [next |-> n, size |-> m, elements |-> Sorted(set)] /\ n <= m
      /\ \A i \in 1..n : out[i] = IF i <= c THEN Sorted(set)[i] ELSE Garbage
      /\ out \in Seq(Seq(Nat)) /\ set \subseteq Seq(Nat) /\ \A x \in set : Wanted(x)
  BY <1>1, <1>2 DEF Contents, Output, Printing
<1>4. /\ c \in Nat /\ (\A i \in 1..c : Sorted(set)[i] \in set)
      /\ \A i, j \in 1..c : i < j => Before(Sorted(set)[i], Sorted(set)[j])
  BY <1>2, <1>3, SortedInOrder
<1>5. n \in Nat /\ n < m /\ m \in Nat
  BY <1>2, <1>3, <1>4, LenProperties DEF it_hasNext
<1>6. CASE at' = [at EXCEPT !.main = "killed"] /\ UNCHANGED out
  <2>1. at'.main = "killed"
    BY <1>2, <1>6
  <2>2. Output'
    BY <1>1, <1>2, <1>6, <2>1, OutputKept
  <2>3. QED
    BY <1>1, <1>2, <2>2, OtherContents
<1>7. CASE /\ out' = Append(out, IF it.next < c THEN Current(it) ELSE Garbage)
           /\ it' = it_next(it) /\ UNCHANGED at
  <2>1. it' = [next |-> n + 1, size |-> m, elements |-> Sorted(set)]
    BY <1>2, <1>3, <1>7 DEF it_next
  <2>2. out' = Append(out, line)
    <3>1. it.next = n /\ Current(it) = Sorted(set)[n + 1]
      BY <1>3 DEF Current
    <3>2. it.next < c <=> n + 1 <= c
      BY <1>4, <1>5, <3>1
    <3>3. QED
      BY <1>7, <3>1, <3>2
  <2>3. line \in Seq(Nat)
    <3>1. CASE n + 1 <= c
      <4>1. n + 1 \in 1..c
        BY <1>4, <1>5, <3>1
      <4>2. QED
        BY <1>3, <1>4, <3>1, <4>1
    <3>2. CASE ~(n + 1 <= c)
      BY <3>2 DEF Garbage
    <3>3. QED
      BY <3>1, <3>2
  <2>4. /\ out' \in Seq(Seq(Nat)) /\ Len(out') = n + 1 /\ out'[n + 1] = line
        /\ \A i \in 1..n : out'[i] = out[i]
    BY <1>3, <2>2, <2>3, AppendProperties
  <2>5. ASSUME NEW i \in 1..(n + 1) PROVE out'[i] = IF i <= c THEN Sorted(set)[i] ELSE Garbage
    <3>1. i \in 1..n \/ i = n + 1
      BY <1>5
    <3>2. QED
      BY <1>3, <2>4, <3>1
  <2> HIDE DEF line, n, c, m
  <2>6. Ascending(out')
    <3>1. DOMAIN out' = 1..(n + 1)
      BY <2>4, LenProperties
    <3>2. ASSUME NEW i \in 1..(n + 1), NEW j \in 1..(n + 1), i < j
          PROVE  out'[j] = Garbage \/ Before(out'[i], out'[j])
      <4>1. CASE j <= c
        <5>1. i \in 1..c /\ j \in 1..c /\ i <= c
          BY <1>4, <1>5, <3>2, <4>1
        <5>2. QED
          BY <1>4, <2>5, <3>2, <4>1, <5>1
      <4>2. CASE ~(j <= c)
        BY <2>5, <4>2
      <4>3. QED
        BY <4>1, <4>2
    <3>3. QED
      BY <3>1, <3>2 DEF Ascending
  <2>7. \A i \in 1..Len(out') : out'[i] = Garbage \/ Wanted(out[i])'
    <3>1. ASSUME NEW i \in 1..(n + 1) PROVE out'[i] = Garbage \/ Wanted(out'[i])
      <4>1. i <= c => i \in 1..c
        BY <1>4
      <4>2. QED
        BY <1>3, <1>4, <2>5, <4>1
    <3>2. \A x : Wanted(x)' <=> Wanted(x)
      BY <1>2, SameFiles
    <3>3. QED
      BY <2>4, <3>1, <3>2
  <2>8. Printing'
    <3>1. Len(out') <= m
      BY <1>5, <2>4
    <3>2. /\ it' = [next |-> Len(out'), size |-> m, elements |-> Sorted(set')]
          /\ c = Cardinality(set') /\ m = Cardinality(set') + lost'
      BY <1>2, <2>1, <2>4 DEF c, m
    <3>3. \A i \in 1..Len(out') : out'[i] = IF i <= c THEN Sorted(set')[i] ELSE Garbage
      BY <1>2, <2>4, <2>5
    <3>4. QED
      BY <3>1, <3>2, <3>3 DEF Printing
  <2>9. Output'
    BY <1>2, <1>7, <2>4, <2>6, <2>7, <2>8 DEF Output
  <2>10. QED
    BY <1>1, <1>2, <2>9, OtherContents
<1>8. QED
  BY <1>1, <1>6, <1>7 DEF PrintLine, Goto

LEMMA SilentContents ==
  ASSUME IInv, Contents, CreateEngine \/ CompilePattern \/ CreateContainers \/ WalkEnds
  PROVE  Contents'
<1>1. at \in [main : Places, arg : Nat \ {0}]
  BY DEF IInv, TypeInv
<1>2. UNCHANGED <<fs, past, args, frames, list, scan, set, out>>
  BY DEF CreateEngine, CompilePattern, CreateContainers, WalkEnds, afterWalk
<1>3. at.main \notin {"print", "done", "end", "killed"}
  BY DEF CreateEngine, CompilePattern, CreateContainers, WalkEnds
<1>4. at'.main # "print"
  BY <1>1 DEF CreateEngine, CompilePattern, CreateContainers, WalkEnds, Goto
<1>5. Output'
  BY <1>2, <1>3, <1>4, StillSilent
<1>6. QED
  BY <1>2, <1>5, OtherContents

LEMMA LastContents == IInv /\ Contents /\ (PrintEnds \/ Cleanup) => Contents'
<1>1. SUFFICES ASSUME IInv, Contents, PrintEnds \/ Cleanup PROVE Contents'
  OBVIOUS
<1>2. at \in [main : Places, arg : Nat \ {0}]
  BY <1>1 DEF IInv, TypeInv
<1>3. /\ UNCHANGED <<fs, past, args, frames, scan, out>> /\ at'.main \in {"done", "end"}
      /\ list' \in {list, << >>} /\ set' \in {set, {}}
  BY <1>1, <1>2 DEF PrintEnds, Cleanup, Goto, LL!Empty, TS!Empty
<1>4. Output'
  BY <1>1, <1>3, OutputKept
<1>5. QED
  BY <1>1, <1>3, <1>4, OtherContents

LEMMA ChangeContents == Limits /\ Contents /\ Change => Contents'
<1>1. SUFFICES ASSUME Limits, Contents, Change PROVE Contents'
  OBVIOUS
<1>2. at.main \in {"walk", "apply"} /\ UNCHANGED <<at, frames, list, scan, set, out>>
  BY <1>1 DEF Change
<1>3. Output'
  BY <1>1, <1>2, StillSilent
<1>4. Calls(frames)' /\ Noted(list)' /\ Scanned(scan)'
  BY <1>1, <1>2, ChangedFiles DEF Contents
<1>5. set' \subseteq Seq(Nat) /\ \A line \in set' : Wanted(line)'
  BY <1>1, <1>2, ChangedFiles DEF Contents
<1>6. QED
  BY <1>3, <1>4, <1>5 DEF Contents

LEMMA ContentsKept == IInv /\ Limits /\ Contents /\ [Next]_vars => Contents'
<1>1. ASSUME Contents, UNCHANGED vars PROVE Contents'
  <2>1. UNCHANGED <<fs, past, args, at, frames, list, scan, set, lost, it, out>>
    BY <1>1 DEF vars
  <2>2. Calls(frames)' /\ Noted(list)' /\ Scanned(scan)'
    BY <1>1, <2>1, SameFiles DEF Contents
  <2>3. set' \subseteq Seq(Nat) /\ \A line \in set' : Wanted(line)'
    BY <1>1, <2>1, SameFiles DEF Contents
  <2>4. \A i \in 1..Len(out) : out[i] = Garbage \/ Wanted(out[i])'
    BY <1>1, <2>1, SameFiles DEF Contents, Output
  <2>5. Output'
    BY <1>1, <2>1, <2>4 DEF Contents, Output, Printing
  <2>6. QED
    BY <2>2, <2>3, <2>5 DEF Contents
<1>2. QED
  BY <1>1, SilentContents, WalkArgumentContents, WalkEntryContents, WalkReturnContents,
     NextDirectoryContents, ScanEntryContents, ScanEndsContents, CreateIteratorContents,
     PrintLineContents, LastContents, ChangeContents
  DEF Next, Step, Terminated

(* The lines are in ascending order and each is the path of a matching     *)
(* file below an argument, whatever happened to the files meanwhile; if    *)
(* nothing did, of one that the search should find.                        *)
THEOREM OnlyFilesPrinted == Spec => []PrintsOnlyFiles
<1>1. IInv /\ Limits /\ Contents /\ [Next]_vars => (IInv /\ Limits /\ Contents)'
  BY Inductive, LimitsStep, ContentsKept
<1>2. QED
  BY <1>1, InitInv, LimitsInit, ContentsInit, LinesImplied, PTL DEF Spec
-----------------------------------------------------------------------------
(* The path x begins with y.                                               *)
Begins(x, y) == Len(y) <= Len(x) /\ \A i \in 1..Len(y) : x[i] = y[i]

(* To begin with is an order, and what begins the same path is ordered.    *)
LEMMA BeginsOrder ==
  ASSUME NEW x \in Seq(Nat), NEW y \in Seq(Nat), NEW z \in Seq(Nat)
  PROVE  /\ Begins(x, x)
         /\ Begins(x, y) /\ Begins(y, z) => Begins(x, z)
         /\ Begins(x, y) /\ Begins(x, z) => Begins(y, z) \/ Begins(z, y)
<1>1. Len(x) \in Nat /\ Len(y) \in Nat /\ Len(z) \in Nat
  BY LenProperties
<1>2. Begins(x, x)
  BY <1>1 DEF Begins
<1>3. ASSUME Begins(x, y), Begins(y, z) PROVE Begins(x, z)
  <2>1. \A i \in 1..Len(z) : i \in 1..Len(y)
    BY <1>1, <1>3 DEF Begins
  <2>2. QED
    BY <1>1, <1>3, <2>1 DEF Begins
<1>4. ASSUME Begins(x, y), Begins(x, z) PROVE Begins(y, z) \/ Begins(z, y)
  <2>1. CASE Len(z) <= Len(y)
    <3>1. \A i \in 1..Len(z) : i \in 1..Len(y)
      BY <1>1, <2>1
    <3>2. QED
      BY <1>4, <2>1, <3>1 DEF Begins
  <2>2. CASE Len(y) <= Len(z)
    <3>1. \A i \in 1..Len(y) : i \in 1..Len(z)
      BY <1>1, <2>2
    <3>2. QED
      BY <1>4, <2>2, <3>1 DEF Begins
  <2>3. QED
    BY <1>1, <2>1, <2>2
<1>5. QED
  BY <1>2, <1>3, <1>4

LEMMA BeginsAppend ==
  ASSUME NEW x \in Seq(Nat), NEW y \in Seq(Nat), NEW m \in Nat, NEW n \in Nat
  PROVE  /\ Begins(x, y) => Begins(Append(x, m), y)
         /\ Begins(Append(x, m), x)
         /\ Begins(x, Append(y, n)) => Begins(x, y) /\ Len(y) < Len(x)
         /\ Begins(Append(x, m), Append(y, n)) => Begins(x, Append(y, n)) \/ (x = y /\ m = n)
<1> DEFINE u == Append(x, m)
           v == Append(y, n)
<1>1. /\ u \in Seq(Nat) /\ Len(u) = Len(x) + 1 /\ u[Len(x) + 1] = m
      /\ \A i \in 1..Len(x) : u[i] = x[i]
      /\ v \in Seq(Nat) /\ Len(v) = Len(y) + 1 /\ v[Len(y) + 1] = n
      /\ \A i \in 1..Len(y) : v[i] = y[i]
  BY AppendProperties
<1>2. Len(x) \in Nat /\ Len(y) \in Nat
  BY LenProperties
<1> HIDE DEF u, v
<1>3. ASSUME NEW w \in Seq(Nat), Begins(x, w) PROVE Begins(u, w)
  <2>1. Len(w) \in Nat
    BY LenProperties
  <2>2. \A i \in 1..Len(w) : i \in 1..Len(x)
    BY <1>2, <1>3, <2>1 DEF Begins
  <2>3. QED
    BY <1>1, <1>2, <1>3, <2>1, <2>2 DEF Begins
<1>4. Begins(x, x)
  BY BeginsOrder
<1>5. ASSUME Begins(x, v) PROVE Begins(x, y) /\ Len(y) < Len(x)
  <2>1. Len(y) + 1 <= Len(x) /\ \A i \in 1..(Len(y) + 1) : x[i] = v[i]
    BY <1>1, <1>5 DEF Begins
  <2>2. \A i \in 1..Len(y) : i \in 1..(Len(y) + 1)
    BY <1>2
  <2>3. Len(y) < Len(x) /\ Len(y) <= Len(x)
    BY <1>2, <2>1
  <2>4. QED
    BY <1>1, <2>1, <2>2, <2>3 DEF Begins
<1>6. ASSUME Begins(u, v) PROVE Begins(x, v) \/ (x = y /\ m = n)
  <2>1. Len(y) + 1 <= Len(x) + 1 /\ \A i \in 1..(Len(y) + 1) : u[i] = v[i]
    BY <1>1, <1>6 DEF Begins
  <2>2. CASE Len(y) = Len(x)
    <3>1. \A i \in 1..Len(x) : x[i] = y[i]
      <4>1. \A i \in 1..Len(x) : i \in 1..(Len(y) + 1) /\ i \in 1..Len(y)
        BY <1>2, <2>2
      <4>2. QED
        BY <1>1, <2>1, <4>1
    <3>2. x = y
      BY <2>2, <3>1, SeqEqual
    <3>3. m = n
      <4>1. Len(y) + 1 \in 1..(Len(y) + 1) /\ Len(y) + 1 = Len(x) + 1
        BY <1>2, <2>2
      <4>2. u[Len(y) + 1] = v[Len(y) + 1]
        BY <2>1, <4>1
      <4>3. u[Len(x) + 1] = m /\ v[Len(y) + 1] = n
        BY <1>1
      <4>4. QED
        BY ONLY <4>1, <4>2, <4>3
    <3>4. QED
      BY <3>2, <3>3
  <2>3. CASE Len(y) # Len(x)
    <3>1. Len(v) <= Len(x) /\ \A i \in 1..Len(v) : i \in 1..Len(x) /\ i \in 1..(Len(y) + 1)
      <4>1. Len(v) = Len(y) + 1
        BY <1>1
      <4>2. \A k, l \in Nat : k + 1 <= l + 1 /\ k # l =>
              k + 1 <= l /\ \A i \in 1..(k + 1) : i \in 1..l
        OBVIOUS
      <4>3. Len(x) \in Nat /\ Len(y) \in Nat
        BY <1>2
      <4>4. QED
        BY ONLY <2>1, <2>3, <4>1, <4>2, <4>3
    <3>2. \A i \in 1..Len(v) : x[i] = v[i]
      <4>1. \A i \in 1..Len(x) : u[i] = x[i]
        BY <1>1
      <4>2. QED
        BY ONLY <2>1, <3>1, <4>1
    <3>3. QED
      BY <3>1, <3>2 DEF Begins
  <2>4. QED
    BY <2>2, <2>3
<1>7. QED
  BY <1>3, <1>4, <1>5, <1>6 DEF u, v

LEMMA BeginsIsSubSeq ==
  ASSUME NEW x \in Seq(Nat), NEW y \in Seq(Nat), Begins(x, y)
  PROVE  Len(y) <= Len(x) /\ SubSeq(x, 1, Len(y)) = y
<1>1. Len(x) \in Nat /\ Len(y) \in Nat /\ Len(y) <= Len(x) /\ \A i \in 1..Len(y) : x[i] = y[i]
  BY LenProperties DEF Begins
<1> DEFINE z == SubSeq(x, 1, Len(y))
<1>2. z \in Seq(Nat) /\ Len(z) = Len(y) /\ \A i \in 1..Len(y) : z[i] = x[i]
  <2>1. \A i \in 1..Len(y) : x[i] \in Nat
    BY <1>1, ElementOfSeq
  <2>2. /\ z \in Seq(Nat) /\ Len(z) = IF 1 <= Len(y) THEN Len(y) - 1 + 1 ELSE 0
        /\ \A i \in 1..(Len(y) - 1 + 1) : z[i] = x[1 + i - 1]
    BY <1>1, <2>1, SubSeqProperties
  <2>3. (IF 1 <= Len(y) THEN Len(y) - 1 + 1 ELSE 0) = Len(y) /\ Len(y) - 1 + 1 = Len(y)
        /\ \A i \in 1..Len(y) : 1 + i - 1 = i
    BY <1>1
  <2> HIDE DEF z
  <2>4. QED
    BY <2>2, <2>3
<1> HIDE DEF z
<1>3. z = y
  BY <1>1, <1>2, SeqEqual
<1>4. QED
  BY <1>1, <1>3 DEF z

(* What is kept of a path begins it.                                       *)
LEMMA PathBegins ==
  ASSUME NEW a \in Path
  PROVE  /\ Strip(a) \in Seq(Nat) /\ Prefix(a) \in Seq(Nat) /\ a \in Seq(Nat)
         /\ Begins(a, Prefix(a)) /\ Begins(Strip(a), Prefix(a))
         /\ \A n \in Names : ~Begins(Strip(a), Append(Prefix(a), n))
<1>1. a \in Seq(Nat) /\ a # << >> /\ Strip(a) \in Seq(Nat) /\ Prefix(a) \in Seq(Nat)
  BY PathOperators DEF Path
<1>2. \A n \in Names : n \in Nat /\ n # Nothing
  BY DEF Names, Nothing
<1>3. Begins(a, Strip(a))
  <2>1. CASE Strip(a) = a
    BY <1>1, <2>1, BeginsOrder
  <2>2. CASE Strip(a) # a
    <3> DEFINE front == SubSeq(a, 1, Len(a) - 1)
               last == a[Len(a)]
    <3>1. Strip(a) = front
      BY <2>2 DEF Strip
    <3>2. front \in Seq(Nat) /\ a = Append(front, last) /\ last \in Nat
      BY <1>1, Ending
    <3> HIDE DEF front, last
    <3>3. Begins(Append(front, last), front)
      BY <3>2, BeginsAppend
    <3>4. QED
      BY <3>1, <3>2, <3>3
  <2>3. QED
    BY <2>1, <2>2
<1>4. CASE a = Root
  <2>1. Prefix(a) = <<Nothing>> /\ Strip(a) = Root
    BY <1>4 DEF Prefix, Strip
  <2>2. Nothing \in Nat /\ <<Nothing>> \in Seq(Nat) /\ Root = Append(<<Nothing>>, Nothing)
    BY DEF Nothing, Root
  <2>3. Begins(Root, <<Nothing>>)
    BY <2>2, BeginsAppend
  <2>4. ASSUME NEW n \in Names PROVE ~Begins(Root, Append(<<Nothing>>, n))
    <3>1. Begins(Root, Append(<<Nothing>>, n)) => Begins(<<Nothing>>, Append(<<Nothing>>, n))
      BY <1>2, <2>2, BeginsAppend
    <3>2. Begins(<<Nothing>>, Append(<<Nothing>>, n)) => Len(<<Nothing>>) < Len(<<Nothing>>)
      BY <1>2, <2>2, BeginsAppend
    <3>3. QED
      BY <3>1, <3>2
  <2>5. QED
    BY <1>1, <1>4, <2>1, <2>3, <2>4
<1>5. CASE a # Root
  <2>1. Prefix(a) = Strip(a)
    BY <1>5 DEF Prefix
  <2>2. Begins(Strip(a), Strip(a))
    BY <1>1, BeginsOrder
  <2>3. ASSUME NEW n \in Names PROVE ~Begins(Strip(a), Append(Strip(a), n))
    <3>1. Begins(Strip(a), Append(Strip(a), n)) => Len(Strip(a)) < Len(Strip(a))
      BY <1>1, <1>2, BeginsAppend
    <3>2. Len(Strip(a)) \in Nat
      BY <1>1, LenProperties
    <3>3. QED
      BY <3>1, <3>2
  <2>4. QED
    BY <1>1, <1>3, <2>1, <2>2, <2>3
<1>6. QED
  BY <1>4, <1>5

(* No path begins with those of two arguments that are apart.              *)
LEMMA ApartArguments ==
  ASSUME Apart, NEW i \in DOMAIN args, NEW j \in DOMAIN args, i # j,
         args[i] \in Path, args[j] \in Path, NEW x \in Seq(Nat),
         Begins(x, Prefix(args[i])), Begins(x, Prefix(args[j]))
  PROVE  FALSE
<1> DEFINE a == args[i]
           b == args[j]
           p == Prefix(args[i])
           q == Prefix(args[j])
<1>1. /\ a \in Seq(Nat) /\ b \in Seq(Nat) /\ p \in Seq(Nat) /\ q \in Seq(Nat)
      /\ Begins(a, p) /\ Begins(b, q) /\ Begins(x, p) /\ Begins(x, q)
  BY PathBegins
<1>2. /\ Len(p) > Len(b) \/ SubSeq(b, 1, Len(p)) # p
      /\ Len(q) > Len(a) \/ SubSeq(a, 1, Len(q)) # q
  BY DEF Apart
<1> HIDE DEF a, b, p, q
<1>3. Len(a) \in Nat /\ Len(b) \in Nat /\ Len(p) \in Nat /\ Len(q) \in Nat
  BY <1>1, LenProperties
<1>4. Begins(p, q) \/ Begins(q, p)
  BY <1>1, BeginsOrder
<1>5. Begins(a, q) \/ Begins(b, p)
  BY <1>1, <1>4, BeginsOrder
<1>6. CASE Begins(a, q)
  <2>1. Len(q) <= Len(a) /\ SubSeq(a, 1, Len(q)) = q
    BY <1>1, <1>6, BeginsIsSubSeq
  <2>2. QED
    BY <1>2, <1>3, <2>1
<1>7. CASE Begins(b, p)
  <2>1. Len(p) <= Len(b) /\ SubSeq(b, 1, Len(p)) = p
    BY <1>1, <1>7, BeginsIsSubSeq
  <2>2. QED
    BY <1>2, <1>3, <2>1
<1>8. QED
  BY <1>5, <1>6, <1>7
-----------------------------------------------------------------------------
(* What keeps the crawler from meeting a directory or a file twice: strings *)
(* on the list differ, none of them begins with the path of an entry that  *)
(* is still to be walked, and each begins with an argument's.              *)
Among(x, l) == \E k \in 1..Len(l) : l[k] = x

Different(l) == \A j, k \in 1..Len(l) : l[j] = l[k] => j = k

NamesDiffer(rest) == \A e, f \in rest : e.name = f.name => e = f

Covered(x, n) == \E j \in 1..n : Begins(x, Prefix(args[j]))

Unseen(stack, x) ==
  \A k \in 1..Len(stack) : \A e \in stack[k].rest : ~Begins(x, Append(stack[k].dir, e.name))

WalkedOnce(l, stack, n) ==
  /\ \A k \in 1..Len(l) : Covered(l[k], n) /\ Unseen(stack, l[k])
  /\ \A k \in 1..Len(stack) : /\ Covered(stack[k].dir, n) /\ Unseen(stack, stack[k].dir)
                              /\ NamesDiffer(stack[k].rest)
  /\ \A j, k \in 1..Len(stack) : j < k => Len(stack[j].dir) < Len(stack[k].dir)

ScannedOnce(l, s, S) ==
  /\ \A k \in 1..Len(l) : \A n \in Nat : Append(l[k], n) \notin S
  /\ s # NoScan => /\ ~Among(s.dir, l) /\ NamesDiffer(s.rest)
                   /\ \A e \in s.rest : Append(s.dir, e.name) \notin S

Distinct ==
  /\ Different(list)
  /\ at.main = "walk" => set = {} /\ WalkedOnce(list, frames, at.arg - 1)
  /\ at.main = "apply" => ScannedOnce(list, scan, set)

(* What has to be shown of the state behind a step.                        *)
LEMMA DistinctNext ==
  ASSUME args' = args, Different(list'),
         at'.main = "walk" => set' = {} /\ WalkedOnce(list', frames', at'.arg - 1),
         at'.main = "apply" => ScannedOnce(list', scan', set')
  PROVE  Distinct'
<1>1. \A x, n : Covered(x, n)' <=> Covered(x, n)
  BY DEF Covered
<1>2. \A l, stack, n : WalkedOnce(l, stack, n)' <=> WalkedOnce(l, stack, n)
  BY <1>1 DEF WalkedOnce
<1>3. WalkedOnce(list, frames, at.arg - 1)' <=> WalkedOnce(list', frames', at'.arg - 1)
  BY <1>2
<1>4. QED
  BY <1>3 DEF Distinct

(* No two entries of a stream have the same name.                          *)
LEMMA StreamNames ==
  ASSUME fs \in Trees, NEW d
  PROVE  NamesDiffer(Stream(d)) /\ \A e \in Stream(d) : e.name \in Names
<1>1. ASSUME NEW e \in Stream(d)
      PROVE  \E p \in DOMAIN fs : /\ p # << >> /\ SubSeq(p, 1, Len(p) - 1) = Place(d)
                                  /\ e = [name |-> p[Len(p)], type |-> fs[p].type]
  BY DEF Stream, Entries
<1>2. ASSUME NEW p \in DOMAIN fs, p # << >>
      PROVE  p \in Seq(Nat) /\ p = Append(SubSeq(p, 1, Len(p) - 1), p[Len(p)]) /\ p[Len(p)] \in Names
  <2>1. p \in Seq(Nat) /\ p \in Seq(Names)
    BY TreeFacts
  <2>2. Len(p) \in Nat \ {0} /\ p = Append(SubSeq(p, 1, Len(p) - 1), p[Len(p)])
    BY <1>2, <2>1, Ending
  <2>3. p[Len(p)] \in Names
    BY <2>1, <2>2, ElementOfSeq
  <2>4. QED
    BY <2>1, <2>2, <2>3
<1>3. ASSUME NEW e \in Stream(d), NEW f \in Stream(d), e.name = f.name PROVE e = f
  <2>1. PICK p \in DOMAIN fs : /\ p # << >> /\ SubSeq(p, 1, Len(p) - 1) = Place(d)
                               /\ e = [name |-> p[Len(p)], type |-> fs[p].type]
    BY <1>1
  <2>2. PICK q \in DOMAIN fs : /\ q # << >> /\ SubSeq(q, 1, Len(q) - 1) = Place(d)
                               /\ f = [name |-> q[Len(q)], type |-> fs[q].type]
    BY <1>1
  <2>3. p = Append(Place(d), p[Len(p)]) /\ q = Append(Place(d), q[Len(q)])
    BY <1>2, <2>1, <2>2
  <2>4. p[Len(p)] = q[Len(q)]
    BY <1>3, <2>1, <2>2
  <2>5. p = q
    BY <2>3, <2>4
  <2>6. QED
    BY <2>1, <2>2, <2>5
<1>4. ASSUME NEW e \in Stream(d) PROVE e.name \in Names
  BY <1>1, <1>2
<1>5. QED
  BY <1>3, <1>4 DEF NamesDiffer

(* What must be so for a directory to be entered.                          *)
Unmet(l, stack, path, n) ==
  /\ Covered(Strip(path), n) /\ Covered(Prefix(path), n) /\ ~Among(Strip(path), l)
  /\ Unseen(stack, Strip(path)) /\ Unseen(stack, Prefix(path))
  /\ \A k \in 1..Len(stack) : Len(stack[k].dir) < Len(Prefix(path))
  /\ \A k \in 1..Len(l) : \A m \in Names : ~Begins(l[k], Append(Prefix(path), m))

(* What begins with an argument's path still does with more arguments.     *)
LEMMA CoveredMore ==
  ASSUME NEW m \in Int, NEW n \in Int, m <= n, NEW x, Covered(x, m)
  PROVE  Covered(x, n)
<1>1. 1..m \subseteq 1..n
  OBVIOUS
<1>2. QED
  BY <1>1 DEF Covered

(* The list m is l with p behind it, or without its first string.          *)
Longer(m, l, p) ==
  /\ m \in Seq(Path) /\ Len(m) = Len(l) + 1 /\ Len(l) \in Nat
  /\ m[Len(l) + 1] = p /\ \A k \in 1..Len(l) : m[k] = l[k]
  /\ \A k \in 1..Len(m) : k \in 1..Len(l) \/ k = Len(l) + 1

Shorter(m, l) ==
  /\ m \in Seq(Path) /\ Len(m) = Len(l) - 1 /\ Len(l) \in Nat /\ l[1] \in Path /\ 1 \in 1..Len(l)
  /\ \A k \in 1..Len(m) : k + 1 \in 1..Len(l) /\ m[k] = l[k + 1]
  /\ \A k \in 1..Len(l) : k = 1 \/ (k - 1 \in 1..Len(m) /\ m[k - 1] = l[k])

LEMMA ListMore ==
  ASSUME NEW l \in Seq(Path), NEW p \in Path
  PROVE  Longer(LL!InsertAt(l, Len(l) + 1, p), l, p)
<1> DEFINE m == LL!InsertAt(l, Len(l) + 1, p)
<1>1. Len(l) \in Nat /\ m \in Seq(Path) /\ Len(m) = Len(l) + 1
  BY ListAdd, LenProperties
<1>2. \A k \in 1..(Len(l) + 1) : m[k] = IF k <= Len(l) THEN l[k] ELSE p
  BY ListElements
<1>3. /\ Len(l) + 1 \in 1..(Len(l) + 1) /\ ~(Len(l) + 1 <= Len(l))
      /\ \A k \in 1..Len(l) : k \in 1..(Len(l) + 1) /\ k <= Len(l)
      /\ \A k \in 1..(Len(l) + 1) : k \in 1..Len(l) \/ k = Len(l) + 1
  BY <1>1
<1> HIDE DEF m
<1>4. Longer(m, l, p)
  BY <1>1, <1>2, <1>3 DEF Longer
<1>5. QED
  BY <1>4 DEF m

LEMMA ListLess ==
  ASSUME NEW l \in Seq(Path), Len(l) > 0
  PROVE  Shorter(LL!RemoveAt(l, 1), l)
<1> DEFINE m == LL!RemoveAt(l, 1)
<1>1. Len(l) \in Nat /\ m \in Seq(Path) /\ Len(m) = Len(l) - 1 /\ l[1] \in Path
  BY ListRemove, LenProperties
<1>2. \A k \in 1..(Len(l) - 1) : m[k] = l[k + 1]
  BY ListElements
<1> HIDE DEF m
<1>3. 1 \in 1..Len(l) /\ \A k \in 1..Len(m) : k + 1 \in 1..Len(l) /\ k \in 1..(Len(l) - 1)
  BY <1>1
<1>4. \A k \in 1..Len(l) : k = 1 \/ (k - 1 \in 1..(Len(l) - 1) /\ (k - 1) + 1 = k)
  BY <1>1
<1>5. Shorter(m, l)
  BY <1>1, <1>2, <1>3, <1>4 DEF Shorter
<1>6. QED
  BY <1>5 DEF m

LEMMA DifferentMore ==
  ASSUME NEW l, NEW p, NEW m, Longer(m, l, p), Different(l), ~Among(p, l)
  PROVE  Different(m)
BY DEF Different, Among, Longer

LEMMA DifferentLess ==
  ASSUME NEW l, NEW m, Shorter(m, l), Different(l)
  PROVE  Different(m) /\ ~Among(l[1], m)
<1>1. \A k \in 1..Len(m) : k + 1 \in 1..Len(l) /\ m[k] = l[k + 1] /\ 1 \in 1..Len(l)
  BY DEF Shorter
<1>2. Len(m) \in Nat
  BY LenProperties DEF Shorter
<1>3. \A k \in 1..Len(m) : k + 1 # 1
  BY <1>2
<1>4. \A j, k \in 1..Len(m) : j + 1 = k + 1 => j = k
  BY <1>2
<1>5. Different(m)
  BY <1>1, <1>4 DEF Different
<1>6. ~Among(l[1], m)
  BY <1>1, <1>3 DEF Among, Different
<1>7. QED
  BY <1>5, <1>6

(* The strings of a directory that is entered are new.                     *)
LEMMA EnteredOnce ==
  ASSUME NEW l \in Seq(Path), NEW stack \in Seq(Frame), NEW path \in Path, NEW rest \in SUBSET Entry,
         NEW m \in Int, NEW n \in Int, m <= n,
         WalkedOnce(l, stack, m), Unmet(l, stack, path, n), NamesDiffer(rest),
         \A e \in rest : e.name \in Names,
         NEW more, Longer(more, l, Strip(path)),
         NEW call \in Frame, call.dir = Prefix(path), call.rest = rest
  PROVE  WalkedOnce(more, Append(stack, call), n)
<1> DEFINE d == Strip(path)
           p == Prefix(path)
           calls == Append(stack, call)
           N == Len(stack)
<1>1. /\ d \in Seq(Nat) /\ p \in Seq(Nat) /\ Begins(d, p) /\ \A e \in rest : ~Begins(d, Append(p, e.name))
  BY PathBegins
<1>2. /\ N \in Nat /\ Len(calls) = N + 1 /\ calls[N + 1] = call /\ \A k \in 1..N : calls[k] = stack[k]
  BY AppendProperties, LenProperties
<1>3. \A k \in 1..(N + 1) : k \in 1..N \/ k = N + 1
  BY <1>2
<1>4. \A k \in 1..N : k \in 1..(N + 1) /\ stack[k].dir \in Seq(Nat)
  <2>1. \A k \in 1..N : stack[k] \in Frame
    BY ElementOfSeq
  <2>2. \A c \in Frame : c.dir \in Seq(Nat)
    BY DEF Frame, Path
  <2>3. \A k \in 1..N : k \in 1..(N + 1)
    BY <1>2
  <2>4. QED
    BY <2>1, <2>2, <2>3
<1>5. /\ Covered(d, n) /\ Covered(p, n) /\ ~Among(d, l) /\ Unseen(stack, d) /\ Unseen(stack, p)
      /\ \A k \in 1..N : Len(stack[k].dir) < Len(p)
      /\ \A k \in 1..Len(l) : \A e \in rest : ~Begins(l[k], Append(p, e.name))
  BY DEF Unmet
<1>6. /\ \A k \in 1..Len(l) : Covered(l[k], n) /\ Unseen(stack, l[k])
      /\ \A k \in 1..N : /\ Covered(stack[k].dir, n) /\ Unseen(stack, stack[k].dir)
                         /\ NamesDiffer(stack[k].rest)
      /\ \A j, k \in 1..N : j < k => Len(stack[j].dir) < Len(stack[k].dir)
  BY CoveredMore DEF WalkedOnce
<1>7. \A e \in rest : e.name \in Nat
  BY DEF Names
<1> HIDE DEF d, p, calls, N
<1>8. ASSUME NEW x, Unseen(stack, x), \A e \in rest : ~Begins(x, Append(p, e.name))
      PROVE  Unseen(calls, x)
  <2>1. \A k \in 1..N : \A e \in calls[k].rest : ~Begins(x, Append(calls[k].dir, e.name))
    BY <1>2, <1>8 DEF Unseen, N
  <2>2. \A e \in calls[N + 1].rest : ~Begins(x, Append(calls[N + 1].dir, e.name))
    BY <1>2, <1>8 DEF p
  <2>3. QED
    BY <1>2, <1>3, <2>1, <2>2 DEF Unseen
<1>9. ASSUME NEW x \in Seq(Nat), Len(x) <= Len(p), NEW e \in rest PROVE ~Begins(x, Append(p, e.name))
  <2>1. Begins(x, Append(p, e.name)) => Len(p) < Len(x)
    BY <1>1, <1>7, <1>9, BeginsAppend
  <2>2. Len(p) \in Nat /\ Len(x) \in Nat
    BY <1>1, <1>9, LenProperties
  <2>3. QED
    BY <1>9, <2>1, <2>2
<1>10. Len(p) \in Nat /\ \A k \in 1..N : Len(stack[k].dir) \in Nat /\ Len(stack[k].dir) <= Len(p)
  BY <1>1, <1>4, <1>5, LenProperties
<1>11. \A k \in 1..Len(more) : Covered(more[k], n) /\ Unseen(calls, more[k])
  <2>1. \A k \in 1..Len(l) : Unseen(calls, l[k])
    BY <1>5, <1>6, <1>8
  <2>2. Unseen(calls, d)
    BY <1>1, <1>5, <1>8
  <2>3. /\ more[Len(l) + 1] = d /\ \A k \in 1..Len(l) : more[k] = l[k]
        /\ \A k \in 1..Len(more) : k \in 1..Len(l) \/ k = Len(l) + 1
    BY DEF Longer, d
  <2>4. QED
    BY <1>5, <1>6, <2>1, <2>2, <2>3
<1>12. /\ \A k \in 1..N : Unseen(calls, stack[k].dir)
       /\ Unseen(calls, p)
  <2>1. \A k \in 1..N : Unseen(calls, stack[k].dir)
    BY <1>4, <1>6, <1>8, <1>9, <1>10
  <2>2. Len(p) <= Len(p)
    BY <1>10
  <2>3. QED
    BY <1>1, <1>5, <1>8, <1>9, <2>1, <2>2
<1>13. \A k \in 1..(N + 1) : /\ Covered(calls[k].dir, n) /\ Unseen(calls, calls[k].dir)
                             /\ NamesDiffer(calls[k].rest)
  <2>1. calls[N + 1].dir = p /\ calls[N + 1].rest = rest
    BY <1>2 DEF p
  <2>2. QED
    BY <1>2, <1>3, <1>5, <1>6, <1>12, <2>1
<1>14. \A j, k \in 1..(N + 1) : j < k => Len(calls[j].dir) < Len(calls[k].dir)
  <2>1. ASSUME NEW j \in 1..(N + 1), NEW k \in 1..(N + 1), j < k
        PROVE  Len(calls[j].dir) < Len(calls[k].dir)
    <3>1. j \in 1..N /\ calls[N + 1].dir = p
      BY <1>2, <2>1 DEF p
    <3>2. QED
      BY <1>2, <1>3, <1>5, <1>6, <2>1, <3>1
  <2>2. QED
    BY <2>1
<1>15. QED
  BY <1>2, <1>11, <1>13, <1>14 DEF WalkedOnce, calls

LEMMA GivenPaths ==
  ASSUME IInv, Limits
  PROVE  /\ Len(args) \in Nat /\ DOMAIN args = 1..Len(args) /\ \A j \in 1..Len(args) : args[j] \in Path
         /\ at.arg \in Nat \ {0} /\ at.arg <= Len(args) + 1
<1>1. args \in Arguments /\ at.arg \in Nat \ {0} /\ at.arg <= Len(args) + 1
  BY DEF IInv, TypeInv, Limits
<1>2. args \in Seq(Seq(Nat))
  BY <1>1, FileCrawlerAssumption
<1>3. Len(args) \in Nat /\ DOMAIN args = 1..Len(args)
  BY <1>2, LenProperties
<1>4. ASSUME NEW j \in 1..Len(args) PROVE args[j] \in Path
  <2>1. j \in Nat \ {0} /\ j <= Len(args)
    BY <1>3
  <2>2. QED
    BY <1>1, <2>1, ArgumentsArePaths
<1>5. QED
  BY <1>1, <1>3, <1>4

LEMMA WalkDistinct ==
  ASSUME IInv, Limits, Distinct, at.main = "walk", UNCHANGED <<args, scan, set>>,
         NEW stack \in Seq(Frame), NEW path \in Path, NEW arg \in Nat \ {0}, at.arg <= arg,
         WalkedOnce(list, stack, at.arg - 1),
         Opens(Strip(path)) => Unmet(list, stack, path, arg - 1),
         processDirectory(stack, path, arg)
  PROVE  Distinct'
<1>1. /\ at \in [main : Places, arg : Nat \ {0}] /\ list \in Seq(Path) /\ fs \in Trees
      /\ at.arg - 1 \in Int /\ arg - 1 \in Int /\ at.arg - 1 <= arg - 1
  BY DEF IInv, TypeInv
<1>2. Different(list) /\ set' = {} /\ args' = args
  BY DEF Distinct
<1>3. CASE Passed(stack, arg)
  <2>1. at' = [at EXCEPT !.arg = arg] /\ frames' = stack /\ list' = list
    BY <1>3 DEF Passed
  <2>2. at'.main = "walk" /\ at'.arg = arg
    BY <1>1, <2>1
  <2>3. WalkedOnce(list, stack, arg - 1)
    BY <1>1, CoveredMore DEF WalkedOnce
  <2>4. QED
    BY <1>2, <2>1, <2>2, <2>3, DistinctNext
<1>4. CASE GiveUp(stack) /\ UNCHANGED list
  <2>1. at'.main = "done"
    BY <1>1, <1>4 DEF GiveUp, Goto
  <2>2. QED
    BY <1>2, <1>4, <2>1, DistinctNext
<1>5. CASE Entered(stack, path, arg)
  <2> DEFINE call == [dir |-> Prefix(path), rest |-> Stream(Strip(path))]
  <2>1. /\ Opens(Strip(path)) /\ list' = LL!InsertAt(list, Len(list) + 1, Strip(path))
        /\ frames' = Append(stack, call) /\ at' = [at EXCEPT !.arg = arg]
    BY <1>5 DEF Entered
  <2>2. at'.main = "walk" /\ at'.arg = arg
    BY <1>1, <2>1
  <2>3. Longer(list', list, Strip(path))
    BY <1>1, <2>1, PathOperators, ListMore
  <2>4. Unmet(list, stack, path, arg - 1)
    BY <2>1
  <2>5. Different(list')
    BY <1>2, <2>3, <2>4, DifferentMore DEF Unmet
  <2>6. /\ Stream(Strip(path)) \in SUBSET Entry /\ NamesDiffer(Stream(Strip(path)))
        /\ \A e \in Stream(Strip(path)) : e.name \in Names
    BY <1>1, StreamType, StreamNames
  <2>7. call \in Frame /\ call.dir = Prefix(path) /\ call.rest = Stream(Strip(path))
    BY <2>6, PathOperators DEF Frame
  <2> HIDE DEF call
  <2>8. WalkedOnce(list', Append(stack, call), arg - 1)
    BY <1>1, <2>3, <2>4, <2>6, <2>7, EnteredOnce
  <2>9. QED
    BY <1>2, <2>1, <2>2, <2>5, <2>8, DistinctNext
<1>6. QED
  BY <1>3, <1>4, <1>5, ProcessDirectoryWays

LEMMA WalkArgumentDistinct == IInv /\ Limits /\ Apart /\ Distinct /\ WalkArgument => Distinct'
<1>1. SUFFICES ASSUME IInv, Limits, Apart, Distinct, WalkArgument PROVE Distinct'
  OBVIOUS
<1> DEFINE n == at.arg
           a == args[n]
<1>2. /\ n \in Nat \ {0} /\ n \in 1..Len(args) /\ a \in Path /\ DOMAIN args = 1..Len(args)
      /\ Len(args) \in Nat /\ \A j \in 1..Len(args) : args[j] \in Path
  BY <1>1, GivenPaths DEF WalkArgument
<1>3. at.main = "walk" /\ frames = << >> /\ UNCHANGED <<args, scan, set>> /\ list \in Seq(Path)
  BY <1>1 DEF WalkArgument, afterWalk, IInv, TypeInv
<1>4. WalkedOnce(list, << >>, n - 1)
  BY <1>1, <1>3 DEF Distinct
<1>5. ASSUME NEW k \in 1..Len(list) PROVE ~Begins(list[k], Prefix(a)) /\ list[k] \in Seq(Nat)
  <2>1. list[k] \in Seq(Nat)
    BY <1>3, ElementOfSeq DEF Path
  <2>2. PICK j \in 1..(n - 1) : Begins(list[k], Prefix(args[j]))
    BY <1>4 DEF WalkedOnce, Covered
  <2>3. j \in 1..Len(args) /\ j # n
    BY <1>2
  <2>4. ASSUME Begins(list[k], Prefix(a)) PROVE FALSE
    BY <1>1, <1>2, <2>1, <2>2, <2>3, <2>4, ApartArguments
  <2>5. QED
    BY <2>1, <2>4
<1>6. /\ Prefix(a) \in Seq(Nat) /\ Strip(a) \in Seq(Nat) /\ Begins(Strip(a), Prefix(a))
      /\ Begins(Prefix(a), Prefix(a))
  BY <1>2, PathBegins, BeginsOrder
<1>7. n \in 1..n /\ (n + 1) - 1 = n /\ n <= n + 1 /\ n + 1 \in Nat \ {0}
  BY <1>2
<1>8. Unmet(list, << >>, a, n)
  <2>1. Covered(Strip(a), n) /\ Covered(Prefix(a), n)
    BY <1>6, <1>7 DEF Covered
  <2>2. ~Among(Strip(a), list)
    BY <1>5, <1>6 DEF Among
  <2>3. \A k \in 1..Len(list) : \A m \in Names : ~Begins(list[k], Append(Prefix(a), m))
    <3>1. \A m \in Names : m \in Nat
      BY DEF Names
    <3>2. QED
      BY <1>5, <1>6, <3>1, BeginsAppend
  <2>4. Unseen(<< >>, Strip(a)) /\ Unseen(<< >>, Prefix(a))
    BY DEF Unseen
  <2>5. QED
    BY <2>1, <2>2, <2>3, <2>4 DEF Unmet
<1>9. processDirectory(<< >>, a, n + 1) /\ << >> \in Seq(Frame)
  BY <1>1 DEF WalkArgument
<1> HIDE DEF a, n
<1>10. QED
  BY <1>1, <1>2, <1>3, <1>4, <1>7, <1>8, <1>9, WalkDistinct DEF n

(* The stack without an entry of its last call.                            *)
Without(stack, calls, e) ==
  /\ calls \in Seq(Frame) /\ Len(calls) = Len(stack) /\ Len(stack) \in Nat \ {0}
  /\ \A k \in 1..Len(stack) : calls[k].dir = stack[k].dir /\ calls[k].rest \subseteq stack[k].rest
  /\ calls[Len(stack)].rest = stack[Len(stack)].rest \ {e}
  /\ \A k \in 1..Len(stack) : k # Len(stack) => calls[k] = stack[k]

LEMMA EntryTaken ==
  ASSUME NEW stack \in Seq(Frame), stack # << >>, NEW e
  PROVE  Without(stack, [stack EXCEPT ![Len(stack)].rest = @ \ {e}], e)
<1> DEFINE n == Len(stack)
           call == [stack[n] EXCEPT !.rest = @ \ {e}]
           calls == [stack EXCEPT ![n].rest = @ \ {e}]
<1>1. n \in Nat \ {0} /\ stack[n] \in Frame
  BY LastFrame
<1>2. call \in Frame /\ call.dir = stack[n].dir /\ call.rest = stack[n].rest \ {e}
  BY <1>1 DEF Frame
<1>3. calls = [stack EXCEPT ![n] = call]
  OBVIOUS
<1> HIDE DEF call
<1>4. n \in 1..n /\ n \in 1..Len(stack) /\ Len(stack) = n /\ stack \in Seq(Frame)
  BY <1>1
<1> HIDE DEF n, calls
<1>5. calls \in Seq(Frame) /\ Len(calls) = n
  BY ONLY <1>2, <1>3, <1>4, ExceptSeq
<1>6. \A k \in 1..n : calls[k] = IF k = n THEN call ELSE stack[k]
  BY ONLY <1>2, <1>3, <1>4, ExceptSeq
<1>7. QED
  BY <1>1, <1>2, <1>4, <1>5, <1>6 DEF Without, n, calls

LEMMA WalkEntryDistinct == IInv /\ Limits /\ Contents /\ Distinct /\ WalkEntry => Distinct'
<1>1. SUFFICES ASSUME IInv, Limits, Contents, Distinct, WalkEntry PROVE Distinct'
  OBVIOUS
<1> DEFINE n == Len(frames)
           stack(e) == [frames EXCEPT ![n].rest = @ \ {e}]
           m == at.arg - 1
<1>2. PICK e \in frames[n].rest :
        IF IsDirectory(e)
        THEN processDirectory(stack(e), Append(frames[n].dir, e.name), at.arg)
        ELSE frames' = stack(e) /\ UNCHANGED <<at, list, llReply, owned, failures>>
  BY <1>1 DEF WalkEntry
<1>3. /\ frames \in Seq(Frame) /\ frames # << >> /\ at.main = "walk" /\ list \in Seq(Path)
      /\ UNCHANGED <<args, scan, set>> /\ at.arg \in Nat \ {0}
  BY <1>1 DEF IInv, TypeInv, WalkEntry, afterWalk
<1> DEFINE calls == stack(e)
<1>4. Without(frames, calls, e)
  BY <1>3, EntryTaken
<1> HIDE DEF calls, stack
<1>5. WalkedOnce(list, frames, m) /\ Different(list) /\ set = {}
  BY <1>1, <1>3 DEF Distinct
<1>6. \A x : Unseen(frames, x) => Unseen(calls, x)
  BY <1>4 DEF Without, Unseen
<1>7. WalkedOnce(list, calls, m)
  <2>1. \A k \in 1..Len(frames) : NamesDiffer(frames[k].rest) => NamesDiffer(calls[k].rest)
    BY <1>4 DEF Without, NamesDiffer
  <2>2. QED
    BY <1>4, <1>5, <1>6, <2>1 DEF WalkedOnce, Without
<1>8. /\ frames[n].dir \in Path /\ e.name \in Names /\ n \in 1..n /\ n \in Nat \ {0} /\ e.name \in Nat
      /\ \A k \in 1..n : frames[k].dir \in Path /\ frames[k].rest \subseteq Entry
  <2>1. n \in 1..n /\ n \in Nat \ {0}
    BY <1>4 DEF Without
  <2>2. \A k \in 1..n : frames[k] \in Frame
    BY <1>3, ElementOfSeq
  <2>3. \A c \in Frame : c.dir \in Path /\ c.rest \subseteq Entry
    BY DEF Frame
  <2>4. e.name \in Names
    BY <1>1, <2>1 DEF Contents, Calls, Listed
  <2>5. QED
    BY <2>1, <2>2, <2>3, <2>4 DEF Names
<1>9. CASE IsDirectory(e)
  <2> DEFINE top == frames[n].dir
             d == Append(top, e.name)
  <2>1. d \in Path /\ Strip(d) = d /\ Prefix(d) = d
    BY <1>8, EntryPath
  <2>2. processDirectory(calls, d, at.arg)
    BY <1>2, <1>9 DEF calls
  <2>3. d \in Seq(Nat) /\ top \in Seq(Nat) /\ Len(d) = Len(top) + 1 /\ Len(top) \in Nat
    BY <1>8, <2>1, AppendProperties, LenProperties DEF Path
  <2>4. Covered(d, m)
    <3>1. PICK j \in 1..m : Begins(top, Prefix(args[j]))
      BY <1>5, <1>8 DEF WalkedOnce, Covered
    <3>2. Prefix(args[j]) \in Seq(Nat)
      <4>1. args[j] \in Path
        <5>1. j \in 1..Len(args)
          BY <1>1, <1>3, GivenPaths
        <5>2. QED
          BY <1>1, <5>1, GivenPaths
      <4>2. QED
        BY <4>1, PathBegins
    <3>3. Begins(d, Prefix(args[j]))
      BY <1>8, <2>3, <3>1, <3>2, BeginsAppend
    <3>4. QED
      BY <3>3 DEF Covered
  <2>5. ASSUME NEW k \in 1..Len(list) PROVE list[k] \in Seq(Nat) /\ ~Begins(list[k], d)
    <3>1. list[k] \in Seq(Nat)
      BY <1>3, ElementOfSeq DEF Path
    <3>2. QED
      BY <1>5, <1>8, <3>1 DEF WalkedOnce, Unseen
  <2>6. ~Among(d, list)
    <3>1. Begins(d, d)
      BY <2>3, BeginsOrder
    <3>2. QED
      BY <2>5, <3>1 DEF Among
  <2>7. Unseen(calls, d)
    <3>1. SUFFICES ASSUME NEW k \in 1..n, NEW f \in calls[k].rest, Begins(d, Append(frames[k].dir, f.name))
                   PROVE  FALSE
      BY <1>4 DEF Unseen, Without
    <3>2. f \in frames[k].rest /\ f \in Entry /\ f.name \in Nat /\ frames[k].dir \in Seq(Nat)
      BY <1>4, <1>8 DEF Without, Entry, Path
    <3>3. Begins(top, Append(frames[k].dir, f.name)) \/ (top = frames[k].dir /\ e.name = f.name)
      BY <1>8, <2>3, <3>1, <3>2, BeginsAppend
    <3>4. ~Begins(top, Append(frames[k].dir, f.name))
      BY <1>5, <1>8, <3>2 DEF WalkedOnce, Unseen
    <3>5. k = n
      <4>1. k < n => Len(frames[k].dir) < Len(top)
        BY <1>5, <1>8 DEF WalkedOnce
      <4>2. QED
        BY <1>8, <2>3, <3>3, <3>4, <4>1
    <3>6. f # e
      BY <1>4, <3>5 DEF Without
    <3>7. QED
      BY <1>5, <1>8, <3>2, <3>3, <3>4, <3>5, <3>6 DEF WalkedOnce, NamesDiffer
  <2>8. \A k \in 1..Len(calls) : Len(calls[k].dir) < Len(d)
    <3>1. SUFFICES ASSUME NEW k \in 1..n PROVE Len(frames[k].dir) < Len(d)
      BY <1>4 DEF Without
    <3>2. Len(frames[k].dir) \in Nat
      BY <1>8, LenProperties DEF Path
    <3>3. k = n \/ Len(frames[k].dir) < Len(top)
      BY <1>5, <1>8 DEF WalkedOnce
    <3>4. QED
      BY <2>3, <3>2, <3>3
  <2>9. \A k \in 1..Len(list) : \A x \in Names : ~Begins(list[k], Append(d, x))
    <3>1. \A x \in Names : x \in Nat
      BY DEF Names
    <3>2. ASSUME NEW k \in 1..Len(list), NEW x \in Names, Begins(list[k], Append(d, x))
          PROVE  Begins(list[k], d)
      <4>1. list[k] \in Seq(Nat) /\ d \in Seq(Nat) /\ x \in Nat
        BY <2>3, <2>5, <3>1
      <4> HIDE DEF d
      <4>2. QED
        BY <3>2, <4>1, BeginsAppend
    <3>3. QED
      BY <2>5, <3>2
  <2> HIDE DEF d
  <2>10. Unmet(list, calls, d, m)
    BY <2>1, <2>4, <2>6, <2>7, <2>8, <2>9 DEF Unmet
  <2>11. calls \in Seq(Frame) /\ at.arg <= at.arg
    BY <1>3, <1>4 DEF Without
  <2>12. QED
    BY <1>1, <1>3, <1>7, <2>1, <2>2, <2>10, <2>11, WalkDistinct
<1>10. CASE ~IsDirectory(e)
  <2>1. frames' = calls /\ UNCHANGED <<at, list>>
    BY <1>2, <1>10 DEF calls
  <2>2. QED
    BY <1>3, <1>5, <1>7, <2>1, DistinctNext
<1>11. QED
  BY <1>9, <1>10

(* The other steps meet nothing that was met before.                       *)
LEMMA WalkReturnDistinct == IInv /\ Distinct /\ WalkReturn => Distinct'
<1>1. SUFFICES ASSUME IInv, Distinct, WalkReturn PROVE Distinct'
  OBVIOUS
<1>2. /\ frames \in Seq(Frame) /\ frames # << >> /\ at.main = "walk"
      /\ frames' = SubSeq(frames, 1, Len(frames) - 1)
      /\ UNCHANGED <<args, at, list, scan, set>>
  BY <1>1 DEF IInv, TypeInv, WalkReturn, afterWalk
<1>3. Len(frames) \in Nat \ {0} /\ Len(frames') = Len(frames) - 1
  BY <1>2, LastFrame, OneLess
<1>4. \A k \in 1..Len(frames') : k \in 1..Len(frames) /\ frames'[k] = frames[k]
  BY <1>2, <1>3
<1>5. Different(list) /\ set = {} /\ WalkedOnce(list, frames, at.arg - 1)
  BY <1>1, <1>2 DEF Distinct
<1>6. \A x : Unseen(frames, x) => Unseen(frames', x)
  BY <1>4 DEF Unseen
<1>7. WalkedOnce(list, frames', at.arg - 1)
  BY <1>4, <1>5, <1>6 DEF WalkedOnce
<1>8. QED
  BY <1>2, <1>5, <1>7, DistinctNext

LEMMA WalkEndsDistinct == IInv /\ Distinct /\ WalkEnds => Distinct'
<1>1. SUFFICES ASSUME IInv, Distinct, WalkEnds PROVE Distinct'
  OBVIOUS
<1>2. /\ at \in [main : Places, arg : Nat \ {0}] /\ at.main = "walk" /\ scan = NoScan
      /\ UNCHANGED <<args, list, scan, set>> /\ Goto("apply")
  BY <1>1 DEF IInv, TypeInv, Placed, WalkEnds, afterWalk
<1>3. at'.main = "apply" /\ Different(list) /\ set = {}
  BY <1>1, <1>2 DEF Distinct, Goto
<1>4. ScannedOnce(list', scan', set')
  BY <1>2, <1>3 DEF ScannedOnce
<1>5. QED
  BY <1>2, <1>3, <1>4, DistinctNext

LEMMA NextDirectoryDistinct == IInv /\ Distinct /\ NextDirectory => Distinct'
<1>1. SUFFICES ASSUME IInv, Distinct, NextDirectory PROVE Distinct'
  OBVIOUS
<1>2. /\ at \in [main : Places, arg : Nat \ {0}] /\ fs \in Trees /\ at.main = "apply" /\ list \in Seq(Path)
      /\ scan = NoScan /\ UNCHANGED <<args, set>> /\ Different(list) /\ ScannedOnce(list, scan, set)
  BY <1>1 DEF IInv, TypeInv, NextDirectory, Distinct
<1>3. \/ list' = list /\ UNCHANGED scan
      \/ /\ Len(list) > 0 /\ list' = LL!RemoveAt(list, 1)
         /\ scan' = [dir |-> list[1], rest |-> Stream(list[1])] \/ UNCHANGED scan
  BY <1>1 DEF NextDirectory, LL!RemoveElement, LL!Refused, LL!Reply
<1>4. at'.main # "walk"
  BY <1>1, <1>2 DEF NextDirectory, Goto
<1>5. CASE list' = list /\ UNCHANGED scan
  BY <1>2, <1>4, <1>5, DistinctNext
<1>6. CASE Len(list) > 0 /\ list' = LL!RemoveAt(list, 1)
  <2>1. Shorter(list', list)
    BY <1>2, <1>6, ListLess
  <2>2. Different(list') /\ ~Among(list[1], list')
    BY <1>2, <2>1, DifferentLess
  <2>3. \A k \in 1..Len(list') : k + 1 \in 1..Len(list) /\ list'[k] = list[k + 1]
    BY <2>1 DEF Shorter
  <2>4. \A k \in 1..Len(list') : \A n \in Nat : Append(list'[k], n) \notin set
    BY <1>2, <2>3 DEF ScannedOnce
  <2>5. NamesDiffer(Stream(list[1])) /\ \A e \in Stream(list[1]) : e.name \in Nat
    BY <1>2, StreamNames DEF Names
  <2>6. \A e \in Stream(list[1]) : Append(list[1], e.name) \notin set
    BY <1>2, <2>1, <2>5 DEF ScannedOnce, Shorter
  <2>7. ScannedOnce(list', scan', set)
    <3>1. CASE scan' = NoScan
      BY <2>4, <3>1 DEF ScannedOnce
    <3>2. CASE scan' = [dir |-> list[1], rest |-> Stream(list[1])]
      <4>1. scan'.dir = list[1] /\ scan'.rest = Stream(list[1])
        BY <3>2
      <4>2. QED
        BY <2>2, <2>4, <2>5, <2>6, <4>1 DEF ScannedOnce
    <3>3. QED
      BY <1>2, <1>3, <1>6, <3>1, <3>2
  <2>8. QED
    BY <1>2, <1>4, <2>2, <2>7, DistinctNext
<1>7. QED
  BY <1>3, <1>5, <1>6

LEMMA ScanDistinct ==
  ASSUME Distinct, at.main = "apply", args' = args, list' = list, at'.main # "walk",
         ScannedOnce(list, scan', set')
  PROVE  Distinct'
BY DistinctNext DEF Distinct

(* A line that is added is in no directory that is still on the list, and  *)
(* was not in the set before.                                              *)
LEMMA ScanEntryDistinct == IInv /\ Distinct /\ ScanEntry => Distinct'
<1>1. SUFFICES ASSUME IInv, Distinct, ScanEntry PROVE Distinct'
  OBVIOUS
<1> DEFINE rest(e) == scan.rest \ {e}
           engine(e) == re_match(reg, IF e.name \in Matching THEN 0 ELSE REG_NOMATCH)
           path(e) == Append(scan.dir, e.name)
<1>2. PICK e \in scan.rest :
        \/ scan' = [scan EXCEPT !.rest = rest(e)] /\ UNCHANGED <<at, set>>
        \/ AddPath(path(e), rest(e))
  BY <1>1 DEF ScanEntry
<1>3. /\ at.main = "apply" /\ at \in [main : Places, arg : Nat \ {0}] /\ list \in Seq(Path)
      /\ scan # NoScan /\ scan \in [dir : Seq(Nat), rest : SUBSET Entry] /\ UNCHANGED <<args, list>>
      /\ ScannedOnce(list, scan, set)
  BY <1>1 DEF IInv, TypeInv, ScanEntry, Distinct
<1>4. \/ scan' = [scan EXCEPT !.rest = rest(e)] /\ UNCHANGED at
      \/ EndScan(0)
      \/ FollowNull(path(e))
  BY <1>2, AddPathWays DEF Added
<1>5. set' = set \/ set' = set \cup {path(e)}
  BY <1>2, AddPathWays DEF FollowNull
<1>6. \A f \in scan.rest : f.name \in Nat
  BY <1>3 DEF Entry
<1>7. \A k \in 1..Len(list) : list[k] \in Seq(Nat) /\ list[k] # scan.dir
  <2>1. \A k \in 1..Len(list) : list[k] \in Path
    BY <1>3, ElementOfSeq
  <2>2. QED
    BY <1>3, <2>1 DEF Path, ScannedOnce, Among
<1>8. \A k \in 1..Len(list) : \A n \in Nat : Append(list[k], n) \notin set'
  <2>1. ASSUME NEW x \in Seq(Nat), NEW n \in Nat, Append(x, n) = path(e) PROVE x = scan.dir
    <3>1. scan.dir \in Seq(Nat) /\ e.name \in Nat
      BY <1>3, <1>6
    <3>2. Begins(Append(x, n), x) /\ Len(Append(x, n)) = Len(x) + 1
      BY BeginsAppend, AppendProperties
    <3>3. SubSeq(Append(x, n), 1, Len(x)) = x
      BY Beginnings
    <3>4. SubSeq(path(e), 1, Len(scan.dir)) = scan.dir /\ Len(path(e)) = Len(scan.dir) + 1
      BY <3>1, Beginnings, AppendProperties
    <3>5. Len(x) \in Nat /\ Len(scan.dir) \in Nat
      BY <3>1, LenProperties
    <3>6. Len(x) = Len(scan.dir)
      BY <2>1, <3>2, <3>4, <3>5
    <3>7. QED
      BY <2>1, <3>3, <3>4, <3>6
  <2> HIDE DEF path
  <2>2. ASSUME NEW k \in 1..Len(list), NEW n \in Nat PROVE Append(list[k], n) \notin set'
    <3>1. list[k] \in Seq(Nat) /\ list[k] # scan.dir /\ Append(list[k], n) \notin set
      BY <1>3, <1>7 DEF ScannedOnce
    <3>2. Append(list[k], n) # path(e)
      BY <2>1, <3>1
    <3>3. QED
      BY <1>5, <3>1, <3>2
  <2>3. QED
    BY <2>2
<1>9. at'.main # "walk" /\ (FollowNull(path(e)) => at'.main = "killed")
  BY <1>3, <1>4 DEF EndScan, FollowNull, Goto
<1>10. CASE EndScan(0)
  <2>1. scan' = NoScan
    BY <1>10 DEF EndScan
  <2>2. ScannedOnce(list, scan', set')
    BY <1>8, <2>1 DEF ScannedOnce
  <2>3. QED
    BY <1>1, <1>3, <1>9, <2>2, ScanDistinct
<1>11. CASE scan' = [scan EXCEPT !.rest = rest(e)]
  <2>1. scan'.dir = scan.dir /\ scan'.rest = scan.rest \ {e}
    BY <1>3, <1>11
  <2>2. ~Among(scan.dir, list) /\ NamesDiffer(scan'.rest)
    BY <1>3, <2>1 DEF ScannedOnce, NamesDiffer
  <2>3. ASSUME NEW f \in scan'.rest PROVE Append(scan.dir, f.name) \notin set'
    <3>1. f \in scan.rest /\ f # e /\ f.name # e.name
      BY <1>3, <2>1, <2>3 DEF ScannedOnce, NamesDiffer
    <3>2. Append(scan.dir, f.name) # path(e)
      BY <1>3, <1>6, <3>1
    <3>3. Append(scan.dir, f.name) \notin set
      BY <1>3, <3>1 DEF ScannedOnce
    <3>4. QED
      BY <1>5, <3>2, <3>3
  <2>4. ScannedOnce(list, scan', set')
    BY <1>8, <2>1, <2>2, <2>3 DEF ScannedOnce
  <2>5. QED
    BY <1>1, <1>3, <1>9, <2>4, ScanDistinct
<1>12. CASE FollowNull(path(e))
  <2>1. at'.main = "killed" /\ Different(list')
    BY <1>1, <1>3, <1>9, <1>12 DEF Distinct
  <2>2. QED
    BY <1>3, <2>1, DistinctNext
<1>13. QED
  BY <1>4, <1>10, <1>11, <1>12

LEMMA ScanEndsDistinct == IInv /\ Distinct /\ ScanEnds => Distinct'
<1>1. SUFFICES ASSUME IInv, Distinct, ScanEnds PROVE Distinct'
  OBVIOUS
<1>2. at.main = "apply" /\ UNCHANGED <<args, list, set>> /\ EndScan(1)
  BY <1>1 DEF ScanEnds
<1>3. scan' = NoScan /\ at'.main # "walk"
  BY <1>2 DEF EndScan
<1>4. ScannedOnce(list, scan', set')
  BY <1>1, <1>2, <1>3 DEF Distinct, ScannedOnce
<1>5. QED
  BY <1>1, <1>2, <1>3, <1>4, ScanDistinct

LEMMA CreateContainersDistinct == IInv /\ Distinct /\ CreateContainers => Distinct'
<1>1. SUFFICES ASSUME IInv, Distinct, CreateContainers PROVE Distinct'
  OBVIOUS
<1>2. /\ list = << >> /\ set = {} /\ frames = << >> /\ at \in [main : Places, arg : Nat \ {0}]
      /\ UNCHANGED <<args, list, set, frames>> /\ at'.main \in {"walk", "done"}
  BY <1>1 DEF IInv, TypeInv, Placed, CreateContainers, Goto
<1>3. Different(list') /\ WalkedOnce(list', frames', at'.arg - 1)
  BY <1>2 DEF Different, WalkedOnce
<1>4. QED
  BY <1>2, <1>3, DistinctNext

LEMMA OtherDistinct ==
  ASSUME IInv, Distinct,
         \/ CreateEngine \/ CompilePattern \/ CreateIterator \/ PrintLine \/ PrintEnds \/ Cleanup
         \/ Change \/ UNCHANGED vars
  PROVE  Distinct'
<1>1. at \in [main : Places, arg : Nat \ {0}] /\ Different(list)
  BY DEF IInv, TypeInv, Distinct
<1>2. CASE Change \/ UNCHANGED vars
  <2>1. UNCHANGED <<args, at, list, frames, scan, set>>
    BY <1>2 DEF Change, vars
  <2>2. QED
    BY <2>1, DistinctNext DEF Distinct
<1>3. CASE CreateEngine \/ CompilePattern \/ CreateIterator \/ PrintLine \/ PrintEnds \/ Cleanup
  <2>1. args' = args /\ (list' = list \/ list' = << >>)
    BY <1>3 DEF CreateEngine, CompilePattern, CreateIterator, PrintLine, PrintEnds, Cleanup, LL!Empty
  <2>2. at'.main # "walk" /\ at'.main # "apply"
    BY <1>1, <1>3 DEF CreateEngine, CompilePattern, CreateIterator, PrintLine, PrintEnds, Cleanup, Goto
  <2>3. Different(list')
    BY <1>1, <2>1 DEF Different
  <2>4. QED
    BY <2>1, <2>2, <2>3, DistinctNext
<1>4. QED
  BY <1>2, <1>3

(* Nothing is met twice, as long as no argument is another one or below it. *)
LEMMA DistinctKept == IInv /\ Limits /\ Contents /\ Apart /\ Distinct /\ [Next]_vars => Distinct'
BY WalkArgumentDistinct, WalkEntryDistinct, WalkReturnDistinct, WalkEndsDistinct,
   NextDirectoryDistinct, ScanEntryDistinct, ScanEndsDistinct, CreateContainersDistinct,
   OtherDistinct
DEF Next, Step, Terminated

LEMMA ArgumentsKept == [Next]_vars => args' = args
BY DEF Next, Step, Terminated, vars, Change, CreateEngine, CompilePattern, CreateContainers, WalkArgument,
       WalkEntry, WalkReturn, WalkEnds, afterWalk, NextDirectory, ScanEntry, ScanEnds,
       CreateIterator, PrintLine, PrintEnds, Cleanup
-----------------------------------------------------------------------------
(* The way from an argument's place along the names in r.                  *)
Route(a, r, k) == Place(a) \o SubSeq(r, 1, k)

\* The strings of the directories on it, and of the one that has the file.
Walked(a, r, k) == Prefix(a) \o SubSeq(r, 1, k)
Stop(a, r, k) == IF k = 1 THEN Strip(a) ELSE Walked(a, r, k - 1)
Kept(a, r) == Stop(a, r, Len(r))
Line(a, r) == Append(Kept(a, r), r[Len(r)])

(* The search should find the file at the end of the way.                  *)
Reaches(t, a, r) ==
  /\ a # <<Nothing>> /\ Len(r) \in 1..OpenMax /\ r[Len(r)] \in Matching
  /\ \A k \in 0..Len(r) : Route(a, r, k) \in DOMAIN t
  /\ \A k \in 0..(Len(r) - 1) : t[Route(a, r, k)].opens
  /\ \A k \in 1..Len(r) : t[Route(a, r, k)].type \in DirectoryTypes <=> k < Len(r)

Sought(a, r) == \A t \in past : Reaches(t, a, r)

(* One name further on the way.                                            *)
LEMMA Further ==
  ASSUME NEW x \in Seq(Nat), NEW r \in Seq(Nat)
  PROVE  /\ x \o SubSeq(r, 1, 0) = x
         /\ \A k \in 1..Len(r) : /\ x \o SubSeq(r, 1, k - 1) \in Seq(Nat)
                                 /\ x \o SubSeq(r, 1, k) = Append(x \o SubSeq(r, 1, k - 1), r[k])
         /\ \A k \in 0..Len(r) : /\ SubSeq(r, 1, k) \in Seq(Nat) /\ Len(SubSeq(r, 1, k)) = k
                                 /\ \A i \in 1..k : SubSeq(r, 1, k)[i] = r[i]
<1>1. Len(r) \in Nat /\ \A i \in 1..Len(r) : r[i] \in Nat
  BY LenProperties, ElementOfSeq
<1>2. ASSUME NEW k \in 0..Len(r)
      PROVE  /\ SubSeq(r, 1, k) \in Seq(Nat) /\ Len(SubSeq(r, 1, k)) = k
             /\ \A i \in 1..k : SubSeq(r, 1, k)[i] = r[i]
  <2>1. k \in Int /\ 1 \in Int /\ \A i \in 1..k : r[i] \in Nat
    BY <1>1
  <2> DEFINE s == SubSeq(r, 1, k)
  <2>2. /\ s \in Seq(Nat) /\ Len(s) = (IF 1 <= k THEN k - 1 + 1 ELSE 0)
        /\ \A i \in 1..(k - 1 + 1) : s[i] = r[1 + i - 1]
    BY <2>1, SubSeqProperties
  <2>3. (IF 1 <= k THEN k - 1 + 1 ELSE 0) = k /\ k - 1 + 1 = k /\ \A i \in 1..k : 1 + i - 1 = i
    BY <1>1
  <2> HIDE DEF s
  <2>4. s \in Seq(Nat) /\ Len(s) = k /\ \A i \in 1..k : s[i] = r[i]
    BY <2>2, <2>3
  <2>5. QED
    BY <2>4 DEF s
<1>3. x \o SubSeq(r, 1, 0) = x
  <2>1. SubSeq(r, 1, 0) = << >>
    <3>1. 1 \in Int /\ 0 \in Int /\ 0 < 1
      OBVIOUS
    <3>2. QED
      BY <3>1, SubSeqEmpty
  <2>2. QED
    BY <2>1, ConcatEmptySeq
<1>4. ASSUME NEW k \in 1..Len(r)
      PROVE  /\ x \o SubSeq(r, 1, k - 1) \in Seq(Nat)
             /\ x \o SubSeq(r, 1, k) = Append(x \o SubSeq(r, 1, k - 1), r[k])
  <2> DEFINE s == SubSeq(r, 1, k)
             u == SubSeq(r, 1, k - 1)
             y == Append(u, r[k])
  <2>1. k \in 0..Len(r) /\ k - 1 \in 0..Len(r) /\ r[k] \in Nat /\ k \in Nat
    BY <1>1
  <2>2. /\ s \in Seq(Nat) /\ Len(s) = k /\ \A i \in 1..k : s[i] = r[i]
        /\ u \in Seq(Nat) /\ Len(u) = k - 1 /\ \A i \in 1..(k - 1) : u[i] = r[i]
    BY <1>2, <2>1
  <2> HIDE DEF s, u
  <2>3. y \in Seq(Nat) /\ Len(y) = Len(u) + 1 /\ y[Len(u) + 1] = r[k] /\ \A i \in 1..Len(u) : y[i] = u[i]
    BY <2>1, <2>2, AppendProperties
  <2> HIDE DEF y
  <2>4. Len(y) = k /\ \A i \in 1..k : y[i] = r[i]
    <3>1. Len(u) + 1 = k /\ \A i \in 1..k : i = k \/ i \in 1..(k - 1)
      BY <2>1, <2>2
    <3>2. QED
      BY <2>2, <2>3, <3>1
  <2>5. s = y
    <3>1. Len(s) = Len(y) /\ \A i \in 1..Len(s) : s[i] = y[i]
      BY <2>2, <2>4
    <3>2. QED
      BY <2>2, <2>3, <3>1, SeqEqual
  <2>6. x \o u \in Seq(Nat)
    BY <2>2, ConcatProperties
  <2>7. Append(x \o u, r[k]) = x \o Append(u, r[k])
    BY <2>1, <2>2, AppendBehind
  <2>8. x \o u \in Seq(Nat) /\ x \o s = Append(x \o u, r[k])
    BY <2>5, <2>6, <2>7 DEF y
  <2>9. QED
    BY <2>8 DEF s, u
<1>5. QED
  BY <1>2, <1>3, <1>4

(* The same way, taken as a part of all of it.                             *)
LEMMA PartWay ==
  ASSUME NEW x \in Seq(Nat), NEW r \in Seq(Nat), NEW k \in 0..Len(r)
  PROVE  SubSeq(x \o r, 1, Len(x) + k) = x \o SubSeq(r, 1, k)
<1> DEFINE s == SubSeq(r, 1, k)
           y == x \o s
           z == x \o r
<1>1. s \in Seq(Nat) /\ Len(s) = k /\ \A i \in 1..k : s[i] = r[i]
  BY Further
<1> HIDE DEF s
<1>2. /\ y \in Seq(Nat) /\ Len(y) = Len(x) + k
      /\ \A i \in 1..(Len(x) + k) : y[i] = IF i <= Len(x) THEN x[i] ELSE s[i - Len(x)]
  BY <1>1, ConcatProperties
<1>3. /\ z \in Seq(Nat) /\ Len(z) = Len(x) + Len(r)
      /\ \A i \in 1..(Len(x) + Len(r)) : z[i] = IF i <= Len(x) THEN x[i] ELSE r[i - Len(x)]
  BY ConcatProperties
<1> HIDE DEF y, z
<1>4. Len(x) \in Nat /\ Len(r) \in Nat /\ k <= Len(r) /\ k \in Nat
  BY LenProperties
<1>5. \A i \in 1..(Len(x) + k) : /\ i \in 1..(Len(x) + Len(r))
                                 /\ ~(i <= Len(x)) => i - Len(x) \in 1..k
  BY <1>4
<1>6. \A i \in 1..(Len(x) + k) : z[i] = y[i]
  BY <1>1, <1>2, <1>3, <1>5
<1>7. Begins(z, y)
  BY <1>2, <1>3, <1>4, <1>6 DEF Begins
<1>8. SubSeq(z, 1, Len(y)) = y
  BY <1>2, <1>3, <1>7, BeginsIsSubSeq
<1>9. QED
  BY <1>2, <1>8 DEF y, z, s

LEMMA NamesAreNumbers ==
  ASSUME NEW r \in Seq(Names)
  PROVE  r \in Seq(Nat) /\ Len(r) \in Nat /\ \A k \in 1..Len(r) : r[k] \in Names
<1>1. Names \subseteq Nat
  BY DEF Names
<1>2. r \in Seq(Nat)
  BY <1>1, SeqMonotonic
<1>3. QED
  BY <1>2, LenProperties, ElementOfSeq

LEMMA RouteSteps ==
  ASSUME NEW a \in Path, NEW r \in Seq(Names)
  PROVE  /\ Route(a, r, 0) = Place(a) /\ Walked(a, r, 0) = Prefix(a)
         /\ \A k \in 1..Len(r) : /\ Route(a, r, k) = Append(Route(a, r, k - 1), r[k])
                                 /\ Walked(a, r, k) = Append(Walked(a, r, k - 1), r[k])
                                 /\ Route(a, r, k - 1) \in Seq(Nat)
<1>1. Place(a) \in Seq(Nat) /\ Prefix(a) \in Seq(Nat) /\ r \in Seq(Nat)
  BY PlaceIs, PathOperators, NamesAreNumbers DEF Path
<1>2. QED
  BY <1>1, Further DEF Route, Walked

LEMMA RoutePlaces ==
  ASSUME NEW a \in Path, NEW r \in Seq(Names)
  PROVE  \A k \in 0..Len(r) : Walked(a, r, k) \in Path /\ Place(Walked(a, r, k)) = Route(a, r, k)
<1> DEFINE Good == {k \in 0..Len(r) : Walked(a, r, k) \in Path /\ Place(Walked(a, r, k)) = Route(a, r, k)}
<1>1. Len(r) \in Nat /\ \A k \in 1..Len(r) : r[k] \in Names
  BY NamesAreNumbers
<1>2. 0 \in Good
  BY <1>1, RouteSteps, PathOperators, SamePlace
<1>3. ASSUME NEW k \in 0..(Len(r) - 1), k \in Good PROVE k + 1 \in Good
  <2>1. k + 1 \in 1..Len(r) /\ k + 1 \in 0..Len(r) /\ (k + 1) - 1 = k
    BY <1>1, <1>3
  <2>2. /\ Walked(a, r, k + 1) = Append(Walked(a, r, k), r[k + 1])
        /\ Route(a, r, k + 1) = Append(Route(a, r, k), r[k + 1]) /\ r[k + 1] \in Names
    BY <1>1, <2>1, RouteSteps
  <2>3. Walked(a, r, k) \in Path /\ Place(Walked(a, r, k)) = Route(a, r, k)
    BY <1>3
  <2>4. Walked(a, r, k + 1) \in Path /\ Place(Walked(a, r, k + 1)) = Route(a, r, k + 1)
    BY <2>2, <2>3, EntryPath
  <2>5. QED
    BY <2>1, <2>4
<1> HIDE DEF Good
<1>4. 0..Len(r) \subseteq Good
  BY <1>1, <1>2, <1>3, InductionUpTo
<1>5. QED
  BY <1>4 DEF Good

(* A file that the search should find is at the end of such a way.         *)
LEMMA FileReached ==
  ASSUME NEW t \in Trees, NEW a \in Path, a # <<Nothing>>, NEW p \in Found(t, a)
  PROVE  LET r == SubSeq(p, Len(Place(a)) + 1, Len(p))
         IN  r \in Seq(Names) /\ Len(r) \in Nat \ {0} /\ Route(a, r, Len(r)) = p /\ Reaches(t, a, r)
<1> DEFINE start == Place(a)
           n == Len(start)
           r == SubSeq(p, n + 1, Len(p))
<1>1. /\ p \in DOMAIN t /\ Len(p) > n /\ SubSeq(p, 1, n) = start /\ Len(p) - n <= OpenMax
      /\ p[Len(p)] \in Matching /\ t[p].type \notin DirectoryTypes
      /\ \A k \in n..(Len(p) - 1) : /\ t[SubSeq(p, 1, k)].opens
                                    /\ \/ SubSeq(p, 1, k) = start
                                       \/ t[SubSeq(p, 1, k)].type \in DirectoryTypes
  BY DEF Found
<1>2. p \in Seq(Names) /\ start \in Seq(Nat) /\ start \in Seq(Names)
  BY <1>1, TreeFacts, PlaceIs DEF Path
<1>3. p \in Seq(Nat) /\ Len(p) \in Nat /\ n \in Nat /\ \A k \in 1..Len(p) : p[k] \in Names
  BY <1>2, NamesAreNumbers, LenProperties
<1>4. /\ r \in Seq(Names) /\ Len(r) = Len(p) - n /\ Len(p) - n \in Nat \ {0}
      /\ \A i \in 1..(Len(p) - n) : r[i] = p[n + i]
  <2>1. n + 1 \in Int /\ Len(p) \in Int /\ \A i \in (n + 1)..Len(p) : p[i] \in Names
    BY <1>3
  <2> HIDE DEF n
  <2>2. /\ r \in Seq(Names) /\ Len(r) = (IF n + 1 <= Len(p) THEN Len(p) - (n + 1) + 1 ELSE 0)
        /\ \A i \in 1..(Len(p) - (n + 1) + 1) : r[i] = p[(n + 1) + i - 1]
    BY <2>1, SubSeqProperties
  <2>3. /\ n + 1 <= Len(p) /\ Len(p) - (n + 1) + 1 = Len(p) - n /\ Len(p) - n \in Nat \ {0}
        /\ \A i \in 1..(Len(p) - n) : (n + 1) + i - 1 = n + i
    <3>1. n \in Nat /\ Len(p) \in Nat /\ Len(p) > n
      BY <1>1, <1>3 DEF n
    <3>2. \A x, y \in Nat : y > x => /\ x + 1 <= y /\ y - (x + 1) + 1 = y - x /\ y - x \in Nat \ {0}
                                    /\ \A i \in 1..(y - x) : (x + 1) + i - 1 = x + i
      OBVIOUS
    <3>3. QED
      BY ONLY <3>1, <3>2
  <2> HIDE DEF r
  <2>4. QED
    BY <2>2, <2>3
<1> DEFINE m == Len(r)
<1>5. r \in Seq(Nat) /\ m \in Nat \ {0} /\ m <= OpenMax /\ m = Len(p) - n /\ Len(p) = n + m
  <2> HIDE DEF r, n
  <2>1. QED
    BY <1>1, <1>3, <1>4, NamesAreNumbers
<1> HIDE DEF r, n, start
<1>6. p = start \o r
  <2> DEFINE z == start \o r
  <2>1. /\ z \in Seq(Nat) /\ Len(z) = n + m
        /\ \A i \in 1..(n + m) : z[i] = IF i <= n THEN start[i] ELSE r[i - n]
    BY <1>2, <1>5, ConcatProperties DEF n
  <2> HIDE DEF z
  <2>2. ASSUME NEW i \in 1..n PROVE start[i] = p[i]
    <3>1. n \in 0..Len(p) /\ i \in 1..n
      BY <1>3, <1>5
    <3>2. SubSeq(p, 1, n)[i] = p[i]
      BY <1>3, <3>1, Further
    <3>3. QED
      BY <1>1, <3>2
  <2>3. ASSUME NEW i \in 1..(n + m) PROVE z[i] = p[i]
    <3>1. CASE i <= n
      <4>1. i \in 1..n
        BY <1>3, <3>1
      <4>2. QED
        BY <2>1, <2>2, <3>1, <4>1
    <3>2. CASE ~(i <= n)
      <4>1. i - n \in 1..(Len(p) - n) /\ n + (i - n) = i
        BY <1>3, <1>5, <3>2
      <4>2. QED
        BY <1>4, <2>1, <3>2, <4>1
    <3>3. QED
      BY <3>1, <3>2
  <2>4. Len(z) = Len(p) /\ \A i \in 1..Len(z) : z[i] = p[i]
    BY <1>5, <2>1, <2>3
  <2>5. z = p
    BY <1>3, <2>1, <2>4, SeqEqual
  <2>6. QED
    BY <2>5 DEF z
<1>7. ASSUME NEW k \in 0..m
      PROVE  /\ Route(a, r, k) = SubSeq(p, 1, n + k) /\ n + k \in 0..Len(p)
             /\ Len(Route(a, r, k)) = n + k
  <2>1. SubSeq(start \o r, 1, n + k) = start \o SubSeq(r, 1, k)
    BY <1>2, <1>5, PartWay DEF n
  <2>2. n + k \in 0..Len(p)
    BY <1>3, <1>5
  <2>3. Len(SubSeq(p, 1, n + k)) = n + k
    BY <1>3, <2>2, Further
  <2>4. QED
    BY <1>6, <2>1, <2>2, <2>3 DEF Route, start
<1>8. ASSUME NEW k \in 0..m PROVE Route(a, r, k) \in DOMAIN t
  <2>1. \A j \in 0..Len(p) : SubSeq(p, 1, j) \in DOMAIN t
    BY <1>1, FileCrawlerAssumption
  <2>2. QED
    BY <1>7, <2>1
<1>9. Route(a, r, m) = p
  <2>1. m \in 0..m
    BY <1>5
  <2>2. SubSeq(p, 1, Len(p)) = p
    BY <1>3, SubSeqFull
  <2>3. QED
    BY <1>5, <1>7, <2>1, <2>2
<1>10. ASSUME NEW k \in 0..(m - 1)
       PROVE  /\ t[Route(a, r, k)].opens
              /\ k # 0 => t[Route(a, r, k)].type \in DirectoryTypes
  <2>1. k \in 0..m /\ n + k \in n..(Len(p) - 1) /\ (k # 0 => n + k # n)
    BY <1>3, <1>5
  <2>2. /\ t[SubSeq(p, 1, n + k)].opens
        /\ SubSeq(p, 1, n + k) = start \/ t[SubSeq(p, 1, n + k)].type \in DirectoryTypes
    BY <1>1, <2>1
  <2>3. Route(a, r, k) = SubSeq(p, 1, n + k) /\ Len(Route(a, r, k)) = n + k
    BY <1>7, <2>1
  <2>4. Route(a, r, k) = start => n + k = n
    BY <2>3 DEF n
  <2>5. QED
    BY <2>1, <2>2, <2>3, <2>4
<1>11. ASSUME NEW k \in 1..m PROVE t[Route(a, r, k)].type \in DirectoryTypes <=> k < m
  <2>1. CASE k = m
    <3>1. Route(a, r, k) = Route(a, r, m)
      BY <2>1
    <3>2. ~(k < m)
      <4>1. m \in Nat
        BY <1>5
      <4> HIDE DEF m
      <4>2. QED
        BY <2>1, <4>1
    <3>3. QED
      BY <1>1, <1>9, <3>1, <3>2
  <2>2. CASE k # m
    <3>1. k \in 0..(m - 1) /\ k # 0 /\ k < m
      BY <1>5, <2>2
    <3>2. QED
      BY <1>10, <3>1
  <2>3. QED
    BY <2>1, <2>2
<1>12. r[m] \in Matching
  <2>1. m \in 1..(Len(p) - n) /\ n + m = Len(p)
    BY <1>3, <1>5
  <2>2. QED
    BY <1>1, <1>4, <2>1
<1>13. m \in 1..OpenMax
  BY <1>5, FileCrawlerAssumption
<1>14. Reaches(t, a, r)
  BY <1>8, <1>10, <1>11, <1>12, <1>13 DEF Reaches
<1>15. QED
  BY <1>4, <1>5, <1>9, <1>14 DEF r, n, start

(* A directory on the way can be opened, and its stream has the next entry. *)
LEMMA NextOnRoute ==
  ASSUME fs \in Trees, fs \in past, NEW a \in Path, NEW r \in Seq(Names), Sought(a, r),
         NEW k \in 1..Len(r), NEW d, Place(d) = Route(a, r, k - 1)
  PROVE  /\ \E e \in Stream(d) : e.name = r[k] /\ (IsDirectory(e) <=> k < Len(r))
         /\ d # <<Nothing>> /\ owned.streams < OpenMax => Opens(d)
<1> DEFINE q == Route(a, r, k)
           e == [name |-> q[Len(q)], type |-> fs[q].type]
<1>1. Reaches(fs, a, r) /\ Len(r) \in Nat /\ r[k] \in Names
  BY NamesAreNumbers DEF Sought
<1>2. k \in 0..Len(r) /\ k - 1 \in 0..(Len(r) - 1) /\ k - 1 \in 0..Len(r)
  BY <1>1
<1>3. Opens(d) <=> d # <<Nothing>> /\ owned.streams < OpenMax
  BY <1>1, <1>2 DEF Reaches, Opens
<1>4. q \in DOMAIN fs /\ (fs[q].type \in DirectoryTypes <=> k < Len(r))
  BY <1>1, <1>2 DEF Reaches
<1>5. Place(d) \in Seq(Nat) /\ q = Append(Place(d), r[k]) /\ r[k] \in Nat
  BY <1>1, RouteSteps DEF Names
<1> HIDE DEF q
<1>6. /\ Len(q) = Len(Place(d)) + 1 /\ Len(Place(d)) \in Nat /\ q[Len(q)] = r[k]
      /\ SubSeq(q, 1, Len(q) - 1) = Place(d) /\ q # << >>
  <2>1. Len(q) = Len(Place(d)) + 1 /\ q[Len(Place(d)) + 1] = r[k] /\ Len(Place(d)) \in Nat
    BY <1>5, AppendProperties, LenProperties
  <2>2. SubSeq(q, 1, Len(Place(d))) = Place(d)
    BY <1>5, Beginnings
  <2>3. Len(q) - 1 = Len(Place(d)) /\ Len(q) # 0
    BY <2>1
  <2>4. QED
    BY <2>1, <2>2, <2>3
<1>7. e \in Entries(fs, Place(d))
  BY <1>4, <1>6 DEF Entries
<1>8. e.name = r[k] /\ e.name # Dot /\ e.name # DotDot
  BY <1>1, <1>6 DEF Names
<1>9. fs[q].type \in FileTypes
  BY <1>4, TreeFacts
<1>10. IsDirectory(e) <=> k < Len(r)
  BY <1>4, <1>9, DirectoryBits
<1>11. e \in Stream(d)
  BY <1>7, <1>8 DEF Stream
<1> HIDE DEF e
<1>12. QED
  BY <1>3, <1>8, <1>10, <1>11

(* The string under which a directory on the way is opened.                *)
LEMMA StopPlace ==
  ASSUME NEW a \in Path, a # <<Nothing>>, NEW r \in Seq(Names), NEW k \in 1..Len(r)
  PROVE  Stop(a, r, k) \in Path /\ Place(Stop(a, r, k)) = Route(a, r, k - 1) /\ Stop(a, r, k) # <<Nothing>>
<1>1. Len(r) \in Nat
  BY NamesAreNumbers
<1>2. CASE k = 1
  <2>1. Stop(a, r, k) = Strip(a) /\ k - 1 = 0
    BY <1>2 DEF Stop
  <2>2. Strip(a) \in Path /\ Place(Strip(a)) = Route(a, r, 0)
    BY PathOperators, SamePlace, RouteSteps
  <2>3. Strip(a) # <<Nothing>>
    <3>1. CASE Strip(a) # a
      <4>1. Strip(a) = SubSeq(a, 1, Len(a) - 1) /\ a[Len(a)] = Nothing /\ a # Root
        BY <3>1 DEF Strip
      <4>2. a \in Seq(Nat) /\ a # << >>
        BY DEF Path
      <4>3. a = Append(Strip(a), Nothing)
        BY <4>1, <4>2, Ending
      <4>4. Root = Append(<<Nothing>>, Nothing)
        BY DEF Root
      <4>5. QED
        BY <4>1, <4>3, <4>4
    <3>2. QED
      BY <3>1
  <2>4. Route(a, r, k - 1) = Route(a, r, 0)
    BY <1>2
  <2>5. QED
    BY <2>1, <2>2, <2>3, <2>4
<1>3. CASE k # 1
  <2>1. PICK n \in Nat : n = k - 1
    BY <1>1
  <2>2. Stop(a, r, k) = Walked(a, r, n) /\ Route(a, r, k - 1) = Route(a, r, n)
    BY <1>3, <2>1 DEF Stop
  <2>3. n \in 0..Len(r) /\ n \in 1..Len(r) /\ n - 1 \in 0..Len(r)
    BY <1>1, <1>3, <2>1
  <2>4. Walked(a, r, n) \in Path /\ Place(Walked(a, r, n)) = Route(a, r, n)
    BY <2>3, RoutePlaces
  <2>5. Walked(a, r, n) = Append(Walked(a, r, n - 1), r[n]) /\ Walked(a, r, n - 1) \in Path /\ r[n] \in Names
    BY <2>3, RouteSteps, RoutePlaces, NamesAreNumbers
  <2>6. ASSUME NEW x \in Path, NEW e \in Names, Append(x, e) = <<Nothing>> PROVE FALSE
    <3>1. x \in Seq(Nat) /\ Len(x) > 0 /\ Len(x) \in Nat /\ e \in Nat
      BY LenProperties DEF Path, Names
    <3>2. Len(Append(x, e)) = Len(x) + 1
      BY <3>1, AppendProperties
    <3>3. Len(<<Nothing>>) = 1
      OBVIOUS
    <3>4. Len(x) + 1 = 1
      BY <2>6, <3>2, <3>3
    <3>5. QED
      BY <3>1, <3>4
  <2>7. Walked(a, r, n) # <<Nothing>>
    BY <2>5, <2>6
  <2>8. QED
    BY <2>2, <2>4, <2>7
<1>4. QED
  BY <1>2, <1>3

LEMMA LinePlace ==
  ASSUME NEW a \in Path, a # <<Nothing>>, NEW r \in Seq(Names), Len(r) > 0
  PROVE  Place(Line(a, r)) = Route(a, r, Len(r))
<1>1. Len(r) \in 1..Len(r) /\ r[Len(r)] \in Names
  BY NamesAreNumbers
<1>2. Kept(a, r) \in Path /\ Place(Kept(a, r)) = Route(a, r, Len(r) - 1)
  BY <1>1, StopPlace DEF Kept
<1>3. Place(Line(a, r)) = Append(Place(Kept(a, r)), r[Len(r)])
  BY <1>1, <1>2, EntryPath DEF Line
<1>4. QED
  BY <1>1, <1>2, <1>3, RouteSteps
-----------------------------------------------------------------------------
(* A call on the stack has the next directory on the way still to enter.   *)
Onward(stack, a, r) ==
  \E k \in 1..Len(stack) : /\ k < Len(r) /\ stack[k].dir = Walked(a, r, k - 1)
                           /\ \E e \in stack[k].rest : e.name = r[k] /\ IsDirectory(e)

(* While the crawler has not failed, a file that it should find for its    *)
(* i-th argument a is still to come or its line is in the set.             *)
Promise(i, a, r) ==
  /\ at.main \in {"start", "compile", "create", "walk"} =>
       i >= at.arg \/ Among(Kept(a, r), list) \/ Onward(frames, a, r)
  /\ at.main = "apply" =>
       \/ Among(Kept(a, r), list) \/ Line(a, r) \in set
       \/ /\ scan # NoScan /\ scan.dir = Kept(a, r)
          /\ \E e \in scan.rest : e.name = r[Len(r)] /\ ~IsDirectory(e)
  /\ at.main \in {"sort", "print", "done"} => Among(Kept(a, r), list) \/ Line(a, r) \in set

Complete ==
  failures = 0 => \A i \in 1..Len(args) : \A r \in Seq(Names) :
                    Sought(args[i], r) => Promise(i, args[i], r)

\* The call of processDirectory is for the next directory on the way.
Due(stack, path, a, r) ==
  /\ Len(stack) + 1 <= Len(r) /\ Prefix(path) = Walked(a, r, Len(stack))
  /\ Strip(path) = Stop(a, r, Len(stack) + 1)

LEMMA OpensIsEntered ==
  ASSUME NEW stack, NEW path, NEW arg, processDirectory(stack, path, arg), Opens(Strip(path))
  PROVE  Entered(stack, path, arg) \/ GiveUp(stack)
BY DEF processDirectory, Entered, LL!InsertElement, LL!Refused, LL!Reply

LEMMA AmongMore ==
  ASSUME NEW l, NEW p, NEW m, Longer(m, l, p)
  PROVE  Among(p, m) /\ \A x : Among(x, l) => Among(x, m)
<1>1. /\ Len(l) + 1 \in 1..Len(m) /\ m[Len(l) + 1] = p
      /\ \A k \in 1..Len(l) : k \in 1..Len(m) /\ m[k] = l[k]
  BY DEF Longer
<1>2. QED
  BY <1>1 DEF Among

LEMMA AmongLess ==
  ASSUME NEW l, NEW m, Shorter(m, l), NEW x, Among(x, l)
  PROVE  x = l[1] \/ Among(x, m)
BY DEF Among, Shorter

LEMMA WalkPromise ==
  ASSUME fs \in Trees, fs \in past, list \in Seq(Path), at \in [main : Places, arg : Nat \ {0}],
         at.main = "walk", failures \in Nat, failures' = failures,
         NEW a \in Path, NEW r \in Seq(Names), Sought(a, r), NEW i \in Nat,
         NEW stack \in Seq(Frame), owned.streams = Len(stack), NEW path \in Path, NEW arg \in Nat \ {0},
         processDirectory(stack, path, arg),
         i >= arg \/ Among(Kept(a, r), list) \/ Onward(stack, a, r) \/ Due(stack, path, a, r)
  PROVE  Promise(i, a, r)'
<1> DEFINE n == Len(stack)
           call == [dir |-> Prefix(path), rest |-> Stream(Strip(path))]
           Kind(l, s) == i >= arg \/ Among(Kept(a, r), l) \/ Onward(s, a, r)
<1>1. a # <<Nothing>> /\ Len(r) \in 1..OpenMax /\ Len(r) \in Nat /\ OpenMax \in Nat /\ n \in Nat
  BY NamesAreNumbers, LenProperties, FileCrawlerAssumption DEF Sought, Reaches
<1>2. ~GiveUp(stack)
  BY DEF GiveUp, Fail
<1>3. ASSUME at' = [at EXCEPT !.arg = arg], Kind(list', frames') PROVE Promise(i, a, r)'
  <2>1. at'.main = "walk" /\ at'.arg = arg
    BY <1>3
  <2>2. QED
    BY <1>3, <2>1 DEF Promise
<1>4. ASSUME Entered(stack, path, arg)
      PROVE  /\ at' = [at EXCEPT !.arg = arg] /\ Longer(list', list, Strip(path))
             /\ Len(frames') = n + 1 /\ frames'[n + 1].dir = Prefix(path)
             /\ frames'[n + 1].rest = Stream(Strip(path)) /\ \A k \in 1..n : frames'[k] = stack[k]
  <2>1. /\ list' = LL!InsertAt(list, Len(list) + 1, Strip(path))
        /\ frames' = Append(stack, call) /\ at' = [at EXCEPT !.arg = arg]
    BY <1>4 DEF Entered
  <2>2. Longer(list', list, Strip(path))
    BY <2>1, PathOperators, ListMore
  <2>3. call \in Frame /\ call.dir = Prefix(path) /\ call.rest = Stream(Strip(path))
    BY StreamType, PathOperators DEF Frame
  <2> HIDE DEF call
  <2>4. Len(frames') = n + 1 /\ frames'[n + 1] = call /\ \A k \in 1..n : frames'[k] = stack[k]
    BY <2>1, <2>3, AppendProperties
  <2>5. QED
    BY <2>1, <2>2, <2>3, <2>4
<1>5. CASE Kind(list, stack)
  <2>1. CASE Passed(stack, arg)
    BY <1>3, <1>5, <2>1 DEF Passed
  <2>2. CASE Entered(stack, path, arg)
    <3>1. Onward(stack, a, r) => Onward(frames', a, r)
      <4>1. Len(frames') = n + 1 /\ \A k \in 1..n : frames'[k] = stack[k] /\ k \in 1..(n + 1)
        BY <1>1, <1>4, <2>2
      <4>2. QED
        BY <4>1 DEF Onward
    <3>2. Among(Kept(a, r), list) => Among(Kept(a, r), list')
      BY <1>4, <2>2, AmongMore
    <3>3. Kind(list', frames')
      BY <1>5, <3>1, <3>2
    <3>4. QED
      BY <1>3, <1>4, <2>2, <3>3
  <2>3. QED
    BY <1>2, <2>1, <2>2, ProcessDirectoryWays
<1>6. CASE Due(stack, path, a, r)
  <2>1. /\ n + 1 \in 1..Len(r) /\ Strip(path) = Stop(a, r, n + 1) /\ (n + 1) - 1 = n
        /\ Prefix(path) = Walked(a, r, n) /\ owned.streams < OpenMax
    BY <1>1, <1>6 DEF Due
  <2>2. Place(Strip(path)) = Route(a, r, n) /\ Strip(path) # <<Nothing>>
    BY <1>1, <2>1, StopPlace
  <2>3. /\ Opens(Strip(path))
        /\ \E e \in Stream(Strip(path)) : e.name = r[n + 1] /\ (IsDirectory(e) <=> n + 1 < Len(r))
    BY <2>1, <2>2, NextOnRoute
  <2>4. Entered(stack, path, arg)
    BY <1>2, <2>3, OpensIsEntered
  <2>5. CASE n + 1 = Len(r)
    <3>1. Among(Strip(path), list') /\ Strip(path) = Kept(a, r)
      BY <1>4, <2>1, <2>4, <2>5, AmongMore DEF Kept
    <3>2. QED
      BY <1>3, <1>4, <2>4, <3>1
  <2>6. CASE n + 1 # Len(r)
    <3>1. n + 1 < Len(r) /\ n + 1 \in 1..(n + 1)
      BY <1>1, <2>1, <2>6
    <3>2. Onward(frames', a, r)
      BY <1>4, <2>1, <2>3, <2>4, <3>1 DEF Onward
    <3>3. QED
      BY <1>3, <1>4, <2>4, <3>2
  <2>7. QED
    BY <2>5, <2>6
<1>7. QED
  BY <1>5, <1>6

LEMMA StreamsWalked ==
  ASSUME IInv, at.main = "walk"
  PROVE  scan = NoScan /\ owned.streams = Len(frames)
<1>1. scan = NoScan /\ Len(frames) \in Nat
  BY LenProperties DEF IInv, TypeInv, Placed
<1>2. QED
  BY <1>1 DEF IInv, Counted, Held

LEMMA WalkArgumentPromise ==
  ASSUME IInv, Limits, WalkArgument, failures' = failures, NEW i \in 1..Len(args),
         NEW r \in Seq(Names), Sought(args[i], r), Promise(i, args[i], r)
  PROVE  \A a : a = args[i] => Promise(i, a, r)'
<1> SUFFICES ASSUME NEW a, a = args[i] PROVE Promise(i, a, r)'
  OBVIOUS
<1> DEFINE n == at.arg
<1>1. /\ n \in Nat \ {0} /\ n \in 1..Len(args) /\ Len(args) \in Nat /\ n + 1 \in Nat \ {0}
      /\ a \in Path /\ args[n] \in Path /\ i \in Nat
  BY GivenPaths DEF WalkArgument
<1>2. /\ at.main = "walk" /\ frames = << >> /\ processDirectory(<< >>, args[n], n + 1)
      /\ at \in [main : Places, arg : Nat \ {0}] /\ list \in Seq(Path) /\ fs \in Trees /\ fs \in past
      /\ failures \in Nat
  BY DEF WalkArgument, IInv, TypeInv, Limits
<1>3. owned.streams = Len(<< >>) /\ << >> \in Seq(Frame) /\ Len(<< >>) = 0
  BY <1>2, StreamsWalked
<1>4. Sought(a, r) /\ (i >= n \/ Among(Kept(a, r), list))
  BY <1>2 DEF Promise, Onward
<1>5. i >= n => i >= n + 1 \/ i = n
  BY <1>1
<1>6. Due(<< >>, a, a, r)
  <2>1. Len(r) \in 1..OpenMax /\ Len(r) \in Nat /\ OpenMax \in Nat
    BY <1>2, <1>4, NamesAreNumbers, FileCrawlerAssumption DEF Sought, Reaches
  <2>2. 0 + 1 <= Len(r)
    BY <2>1
  <2>3. Prefix(a) = Walked(a, r, 0) /\ Strip(a) = Stop(a, r, 0 + 1)
    BY <1>1, RouteSteps DEF Stop
  <2>4. QED
    BY <1>3, <2>2, <2>3 DEF Due
<1>7. i >= n + 1 \/ Among(Kept(a, r), list) \/ Due(<< >>, args[n], a, r)
  BY <1>4, <1>5, <1>6
<1> HIDE DEF n
<1>8. QED
  BY <1>1, <1>2, <1>3, <1>4, <1>7, WalkPromise

LEMMA WalkEntryPromise ==
  ASSUME IInv, Limits, Contents, WalkEntry, failures' = failures, NEW i \in 1..Len(args),
         NEW r \in Seq(Names), Sought(args[i], r), Promise(i, args[i], r)
  PROVE  \A a : a = args[i] => Promise(i, a, r)'
<1> SUFFICES ASSUME NEW a, a = args[i] PROVE Promise(i, a, r)'
  OBVIOUS
<1> DEFINE n == Len(frames)
           stack(e) == [frames EXCEPT ![n].rest = @ \ {e}]
<1>1. PICK e \in frames[n].rest :
        IF IsDirectory(e)
        THEN processDirectory(stack(e), Append(frames[n].dir, e.name), at.arg)
        ELSE frames' = stack(e) /\ UNCHANGED <<at, list, llReply, owned, failures>>
  BY DEF WalkEntry
<1>2. /\ at.main = "walk" /\ frames \in Seq(Frame) /\ frames # << >>
      /\ at \in [main : Places, arg : Nat \ {0}] /\ list \in Seq(Path) /\ fs \in Trees /\ fs \in past
      /\ failures \in Nat /\ at.arg \in Nat \ {0}
  BY DEF WalkEntry, IInv, TypeInv, Limits
<1>3. a \in Path /\ i \in Nat /\ Len(args) \in Nat
  BY GivenPaths
<1> DEFINE calls == stack(e)
<1>4. Without(frames, calls, e)
  BY <1>2, EntryTaken
<1> HIDE DEF calls, stack
<1>5. Sought(a, r) /\ (i >= at.arg \/ Among(Kept(a, r), list) \/ Onward(frames, a, r))
  BY <1>2 DEF Promise
<1>6. n \in 1..n /\ n \in Nat \ {0} /\ frames[n].dir \in Path /\ e.name \in Names
  <2>1. n \in Nat \ {0} /\ frames[n] \in Frame
    BY <1>2, LastFrame
  <2>2. n \in 1..n
    BY <2>1
  <2>3. e.name \in Names
    BY <2>2 DEF Contents, Calls, Listed
  <2>4. QED
    BY <2>1, <2>2, <2>3 DEF Frame
<1> DEFINE d == Append(frames[n].dir, e.name)
<1>7. Onward(frames, a, r) => Onward(calls, a, r) \/ (IsDirectory(e) /\ Due(calls, d, a, r))
  <2>1. SUFFICES ASSUME NEW k \in 1..n, k < Len(r), frames[k].dir = Walked(a, r, k - 1),
                        NEW f \in frames[k].rest, f.name = r[k], IsDirectory(f)
                 PROVE  Onward(calls, a, r) \/ (IsDirectory(e) /\ Due(calls, d, a, r))
    BY DEF Onward
  <2>2. k \in 1..Len(r) /\ k \in Nat \ {0} /\ Len(r) \in Nat
    BY <1>6, <2>1, NamesAreNumbers
  <2>3. CASE k = n /\ f = e
    <3>1. d = Append(Walked(a, r, k - 1), r[k]) /\ Walked(a, r, k) = Append(Walked(a, r, k - 1), r[k])
      BY <1>3, <2>1, <2>2, <2>3, RouteSteps
    <3>2. Strip(d) = d /\ Prefix(d) = d
      BY <1>6, EntryPath
    <3> HIDE DEF d
    <3>3. Stop(a, r, k + 1) = Walked(a, r, k)
      <4>1. k + 1 # 1 /\ (k + 1) - 1 = k
        BY <2>2
      <4>2. QED
        BY <4>1 DEF Stop
    <3>4. Len(calls) = k /\ k + 1 <= Len(r)
      BY <1>4, <2>1, <2>2, <2>3 DEF Without
    <3>5. Due(calls, d, a, r)
      BY <3>1, <3>2, <3>3, <3>4 DEF Due
    <3>6. QED
      BY <2>1, <2>3, <3>5
  <2>4. CASE ~(k = n /\ f = e)
    <3>1. f \in calls[k].rest /\ calls[k].dir = frames[k].dir /\ k \in 1..Len(calls)
      BY <1>4, <2>1, <2>4 DEF Without
    <3>2. QED
      BY <2>1, <3>1 DEF Onward
  <2>5. QED
    BY <2>3, <2>4
<1>8. CASE IsDirectory(e)
  <2>1. processDirectory(calls, d, at.arg)
    BY <1>1, <1>8 DEF calls
  <2>2. owned.streams = Len(calls) /\ calls \in Seq(Frame)
    BY <1>2, <1>4, StreamsWalked DEF Without
  <2>3. d \in Path
    BY <1>6, EntryPath
  <2>4. i >= at.arg \/ Among(Kept(a, r), list) \/ Onward(calls, a, r) \/ Due(calls, d, a, r)
    BY <1>5, <1>7
  <2> HIDE DEF d, n
  <2>5. QED
    BY <1>2, <1>3, <1>5, <2>1, <2>2, <2>3, <2>4, WalkPromise
<1>9. CASE ~IsDirectory(e)
  <2>1. frames' = calls /\ UNCHANGED <<at, list>>
    BY <1>1, <1>9 DEF calls
  <2>2. i >= at.arg \/ Among(Kept(a, r), list) \/ Onward(calls, a, r)
    BY <1>5, <1>7, <1>9
  <2>3. QED
    BY <1>2, <2>1, <2>2 DEF Promise
<1>10. QED
  BY <1>8, <1>9

LEMMA WalkReturnPromise ==
  ASSUME IInv, WalkReturn, NEW i, NEW a, NEW r, Promise(i, a, r)
  PROVE  Promise(i, a, r)'
<1>1. /\ at.main = "walk" /\ frames \in Seq(Frame) /\ frames # << >> /\ frames[Len(frames)].rest = {}
      /\ frames' = SubSeq(frames, 1, Len(frames) - 1) /\ UNCHANGED <<at, list>>
  BY DEF WalkReturn, IInv, TypeInv
<1>2. Len(frames) \in Nat \ {0} /\ Len(frames') = Len(frames) - 1
  BY <1>1, LastFrame, OneLess
<1>3. \A k \in 1..Len(frames) : k = Len(frames) \/ (k \in 1..Len(frames') /\ frames'[k] = frames[k])
  BY <1>1, <1>2
<1>4. Onward(frames, a, r) => Onward(frames', a, r)
  BY <1>1, <1>3 DEF Onward
<1>5. QED
  BY <1>1, <1>4 DEF Promise

LEMMA WalkEndsPromise ==
  ASSUME IInv, Limits, WalkEnds, NEW i \in 1..Len(args), NEW a, NEW r, Promise(i, a, r)
  PROVE  Promise(i, a, r)'
<1>1. /\ at.main = "walk" /\ frames = << >> /\ at.arg > Len(args) /\ list' = list
      /\ at \in [main : Places, arg : Nat \ {0}] /\ Goto("apply")
  BY DEF WalkEnds, IInv, TypeInv
<1>2. Len(args) \in Nat /\ ~(i >= at.arg)
  BY <1>1, GivenPaths
<1>3. Among(Kept(a, r), list)
  BY <1>1, <1>2 DEF Promise, Onward
<1>4. at'.main = "apply"
  BY <1>1 DEF Goto
<1>5. QED
  BY <1>1, <1>3, <1>4 DEF Promise

(* The directory of a sought file can still be opened when it is its turn. *)
LEMMA NextDirectoryPromise ==
  ASSUME IInv, NextDirectory, NEW i, NEW a \in Path, NEW r \in Seq(Names), Sought(a, r), fs \in past,
         Promise(i, a, r)
  PROVE  Promise(i, a, r)'
<1>1. /\ at \in [main : Places, arg : Nat \ {0}] /\ fs \in Trees /\ at.main = "apply" /\ list \in Seq(Path)
      /\ scan = NoScan /\ set' = set /\ frames = << >>
  BY DEF IInv, TypeInv, Placed, NextDirectory
<1>2. Among(Kept(a, r), list) \/ Line(a, r) \in set
  BY <1>1 DEF Promise
<1>3. at'.main \in {"apply", "sort"}
  BY <1>1 DEF NextDirectory, Goto
<1>4. Line(a, r) \in set => Promise(i, a, r)'
  BY <1>1, <1>3 DEF Promise
<1>5. Len(list) \in Nat
  BY <1>1, LenProperties
<1>6. CASE Len(list) = 0
  BY <1>2, <1>4, <1>6 DEF Among
<1>7. CASE Len(list) # 0
  <2>1. 0 \in 0..(Len(list) - 1) /\ 0 + 1 = 1
    BY <1>5, <1>7
  <2>2. /\ list' = LL!RemoveAt(list, 1)
        /\ IF Opens(list[1]) THEN scan' = [dir |-> list[1], rest |-> Stream(list[1])] /\ UNCHANGED at
           ELSE UNCHANGED scan
    <3>1. list' = LL!RemoveAt(list, 0 + 1) /\ llReply'.ret = 1 /\ llReply'.out[1] = list[0 + 1]
      BY <2>1 DEF NextDirectory, LL!RemoveElement, LL!Reply
    <3>2. QED
      BY <2>1, <3>1 DEF NextDirectory
  <2>3. Shorter(list', list)
    BY <1>1, <1>5, <1>7, <2>2, ListLess
  <2>4. Among(Kept(a, r), list) => Kept(a, r) = list[1] \/ Among(Kept(a, r), list')
    BY <2>3, AmongLess
  <2>5. ASSUME Among(Kept(a, r), list') PROVE Promise(i, a, r)'
    BY <1>3, <2>5 DEF Promise
  <2>6. CASE Kept(a, r) = list[1]
    <3>1. Len(r) \in 1..Len(r) /\ a # <<Nothing>>
      BY NamesAreNumbers DEF Sought, Reaches
    <3>2. Place(list[1]) = Route(a, r, Len(r) - 1) /\ list[1] # <<Nothing>>
      BY <2>6, <3>1, StopPlace DEF Kept
    <3>3. owned.streams < OpenMax
      BY <1>1, FileCrawlerAssumption, EmptySeq DEF IInv, Counted, Held
    <3>4. Opens(list[1]) /\ \E e \in Stream(list[1]) : e.name = r[Len(r)] /\ (IsDirectory(e) <=> Len(r) < Len(r))
      BY <1>1, <3>1, <3>2, <3>3, NextOnRoute
    <3>5. at' = at /\ scan'.dir = Kept(a, r) /\ scan'.rest = Stream(list[1])
      BY <2>2, <2>6, <3>4
    <3>6. list[1] \in Path
      BY <2>3 DEF Shorter
    <3>7. scan' # NoScan
      BY <2>6, <3>5, <3>6 DEF NoScan, Path
    <3>8. ~(Len(r) < Len(r))
      BY NamesAreNumbers
    <3>9. QED
      BY <1>1, <3>4, <3>5, <3>7, <3>8 DEF Promise
  <2>7. QED
    BY <1>2, <1>4, <2>4, <2>5, <2>6
<1>8. QED
  BY <1>6, <1>7

(* A file that is sought matches, so that its line is added; as it cannot  *)
(* be in the set before, this does not end the search.                     *)
LEMMA ScanEntryPromise ==
  ASSUME IInv, Limits, Distinct, ScanEntry, failures' = failures, NEW i, NEW a, NEW r, Sought(a, r),
         fs \in past, Promise(i, a, r)
  PROVE  Promise(i, a, r)'
<1> DEFINE rest(e) == scan.rest \ {e}
           engine(e) == re_match(reg, IF e.name \in Matching THEN 0 ELSE REG_NOMATCH)
           path(e) == Append(scan.dir, e.name)
           skip(e) == scan' = [scan EXCEPT !.rest = rest(e)] /\ UNCHANGED <<at, set>>
<1>1. PICK e \in scan.rest :
        IF IsDirectory(e) THEN skip(e)
        ELSE IF Matched(engine(e)) THEN AddPath(path(e), rest(e)) ELSE skip(e)
  BY DEF ScanEntry
<1>2. /\ at.main = "apply" /\ at \in [main : Places, arg : Nat \ {0}] /\ list' = list
      /\ scan # NoScan /\ scan \in [dir : Seq(Nat), rest : SUBSET Entry] /\ scan.dir # << >>
      /\ ScannedOnce(list, scan, set)
      /\ reg \in [status : {"COMPILED"}, compSts : Int, execSts : Int, storage : {{"engine", "program"}}]
  BY DEF IInv, TypeInv, Placed, EngineInv, ScanEntry, Distinct
<1>3. ~Fail
  <2>1. failures \in Nat
    BY DEF Limits
  <2>2. QED
    BY <2>1 DEF Fail
<1>4. ASSUME AddPath(path(e), rest(e))
      PROVE  \/ /\ scan' = [scan EXCEPT !.rest = rest(e)] /\ UNCHANGED at
                /\ set' = set \cup {path(e)}
             \/ at'.main = "killed"
  <2>1. path(e) \notin set
    BY <1>2 DEF ScannedOnce
  <2>2. CASE /\ TS!AddElement(path(e))
             /\ IF tsReply'.ret = 0 THEN EndScan(0) ELSE Added(rest(e))
    <3>1. tsReply'.ret = 1 /\ set' = set \cup {path(e)}
      BY <2>1, <2>2 DEF TS!AddElement, TS!Reply
    <3>2. QED
      BY <2>2, <3>1 DEF Added
  <2>3. CASE FollowNull(path(e))
    BY <1>2, <2>3 DEF FollowNull, Goto
  <2>4. QED
    BY <1>3, <1>4, <2>2, <2>3 DEF AddPath, LoseElement
<1>5. CASE at'.main = "killed"
  BY <1>5 DEF Promise
<1> SUFFICES ASSUME at'.main # "killed" PROVE Promise(i, a, r)'
  BY <1>5
<1>6. /\ scan' = [scan EXCEPT !.rest = rest(e)] /\ UNCHANGED at
       /\ set \subseteq set'
  BY <1>1, <1>4
<1>7. /\ scan'.dir = scan.dir /\ scan'.rest = scan.rest \ {e} /\ scan' # NoScan /\ at'.main = "apply"
      /\ set \subseteq set'
  BY <1>2, <1>6 DEF NoScan
<1>8. CASE Among(Kept(a, r), list) \/ Line(a, r) \in set
  BY <1>2, <1>7, <1>8 DEF Promise
<1>9. CASE ~(Among(Kept(a, r), list) \/ Line(a, r) \in set)
  <2>1. PICK f \in scan.rest : scan.dir = Kept(a, r) /\ f.name = r[Len(r)] /\ ~IsDirectory(f)
    BY <1>2, <1>9 DEF Promise
  <2>2. CASE f # e
    <3>1. f \in scan'.rest /\ scan'.dir = Kept(a, r)
      BY <1>7, <2>1, <2>2
    <3>2. QED
      BY <1>7, <2>1, <3>1 DEF Promise
  <2>3. CASE f = e
    <3>1. r[Len(r)] \in Matching
      BY DEF Sought, Reaches
    <3>2. engine(e) = [reg EXCEPT !.execSts = 0]
      BY <1>2, <2>1, <2>3, <3>1 DEF re_match
    <3>3. Matched(engine(e))
      BY <1>2, <3>2 DEF Matched
    <3>4. AddPath(path(e), rest(e))
      BY <1>1, <2>1, <2>3, <3>3
    <3>5. path(e) \in set'
      BY <1>4, <3>4
    <3>6. path(e) = Line(a, r)
      BY <2>1, <2>3 DEF Line
    <3>7. QED
      BY <1>7, <3>5, <3>6 DEF Promise
  <2>4. QED
    BY <2>2, <2>3
<1>10. QED
  BY <1>8, <1>9

(* A stream that has ended has no sought file left.                        *)
LEMMA ScanEndsPromise ==
  ASSUME IInv, ScanEnds, NEW i, NEW a, NEW r, Promise(i, a, r)
  PROVE  Promise(i, a, r)'
<1>1. /\ at.main = "apply" /\ scan.rest = {} /\ list' = list /\ set' = set /\ UNCHANGED at
  BY DEF ScanEnds, EndScan
<1>2. Among(Kept(a, r), list) \/ Line(a, r) \in set
  BY <1>1 DEF Promise
<1>3. QED
  BY <1>1, <1>2 DEF Promise

(* The steps outside the two passes lose nothing.                          *)
LEMMA OtherPromise ==
  ASSUME IInv, Limits, failures' = failures, NEW i, NEW a, NEW r, Promise(i, a, r),
         \/ CreateEngine \/ CompilePattern \/ CreateContainers \/ CreateIterator \/ PrintLine
         \/ PrintEnds \/ Cleanup \/ Change \/ UNCHANGED vars
  PROVE  Promise(i, a, r)'
<1>1. /\ at \in [main : Places, arg : Nat \ {0}] /\ ~Fail
      /\ at.main \in {"start", "compile", "create", "walk"} => i >= at.arg \/ Among(Kept(a, r), list) \/ Onward(frames, a, r)
  BY DEF IInv, TypeInv, Limits, Fail, Promise
<1>2. CASE Change \/ UNCHANGED vars
  BY <1>2 DEF Change, vars, Promise
<1>3. CASE CreateEngine \/ CompilePattern \/ CreateContainers
  <2>1. /\ UNCHANGED <<list, frames>> /\ at.main \in {"start", "compile", "create"}
        /\ at'.main \in {"compile", "create", "walk", "end"} /\ at'.arg = at.arg
    BY <1>1, <1>3 DEF CreateEngine, CompilePattern, CreateContainers, Goto
  <2>2. QED
    BY <1>1, <2>1 DEF Promise
<1>4. CASE CreateIterator \/ PrintLine \/ PrintEnds
  <2>1. /\ UNCHANGED <<list, set>> /\ at.main \in {"sort", "print"}
        /\ at'.main \in {"print", "done", "killed"}
    BY <1>1, <1>4 DEF CreateIterator, PrintLine, PrintEnds, Goto
  <2>2. QED
    BY <2>1 DEF Promise
<1>5. CASE Cleanup
  <2>1. at'.main = "end"
    BY <1>1, <1>5 DEF Cleanup, Goto
  <2>2. QED
    BY <2>1 DEF Promise
<1>6. QED
  BY <1>2, <1>3, <1>4, <1>5
-----------------------------------------------------------------------------
(* No file system that there was is forgotten, and failures are counted.   *)
LEMMA PastKept == [Next]_vars => past \subseteq past'
BY DEF Next, Step, Terminated, vars, Change, CreateEngine, CompilePattern, CreateContainers, WalkArgument,
       WalkEntry, WalkReturn, WalkEnds, afterWalk, NextDirectory, ScanEntry, ScanEnds,
       CreateIterator, PrintLine, PrintEnds, Cleanup

LEMMA FailuresCounted ==
  ASSUME [Next]_vars
  PROVE  failures' = failures \/ failures' = failures + 1
<1>1. CASE WalkArgument \/ WalkEntry
  BY <1>1 DEF WalkArgument, WalkEntry, processDirectory, GiveUp, Fail
<1>2. CASE ScanEntry
  BY <1>2 DEF ScanEntry, AddPath, LoseElement, FollowNull, Fail
<1>3. CASE Change \/ UNCHANGED vars \/ WalkReturn \/ WalkEnds \/ NextDirectory \/ ScanEnds
  BY <1>3 DEF Change, vars, WalkReturn, WalkEnds, NextDirectory, ScanEnds
<1>4. CASE CreateEngine \/ CompilePattern \/ CreateContainers \/ CreateIterator \/ PrintLine \/ PrintEnds \/ Cleanup
  BY <1>4 DEF CreateEngine, CompilePattern, CreateContainers, CreateIterator, PrintLine, PrintEnds, Cleanup, Fail
<1>5. QED
  BY <1>1, <1>2, <1>3, <1>4 DEF Next, Step, Terminated

(* Every step but one that fails keeps the promise for a sought file, ...  *)
LEMMA PromiseKept ==
  ASSUME IInv, Limits, Contents, Distinct, [Next]_vars, failures' = failures,
         NEW i \in 1..Len(args), NEW r \in Seq(Names), Sought(args[i], r), Promise(i, args[i], r)
  PROVE  \A a : a = args[i] => Promise(i, a, r)'
<1>1. fs \in past /\ args[i] \in Path
  BY GivenPaths DEF Limits
<1>2. CASE WalkArgument
  BY <1>2, WalkArgumentPromise
<1>3. CASE WalkEntry
  BY <1>3, WalkEntryPromise
<1>4. ASSUME ~WalkArgument, ~WalkEntry, NEW a, a = args[i] PROVE Promise(i, a, r)'
  <2>1. a \in Path /\ Sought(a, r) /\ Promise(i, a, r)
    BY <1>1, <1>4
  <2>2. CASE WalkReturn \/ WalkEnds
    BY <2>1, <2>2, WalkReturnPromise, WalkEndsPromise
  <2>3. CASE NextDirectory
    BY <1>1, <2>1, <2>3, NextDirectoryPromise
  <2>4. CASE ScanEntry
    BY <1>1, <2>1, <2>4, ScanEntryPromise
  <2>5. CASE ScanEnds
    BY <2>1, <2>5, ScanEndsPromise
  <2>6. CASE \/ CreateEngine \/ CompilePattern \/ CreateContainers \/ CreateIterator \/ PrintLine
             \/ PrintEnds \/ Cleanup \/ Change \/ UNCHANGED vars
    BY <2>1, <2>6, OtherPromise
  <2>7. QED
    BY <1>4, <2>2, <2>3, <2>4, <2>5, <2>6 DEF Next, Step, Terminated
<1>5. QED
  BY <1>2, <1>3, <1>4

LEMMA CompleteNext ==
  ASSUME args' = args,
         failures' = 0 => \A i \in 1..Len(args) : \A a : \A r \in Seq(Names) :
                            a = args[i] /\ Sought(a, r)' => Promise(i, a, r)'
  PROVE  Complete'
<1>1. \A i, a : a = args'[i] => a = args[i]
  OBVIOUS
<1>2. QED
  BY <1>1 DEF Complete

(* ... so that none is lost.                                               *)
LEMMA CompleteKept ==
  IInv /\ Limits /\ Contents /\ Distinct /\ Complete /\ [Next]_vars => Complete'
<1>1. SUFFICES ASSUME IInv, Limits, Contents, Distinct, Complete, [Next]_vars PROVE Complete'
  OBVIOUS
<1>2. args' = args /\ past \subseteq past' /\ failures \in Nat
  BY <1>1, ArgumentsKept, PastKept DEF Limits
<1>3. \A a, r : Sought(a, r)' => Sought(a, r)
  BY <1>2 DEF Sought
<1>4. failures' = 0 => failures = 0 /\ failures' = failures
  BY <1>1, <1>2, FailuresCounted
<1>5. ASSUME failures' = 0, NEW i \in 1..Len(args), NEW a, NEW r \in Seq(Names), a = args[i], Sought(a, r)'
      PROVE  Promise(i, a, r)'
  <2>1. Sought(args[i], r) /\ failures = 0 /\ failures' = failures
    BY <1>3, <1>4, <1>5
  <2>2. Promise(i, args[i], r)
    BY <1>1, <2>1 DEF Complete
  <2>3. QED
    BY <1>1, <1>5, <2>1, <2>2, PromiseKept
<1>6. QED
  BY <1>2, <1>5, CompleteNext
-----------------------------------------------------------------------------
(* As long as the file system does not change, every directory on the list *)
(* can be opened again, so that the second pass comes to the list's end.   *)
Openable(l) ==
  \A k \in 1..Len(l) : l[k] # <<Nothing>> /\ Place(l[k]) \in DOMAIN fs /\ fs[Place(l[k])].opens

Stable ==
  past = {fs} => /\ Openable(list)
                 /\ failures = 0 /\ at.main \in {"sort", "print", "done"} => list = << >>

LEMMA StableNext ==
  ASSUME UNCHANGED <<fs, past>>,
         past = {fs} => /\ Openable(list')
                        /\ failures' = 0 /\ at'.main \in {"sort", "print", "done"} => list' = << >>
  PROVE  Stable'
<1>1. \A l : Openable(l)' <=> Openable(l)
  BY DEF Openable
<1>2. Openable(list)' <=> Openable(list')
  BY <1>1
<1>3. QED
  BY <1>2 DEF Stable

LEMMA WalkStable ==
  ASSUME Stable, UNCHANGED <<fs, past>>, at \in [main : Places, arg : Nat \ {0}], at.main = "walk",
         failures \in Nat, list \in Seq(Path), NEW stack, NEW path \in Path, NEW arg,
         processDirectory(stack, path, arg)
  PROVE  Stable'
<1>1. CASE GiveUp(stack) /\ UNCHANGED list
  <2>1. failures' # 0
    BY <1>1 DEF GiveUp, Fail
  <2>2. QED
    BY <1>1, <2>1, StableNext DEF Stable
<1>2. CASE Passed(stack, arg)
  <2>1. list' = list /\ at'.main = "walk"
    BY <1>2 DEF Passed
  <2>2. QED
    BY <2>1, StableNext DEF Stable
<1>3. CASE Entered(stack, path, arg)
  <2>1. list' = LL!InsertAt(list, Len(list) + 1, Strip(path)) /\ at'.main = "walk" /\ Opens(Strip(path))
    BY <1>3 DEF Entered
  <2>2. Longer(list', list, Strip(path))
    BY <2>1, PathOperators, ListMore
  <2>3. Openable(list) => Openable(list')
    BY <2>1, <2>2 DEF Longer, Openable, Opens
  <2>4. QED
    BY <2>1, <2>3, StableNext DEF Stable
<1>4. QED
  BY <1>1, <1>2, <1>3, ProcessDirectoryWays

LEMMA WalkArgumentStable == IInv /\ Limits /\ Stable /\ WalkArgument => Stable'
<1>1. SUFFICES ASSUME IInv, Limits, Stable, WalkArgument PROVE Stable'
  OBVIOUS
<1>2. /\ UNCHANGED <<fs, past>> /\ at \in [main : Places, arg : Nat \ {0}] /\ at.main = "walk"
      /\ failures \in Nat /\ list \in Seq(Path) /\ processDirectory(<< >>, args[at.arg], at.arg + 1)
  BY <1>1 DEF IInv, TypeInv, Limits, WalkArgument, afterWalk
<1>3. args[at.arg] \in Path
  BY <1>1, GivenPaths DEF WalkArgument
<1>4. QED
  BY <1>1, <1>2, <1>3, WalkStable

LEMMA WalkEntryStable == IInv /\ Limits /\ Contents /\ Stable /\ WalkEntry => Stable'
<1>1. SUFFICES ASSUME IInv, Limits, Contents, Stable, WalkEntry PROVE Stable'
  OBVIOUS
<1> DEFINE n == Len(frames)
           stack(e) == [frames EXCEPT ![n].rest = @ \ {e}]
<1>2. PICK e \in frames[n].rest :
        IF IsDirectory(e)
        THEN processDirectory(stack(e), Append(frames[n].dir, e.name), at.arg)
        ELSE UNCHANGED <<at, list, failures>>
  BY <1>1 DEF WalkEntry
<1>3. /\ UNCHANGED <<fs, past>> /\ at \in [main : Places, arg : Nat \ {0}] /\ at.main = "walk"
      /\ failures \in Nat /\ list \in Seq(Path) /\ frames \in Seq(Frame) /\ frames # << >>
  BY <1>1 DEF IInv, TypeInv, Limits, WalkEntry, afterWalk
<1>4. Append(frames[n].dir, e.name) \in Path
  <2>1. n \in Nat \ {0} /\ frames[n] \in Frame
    BY <1>3, LastFrame
  <2>2. n \in 1..n
    BY <2>1
  <2>3. e.name \in Names
    BY <1>1, <2>2 DEF Contents, Calls, Listed
  <2>4. QED
    BY <2>1, <2>3, EntryPath DEF Frame
<1> HIDE DEF stack
<1>5. CASE IsDirectory(e)
  BY <1>1, <1>2, <1>3, <1>4, <1>5, WalkStable
<1>6. CASE ~IsDirectory(e)
  BY <1>1, <1>2, <1>3, <1>6, StableNext DEF Stable
<1>7. QED
  BY <1>5, <1>6

LEMMA NextDirectoryStable == IInv /\ Stable /\ NextDirectory => Stable'
<1>1. SUFFICES ASSUME IInv, Stable, NextDirectory PROVE Stable'
  OBVIOUS
<1>2. /\ at \in [main : Places, arg : Nat \ {0}] /\ at.main = "apply" /\ list \in Seq(Path)
      /\ scan = NoScan /\ frames = << >> /\ UNCHANGED <<fs, past>>
  BY <1>1 DEF IInv, TypeInv, Placed, NextDirectory
<1>3. Len(list) \in Nat /\ owned.streams < OpenMax
  BY <1>1, <1>2, LenProperties, FileCrawlerAssumption, EmptySeq DEF IInv, Counted, Held
<1>4. CASE Len(list) = 0
  <2>1. list' = << >>
    BY <1>1, <1>2, <1>4, EmptySeq DEF NextDirectory, LL!RemoveElement, LL!Refused
  <2>2. Openable(list')
    BY <2>1 DEF Openable
  <2>3. QED
    BY <1>2, <2>1, <2>2, StableNext
<1>5. CASE Len(list) # 0
  <2>1. 0 \in 0..(Len(list) - 1) /\ 0 + 1 = 1
    BY <1>3, <1>5
  <2>2. list' = LL!RemoveAt(list, 1) /\ (Opens(list[1]) => UNCHANGED at)
    BY <1>1, <2>1 DEF NextDirectory, LL!RemoveElement, LL!Reply
  <2>3. Shorter(list', list)
    BY <1>2, <1>3, <1>5, <2>2, ListLess
  <2>4. ASSUME Openable(list) PROVE Opens(list[1]) /\ Openable(list')
    BY <1>3, <2>3, <2>4 DEF Shorter, Openable, Opens
  <2>5. QED
    BY <1>1, <1>2, <2>2, <2>4, StableNext DEF Stable
<1>6. QED
  BY <1>4, <1>5

LEMMA ScanEntryStable == IInv /\ Limits /\ Distinct /\ Stable /\ ScanEntry => Stable'
<1>1. SUFFICES ASSUME IInv, Limits, Distinct, Stable, ScanEntry PROVE Stable'
  OBVIOUS
<1>2. at.main = "apply" /\ UNCHANGED <<fs, past, list>> /\ failures \in Nat /\ ScannedOnce(list, scan, set) /\ scan # NoScan
  BY <1>1 DEF Limits, Distinct, ScanEntry
<1>3. PICK e \in scan.rest : UNCHANGED at \/ AddPath(Append(scan.dir, e.name), scan.rest \ {e})
  BY <1>1 DEF ScanEntry
<1>4. Append(scan.dir, e.name) \notin set
  BY <1>2 DEF ScannedOnce
<1>5. UNCHANGED at \/ failures' # 0 \/ at'.main = "killed"
  <2>1. at \in [main : Places, arg : Nat \ {0}]
    BY <1>1 DEF IInv, TypeInv
  <2>2. FollowNull(Append(scan.dir, e.name)) => at'.main = "killed"
    BY <2>1 DEF FollowNull, Goto
  <2>3. QED
    BY <1>2, <1>3, <1>4, <2>2 DEF AddPath, Added, LoseElement, Fail, TS!AddElement, TS!Reply
<1>6. QED
  BY <1>1, <1>2, <1>5, StableNext DEF Stable

LEMMA OtherStable ==
  ASSUME IInv, Limits, Stable,
         \/ CreateEngine \/ CompilePattern \/ CreateContainers \/ WalkReturn \/ WalkEnds \/ ScanEnds
         \/ CreateIterator \/ PrintLine \/ PrintEnds \/ Cleanup \/ Change \/ UNCHANGED vars
  PROVE  Stable'
<1>1. at \in [main : Places, arg : Nat \ {0}] /\ failures \in Nat
  BY DEF IInv, TypeInv, Limits
<1>2. CASE UNCHANGED vars \/ WalkReturn \/ ScanEnds
  <2>1. /\ UNCHANGED <<fs, past, at, list>> /\ (failures' = failures)
    BY <1>2 DEF vars, WalkReturn, afterWalk, ScanEnds, EndScan
  <2>2. QED
    BY <2>1, StableNext DEF Stable
<1>3. CASE Change
  <2>1. fs \in past' /\ fs' \in past' /\ fs # fs'
    BY <1>3 DEF Limits, Change
  <2>2. QED
    BY <2>1 DEF Stable
<1>4. CASE CreateEngine \/ CompilePattern \/ WalkEnds \/ Cleanup
  <2>1. /\ UNCHANGED <<fs, past>> /\ list' \in {list, << >>}
        /\ at'.main \in {"compile", "create", "apply", "end"}
    BY <1>1, <1>4 DEF CreateEngine, CompilePattern, WalkEnds, afterWalk, Cleanup, Goto, LL!Empty
  <2>2. Openable(<< >>)
    BY DEF Openable
  <2>3. QED
    BY <2>1, <2>2, StableNext DEF Stable
<1>5. CASE CreateContainers
  <2>1. UNCHANGED <<fs, past, list>> /\ (at'.main = "walk" \/ failures' # 0)
    BY <1>1, <1>5 DEF CreateContainers, Goto, Fail
  <2>2. QED
    BY <2>1, StableNext DEF Stable
<1>6. CASE CreateIterator \/ PrintLine \/ PrintEnds
  <2>1. UNCHANGED <<fs, past, list>> /\ at.main \in {"sort", "print"} /\ (failures' = failures \/ failures' # 0)
    BY <1>1, <1>6 DEF CreateIterator, PrintLine, PrintEnds, Fail
  <2>2. QED
    BY <2>1, StableNext DEF Stable
<1>7. QED
  BY <1>2, <1>3, <1>4, <1>5, <1>6

(* The list stays one of directories that can be opened.                   *)
LEMMA StableKept == IInv /\ Limits /\ Contents /\ Distinct /\ Stable /\ [Next]_vars => Stable'
BY WalkArgumentStable, WalkEntryStable, NextDirectoryStable, ScanEntryStable, OtherStable
DEF Next, Step, Terminated

(* The iterator hands out everything in the set.                           *)
PrintedAll ==
  at.main = "done" /\ failures = 0 => \A line \in set : \E k \in 1..Len(out) : out[k] = line

(* When the iterator has nothing left, all of the set has been printed.    *)
LEMMA PrintEndsAll == IInv /\ Contents /\ PrintEnds => PrintedAll'
<1>1. SUFFICES ASSUME IInv, Contents, PrintEnds PROVE PrintedAll'
  OBVIOUS
<1>2. /\ Printing /\ ~it_hasNext(it) /\ UNCHANGED <<set, out>> /\ set \in SUBSET Seq(Nat)
      /\ IsFiniteSet(set) /\ lost \in Nat /\ out \in Seq(Seq(Nat))
  BY <1>1 DEF IInv, TypeInv, Contents, Output, PrintEnds
<1>3. Cardinality(set) \in Nat /\ \A p \in set : \E k \in 1..Cardinality(set) : Sorted(set)[k] = p
  BY <1>2, SortedInOrder
<1>4. Cardinality(set) <= Len(out) /\ Len(out) \in Nat
  <2>1. ~(Len(out) < Cardinality(set) + lost) /\ Len(out) \in Nat
    BY <1>2, LenProperties DEF Printing, it_hasNext
  <2>2. QED
    BY <1>2, <1>3, <2>1
<1>5. ASSUME NEW line \in set PROVE \E k \in 1..Len(out) : out[k] = line
  <2>1. PICK k \in 1..Cardinality(set) : Sorted(set)[k] = line
    BY <1>3
  <2>2. k \in 1..Len(out) /\ k <= Cardinality(set)
    BY <1>3, <1>4
  <2>3. QED
    BY <1>2, <2>1, <2>2 DEF Printing
<1>6. QED
  BY <1>2, <1>5 DEF PrintedAll

LEMMA PrintedKept == IInv /\ Limits /\ Contents /\ PrintedAll /\ [Next]_vars => PrintedAll'
<1>1. SUFFICES ASSUME IInv, Limits, Contents, PrintedAll, [Next]_vars PROVE PrintedAll'
  OBVIOUS
<1>2. at \in [main : Places, arg : Nat \ {0}] /\ failures \in Nat
  BY <1>1 DEF IInv, TypeInv, Limits
<1>3. CASE PrintEnds
  BY <1>1, <1>3, PrintEndsAll
<1>4. CASE CreateIterator
  <2>1. IsFiniteSet(set) /\ Cardinality(set) \in Nat /\ lost \in Nat
    BY <1>1, FS_CardinalityType DEF IInv, TypeInv
  <2>2. CASE Cardinality(set) + lost = 0 /\ UNCHANGED set
    <3>1. Cardinality(set) = 0
      BY <2>1, <2>2
    <3>2. set' = {}
      BY <2>1, <2>2, <3>1, FS_EmptySet
    <3>3. QED
      BY <3>2 DEF PrintedAll
  <2>3. CASE at'.main # "done" \/ failures' # 0
    BY <2>3 DEF PrintedAll
  <2>4. QED
    BY <1>2, <1>4, <2>2, <2>3 DEF CreateIterator, Goto, Fail
<1>5. CASE WalkArgument \/ WalkEntry
  <2>1. ASSUME NEW stack, NEW path, NEW arg, processDirectory(stack, path, arg)
        PROVE  at'.main = at.main \/ failures' # 0
    <3>1. CASE Passed(stack, arg) \/ Entered(stack, path, arg)
      BY <1>2, <3>1 DEF Passed, Entered
    <3>2. CASE GiveUp(stack)
      BY <1>2, <3>2 DEF GiveUp, Fail
    <3>3. QED
      BY <2>1, <3>1, <3>2, ProcessDirectoryWays
  <2>2. at.main = "walk" /\ (UNCHANGED at \/ \E stack, path, arg : processDirectory(stack, path, arg))
    BY <1>5 DEF WalkArgument, WalkEntry
  <2>3. at'.main # "done" \/ failures' # 0
    BY <2>1, <2>2
  <2>4. QED
    BY <2>3 DEF PrintedAll
<1>6. CASE CreateContainers
  BY <1>2, <1>6 DEF CreateContainers, Goto, Fail, PrintedAll
<1>7. CASE CreateEngine \/ CompilePattern \/ WalkReturn \/ WalkEnds \/ NextDirectory \/ ScanEntry \/ ScanEnds
           \/ PrintLine \/ Cleanup \/ Change
  <2>1. CASE ScanEntry
    <3>1. \A path, rest : AddPath(path, rest) =>
             at'.main \in {"sort", "killed"} \/ UNCHANGED at
      BY <1>2, AddPathWays DEF EndScan, Added, FollowNull, Goto
    <3>2. at.main = "apply" /\ (UNCHANGED at \/ \E path, rest : AddPath(path, rest))
      BY <2>1 DEF ScanEntry
    <3>3. at'.main # "done"
      BY <3>1, <3>2
    <3>4. QED
      BY <3>3 DEF PrintedAll
  <2>2. CASE ~ScanEntry
    <3>1. at'.main # "done"
      BY <1>2, <1>7, <2>2 DEF CreateEngine, CompilePattern, WalkReturn, WalkEnds, NextDirectory, ScanEnds,
         EndScan, PrintLine, Cleanup, Change, Goto
    <3>2. QED
      BY <3>1 DEF PrintedAll
  <2>3. QED
    BY <2>1, <2>2
<1>8. CASE UNCHANGED vars
  BY <1>1, <1>8 DEF vars, PrintedAll
<1>9. QED
  BY <1>1, <1>3, <1>4, <1>5, <1>6, <1>7, <1>8 DEF Next, Step, Terminated
-----------------------------------------------------------------------------
(* What holds if no argument is another one or one below it.              *)
OnceInv == Apart => Distinct /\ Complete /\ Stable

(* In the beginning nothing has been met, and all is still to come, ...    *)
LEMMA OnceInit == Init => OnceInv /\ PrintedAll
<1>1. SUFFICES ASSUME Init PROVE OnceInv /\ PrintedAll
  OBVIOUS
<1>2. at.main = "start" /\ at.arg = 1 /\ list = << >>
  BY <1>1 DEF Init, LL!ListInit
<1>3. Distinct /\ Stable /\ PrintedAll
  BY <1>2 DEF Distinct, Different, Stable, Openable, PrintedAll
<1>4. Complete
  <2>1. ASSUME NEW i \in 1..Len(args), NEW a, NEW r PROVE Promise(i, a, r)
    BY <1>2 DEF Promise
  <2>2. QED
    BY <2>1 DEF Complete
<1>5. QED
  BY <1>3, <1>4 DEF OnceInv

(* ... and every step keeps it so.                                         *)
LEMMA OnceStep ==
  IInv /\ Limits /\ Contents /\ OnceInv /\ PrintedAll /\ [Next]_vars => (OnceInv /\ PrintedAll)'
<1>1. SUFFICES ASSUME IInv, Limits, Contents, OnceInv, PrintedAll, [Next]_vars
               PROVE  (OnceInv /\ PrintedAll)'
  OBVIOUS
<1>2. args' = args
  BY <1>1, ArgumentsKept
<1>3. Apart' => Apart
  BY <1>2 DEF Apart
<1>4. Apart => (Distinct /\ Complete /\ Stable)'
  BY <1>1, DistinctKept, CompleteKept, StableKept DEF OnceInv
<1>5. QED
  BY <1>1, <1>3, <1>4, PrintedKept DEF OnceInv

(* A file that is sought for an argument, and found, is printed.           *)
LEMMA AllImplied == IInv /\ Limits /\ Contents /\ OnceInv /\ PrintedAll => PrintsAllFiles
<1>1. SUFFICES ASSUME IInv, Limits, Contents, OnceInv, PrintedAll, at.main = "done", failures = 0, Apart,
                      list = << >> \/ Cardinality(past) = 1,
                      NEW a \in Given \ {<<Nothing>>}, NEW p \in Files(fs, a),
                      \A t \in past : p \in Files(t, a) /\ t[p].type \notin LeftOut
               PROVE  p \in Printed
  BY DEF PrintsAllFiles
<1>2. past \subseteq Trees /\ fs \in past /\ IsFiniteSet(past) /\ Distinct /\ Complete /\ Stable
  BY <1>1 DEF Limits, OnceInv
<1>3. PICK i \in 1..Len(args) : a = args[i] /\ a \in Path
  BY <1>1, GivenPaths DEF Given
<1>4. list = << >>
  <2>1. ASSUME Cardinality(past) = 1 PROVE past = {fs}
    BY <1>2, <2>1, FS_Singleton
  <2>2. QED
    BY <1>1, <1>2, <2>1 DEF Stable
<1> DEFINE r == SubSeq(p, Len(Place(a)) + 1, Len(p))
<1>5. r \in Seq(Names) /\ Len(r) \in Nat \ {0} /\ Route(a, r, Len(r)) = p
      /\ \A t \in past : Reaches(t, a, r)
  <2>1. \A t \in past : t \in Trees /\ p \in Found(t, a)
    BY <1>1, <1>2, FilesAreFound
  <2>2. QED
    BY <1>1, <1>2, <1>3, <2>1, FileReached
<1> HIDE DEF r
<1>6. Promise(i, args[i], r)
  BY <1>1, <1>2, <1>3, <1>5 DEF Complete, Sought
<1>7. Line(a, r) \in set
  BY <1>1, <1>3, <1>4, <1>6 DEF Promise, Among
<1>8. PICK k \in 1..Len(out) : out[k] = Line(a, r)
  BY <1>1, <1>7 DEF PrintedAll
<1>9. Place(out[k]) = p
  BY <1>1, <1>3, <1>5, <1>8, LinePlace
<1>10. k \in DOMAIN out
  BY <1>1, LenProperties DEF Contents, Output
<1>11. QED
  BY <1>9, <1>10 DEF Printed

(* Unless memory ran out or two arguments overlap, every file that the     *)
(* search should find in all the file systems there were is printed,       *)
(* whatever else changed meanwhile; the list was done with, or nothing did *)
(* change.                                                                 *)
THEOREM AllFilesPrinted == Spec => []PrintsAllFiles
<1>1. /\ IInv /\ Limits /\ Contents /\ OnceInv /\ PrintedAll /\ [Next]_vars
         => (IInv /\ Limits /\ Contents /\ OnceInv /\ PrintedAll)'
  BY Inductive, LimitsStep, ContentsKept, OnceStep
<1>2. QED
  BY <1>1, InitInv, LimitsInit, ContentsInit, OnceInit, AllImplied, PTL DEF Spec
-----------------------------------------------------------------------------
(* One place of the recursion of RegexMatches.                             *)
RegexStep(P, t, m, here) ==
  LET last == Len(P)
      i == here[1]
      j == here[2]
      char == IF P[i] = "\\" THEN i + 1 ELSE i
      fits == /\ j <= Len(t)
              /\ P[i] = "." \/ Stands(P[char], t[j])
  IN  IF i = last THEN j = Len(t) + 1
      ELSE IF P[char + 1] = "*"
      THEN m[<<char + 2, j>>] \/ (fits /\ m[<<i, j + 1>>])
      ELSE fits /\ m[<<char + 1, j + 1>>]

(* One place of the recursion of ShellMatches.                             *)
ShellStep(p, t, m, here) ==
  LET i == here[1]
      j == here[2]
  IN  IF i > Len(p) THEN j > Len(t)
      ELSE \/ /\ p[i] = "*"
              /\ m[<<i + 1, j>>] \/ (j <= Len(t) /\ m[<<i, j + 1>>])
           \/ /\ p[i] # "*" /\ j <= Len(t)
              /\ p[i] = "?" \/ Stands(p[i], t[j])
              /\ m[<<i + 1, j + 1>>]

Grid(n, t) == (1..n) \X (1..(Len(t) + 1))

(* Every step of either goes on in the pattern or in the text.             *)
Ahead(n, t) == [here \in Grid(n, t) |-> (n - here[1]) + (Len(t) + 1 - here[2])]

(* An expression that ends with `$', and in which a character follows      *)
(* every escape.                                                           *)
Closed(P) ==
  /\ P # << >> /\ P[Len(P)] = "$"
  /\ \A i \in 1..(Len(P) - 1) : P[i] = "\\" => i + 1 < Len(P)

(* Both are conditions.                                                    *)
LEMMA StepsDecide ==
  ASSUME NEW P, NEW t, NEW m, NEW here
  PROVE  RegexStep(P, t, m, here) \in BOOLEAN /\ ShellStep(P, t, m, here) \in BOOLEAN
<1>1. RegexStep(P, t, m, here) \in BOOLEAN
  BY DEF RegexStep
<1>2. ShellStep(P, t, m, here) \in BOOLEAN
  <2>1. CASE here[1] > Len(P)
    <3>1. ShellStep(P, t, m, here) = (here[2] > Len(t))
      BY <2>1 DEF ShellStep
    <3>2. (here[2] > Len(t)) \in BOOLEAN
      OBVIOUS
    <3>3. QED
      BY <3>1, <3>2
  <2>2. CASE ~(here[1] > Len(P))
    BY <2>2 DEF ShellStep
  <2>3. QED
    BY <2>1, <2>2
<1>3. QED
  BY <1>1, <1>2

LEMMA RegexIs ==
  ASSUME NEW B, NEW P \in Seq(B), Closed(P), NEW C, NEW t \in Seq(C)
  PROVE  \E m \in [Grid(Len(P), t) -> BOOLEAN] :
           /\ \A here \in Grid(Len(P), t) : m[here] <=> RegexStep(P, t, m, here)
           /\ RegexMatches(P, t) <=> P[1] = "^" /\ P[Len(P)] = "$" /\ m[<<2, 1>>]
<1> DEFINE n == Len(P)
           D == Grid(n, t)
           F == [D -> BOOLEAN]
           r == Ahead(n, t)
           step == [q \in F \X D |-> RegexStep(P, t, q[1], q[2])]
           N == n + Len(t) + 1
<1>1. n \in Nat \ {0} /\ Len(t) \in Nat
  BY DEF Closed
<1>2. r \in [D -> 0..N]
  BY <1>1 DEF Ahead, Grid
<1>3. Descends(D, BOOLEAN, r, step)
  <2> SUFFICES ASSUME NEW here \in D, NEW f \in F, NEW g \in F
               PROVE  /\ step[<<f, here>>] \in BOOLEAN
                      /\ AgreeBelow(f, g, r, r[here]) => step[<<f, here>>] = step[<<g, here>>]
    BY DEF Descends
  <2> DEFINE i == here[1]
             j == here[2]
             char == IF P[i] = "\\" THEN i + 1 ELSE i
  <2>1. i \in 1..n /\ j \in 1..(Len(t) + 1)
    BY DEF Grid
  <2>2. step[<<f, here>>] = RegexStep(P, t, f, here) /\ step[<<g, here>>] = RegexStep(P, t, g, here)
    OBVIOUS
  <2>3. RegexStep(P, t, f, here) \in BOOLEAN
    BY StepsDecide
  <2>4. ASSUME i # n PROVE char + 1 \in 1..n /\ (P[char + 1] = "*" => char + 2 \in 1..n)
    <3>1. char < n
      BY <1>1, <2>1, <2>4 DEF Closed
    <3>2. P[char + 1] = "*" => char + 1 # n
      BY DEF Closed
    <3>3. char \in Nat
      BY <2>1
    <3> HIDE DEF char, i, j, r, D, n
    <3>4. QED
      BY <1>1, <3>1, <3>2, <3>3
  <2>5. ASSUME NEW k \in 1..n, NEW l \in 1..(Len(t) + 1), k + l > i + j,
               AgreeBelow(f, g, r, r[here])
        PROVE  f[<<k, l>>] = g[<<k, l>>]
    <3>1. <<k, l>> \in D
      BY DEF Grid
    <3>2. r[<<k, l>>] < r[here]
      <4>1. r[<<k, l>>] = (n - k) + (Len(t) + 1 - l) /\ r[here] = (n - i) + (Len(t) + 1 - j)
        BY <3>1 DEF Ahead
      <4> HIDE DEF r, i, j
      <4>2. QED
        BY <1>1, <2>1, <2>5, <4>1
    <3>3. DOMAIN r = D
      BY DEF Ahead
    <3>4. QED
      <4> HIDE DEF r, D
      <4>1. QED
        BY <2>5, <3>1, <3>2, <3>3 DEF AgreeBelow
  <2>6. ASSUME AgreeBelow(f, g, r, r[here])
        PROVE  RegexStep(P, t, f, here) = RegexStep(P, t, g, here)
    <3>1. CASE i = n
      BY <3>1 DEF RegexStep
    <3>2. CASE i # n
      <4>1. char \in Nat /\ char >= i
        BY <2>1
      <4>2. j <= Len(t) => j + 1 \in 1..(Len(t) + 1)
        BY <1>1, <2>1
      <4>3. P[char + 1] = "*" => f[<<char + 2, j>>] = g[<<char + 2, j>>]
        <5>1. P[char + 1] = "*" => char + 2 \in 1..n /\ (char + 2) + j > i + j
          BY <2>1, <2>4, <3>2, <4>1
        <5> HIDE DEF char, i, j, r, D
        <5>2. QED
          BY <2>1, <2>5, <2>6, <5>1
      <4>4. j <= Len(t) => f[<<i, j + 1>>] = g[<<i, j + 1>>]
        <5>1. j <= Len(t) => i + (j + 1) > i + j
          BY <2>1
        <5> HIDE DEF char, i, j, r, D
        <5>2. QED
          BY <2>1, <2>5, <2>6, <4>2, <5>1
      <4>5. j <= Len(t) => f[<<char + 1, j + 1>>] = g[<<char + 1, j + 1>>]
        <5>1. char + 1 \in 1..n /\ (char + 1) + (j + 1) > i + j
          BY <2>1, <2>4, <3>2, <4>1
        <5> HIDE DEF char, i, j, r, D
        <5>2. QED
          BY <2>5, <2>6, <4>2, <5>1
      <4> HIDE DEF char
      <4>6. QED
        BY <3>2, <4>3, <4>4, <4>5 DEF RegexStep, char
    <3>3. QED
      BY <3>1, <3>2
  <2>7. QED
    <3> HIDE DEF step, F, r, D
    <3>1. QED
      BY <2>2, <2>3, <2>6
<1>4. \E m \in F : \A here \in D : m[here] = step[<<m, here>>]
  <2> DEFINE X == BOOLEAN
  <2>1. N \in Nat /\ X # {} /\ Descends(D, X, r, step)
    <3>1. TRUE \in X
      OBVIOUS
    <3>2. N \in Nat
      BY <1>1
    <3> HIDE DEF N, D, r, step
    <3>3. Descends(D, X, r, step)
      BY <1>3
    <3>4. QED
      BY <3>1, <3>2, <3>3
  <2>4. Ranked(D, N, r)
    BY <1>2 DEF Ranked
  <2> HIDE DEF D, r, step, N, X
  <2>2. Solvable(D, X, step)
    BY <2>1, <2>4, RankedRecursion
  <2>3. QED
    BY <2>2 DEF X, Solvable
<1>5. \E m : m = [here \in D |-> RegexStep(P, t, m, here)]
  <2>1. PICK m \in F : \A here \in D : m[here] = step[<<m, here>>]
    BY <1>4
  <2>2. \A here \in D : step[<<m, here>>] = RegexStep(P, t, m, here)
    OBVIOUS
  <2> HIDE DEF D, step
  <2>3. m = [here \in D |-> RegexStep(P, t, m, here)]
    BY <2>1, <2>2
  <2>4. QED
    BY <2>3
<1> DEFINE m == CHOOSE m : m = [here \in D |-> RegexStep(P, t, m, here)]
<1>6. m = [here \in D |-> RegexStep(P, t, m, here)]
  BY <1>5
<1>7. RegexMatches(P, t) <=> P[1] = "^" /\ P[n] = "$" /\ m[<<2, 1>>]
  BY DEF RegexMatches, RegexStep, Grid
<1> HIDE DEF m, D
<1>8. \A here \in D : m[here] = RegexStep(P, t, m, here)
  BY <1>6
<1>9. m \in [D -> BOOLEAN]
  <2>1. \A here \in D : RegexStep(P, t, m, here) \in BOOLEAN
    BY StepsDecide
  <2>2. QED
    BY <1>6, <2>1
<1>10. QED
  BY <1>7, <1>8, <1>9 DEF D

LEMMA ShellIs ==
  ASSUME NEW B, NEW p \in Seq(B), NEW C, NEW t \in Seq(C)
  PROVE  \E m \in [Grid(Len(p) + 1, t) -> BOOLEAN] :
           /\ \A here \in Grid(Len(p) + 1, t) : m[here] <=> ShellStep(p, t, m, here)
           /\ ShellMatches(p, t) <=> m[<<1, 1>>]
<1> DEFINE n == Len(p) + 1
           D == Grid(n, t)
           F == [D -> BOOLEAN]
           r == Ahead(n, t)
           step == [q \in F \X D |-> ShellStep(p, t, q[1], q[2])]
           N == n + Len(t) + 1
<1>1. n \in Nat \ {0} /\ Len(p) \in Nat /\ Len(t) \in Nat
  OBVIOUS
<1>2. r \in [D -> 0..N]
  BY <1>1 DEF Ahead, Grid
<1>3. Descends(D, BOOLEAN, r, step)
  <2> SUFFICES ASSUME NEW here \in D, NEW f \in F, NEW g \in F
               PROVE  /\ step[<<f, here>>] \in BOOLEAN
                      /\ AgreeBelow(f, g, r, r[here]) => step[<<f, here>>] = step[<<g, here>>]
    BY DEF Descends
  <2> DEFINE i == here[1]
             j == here[2]
  <2>1. i \in 1..n /\ j \in 1..(Len(t) + 1)
    BY DEF Grid
  <2>2. step[<<f, here>>] = ShellStep(p, t, f, here) /\ step[<<g, here>>] = ShellStep(p, t, g, here)
    OBVIOUS
  <2>3. ShellStep(p, t, f, here) \in BOOLEAN
    BY StepsDecide
  <2>4. ASSUME NEW k \in 1..n, NEW l \in 1..(Len(t) + 1), k + l > i + j,
               AgreeBelow(f, g, r, r[here])
        PROVE  f[<<k, l>>] = g[<<k, l>>]
    <3>1. <<k, l>> \in D
      BY DEF Grid
    <3>2. r[<<k, l>>] < r[here]
      <4>1. r[<<k, l>>] = (n - k) + (Len(t) + 1 - l) /\ r[here] = (n - i) + (Len(t) + 1 - j)
        BY <3>1 DEF Ahead
      <4> HIDE DEF r, i, j, n
      <4>2. QED
        BY <1>1, <2>1, <2>4, <4>1
    <3>3. DOMAIN r = D
      BY DEF Ahead
    <3>4. QED
      <4> HIDE DEF r, D
      <4>1. QED
        BY <2>4, <3>1, <3>2, <3>3 DEF AgreeBelow
  <2>5. ASSUME AgreeBelow(f, g, r, r[here])
        PROVE  ShellStep(p, t, f, here) = ShellStep(p, t, g, here)
    <3>1. CASE i > Len(p)
      BY <3>1 DEF ShellStep
    <3>2. CASE ~(i > Len(p))
      <4>1. i + 1 \in 1..n /\ (j <= Len(t) => j + 1 \in 1..(Len(t) + 1))
        BY <1>1, <2>1, <3>2
      <4>2. f[<<i + 1, j>>] = g[<<i + 1, j>>]
        BY <2>1, <2>4, <2>5, <4>1
      <4>3. j <= Len(t) => f[<<i, j + 1>>] = g[<<i, j + 1>>]
        BY <2>1, <2>4, <2>5, <4>1
      <4>4. j <= Len(t) => f[<<i + 1, j + 1>>] = g[<<i + 1, j + 1>>]
        BY <2>1, <2>4, <2>5, <4>1
      <4>5. QED
        BY <3>2, <4>2, <4>3, <4>4 DEF ShellStep
    <3>3. QED
      BY <3>1, <3>2
  <2>6. QED
    <3> HIDE DEF step, F, r, D
    <3>1. QED
      BY <2>2, <2>3, <2>5
<1>4. \E m \in F : \A here \in D : m[here] = step[<<m, here>>]
  <2> DEFINE X == BOOLEAN
  <2>1. N \in Nat /\ X # {} /\ Descends(D, X, r, step)
    <3>1. TRUE \in X
      OBVIOUS
    <3>2. N \in Nat
      BY <1>1
    <3> HIDE DEF N, D, r, step
    <3>3. Descends(D, X, r, step)
      BY <1>3
    <3>4. QED
      BY <3>1, <3>2, <3>3
  <2>2. Ranked(D, N, r)
    BY <1>2 DEF Ranked
  <2> HIDE DEF D, r, step, N, X
  <2>3. Solvable(D, X, step)
    BY <2>1, <2>2, RankedRecursion
  <2>4. QED
    BY <2>3 DEF X, Solvable
<1>5. \E m : m = [here \in D |-> ShellStep(p, t, m, here)]
  <2>1. PICK m \in F : \A here \in D : m[here] = step[<<m, here>>]
    BY <1>4
  <2>2. \A here \in D : step[<<m, here>>] = ShellStep(p, t, m, here)
    OBVIOUS
  <2> HIDE DEF D, step
  <2>3. m = [here \in D |-> ShellStep(p, t, m, here)]
    BY <2>1, <2>2
  <2>4. QED
    BY <2>3
<1> DEFINE m == CHOOSE m : m = [here \in D |-> ShellStep(p, t, m, here)]
<1>6. m = [here \in D |-> ShellStep(p, t, m, here)]
  BY <1>5
<1>7. ShellMatches(p, t) <=> m[<<1, 1>>]
  BY DEF ShellMatches, ShellStep, Grid
<1> HIDE DEF m, D
<1>8. \A here \in D : m[here] = ShellStep(p, t, m, here)
  BY <1>6
<1>9. m \in [D -> BOOLEAN]
  <2>1. \A here \in D : ShellStep(p, t, m, here) \in BOOLEAN
    BY StepsDecide
  <2>2. QED
    BY <1>6, <2>1
<1>10. QED
  BY <1>7, <1>8, <1>9 DEF D

(* The characters of an expression for a pattern of the characters B.      *)
Signs(B) == B \cup {"^", "$", ".", "*", "\\"}

LEMMA ConvertIs ==
  ASSUME NEW B, NEW c \in B, c # "\\"
  PROVE  LET v == Convert(c)
         IN  /\ v \in Seq(Signs(B)) /\ Len(v) \in 1..2 /\ v[1] # "*"
             /\ v[Len(v)] # "\\"
<1>1. CASE c = "*"
  <2>1. Convert(c) = <<".", "*">>
    BY <1>1 DEF Convert
  <2>2. QED
    BY <2>1 DEF Signs
<1>2. CASE c = "."
  <2>1. Convert(c) = <<"\\", ".">>
    BY <1>2 DEF Convert
  <2>2. QED
    BY <2>1 DEF Signs
<1>3. CASE c = "?"
  <2>1. Convert(c) = <<".">>
    BY <1>3 DEF Convert
  <2>2. QED
    BY <2>1 DEF Signs
<1>4. CASE c \notin {"*", ".", "?"}
  <2>1. Convert(c) = <<c>>
    BY <1>4 DEF Convert
  <2>2. QED
    BY <1>4, <2>1 DEF Signs
<1>5. QED
  BY <1>1, <1>2, <1>3, <1>4

(* The expression after the first k characters of a pattern.               *)
Prefixes(q, p) ==
  q[0] = <<"^">> /\ \A k \in 1..Len(p) : q[k] = q[k - 1] \o Convert(p[k])

LEMMA CvtPatternIs ==
  ASSUME NEW B, NEW p \in Seq(B), "\\" \notin B
  PROVE  \E q \in [0..Len(p) -> Seq(Signs(B))] :
           Prefixes(q, p) /\ cvtPattern(p) = Append(q[Len(p)], "$")
<1> DEFINE n == Len(p)
           Q == Seq(Signs(B))
           X == [k \in 0..n |-> Q]
           step == [x \in Q \X (1..n) |-> x[1] \o Convert(p[x[2]])]
<1>1. n \in Nat
  OBVIOUS
<1>2. <<"^">> \in Q
  BY DEF Signs
<1>3. ASSUME NEW k \in 1..n PROVE Convert(p[k]) \in Q
  <2>1. p[k] \in B /\ p[k] # "\\"
    OBVIOUS
  <2>2. QED
    BY <2>1, ConvertIs
<1>4. \A k \in 1..n : \A x \in Q : step[<<x, k>>] = x \o Convert(p[k]) /\ x \o Convert(p[k]) \in Q
  <2>1. ASSUME NEW k \in 1..n, NEW x \in Q
        PROVE  step[<<x, k>>] = x \o Convert(p[k]) /\ x \o Convert(p[k]) \in Q
    <3>1. step[<<x, k>>] = x \o Convert(p[k])
      OBVIOUS
    <3> HIDE DEF Q, step
    <3>2. x \o Convert(p[k]) \in Q
      BY <1>3 DEF Q
    <3>3. QED
      BY <3>1, <3>2
  <2>2. QED
    BY <2>1
<1>5. \E f : Repeats(f, n, <<"^">>, step) /\ \A k \in 0..n : f[k] \in X[k]
  <2>1. <<"^">> \in X[0]
    BY <1>1, <1>2
  <2>2. Leads(X, n, step)
    <3>1. \A k \in 1..n : k \in 0..n /\ k - 1 \in 0..n /\ X[k] = Q /\ X[k - 1] = Q
      BY <1>1
    <3> HIDE DEF Q, step, X
    <3>2. QED
      BY <1>4, <3>1 DEF Leads
  <2> HIDE DEF n, X, step
  <2>3. QED
    BY <1>1, <2>1, <2>2, InvariantRecursion
<1> DEFINE Eq(f) == f = [i \in 0..n |-> IF i = 0 THEN <<"^">> ELSE f[i - 1] \o Convert(p[i])]
<1>6. \E f : Eq(f)
  <2>1. PICK f : Repeats(f, n, <<"^">>, step) /\ \A k \in 0..n : f[k] \in X[k]
    BY <1>5
  <2>2. \A k \in 1..n : f[k - 1] \in Q
    BY <1>1, <2>1
  <2>3. \A i \in 0..n : (IF i = 0 THEN <<"^">> ELSE step[<<f[i - 1], i>>])
                       = (IF i = 0 THEN <<"^">> ELSE f[i - 1] \o Convert(p[i]))
    <3>1. ASSUME NEW i \in 0..n, i # 0 PROVE step[<<f[i - 1], i>>] = f[i - 1] \o Convert(p[i])
      <4>1. i \in 1..n
        BY <1>1, <3>1
      <4> HIDE DEF step, Q, X, n
      <4>2. QED
        BY <1>4, <2>2, <4>1
    <3> HIDE DEF step, Q, X, n
    <3>2. QED
      BY <3>1
  <2>4. Eq(f)
    <3> HIDE DEF step, Q, X
    <3>1. QED
      BY <2>1, <2>3 DEF Repeats
  <2>5. QED
    <3> HIDE DEF Eq
    <3>1. QED
      BY <2>4
<1> DEFINE q == CHOOSE f : Eq(f)
<1>7. Eq(q)
  <2> HIDE DEF Eq
  <2>1. QED
    BY <1>6
<1>8. cvtPattern(p) = Append(q[n], "$")
  BY DEF cvtPattern
<1> HIDE DEF q
<1>9. q[0] = <<"^">> /\ \A k \in 1..n : q[k] = q[k - 1] \o Convert(p[k])
  <2>1. \A i \in 0..n : q[i] = IF i = 0 THEN <<"^">> ELSE q[i - 1] \o Convert(p[i])
    BY <1>7
  <2>2. 0 \in 0..n /\ \A k \in 1..n : k \in 0..n /\ k # 0
    BY <1>1
  <2> HIDE DEF n
  <2>3. QED
    BY <2>1, <2>2
<1>10. \A k \in 0..n : q[k] \in X[k]
  <2>1. q[0] \in X[0]
    BY <1>1, <1>2, <1>9
  <2>2. ASSUME NEW k \in 1..n, q[k - 1] \in X[k - 1] PROVE q[k] \in X[k]
    <3>1. q[k - 1] \in Q /\ q[k] = q[k - 1] \o Convert(p[k]) /\ X[k] = Q
      <4>1. k \in 0..n /\ k - 1 \in 0..n
        BY <1>1
      <4>2. X[k] = Q /\ X[k - 1] = Q
        BY <4>1
      <4> HIDE DEF X, Q, n
      <4>3. QED
        BY <1>9, <2>2, <4>2
    <3> HIDE DEF X, Q
    <3>2. QED
      BY <1>4, <3>1
  <2> HIDE DEF X
  <2>3. QED
    BY <1>1, <2>1, <2>2, InvariantValues
<1>11. q \in [0..n -> Q]
  <2>1. q = [i \in 0..n |-> q[i]]
    BY <1>7
  <2>2. \A k \in 0..n : q[k] \in Q
    BY <1>10
  <2> HIDE DEF Q
  <2>3. QED
    BY <2>1, <2>2
<1>12. QED
  BY <1>8, <1>9, <1>11 DEF Prefixes

(* Where the expression for the k-th character of a pattern begins.        *)
Start(q, k) == Len(q[k - 1]) + 1

(* P is the expression for p, and q its beginnings.                        *)
Converted(B, p, q, P) ==
  /\ p \in Seq(B) /\ "\\" \notin B
  /\ q \in [0..Len(p) -> Seq(Signs(B))] /\ Prefixes(q, p) /\ P = Append(q[Len(p)], "$")

LEMMA Positions ==
  ASSUME NEW B, NEW p, NEW q, NEW P, Converted(B, p, q, P)
  PROVE  /\ P \in Seq(Signs(B)) /\ Closed(P) /\ P[1] = "^"
         /\ Start(q, 1) = 2 /\ Start(q, Len(p) + 1) = Len(P)
         /\ \A k \in 1..Len(p) :
              LET v == Convert(p[k])
              IN  /\ Start(q, k + 1) = Start(q, k) + Len(v)
                  /\ \A d \in 1..Len(v) : P[Start(q, k) + d - 1] = v[d]
         /\ \A k \in 1..(Len(p) + 1) : Start(q, k) \in 1..Len(P) /\ P[Start(q, k)] # "*"
<1> DEFINE n == Len(p)
           v(k) == Convert(p[k])
<1>1. n \in Nat /\ \A k \in 0..n : q[k] \in Seq(Signs(B)) /\ Len(q[k]) \in Nat
  BY DEF Converted
<1>2. \A k \in 1..n : v(k) \in Seq(Signs(B)) /\ Len(v(k)) \in 1..2 /\ v(k)[1] # "*"
                       /\ v(k)[Len(v(k))] # "\\"
  <2>1. ASSUME NEW k \in 1..n PROVE p[k] \in B /\ p[k] # "\\"
    BY DEF Converted
  <2>2. QED
    BY <2>1, ConvertIs
<1> HIDE DEF v
<1>3. ASSUME NEW k \in 1..n
      PROVE  /\ k \in 0..n /\ k - 1 \in 0..n /\ q[k] = q[k - 1] \o v(k)
             /\ Len(q[k]) = Len(q[k - 1]) + Len(v(k))
             /\ \A i \in 1..Len(q[k - 1]) : q[k][i] = q[k - 1][i]
             /\ \A d \in 1..Len(v(k)) : q[k][Len(q[k - 1]) + d] = v(k)[d]
  <2>1. k \in 0..n /\ k - 1 \in 0..n
    BY <1>1
  <2>2. q[k] = q[k - 1] \o v(k)
    BY DEF Converted, Prefixes, v
  <2>3. q[k - 1] \in Seq(Signs(B)) /\ v(k) \in Seq(Signs(B))
    BY <1>1, <1>2, <2>1
  <2> HIDE DEF n
  <2>4. QED
    BY <2>1, <2>2, <2>3
<1>4. q[0] = <<"^">> /\ Len(q[0]) = 1
  BY DEF Converted, Prefixes
<1> DEFINE S == {m \in 0..n : /\ Len(q[m]) >= 1 /\ q[m][1] = "^"
                              /\ \A i \in 1..Len(q[m]) : q[m][i] = "\\" => i < Len(q[m])
                              /\ \A k \in 0..m : /\ Len(q[k]) <= Len(q[m])
                                                 /\ \A i \in 1..Len(q[k]) : q[m][i] = q[k][i]}
<1>5. 0 \in S
  <2>1. 0 \in 0..n /\ \A k \in 0..0 : k = 0
    BY <1>1
  <2>2. q[0][1] = "^" /\ \A i \in 1..1 : q[0][i] # "\\"
    BY <1>4
  <2> HIDE DEF n
  <2>3. QED
    BY <1>4, <2>1, <2>2
<1>6. ASSUME NEW m \in 0..(n - 1), m \in S PROVE m + 1 \in S
  <2> DEFINE x == q[m]
             y == q[m + 1]
             w == v(m + 1)
             lx == Len(x)
             ly == Len(y)
             lw == Len(w)
  <2>1. m + 1 \in 1..n /\ (m + 1) - 1 = m /\ m \in 0..n /\ m + 1 \in 0..n
    BY <1>1
  <2>2. /\ ly = lx + lw
        /\ \A i \in 1..lx : y[i] = x[i]
        /\ \A d \in 1..lw : y[lx + d] = w[d]
    <3> DEFINE k == m + 1
    <3>1. k \in 1..n /\ k - 1 = m
      BY <2>1
    <3> HIDE DEF k, n, v
    <3>2. /\ Len(q[k]) = Len(q[m]) + Len(v(k))
          /\ \A i \in 1..Len(q[m]) : q[k][i] = q[m][i]
          /\ \A d \in 1..Len(v(k)) : q[k][Len(q[m]) + d] = v(k)[d]
      BY <1>3, <3>1
    <3>3. QED
      BY <3>2 DEF k
  <2>3. lw \in 1..2 /\ w[lw] # "\\" /\ lx \in Nat /\ lx >= 1 /\ x[1] = "^"
    BY <1>1, <1>2, <1>6, <2>1
  <2>4. /\ \A i \in 1..lx : x[i] = "\\" => i < lx
        /\ \A k \in 0..m : Len(q[k]) <= lx /\ \A i \in 1..Len(q[k]) : x[i] = q[k][i]
    BY <1>6
  <2>5. \A k \in 0..m : k \in 0..n /\ Len(q[k]) \in Nat
    BY <1>1, <2>1
  <2> HIDE DEF x, y, w, lx, ly, lw
  <2>6. ly \in Nat /\ ly >= 1 /\ y[1] = "^"
    BY <2>2, <2>3
  <2>7. ASSUME NEW i \in 1..ly, y[i] = "\\" PROVE i < ly
    <3>1. CASE i <= lx
      BY <2>2, <2>3, <3>1
    <3>2. CASE i > lx
      <4>1. i - lx \in 1..lw /\ i = lx + (i - lx)
        BY <2>2, <2>3, <3>2
      <4>2. y[i] = w[i - lx]
        BY <2>2, <4>1
      <4>3. i - lx # lw
        BY <2>3, <2>7, <4>2
      <4>4. QED
        BY <2>2, <2>3, <4>1, <4>3
    <3>3. QED
      BY <2>3, <3>1, <3>2
  <2>8. ASSUME NEW k \in 0..(m + 1)
        PROVE  Len(q[k]) <= ly /\ \A i \in 1..Len(q[k]) : y[i] = q[k][i]
    <3>1. CASE k = m + 1
      BY <2>6, <3>1 DEF y, ly
    <3>2. CASE k \in 0..m
      <4> DEFINE e == Len(q[k])
      <4>1. e <= lx /\ (\A i \in 1..e : x[i] = q[k][i]) /\ e \in Nat
        BY <2>4, <2>5, <3>2
      <4> HIDE DEF e
      <4>2. e <= ly /\ \A i \in 1..e : y[i] = q[k][i]
        BY <2>2, <2>3, <4>1
      <4>3. QED
        BY <4>2 DEF e
    <3>3. QED
      BY <2>1, <3>1, <3>2
  <2>9. QED
    BY <2>1, <2>6, <2>7, <2>8 DEF y, ly
<1>7. n \in S
  <2>1. 0..n \subseteq S
    <3> HIDE DEF S, n
    <3>1. QED
      BY <1>1, <1>5, <1>6, InductionUpTo
  <2>2. QED
    BY <1>1, <2>1
<1>8. /\ Len(q[n]) \in Nat /\ Len(q[n]) >= 1 /\ q[n][1] = "^"
      /\ \A i \in 1..Len(q[n]) : q[n][i] = "\\" => i < Len(q[n])
      /\ \A k \in 0..n : Len(q[k]) <= Len(q[n]) /\ \A i \in 1..Len(q[k]) : q[n][i] = q[k][i]
  BY <1>1, <1>7
<1>9. /\ P \in Seq(Signs(B)) /\ Len(P) = Len(q[n]) + 1 /\ P[Len(P)] = "$"
      /\ \A i \in 1..Len(q[n]) : P[i] = q[n][i]
  <2>1. q[n] \in Seq(Signs(B)) /\ "$" \in Signs(B)
    BY <1>1 DEF Signs
  <2>2. P = Append(q[n], "$")
    BY DEF Converted
  <2>3. QED
    BY <2>1, <2>2
<1> HIDE DEF n, S
<1>10. Closed(P) /\ P[1] = "^"
  <2> DEFINE e == Len(q[n])
             l == Len(P)
  <2>1. /\ e \in Nat /\ e >= 1 /\ l = e + 1 /\ P[l] = "$" /\ P[1] = "^"
        /\ \A i \in 1..e : P[i] = "\\" => i < e
    BY <1>8, <1>9
  <2>2. l = 0 => P[1] = "^"
    BY <2>1
  <2>3. P = << >> => l = 0
    OBVIOUS
  <2> HIDE DEF e
  <2>4. \A i \in 1..(l - 1) : P[i] = "\\" => i + 1 < l
    <3> HIDE DEF l
    <3>1. QED
      BY <2>1
  <2>5. l # 0
    <3> HIDE DEF l
    <3>1. QED
      BY <2>1
  <2>6. QED
    BY <2>1, <2>3, <2>4, <2>5 DEF Closed
<1>11. Start(q, 1) = 2 /\ Start(q, n + 1) = Len(P)
  <2>1. 1 - 1 = 0 /\ (n + 1) - 1 = n
    BY <1>1
  <2>2. QED
    <3>1. Start(q, 1) = Len(q[0]) + 1 /\ Start(q, n + 1) = Len(q[n]) + 1
      BY <2>1 DEF Start
    <3>2. QED
      BY <1>4, <1>9, <3>1
<1>12. ASSUME NEW k \in 1..n
       PROVE  /\ Start(q, k + 1) = Start(q, k) + Len(v(k))
              /\ \A d \in 1..Len(v(k)) : P[Start(q, k) + d - 1] = v(k)[d]
  <2> DEFINE a == Len(q[k - 1])
             b == Len(q[k])
             c == Len(v(k))
             l == Len(q[n])
  <2>1. a \in Nat /\ b \in Nat /\ c \in 1..2 /\ l \in Nat /\ (k + 1) - 1 = k /\ k \in 0..n
    BY <1>1, <1>2, <1>3, <1>8
  <2>2. Start(q, k + 1) = b + 1 /\ Start(q, k) = a + 1
    BY <2>1 DEF Start
  <2>3. b = a + c /\ \A d \in 1..c : q[k][a + d] = v(k)[d]
    BY <1>3
  <2>4. b <= l /\ (\A i \in 1..b : q[n][i] = q[k][i]) /\ \A i \in 1..l : P[i] = q[n][i]
    BY <1>8, <1>9, <2>1
  <2> HIDE DEF a, b, c, l
  <2>5. Start(q, k + 1) = Start(q, k) + c
    BY <2>1, <2>2, <2>3
  <2>6. ASSUME NEW d \in 1..c PROVE P[Start(q, k) + d - 1] = v(k)[d]
    <3>1. Start(q, k) + d - 1 = a + d /\ a + d \in 1..b /\ a + d \in 1..l
      BY <2>1, <2>2, <2>3, <2>4
    <3>2. QED
      BY <2>3, <2>4, <3>1
  <2>7. QED
    BY <2>5, <2>6 DEF c
<1>13. ASSUME NEW k \in 1..(n + 1) PROVE Start(q, k) \in 1..Len(P) /\ P[Start(q, k)] # "*"
  <2>1. k - 1 \in 0..n
    BY <1>1
  <2>2. Len(q[k - 1]) \in Nat /\ Len(q[k - 1]) <= Len(q[n])
    BY <1>1, <1>8, <2>1
  <2>3. Start(q, k) \in 1..Len(P)
    BY <1>8, <1>9, <2>2 DEF Start
  <2>4. CASE k = n + 1
    BY <1>9, <1>11, <2>3, <2>4
  <2>5. CASE k \in 1..n
    <3>1. P[Start(q, k) + 1 - 1] = v(k)[1]
      <4>1. 1 \in 1..Len(v(k))
        BY <1>2, <2>5
      <4>2. QED
        BY <1>12, <2>5, <4>1
    <3>2. Start(q, k) + 1 - 1 = Start(q, k)
      BY <2>3, <1>8, <1>9
    <3>3. v(k)[1] # "*"
      BY <1>2, <2>5
    <3>4. QED
      BY <2>3, <3>1, <3>2, <3>3
  <2>6. QED
    BY <1>1, <2>3, <2>4, <2>5
<1>14. QED
  BY <1>9, <1>10, <1>11, <1>12, <1>13 DEF n, v

(* The expression for the character c is in P from s on.                   *)
Expresses(P, s, c) ==
  /\ \A d \in 1..Len(Convert(c)) : P[s + d - 1] = Convert(c)[d]
  /\ P[s + Len(Convert(c))] # "*"

(* What either recursion asks at a character: `here' is where it is in the *)
(* pattern or expression, `next' where it goes on.                         *)
Asks(m, t, c, here, next, j) ==
  \/ c = "*" /\ (m[<<next, j>>] \/ (j <= Len(t) /\ m[<<here, j + 1>>]))
  \/ c # "*" /\ j <= Len(t) /\ (c = "?" \/ Stands(c, t[j])) /\ m[<<next, j + 1>>]

LEMMA RegexOnCharacter ==
  ASSUME NEW P, NEW t, NEW m, NEW s \in Nat, NEW j \in Nat, NEW c, c # "\\", s # Len(P),
         Expresses(P, s, c), NEW next, next = s + Len(Convert(c))
  PROVE  RegexStep(P, t, m, <<s, j>>) <=> Asks(m, t, c, s, next, j)
<1> DEFINE v == Convert(c)
           h == <<s, j>>
<1>1. (\A d \in 1..Len(v) : P[s + d - 1] = v[d]) /\ P[s + Len(v)] # "*" /\ h[1] = s /\ h[2] = j
  BY DEF Expresses
<1>2. CASE c = "*"
  <2>1. v = <<".", "*">> /\ Len(v) = 2 /\ v[1] = "." /\ v[2] = "*"
    BY <1>2 DEF Convert
  <2> HIDE DEF v, Asks
  <2>2. P[s] = "." /\ P[s + 1] = "*"
    <3>1. s + 1 - 1 = s /\ s + 2 - 1 = s + 1 /\ 1 \in 1..Len(v) /\ 2 \in 1..Len(v)
      BY <2>1
    <3>2. P[s + 1 - 1] = v[1] /\ P[s + 2 - 1] = v[2]
      BY <1>1, <3>1
    <3>3. QED
      BY <2>1, <3>1, <3>2
  <2>3. RegexStep(P, t, m, h) <=> m[<<s + 2, j>>] \/ (j <= Len(t) /\ m[<<s, j + 1>>])
    BY <1>1, <2>2 DEF RegexStep
  <2>4. QED
    BY <1>2, <2>1, <2>3 DEF v, Asks
<1>3. CASE c = "."
  <2>1. v = <<"\\", ".">> /\ Len(v) = 2 /\ v[1] = "\\" /\ v[2] = "."
    BY <1>3 DEF Convert
  <2> HIDE DEF v, Asks
  <2>2. P[s] = "\\" /\ P[s + 1] = "." /\ P[s + 2] # "*"
    <3>1. s + 1 - 1 = s /\ s + 2 - 1 = s + 1 /\ 1 \in 1..Len(v) /\ 2 \in 1..Len(v)
      BY <2>1
    <3>2. P[s + 1 - 1] = v[1] /\ P[s + 2 - 1] = v[2]
      BY <1>1, <3>1
    <3>3. QED
      BY <1>1, <2>1, <3>1, <3>2
  <2>3. RegexStep(P, t, m, h) <=> j <= Len(t) /\ Stands(".", t[j]) /\ m[<<s + 2, j + 1>>]
    <3>1. (s + 1) + 1 = s + 2
      OBVIOUS
    <3>2. QED
      BY <1>1, <2>2, <3>1 DEF RegexStep
  <2>4. QED
    BY <1>3, <2>1, <2>3 DEF v, Asks
<1>4. CASE c \notin {"*", "."}
  <2>1. /\ Len(v) = 1 /\ v[1] # "\\" /\ (v[1] = "." <=> c = "?") /\ (c # "?" => v[1] = c)
    <3>1. CASE c = "?"
      <4>1. v = <<".">>
        BY <3>1 DEF Convert
      <4>2. QED
        BY <3>1, <4>1
    <3>2. CASE c # "?"
      <4>1. v = <<c>>
        BY <1>4, <3>2 DEF Convert
      <4>2. QED
        BY <1>4, <3>2, <4>1
    <3>3. QED
      BY <3>1, <3>2
  <2> HIDE DEF v, Asks
  <2>2. P[s] = v[1] /\ P[s + 1] # "*"
    <3>1. s + 1 - 1 = s /\ 1 \in 1..Len(v)
      BY <2>1
    <3>2. P[s + 1 - 1] = v[1]
      BY <1>1, <3>1
    <3>3. QED
      BY <1>1, <2>1, <3>1, <3>2
  <2>3. RegexStep(P, t, m, h) <=>
          j <= Len(t) /\ (v[1] = "." \/ Stands(v[1], t[j])) /\ m[<<s + 1, j + 1>>]
    BY <1>1, <2>1, <2>2 DEF RegexStep
  <2>4. v[1] = "." \/ Stands(v[1], t[j]) <=> c = "?" \/ Stands(c, t[j])
    BY <1>4, <2>1
  <2>5. QED
    BY <1>4, <2>1, <2>3, <2>4 DEF v, Asks
<1>5. QED
  BY <1>2, <1>3, <1>4

(* A pattern without operators means to the regular expressions what it    *)
(* means to the shell, however long it and the names are, whatever else it *)
(* is made of, and whatever the names are made of.                         *)
THEOREM PatternsAgreeOnNames ==
  ASSUME NEW B, B \cap Operators = {}, NEW p \in Seq(B), NEW C, NEW t \in Seq(C)
  PROVE  RegexMatches(cvtPattern(p), t) <=> ShellMatches(p, t)
<1> DEFINE P == cvtPattern(p)
           n == Len(p)
           l == Len(t)
<1>1. PICK q : q \in [0..n -> Seq(Signs(B))] /\ Prefixes(q, p) /\ P = Append(q[n], "$")
  <2>1. "\\" \notin B
    BY DEF Operators
  <2>2. QED
    BY <2>1, CvtPatternIs
<1> HIDE DEF P
<1>2. Converted(B, p, q, P)
  BY <1>1 DEF Converted, Operators
<1>3. /\ P \in Seq(Signs(B)) /\ Closed(P) /\ P[1] = "^"
      /\ Start(q, 1) = 2 /\ Start(q, n + 1) = Len(P)
      /\ \A k \in 1..n : /\ Start(q, k + 1) = Start(q, k) + Len(Convert(p[k]))
                         /\ \A d \in 1..Len(Convert(p[k])) : P[Start(q, k) + d - 1] = Convert(p[k])[d]
      /\ \A k \in 1..(n + 1) : Start(q, k) \in 1..Len(P) /\ P[Start(q, k)] # "*"
  BY <1>2, Positions
<1>4. PICK m \in [Grid(Len(P), t) -> BOOLEAN] :
        /\ \A here \in Grid(Len(P), t) : m[here] <=> RegexStep(P, t, m, here)
        /\ RegexMatches(P, t) <=> P[1] = "^" /\ P[Len(P)] = "$" /\ m[<<2, 1>>]
  BY <1>3, RegexIs
<1>5. PICK s \in [Grid(n + 1, t) -> BOOLEAN] :
        /\ \A here \in Grid(n + 1, t) : s[here] <=> ShellStep(p, t, s, here)
        /\ ShellMatches(p, t) <=> s[<<1, 1>>]
  BY ShellIs
<1>6. n \in Nat /\ l \in Nat /\ \A k \in 1..n : p[k] \in B /\ p[k] # "\\"
  <2>1. "\\" \notin B
    BY DEF Operators
  <2>2. QED
    BY <2>1
<1> DEFINE Agree(k, j) == m[<<Start(q, k), j>>] <=> s[<<k, j>>]
<1> HIDE DEF n, l
<1>7. ASSUME NEW k \in 1..(n + 1), NEW j \in 1..(l + 1),
             \A x \in 1..(n + 1), y \in 1..(l + 1) : x + y > k + j => Agree(x, y)
      PROVE  Agree(k, j)
  <2> DEFINE b == Start(q, k)
  <2>1. b \in 1..Len(P)
    BY <1>3
  <2>2. /\ m[<<b, j>>] <=> RegexStep(P, t, m, <<b, j>>)
        /\ s[<<k, j>>] <=> ShellStep(p, t, s, <<k, j>>)
    <3>1. <<b, j>> \in Grid(Len(P), t) /\ <<k, j>> \in Grid(n + 1, t)
      BY <2>1 DEF Grid, l
    <3>2. QED
      BY <1>4, <1>5, <3>1
  <2>3. CASE k = n + 1
    <3>1. RegexStep(P, t, m, <<b, j>>) <=> j = l + 1
      BY <1>3, <2>3 DEF RegexStep, l
    <3>2. ShellStep(p, t, s, <<k, j>>) <=> j > l
      BY <1>6, <2>3 DEF ShellStep, l, n
    <3>3. QED
      BY <1>6, <2>2, <3>1, <3>2
  <2>4. CASE k \in 1..n
    <3> DEFINE c == p[k]
               e == Start(q, k + 1)
    <3>1. /\ e = b + Len(Convert(c)) /\ (\A d \in 1..Len(Convert(c)) : P[b + d - 1] = Convert(c)[d])
          /\ e \in 1..Len(P) /\ P[e] # "*" /\ c # "\\"
      BY <1>3, <1>6, <2>4
    <3>2. b # Len(P)
      <4>1. Len(Convert(c)) \in 1..2
        BY <1>6, <2>4, ConvertIs
      <4> DEFINE w == Len(Convert(c))
      <4>2. w \in 1..2 /\ e = b + w /\ e \in 1..Len(P)
        BY <3>1, <4>1
      <4> HIDE DEF b, c, e, w
      <4>3. QED
        BY <2>1, <4>2
    <3>3. RegexStep(P, t, m, <<b, j>>) <=> Asks(m, t, c, b, e, j)
      <4>1. b \in Nat /\ j \in Nat
        BY <1>3, <1>6, <2>1
      <4>2. Expresses(P, b, c) /\ c # "\\" /\ e = b + Len(Convert(c))
        BY <3>1 DEF Expresses
      <4> HIDE DEF b, c, e
      <4>3. QED
        BY <3>2, <4>1, <4>2, RegexOnCharacter
    <3>4. ShellStep(p, t, s, <<k, j>>) <=> Asks(s, t, c, k, k + 1, j)
      <4>1. ~(k > n)
        BY <1>6, <2>4
      <4>2. QED
        BY <4>1 DEF ShellStep, Asks, n
    <3>5. /\ m[<<e, j>>] <=> s[<<k + 1, j>>]
          /\ j <= l => (m[<<b, j + 1>>] <=> s[<<k, j + 1>>])
          /\ j <= l => (m[<<e, j + 1>>] <=> s[<<k + 1, j + 1>>])
      <4>1. Agree(k + 1, j)
        BY <1>6, <1>7, <2>4
      <4>2. ASSUME j <= l PROVE Agree(k, j + 1) /\ Agree(k + 1, j + 1)
        BY <1>6, <1>7, <2>4, <4>2
      <4>3. QED
        BY <4>1, <4>2
    <3>6. QED
      <4> HIDE DEF b, c, e
      <4>1. m[<<b, j>>] <=> s[<<k, j>>]
        BY <2>2, <3>3, <3>4, <3>5 DEF Asks, l
      <4>2. QED
        BY <4>1 DEF b
  <2>5. QED
    BY <1>6, <2>3, <2>4
<1> DEFINE N == n + l
           T == {d \in 0..N :
                   \A x \in 1..(n + 1), y \in 1..(l + 1) : x + y >= N + 2 - d => Agree(x, y)}
<1>8. 0 \in T
  <2>1. ASSUME NEW x \in 1..(n + 1), NEW y \in 1..(l + 1), x + y >= N + 2 PROVE Agree(x, y)
    <3>1. x = n + 1 /\ y = l + 1
      BY <1>6, <2>1
    <3>2. \A x1 \in 1..(n + 1), y1 \in 1..(l + 1) : ~(x1 + y1 > x + y)
      BY <1>6, <3>1
    <3> HIDE DEF Agree
    <3>3. QED
      BY <1>7, <3>2
  <2> HIDE DEF Agree
  <2>2. QED
    BY <1>6, <2>1
<1>9. ASSUME NEW d \in 0..(N - 1), d \in T PROVE d + 1 \in T
  <2> HIDE DEF Agree
  <2>1. ASSUME NEW x \in 1..(n + 1), NEW y \in 1..(l + 1), x + y >= N + 2 - (d + 1)
        PROVE  Agree(x, y)
    <3>1. \A x1 \in 1..(n + 1), y1 \in 1..(l + 1) : x1 + y1 > x + y => Agree(x1, y1)
      BY <1>6, <1>9, <2>1
    <3>2. QED
      BY <1>7, <3>1
  <2>2. QED
    BY <1>6, <2>1
<1>10. N \in T
  <2>1. N \in Nat /\ N \in 0..N
    BY <1>6
  <2>2. 0..N \subseteq T
    <3> HIDE DEF N, T
    <3>1. QED
      BY <1>8, <1>9, <2>1, InductionUpTo
  <2> HIDE DEF N, T
  <2>3. QED
    BY <2>1, <2>2
<1>11. Agree(1, 1)
  <2>1. 1 \in 1..(n + 1) /\ 1 \in 1..(l + 1) /\ 1 + 1 >= N + 2 - N
    BY <1>6
  <2> HIDE DEF Agree
  <2>2. QED
    BY <1>10, <2>1
<1>12. m[<<2, 1>>] <=> s[<<1, 1>>]
  BY <1>3, <1>11
<1>13. P[Len(P)] = "$"
  BY <1>3 DEF Closed
<1>14. QED
  BY <1>3, <1>4, <1>5, <1>12, <1>13 DEF P

(* PatternMeaning, for patterns and names of any length.                   *)
THEOREM PatternsMean == Spec => []PatternMeaning
<1>1. PatternMeaning
  <2>1. ASSUME NEW p \in Strings({"*", "?", ".", "c", "[cd]"}), NEW t \in Strings({".", "c", "d"})
        PROVE  RegexMatches(cvtPattern(p), t) <=> ShellMatches(p, t)
    <3>1. p \in Seq({"*", "?", ".", "c", "[cd]"}) /\ t \in Seq({".", "c", "d"})
      BY DEF Strings
    <3>2. {"*", "?", ".", "c", "[cd]"} \cap Operators = {}
      BY DEF Operators
    <3>3. QED
      BY <3>1, <3>2, PatternsAgreeOnNames
  <2>2. QED
    BY <2>1 DEF PatternMeaning, PatternsAgree
<1>2. QED
  BY <1>1, PTL
===============================================================================
