----------------------------- MODULE DataInduction -----------------------------
(***************************************************************************)
(* Induction over the natural numbers, and the recursive functions it      *)
(* makes sense of, stated for sets instead of operators; ranks in a set    *)
(* that is ordered, and parts of sequences.                                *)
(***************************************************************************)
EXTENDS Integers, FiniteSets, FiniteSetTheorems, SequenceTheorems, TLAPS

(* A set of numbers that has 0 and the successor of each of its numbers    *)
(* has all numbers: otherwise the numbers up to a missing one t that it    *)
(* misses would all fit, one lower, into the same set without t.           *)
LEMMA Induction ==
  ASSUME NEW S, 0 \in S, \A k \in Nat : k \in S => k + 1 \in S
  PROVE  Nat \subseteq S
<1>1. SUFFICES ASSUME NEW t \in Nat, t \notin S PROVE FALSE
  OBVIOUS
<1> DEFINE T == {k \in 0..t : k \notin S}
           f == [k \in T |-> k - 1]
<1>2. IsFiniteSet(T) /\ t \in T
  <2>1. IsFiniteSet(0..t)
    BY FS_Interval
  <2>2. QED
    BY <1>1, <2>1, FS_Subset
<1>3. IsFiniteSet(T \ {t}) /\ Cardinality(T \ {t}) = Cardinality(T) - 1 /\ Cardinality(T) \in Nat
  BY <1>2, FS_RemoveElement, FS_CardinalityType
<1>4. ASSUME NEW k \in T PROVE k - 1 \in T \ {t}
  BY <1>1, <1>4
<1>5. f \in [T -> T \ {t}]
  BY <1>4
<1>6. \A j, k \in T : f[j] = f[k] => j = k
  OBVIOUS
<1>7. Cardinality(T \ {t}) < Cardinality(T)
  BY <1>3
<1> HIDE DEF T, f
<1>8. \E j, k \in T : j # k /\ f[j] = f[k]
  BY <1>2, <1>3, <1>5, <1>7, FS_PigeonHole
<1>9. QED
  BY <1>6, <1>8

(* The induction for the first numbers only.                               *)
LEMMA InductionUpTo ==
  ASSUME NEW N \in Nat, NEW S, 0 \in S, \A k \in 0..(N - 1) : k \in S => k + 1 \in S
  PROVE  0..N \subseteq S
<1> DEFINE T == S \cup {k \in Nat : k > N}
<1>1. 0 \in T
  OBVIOUS
<1>2. \A k \in Nat : k \in T => k + 1 \in T
  OBVIOUS
<1>3. Nat \subseteq T
  <2> HIDE DEF T
  <2>1. QED
    BY <1>1, <1>2, Induction
<1>4. QED
  BY <1>3

(* A step may depend on its number, from 1 to N.                           *)
Steps(X, N) == [X \X (1..N) -> X]

(* The N values that steps give one after another, and the first one.      *)
IsRun(f, X, N, c, step) ==
  f \in [0..N -> X] /\ f[0] = c /\ \A k \in 1..N : f[k] = step[<<f[k - 1], k>>]

(* A step from the elements of X to elements of X can be repeated.         *)
LEMMA Recursion ==
  ASSUME NEW N \in Nat, NEW X, NEW c \in X, NEW step \in Steps(X, N)
  PROVE  \E f : IsRun(f, X, N, c, step)
<1> USE DEF Steps
<1> DEFINE Run(n, f) == f[0] = c /\ \A k \in 1..n : f[k] = step[<<f[k - 1], k>>]
           S == {n \in 0..N : \E f \in [0..n -> X] : Run(n, f)}
<1>1. 0 \in S
  <2> DEFINE f == [k \in 0..0 |-> c]
  <2>1. f \in [0..0 -> X] /\ Run(0, f)
    OBVIOUS
  <2>2. \E g \in [0..0 -> X] : Run(0, g)
    <3> HIDE DEF f, Run
    <3>1. QED
      BY <2>1
  <2>3. QED
    BY <2>2
<1>2. ASSUME NEW n \in 0..(N - 1), n \in S PROVE n + 1 \in S
  <2>1. PICK f \in [0..n -> X] : Run(n, f)
    BY <1>2
  <2>2. step[<<f[n], n + 1>>] \in X
    <3>1. f[n] \in X /\ n + 1 \in 1..N
      BY <1>2
    <3>2. QED
      BY <3>1
  <2> DEFINE g == [k \in 0..(n + 1) |-> IF k \in 0..n THEN f[k] ELSE step[<<f[n], n + 1>>]]
  <2>3. g \in [0..(n + 1) -> X]
    BY <2>2
  <2>4. Run(n + 1, g)
    <3>1. g[0] = c
      BY <1>2, <2>1
    <3>2. ASSUME NEW k \in 1..(n + 1) PROVE g[k] = step[<<g[k - 1], k>>]
      <4>1. k - 1 \in 0..n /\ (k \in 1..n \/ k = n + 1)
        BY <1>2
      <4>2. g[k - 1] = f[k - 1]
        BY <1>2, <4>1
      <4>3. CASE k \in 1..n
        <5>1. g[k] = f[k]
          BY <1>2, <4>3
        <5>2. QED
          BY <2>1, <4>2, <4>3, <5>1
      <4>4. CASE k = n + 1
        <5>1. g[k] = step[<<f[n], n + 1>>] /\ k - 1 = n
          BY <1>2, <4>4
        <5>2. QED
          BY <4>2, <4>4, <5>1
      <4>5. QED
        BY <4>1, <4>3, <4>4
    <3>3. QED
      BY <3>1, <3>2
  <2>5. n + 1 \in 0..N
    BY <1>2
  <2>6. QED
    BY <2>3, <2>4, <2>5
<1>3. 0..N \subseteq S
  <2> HIDE DEF S
  <2>1. QED
    BY <1>1, <1>2, InductionUpTo
<1>4. N \in S
  <2>1. N \in 0..N
    OBVIOUS
  <2> HIDE DEF S
  <2>2. QED
    BY <1>3, <2>1
<1>5. QED
  BY <1>4 DEF IsRun

(* The step of every number k leads from X[k - 1] to X[k].                  *)
Leads(X, N, step) == \A k \in 1..N : \A x \in X[k - 1] : step[<<x, k>>] \in X[k]

(* f is the function that a recursion defines.                              *)
Repeats(f, N, c, step) ==
  f = [k \in 0..N |-> IF k = 0 THEN c ELSE step[<<f[k - 1], k>>]]

(* A recursion whose k-th value is in X[k] whenever the one before is in   *)
(* X[k - 1] has a solution, with all its values in their sets.             *)
LEMMA InvariantRecursion ==
  ASSUME NEW N \in Nat, NEW X, NEW c \in X[0], NEW step, Leads(X, N, step)
  PROVE  \E f : Repeats(f, N, c, step) /\ \A k \in 0..N : f[k] \in X[k]
<1> USE DEF Leads
<1> DEFINE U == UNION {X[k] : k \in 0..N}
           total == [p \in U \X (1..N) |-> IF p[1] \in X[p[2] - 1] THEN step[p] ELSE c]
<1>1. c \in U
  OBVIOUS
<1>2. total \in Steps(U, N)
  <2>1. ASSUME NEW p \in U \X (1..N) PROVE (IF p[1] \in X[p[2] - 1] THEN step[p] ELSE c) \in U
    <3>1. p = <<p[1], p[2]>> /\ p[2] \in 1..N /\ p[2] \in 0..N
      OBVIOUS
    <3>2. p[1] \in X[p[2] - 1] => step[p] \in X[p[2]]
      BY <3>1
    <3>3. QED
      BY <1>1, <3>1, <3>2
  <2>2. QED
    BY <2>1 DEF Steps
<1>3. PICK f \in [0..N -> U] : f[0] = c /\ \A k \in 1..N : f[k] = total[<<f[k - 1], k>>]
  <2> HIDE DEF U, total
  <2>1. \E f : IsRun(f, U, N, c, total)
    BY <1>1, <1>2, Recursion
  <2>2. QED
    BY <2>1 DEF IsRun
<1> DEFINE S == {k \in 0..N : f[k] \in X[k] /\ (k > 0 => f[k] = step[<<f[k - 1], k>>])}
<1>4. 0 \in S
  <2>1. 0 \in 0..N /\ ~(0 > 0) /\ f[0] \in X[0]
    BY <1>3
  <2>2. QED
    BY <2>1
<1>5. ASSUME NEW k \in 0..(N - 1), k \in S PROVE k + 1 \in S
  <2>1. k + 1 \in 1..N /\ (k + 1) - 1 = k /\ k \in 0..N
    OBVIOUS
  <2>2. f[k] \in U /\ f[k] \in X[k]
    BY <1>5, <2>1
  <2>3. f[k + 1] = total[<<f[k], k + 1>>]
    BY <1>3, <2>1
  <2>4. f[k + 1] = step[<<f[k], k + 1>>]
    BY <2>1, <2>2, <2>3
  <2>5. f[k + 1] \in X[k + 1]
    BY <2>1, <2>2, <2>4
  <2>6. QED
    BY <2>1, <2>4, <2>5
<1>6. 0..N \subseteq S
  <2> HIDE DEF S
  <2>1. QED
    BY <1>4, <1>5, InductionUpTo
<1>7. \A k \in 0..N : f[k] \in X[k] /\ f[k] = IF k = 0 THEN c ELSE step[<<f[k - 1], k>>]
  <2>1. ASSUME NEW k \in 0..N
        PROVE  f[k] \in X[k] /\ f[k] = IF k = 0 THEN c ELSE step[<<f[k - 1], k>>]
    <3>1. k \in S
      BY <1>6
    <3>2. f[k] \in X[k] /\ (k > 0 => f[k] = step[<<f[k - 1], k>>])
      BY <3>1
    <3>3. QED
      BY <1>3, <3>2
  <2>2. QED
    BY <2>1
<1>8. f = [k \in 0..N |-> IF k = 0 THEN c ELSE step[<<f[k - 1], k>>]]
  <2> HIDE DEF U
  <2>1. QED
    BY <1>7
<1>9. QED
  BY <1>7, <1>8 DEF Repeats

(* The values of any solution are in their sets.                           *)
LEMMA InvariantValues ==
  ASSUME NEW N \in Nat, NEW X, NEW f, f[0] \in X[0],
         \A k \in 1..N : f[k - 1] \in X[k - 1] => f[k] \in X[k]
  PROVE  \A k \in 0..N : f[k] \in X[k]
<1> DEFINE S == {k \in 0..N : f[k] \in X[k]}
<1>1. 0 \in S
  OBVIOUS
<1>2. ASSUME NEW k \in 0..(N - 1), k \in S PROVE k + 1 \in S
  <2>1. k + 1 \in 1..N /\ k + 1 \in 0..N /\ (k + 1) - 1 = k
    OBVIOUS
  <2>2. QED
    BY <1>2, <2>1
<1>3. 0..N \subseteq S
  <2> HIDE DEF S
  <2>1. QED
    BY <1>1, <1>2, InductionUpTo
<1>4. QED
  BY <1>3
-----------------------------------------------------------------------------
(* f and g have the same values below rank k.                              *)
AgreeBelow(f, g, r, k) == \A y \in DOMAIN r : r[y] < k => f[y] = g[y]

(* A step computes a value of X for x from the values of lower rank.       *)
Descends(D, X, r, step) ==
  \A x \in D : \A f, g \in [D -> X] :
    /\ step[<<f, x>>] \in X
    /\ AgreeBelow(f, g, r, r[x]) => step[<<f, x>>] = step[<<g, x>>]

(* The ranks go up to N.                                                   *)
Ranked(D, N, r) == r \in [D -> 0..N]

(* The equation of a recursion over D has a solution with values in X.     *)
Solvable(D, X, step) == \E f \in [D -> X] : \A x \in D : f[x] = step[<<f, x>>]

(* A recursion over ranks up to N has a solution: repeating the step for   *)
(* all of D at once settles the values of one more rank each time.         *)
LEMMA RankedRecursion ==
  ASSUME NEW N \in Nat, NEW D, NEW X, X # {}, NEW r, Ranked(D, N, r), NEW step,
         Descends(D, X, r, step)
  PROVE  Solvable(D, X, step)
<1>1. r \in [D -> 0..N] /\ \E c : c \in X
  BY DEF Ranked
<1> PICK c : c \in X
  BY <1>1
<1> DEFINE F == [D -> X]
           all == [p \in F \X (1..(N + 1)) |-> [x \in D |-> step[<<p[1], x>>]]]
           first == [x \in D |-> c]
<1>2. first \in F
  OBVIOUS
<1>3. all \in Steps(F, N + 1)
  <2>1. ASSUME NEW p \in F \X (1..(N + 1)) PROVE [x \in D |-> step[<<p[1], x>>]] \in F
    <3>1. p[1] \in F
      OBVIOUS
    <3>2. \A x \in D : step[<<p[1], x>>] \in X
      BY <3>1 DEF Descends
    <3>3. QED
      BY <3>2
  <2>2. QED
    BY <2>1 DEF Steps
<1>4. PICK run : IsRun(run, F, N + 1, first, all)
  <2> HIDE DEF F, all, first
  <2>1. QED
    BY <1>2, <1>3, Recursion
<1>5. \A k \in 1..(N + 1) :
        run[k - 1] \in F /\ run[k] \in F /\ run[k] = [x \in D |-> step[<<run[k - 1], x>>]]
  <2>1. ASSUME NEW k \in 1..(N + 1)
        PROVE  run[k - 1] \in F /\ run[k] \in F /\ run[k] = [x \in D |-> step[<<run[k - 1], x>>]]
    <3> DEFINE p == <<run[k - 1], k>>
    <3>1. run[k - 1] \in F /\ run[k] \in F /\ run[k] = all[p]
      <4> HIDE DEF F, all, first
      <4>1. k - 1 \in 0..(N + 1) /\ k \in 0..(N + 1)
        OBVIOUS
      <4>2. QED
        BY <1>4, <4>1 DEF IsRun
    <3>2. p \in F \X (1..(N + 1)) /\ p[1] = run[k - 1]
      BY <3>1
    <3>3. all[p] = [x \in D |-> step[<<p[1], x>>]]
      <4> HIDE DEF F, p
      <4>1. QED
        BY <3>2
    <3>4. QED
      <4> HIDE DEF all
      <4>1. QED
        BY <3>1, <3>2, <3>3
  <2>2. QED
    BY <2>1
<1> DEFINE S == {k \in 0..N : AgreeBelow(run[k], run[k + 1], r, k)}
<1>6. 0 \in S
  BY <1>1 DEF AgreeBelow
<1>7. ASSUME NEW k \in 0..(N - 1), k \in S PROVE k + 1 \in S
  <2>1. AgreeBelow(run[k], run[k + 1], r, k)
    BY <1>7
  <2>2. /\ run[k] \in F /\ run[k + 1] \in F /\ run[k + 1] = [x \in D |-> step[<<run[k], x>>]]
        /\ run[k + 2] = [x \in D |-> step[<<run[k + 1], x>>]]
    <3>1. k + 1 \in 1..(N + 1) /\ k + 2 \in 1..(N + 1) /\ (k + 1) - 1 = k /\ (k + 2) - 1 = k + 1
      OBVIOUS
    <3> HIDE DEF F, all, first, S
    <3>2. QED
      BY <1>5, <3>1
  <2>3. ASSUME NEW y \in D, r[y] < k + 1 PROVE run[k + 1][y] = run[k + 2][y]
    <3>1. AgreeBelow(run[k], run[k + 1], r, r[y])
      BY <1>1, <2>1, <2>3 DEF AgreeBelow
    <3>2. step[<<run[k], y>>] = step[<<run[k + 1], y>>]
      BY <2>2, <3>1 DEF Descends
    <3>3. QED
      BY <2>2, <3>2
  <2>4. AgreeBelow(run[k + 1], run[(k + 1) + 1], r, k + 1)
    BY <1>1, <2>3 DEF AgreeBelow
  <2>5. QED
    BY <2>4
<1>8. 0..N \subseteq S
  <2> HIDE DEF S
  <2>1. QED
    BY <1>6, <1>7, InductionUpTo
<1>9. run[N] \in F /\ run[N + 1] = [x \in D |-> step[<<run[N], x>>]]
  <2>1. N + 1 \in 1..(N + 1) /\ (N + 1) - 1 = N
    OBVIOUS
  <2> HIDE DEF F, all, first, S
  <2>2. QED
    BY <1>5, <2>1
<1>10. \A y \in D : run[N + 1][y] = step[<<run[N + 1], y>>]
  <2>1. ASSUME NEW y \in D PROVE run[N + 1][y] = step[<<run[N + 1], y>>]
    <3>1. AgreeBelow(run[N], run[N + 1], r, r[y])
      <4>1. AgreeBelow(run[N], run[N + 1], r, N)
        BY <1>8
      <4>2. QED
        BY <1>1, <4>1 DEF AgreeBelow
    <3>2. run[N + 1] \in F
      <4>1. N + 1 \in 1..(N + 1)
        OBVIOUS
      <4> HIDE DEF F, all, first, S
      <4>2. QED
        BY <1>5, <4>1
    <3>3. step[<<run[N], y>>] = step[<<run[N + 1], y>>]
      BY <1>9, <3>1, <3>2 DEF Descends
    <3>4. QED
      BY <1>9, <3>3
  <2>2. QED
    BY <2>1
<1>11. QED
  <2>1. N + 1 \in 1..(N + 1)
    OBVIOUS
  <2>2. run[N + 1] \in F
    <3> HIDE DEF F, all, first, S
    <3>1. QED
      BY <1>5, <2>1
  <2>3. QED
    BY <1>10, <2>2 DEF Solvable
-----------------------------------------------------------------------------
(* A set of numbers that is not empty has a least one.                     *)
LEMMA Least ==
  ASSUME NEW S \in SUBSET Nat, NEW s \in S
  PROVE  \E m \in S : \A k \in S : m <= k
<1>1. SUFFICES ASSUME \A m \in S : \E k \in S : k < m PROVE FALSE
  OBVIOUS
<1> DEFINE T == {n \in Nat : \A k \in S : n <= k}
<1>2. 0 \in T
  OBVIOUS
<1>3. ASSUME NEW n \in Nat, n \in T PROVE n + 1 \in T
  <2>1. n \notin S
    BY <1>1, <1>3
  <2>2. QED
    BY <1>3, <2>1
<1>4. s + 1 \in Nat
  OBVIOUS
<1>5. Nat \subseteq T
  <2> HIDE DEF T
  <2>1. QED
    BY <1>2, <1>3, Induction
<1>6. s + 1 \in T
  BY <1>4, <1>5
<1>7. QED
  BY <1>6

(* R orders S.                                                             *)
Orders(R, S) ==
  /\ \A p \in S : <<p, p>> \notin R
  /\ \A p, q, r \in S : <<p, q>> \in R /\ <<q, r>> \in R => <<p, r>> \in R
  /\ \A p, q \in S : p = q \/ <<p, q>> \in R \/ <<q, p>> \in R

\* How many elements of S are before p.
Rank(R, S, p) == Cardinality({q \in S : <<q, p>> \in R})

(* The ranks of a set's elements are all the numbers below its             *)
(* cardinality, in the order of the elements.                              *)
LEMMA Ranks ==
  ASSUME NEW S, IsFiniteSet(S), NEW R, Orders(R, S)
  PROVE  /\ \A p \in S : Rank(R, S, p) \in 0..(Cardinality(S) - 1)
         /\ \A p, q \in S : Rank(R, S, p) < Rank(R, S, q) <=> <<p, q>> \in R
         /\ \A i \in 0..(Cardinality(S) - 1) : \E p \in S : Rank(R, S, p) = i
<1> DEFINE n == Cardinality(S)
           Lower(p) == {q \in S : <<q, p>> \in R}
           r(p) == Rank(R, S, p)
<1>1. n \in Nat
  BY FS_CardinalityType
<1>2. ASSUME NEW p \in S
      PROVE  IsFiniteSet(Lower(p)) /\ r(p) \in 0..(n - 1) /\ r(p) = Cardinality(Lower(p))
             /\ r(p) \in Nat
  <2> USE DEF Rank
  <2>1. Lower(p) \subseteq S /\ p \notin Lower(p)
    BY DEF Orders
  <2>2. IsFiniteSet(Lower(p)) /\ r(p) <= n /\ r(p) # n
    BY <2>1, FS_Subset
  <2>3. r(p) \in Nat
    BY <2>2, FS_CardinalityType
  <2>4. QED
    BY <1>1, <2>2, <2>3
<1>3. ASSUME NEW p \in S, NEW q \in S, <<p, q>> \in R
      PROVE  r(p) < r(q)
  <2>1. Lower(p) \subseteq Lower(q) /\ p \in Lower(q) /\ p \notin Lower(p)
    BY <1>3 DEF Orders
  <2>2. r(p) <= r(q) /\ r(p) # r(q)
    <3>1. IsFiniteSet(Lower(q)) /\ Lower(p) \in SUBSET Lower(q) /\ Lower(p) # Lower(q)
      BY <1>2, <2>1
    <3>2. r(p) = Cardinality(Lower(p)) /\ r(q) = Cardinality(Lower(q))
      BY <1>2
    <3> HIDE DEF Lower, r
    <3>3. QED
      BY <3>1, <3>2, FS_Subset
  <2>3. r(p) \in Nat /\ r(q) \in Nat
    BY <1>2
  <2> HIDE DEF r
  <2>4. QED
    BY <2>2, <2>3
<1>4. ASSUME NEW p \in S, NEW q \in S, r(p) < r(q)
      PROVE  <<p, q>> \in R
  <2>1. ~(r(q) < r(p)) /\ p # q
    <3>1. r(p) \in Nat /\ r(q) \in Nat
      BY <1>2
    <3> HIDE DEF r
    <3>2. QED
      BY <1>4, <3>1
  <2>2. <<q, p>> \notin R
    BY <1>3, <2>1
  <2>3. QED
    BY <2>1, <2>2 DEF Orders
<1>5. ASSUME NEW i \in 0..(n - 1) PROVE \E p \in S : r(p) = i
  <2>1. SUFFICES ASSUME \A p \in S : r(p) # i PROVE FALSE
    OBVIOUS
  <2> DEFINE T == (0..(n - 1)) \ {i}
             f == [p \in S |-> r(p)]
  <2>2. IsFiniteSet(0..(n - 1)) /\ Cardinality(0..(n - 1)) = n
    BY <1>1, FS_Interval
  <2>3. IsFiniteSet(T) /\ Cardinality(T) = n - 1
    BY <2>2, FS_RemoveElement
  <2>4. f \in [S -> T]
    <3>1. \A p \in S : r(p) \in T
      BY <1>2, <2>1
    <3> HIDE DEF T
    <3>2. QED
      BY <3>1
  <2>5. Cardinality(T) < Cardinality(S)
    BY <1>1, <2>3
  <2>6. PICK p \in S, q \in S : p # q /\ f[p] = f[q]
    <3> HIDE DEF T, f
    <3>1. QED
      BY <2>3, <2>4, <2>5, FS_PigeonHole
  <2>7. r(p) = r(q) /\ p # q
    BY <2>6
  <2>8. <<p, q>> \in R \/ <<q, p>> \in R
    BY <2>7 DEF Orders
  <2>9. r(p) < r(q) \/ r(q) < r(p)
    BY <1>3, <2>8
  <2>10. r(p) \in Nat /\ r(q) \in Nat
    BY <1>2
  <2> HIDE DEF r
  <2>11. QED
    BY <2>7, <2>9, <2>10
<1>6. QED
  BY <1>2, <1>3, <1>4, <1>5

(* The i-th of a set of numbers.                                           *)
UpTo(S, k) == {x \in S : x <= k}
Ith(S, i) == CHOOSE k \in S : Cardinality(UpTo(S, k)) = i

LEMMA IthIs ==
  ASSUME NEW S, S \subseteq Nat, IsFiniteSet(S)
  PROVE  /\ \A k \in S : Cardinality(UpTo(S, k)) \in 1..Cardinality(S)
         /\ \A i \in 1..Cardinality(S) :
              /\ Ith(S, i) \in S /\ Cardinality(UpTo(S, Ith(S, i))) = i
              /\ \A k \in S : Cardinality(UpTo(S, k)) = i => k = Ith(S, i)
<1> DEFINE R == {z \in Nat \X Nat : z[1] < z[2]}
           n == Cardinality(S)
           r(k) == Rank(R, S, k)
           c(k) == Cardinality(UpTo(S, k))
<1>1. n \in Nat
  BY FS_CardinalityType
<1>2. \A x, y \in S : <<x, y>> \in R <=> x < y
  OBVIOUS
<1>3. Orders(R, S)
  <2> HIDE DEF R
  <2>1. \A x \in S : x \in Nat
    OBVIOUS
  <2>2. \A p \in S : <<p, p>> \notin R
    BY <1>2, <2>1
  <2>3. \A p, q, s \in S : <<p, q>> \in R /\ <<q, s>> \in R => <<p, s>> \in R
    <3>1. \A p, q, s \in S : p < q /\ q < s => p < s
      BY <2>1
    <3>2. QED
      BY <1>2, <3>1
  <2>4. \A p, q \in S : p = q \/ <<p, q>> \in R \/ <<q, p>> \in R
    <3>1. \A p, q \in S : p = q \/ p < q \/ q < p
      BY <2>1
    <3>2. QED
      BY <1>2, <3>1
  <2>5. QED
    BY <2>2, <2>3, <2>4 DEF Orders
<1>4. /\ \A k \in S : r(k) \in 0..(n - 1)
      /\ \A x, y \in S : r(x) < r(y) <=> <<x, y>> \in R
      /\ \A i \in 0..(n - 1) : \E k \in S : r(k) = i
  <2> HIDE DEF R, n, r, c
  <2>1. IsFiniteSet(S) /\ Orders(R, S)
    BY <1>3
  <2>2. /\ \A k \in S : Rank(R, S, k) \in 0..(Cardinality(S) - 1)
        /\ \A x, y \in S : Rank(R, S, x) < Rank(R, S, y) <=> <<x, y>> \in R
        /\ \A i \in 0..(Cardinality(S) - 1) : \E k \in S : Rank(R, S, k) = i
    BY ONLY <2>1, Ranks
  <2>3. QED
    BY <2>2 DEF n, r
<1>5. ASSUME NEW k \in S PROVE c(k) = r(k) + 1
  <2> DEFINE T == {x \in S : <<x, k>> \in R}
  <2>1. IsFiniteSet(T) /\ k \notin T /\ UpTo(S, k) = T \cup {k}
    <3>1. IsFiniteSet(T)
      BY FS_Subset
    <3>2. \A x \in S : x <= k <=> x < k \/ x = k
      OBVIOUS
    <3>3. \A x \in S : x <= k <=> x \in T \/ x = k
      BY <1>2, <3>2
    <3>4. k \notin T
      BY <1>2
    <3> HIDE DEF T
    <3>5. T \subseteq S
      BY DEF T
    <3>6. QED
      BY <3>1, <3>3, <3>4, <3>5 DEF UpTo
  <2>2. Cardinality(T \cup {k}) = Cardinality(T) + 1
    <3> HIDE DEF T
    <3>1. QED
      BY <2>1, FS_AddElement
  <2>3. QED
    BY <2>1, <2>2 DEF Rank
<1> HIDE DEF c, r, R, n
<1>6. \A k \in S : c(k) \in 1..n
  BY <1>1, <1>4, <1>5
<1>7. ASSUME NEW i \in 1..n
      PROVE  /\ Ith(S, i) \in S /\ c(Ith(S, i)) = i
             /\ \A k \in S : c(k) = i => k = Ith(S, i)
  <2>1. i - 1 \in 0..(n - 1) /\ (i - 1) + 1 = i
    BY <1>1
  <2>2. \E k \in S : c(k) = i
    BY <1>4, <1>5, <2>1
  <2>3. Ith(S, i) \in S /\ c(Ith(S, i)) = i
    BY <2>2 DEF Ith, c
  <2>4. ASSUME NEW x \in S, NEW y \in S, c(x) = c(y) PROVE x = y
    <3>1. r(x) = r(y) /\ r(x) \in Nat
      BY <1>1, <1>4, <1>5, <2>4
    <3>2. <<x, y>> \notin R /\ <<y, x>> \notin R
      BY <1>4, <3>1
    <3>3. x \in Nat /\ y \in Nat /\ ~(x < y) /\ ~(y < x)
      BY <1>2, <3>2
    <3>4. QED
      BY <3>3
  <2>5. QED
    BY <2>3, <2>4
<1>8. QED
  BY <1>6, <1>7 DEF c, n

-----------------------------------------------------------------------------
(* The beginnings of a sequence that one element was appended to.          *)
LEMMA Beginnings ==
  ASSUME NEW s \in Seq(Nat), NEW e \in Nat
  PROVE  /\ \A k \in 0..Len(s) : SubSeq(Append(s, e), 1, k) = SubSeq(s, 1, k)
         /\ SubSeq(Append(s, e), 1, Len(s)) = s
<1>1. <<e>> \in Seq(Nat) /\ Append(s, e) = s \o <<e>> /\ Len(s) \in Nat
  BY AppendIsConcat, LenProperties
<1>2. ASSUME NEW k \in 0..Len(s) PROVE SubSeq(Append(s, e), 1, k) = SubSeq(s, 1, k)
  <2>1. CASE k = 0
    <3>1. 1 \in Int /\ 0 \in Int /\ 0 < 1
      OBVIOUS
    <3>2. SubSeq(Append(s, e), 1, 0) = << >> /\ SubSeq(s, 1, 0) = << >>
      BY <3>1, SubSeqEmpty
    <3>3. QED
      BY <2>1, <3>2
  <2>2. CASE k # 0
    <3>1. k \in 1..Len(s) /\ 1 \in 1..Len(s)
      BY <1>1, <2>2
    <3>2. SubSeq(s \o <<e>>, 1, k) = SubSeq(s, 1, k)
      BY <1>1, <3>1, SubSeqOfConcat1
    <3>3. QED
      BY <1>1, <3>2
  <2>3. QED
    BY <2>1, <2>2
<1>3. Len(s) \in 0..Len(s) /\ SubSeq(s, 1, Len(s)) = s
  BY <1>1, SubSeqFull
<1>4. QED
  BY <1>2, <1>3

\* A sequence that is not empty: all but its end, and its end.
LEMMA Ending ==
  ASSUME NEW s \in Seq(Nat), s # << >>
  PROVE  /\ SubSeq(s, 1, Len(s) - 1) \in Seq(Nat) /\ s[Len(s)] \in Nat /\ Len(s) \in Nat \ {0}
         /\ Len(SubSeq(s, 1, Len(s) - 1)) = Len(s) - 1
         /\ s = Append(SubSeq(s, 1, Len(s) - 1), s[Len(s)])
<1>1. PICK t \in Seq(Nat), e \in Nat : s = Append(t, e)
  BY SequenceEmptyOrAppend
<1>2. Len(t) \in Nat /\ Len(s) = Len(t) + 1 /\ s[Len(t) + 1] = e
  BY <1>1, AppendProperties, LenProperties
<1>3. SubSeq(s, 1, Len(t)) = t /\ Len(s) - 1 = Len(t)
  BY <1>1, <1>2, Beginnings
<1>4. QED
  BY <1>1, <1>2, <1>3

(* The two parts of a concatenation.                                       *)
LEMMA Parts ==
  ASSUME NEW S, NEW s \in Seq(S), NEW t \in Seq(S)
  PROVE  /\ SubSeq(s \o t, 1, Len(s)) = s
         /\ SubSeq(s \o t, Len(s) + 1, Len(s \o t)) = t
<1>1. Len(s) \in Nat /\ Len(t) \in Nat /\ s \o t \in Seq(S) /\ Len(s \o t) = Len(s) + Len(t)
  OBVIOUS
<1>2. SubSeq(s \o t, 1, Len(s)) = s
  <2>1. CASE s = << >>
    <3>1. Len(s) = 0 /\ 1 \in Int /\ 0 \in Int /\ 0 < 1
      BY <2>1
    <3>2. QED
      BY <2>1, <3>1, SubSeqEmpty
  <2>2. CASE s # << >>
    <3>1. Len(s) \in 1..Len(s) /\ 1 \in 1..Len(s)
      BY <2>2, EmptySeq
    <3>2. SubSeq(s \o t, 1, Len(s)) = SubSeq(s, 1, Len(s))
      BY <3>1, SubSeqOfConcat1
    <3>3. QED
      BY <3>2, SubSeqFull
  <2>3. QED
    BY <2>1, <2>2
<1>3. SubSeq(s \o t, Len(s) + 1, Len(s \o t)) = t
  <2>1. CASE t = << >>
    <3>1. Len(s \o t) < Len(s) + 1 /\ Len(s) + 1 \in Int /\ Len(s \o t) \in Int
      BY <1>1, <2>1
    <3>2. QED
      BY <2>1, <3>1, SubSeqEmpty
  <2>2. CASE t # << >>
    <3>1. Len(t) \in Nat \ {0}
      BY <2>2, EmptySeq
    <3>2. /\ Len(s) + 1 \in (Len(s) + 1)..(Len(s) + Len(t))
          /\ Len(s) + Len(t) \in (Len(s) + 1)..(Len(s) + Len(t))
          /\ (Len(s) + 1) - Len(s) = 1 /\ (Len(s) + Len(t)) - Len(s) = Len(t)
      BY <1>1, <3>1
    <3>3. SubSeq(s \o t, Len(s) + 1, Len(s) + Len(t)) = SubSeq(t, 1, Len(t))
      BY <3>2, SubSeqOfConcat2
    <3>4. QED
      BY <1>1, <3>3, SubSeqFull
  <2>3. QED
    BY <2>1, <2>2
<1>4. QED
  BY <1>2, <1>3
=============================================================================
