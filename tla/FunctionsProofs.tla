--------------------------- MODULE FunctionsProofs ---------------------------
(***************************************************************************)
(* Theorems about five components that compute a result from what they     *)
(* are given.  Images: of pictures of every size, every pixel of a         *)
(* conversion is the right one.  ModelScan: of partitions of every size,   *)
(* the models listed are those that were flashed.  Algorithms: of models   *)
(* of every shape, what an algorithm that accepts the model fills, reads   *)
(* and scales.  Results: of lists of every length, what non-maximum        *)
(* suppression leaves and what the filter reports.  LineEditor: of keys    *)
(* and histories of every number, the line that Enter executes.            *)
(***************************************************************************)
EXTENDS Images, ModelScan, Algorithms, Results, LineEditor, FiniteSetTheorems,
        FunctionTheorems, SequenceTheorems, WellFoundedInduction, TLAPS

-----------------------------------------------------------------------------
(* Integers *)

\* Euclid's division, and that it is the only one.
LEMMA Division ==
  ASSUME NEW x \in Int, NEW n \in Nat \ {0}
  PROVE  /\ x \div n \in Int
         /\ x % n \in 0 .. n - 1
         /\ x = (x \div n) * n + (x % n)
  BY Z3

LEMMA Product ==
  ASSUME NEW a \in Int, NEW n \in Nat \ {0}, a > 0
  PROVE  a * n >= n
  BY Z3

LEMMA DivisionUnique ==
  ASSUME NEW n \in Nat \ {0}, NEW q \in Int, NEW r \in 0 .. n - 1
  PROVE  /\ (q * n + r) \div n = q
         /\ (q * n + r) % n = r
<1> DEFINE x == q * n + r
           p == x \div n
           t == x % n
<1>1. x \in Int /\ q * n \in Int
  OBVIOUS
<1>2. p \in Int /\ t \in 0 .. n - 1 /\ x = p * n + t
  BY <1>1, Division
<1>3. (p - q) * n = r - t
  <2>1. (p - q) * n = p * n - q * n
    BY <1>2
  <2> QED
    BY <1>1, <1>2, <2>1
<1>4. ~(p - q > 0)
  <2> SUFFICES ASSUME p - q > 0 PROVE FALSE
    OBVIOUS
  <2>1. (p - q) * n >= n
    BY <1>2, Product
  <2> QED
    BY <1>2, <1>3, <2>1
<1>5. ~(q - p > 0)
  <2> SUFFICES ASSUME q - p > 0 PROVE FALSE
    OBVIOUS
  <2>1. (q - p) * n >= n
    BY <1>2, Product
  <2>2. (q - p) * n = t - r
    <3>1. (q - p) * n = q * n - p * n
      BY <1>2
    <3> QED
      BY <1>1, <1>2, <3>1
  <2> QED
    BY <1>2, <2>1, <2>2
<1>6. p = q
  BY <1>2, <1>4, <1>5
<1> QED
  BY <1>2, <1>3, <1>6

\* A set of natural numbers that is not empty has a least element.
LEMMA LeastElement ==
  ASSUME NEW S, S \subseteq Nat, S # {}
  PROVE  \E x \in S : \A y \in S : x <= y
<1> DEFINE R == OpToRel(<, Nat)
<1>1. IsWellFoundedOn(R, Nat)
  BY NatLessThanWellFounded
<1>2. ASSUME NEW x \in S, NEW y \in S, y < x
      PROVE  <<y, x>> \in R
  BY <1>2 DEF OpToRel
<1> HIDE DEF R
<1>3. PICK x \in S : \A y \in S : ~ (<<y, x>> \in R)
  BY <1>1, WFMin
<1>4. \A y \in S : ~(y < x)
  BY <1>3, <1>2
<1>5. \A y \in S : x <= y
  <2> TAKE y \in S
  <2>1. ~(y < x) /\ x \in Nat /\ y \in Nat
    BY <1>4
  <2> QED
    BY <2>1
<1> QED
  BY <1>5

\* A function by recursion over 0 .. n, its step given as a function.
Recurs(f, n, S, a, g) ==
  /\ f \in [0 .. n -> S]
  /\ f = [i \in 0 .. n |-> IF i = 0 THEN a ELSE g[i][f[i - 1]]]

LEMMA Recursion ==
  ASSUME NEW n \in Nat, NEW S, NEW a \in S, NEW g \in [1 .. n -> [S -> S]]
  PROVE  \E f : Recurs(f, n, S, a, g)
<1> DEFINE Good(f, m) == /\ f \in [0 .. m -> S]
                         /\ f[0] = a
                         /\ \A i \in 1 .. m : f[i] = g[i][f[i - 1]]
           Bad == {m \in 0 .. n : ~\E f : Good(f, m)}
<1>1. Bad = {}
  <2> SUFFICES ASSUME Bad # {} PROVE FALSE
    OBVIOUS
  <2>1. PICK m \in Bad : \A l \in Bad : m <= l
    <3>1. Bad \subseteq Nat
      OBVIOUS
    <3> HIDE DEF Bad
    <3> QED
      BY <3>1, LeastElement
  <2>2. CASE m = 0
    <3> DEFINE f == [i \in 0 .. 0 |-> a]
    <3>1. Good(f, 0)
      OBVIOUS
    <3> HIDE DEF Good
    <3> QED
      BY <2>1, <2>2, <3>1
  <2>3. CASE m # 0
    <3>1. m \in 1 .. n /\ m - 1 \in 0 .. n /\ m - 1 \notin Bad
      <4>1. m \in 0 .. n
        BY <2>1
      <4> HIDE DEF Bad
      <4>2. m - 1 \notin Bad
        BY <2>1, <4>1
      <4> QED
        BY <2>3, <4>1, <4>2
    <3>2. PICK h : Good(h, m - 1)
      BY <3>1
    <3> DEFINE f == [i \in 0 .. m |-> IF i = m THEN g[m][h[m - 1]] ELSE h[i]]
    <3>3. /\ h \in [0 .. m - 1 -> S] /\ h[0] = a
          /\ \A i \in 1 .. m - 1 : h[i] = g[i][h[i - 1]]
      BY <3>2
    <3>4. m - 1 \in 0 .. m - 1 /\ \A i \in 0 .. m : i # m => i \in 0 .. m - 1
      BY <3>1
    <3>5. g[m][h[m - 1]] \in S
      BY <3>1, <3>3, <3>4
    <3>6. f \in [0 .. m -> S] /\ f[0] = a
      BY <2>3, <3>1, <3>3, <3>4, <3>5
    <3>7. ASSUME NEW i \in 1 .. m
          PROVE  f[i] = g[i][f[i - 1]]
      <4>1. i \in 0 .. m /\ i - 1 \in 0 .. m /\ i - 1 # m
        BY <3>1
      <4>2. f[i - 1] = h[i - 1]
        BY <4>1
      <4>3. CASE i = m
        BY <4>1, <4>2, <4>3
      <4>4. CASE i # m
        <5>1. i \in 1 .. m - 1
          BY <3>1, <4>4
        <5> QED
          BY <3>3, <4>1, <4>2, <4>4, <5>1
      <4> QED
        BY <4>3, <4>4
    <3> HIDE DEF f
    <3>8. Good(f, m)
      BY <3>6, <3>7
    <3> QED
      BY <2>1, <3>8
  <2> QED
    BY <2>2, <2>3
<1>2. n \in 0 .. n
  OBVIOUS
<1>3. PICK f : Good(f, n)
  BY <1>1, <1>2
<1>4. \A i \in 0 .. n : f[i] = IF i = 0 THEN a ELSE g[i][f[i - 1]]
  BY <1>3
<1>5. f = [i \in 0 .. n |-> f[i]]
  BY <1>3
<1>6. f = [i \in 0 .. n |-> IF i = 0 THEN a ELSE g[i][f[i - 1]]]
  BY <1>4, <1>5
<1> QED
  BY <1>3, <1>6 DEF Recurs

-----------------------------------------------------------------------------
(* Images: where the pixels go. *)

\* A row and a column give a cell, and no other pair gives the same.
LEMMA CellOf ==
  ASSUME NEW w \in Nat \ {0}, NEW h \in Nat \ {0}, NEW r \in 0 .. h - 1, NEW c \in 0 .. w - 1
  PROVE  /\ r * w + c \in 0 .. w * h - 1
         /\ (r * w + c) \div w = r
         /\ (r * w + c) % w = c
<1>1. r * w + c >= 0
  <2>1. r * w >= 0
    BY Z3
  <2> QED
    BY <2>1
<1>2. r * w + w <= w * h
  <2>1. (h - 1 - r) * w >= 0
    BY Z3
  <2>2. (h - 1 - r) * w = h * w - w - r * w
    OBVIOUS
  <2> QED
    BY <2>1, <2>2
<1>3. r * w \in Int /\ w * h \in Int
  OBVIOUS
<1>4. r * w + c \in 0 .. w * h - 1
  BY <1>1, <1>2, <1>3
<1> QED
  BY <1>4, DivisionUnique

LEMMA CellsOf ==
  ASSUME NEW w \in Nat \ {0}, NEW h \in Nat \ {0}, NEW k \in 0 .. w * h - 1
  PROVE  /\ k \div w \in 0 .. h - 1
         /\ k % w \in 0 .. w - 1
         /\ k = (k \div w) * w + (k % w)
<1> DEFINE q == k \div w
           r == k % w
<1>1. w * h \in Int
  OBVIOUS
<1>2. k \in Int /\ 0 <= k /\ k < w * h
  BY <1>1
<1>3. q \in Int /\ r \in 0 .. w - 1 /\ k = q * w + r
  BY <1>2, Division
<1> HIDE DEF q, r
<1>4. q >= 0
  <2> SUFFICES ASSUME 0 - q > 0 PROVE FALSE
    BY <1>3
  <2>1. (0 - q) * w >= w
    BY <1>3, Product
  <2>2. (0 - q) * w = 0 - q * w
    BY <1>3
  <2>3. q * w \in Int
    BY <1>3
  <2> QED
    BY <1>2, <1>3, <2>1, <2>2, <2>3
<1>5. q <= h - 1
  <2> SUFFICES ASSUME q - h + 1 > 0 PROVE FALSE
    BY <1>3
  <2>1. (q - h + 1) * w >= w
    BY <1>3, Product
  <2>2. (q - h + 1) * w = q * w - w * h + w
    BY <1>3
  <2>3. q * w \in Int
    BY <1>3
  <2> QED
    BY <1>1, <1>2, <1>3, <2>1, <2>2, <2>3
<1>6. q \in 0 .. h - 1 /\ r \in 0 .. w - 1 /\ k = q * w + r
  BY <1>3, <1>4, <1>5
<1> QED
  BY <1>6 DEF q, r

\* The place the loops compute for a rotation is that of the picture turned by quarters.
LEMMA TurnedIsTurn ==
  ASSUME NEW w \in Nat \ {0}, NEW h \in Nat \ {0}, NEW n \in Rotations,
         NEW i \in 0 .. h - 1, NEW j \in 0 .. w - 1
  PROVE  /\ Place(Turn(n, [r |-> i, c |-> j, w |-> w, h |-> h])) = Turned(n, w, h, i, j)
         /\ Turned(n, w, h, i, j) \in 0 .. w * h - 1
<1> DEFINE t == [r |-> i, c |-> j, w |-> w, h |-> h]
           t1 == [r |-> j, c |-> h - 1 - i, w |-> h, h |-> w]
           t2 == [r |-> h - 1 - i, c |-> w - 1 - j, w |-> w, h |-> h]
           t3 == [r |-> w - 1 - j, c |-> i, w |-> h, h |-> w]
<1>1. Quarter(t) = t1 /\ Quarter(t1) = t2
  BY DEF Quarter
<1>2. Quarter(t2) = t3
  <2>1. h - 1 - (h - 1 - i) = i
    OBVIOUS
  <2> QED
    BY <2>1 DEF Quarter
<1>3. w * h = h * w
  OBVIOUS
<1>4. CASE n = 0
  <2>1. Turn(n, t) = t /\ Place(t) = i * w + j
    BY <1>4 DEF Turn, Place
  <2>2. Turned(n, w, h, i, j) = i * w + j
    BY <1>4 DEF Turned
  <2> QED
    BY <2>1, <2>2, CellOf
<1>5. CASE n = 1
  <2>1. Turn(n, t) = t1
    BY <1>1, <1>5 DEF Turn
  <2>2. Place(t1) = j * h + (h - 1 - i)
    BY DEF Place
  <2>3. Turned(n, w, h, i, j) = j * h + (h - 1 - i)
    BY <1>5 DEF Turned
  <2>4. h - 1 - i \in 0 .. h - 1
    OBVIOUS
  <2>5. j * h + (h - 1 - i) \in 0 .. h * w - 1
    BY <2>4, CellOf
  <2> HIDE DEF t, t1, t2, t3
  <2>6. Place(Turn(n, t)) = Turned(n, w, h, i, j)
    BY <2>1, <2>2, <2>3
  <2> QED
    BY <1>3, <2>3, <2>5, <2>6 DEF t
<1>6. CASE n = 2
  <2>1. Turn(n, t) = t2
    BY <1>1, <1>6 DEF Turn
  <2>2. Place(t2) = (h - 1 - i) * w + (w - 1 - j)
    BY DEF Place
  <2>3. Turned(n, w, h, i, j) = (w - 1 - j) + (h - 1 - i) * w
    BY <1>6 DEF Turned
  <2>4. h - 1 - i \in 0 .. h - 1 /\ w - 1 - j \in 0 .. w - 1
    OBVIOUS
  <2>5. (h - 1 - i) * w + (w - 1 - j) \in 0 .. w * h - 1
    BY <2>4, CellOf
  <2>6. (h - 1 - i) * w + (w - 1 - j) = (w - 1 - j) + (h - 1 - i) * w
    OBVIOUS
  <2> HIDE DEF t, t1, t2, t3
  <2>7. Place(Turn(n, t)) = Turned(n, w, h, i, j)
    BY <2>1, <2>2, <2>3, <2>6
  <2> QED
    BY <2>3, <2>5, <2>6, <2>7 DEF t
<1>7. CASE n = 3
  <2>1. Turn(n, t) = t3
    BY <1>1, <1>2, <1>7 DEF Turn
  <2>2. Place(t3) = (w - 1 - j) * h + i
    BY DEF Place
  <2>3. Turned(n, w, h, i, j) = (w - 1 - j) * h + i
    BY <1>7 DEF Turned
  <2>4. w - 1 - j \in 0 .. w - 1
    OBVIOUS
  <2>5. (w - 1 - j) * h + i \in 0 .. h * w - 1
    BY <2>4, CellOf
  <2> HIDE DEF t, t1, t2, t3
  <2>6. Place(Turn(n, t)) = Turned(n, w, h, i, j)
    BY <2>1, <2>2, <2>3
  <2> QED
    BY <1>3, <2>3, <2>5, <2>6 DEF t
<1> QED
  BY <1>4, <1>5, <1>6, <1>7 DEF Rotations

\* Two pixels are never put into one cell.
LEMMA TurnedOnce ==
  ASSUME NEW w \in Nat \ {0}, NEW h \in Nat \ {0}, NEW n \in Rotations,
         NEW i \in 0 .. h - 1, NEW j \in 0 .. w - 1, NEW k \in 0 .. h - 1, NEW l \in 0 .. w - 1,
         Turned(n, w, h, i, j) = Turned(n, w, h, k, l)
  PROVE  i = k /\ j = l
<1>1. CASE n = 0
  <2>1. i * w + j = k * w + l
    BY <1>1 DEF Turned
  <2> QED
    BY <2>1, CellOf
<1>2. CASE n = 1
  <2>1. j * h + (h - 1 - i) = l * h + (h - 1 - k)
    BY <1>2 DEF Turned
  <2>2. h - 1 - i \in 0 .. h - 1 /\ h - 1 - k \in 0 .. h - 1
    OBVIOUS
  <2>3. j = l /\ h - 1 - i = h - 1 - k
    BY <2>1, <2>2, CellOf
  <2> QED
    BY <2>3
<1>3. CASE n = 2
  <2>1. (w - 1 - j) + (h - 1 - i) * w = (w - 1 - l) + (h - 1 - k) * w
    BY <1>3 DEF Turned
  <2>2. /\ h - 1 - i \in 0 .. h - 1 /\ h - 1 - k \in 0 .. h - 1
        /\ w - 1 - j \in 0 .. w - 1 /\ w - 1 - l \in 0 .. w - 1
    OBVIOUS
  <2>3. (h - 1 - i) * w + (w - 1 - j) = (h - 1 - k) * w + (w - 1 - l)
    BY <2>1
  <2>4. w - 1 - j = w - 1 - l /\ h - 1 - i = h - 1 - k
    BY <2>2, <2>3, CellOf
  <2> QED
    BY <2>4
<1>4. CASE n = 3
  <2>1. (w - 1 - j) * h + i = (w - 1 - l) * h + k
    BY <1>4 DEF Turned
  <2>2. w - 1 - j \in 0 .. w - 1 /\ w - 1 - l \in 0 .. w - 1
    OBVIOUS
  <2>3. w - 1 - j = w - 1 - l /\ i = k
    BY <2>1, <2>2, CellOf
  <2> QED
    BY <2>3
<1> QED
  BY <1>1, <1>2, <1>3, <1>4 DEF Rotations

\* Rounding down, a position of the destination stands for one of the source.
LEMMA ScaledDown ==
  ASSUME NEW d \in Nat \ {0}, NEW s \in Nat \ {0}, NEW j \in 0 .. d - 1
  PROVE  (j * s) \div d \in 0 .. s - 1
<1>1. s * d = d * s /\ j * s \in Int /\ d * s \in Int
  OBVIOUS
<1>2. j * s >= 0
  BY Z3
<1>3. j * s < d * s
  <2>1. (d - j) * s >= s
    BY Product
  <2>2. (d - j) * s = d * s - j * s
    OBVIOUS
  <2> QED
    BY <1>1, <2>1, <2>2
<1>4. j * s \in 0 .. d * s - 1
  BY <1>1, <1>2, <1>3
<1> QED
  BY <1>4, CellsOf

\* The fixed point rounds twice, and is at most one sample behind.  Of the products only
\* their sums count: Ad stands for A * d, and so on.
LEMMA TwoRoundings ==
  ASSUME NEW K \in Nat \ {0}, NEW d \in Nat \ {0}, NEW c \in 0 .. d - 1, NEW e \in Int,
         NEW jr \in Nat, NEW td \in Nat
  PROVE  /\ jr <= d * (K - 1) /\ td <= d * (K - 1) /\ e * K = jr + td - c * K
         => e < 2 * d /\ 0 - e < d
<1> DEFINE eK == e * K
           dK == d * K
           cK == c * K
<1>1. eK \in Int /\ dK \in Int /\ cK \in Int /\ d * (K - 1) = dK - d
  OBVIOUS
<1>2. cK >= 0 /\ dK - K - cK >= 0
  <2>1. c * K >= 0 /\ (d - 1 - c) * K >= 0
    BY Z3
  <2>2. (d - 1 - c) * K = d * K - K - c * K
    OBVIOUS
  <2> QED
    BY <1>1, <2>1, <2>2
<1>3. e - 2 * d >= 0 => eK - 2 * dK >= 0
  <2>1. e - 2 * d >= 0 => (e - 2 * d) * K >= 0
    BY Z3
  <2>2. (e - 2 * d) * K = eK - 2 * dK
    OBVIOUS
  <2> QED
    BY <1>1, <2>1, <2>2
<1>4. 0 - e - d >= 0 => 0 - eK - dK >= 0
  <2>1. 0 - e - d >= 0 => (0 - e - d) * K >= 0
    BY Z3
  <2>2. (0 - e - d) * K = 0 - eK - dK
    OBVIOUS
  <2> QED
    BY <1>1, <2>1, <2>2
<1>5. ASSUME jr <= d * (K - 1), td <= d * (K - 1), eK = jr + td - cK
      PROVE  e < 2 * d /\ 0 - e < d
  <2>1. jr <= dK - d /\ td <= dK - d
    BY <1>1, <1>5
  <2> HIDE DEF eK, dK, cK
  <2>2. ~(e - 2 * d >= 0)
    BY <1>1, <1>2, <1>3, <1>5, <2>1
  <2>3. ~(0 - e - d >= 0)
    BY <1>1, <1>2, <1>4, <1>5
  <2> QED
    BY <2>2, <2>3
<1> QED
  BY <1>5

LEMMA ProductRange ==
  ASSUME NEW K \in Nat \ {0}, NEW a \in Nat, NEW b \in Nat, b <= K - 1
  PROVE  a * b \in Nat /\ a * b <= a * (K - 1)
<1>1. a * b >= 0
  BY Z3
<1>2. a * ((K - 1) - b) >= 0
  BY Z3
<1>3. a * ((K - 1) - b) = a * (K - 1) - a * b
  OBVIOUS
<1>4. a * b \in Int
  OBVIOUS
<1> QED
  BY <1>1, <1>2, <1>3, <1>4

LEMMA Distributed ==
  ASSUME NEW K \in Int, NEW N \in Int, NEW t \in Int, NEW d \in Int, NEW j \in Int, NEW s \in Int, NEW r \in Int,
         NEW b \in Int
  PROVE  /\ (N * K + t) * d = (N * d) * K + t * d
         /\ j * (s * K - r) = (j * s) * K - j * r
         /\ (j * b) * d = j * (b * d)
<1>1. (N * K + t) * d = (N * d) * K + t * d
  OBVIOUS
<1>2. j * (s * K - r) = (j * s) * K - j * r
  OBVIOUS
<1>3. (j * b) * d = j * (b * d)
  OBVIOUS
<1> QED
  BY <1>1, <1>2, <1>3

LEMMA Expanded ==
  ASSUME NEW K \in Int, NEW d \in Int, NEW s \in Int, NEW j \in Int, NEW A \in Int, NEW c \in Int,
         NEW b \in Int, NEW r \in Int, NEW N \in Int, NEW t \in Int
  PROVE  j * s = A * d + c /\ b * d = s * K - r /\ j * b = N * K + t =>
           (N * d) * K + t * d = (A * d + c) * K - j * r
<1>1. ASSUME j * s = A * d + c, b * d = s * K - r, j * b = N * K + t
      PROVE  (N * d) * K + t * d = (A * d + c) * K - j * r
  <2>1. (j * b) * d = j * (b * d)
    BY Distributed
  <2>2. (j * b) * d = (N * K + t) * d
    BY <1>1, Zenon
  <2>3. j * (b * d) = j * (s * K - r)
    BY <1>1, Zenon
  <2>4. (N * K + t) * d = (N * d) * K + t * d
    BY Distributed
  <2>5. j * (s * K - r) = (j * s) * K - j * r
    BY Distributed
  <2>6. (j * s) * K - j * r = (A * d + c) * K - j * r
    BY <1>1, Zenon
  <2> QED
    BY <2>1, <2>2, <2>3, <2>4, <2>5, <2>6, Zenon
<1> QED
  BY <1>1, Zenon

LEMMA FixedPoint ==
  ASSUME NEW K \in Nat \ {0}, NEW d \in 1 .. K - 1, NEW j \in 0 .. d - 1,
         NEW A \in Int, NEW c \in 0 .. d - 1, NEW r \in 0 .. d - 1,
         NEW N \in Int, NEW t \in 0 .. K - 1
  PROVE  (N * d) * K + t * d = (A * d + c) * K - j * r => A - N \in {0, 1}
<1> DEFINE e == A * d - N * d
           td == t * d
           jr == j * r
<1>1. td \in Nat /\ td <= d * (K - 1)
  <2>1. d * t \in Nat /\ d * t <= d * (K - 1)
    BY ProductRange
  <2>2. d * t = t * d
    OBVIOUS
  <2> QED
    BY <2>1, <2>2, Zenon
<1>2. jr \in Nat /\ jr <= d * (K - 1)
  <2>1. j * r \in Nat /\ j * r <= j * (K - 1)
    BY ProductRange
  <2>2. (d - j) * (K - 1) >= 0
    BY Z3
  <2>3. (d - j) * (K - 1) = d * (K - 1) - j * (K - 1)
    OBVIOUS
  <2>4. d * (K - 1) \in Int /\ j * (K - 1) \in Int
    OBVIOUS
  <2> QED
    BY <2>1, <2>2, <2>3, <2>4
<1>3. e \in Int
  OBVIOUS
<1>4. e * K = (A * d) * K - (N * d) * K /\ (A * d + c) * K = (A * d) * K + c * K
  OBVIOUS
<1>5. (A - N - 1) * d = e - d /\ (N - A) * d = 0 - e
  OBVIOUS
<1>6. A - N - 1 > 0 => (A - N - 1) * d >= d
  BY Product
<1>7. N - A > 0 => (N - A) * d >= d
  BY Product
<1>8. ASSUME (N * d) * K + td = (A * d + c) * K - jr
      PROVE  A - N \in {0, 1}
  <2>1. e * K = jr + td - c * K
    <3> DEFINE x == (N * d) * K
               y == (A * d) * K
               z == c * K
               w == (A * d + c) * K
               v == e * K
    <3>1. /\ x \in Int /\ y \in Int /\ z \in Int /\ w \in Int /\ v \in Int
          /\ td \in Int /\ jr \in Int
      OBVIOUS
    <3>2. x + td = w - jr /\ v = y - x /\ w = y + z
      BY <1>4, <1>8, Zenon
    <3> HIDE DEF x, y, z, w, v, td, jr
    <3>3. v = jr + td - z
      BY <3>1, <3>2
    <3> QED
      BY <3>3 DEF v, z
  <2> HIDE DEF e, td, jr
  <2>2. e < 2 * d /\ 0 - e < d
    BY <1>1, <1>2, <1>3, <2>1, TwoRoundings
  <2>3. A - N - 1 > 0 => e - d >= d
    BY <1>5, <1>6, Zenon
  <2>4. N - A > 0 => 0 - e >= d
    BY <1>5, <1>7, Zenon
  <2> QED
    BY <1>3, <2>2, <2>3, <2>4
<1> QED
  BY <1>8, Zenon

\* What the code's unit is does not matter.
LEMMA UnitIs == Unit \in Nat \ {0}
  BY SMT DEF Unit

LEMMA NearestStands ==
  ASSUME NEW d \in 1 .. Unit - 1, NEW s \in Nat \ {0}, NEW j \in 0 .. d - 1
  PROVE  Nearest(j, s, d) \in 0 .. s - 1 /\ Stands(Nearest(j, s, d), j, s, d, {-1, 0})
<1> USE UnitIs
<1> DEFINE x == j * s
           y == s * Unit
           b == y \div d
           z == j * b
           A == x \div d
           N == z \div Unit
<1>1. d \in Nat \ {0} /\ x \in Int /\ y \in Int /\ Unit \in Nat \ {0}
  OBVIOUS
<1>2. N = Nearest(j, s, d)
  BY DEF Nearest
<1>3. A \in 0 .. s - 1
  BY <1>1, ScaledDown
<1>4. y >= 0 /\ j >= 0
  OBVIOUS
<1>5. x = j * s /\ y = s * Unit /\ z = j * b
  BY Zenon
<1> HIDE DEF x, y
<1>6. x % d \in 0 .. d - 1 /\ x = A * d + (x % d)
  BY <1>1, Division
<1>7. b \in Int /\ y % d \in 0 .. d - 1 /\ y = b * d + (y % d)
  BY <1>1, Division
<1>8. b >= 0
  <2> SUFFICES ASSUME 0 - b > 0 PROVE FALSE
    BY <1>7
  <2> HIDE DEF b
  <2>1. (0 - b) * d >= d
    BY <1>1, <1>7, Product
  <2>2. (0 - b) * d = 0 - b * d /\ b * d \in Int
    BY <1>7
  <2> DEFINE bd == b * d
  <2>3. bd \in Int /\ 0 - bd >= d /\ y = bd + (y % d)
    BY <1>7, <2>1, <2>2
  <2> HIDE DEF bd
  <2> QED
    BY <1>1, <1>4, <1>7, <2>3
<1> HIDE DEF b
<1>9. z \in Int /\ z >= 0
  <2>1. j * b >= 0 /\ j * b \in Int
    BY <1>7, <1>8, Z3
  <2> QED
    BY <1>5, <2>1, Zenon
<1> HIDE DEF z
<1>10. N \in Int /\ z % Unit \in 0 .. Unit - 1 /\ z = N * Unit + (z % Unit)
  BY <1>1, <1>9, Division
<1> HIDE DEF N
<1>11. N >= 0
  BY <1>9, <1>10
<1>12. A \in Int /\ A <= s - 1
  BY <1>3
<1> DEFINE c == x % d
           r == y % d
           t == z % Unit
<1>13. /\ c \in 0 .. d - 1 /\ j * s = A * d + c
       /\ r \in 0 .. d - 1 /\ s * Unit = b * d + r
       /\ t \in 0 .. Unit - 1 /\ j * b = N * Unit + t
  BY <1>5, <1>6, <1>7, <1>10
<1> HIDE DEF c, r, t, A
<1>14. A - N \in {0, 1}
  <2>1. b * d = s * Unit - r
    BY <1>7, <1>13
  <2>2. /\ c \in 0 .. d - 1 /\ r \in 0 .. d - 1 /\ t \in 0 .. Unit - 1
        /\ c \in Int /\ r \in Int /\ t \in Int /\ A \in Int /\ b \in Int /\ N \in Int
        /\ s \in Int /\ d \in Int /\ j \in Int /\ Unit \in Int
    BY <1>7, <1>10, <1>12, <1>13
  <2>3. (N * d) * Unit + t * d = (A * d + c) * Unit - j * r
    <3>1. j * s = A * d + c /\ b * d = s * Unit - r /\ j * b = N * Unit + t =>
            (N * d) * Unit + t * d = (A * d + c) * Unit - j * r
      BY <2>2, Expanded
    <3> QED
      BY <1>13, <2>1, <3>1, Zenon
  <2>4. (N * d) * Unit + t * d = (A * d + c) * Unit - j * r => A - N \in {0, 1}
    BY <2>2, FixedPoint
  <2> QED
    BY <2>3, <2>4, Zenon
<1>15. N \in 0 .. s - 1
  BY <1>10, <1>11, <1>12, <1>14
<1>16. A = (j * s) \div d
  BY <1>5 DEF A
<1>17. ASSUME s % d = 0 PROVE N * d = j * s
  <2> DEFINE m == s \div d
  <2>1. m \in Int /\ s = m * d
    <3>1. s = m * d + (s % d) /\ m \in Int
      BY <1>1, Division
    <3> QED
      BY <1>17, <3>1
  <2> HIDE DEF m
  <2>2. b = m * Unit
    <3>1. y = (m * Unit) * d + 0 /\ m * Unit \in Int
      BY <1>5, <2>1
    <3>2. 0 \in 0 .. d - 1
      OBVIOUS
    <3>3. ((m * Unit) * d + 0) \div d = m * Unit
      BY <1>1, <3>1, <3>2, DivisionUnique, Zenon
    <3> QED
      BY <3>1, <3>3, Zenon DEF b
  <2>3. N = j * m
    <3>1. z = (j * m) * Unit + 0 /\ j * m \in Int
      BY <1>5, <2>1, <2>2
    <3>2. 0 \in 0 .. Unit - 1
      OBVIOUS
    <3>3. ((j * m) * Unit + 0) \div Unit = j * m
      BY <1>1, <3>1, <3>2, DivisionUnique, Zenon
    <3> QED
      BY <3>1, <3>3, Zenon DEF N
  <2> QED
    BY <2>1, <2>3
<1>18. N - A \in {-1, 0}
  BY <1>10, <1>12, <1>14
<1> QED
  BY <1>2, <1>15, <1>16, <1>17, <1>18 DEF Stands

\* A common factor does not matter.
LEMMA Cancelled ==
  ASSUME NEW P \in Nat \ {0}, NEW a \in Int, NEW b \in Int, a * P < b * P
  PROVE  a < b
<1> SUFFICES ASSUME a - b >= 0 PROVE FALSE
  OBVIOUS
<1>1. (a - b) * P >= 0
  BY Z3
<1>2. (a - b) * P = a * P - b * P /\ a * P \in Int /\ b * P \in Int
  OBVIOUS
<1> QED
  BY <1>1, <1>2

\* What is less than half a unit in a million off is at most one sample off, and inside.
\* A product of sides, x, is d times the sample A, but for a rest c; kd stands for k * d.
LEMMA FloatRounds ==
  ASSUME NEW P \in Nat \ {0}, NEW d \in Nat \ {0}, NEW s \in Nat \ {0}, d < P, s <= P,
         NEW x \in Nat, x <= s * d - s, NEW k \in Nat,
         k * d * P <= x * (P + 1), x * (P - 1) < (k + 1) * d * P,
         NEW A \in Int, NEW c \in 0 .. d - 1, x = A * d + c
  PROVE  k - A \in {-1, 0, 1} /\ k < s
<1> DEFINE u == k * d
<1>1. u \in Int /\ (k + 1) * d = u + d
  OBVIOUS
<1>2. (u - x) * P <= x
  <2>1. k * d * P = u * P /\ u * P \in Int
    BY <1>1
  <2>2. x * (P + 1) = x * P + x /\ (u - x) * P = u * P - x * P /\ x * P \in Int
    BY <1>1
  <2> HIDE DEF u
  <2> QED
    BY <2>1, <2>2
<1>3. (x - u - d) * P < x
  <2>1. (k + 1) * d * P = (u + d) * P
    BY <1>1
  <2> HIDE DEF u
  <2>2. /\ x * (P - 1) = x * P - x /\ x * P \in Int /\ (u + d) * P \in Int
        /\ (x - u - d) * P = x * P - (u + d) * P
    BY <1>1
  <2> QED
    BY <2>1, <2>2
<1>4. x < d * P
  <2>1. (P - s) * d >= 0
    BY Z3
  <2>2. (P - s) * d = d * P - s * d /\ d * P \in Int /\ s * d \in Int
    OBVIOUS
  <2> QED
    BY <2>1, <2>2
<1> DEFINE e == u - x
           f == x - u - d
<1>5. e \in Int /\ f \in Int /\ e = u - x /\ f = x - u - d
  BY <1>1
<1>6. e * P <= x /\ f * P < x
  BY <1>2, <1>3
<1> HIDE DEF e, f, u
<1>7. e * P \in Int /\ f * P \in Int /\ d * P \in Int
  BY <1>5
<1>8. e < d /\ f < d
  BY <1>4, <1>5, <1>6, <1>7, Cancelled
<1>9. k - A < 2
  <2> DEFINE g == k - A - 2
  <2>1. g * d = u - A * d - 2 * d /\ g \in Int /\ A * d \in Int
    BY DEF u
  <2>2. u < x + d /\ x < A * d + d
    BY <1>1, <1>5, <1>8, <2>1
  <2> DEFINE Ad == A * d
             gd == g * d
  <2>3. gd = u - Ad - 2 * d /\ Ad \in Int /\ gd \in Int /\ x < Ad + d
    BY <2>1, <2>2
  <2> HIDE DEF Ad, gd
  <2>4. gd < 0
    BY <1>1, <2>2, <2>3
  <2>5. g >= 0 => gd >= 0
    BY Z3 DEF gd
  <2> QED
    BY <2>4, <2>5
<1>10. A - k < 2
  <2> DEFINE g == A - k - 2
  <2>1. g * d = A * d - u - 2 * d /\ g \in Int /\ A * d \in Int
    BY DEF u
  <2> DEFINE Ad == A * d
             gd == g * d
  <2>2. gd = Ad - u - 2 * d /\ Ad \in Int /\ gd \in Int /\ x = Ad + c
    BY <2>1
  <2> HIDE DEF Ad, gd
  <2>3. gd < 0
    BY <1>1, <1>5, <1>8, <2>2
  <2>4. g >= 0 => gd >= 0
    BY Z3 DEF gd
  <2> QED
    BY <2>3, <2>4
<1>11. k < s
  <2> SUFFICES ASSUME k - s >= 0 PROVE FALSE
    OBVIOUS
  <2>1. (k - s) * d >= 0
    BY Z3
  <2>2. (k - s) * d = u - s * d /\ s * d \in Int
    BY DEF u
  <2> DEFINE sd == s * d
  <2>3. u - sd >= 0 /\ sd \in Int /\ x <= sd - s
    BY <2>1, <2>2
  <2> HIDE DEF sd
  <2>4. e >= s
    BY <1>1, <1>5, <2>3
  <2>5. (e - s) * P >= 0
    BY <1>5, <2>4, Z3
  <2>6. (e - s) * P = e * P - s * P /\ s * P \in Int
    BY <1>5
  <2>7. (P - d) * s >= s
    BY Product
  <2>8. (P - d) * s = s * P - s * d
    OBVIOUS
  <2> QED
    BY <1>6, <1>7, <2>5, <2>6, <2>7, <2>8
<1> QED
  BY <1>9, <1>10, <1>11

LEMMA SidesAreSmall == Precision \in Nat /\ MaxSide \in Nat /\ MaxSide < Precision
  BY SMT DEF Precision, MaxSide

\* Sampling in floats takes the sample, or a neighbour, and stays inside.
LEMMA TruncatedStands ==
  ASSUME NEW d \in 1 .. MaxSide, NEW s \in 1 .. MaxSide, NEW j \in 0 .. d - 1,
         NEW k \in Truncated(j, s, d)
  PROVE  k \in 0 .. s - 1 /\ Stands(k, j, s, d, {-1, 0, 1})
<1>1. /\ Precision \in Nat \ {0} /\ d < Precision /\ s <= Precision
      /\ d \in Nat \ {0} /\ s \in Nat \ {0}
  BY SidesAreSmall
<1> DEFINE x == j * s
           A == x \div d
<1>2. x \in Nat /\ x <= s * d - s
  <2>1. j * s >= 0 /\ (d - 1 - j) * s >= 0
    BY <1>1, Z3
  <2>2. (d - 1 - j) * s = s * d - s - j * s /\ s * d \in Int /\ j * s \in Int
    BY <1>1
  <2> QED
    BY <1>1, <2>1, <2>2
<1>3. A \in 0 .. s - 1
  BY <1>1, ScaledDown
<1>4. x % d \in 0 .. d - 1 /\ x = A * d + (x % d)
  <2>1. x \in Int
    BY <1>2
  <2> HIDE DEF x
  <2> QED
    BY <1>1, <2>1, Division
<1>5. CASE s % d = 0
  <2> DEFINE m == s \div d
  <2>1. m \in Int /\ s = m * d
    <3>1. s = m * d + (s % d) /\ m \in Int
      BY <1>1, Division
    <3> QED
      BY <1>5, <3>1
  <2>2. k = j * m
    BY <1>5 DEF Truncated
  <2> HIDE DEF m
  <2>3. x = (j * m) * d + 0 /\ j * m \in Int
    BY <2>1
  <2>4. A = k
    <3>1. 0 \in 0 .. d - 1
      BY <1>1
    <3>2. ((j * m) * d + 0) \div d = j * m
      BY <1>1, <2>3, <3>1, DivisionUnique, Zenon
    <3> QED
      BY <2>2, <2>3, <3>2, Zenon DEF A
  <2>5. k * d = j * s
    BY <2>1, <2>2
  <2>6. k - A = 0
    BY <1>3, <2>4
  <2> QED
    BY <1>3, <2>4, <2>5, <2>6 DEF Stands
<1>6. CASE s % d # 0
  <2>1. /\ k \in 0 .. s
        /\ k * d * Precision <= x * (Precision + 1)
        /\ x * (Precision - 1) < (k + 1) * d * Precision
    BY <1>6 DEF Truncated
  <2>2. k \in Nat
    BY <2>1
  <2> HIDE DEF x, A
  <2>3. k - A \in {-1, 0, 1} /\ k < s
    BY <1>1, <1>2, <1>3, <1>4, <2>1, <2>2, FloatRounds
  <2>4. k \in 0 .. s - 1
    BY <2>1, <2>3
  <2> QED
    BY <1>6, <2>3, <2>4 DEF Stands, x, A
<1> QED
  BY <1>5, <1>6

At(w, r, c) == r * w + c

LEMMA AtIs ==
  ASSUME NEW p, p.w \in Nat \ {0}, p.h \in Nat \ {0}, NEW r \in 0 .. p.h - 1, NEW c \in 0 .. p.w - 1
  PROVE  At(p.w, r, c) \in Cells(p) /\ At(p.w, r, c) \div p.w = r /\ At(p.w, r, c) % p.w = c
<1> DEFINE w == p.w
           h == p.h
<1>1. w \in Nat \ {0} /\ h \in Nat \ {0} /\ r \in 0 .. h - 1 /\ c \in 0 .. w - 1
  OBVIOUS
<1> HIDE DEF w, h
<1>2. r * w + c \in 0 .. w * h - 1 /\ (r * w + c) \div w = r /\ (r * w + c) % w = c
  BY <1>1, CellOf
<1> QED
  BY <1>2, Zenon DEF At, Cells, w, h

\* A loop over rows and columns that puts each pixel once, and takes it from a position
\* that stands for it.
Puts(s, d, f, g, pix, px) ==
  LET I == 0 .. d.h - 1
      J == 0 .. d.w - 1
  IN  /\ s.w \in Nat \ {0} /\ s.h \in Nat \ {0} /\ d.w \in Nat \ {0} /\ d.h \in Nat \ {0}
      /\ Turns(s, d) \in Rotations
      /\ \A i \in I : f[i] \in 0 .. s.h - 1 /\ Stands(f[i], i, s.h, d.h, Rounding(s.format))
      /\ \A j \in J : g[j] \in 0 .. s.w - 1 /\ Stands(g[j], j, s.w, d.w, Rounding(s.format))
      /\ \A i \in I, j \in J :
           /\ pix[i][j].to = Turned(Turns(s, d), d.w, d.h, i, j)
           /\ pix[i][j].from = At(s.w, f[i], g[j])
           /\ pix[i][j].from \in Cells(s) =>
                \A c \in pix[i][j].chroma : c \in s.w * s.h .. 2 * s.w * s.h - 1
           /\ s.format # "RGB888" \/ d.format = "RGB888" => pix[i][j].colour = "own"
      /\ \A p \in px : \E i \in I, j \in J : p = pix[i][j]
      /\ \A i \in I, j \in J : pix[i][j] \in px

LEMMA PutConverts ==
  ASSUME NEW s, NEW d, NEW f, NEW g, NEW pix, NEW px, Puts(s, d, f, g, pix, px)
  PROVE  Converted(s, d, px)
<1> DEFINE I == 0 .. d.h - 1
           J == 0 .. d.w - 1
<1>0. /\ s.w \in Nat \ {0} /\ s.h \in Nat \ {0} /\ d.w \in Nat \ {0} /\ d.h \in Nat \ {0}
      /\ Turns(s, d) \in Rotations
      /\ \A i \in I : f[i] \in 0 .. s.h - 1 /\ Stands(f[i], i, s.h, d.h, Rounding(s.format))
      /\ \A j \in J : g[j] \in 0 .. s.w - 1 /\ Stands(g[j], j, s.w, d.w, Rounding(s.format))
      /\ \A i \in I, j \in J :
           /\ pix[i][j].to = Turned(Turns(s, d), d.w, d.h, i, j)
           /\ pix[i][j].from = At(s.w, f[i], g[j])
           /\ pix[i][j].from \in Cells(s) =>
                \A c \in pix[i][j].chroma : c \in s.w * s.h .. 2 * s.w * s.h - 1
           /\ s.format # "RGB888" \/ d.format = "RGB888" => pix[i][j].colour = "own"
      /\ \A p \in px : \E i \in I, j \in J : p = pix[i][j]
      /\ \A i \in I, j \in J : pix[i][j] \in px
      /\ I = 0 .. d.h - 1 /\ J = 0 .. d.w - 1
  BY Zenon DEF Puts
<1> USE <1>0
<1> HIDE DEF I, J
<1> DEFINE place(i, j) == Place(Turn(Turns(s, d), [r |-> i, c |-> j, w |-> d.w, h |-> d.h]))
           there(i, j) == {p \in px : p.to = place(i, j)}
<1> HIDE DEF place
<1>1. ASSUME NEW i \in I, NEW j \in J
      PROVE  /\ pix[i][j].to \in Cells(d)
             /\ pix[i][j].to = place(i, j)
             /\ pix[i][j].from \in Cells(s)
             /\ pix[i][j].from \div s.w = f[i]
             /\ pix[i][j].from % s.w = g[j]
  <2>1. f[i] \in 0 .. s.h - 1 /\ g[j] \in 0 .. s.w - 1
    BY Zenon
  <2>2. /\ At(s.w, f[i], g[j]) \in Cells(s)
        /\ At(s.w, f[i], g[j]) \div s.w = f[i]
        /\ At(s.w, f[i], g[j]) % s.w = g[j]
    BY <2>1, AtIs
  <2>3. i \in 0 .. d.h - 1 /\ j \in 0 .. d.w - 1
    BY Zenon
  <2>4. place(i, j) = Turned(Turns(s, d), d.w, d.h, i, j) /\ Turned(Turns(s, d), d.w, d.h, i, j) \in 0 .. d.w * d.h - 1
    BY <2>3, TurnedIsTurn DEF place
  <2>5. pix[i][j].to = Turned(Turns(s, d), d.w, d.h, i, j) /\ pix[i][j].from = At(s.w, f[i], g[j])
    BY Zenon
  <2> QED
    BY <2>2, <2>4, <2>5, Zenon DEF Cells
<1>2. ASSUME NEW p \in px
      PROVE  /\ p.from \in Cells(s) /\ p.to \in Cells(d)
             /\ \A c \in p.chroma : c \in s.w * s.h .. 2 * s.w * s.h - 1
  <2>1. PICK i \in I, j \in J : p = pix[i][j]
    BY Zenon
  <2>2. pix[i][j].from \in Cells(s) =>
          \A c \in pix[i][j].chroma : c \in s.w * s.h .. 2 * s.w * s.h - 1
    BY Zenon
  <2> QED
    BY <1>1, <2>1, <2>2, Zenon
<1>3. ASSUME NEW i \in I, NEW j \in J
      PROVE  there(i, j) = {pix[i][j]}
  <2>1. pix[i][j] \in px
    BY Zenon
  <2>2. ASSUME NEW p \in px, p.to = place(i, j)
        PROVE  p = pix[i][j]
    <3>1. PICK k \in I, l \in J : p = pix[k][l]
      BY Zenon
    <3>2. /\ pix[i][j].to = Turned(Turns(s, d), d.w, d.h, i, j)
          /\ pix[k][l].to = Turned(Turns(s, d), d.w, d.h, k, l)
      BY Zenon
    <3>6. pix[i][j].to = place(i, j)
      BY <1>1
    <3>3. Turned(Turns(s, d), d.w, d.h, i, j) = Turned(Turns(s, d), d.w, d.h, k, l)
      BY <2>2, <3>1, <3>2, <3>6, Zenon
    <3>4. i \in 0 .. d.h - 1 /\ j \in 0 .. d.w - 1 /\ k \in 0 .. d.h - 1 /\ l \in 0 .. d.w - 1
      BY Zenon
    <3>5. i = k /\ j = l
      BY <3>3, <3>4, TurnedOnce
    <3> QED
      BY <3>1, <3>5, Zenon
  <2>3. pix[i][j].to = place(i, j)
    BY <1>1
  <2> QED
    BY <2>1, <2>2, <2>3, Zenon
<1> HIDE DEF there
<1>4. ASSUME NEW i \in I, NEW j \in J
      PROVE  \E p \in there(i, j) :
               /\ there(i, j) = {p}
               /\ Stands(p.from \div s.w, i, s.h, d.h, Rounding(s.format))
               /\ Stands(p.from % s.w, j, s.w, d.w, Rounding(s.format))
               /\ s.format # "RGB888" \/ d.format = "RGB888" => p.colour = "own"
  <2>1. /\ there(i, j) = {pix[i][j]}
        /\ pix[i][j].from \div s.w = f[i]
        /\ pix[i][j].from % s.w = g[j]
    BY <1>1, <1>3
  <2>2. Stands(f[i], i, s.h, d.h, Rounding(s.format)) /\ Stands(g[j], j, s.w, d.w, Rounding(s.format))
    BY Zenon
  <2>3. s.format # "RGB888" \/ d.format = "RGB888" => pix[i][j].colour = "own"
    BY Zenon
  <2> QED
    BY <2>1, <2>2, <2>3, Zenon
<1>5. \A i \in 0 .. d.h - 1, j \in 0 .. d.w - 1 :
        \E p \in there(i, j) :
          /\ there(i, j) = {p}
          /\ Stands(p.from \div s.w, i, s.h, d.h, Rounding(s.format))
          /\ Stands(p.from % s.w, j, s.w, d.w, Rounding(s.format))
          /\ s.format # "RGB888" \/ d.format = "RGB888" => p.colour = "own"
  BY <1>4, Zenon
<1> QED
  BY <1>2, <1>5, Zenon DEF Converted, place, there

\* The sides of a picture.
LEMMA SidesAre ==
  ASSUME NEW formats, NEW rotations, NEW p \in Picture(formats, rotations)
  PROVE  /\ p.w \in 1 .. MaxSide /\ p.h \in 1 .. MaxSide
         /\ p.w \in Nat \ {0} /\ p.h \in Nat \ {0}
         /\ p.format \in formats /\ p.rotate \in rotations
<1>1. p.w \in Sides /\ p.h \in Sides /\ p.format \in formats /\ p.rotate \in rotations
  BY DEF Picture
<1>2. MaxSide \in Nat /\ Sides \subseteq 1 .. MaxSide
  BY ImageAssumption, SidesAreSmall
<1>3. p.w \in 1 .. MaxSide /\ p.h \in 1 .. MaxSide
  BY <1>1, <1>2, Zenon
<1>4. ASSUME NEW x \in 1 .. MaxSide PROVE x \in Nat \ {0}
  BY <1>2
<1> QED
  BY <1>1, <1>3, <1>4, Zenon

\* Sides that an int holds in fixed point fit in 16 bits.
LEMMA FixedPointHolds == \A side \in 1 .. MaxSide : side \in 1 .. Unit - 1
<1>1. MaxSide = 32767 /\ Unit = 65536
  BY DEF MaxSide, Unit
<1>2. ASSUME NEW side \in 1 .. MaxSide PROVE side \in 1 .. Unit - 1
  BY <1>1
<1> QED
  BY <1>2, Zenon

\* Sampling in fixed point, with a rotation.
LEMMA SampledConverts ==
  ASSUME NEW s \in Picture(RGB, {0}), NEW d \in Picture(RGB, Rotations),
         NEW colour, colour = "own" \/ (s.format = "RGB888" /\ d.format # "RGB888")
  PROVE  Converted(s, d, Sampled(s, d, colour))
<1> DEFINE I == 0 .. d.h - 1
           J == 0 .. d.w - 1
           one(i, j) == [to |-> Turned(d.rotate, d.w, d.h, i, j), colour |-> colour, chroma |-> {},
                         from |-> Nearest(i, s.h, d.h) * s.w + Nearest(j, s.w, d.w)]
           f == [i \in I |-> Nearest(i, s.h, d.h)]
           g == [j \in J |-> Nearest(j, s.w, d.w)]
           pix == [i \in I |-> [j \in J |-> one(i, j)]]
           px == Sampled(s, d, colour)
<1>1. /\ s.w \in Nat \ {0} /\ s.h \in Nat \ {0} /\ d.w \in Nat \ {0} /\ d.h \in Nat \ {0}
      /\ d.w \in 1 .. Unit - 1 /\ d.h \in 1 .. Unit - 1
      /\ d.rotate \in Rotations /\ s.format \in RGB
  BY SidesAre, FixedPointHolds
<1>2. Turns(s, d) = d.rotate /\ Rounding(s.format) = {-1, 0}
  BY <1>1 DEF Turns, Rounding, RGB
<1>3. ASSUME NEW i \in I
      PROVE  f[i] \in 0 .. s.h - 1 /\ Stands(f[i], i, s.h, d.h, Rounding(s.format))
  <2>1. Nearest(i, s.h, d.h) \in 0 .. s.h - 1 /\ Stands(Nearest(i, s.h, d.h), i, s.h, d.h, {-1, 0})
    BY <1>1, NearestStands
  <2> QED
    BY <1>2, <2>1, Zenon
<1>4. ASSUME NEW j \in J
      PROVE  g[j] \in 0 .. s.w - 1 /\ Stands(g[j], j, s.w, d.w, Rounding(s.format))
  <2>1. Nearest(j, s.w, d.w) \in 0 .. s.w - 1 /\ Stands(Nearest(j, s.w, d.w), j, s.w, d.w, {-1, 0})
    BY <1>1, NearestStands
  <2> QED
    BY <1>2, <2>1, Zenon
<1>5. ASSUME NEW i \in I, NEW j \in J
      PROVE  pix[i][j] = one(i, j) /\ f[i] = Nearest(i, s.h, d.h) /\ g[j] = Nearest(j, s.w, d.w)
  BY Zenon
<1>6. px = {one(i, j) : i \in I, j \in J}
  BY DEF Sampled
<1>7. ASSUME NEW i \in I, NEW j \in J
      PROVE  /\ one(i, j).to = Turned(d.rotate, d.w, d.h, i, j)
             /\ one(i, j).from = At(s.w, Nearest(i, s.h, d.h), Nearest(j, s.w, d.w))
             /\ one(i, j).chroma = {} /\ one(i, j).colour = colour
  BY DEF At
<1> HIDE DEF f, g, pix, px, one, I, J
<1>8. \A i \in I, j \in J :
        /\ pix[i][j].to = Turned(Turns(s, d), d.w, d.h, i, j)
        /\ pix[i][j].from = At(s.w, f[i], g[j])
        /\ pix[i][j].from \in Cells(s) =>
             \A c \in pix[i][j].chroma : c \in s.w * s.h .. 2 * s.w * s.h - 1
        /\ s.format # "RGB888" \/ d.format = "RGB888" => pix[i][j].colour = "own"
  BY <1>2, <1>5, <1>7
<1>9. \A p \in px : \E i \in I, j \in J : p = pix[i][j]
  BY <1>5, <1>6
<1>10. \A i \in I, j \in J : pix[i][j] \in px
  BY <1>5, <1>6
<1>11. I = 0 .. d.h - 1 /\ J = 0 .. d.w - 1
  BY DEF I, J
<1> QED
  <2>1. Puts(s, d, f, g, pix, px)
    BY <1>1, <1>2, <1>3, <1>4, <1>8, <1>9, <1>10, <1>11, Zenon DEF Puts
  <2> QED
    BY <2>1, PutConverts DEF px

\* YUV422 has two more planes, in which two pixels share their places.
LEMMA YuvConverts ==
  ASSUME NEW s \in Picture({"YUV422"}, Rotations), NEW d \in Picture(RGB, Rotations),
         NEW f \in Roundings(s.h, d.h), NEW g \in Roundings(s.w, d.w)
  PROVE  Converted(s, d, YuvPixels(s, d, f, g))
<1> DEFINE I == 0 .. d.h - 1
           J == 0 .. d.w - 1
           pix == [i \in I |-> [j \in J |-> YuvPixel(s, d, i, j, f[i], g[j])]]
           px == {YuvPixel(s, d, i, j, f[i], g[j]) : i \in I, j \in J}
           plane == s.w * s.h
<1>1. /\ s.w \in Nat \ {0} /\ s.h \in Nat \ {0} /\ d.w \in Nat \ {0} /\ d.h \in Nat \ {0}
      /\ s.w \in 1 .. MaxSide /\ s.h \in 1 .. MaxSide /\ d.w \in 1 .. MaxSide /\ d.h \in 1 .. MaxSide
      /\ d.rotate \in Rotations /\ s.rotate \in Rotations /\ s.format = "YUV422"
  BY SidesAre
<1>2. Turns(s, d) = Rotate(s, d) /\ Rotate(s, d) \in Rotations
  BY <1>1 DEF Turns, Rotate, Rotations
<1>3. ASSUME NEW i \in I
      PROVE  f[i] \in 0 .. s.h - 1 /\ Stands(f[i], i, s.h, d.h, Rounding(s.format))
  <2>1. f[i] \in Truncated(i, s.h, d.h)
    BY DEF Roundings
  <2> QED
    BY <1>1, <2>1, TruncatedStands DEF Rounding
<1>4. ASSUME NEW j \in J
      PROVE  g[j] \in 0 .. s.w - 1 /\ Stands(g[j], j, s.w, d.w, Rounding(s.format))
  <2>1. g[j] \in Truncated(j, s.w, d.w)
    BY DEF Roundings
  <2> QED
    BY <1>1, <2>1, TruncatedStands DEF Rounding
<1>5. ASSUME NEW i \in I, NEW j \in J
      PROVE  pix[i][j] = YuvPixel(s, d, i, j, f[i], g[j])
  BY Zenon
<1>6. ASSUME NEW i \in I, NEW j \in J
      PROVE  LET from == At(s.w, f[i], g[j])
                 p == YuvPixel(s, d, i, j, f[i], g[j])
             IN  /\ p.to = Turned(Rotate(s, d), d.w, d.h, i, j) /\ p.from = from
                 /\ p.colour = "own"
                 /\ p.chroma = {plane + from \div 2, plane + plane \div 2 + from \div 2}
  BY DEF At, YuvPixel
<1> HIDE DEF pix, px, I, J
<1>7. ASSUME NEW i \in I, NEW j \in J, pix[i][j].from \in Cells(s),
             NEW c \in pix[i][j].chroma
      PROVE  c \in s.w * s.h .. 2 * s.w * s.h - 1
  <2> DEFINE from == pix[i][j].from
  <2>1. c \in {plane + from \div 2, plane + plane \div 2 + from \div 2}
    BY <1>5, <1>6, <1>7
  <2>2. from \in 0 .. plane - 1
    BY <1>7 DEF Cells
  <2>3. plane \in Int /\ 2 * s.w * s.h = 2 * plane
    BY <1>1
  <2> HIDE DEF from, plane
  <2>4. c \in plane .. 2 * plane - 1
    BY <2>1, <2>2, <2>3
  <2> QED
    BY <2>3, <2>4, Zenon DEF plane
<1>8. \A i \in I, j \in J :
        /\ pix[i][j].to = Turned(Turns(s, d), d.w, d.h, i, j)
        /\ pix[i][j].from = At(s.w, f[i], g[j])
        /\ pix[i][j].from \in Cells(s) =>
             \A c \in pix[i][j].chroma : c \in s.w * s.h .. 2 * s.w * s.h - 1
        /\ s.format # "RGB888" \/ d.format = "RGB888" => pix[i][j].colour = "own"
  <2> TAKE i \in I, j \in J
  <2>1. pix[i][j].to = Turned(Turns(s, d), d.w, d.h, i, j)
    BY <1>2, <1>5, <1>6
  <2>2. pix[i][j].from = At(s.w, f[i], g[j])
    BY <1>5, <1>6
  <2>3. pix[i][j].colour = "own"
    BY <1>5, <1>6
  <2> QED
    BY <1>7, <2>1, <2>2, <2>3, Zenon
<1>9. \A p \in px : \E i \in I, j \in J : p = pix[i][j]
  BY <1>5 DEF px
<1>10. \A i \in I, j \in J : pix[i][j] \in px
  BY <1>5 DEF px
<1>11. I = 0 .. d.h - 1 /\ J = 0 .. d.w - 1
  BY DEF I, J
<1>13. Turns(s, d) \in Rotations
  BY <1>2
<1>12. Converted(s, d, px)
  <2>1. s.w \in Nat \ {0} /\ s.h \in Nat \ {0} /\ d.w \in Nat \ {0} /\ d.h \in Nat \ {0}
    BY <1>1
  <2>2. \A i \in I : f[i] \in 0 .. s.h - 1 /\ Stands(f[i], i, s.h, d.h, Rounding(s.format))
    BY <1>3, Zenon
  <2>3. \A j \in J : g[j] \in 0 .. s.w - 1 /\ Stands(g[j], j, s.w, d.w, Rounding(s.format))
    BY <1>4, Zenon
  <2>4. Puts(s, d, f, g, pix, px)
    BY <1>8, <1>9, <1>10, <1>11, <1>13, <2>1, <2>2, <2>3 DEF Puts
  <2> QED
    BY <2>4, PutConverts
<1> QED
  BY <1>12 DEF YuvPixels, px, I, J

\* Copying byte by byte is right for equal sizes, and stays inside both pictures always.
LEMMA MemcpyConverts ==
  ASSUME NEW s \in Picture(RGB, {0}), NEW d \in Picture(RGB, Rotations),
         s.format = d.format, d.rotate = 0
  PROVE  Converted(s, d, Memcpy(s, d))
<1> DEFINE px == Memcpy(s, d)
           one(k) == [to |-> k, from |-> k, colour |-> "own", chroma |-> {}]
<1>1. /\ s.w \in Nat \ {0} /\ s.h \in Nat \ {0} /\ d.w \in Nat \ {0} /\ d.h \in Nat \ {0}
      /\ s.format \in RGB
  BY SidesAre
<1>2. Turns(s, d) = 0
  BY <1>1 DEF Turns, RGB
<1>3. px = {one(k) : k \in Cells(s) \cap Cells(d)}
  BY DEF Memcpy
<1>4. ASSUME NEW k PROVE one(k).to = k /\ one(k).from = k /\ one(k).chroma = {} /\ one(k).colour = "own"
  OBVIOUS
<1> HIDE DEF px, one
<1>5. ASSUME NEW p \in px
      PROVE  /\ p.from \in Cells(s) /\ p.to \in Cells(d)
             /\ \A c \in p.chroma : c \in s.w * s.h .. 2 * s.w * s.h - 1
  <2>1. PICK k \in Cells(s) \cap Cells(d) : p = one(k)
    BY <1>3
  <2> QED
    BY <1>4, <2>1, Zenon
<1>6. ASSUME s.w = d.w, s.h = d.h, NEW i \in 0 .. d.h - 1, NEW j \in 0 .. d.w - 1
      PROVE  LET there == {p \in px :
                             p.to = Place(Turn(Turns(s, d), [r |-> i, c |-> j, w |-> d.w, h |-> d.h]))}
             IN  \E p \in there :
                   /\ there = {p}
                   /\ Stands(p.from \div s.w, i, s.h, d.h, Rounding(s.format))
                   /\ Stands(p.from % s.w, j, s.w, d.w, Rounding(s.format))
                   /\ s.format # "RGB888" \/ d.format = "RGB888" => p.colour = "own"
  <2> DEFINE k == At(d.w, i, j)
             place == Place(Turn(Turns(s, d), [r |-> i, c |-> j, w |-> d.w, h |-> d.h]))
             there == {p \in px : p.to = place}
  <2>1. k \in Cells(d) /\ k \div d.w = i /\ k % d.w = j
    BY <1>1, AtIs
  <2>2. Cells(s) = Cells(d)
    BY <1>6 DEF Cells
  <2>3. place = k
    BY <1>2 DEF Place, Turn, At
  <2> HIDE DEF k, place
  <2>4. there = {one(k)}
    <3>1. one(k) \in px
      BY <1>3, <2>1, <2>2
    <3>2. ASSUME NEW p \in px, p.to = k
          PROVE  p = one(k)
      BY <1>3, <1>4, <3>2
    <3> QED
      BY <1>4, <2>3, <3>1, <3>2, Zenon
  <2>5. /\ Stands(i, i, d.h, d.h, Rounding(s.format))
        /\ Stands(j, j, d.w, d.w, Rounding(s.format))
    <3>0. ASSUME NEW n \in Nat \ {0} PROVE 0 \in 0 .. n - 1
      OBVIOUS
    <3>6. i \in Int /\ j \in Int
      BY <1>1
    <3>1. (i * d.h + 0) \div d.h = i
      BY <1>1, <3>0, <3>6, DivisionUnique, Zenon
    <3>2. (j * d.w + 0) \div d.w = j
      BY <1>1, <3>0, <3>6, DivisionUnique, Zenon
    <3>3. i * d.h + 0 = i * d.h /\ j * d.w + 0 = j * d.w
      BY <1>1
    <3>4. (i * d.h) \div d.h = i /\ (j * d.w) \div d.w = j
      BY <3>1, <3>2, <3>3, Zenon
    <3>5. i - i = 0 /\ j - j = 0 /\ 0 \in Rounding(s.format)
      BY DEF Rounding
    <3> QED
      BY <3>4, <3>5, Zenon DEF Stands
  <2>6. /\ Stands(one(k).from \div s.w, i, s.h, d.h, Rounding(s.format))
        /\ Stands(one(k).from % s.w, j, s.w, d.w, Rounding(s.format))
    BY <1>4, <1>6, <2>1, <2>5, Zenon
  <2> HIDE DEF there
  <2>7. \E p \in there :
          /\ there = {p}
          /\ Stands(p.from \div s.w, i, s.h, d.h, Rounding(s.format))
          /\ Stands(p.from % s.w, j, s.w, d.w, Rounding(s.format))
          /\ s.format # "RGB888" \/ d.format = "RGB888" => p.colour = "own"
    BY <1>4, <2>4, <2>6, Zenon
  <2> QED
    BY <2>7, Zenon DEF there, place
<1> QED
  BY <1>5, <1>6, Zenon DEF Converted, px

LEMMA RgbConverts ==
  ASSUME NEW s \in Picture(RGB, {0}), NEW d \in Picture(RGB, Rotations)
  PROVE  Converted(s, d, rgb_to_rgb(s, d))
<1>1. s.format \in RGB /\ d.format \in RGB
  BY SidesAre
<1>2. \/ s.format = d.format /\ d.rotate = 0 /\ rgb_to_rgb(s, d) = Memcpy(s, d)
      \/ rgb_to_rgb(s, d) = Sampled(s, d, "own")
      \/ s.format = "RGB888" /\ d.format # "RGB888" /\ rgb_to_rgb(s, d) = Sampled(s, d, "misread")
  BY <1>1 DEF RGB, rgb_to_rgb, rgb888_to_rgb888, rgb888_to_rgb565, rgb888_to_gray,
     rgb565_to_rgb888, rgb565_to_rgb565, rgb565_to_gray, gray_to_rgb888, gray_to_rgb565, gray_to_gray
<1>3. CASE s.format = d.format /\ d.rotate = 0 /\ rgb_to_rgb(s, d) = Memcpy(s, d)
  BY <1>3, MemcpyConverts
<1>4. CASE rgb_to_rgb(s, d) = Sampled(s, d, "own")
  BY <1>4, SampledConverts
<1>5. CASE s.format = "RGB888" /\ d.format # "RGB888" /\ rgb_to_rgb(s, d) = Sampled(s, d, "misread")
  BY <1>5, SampledConverts
<1> QED
  BY <1>2, <1>3, <1>4, <1>5

\* A rectangle is cut to the picture, in each direction alike.
LEMMA Clipped ==
  ASSUME NEW side \in Nat \ {0}, NEW x0 \in Int, NEW n0 \in Nat
  PROVE  LET x == Begin(x0, side)   n == Length(x, n0, side)
         IN  /\ x \in 0 .. side /\ n \in 0 .. side - x
             /\ \A c \in 0 .. side - 1 : c >= x /\ c < x + n0 <=> c - x \in 0 .. n - 1
  BY DEF Begin, Length

\* Where a row and a column of it are: below one another, but not in a grey picture, where
\* the rows overlap.
LEMMA FilledInside ==
  ASSUME NEW p, p.w \in Nat \ {0}, p.h \in Nat \ {0}, NEW b, b.x \in Int, b.y \in Int,
         b.w \in Int, b.h \in Int
  PROVE  /\ Filled(p, b.x, b.y, b.w, b.h) \subseteq Cells(p)
         /\ p.format # "GRAY" => Filled(p, b.x, b.y, b.w, b.h) = Rectangle(p, b)
<1> DEFINE W == p.w
           H == p.h
           x == Begin(b.x, W)
           w == Length(x, b.w, W)
           y == Begin(b.y, H)
           h == Length(y, b.h, H)
           stride == IF p.format = "GRAY" THEN W - w ELSE W
           cell(i, j) == x + y * W + i * stride + j
<1>1. CASE b.w < 0 \/ b.h < 0
  <2>1. Filled(p, b.x, b.y, b.w, b.h) = {}
    BY <1>1 DEF Filled
  <2>2. ASSUME NEW c \in Rectangle(p, b)
        PROVE  FALSE
    <3>1. /\ c \in 0 .. W * H - 1
          /\ c % W >= x /\ c % W < x + b.w /\ c \div W >= y /\ c \div W < y + b.h
      BY DEF Rectangle, Cells
    <3>2. x \in Int /\ y \in Int
      BY DEF Begin
    <3> HIDE DEF W, H, x, y
    <3>3. W \in Nat \ {0} /\ H \in Nat \ {0}
      BY DEF W, H
    <3>4. c % W \in Int /\ c \div W \in Int
      <4>1. c \div W \in 0 .. H - 1 /\ c % W \in 0 .. W - 1
        BY <3>1, <3>3, CellsOf
      <4> QED
        BY <3>3, <4>1
    <3> QED
      BY <1>1, <3>1, <3>2, <3>4
  <2> QED
    BY <2>1, <2>2
<1>2. CASE b.w >= 0 /\ b.h >= 0
  <2>1. /\ W \in Nat \ {0} /\ H \in Nat \ {0}
        /\ x \in 0 .. W /\ w \in 0 .. W - x /\ y \in 0 .. H /\ h \in 0 .. H - y
    <3>1. b.w \in Nat /\ b.h \in Nat
      BY <1>2
    <3> QED
      BY <3>1, Clipped
  <2>2. /\ \A c \in 0 .. W - 1 : c >= x /\ c < x + b.w <=> c - x \in 0 .. w - 1
        /\ \A c \in 0 .. H - 1 : c >= y /\ c < y + b.h <=> c - y \in 0 .. h - 1
    <3>1. b.w \in Nat /\ b.h \in Nat
      BY <1>2
    <3> QED
      BY <3>1, Clipped
  <2>3. Filled(p, b.x, b.y, b.w, b.h) = {cell(i, j) : i \in 0 .. h - 1, j \in 0 .. w - 1}
    BY <1>2 DEF Filled
  <2>4. stride = W \/ (p.format = "GRAY" /\ stride = W - w)
    OBVIOUS
  <2> HIDE DEF x, y, w, h, stride, W, H
  <2>5. ASSUME NEW i \in 0 .. h - 1, NEW j \in 0 .. w - 1
        PROVE  /\ cell(i, j) \in Cells(p)
               /\ stride = W => /\ cell(i, j) \div W = y + i
                                /\ cell(i, j) % W = x + j
    <3>1. y + i \in 0 .. H - 1 /\ x + j \in 0 .. W - 1
      BY <2>1
    <3>2. /\ (y + i) * W + (x + j) \in 0 .. W * H - 1
          /\ ((y + i) * W + (x + j)) \div W = y + i
          /\ ((y + i) * W + (x + j)) % W = x + j
      <4> DEFINE u == y + i
                 v == x + j
      <4>1. u \in 0 .. H - 1 /\ v \in 0 .. W - 1
        BY <3>1
      <4> HIDE DEF u, v
      <4>2. u * W + v \in 0 .. W * H - 1 /\ (u * W + v) \div W = u /\ (u * W + v) % W = v
        BY <2>1, <4>1, CellOf
      <4> QED
        BY <4>2, Zenon DEF u, v
    <3>3. CASE stride = W
      <4>1. cell(i, j) = (y + i) * W + (x + j)
        BY <2>1, <3>3
      <4> QED
        BY <3>2, <4>1, Zenon DEF Cells, W, H
    <3>4. CASE stride = W - w
      <4>1. cell(i, j) = ((y + i) * W + (x + j)) - i * w
        BY <2>1, <3>4
      <4>2. i * w >= 0 /\ i * w \in Int
        BY <2>1, Z3
      <4>3. y * W >= 0 /\ i * (W - w) >= 0 /\ y * W \in Int /\ i * (W - w) \in Int
        BY <2>1, Z3
      <4>4. cell(i, j) >= 0 /\ cell(i, j) \in Int
        <5> DEFINE a == y * W
                   c == i * (W - w)
        <5>1. a \in Int /\ a >= 0 /\ c \in Int /\ c >= 0 /\ cell(i, j) = x + a + c + j
          BY <3>4, <4>3, Zenon
        <5> HIDE DEF a, c
        <5> QED
          BY <2>1, <5>1
      <4>5. cell(i, j) <= (y + i) * W + (x + j)
        <5> DEFINE a == (y + i) * W + (x + j)
                   c == i * w
        <5>1. a \in Int /\ c \in Int /\ c >= 0 /\ cell(i, j) = a - c
          <6>1. a \in 0 .. W * H - 1 /\ W * H \in Int
            BY <2>1, <3>2
          <6> HIDE DEF cell
          <6>2. cell(i, j) = a - c
            BY <4>1
          <6> HIDE DEF a
          <6> QED
            BY <4>2, <6>1, <6>2
        <5> HIDE DEF a, c, cell
        <5>2. cell(i, j) <= a
          BY <5>1
        <5> QED
          BY <5>2 DEF a
      <4>6. cell(i, j) \in 0 .. W * H - 1
        <5> DEFINE a == (y + i) * W + (x + j)
                   c == W * H
        <5>1. a \in 0 .. c - 1 /\ c \in Int /\ cell(i, j) <= a
          BY <2>1, <3>2, <4>5
        <5> HIDE DEF a, c, cell
        <5>2. cell(i, j) \in 0 .. c - 1
          BY <4>4, <5>1
        <5> QED
          BY <5>2 DEF c
      <4>7. stride = W => w = 0
        BY <2>1, <3>4
      <4>8. w # 0
        BY <2>1
      <4> QED
        BY <4>6, <4>7, <4>8, Zenon DEF Cells, W, H
    <3> QED
      BY <2>4, <3>3, <3>4
  <2>6. Filled(p, b.x, b.y, b.w, b.h) \subseteq Cells(p)
    <3> HIDE DEF cell
    <3> QED
      BY <2>3, <2>5
  <2>7. ASSUME p.format # "GRAY"
        PROVE  Filled(p, b.x, b.y, b.w, b.h) = Rectangle(p, b)
    <3>1. stride = W
      BY <2>4, <2>7
    <3>2. \A c : c \in Rectangle(p, b) <=>
            /\ c \in Cells(p)
            /\ c % W >= x /\ c % W < x + b.w /\ c \div W >= y /\ c \div W < y + b.h
      BY Zenon DEF Rectangle, x, y, W, H
    <3>3. ASSUME NEW i \in 0 .. h - 1, NEW j \in 0 .. w - 1
          PROVE  cell(i, j) \in Rectangle(p, b)
      <4>1. y + i \in 0 .. H - 1 /\ x + j \in 0 .. W - 1
        BY <2>1
      <4>2. (x + j) - x = j /\ (y + i) - y = i
        BY <2>1
      <4>3. x + j >= x /\ x + j < x + b.w /\ y + i >= y /\ y + i < y + b.h
        BY <2>2, <4>1, <4>2, Zenon
      <4> HIDE DEF cell
      <4> QED
        BY <2>5, <3>1, <3>2, <4>3, Zenon
    <3>4. ASSUME NEW c \in Rectangle(p, b)
          PROVE  \E i \in 0 .. h - 1, j \in 0 .. w - 1 : c = cell(i, j)
      <4> DEFINE q == c \div W
                 r == c % W
      <4>1. c \in 0 .. W * H - 1 /\ r >= x /\ r < x + b.w /\ q >= y /\ q < y + b.h
        BY <3>2, Zenon DEF Cells, W, H
      <4>2. q \in 0 .. H - 1 /\ r \in 0 .. W - 1 /\ c = q * W + r
        BY <2>1, <4>1, CellsOf
      <4> HIDE DEF q, r
      <4>3. r - x \in 0 .. w - 1 /\ q - y \in 0 .. h - 1
        BY <2>2, <4>1, <4>2, Zenon
      <4>4. cell(q - y, r - x) = q * W + r
        BY <2>1, <3>1, <4>2
      <4> HIDE DEF cell
      <4> QED
        BY <4>2, <4>3, <4>4, Zenon
    <3> HIDE DEF cell
    <3> QED
      BY <2>3, <3>3, <3>4
  <2> QED
    BY <2>6, <2>7, Zenon
<1> QED
  BY <1>1, <1>2

ImageInv == (Conversions \/ Drawings) /\ PixelsRight

LEMMA ConvertsRight ==
  ASSUME Conversions \/ Drawings, el_img_convert
  PROVE  (code' = "OK" => Converted(src, dst, pixels')) /\ code' # "void"
<1>1. Conversions
  BY DEF Drawings, el_img_convert
<1>2. CASE src = None \/ dst = None
  <2>1. None.format = "null"
    BY DEF None
  <2>2. ~(src.format \in RGB /\ dst.format \in RGB) /\ ~(src.format = "YUV422" /\ dst.format \in RGB)
    BY <1>2, <2>1 DEF RGB
  <2> QED
    BY <1>2, <2>2 DEF el_img_convert
<1>3. CASE src # None /\ dst # None /\ src \in Picture(RGB, {0}) /\ dst \in Picture(RGB, Rotations)
  <2>1. src.format \in RGB /\ dst.format \in RGB
    BY <1>3, SidesAre
  <2>2. code' = "OK" /\ pixels' = rgb_to_rgb(src, dst)
    BY <1>3, <2>1 DEF el_img_convert, RGB
  <2> QED
    BY <1>3, <2>2, RgbConverts
<1>4. CASE src # None /\ dst # None /\ src \in Picture({"YUV422"}, Rotations) /\ dst \in Picture(RGB, Rotations)
  <2>1. src.format = "YUV422" /\ dst.format \in RGB
    BY <1>4, SidesAre
  <2>2. code' = "OK" /\ (pixels' \in YuvTo888(src, dst) \/ pixels' \in YuvToOther(src, dst))
    BY <1>4, <2>1 DEF el_img_convert, RGB
  <2>3. PICK f \in Roundings(src.h, dst.h), g \in Roundings(src.w, dst.w) :
          pixels' = YuvPixels(src, dst, f, g)
    BY <2>2 DEF YuvTo888, YuvToOther
  <2> QED
    BY <1>4, <2>2, <2>3, YuvConverts
<1>5. CASE src # None /\ dst # None /\ dst \in Picture({"JPEG"}, {0})
  <2>1. dst.format = "JPEG"
    BY <1>5, SidesAre
  <2> QED
    BY <1>5, <2>1 DEF el_img_convert, RGB
<1>6. \/ src \in Picture(RGB, {0}) /\ dst \in Picture(RGB, Rotations)
      \/ src \in Picture({"YUV422"}, Rotations) /\ dst \in Picture(RGB, Rotations)
      \/ dst \in Picture({"JPEG"}, {0}) \cup {None}
  BY <1>1 DEF Conversions
<1> QED
  BY <1>2, <1>3, <1>4, <1>5, <1>6

LEMMA DrawsRight ==
  ASSUME Conversions \/ Drawings, el_draw_point \/ el_fill_rect \/ el_draw_rect
  PROVE  /\ code' = "void" /\ pixels' \subseteq Cells(dst)
         /\ call = "fill" /\ dst.format # "GRAY" => pixels' = Rectangle(dst, box)
<1>1. Drawings
  BY DEF Conversions, el_draw_point, el_fill_rect, el_draw_rect
<1>2. dst.w \in Nat \ {0} /\ dst.h \in Nat \ {0}
  BY <1>1, SidesAre DEF Drawings
<1>3. box.x \in Int /\ box.y \in Int /\ box.w \in Int /\ box.h \in Int
  BY <1>1, ImageAssumption DEF Drawings
<1>4. CASE el_draw_point
  BY <1>4 DEF el_draw_point
<1>5. CASE el_fill_rect
  BY <1>2, <1>3, <1>5, FilledInside DEF el_fill_rect
<1>6. CASE el_draw_rect
  <2>1. ASSUME NEW x \in Int, NEW y \in Int, NEW w \in Int, NEW h \in Int
        PROVE  Filled(dst, x, y, w, h) \subseteq Cells(dst)
    <3> DEFINE b == [x |-> x, y |-> y, w |-> w, h |-> h]
    <3>1. b.x = x /\ b.y = y /\ b.w = w /\ b.h = h
      OBVIOUS
    <3> HIDE DEF b
    <3> QED
      BY <1>2, <2>1, <3>1, FilledInside
  <2>2. ASSUME NEW x \in Int, NEW y \in Int, NEW z \in Int
        PROVE  HLine(dst, x, y, z) \subseteq Cells(dst) /\ VLine(dst, x, y, z) \subseteq Cells(dst)
    BY <2>1 DEF HLine, VLine
  <2>3. ASSUME NEW i \in 0 .. 1
        PROVE  LET left == box.x + i            top == box.y + i
                   right == box.x - i + box.w   bottom == box.y - i + box.h
               IN  HLine(dst, left, right, top) \cup HLine(dst, left, right + 1, bottom)
                   \cup VLine(dst, left, top, bottom) \cup VLine(dst, right, top, bottom + 1)
                     \subseteq Cells(dst)
    <3>1. /\ box.x + i \in Int /\ box.y + i \in Int
          /\ box.x - i + box.w \in Int /\ box.y - i + box.h \in Int
          /\ (box.x - i + box.w) + 1 \in Int /\ (box.y - i + box.h) + 1 \in Int
      BY <1>3
    <3> QED
      BY <2>2, <3>1
  <2>4. pixels' \subseteq Cells(dst)
    BY <1>6, <2>3 DEF el_draw_rect
  <2> QED
    BY <1>6, <2>4 DEF el_draw_rect
<1> QED
  BY <1>4, <1>5, <1>6

\* For pictures of every size up to 32767 a side: each pixel of a converted picture is the
\* one that stands there or, where the sampling rounds, the one before it (after it as
\* well, where it rounds in floats), and nothing is drawn outside of the picture.
THEOREM EveryPixelRight == ImageSpec => []PixelsRight
<1>1. ImageInit => ImageInv
  BY DEF ImageInit, ImageInv, PixelsRight
<1>2. ImageInv /\ [ImageNext]_imageVars => ImageInv'
  <2> SUFFICES ASSUME ImageInv, [ImageNext]_imageVars PROVE ImageInv'
    OBVIOUS
  <2>1. UNCHANGED <<call, src, dst, box>>
    BY DEF ImageNext, imageVars
  <2>2. (Conversions \/ Drawings)'
    BY <2>1 DEF ImageInv, Conversions, Drawings
  <2>3. CASE UNCHANGED imageVars
    BY <2>2, <2>3 DEF ImageInv, PixelsRight, imageVars
  <2>4. CASE ImageNext
    <3>1. src' = src /\ dst' = dst /\ call' = call /\ box' = box
      BY <2>1
    <3>2. Conversions \/ Drawings
      BY DEF ImageInv
    <3>3. ASSUME el_img_convert PROVE PixelsRight'
      <4>1. (code' = "OK" => Converted(src, dst, pixels')) /\ code' # "void"
        BY <3>2, <3>3, ConvertsRight
      <4> QED
        BY <3>1, <4>1, Zenon DEF PixelsRight
    <3>4. ASSUME el_draw_point \/ el_fill_rect \/ el_draw_rect PROVE PixelsRight'
      <4>1. /\ code' = "void" /\ pixels' \subseteq Cells(dst)
            /\ call = "fill" /\ dst.format # "GRAY" => pixels' = Rectangle(dst, box)
        BY <3>2, <3>4, DrawsRight
      <4>2. code' # "OK"
        BY <4>1
      <4> QED
        BY <3>1, <4>1, <4>2, Zenon DEF PixelsRight
    <3> QED
      BY <2>2, <2>4, <3>3, <3>4 DEF ImageNext, ImageInv
  <2> QED
    BY <2>2, <2>3, <2>4 DEF ImageInv
<1> QED
  BY <1>1, <1>2, PTL DEF ImageSpec, ImageInv

-----------------------------------------------------------------------------
(* ModelScan: what the scan has listed so far. *)

\* Multiples of a step.
LEMMA Multiples ==
  ASSUME NEW s \in Nat \ {0}, NEW a \in Nat, NEW b \in Nat, a % s = 0, b % s = 0
  PROVE  /\ (a + s) % s = 0
         /\ (a + b) % s = 0
         /\ a < b => a + s <= b
         /\ s > 1 => (a + 1) % s # 0
<1> DEFINE p == a \div s
           q == b \div s
<1>1. p \in Int /\ a = p * s
  BY Division
<1>2. q \in Int /\ b = q * s
  BY Division
<1> HIDE DEF p, q
<1>3. (a + s) % s = 0
  <2>1. a + s = (p + 1) * s + 0
    BY <1>1
  <2> QED
    BY <1>1, <2>1, DivisionUnique
<1>4. (a + b) % s = 0
  <2>1. a + b = (p + q) * s + 0
    BY <1>1, <1>2
  <2> QED
    BY <1>1, <1>2, <2>1, DivisionUnique
<1>5. ASSUME a < b
      PROVE  a + s <= b
  <2>1. (q - p) * s = b - a
    BY <1>1, <1>2
  <2>2. q - p > 0
    <3>1. ASSUME q - p <= 0
          PROVE  (p - q) * s >= 0
      BY <1>1, <1>2, <3>1, Z3
    <3>2. (p - q) * s = a - b
      BY <1>1, <1>2
    <3> QED
      BY <1>1, <1>2, <1>5, <3>1, <3>2
  <2>3. (q - p) * s >= s
    BY <1>1, <1>2, <2>2, Product
  <2> QED
    BY <2>1, <2>3
<1>6. ASSUME s > 1
      PROVE  (a + 1) % s # 0
  <2>1. a + 1 = p * s + 1
    BY <1>1
  <2>2. 1 \in 0 .. s - 1
    BY <1>6
  <2>3. (p * s + 1) % s = 1
    BY <1>1, <2>2, DivisionUnique
  <2> QED
    BY <2>1, <2>3
<1> QED
  BY <1>3, <1>4, <1>5, <1>6

LEMMA NoneBetween ==
  ASSUME NEW s \in Nat \ {0}, NEW a \in Nat, NEW b \in Nat, a % s = 0, b % s = 0, b < a + s
  PROVE  b <= a
<1>1. a < b => a + s <= b
  BY Multiples
<1> QED
  BY <1>1

ScanTypes ==
  /\ flash \in [0 .. Size - 1 -> Contents] /\ seekStep \in Nat \ {0}
  /\ format \in {"packed", "plain", "both", "undefined"}
  /\ phase \in {"init", "failed", "packed", "plain", "done"}
  /\ it \in Nat /\ model_id \in Nat
  /\ model_info \subseteq [id : Nat, type : Nat, flash : 0 .. Size - 1, size : Nat, memory : Nat]
  /\ IsFiniteSet(model_info)

\* A record is that of the header before the model, or one the plain scan made up.
PackedRecord(m) ==
  /\ m.size > 0 /\ m.flash + m.size <= Size /\ m.memory = m.flash + 1
  /\ flash[m.flash] = Header(m.id, m.type, m.size)
PlainRecord(m) == m.size = 0 /\ m.memory = m.flash

Records ==
  /\ model_id_mask = {m.id : m \in model_info}
  /\ \A m, n \in model_info : m.id = n.id => m = n
  /\ \A m \in model_info : PackedRecord(m) \/ PlainRecord(m)

\* The packed scan comes first, and the plain one has given out every id below model_id.
Scanned ==
  /\ phase \in {"init", "packed"} => model_id = 1
  /\ phase = "init" => it = 0 /\ model_info = {}
  /\ phase = "packed" => \A m \in model_info : m.size > 0 /\ m.flash < it
  /\ phase = "plain" => \A m \in model_info : m.size > 0 \/ m.flash < it
  /\ \A i \in 1 .. model_id - 1 : i \in model_id_mask

\* Nothing that is to be listed has been passed by, if the partition is laid out for it.
Fits ==
  \A a \in Packed :
    /\ flash[a].size % seekStep = 0
    /\ \A b \in Packed : b > a => b > a + flash[a].size
PackedListed(n) ==
  \A a \in Packed : a < n => \E m \in model_info : m.id = flash[a].id /\ m.flash <= a /\ m.size > 0
PlainListed(n) ==
  \A a \in 0 .. Size - 1 :
    a < n /\ Aligned(a) /\ flash[a] = Plain => \E m \in model_info : m.flash = a

Covered ==
  format = "both" /\ Fits =>
    /\ phase \in {"init", "packed", "plain"} => Aligned(it)
    /\ \A m \in model_info : Aligned(m.flash)
    /\ phase = "packed" => PackedListed(it)
    /\ phase \in {"plain", "done"} => PackedListed(Size)
    /\ phase = "plain" /\ seekStep > 1 => PlainListed(it)
    /\ phase = "done" /\ seekStep > 1 =>
         PlainListed(Size) \/ \A i \in 1 .. LastId : i \in model_id_mask

ScanInv == ScanTypes /\ Records /\ Scanned /\ Covered

\* What is laid out in the partition does not change.
LEMMA Layout ==
  ASSUME UNCHANGED <<flash, seekStep>>
  PROVE  /\ Fits' <=> Fits
         /\ Packed' = Packed
         /\ \A a : Aligned(a)' <=> Aligned(a)
         /\ \A m : PackedRecord(m)' <=> PackedRecord(m)
<1>1. \A a : Aligned(a)' <=> Aligned(a)
  BY DEF Aligned
<1>2. Packed' = Packed
  BY <1>1 DEF Packed
<1>3. Fits' <=> Fits
  BY <1>2 DEF Fits
<1>4. \A m : PackedRecord(m)' <=> PackedRecord(m)
  BY DEF PackedRecord
<1> QED
  BY <1>1, <1>2, <1>3, <1>4

\* One more record, of an id that is free.
LEMMA OneMore ==
  ASSUME ScanTypes, Records, UNCHANGED <<flash, seekStep>>,
         NEW r \in [id : Nat, type : Nat, flash : 0 .. Size - 1, size : Nat, memory : Nat],
         PackedRecord(r) \/ PlainRecord(r), r.id \notin model_id_mask,
         model_info' = model_info \cup {r}, model_id_mask' = model_id_mask \cup {r.id}
  PROVE  /\ model_info' \subseteq [id : Nat, type : Nat, flash : 0 .. Size - 1, size : Nat,
                                   memory : Nat]
         /\ IsFiniteSet(model_info')
         /\ Records'
<1>1. model_info' \subseteq [id : Nat, type : Nat, flash : 0 .. Size - 1, size : Nat, memory : Nat]
  BY DEF ScanTypes
<1>2. IsFiniteSet(model_info')
  BY FS_AddElement DEF ScanTypes
<1>3. model_id_mask' = {m.id : m \in model_info'}
  BY DEF Records
<1>4. \A m, n \in model_info' : m.id = n.id => m = n
  BY DEF Records
<1>5. \A m \in model_info' : PackedRecord(m)' \/ PlainRecord(m)'
  BY Layout DEF Records, PlainRecord
<1> QED
  BY <1>1, <1>2, <1>3, <1>4, <1>5 DEF Records

LEMMA ScanStarts == ScanInit => ScanInv
<1> SUFFICES ASSUME ScanInit PROVE ScanInv
  OBVIOUS
<1> USE ScanAssumption DEF ScanInit
<1>1. ScanTypes
  BY FS_EmptySet DEF ScanTypes
<1>2. Records
  BY DEF Records
<1>3. Scanned
  BY DEF Scanned
<1>4. Covered
  <2>1. 0 % seekStep = 0
    BY <1>1, DivisionUnique DEF ScanTypes
  <2> QED
    BY <2>1 DEF Covered, Aligned
<1> QED
  BY <1>1, <1>2, <1>3, <1>4 DEF ScanInv

\* Records that stay are listed as before.
LEMMA StillListed ==
  ASSUME UNCHANGED <<flash, seekStep>>, model_info \subseteq model_info', NEW n
  PROVE  /\ PackedListed(n) => PackedListed(n)'
         /\ PlainListed(n) => PlainListed(n)'
<1>1. PackedListed(n) => PackedListed(n)'
  BY Layout DEF PackedListed
<1>2. PlainListed(n) => PlainListed(n)'
  BY Layout DEF PlainListed
<1> QED
  BY <1>1, <1>2

LEMMA MmapFailsKeeps ==
  ASSUME ScanInv, MmapFails
  PROVE  ScanInv'
<1> USE DEF ScanInv, MmapFails
<1>1. ScanTypes'
  BY DEF ScanTypes
<1>2. Records'
  BY Layout DEF Records, PlainRecord
<1>3. Scanned'
  BY DEF Scanned
<1>4. Covered'
  BY Layout DEF Covered
<1> QED
  BY <1>1, <1>2, <1>3, <1>4

LEMMA SeekKeeps ==
  ASSUME ScanInv, Seek
  PROVE  ScanInv'
<1> USE DEF ScanInv, Seek
<1>1. ScanTypes'
  BY FS_EmptySet DEF ScanTypes
<1>2. Records'
  BY DEF Records
<1>3. Scanned'
  BY DEF Scanned, ScanTypes
<1>4. Covered'
  <2>1. it = 0 /\ (format = "both" => phase' = "packed")
    BY DEF Scanned
  <2>2. PackedListed(0)'
    BY DEF PackedListed, Packed
  <2> QED
    BY <2>1, <2>2, Layout DEF Covered
<1> QED
  BY <1>1, <1>2, <1>3, <1>4

LEMMA PackedPassedKeeps ==
  ASSUME ScanInv, PackedPassed
  PROVE  ScanInv'
<1> USE DEF ScanInv, PackedPassed, Scanning
<1>1. it < Size /\ it \in 0 .. Size - 1 /\ it' = it + seekStep /\ phase = "packed"
  BY ScanAssumption DEF ScanTypes
<1>2. ScanTypes'
  BY DEF ScanTypes
<1>3. Records'
  BY Layout DEF Records, PlainRecord
<1>4. Scanned'
  BY DEF Scanned, ScanTypes
<1>5. Covered'
  <2> SUFFICES ASSUME format = "both", Fits PROVE Aligned(it)' /\ PackedListed(it)'
    BY <1>1, Layout DEF Covered
  <2>1. it % seekStep = 0 /\ PackedListed(it)
    BY <1>1 DEF Covered, Aligned
  <2>2. Aligned(it)'
    BY <1>1, <2>1, Multiples DEF Aligned, ScanTypes
  <2>3. ASSUME NEW a \in Packed, a < it + seekStep
        PROVE  a < it
    <3>1. a \in Nat /\ a % seekStep = 0
      BY ScanAssumption DEF Packed, Aligned
    <3>2. a <= it
      <4>1. seekStep \in Nat \ {0} /\ it \in Nat
        BY DEF ScanTypes
      <4> QED
        BY <2>1, <2>3, <3>1, <4>1, NoneBetween
    <3>3. a # it
      BY DEF Packed
    <3> QED
      BY <3>1, <3>2, <3>3 DEF ScanTypes
  <2>4. PackedListed(it)'
    BY <1>1, <2>1, <2>3, Layout DEF PackedListed
  <2> QED
    BY <2>2, <2>4
<1> QED
  BY <1>2, <1>3, <1>4, <1>5

LEMMA PackedFoundKeeps ==
  ASSUME ScanInv, PackedFound
  PROVE  ScanInv'
<1> USE DEF ScanInv, PackedFound, Scanning
<1> DEFINE h == flash[it]
           r == PackedModel(h, it)
<1>1. it \in 0 .. Size - 1 /\ phase = "packed" /\ phase' = "packed"
  BY ScanAssumption DEF ScanTypes
<1>2. /\ h \in Contents /\ h.kind = "header" /\ h.size > 0 /\ h.size <= Size - it
      /\ h.size \in Nat /\ it' = it + h.size + seekStep /\ it' \in Nat /\ it < it'
  BY <1>1 DEF Usable, Contents, ScanTypes
<1>3. /\ r \in [id : Nat, type : Nat, flash : 0 .. Size - 1, size : Nat, memory : Nat]
      /\ PackedRecord(r) /\ r.id = h.id /\ r.flash = it /\ r.size > 0
  <2>1. flash[it] = Header(h.id, h.type, h.size)
    BY <1>2 DEF Header, Contents
  <2>2. r = [id |-> h.id, type |-> h.type, flash |-> it, size |-> h.size, memory |-> it + 1]
    BY DEF PackedModel
  <2>3. h.id \in Nat /\ h.type \in Nat
    BY <1>2 DEF Contents
  <2>6. it \in Nat /\ flash \in [0 .. Size - 1 -> Contents]
    BY DEF ScanTypes
  <2> HIDE DEF h, r
  <2>4. r \in [id : Nat, type : Nat, flash : 0 .. Size - 1, size : Nat, memory : Nat]
    BY <1>1, <1>2, <2>2, <2>3
  <2>5. PackedRecord(r)
    <3>1. /\ r.size = h.size /\ r.flash = it /\ r.memory = it + 1 /\ r.id = h.id
          /\ r.type = h.type
      BY <2>2
    <3>2. h.size > 0 /\ it + h.size <= Size
      BY <1>1, <1>2, <2>6, ScanAssumption
    <3> QED
      BY <2>1, <3>1, <3>2 DEF PackedRecord
  <2> QED
    BY <1>2, <2>2, <2>4, <2>5
<1>4. model_info \subseteq model_info'
  OBVIOUS
<1>5. \E m \in model_info' : m.id = h.id /\ m.flash <= it /\ m.size > 0
  <2>1. CASE h.id \in model_id_mask
    <3>1. PICK m \in model_info : m.id = h.id
      BY <2>1 DEF Records
    <3>2. m.size > 0 /\ m.flash < it /\ m.flash \in Nat
      BY <1>1 DEF Scanned, ScanTypes
    <3> QED
      BY <1>4, <3>1, <3>2, <1>1
  <2>2. CASE h.id \notin model_id_mask
    <3>1. r \in model_info'
      BY <2>2
    <3> QED
      BY <1>3, <1>1, <3>1
  <2> QED
    BY <2>1, <2>2
<1>6. ScanTypes' /\ Records'
  <2>1. CASE h.id \in model_id_mask
    BY <1>2, <2>1, Layout DEF ScanTypes, Records, PlainRecord
  <2>2. CASE h.id \notin model_id_mask
    <3>1. model_info' = model_info \cup {r} /\ model_id_mask' = model_id_mask \cup {r.id}
      BY <1>3, <2>2
    <3> HIDE DEF h, r
    <3>2. r.id \notin model_id_mask
      BY <1>3, <2>2
    <3>3. Records' /\ IsFiniteSet(model_info')
          /\ model_info' \subseteq [id : Nat, type : Nat, flash : 0 .. Size - 1, size : Nat, memory : Nat]
      BY <1>3, <3>1, <3>2, OneMore
    <3> QED
      BY <1>2, <3>3 DEF ScanTypes
  <2> QED
    BY <2>1, <2>2
<1>7. Scanned'
  <2>1. model_id' = 1
    BY <1>1 DEF Scanned
  <2>2. \A m \in model_info' : m.size > 0 /\ m.flash < it'
    <3> TAKE m \in model_info'
    <3>1. CASE m \in model_info
      <4>1. m.size > 0 /\ m.flash < it /\ m.flash \in Nat
        BY <1>1, <3>1 DEF Scanned, ScanTypes
      <4> QED
        BY <1>1, <1>2, <4>1
    <3>2. CASE m \notin model_info
      <4>1. m = r
        BY <3>2
      <4> QED
        BY <1>2, <1>3, <4>1
    <3> QED
      BY <3>1, <3>2
  <2> QED
    BY <1>1, <2>1, <2>2 DEF Scanned
<1>8. Covered'
  <2> SUFFICES ASSUME format = "both", Fits
               PROVE  /\ Aligned(it)' /\ PackedListed(it)'
                      /\ \A m \in model_info' : Aligned(m.flash)'
    BY <1>1, Layout DEF Covered
  <2>1. it % seekStep = 0 /\ PackedListed(it) /\ \A m \in model_info : Aligned(m.flash)
    BY <1>1 DEF Covered, Aligned
  <2>2. it \in Packed
    BY <1>1, <2>1 DEF Packed, Aligned
  <2>3. h.size % seekStep = 0 /\ \A b \in Packed : b > it => b > it + h.size
    BY <2>2 DEF Fits
  <2>4. (it + h.size) % seekStep = 0
    BY <1>1, <1>2, <2>1, <2>3, Multiples DEF ScanTypes
  <2>5. Aligned(it)'
    BY <1>1, <1>2, <2>4, Multiples DEF ScanTypes, Aligned
  <2>6. \A m \in model_info' : Aligned(m.flash)'
    BY <1>3, <2>1 DEF Aligned
  <2>7. PackedListed(it)'
    <3> SUFFICES ASSUME NEW a \in Packed, a < it'
                 PROVE  \E m \in model_info' : m.id = flash[a].id /\ m.flash <= a /\ m.size > 0
      BY Layout DEF PackedListed
    <3>1. a \in Nat /\ a % seekStep = 0
      BY ScanAssumption DEF Packed, Aligned
    <3>2. CASE a < it
      BY <1>4, <2>1, <3>2 DEF PackedListed
    <3>3. CASE a = it
      BY <1>5, <3>3
    <3>4. ~(a > it)
      <4> SUFFICES ASSUME a > it PROVE FALSE
        OBVIOUS
      <4>1. a > it + h.size
        BY <2>3
      <4>2. it + h.size + seekStep <= a
        BY <1>1, <1>2, <2>4, <3>1, <4>1, Multiples DEF ScanTypes
      <4> QED
        BY <1>1, <1>2, <3>1, <4>2 DEF ScanTypes
    <3> QED
      BY <1>1, <3>1, <3>2, <3>3, <3>4
  <2> QED
    BY <2>5, <2>6, <2>7
<1> QED
  BY <1>6, <1>7, <1>8

LEMMA PackedEndKeeps ==
  ASSUME ScanInv, PackedEnd
  PROVE  ScanInv'
<1> USE DEF ScanInv, PackedEnd
<1>1. ScanTypes'
  BY DEF ScanTypes
<1>2. Records'
  BY Layout DEF Records, PlainRecord
<1>3. Scanned'
  BY DEF Scanned, ScanTypes
<1>4. Covered'
  <2> SUFFICES ASSUME format = "both", Fits
               PROVE  /\ Aligned(0)' /\ PackedListed(Size)'
                      /\ \A m \in model_info : Aligned(m.flash)
                      /\ PlainListed(0)'
    BY Layout DEF Covered
  <2>1. 0 % seekStep = 0
    BY DivisionUnique DEF ScanTypes
  <2>2. PackedListed(it) /\ \A m \in model_info : Aligned(m.flash)
    BY DEF Covered
  <2>3. PackedListed(Size)
    BY <2>2, ScanAssumption DEF PackedListed, Packed, ScanTypes
  <2>4. PlainListed(0)'
    BY ScanAssumption DEF PlainListed
  <2> QED
    BY <2>1, <2>2, <2>3, <2>4, StillListed DEF Aligned
<1> QED
  BY <1>1, <1>2, <1>3, <1>4

LEMMA PlainPassedKeeps ==
  ASSUME ScanInv, PlainPassed
  PROVE  ScanInv'
<1> USE DEF ScanInv, PlainPassed, Scanning
<1>1. it \in 0 .. Size - 1 /\ it' = it + seekStep /\ phase = "plain" /\ flash[it] # Plain
  BY ScanAssumption DEF ScanTypes, HasMagic, Plain
<1>2. ScanTypes'
  BY DEF ScanTypes
<1>3. Records'
  BY Layout DEF Records, PlainRecord
<1>4. Scanned'
  BY DEF Scanned, ScanTypes
<1>5. Covered'
  <2> SUFFICES ASSUME format = "both", Fits
               PROVE  Aligned(it)' /\ (seekStep > 1 => PlainListed(it)')
    BY <1>1, Layout, StillListed DEF Covered
  <2>1. it % seekStep = 0 /\ (seekStep > 1 => PlainListed(it))
    BY <1>1 DEF Covered, Aligned
  <2>2. Aligned(it)'
    BY <1>1, <2>1, Multiples DEF Aligned, ScanTypes
  <2>3. ASSUME NEW a \in 0 .. Size - 1, a < it + seekStep, a % seekStep = 0, a # it
        PROVE  a < it
    <3>1. seekStep \in Nat \ {0} /\ it \in Nat /\ a \in Nat
      BY ScanAssumption DEF ScanTypes
    <3>2. a <= it
      BY <2>1, <2>3, <3>1, NoneBetween
    <3> QED
      BY <2>3, <3>1, <3>2
  <2>4. PlainListed(it) => PlainListed(it)'
    BY <1>1, <2>3 DEF PlainListed, Aligned
  <2> QED
    BY <2>1, <2>2, <2>4
<1> QED
  BY <1>2, <1>3, <1>4, <1>5

LEMMA PlainBreakKeeps ==
  ASSUME ScanInv, PlainBreak
  PROVE  ScanInv'
<1> USE DEF ScanInv, PlainBreak, Scanning
<1>1. it \in 0 .. Size - 1 /\ phase = "plain" /\ phase' = "done"
  BY ScanAssumption DEF ScanTypes
<1>2. ScanTypes'
  BY DEF ScanTypes
<1>3. Records'
  BY Layout DEF Records, PlainRecord
<1>4. Scanned'
  BY DEF Scanned, ScanTypes
<1>5. Covered'
  <2> SUFFICES ASSUME format = "both", Fits, seekStep > 1
               PROVE  \A i \in 1 .. LastId : i \in model_id_mask
    BY <1>1, Layout, StillListed DEF Covered
  <2>1. it % seekStep = 0 /\ \A m \in model_info : Aligned(m.flash)
    BY <1>1 DEF Covered, Aligned
  <2>2. ~Listed(it)
    <3> SUFFICES ASSUME NEW m \in model_info, m.memory = it PROVE FALSE
      BY DEF Listed
    <3>1. m.flash \in Nat /\ m.flash % seekStep = 0
      BY <2>1, ScanAssumption DEF Aligned, ScanTypes
    <3>2. CASE PackedRecord(m)
      <4>1. it = m.flash + 1
        BY <3>2 DEF PackedRecord
      <4>2. (m.flash + 1) % seekStep # 0
        BY <3>1, Multiples DEF ScanTypes
      <4> QED
        BY <2>1, <4>1, <4>2
    <3>3. CASE PlainRecord(m)
      BY <1>1, <3>1, <3>3 DEF PlainRecord, Scanned, ScanTypes
    <3> QED
      BY <3>2, <3>3 DEF Records
  <2>3. \A i \in model_id .. LastId : i \in model_id_mask
    BY <2>2 DEF Free
  <2> QED
    BY <2>3, ScanAssumption DEF Scanned, ScanTypes
<1> QED
  BY <1>2, <1>3, <1>4, <1>5

LEMMA PlainFoundKeeps ==
  ASSUME ScanInv, PlainFound
  PROVE  ScanInv'
<1> USE DEF ScanInv, PlainFound, Scanning
<1>1. it \in 0 .. Size - 1 /\ phase = "plain" /\ phase' = "plain" /\ it' = it + seekStep
  BY ScanAssumption DEF ScanTypes
<1>2. PICK i \in Free :
        /\ \A j \in Free : i <= j
        /\ model_id' = i
        /\ model_id_mask' = model_id_mask \cup {i}
        /\ model_info' = model_info \cup
             {[id |-> i, type |-> UndefinedType, flash |-> it, size |-> 0, memory |-> it]}
  OBVIOUS
<1>3. i \in Nat /\ i \in model_id .. LastId /\ i \notin model_id_mask
  BY ScanAssumption DEF Free, ScanTypes
<1> DEFINE r == [id |-> i, type |-> UndefinedType, flash |-> it, size |-> 0, memory |-> it]
<1>4. /\ r \in [id : Nat, type : Nat, flash : 0 .. Size - 1, size : Nat, memory : Nat]
      /\ PlainRecord(r) /\ r.id = i /\ r.flash = it /\ r.size = 0
  BY <1>1, <1>3 DEF PlainRecord, UndefinedType
<1>5. model_info' = model_info \cup {r}
  BY <1>2
<1> HIDE DEF r
<1>6. /\ Records' /\ IsFiniteSet(model_info')
      /\ model_info' \subseteq [id : Nat, type : Nat, flash : 0 .. Size - 1, size : Nat, memory : Nat]
  BY <1>2, <1>3, <1>4, <1>5, OneMore
<1>7. ScanTypes'
  BY <1>1, <1>2, <1>3, <1>6 DEF ScanTypes
<1>8. Scanned'
  <2>1. \A m \in model_info' : m.size > 0 \/ m.flash < it'
    BY <1>1, <1>4, <1>5, ScanAssumption DEF Scanned, ScanTypes
  <2>2. \A j \in 1 .. i - 1 : j \in model_id_mask
    <3> TAKE j \in 1 .. i - 1
    <3>1. CASE j < model_id
      BY <1>3, <3>1 DEF Scanned, ScanTypes
    <3>2. CASE j >= model_id
      <4>1. j \in model_id .. LastId /\ ~(i <= j)
        BY <1>3, <3>2, ScanAssumption DEF ScanTypes
      <4> QED
        BY <1>2, <4>1 DEF Free
    <3> QED
      BY <3>1, <3>2 DEF ScanTypes
  <2> QED
    BY <1>1, <1>2, <2>1, <2>2 DEF Scanned
<1>9. Covered'
  <2> SUFFICES ASSUME format = "both", Fits
               PROVE  /\ Aligned(it)'
                      /\ \A m \in model_info' : Aligned(m.flash)'
                      /\ seekStep > 1 => PlainListed(it)'
    BY <1>1, <1>5, Layout, StillListed DEF Covered
  <2>1. it % seekStep = 0 /\ (seekStep > 1 => PlainListed(it)) /\ \A m \in model_info : Aligned(m.flash)
    BY <1>1 DEF Covered, Aligned
  <2>2. Aligned(it)'
    BY <1>1, <2>1, Multiples DEF Aligned, ScanTypes
  <2>3. ASSUME NEW a \in 0 .. Size - 1, a < it + seekStep, a % seekStep = 0, a # it
        PROVE  a < it
    <3>1. seekStep \in Nat \ {0} /\ it \in Nat /\ a \in Nat
      BY ScanAssumption DEF ScanTypes
    <3>2. a <= it
      BY <2>1, <2>3, <3>1, NoneBetween
    <3> QED
      BY <2>3, <3>1, <3>2
  <2>4. PlainListed(it) => PlainListed(it)'
    BY <1>1, <1>4, <1>5, <2>3 DEF PlainListed, Aligned
  <2>5. \A m \in model_info' : Aligned(m.flash)'
    BY <1>4, <1>5, <2>1 DEF Aligned
  <2> QED
    BY <2>1, <2>2, <2>4, <2>5
<1> QED
  BY <1>6, <1>7, <1>8, <1>9

LEMMA PlainEndKeeps ==
  ASSUME ScanInv, PlainEnd
  PROVE  ScanInv'
<1> USE DEF ScanInv, PlainEnd
<1>1. ScanTypes'
  BY DEF ScanTypes
<1>2. Records'
  BY Layout DEF Records, PlainRecord
<1>3. Scanned'
  BY DEF Scanned, ScanTypes
<1>4. Covered'
  <2> SUFFICES ASSUME format = "both", Fits, seekStep > 1 PROVE PlainListed(Size)'
    BY Layout, StillListed DEF Covered
  <2>1. PlainListed(it)
    BY DEF Covered
  <2>2. PlainListed(Size)
    BY <2>1, ScanAssumption DEF PlainListed, ScanTypes
  <2> QED
    BY <2>2, StillListed
<1> QED
  BY <1>1, <1>2, <1>3, <1>4

\* What the scan has listed, whatever is in the partition (PackedFound, PlainFound).
THEOREM ScanInductive == ScanSpec => []ScanInv
<1>1. ScanInv /\ [ScanNext]_scanVars => ScanInv'
  <2> SUFFICES ASSUME ScanInv, [ScanNext]_scanVars PROVE ScanInv'
    OBVIOUS
  <2>1. CASE UNCHANGED scanVars
    <3> USE <2>1 DEF scanVars, ScanInv
    <3>1. ScanTypes'
      BY DEF ScanTypes
    <3>2. Records'
      BY Layout DEF Records, PlainRecord
    <3>3. Scanned'
      BY DEF Scanned
    <3>4. Covered'
      BY Layout, StillListed DEF Covered
    <3> QED
      BY <3>1, <3>2, <3>3, <3>4
  <2>2. CASE ScanNext
    BY <2>2, MmapFailsKeeps, SeekKeeps, PackedPassedKeeps, PackedFoundKeeps, PackedEndKeeps,
       PlainPassedKeeps, PlainBreakKeeps, PlainFoundKeeps, PlainEndKeeps DEF ScanNext
  <2> QED
    BY <2>1, <2>2
<1> QED
  BY ScanStarts, <1>1, PTL DEF ScanSpec

\* The ids given out are no more than the records.
LEMMA EnoughRecords ==
  ASSUME ScanTypes, Records, \A i \in 1 .. LastId : i \in model_id_mask
  PROVE  Cardinality(model_info) >= LastId
<1> DEFINE ids == {m.id : m \in model_info}
           Id(m) == m.id
<1>1. IsFiniteSet(ids) /\ Cardinality(ids) <= Cardinality(model_info)
  <2> DEFINE f == [m \in model_info |-> m.id]
  <2>1. f \in Surjection(model_info, ids)
    BY DEF Surjection
  <2>2. IsFiniteSet(model_info)
    BY DEF ScanTypes
  <2> HIDE DEF f, ids
  <2> QED
    BY <2>1, <2>2, FS_Surjection
<1>2. 1 .. LastId \subseteq ids
  BY DEF Records
<1>3. Cardinality(1 .. LastId) = LastId
  BY FS_Interval, ScanAssumption
<1>4. Cardinality(1 .. LastId) <= Cardinality(ids)
  BY <1>1, <1>2, FS_Subset
<1>5. Cardinality(ids) \in Nat /\ Cardinality(model_info) \in Nat
  BY <1>1, FS_CardinalityType DEF ScanTypes
<1> QED
  BY <1>1, <1>3, <1>4, <1>5, ScanAssumption

\* Every model that can be found is listed, and every id is that of one model.
THEOREM ModelsAreListed == ScanSpec => []ModelsListed
<1>1. ScanInv => ModelsListed
  <2> SUFFICES ASSUME ScanInv PROVE ModelsListed
    OBVIOUS
  <2> USE DEF ScanInv
  <2>1. ASSUME NEW id \in 0 .. LastId
        PROVE  has_model(id) <=> Cardinality(get_model_info(id)) = 1
    <3>1. CASE id \in model_id_mask
      <4>1. PICK m \in model_info : m.id = id
        BY <3>1 DEF Records
      <4>2. get_model_info(id) = {m}
        BY <4>1 DEF get_model_info, Records
      <4> QED
        BY <3>1, <4>2, FS_Singleton DEF has_model
    <3>2. CASE id \notin model_id_mask
      <4>1. get_model_info(id) = {}
        BY <3>2 DEF get_model_info, Records
      <4> QED
        BY <3>2, <4>1, FS_EmptySet DEF has_model
    <3> QED
      BY <3>1, <3>2
  <2>2. ASSUME NEW m \in model_info
        PROVE  /\ m.flash \in 0 .. Size - 1
               /\ m.size = 0 => m.memory = m.flash
               /\ m.size > 0 => /\ flash[m.flash] = Header(m.id, m.type, m.size)
                                /\ m.memory = m.flash + 1 /\ m.memory + m.size <= Size + 1
    BY ScanAssumption DEF Records, PackedRecord, PlainRecord, ScanTypes
  <2>3. ASSUME phase = "done", format = "both", Fits
        PROVE  /\ \A a \in Packed :
                    \E m \in model_info : m.id = flash[a].id /\ m.flash <= a /\ m.size > 0
               /\ seekStep > 1 /\ Cardinality(model_info) < LastId =>
                    \A a \in 0 .. Size - 1 :
                      Aligned(a) /\ flash[a] = Plain => \E m \in model_info : m.flash = a
    <3>1. PackedListed(Size)
      BY <2>3 DEF Covered
    <3>2. \A a \in Packed :
            \E m \in model_info : m.id = flash[a].id /\ m.flash <= a /\ m.size > 0
      BY <3>1, ScanAssumption DEF PackedListed, Packed
    <3>3. ASSUME seekStep > 1, Cardinality(model_info) < LastId
          PROVE  PlainListed(Size)
      <4>1. Cardinality(model_info) \in Nat
        BY FS_CardinalityType DEF ScanTypes
      <4>2. ~\A i \in 1 .. LastId : i \in model_id_mask
        BY <3>3, <4>1, EnoughRecords, ScanAssumption
      <4> QED
        BY <2>3, <3>3, <4>2 DEF Covered
    <3>4. PlainListed(Size) =>
            \A a \in 0 .. Size - 1 :
              Aligned(a) /\ flash[a] = Plain => \E m \in model_info : m.flash = a
      BY ScanAssumption DEF PlainListed
    <3> QED
      BY <3>2, <3>3, <3>4
  <2> QED
    BY <2>1, <2>2, <2>3 DEF ModelsListed, Fits
<1> QED
  BY <1>1, ScanInductive, PTL

-----------------------------------------------------------------------------
(* Algorithms: tensors and what is read of them *)

Products(shape, p) ==
  /\ p \in [0 .. Len(shape) -> Nat]
  /\ p[0] = 1
  /\ \A i \in 1 .. Len(shape) : p[i] = p[i - 1] * shape[i]

LEMMA ElementsAreProducts ==
  ASSUME NEW shape \in Seq(Nat)
  PROVE  \E p : Products(shape, p) /\ Elements(shape) = p[Len(shape)]
<1> DEFINE n == Len(shape)
           g == [i \in 1 .. n |-> [k \in Nat |-> k * shape[i]]]
           Rec(p) == p = [i \in 0 .. n |-> IF i = 0 THEN 1 ELSE p[i - 1] * shape[i]]
           p == CHOOSE f : Rec(f)
<1>1. n \in Nat /\ \A i \in 1 .. n : shape[i] \in Nat
  OBVIOUS
<1>2. Elements(shape) = p[n]
  BY DEF Elements
<1> HIDE DEF p, n
<1>3. \A i \in 1 .. n, k \in Nat : k * shape[i] \in Nat
  BY <1>1
<1>4. g \in [1 .. n -> [Nat -> Nat]]
  BY <1>3
<1> HIDE DEF g
<1>5. PICK f : Recurs(f, n, Nat, 1, g)
  BY <1>1, <1>4, Recursion
<1>6. ASSUME NEW i \in 0 .. n, i # 0
      PROVE  g[i][f[i - 1]] = f[i - 1] * shape[i]
  <2>1. i \in 1 .. n /\ i - 1 \in 0 .. n
    BY <1>1, <1>6
  <2>2. f[i - 1] \in Nat
    BY <1>5, <2>1 DEF Recurs
  <2> QED
    BY <2>1, <2>2 DEF g
<1>7. Rec(f)
  BY <1>5, <1>6, Zenon DEF Recurs
<1>8. Rec(p)
  BY <1>7, Zenon DEF p
<1>9. /\ p[0] = 1
      /\ \A i \in 1 .. n : p[i] = p[i - 1] * shape[i]
      /\ DOMAIN p = 0 .. n
  <2>1. DOMAIN p = 0 .. n /\ \A i \in 0 .. n : p[i] = IF i = 0 THEN 1 ELSE p[i - 1] * shape[i]
    BY <1>8, Zenon
  <2>2. 0 \in 0 .. n /\ \A i \in 1 .. n : i \in 0 .. n /\ i # 0
    BY <1>1
  <2> QED
    BY <2>1, <2>2, Zenon
<1> HIDE DEF Rec
<1>10. \A i \in 0 .. n : p[i] \in Nat
  <2> DEFINE Bad == {i \in 0 .. n : p[i] \notin Nat}
  <2> SUFFICES ASSUME Bad # {} PROVE FALSE
    OBVIOUS
  <2>1. PICK i \in Bad : \A j \in Bad : i <= j
    <3>1. Bad \subseteq Nat
      OBVIOUS
    <3> HIDE DEF Bad
    <3> QED
      BY <3>1, LeastElement
  <2>2. i \in 1 .. n /\ i - 1 \in 0 .. n
    BY <1>1, <1>9, <2>1
  <2>3. p[i - 1] \in Nat
    BY <1>1, <2>1, <2>2
  <2> QED
    BY <1>3, <1>9, <2>1, <2>2, <2>3
<1>11. p = [i \in 0 .. n |-> p[i]]
  BY <1>8 DEF Rec
<1>12. p \in [0 .. n -> Nat]
  BY <1>10, <1>11
<1>13. Products(shape, p)
  BY <1>9, <1>12 DEF Products, n
<1> QED
  BY <1>2, <1>13, Zenon DEF n

\* The elements of a tensor of two, three and four dimensions, and at least those of the
\* first four where there are more and none is zero.
LEMMA ElementsOf ==
  ASSUME NEW shape \in Seq(Nat)
  PROVE  /\ Elements(shape) \in Nat
         /\ Len(shape) = 2 => Elements(shape) = shape[1] * shape[2]
         /\ Len(shape) = 3 => Elements(shape) = (shape[1] * shape[2]) * shape[3]
         /\ Len(shape) = 4 => Elements(shape) = ((shape[1] * shape[2]) * shape[3]) * shape[4]
         /\ Len(shape) >= 4 /\ (\A d \in DOMAIN shape : shape[d] > 0) =>
              Elements(shape) >= ((shape[1] * shape[2]) * shape[3]) * shape[4]
<1> DEFINE n == Len(shape)
<1>1. PICK p : Products(shape, p) /\ Elements(shape) = p[n]
  BY ElementsAreProducts
<1>2. n \in Nat /\ \A i \in 1 .. n : shape[i] \in Nat
  OBVIOUS
<1> HIDE DEF n
<1>3. /\ p \in [0 .. n -> Nat] /\ p[0] = 1
      /\ \A i \in 1 .. n : p[i] = p[i - 1] * shape[i]
  BY <1>1 DEF Products, n
<1>4. p[n] \in Nat
  BY <1>2, <1>3
<1>5. ASSUME n >= 2
      PROVE  p[2] = shape[1] * shape[2]
  <2>1. p[1] = p[0] * shape[1] /\ p[2] = p[1] * shape[2] /\ shape[1] \in Nat
    <3>1. 1 \in 1 .. n /\ 2 \in 1 .. n /\ 1 - 1 = 0 /\ 2 - 1 = 1
      BY <1>2, <1>5
    <3> QED
      BY <1>2, <1>3, <3>1
  <2>2. p[1] = shape[1]
    BY <1>3, <2>1
  <2> QED
    BY <2>1, <2>2
<1>6. ASSUME n >= 3
      PROVE  p[3] = (shape[1] * shape[2]) * shape[3]
  <2>1. 3 \in 1 .. n /\ 3 - 1 = 2 /\ n >= 2
    BY <1>2, <1>6
  <2>2. p[3] = p[2] * shape[3]
    BY <1>3, <2>1
  <2> QED
    BY <1>5, <2>1, <2>2
<1>7. ASSUME n >= 4
      PROVE  p[4] = ((shape[1] * shape[2]) * shape[3]) * shape[4]
  <2>1. 4 \in 1 .. n /\ 4 - 1 = 3 /\ n >= 3
    BY <1>2, <1>7
  <2>2. p[4] = p[3] * shape[4]
    BY <1>3, <2>1
  <2> QED
    BY <1>6, <2>1, <2>2
<1>8. ASSUME n >= 4, \A d \in DOMAIN shape : shape[d] > 0
      PROVE  p[n] >= p[4]
  <2> DEFINE Bad == {i \in 4 .. n : ~(p[i] >= p[4])}
  <2>1. Bad = {}
    <3> SUFFICES ASSUME Bad # {} PROVE FALSE
      OBVIOUS
    <3>1. PICK i \in Bad : \A j \in Bad : i <= j
      <4>1. Bad \subseteq Nat
        OBVIOUS
      <4> HIDE DEF Bad
      <4> QED
        BY <4>1, LeastElement
    <3>2. i \in 4 .. n /\ ~(p[i] >= p[4])
      BY <3>1
    <3>3. 4 \in 0 .. n /\ p[4] \in Nat
      BY <1>2, <1>3, <1>8
    <3>4. i # 4
      BY <3>2, <3>3
    <3>5. i - 1 \in 4 .. n /\ i \in 1 .. n /\ i - 1 \in 0 .. n
      BY <1>2, <3>2, <3>4
    <3>6. i - 1 \notin Bad
      <4> HIDE DEF Bad
      <4> QED
        BY <3>1, <3>2
    <3>7. p[i - 1] >= p[4] /\ p[i - 1] \in Nat /\ p[i] \in Nat
      <4>1. p[i - 1] \in Nat /\ p[i] \in Nat
        <5>1. i \in 0 .. n
          BY <3>5
        <5>2. \A j \in 0 .. n : p[j] \in Nat
          BY <1>3, Zenon
        <5> QED
          BY <3>5, <5>1, <5>2, Zenon
      <4>2. p[i - 1] >= p[4]
        BY <3>5, <3>6
      <4> QED
        BY <4>1, <4>2
    <3>8. shape[i] \in Nat /\ shape[i] > 0 /\ p[i] = p[i - 1] * shape[i]
      <4>1. i \in DOMAIN shape
        BY <3>5 DEF n
      <4> QED
        BY <1>2, <1>3, <1>8, <3>5, <4>1
    <3>9. ASSUME NEW a \in Nat, NEW b \in Nat, b > 0
          PROVE  a * b >= a
      BY <3>9, Z3
    <3>10. p[i] >= p[i - 1]
      BY <3>7, <3>8, <3>9
    <3> QED
      BY <3>2, <3>3, <3>7, <3>10
  <2>2. n \in 4 .. n
    BY <1>2, <1>8
  <2> QED
    BY <2>1, <2>2
<1>9. n = 2 => p[n] = shape[1] * shape[2]
  BY <1>5
<1>10. n = 3 => p[n] = (shape[1] * shape[2]) * shape[3]
  BY <1>6
<1>11. n = 4 => p[n] = ((shape[1] * shape[2]) * shape[3]) * shape[4]
  BY <1>7
<1>12. n >= 4 /\ (\A d \in DOMAIN shape : shape[d] > 0) =>
         p[n] >= ((shape[1] * shape[2]) * shape[3]) * shape[4]
  BY <1>7, <1>8
<1> QED
  BY <1>1, <1>4, <1>9, <1>10, <1>11, <1>12 DEF n

Shape(m, i) == get_output_shape(m, i)

LEMMA ShapesAre ==
  ASSUME NEW m \in Models
  PROVE  /\ m.input \in Seq(Nat)
         /\ \A i \in Nat : Shape(m, i) \in Seq(Nat)
         /\ \A i \in Nat : Len(Shape(m, i)) >= 4 =>
              \A d \in DOMAIN Shape(m, i) : Shape(m, i)[d] > 0
<1>1. m.input \in Seq(Nat) /\ m.outputs \in Seq(Seq(Nat))
  BY ModelAssumption
<1>2. ASSUME NEW i \in Nat
      PROVE  /\ Shape(m, i) \in Seq(Nat)
             /\ Len(Shape(m, i)) >= 4 => \A d \in DOMAIN Shape(m, i) : Shape(m, i)[d] > 0
  <2>1. CASE i < Len(m.outputs)
    <3>1. i + 1 \in DOMAIN m.outputs
      BY <1>1, <2>1
    <3>2. Shape(m, i) = m.outputs[i + 1]
      BY <2>1 DEF Shape, get_output_shape
    <3> QED
      BY <1>1, <3>1, <3>2, ModelAssumption
  <2>2. CASE ~(i < Len(m.outputs))
    <3>1. Shape(m, i) = <<>>
      BY <2>2 DEF Shape, get_output_shape
    <3> QED
      BY <3>1
  <2> QED
    BY <2>1, <2>2
<1> QED
  BY <1>1, <1>2

\* Tensors of one batch: their dimensions and elements.
LEMMA Batches ==
  ASSUME NEW s \in Seq(Nat)
  PROVE  /\ Batch(s, 2) => /\ Dim(s, 1) \in Nat
                           /\ Elements(s) = Dim(s, 1)
         /\ Batch(s, 3) => /\ Dim(s, 1) \in Nat /\ Dim(s, 2) \in Nat
                           /\ Elements(s) = Dim(s, 1) * Dim(s, 2)
         /\ Batch(s, 4) => /\ Dim(s, 1) \in Nat /\ Dim(s, 2) \in Nat /\ Dim(s, 3) \in Nat
                           /\ Elements(s) = (Dim(s, 1) * Dim(s, 2)) * Dim(s, 3)
<1>1. \A i \in 1 .. Len(s) : s[i] \in Nat
  OBVIOUS
<1>2. Dim(s, 0) = s[1] /\ Dim(s, 1) = s[2] /\ Dim(s, 2) = s[3] /\ Dim(s, 3) = s[4]
  BY DEF Dim
<1>3. ASSUME Batch(s, 2)
      PROVE  Dim(s, 1) \in Nat /\ Elements(s) = Dim(s, 1)
  <2>1. Len(s) = 2 /\ s[1] = 1
    BY <1>2, <1>3 DEF Batch
  <2>2. s[2] \in Nat
    BY <1>1, <2>1
  <2>3. Elements(s) = s[1] * s[2]
    BY <2>1, ElementsOf
  <2> QED
    BY <1>2, <2>1, <2>2, <2>3
<1>4. ASSUME Batch(s, 3)
      PROVE  Dim(s, 1) \in Nat /\ Dim(s, 2) \in Nat /\ Elements(s) = Dim(s, 1) * Dim(s, 2)
  <2>1. Len(s) = 3 /\ s[1] = 1
    BY <1>2, <1>4 DEF Batch
  <2>2. s[2] \in Nat /\ s[3] \in Nat
    BY <1>1, <2>1
  <2>3. Elements(s) = (s[1] * s[2]) * s[3]
    BY <2>1, ElementsOf
  <2>4. s[1] * s[2] = s[2]
    BY <2>1, <2>2
  <2> QED
    BY <1>2, <2>2, <2>3, <2>4
<1>5. ASSUME Batch(s, 4)
      PROVE  /\ Dim(s, 1) \in Nat /\ Dim(s, 2) \in Nat /\ Dim(s, 3) \in Nat
             /\ Elements(s) = (Dim(s, 1) * Dim(s, 2)) * Dim(s, 3)
  <2>1. Len(s) = 4 /\ s[1] = 1
    BY <1>2, <1>5 DEF Batch
  <2>2. s[2] \in Nat /\ s[3] \in Nat /\ s[4] \in Nat
    BY <1>1, <2>1
  <2>3. Elements(s) = ((s[1] * s[2]) * s[3]) * s[4]
    BY <2>1, ElementsOf
  <2>4. s[1] * s[2] = s[2]
    BY <2>1, <2>2
  <2> QED
    BY <1>2, <2>2, <2>3, <2>4
<1> QED
  BY <1>3, <1>4, <1>5

\* The last element of rows, and of a grid of cells of c values.
LEMMA LastOfRows ==
  ASSUME NEW r \in Int, NEW e \in Int
  PROVE  (r - 1) * e + e - 1 = r * e - 1
  BY Z3

LEMMA LastOfGrid ==
  ASSUME NEW h \in Int, NEW w \in Int, NEW c \in Int
  PROVE  (h - 1) * (w * c) + (w - 1) * c + c - 1 = (h * w) * c - 1
  BY Z3

LEMMA InputIsPicture ==
  ASSUME NEW m \in Models, NEW side, PictureInput(m.input, side)
  PROVE  Elements(m.input) = Dim(m.input, 1) * Dim(m.input, 2) * Dim(m.input, 3)
<1>1. m.input \in Seq(Nat) /\ Batch(m.input, 4)
  BY ShapesAre DEF PictureInput
<1> QED
  BY <1>1, Batches

\* What each postprocess reads, of a model that its is_model_valid accepts.
LEMMA YoloReads ==
  ASSUME NEW m \in Models, YoloValid(m)
  PROVE  LET records == Dim(Shape(m, 0), 1)   elements == Dim(Shape(m, 0), 2)
         IN  (records - 1) * elements + 5 + ((elements - 5) % 256) - 1 < Elements(Shape(m, 0))
<1> DEFINE r == Dim(Shape(m, 0), 1)
           e == Dim(Shape(m, 0), 2)
<1>1. Batch(Shape(m, 0), 3) /\ e \in 6 .. 85
  BY DEF YoloValid, Shape
<1>2. r \in Nat /\ e \in Nat /\ Elements(Shape(m, 0)) = r * e
  BY <1>1, ShapesAre, Batches
<1> HIDE DEF r, e
<1>3. (e - 5) % 256 = e - 5
  BY <1>1
<1>4. (r - 1) * e \in Int /\ r * e \in Int
  BY <1>2
<1>5. (r - 1) * e + e - 1 = r * e - 1
  BY <1>2, LastOfRows
<1>6. (r - 1) * e + 5 + ((e - 5) % 256) - 1 < r * e
  <2> DEFINE x == (r - 1) * e
             y == r * e
  <2>1. x \in Int /\ y \in Int /\ x + e - 1 = y - 1
    BY <1>4, <1>5
  <2> HIDE DEF x, y
  <2>2. x + 5 + ((e - 5) % 256) - 1 < y
    BY <1>2, <1>3, <2>1
  <2> QED
    BY <2>2 DEF x, y
<1> QED
  BY <1>2, <1>6 DEF r, e

LEMMA YoloV8Reads ==
  ASSUME NEW m \in Models, YoloV8Valid(m)
  PROVE  LET records == Dim(Shape(m, 0), 2)   elements == Dim(Shape(m, 0), 1)
         IN  records - 1 + (4 + ((elements - 4) % 256) - 1) * records < Elements(Shape(m, 0))
<1> DEFINE r == Dim(Shape(m, 0), 2)
           e == Dim(Shape(m, 0), 1)
<1>1. Batch(Shape(m, 0), 3) /\ e \in 5 .. 84
  BY DEF YoloV8Valid, Shape
<1>2. r \in Nat /\ e \in Nat /\ Elements(Shape(m, 0)) = e * r
  BY <1>1, ShapesAre, Batches
<1> HIDE DEF r, e
<1>3. 4 + ((e - 4) % 256) - 1 = e - 1
  BY <1>1
<1>4. (e - 1) * r + r - 1 = e * r - 1
  BY <1>2, LastOfRows
<1>5. r - 1 + (e - 1) * r < e * r
  <2> DEFINE x == (e - 1) * r
             y == e * r
  <2>1. x \in Int /\ y \in Int /\ x + r - 1 = y - 1
    BY <1>2, <1>4
  <2> HIDE DEF x, y
  <2>2. r - 1 + x < y
    BY <1>2, <2>1
  <2> QED
    BY <2>2 DEF x, y
<1> QED
  BY <1>2, <1>3, <1>5 DEF r, e

LEMMA FomoReads ==
  ASSUME NEW m \in Models, FomoValid(m)
  PROVE  LET w == Dim(Shape(m, 0), 2)   h == Dim(Shape(m, 0), 1)   t == Dim(Shape(m, 0), 3)
         IN  (h - 1) * w * t + (w - 1) * t + t - 1 < Elements(Shape(m, 0))
<1> DEFINE w == Dim(Shape(m, 0), 2)
           h == Dim(Shape(m, 0), 1)
           t == Dim(Shape(m, 0), 3)
<1>1. Batch(Shape(m, 0), 4)
  BY DEF FomoValid, Shape
<1>2. h \in Nat /\ w \in Nat /\ t \in Nat /\ Elements(Shape(m, 0)) = (h * w) * t
  BY <1>1, ShapesAre, Batches
<1> HIDE DEF w, h, t
<1>3. (h - 1) * (w * t) + (w - 1) * t + t - 1 = (h * w) * t - 1
  BY <1>2, LastOfGrid
<1>4. (h - 1) * w * t = (h - 1) * (w * t)
  BY <1>2, Z3
<1>5. (h * w) * t \in Nat
  BY <1>2
<1>6. (h - 1) * w * t + (w - 1) * t + t - 1 < (h * w) * t
  BY <1>3, <1>4, <1>5
<1> QED
  BY <1>2, <1>6 DEF w, h, t

LEMMA ImclsReads ==
  ASSUME NEW m \in Models, ImclsValid(m)
  PROVE  Dim(Shape(m, 0), 1) - 1 < Elements(Shape(m, 0))
<1>1. Batch(Shape(m, 0), 2)
  BY DEF ImclsValid, Shape
<1> QED
  BY <1>1, ShapesAre, Batches

LEMMA PfldReads ==
  ASSUME NEW m \in Models, PfldValid(m)
  PROVE  LET values == Dim(Shape(m, 0), 1)
         IN  (IF values = 0 THEN -1 ELSE ((values - 1) \div 2) * 2 + 1) < Elements(Shape(m, 0))
<1> DEFINE v == Dim(Shape(m, 0), 1)
<1>1. Batch(Shape(m, 0), 2) /\ v % 2 = 0
  BY DEF PfldValid, Shape
<1>2. v \in Nat /\ Elements(Shape(m, 0)) = v
  BY <1>1, ShapesAre, Batches
<1> HIDE DEF v
<1>3. (IF v = 0 THEN -1 ELSE ((v - 1) \div 2) * 2 + 1) < v
  BY <1>1, <1>2
<1> QED
  BY <1>2, <1>3 DEF v

LEMMA TimesGrows ==
  ASSUME NEW a \in Nat, NEW b \in Nat, NEW c \in Nat, NEW d \in Nat, a <= b, c <= d
  PROVE  a * c <= b * d
<1>1. (b - a) * c >= 0 /\ b * (d - c) >= 0
  BY Z3
<1>2. (b - a) * c = b * c - a * c /\ b * (d - c) = b * d - b * c
  BY Z3
<1>3. a * c \in Int /\ b * c \in Int /\ b * d \in Int
  OBVIOUS
<1> QED
  BY <1>1, <1>2, <1>3

BoxesOf(m) == IF Dim(Shape(m, 0), 3) > Dim(Shape(m, 1), 3) THEN 0 ELSE 1
NotChecked(m) == Dim(Shape(m, BoxesOf(m)), 3) < 4 * Dim(Shape(m, 1 - BoxesOf(m)), 3)

LEMMA NvidiaDetReads ==
  ASSUME NEW m \in Models, NvidiaDetValid(m), ~NotChecked(m)
  PROVE  LET confOut == Shape(m, 1 - BoxesOf(m))
             h == Dim(confOut, 1)   w == Dim(confOut, 2)   count == Dim(confOut, 3)   c == count * 4
         IN  /\ (h - 1) * (w * count) + (w - 1) * count + count - 1 < Elements(confOut)
             /\ (h - 1) * (w * c) + (w - 1) * c + (count - 1) * 4 + 3 < Elements(Shape(m, BoxesOf(m)))
<1> DEFINE boxOut == Shape(m, BoxesOf(m))
           confOut == Shape(m, 1 - BoxesOf(m))
           h == Dim(confOut, 1)
           w == Dim(confOut, 2)
           count == Dim(confOut, 3)
           c == count * 4
<1>1. BoxesOf(m) \in 0 .. 1 /\ 1 - BoxesOf(m) \in 0 .. 1
  BY DEF BoxesOf
<1>2. /\ confOut \in Seq(Nat) /\ Len(confOut) >= 4
      /\ boxOut \in Seq(Nat) /\ Len(boxOut) >= 4
      /\ Dim(boxOut, 1) = h /\ Dim(boxOut, 2) = w
  <2>1. \A i \in 0 .. 1 : /\ Len(Shape(m, i)) >= 4
                          /\ Dim(Shape(m, i), 1) = Dim(m.input, 1) \div 16
                          /\ Dim(Shape(m, i), 2) = Dim(m.input, 2) \div 16
    BY DEF NvidiaDetValid, Shape, get_input_shape
  <2>2. \A i \in 0 .. 1 : Shape(m, i) \in Seq(Nat)
    BY ShapesAre
  <2> QED
    BY <1>1, <2>1, <2>2
<1>3. (\A d \in DOMAIN confOut : confOut[d] > 0) /\ (\A d \in DOMAIN boxOut : boxOut[d] > 0)
  <2>1. \A i \in 0 .. 1 : Len(Shape(m, i)) >= 4 => \A d \in DOMAIN Shape(m, i) : Shape(m, i)[d] > 0
    <3>1. \A i \in 0 .. 1 : i \in Nat
      OBVIOUS
    <3> QED
      BY <3>1, ShapesAre, Zenon
  <2> QED
    BY <1>1, <1>2, <2>1
<1>4. ~(Dim(boxOut, 3) < 4 * count)
  BY DEF NotChecked
<1> HIDE DEF boxOut, confOut
<1>5. ASSUME NEW s \in Seq(Nat), Len(s) >= 4, \A d \in DOMAIN s : s[d] > 0
      PROVE  /\ Dim(s, 1) \in Nat /\ Dim(s, 2) \in Nat /\ Dim(s, 3) \in Nat
             /\ Elements(s) \in Nat /\ Elements(s) >= (Dim(s, 1) * Dim(s, 2)) * Dim(s, 3)
  <2>1. s[1] \in Nat /\ s[2] \in Nat /\ s[3] \in Nat /\ s[4] \in Nat /\ s[1] >= 1
    <3>1. 1 \in DOMAIN s /\ 2 \in DOMAIN s /\ 3 \in DOMAIN s /\ 4 \in DOMAIN s
      BY <1>5
    <3> QED
      BY <1>5, <3>1
  <2>2. Dim(s, 1) = s[2] /\ Dim(s, 2) = s[3] /\ Dim(s, 3) = s[4]
    BY DEF Dim
  <2> DEFINE all == ((s[1] * s[2]) * s[3]) * s[4]
             grid == (s[2] * s[3]) * s[4]
  <2>3. Elements(s) \in Nat /\ Elements(s) >= all
    BY <1>5, ElementsOf
  <2>4. grid <= all /\ grid \in Nat /\ all \in Nat
    <3>1. ASSUME NEW t \in Nat, NEW x \in Nat, NEW y \in Nat, NEW z \in Nat, t >= 1
          PROVE  (x * y) * z <= ((t * x) * y) * z /\ (x * y) * z \in Nat /\ ((t * x) * y) * z \in Nat
      <4>1. x <= t * x /\ t * x \in Nat
        BY <3>1, Z3
      <4> DEFINE tx == t * x
      <4>2. x <= tx /\ tx \in Nat
        BY <4>1
      <4> HIDE DEF tx
      <4>3. x * y <= tx * y /\ x * y \in Nat /\ tx * y \in Nat
        BY <4>2, TimesGrows
      <4> DEFINE xy == x * y
                 txy == tx * y
      <4>4. xy <= txy /\ xy \in Nat /\ txy \in Nat
        BY <4>3
      <4> HIDE DEF xy, txy
      <4>5. xy * z <= txy * z /\ xy * z \in Nat /\ txy * z \in Nat
        BY <4>4, TimesGrows
      <4> QED
        BY <4>5 DEF xy, txy, tx
    <3> QED
      BY <2>1, <3>1, Zenon
  <2> HIDE DEF all
  <2>5. Elements(s) >= grid
    BY <2>3, <2>4
  <2> QED
    BY <2>1, <2>2, <2>3, <2>5
<1>6. /\ h \in Nat /\ w \in Nat /\ count \in Nat
      /\ Elements(confOut) \in Nat /\ Elements(confOut) >= (h * w) * count
  BY <1>2, <1>3, <1>5
<1>7. /\ Dim(boxOut, 3) \in Nat
      /\ Elements(boxOut) \in Nat /\ Elements(boxOut) >= (h * w) * Dim(boxOut, 3)
  BY <1>2, <1>3, <1>5
<1> HIDE DEF h, w, count
<1>8. c \in Nat /\ c <= Dim(boxOut, 3) /\ (count - 1) * 4 + 3 = c - 1
  BY <1>4, <1>6, <1>7
<1>9. h * w \in Nat
  BY <1>6
<1>10. (h * w) * c <= (h * w) * Dim(boxOut, 3)
  BY <1>7, <1>8, <1>9, TimesGrows
<1>11. (h - 1) * (w * count) + (w - 1) * count + count - 1 = (h * w) * count - 1
  BY <1>6, LastOfGrid
<1> HIDE DEF c
<1>12. (h - 1) * (w * c) + (w - 1) * c + c - 1 = (h * w) * c - 1
  BY <1>6, <1>8, LastOfGrid
<1>13. (h - 1) * (w * count) + (w - 1) * count + count - 1 < Elements(confOut)
  BY <1>6, <1>9, <1>11
<1>14. (h - 1) * (w * c) + (w - 1) * c + (count - 1) * 4 + 3 < Elements(boxOut)
  <2>1. (h * w) * c \in Nat /\ (h * w) * Dim(boxOut, 3) \in Nat
    BY <1>7, <1>8, <1>9
  <2>2. (h - 1) * (w * c) + (w - 1) * c + ((count - 1) * 4 + 3) = (h * w) * c - 1
    BY <1>6, <1>8, <1>12
  <2>3. (h - 1) * (w * c) + (w - 1) * c + (count - 1) * 4 + 3 = (h * w) * c - 1
    BY <1>6, <1>8, <2>2
  <2> QED
    BY <1>7, <1>10, <2>1, <2>3
<1> QED
  BY <1>13, <1>14 DEF c, h, w, count, confOut, boxOut

\* Each stride has a number of anchors of its own.
LEMMA AnchorsDiffer ==
  ASSUME NEW in \in Seq(Nat), SquareInput(in, 32)
  PROVE  /\ \A k \in 1 .. 3 : Anchors(in, k) \in Nat /\ Anchors(in, k) > 0
         /\ \A k, l \in 1 .. 3 : k # l => Anchors(in, k) # Anchors(in, l)
         /\ Start(in, 3) \in Nat
<1> DEFINE d == Dim(in, 1)
<1>1. /\ Batch(in, 4) /\ d >= 32 /\ Dim(in, 2) = d /\ d % 32 = 0
  BY DEF SquareInput, PictureInput
<1>2. d \in Nat
  BY <1>1, Batches
<1> HIDE DEF d
<1>3. Min({Dim(in, 1), Dim(in, 2)}) = d
  <2>1. {Dim(in, 1), Dim(in, 2)} = {d}
    BY <1>1 DEF d
  <2>2. Min({d}) = d
    BY <1>2 DEF Min
  <2> QED
    BY <2>1, <2>2
<1> DEFINE q == d \div 32
<1>4. q \in Nat /\ q >= 1 /\ d = 32 * q
  BY <1>1, <1>2
<1> HIDE DEF q
<1>5. Split(in, 1) = 4 * q /\ Split(in, 2) = 2 * q /\ Split(in, 3) = q
  <2>1. Strides[1] = 8 /\ Strides[2] = 16 /\ Strides[3] = 32
    BY DEF Strides
  <2> QED
    BY <1>3, <1>4, <2>1 DEF Split
<1>6. q * q >= 1 /\ q * q \in Nat
  BY <1>4, Z3
<1> DEFINE qq == q * q
<1>7. (4 * q) * (4 * q) = 16 * qq /\ (2 * q) * (2 * q) = 4 * qq
  BY <1>4, Z3
<1>8. Anchors(in, 1) = 16 * qq /\ Anchors(in, 2) = 4 * qq /\ Anchors(in, 3) = qq
  BY <1>5, <1>7 DEF Anchors
<1>9. qq \in Nat /\ qq >= 1
  BY <1>6
<1> HIDE DEF qq
<1>10. \A k \in 1 .. 3 : k = 1 \/ k = 2 \/ k = 3
  OBVIOUS
<1>11. \A k \in 1 .. 3 : Anchors(in, k) \in Nat /\ Anchors(in, k) > 0
  BY <1>8, <1>9, <1>10
<1>12. \A k, l \in 1 .. 3 : k # l => Anchors(in, k) # Anchors(in, l)
  BY <1>8, <1>9, <1>10
<1>13. Start(in, 3) \in Nat
  <2> DEFINE Rec(s) == s = [i \in 1 .. 3 |-> IF i = 1 THEN 0 ELSE s[i - 1] + Anchors(in, i - 1)]
             s == CHOOSE f : Rec(f)
             f == [i \in 1 .. 3 |-> IF i = 1 THEN 0
                                    ELSE IF i = 2 THEN Anchors(in, 1)
                                    ELSE Anchors(in, 1) + Anchors(in, 2)]
  <2>1. Start(in, 3) = s[3]
    BY DEF Start
  <2>2. f[1] = 0 /\ f[2] = Anchors(in, 1) /\ f[3] = Anchors(in, 1) + Anchors(in, 2)
    OBVIOUS
  <2>3. \A i \in 1 .. 3 : f[i] = IF i = 1 THEN 0 ELSE f[i - 1] + Anchors(in, i - 1)
    <3> HIDE DEF f
    <3>1. f[2] = f[1] + Anchors(in, 1) /\ f[3] = f[2] + Anchors(in, 2)
      BY <1>8, <1>9, <2>2
    <3> TAKE i \in 1 .. 3
    <3>2. CASE i = 1
      BY <2>2, <3>2
    <3>3. CASE i = 2
      BY <3>1, <3>3
    <3>4. CASE i = 3
      BY <3>1, <3>4
    <3> QED
      BY <1>10, <3>2, <3>3, <3>4
  <2>4. f = [i \in 1 .. 3 |-> f[i]]
    OBVIOUS
  <2> HIDE DEF f
  <2>5. Rec(f)
    BY <2>3, <2>4
  <2>6. Rec(s)
    BY <2>5, Zenon
  <2> HIDE DEF s
  <2>7. s[1] = 0 /\ s[2] = s[1] + Anchors(in, 1) /\ s[3] = s[2] + Anchors(in, 2)
    <3>1. \A i \in 1 .. 3 : s[i] = IF i = 1 THEN 0 ELSE s[i - 1] + Anchors(in, i - 1)
      BY <2>6, Zenon
    <3> HIDE DEF Rec
    <3>2. 1 \in 1 .. 3 /\ 2 \in 1 .. 3 /\ 3 \in 1 .. 3 /\ 2 - 1 = 1 /\ 3 - 1 = 2
      OBVIOUS
    <3> QED
      BY <3>1, <3>2
  <2> QED
    BY <1>8, <1>9, <2>1, <2>7
<1> QED
  BY <1>11, <1>12, <1>13

LEMMA MaxIsIn ==
  ASSUME NEW n \in Nat, NEW S \in SUBSET (0 .. n), S # {}
  PROVE  Max(S) \in S
<1> DEFINE T == {n - i : i \in S}
<1>1. T \subseteq Nat /\ T # {}
  <2>1. \A i \in S : i \in 0 .. n
    OBVIOUS
  <2>2. \A i \in S : n - i \in Nat
    BY <2>1
  <2> QED
    BY <2>2
<1> HIDE DEF T
<1>2. PICK t \in T : \A u \in T : t <= u
  BY <1>1, LeastElement
<1>3. PICK i \in S : t = n - i
  BY <1>2 DEF T
<1>4. \A j \in S : i >= j
  <2> TAKE j \in S
  <2>1. n - j \in T
    BY DEF T
  <2>2. n - i <= n - j
    BY <1>2, <1>3, <2>1
  <2> QED
    BY <2>2
<1>5. \E x \in S : \A y \in S : x >= y
  BY <1>4
<1> QED
  BY <1>5 DEF Max

\* Three things that serve three different values serve one each.
LEMMA ThreeServeThree ==
  ASSUME NEW S, IsFiniteSet(S), Cardinality(S) = 3, NEW D, NEW A,
         A[1] # A[2], A[1] # A[3], A[2] # A[3],
         \A k \in 1 .. 3 : \E i \in S : D[i] = A[k]
  PROVE  /\ \A i \in S : \E k \in 1 .. 3 : D[i] = A[k]
         /\ \A i, j \in S : D[i] = D[j] => i = j
<1>1. PICK a \in S : D[a] = A[1]
  OBVIOUS
<1>2. PICK b \in S : D[b] = A[2]
  OBVIOUS
<1>3. PICK c \in S : D[c] = A[3]
  OBVIOUS
<1>4. a # b /\ a # c /\ b # c
  BY <1>1, <1>2, <1>3
<1>5. IsFiniteSet({a, b, c}) /\ Cardinality({a, b, c}) = 3
  <2>1. IsFiniteSet({a}) /\ Cardinality({a}) = 1
    BY FS_Singleton
  <2>5. b \notin {a} /\ c \notin {a} \cup {b}
    BY <1>4
  <2>6. ASSUME NEW T, NEW x, IsFiniteSet(T), x \notin T
        PROVE  IsFiniteSet(T \cup {x}) /\ Cardinality(T \cup {x}) = Cardinality(T) + 1
    BY <2>6, FS_AddElement, Zenon
  <2>2. IsFiniteSet({a} \cup {b}) /\ Cardinality({a} \cup {b}) = 2
    <3>1. IsFiniteSet({a} \cup {b}) /\ Cardinality({a} \cup {b}) = Cardinality({a}) + 1
      BY <2>1, <2>5, <2>6, Zenon
    <3> QED
      BY <2>1, <3>1
  <2>3. IsFiniteSet(({a} \cup {b}) \cup {c}) /\ Cardinality(({a} \cup {b}) \cup {c}) = 3
    <3>1. /\ IsFiniteSet(({a} \cup {b}) \cup {c})
          /\ Cardinality(({a} \cup {b}) \cup {c}) = Cardinality({a} \cup {b}) + 1
      BY <2>2, <2>5, <2>6, Zenon
    <3> QED
      BY <2>2, <3>1
  <2>4. ({a} \cup {b}) \cup {c} = {a, b, c}
    OBVIOUS
  <2> QED
    BY <2>3, <2>4
<1>6. S = {a, b, c}
  <2>1. {a, b, c} \in SUBSET S
    OBVIOUS
  <2> QED
    BY <1>5, <2>1, FS_Subset
<1>7. \A i \in S : \E k \in 1 .. 3 : D[i] = A[k]
  BY <1>1, <1>2, <1>3, <1>6
<1>8. \A i, j \in S : D[i] = D[j] => i = j
  BY <1>1, <1>2, <1>3, <1>6
<1> QED
  BY <1>7, <1>8

\* The outputs of boxes, or of scores, of the three strides: init finds one of each.
LEMMA StridesServed ==
  ASSUME NEW m \in Models, SquareInput(m.input, 32), NEW n \in Nat,
         NEW S \in SUBSET (0 .. n), Cardinality(S) = 3,
         \A k \in 1 .. 3 : Served(m, S, k)
  PROVE  LET Fit(k) == {i \in S : Dim(Shape(m, i), 1) = Anchors(m.input, k)}
         IN  /\ \A k \in 1 .. 3 : Max(Fit(k)) \in S /\ Dim(Shape(m, Max(Fit(k))), 1) = Anchors(m.input, k)
             /\ \A i \in S : \E k \in 1 .. 3 : i = Max(Fit(k))
<1> DEFINE D == [i \in S |-> Dim(Shape(m, i), 1)]
           A == [k \in 1 .. 3 |-> Anchors(m.input, k)]
           Fit(k) == {i \in S : Dim(Shape(m, i), 1) = Anchors(m.input, k)}
<1>1. m.input \in Seq(Nat)
  BY ShapesAre
<1>2. A[1] # A[2] /\ A[1] # A[3] /\ A[2] # A[3]
  <2>1. \A k, l \in 1 .. 3 : k # l => Anchors(m.input, k) # Anchors(m.input, l)
    BY <1>1, AnchorsDiffer
  <2> QED
    BY <2>1
<1>3. IsFiniteSet(S)
  <2>1. IsFiniteSet(0 .. n)
    BY FS_Interval
  <2> QED
    BY <2>1, FS_Subset
<1>4. \A k \in 1 .. 3 : \E i \in S : D[i] = A[k]
  BY DEF Served, Shape
<1> HIDE DEF D, A
<1>5. /\ \A i \in S : \E k \in 1 .. 3 : D[i] = A[k]
      /\ \A i, j \in S : D[i] = D[j] => i = j
  BY <1>2, <1>3, <1>4, ThreeServeThree
<1>6. \A k \in 1 .. 3 : Fit(k) = {i \in S : D[i] = A[k]}
  BY DEF D, A
<1> HIDE DEF Fit
<1>7. \A k \in 1 .. 3 : Max(Fit(k)) \in Fit(k)
  <2> TAKE k \in 1 .. 3
  <2>1. Fit(k) \in SUBSET (0 .. n) /\ Fit(k) # {}
    BY <1>4, <1>6
  <2> QED
    BY <2>1, MaxIsIn
<1>8. \A k \in 1 .. 3 : Max(Fit(k)) \in S /\ Dim(Shape(m, Max(Fit(k))), 1) = Anchors(m.input, k)
  BY <1>7 DEF Fit
<1>9. ASSUME NEW i \in S
      PROVE  \E k \in 1 .. 3 : i = Max(Fit(k))
  <2>1. PICK k \in 1 .. 3 : D[i] = A[k]
    BY <1>5
  <2>2. Max(Fit(k)) \in S /\ D[Max(Fit(k))] = A[k]
    BY <1>6, <1>7
  <2>3. i = Max(Fit(k))
    BY <1>5, <2>1, <2>2
  <2> QED
    BY <2>3
<1> QED
  BY <1>8, <1>9 DEF Fit

\* Where init finds the outputs of YOLO Pose and of YOLO World.
LEMMA BoxesFound ==
  ASSUME model \in Models, SquareInput(model.input, 32), NEW n \in Nat,
         LET boxes == {i \in 0 .. n : Dim(Shape(model, i), 2) = 64}
         IN  Cardinality(boxes) = 3 /\ \A k \in 1 .. 3 : Served(model, boxes, k)
  PROVE  /\ \A k \in 1 .. 3 : /\ BoxesId(k, n) \in 0 .. n
                              /\ Dim(Shape(model, BoxesId(k, n)), 2) = 64
                              /\ Dim(Shape(model, BoxesId(k, n)), 1) = Anchors(model.input, k)
         /\ \A i \in 0 .. n : Dim(Shape(model, i), 2) = 64 => \E k \in 1 .. 3 : i = BoxesId(k, n)
<1> DEFINE S == {i \in 0 .. n : Dim(Shape(model, i), 2) = 64}
           Fit(k) == {i \in S : Dim(Shape(model, i), 1) = Anchors(model.input, k)}
<1>1. \A k : Fit(k) = {i \in 0 .. n : Dim(Shape(model, i), 1) = Anchors(model.input, k)
                                       /\ Dim(Shape(model, i), 2) = 64}
  OBVIOUS
<1>2. \A k : BoxesId(k, n) = Max(Fit(k))
  BY <1>1, Zenon DEF BoxesId, Output, Shape
<1>3. S \in SUBSET (0 .. n) /\ Cardinality(S) = 3 /\ \A k \in 1 .. 3 : Served(model, S, k)
  OBVIOUS
<1>4. \A i \in S : i \in 0 .. n /\ Dim(Shape(model, i), 2) = 64
  OBVIOUS
<1>5. \A i \in 0 .. n : Dim(Shape(model, i), 2) = 64 => i \in S
  OBVIOUS
<1> HIDE DEF S
<1>6. /\ \A k \in 1 .. 3 : Max(Fit(k)) \in S /\ Dim(Shape(model, Max(Fit(k))), 1) = Anchors(model.input, k)
      /\ \A i \in S : \E k \in 1 .. 3 : i = Max(Fit(k))
  BY <1>3, StridesServed, Zenon
<1> HIDE DEF Fit
<1> QED
  BY <1>2, <1>4, <1>5, <1>6

LEMMA ScoresFound ==
  ASSUME model \in Models, SquareInput(model.input, 32), NEW n \in Nat,
         NEW S, S = {i \in 0 .. n : (n = 6 => Dim(Shape(model, i), 2) = 1) /\ Dim(Shape(model, i), 2) # 64},
         Cardinality(S) = 3, \A k \in 1 .. 3 : Served(model, S, k)
  PROVE  /\ \A k \in 1 .. 3 : /\ ScoresId(k, n) \in S
                              /\ Dim(Shape(model, ScoresId(k, n)), 1) = Anchors(model.input, k)
         /\ \A i \in S : \E k \in 1 .. 3 : i = ScoresId(k, n)
<1> DEFINE Fit(k) == {i \in S : Dim(Shape(model, i), 1) = Anchors(model.input, k)}
<1>1. \A k : Fit(k) = {i \in 0 .. n : Dim(Shape(model, i), 1) = Anchors(model.input, k)
                                       /\ (n = 6 => Dim(Shape(model, i), 2) = 1)
                                       /\ Dim(Shape(model, i), 2) # 64}
  OBVIOUS
<1>2. \A k : ScoresId(k, n) = Max(Fit(k))
  BY <1>1, Zenon DEF ScoresId, Output, Shape
<1>3. S \in SUBSET (0 .. n)
  OBVIOUS
<1>4. /\ \A k \in 1 .. 3 : Max(Fit(k)) \in S /\ Dim(Shape(model, Max(Fit(k))), 1) = Anchors(model.input, k)
      /\ \A i \in S : \E k \in 1 .. 3 : i = Max(Fit(k))
  BY <1>3, StridesServed, Zenon
<1> HIDE DEF Fit
<1> QED
  BY <1>2, <1>4

\* The boxes of a stride: four times sixteen values of each anchor.
LEMMA BoxesInside ==
  ASSUME model \in Models, SquareInput(model.input, 32), NEW k \in 1 .. 3, NEW i \in Nat,
         Batch(Shape(model, i), 3), Dim(Shape(model, i), 2) = 64,
         Dim(Shape(model, i), 1) = Anchors(model.input, k)
  PROVE  BoxRead(k, i) < Elements(Shape(model, i))
<1> DEFINE a == Anchors(model.input, k)
<1>1. a \in Nat
  BY ShapesAre, AnchorsDiffer
<1>2. Elements(Shape(model, i)) = a * 64
  BY ShapesAre, Batches
<1>3. BoxRead(k, i) = (a - 1) * 64 + 3 * 16 + 15
  BY DEF BoxRead, Output, Shape
<1> HIDE DEF a
<1> QED
  BY <1>1, <1>2, <1>3

InsideOf(m, r) == \A i \in 1 .. Len(r) : r[i] < Elements(Shape(m, i - 1))

LEMMA UpTo ==
  /\ IsFiniteSet(0 .. 5) /\ Cardinality(0 .. 5) = 6
  /\ IsFiniteSet(0 .. 6) /\ Cardinality(0 .. 6) = 7
<1>1. ASSUME NEW n \in Nat
      PROVE  IsFiniteSet(0 .. n) /\ Cardinality(0 .. n) = n + 1
  <2>1. 0 \in Int /\ n \in Int
    OBVIOUS
  <2>2. IsFiniteSet(0 .. n) /\ Cardinality(0 .. n) = IF 0 > n THEN 0 ELSE n - 0 + 1
    BY <2>1, FS_Interval, Zenon
  <2> QED
    BY <2>2
<1>2. /\ IsFiniteSet(0 .. 5) /\ Cardinality(0 .. 5) = 5 + 1
      /\ IsFiniteSet(0 .. 6) /\ Cardinality(0 .. 6) = 6 + 1
  BY <1>1
<1> QED
  BY <1>2

LEMMA YoloWorldReads ==
  ASSUME model \in Models, YoloWorldValid(model), YoloWorldPostprocess
  PROVE  InsideOf(model, read')
<1> DEFINE highest(i) ==
             IF \E k \in 1 .. 3 : i = ScoresId(k, 5)
               THEN LET k == CHOOSE k \in 1 .. 3 : i = ScoresId(k, 5)
                    IN  (Anchors(model.input, k) - 1) * Dim(Output(i), 2) + Dim(Output(i), 2) - 1
               ELSE LET k == CHOOSE k \in 1 .. 3 : i = BoxesId(k, 5) IN BoxRead(k, i)
           boxes == {i \in 0 .. 5 : Dim(Shape(model, i), 2) = 64}
           others == 0 .. 5 \ boxes
<1>1. read' = [i \in 1 .. 6 |-> highest(i - 1)]
  BY DEF YoloWorldPostprocess, Postprocess
<1>2. /\ SquareInput(model.input, 32)
      /\ \A i \in 0 .. 5 : Batch(Shape(model, i), 3)
      /\ Cardinality(boxes) = 3
      /\ \A k \in 1 .. 3 : Served(model, boxes, k) /\ Served(model, others, k)
  BY DEF YoloWorldValid, Shape, get_input_shape
<1>3. Cardinality(others) = 3
  <2>1. IsFiniteSet(0 .. 5) /\ Cardinality(0 .. 5) = 6
    BY UpTo
  <2>2. Cardinality(0 .. 5 \ boxes) = Cardinality(0 .. 5) - Cardinality((0 .. 5) \cap boxes)
    BY <2>1, FS_Difference, Zenon
  <2>3. (0 .. 5) \cap boxes = boxes
    OBVIOUS
  <2> QED
    BY <1>2, <2>1, <2>2, <2>3
<1>4. others = {i \in 0 .. 5 : (5 = 6 => Dim(Shape(model, i), 2) = 1) /\ Dim(Shape(model, i), 2) # 64}
  OBVIOUS
<1>5. /\ \A k \in 1 .. 3 : /\ BoxesId(k, 5) \in 0 .. 5
                           /\ Dim(Shape(model, BoxesId(k, 5)), 2) = 64
                           /\ Dim(Shape(model, BoxesId(k, 5)), 1) = Anchors(model.input, k)
      /\ \A i \in 0 .. 5 : Dim(Shape(model, i), 2) = 64 => \E k \in 1 .. 3 : i = BoxesId(k, 5)
  BY <1>2, BoxesFound
<1>6. \A i \in 0 .. 5 : i \in others \/ Dim(Shape(model, i), 2) = 64
  OBVIOUS
<1>7. \A i \in others : i \in 0 .. 5
  OBVIOUS
<1> HIDE DEF others
<1>8. /\ \A k \in 1 .. 3 : /\ ScoresId(k, 5) \in others
                           /\ Dim(Shape(model, ScoresId(k, 5)), 1) = Anchors(model.input, k)
      /\ \A i \in others : \E k \in 1 .. 3 : i = ScoresId(k, 5)
  BY <1>2, <1>3, <1>4, ScoresFound
<1>9. ASSUME NEW i \in 0 .. 5
      PROVE  highest(i) < Elements(Shape(model, i))
  <2>1. Shape(model, i) \in Seq(Nat) /\ Batch(Shape(model, i), 3)
    <3>1. i \in Nat
      OBVIOUS
    <3> QED
      BY <1>2, <3>1, ShapesAre, Zenon
  <2>2. CASE \E k \in 1 .. 3 : i = ScoresId(k, 5)
    <3> DEFINE k == CHOOSE k \in 1 .. 3 : i = ScoresId(k, 5)
               a == Anchors(model.input, k)
               d == Dim(Shape(model, i), 2)
    <3>1. k \in 1 .. 3 /\ i = ScoresId(k, 5)
      BY <2>2
    <3>2. highest(i) = (a - 1) * d + d - 1
      BY <2>2 DEF Output, Shape
    <3> HIDE DEF k, highest
    <3>3. Dim(Shape(model, i), 1) = a
      BY <1>8, <3>1
    <3>4. a \in Nat /\ d \in Nat /\ Elements(Shape(model, i)) = a * d
      BY <2>1, <3>3, Batches
    <3> HIDE DEF a, d
    <3>5. (a - 1) * d + d - 1 = a * d - 1
      BY <3>4, LastOfRows
    <3>6. a * d \in Nat
      BY <3>4
    <3> QED
      BY <3>2, <3>4, <3>5, <3>6
  <2>3. CASE ~\E k \in 1 .. 3 : i = ScoresId(k, 5)
    <3> DEFINE k == CHOOSE k \in 1 .. 3 : i = BoxesId(k, 5)
    <3>1. \E l \in 1 .. 3 : i = BoxesId(l, 5)
      BY <1>5, <1>6, <1>8, <2>3
    <3>2. k \in 1 .. 3 /\ i = BoxesId(k, 5)
      BY <3>1
    <3>3. highest(i) = BoxRead(k, i)
      BY <2>3
    <3> HIDE DEF k, highest
    <3>4. Dim(Shape(model, i), 2) = 64 /\ Dim(Shape(model, i), 1) = Anchors(model.input, k)
      BY <1>5, <3>2
    <3> QED
      BY <1>2, <2>1, <3>2, <3>3, <3>4, BoxesInside
  <2> QED
    BY <2>2, <2>3
<1> HIDE DEF highest
<1>10. Len(read') = 6 /\ \A i \in 1 .. 6 : read'[i] = highest(i - 1) /\ i - 1 \in 0 .. 5
  BY <1>1
<1> QED
  BY <1>9, <1>10 DEF InsideOf

LEMMA YoloPoseReads ==
  ASSUME model \in Models, YoloPoseValid(model), YoloPosePostprocess
  PROVE  InsideOf(model, read')
<1> DEFINE points == Dim(Output(KeypointsId), 2)
           highest(i) ==
             CASE i = KeypointsId ->
                    (Start(model.input, 3) + Anchors(model.input, 3) - 1) * points + (points \div 3) * 3 - 1
               [] \E k \in 1 .. 3 : i = ScoresId(k, 6) ->
                    Anchors(model.input, CHOOSE k \in 1 .. 3 : i = ScoresId(k, 6)) - 1
               [] OTHER -> LET k == CHOOSE k \in 1 .. 3 : i = BoxesId(k, 6) IN BoxRead(k, i)
           wide(i) == Dim(Shape(model, i), 2)
           scores == {i \in 0 .. 6 : wide(i) = 1}
           boxes == {i \in 0 .. 6 : wide(i) = 64}
           others == 0 .. 6 \ (scores \cup boxes)
<1>1. read' = [i \in 1 .. 7 |-> highest(i - 1)]
  BY DEF YoloPosePostprocess, Postprocess
<1>2. /\ SquareInput(model.input, 32)
      /\ \A i \in 0 .. 6 : Batch(Shape(model, i), 3)
      /\ Cardinality(scores) = 3 /\ Cardinality(boxes) = 3
      /\ \A k \in 1 .. 3 : Served(model, scores, k) /\ Served(model, boxes, k)
      /\ \A i \in others : wide(i) % 3 = 0 /\ Dim(Shape(model, i), 1) = AllAnchors(model.input)
  BY DEF YoloPoseValid, Shape, get_input_shape
<1>3. /\ \A k \in 1 .. 3 : /\ BoxesId(k, 6) \in 0 .. 6
                           /\ Dim(Shape(model, BoxesId(k, 6)), 2) = 64
                           /\ Dim(Shape(model, BoxesId(k, 6)), 1) = Anchors(model.input, k)
      /\ \A i \in 0 .. 6 : Dim(Shape(model, i), 2) = 64 => \E k \in 1 .. 3 : i = BoxesId(k, 6)
  BY <1>2, BoxesFound
<1>4. /\ \A k \in 1 .. 3 : /\ ScoresId(k, 6) \in scores
                           /\ Dim(Shape(model, ScoresId(k, 6)), 1) = Anchors(model.input, k)
      /\ \A i \in scores : \E k \in 1 .. 3 : i = ScoresId(k, 6)
  <2>1. scores = {i \in 0 .. 6 : (6 = 6 => Dim(Shape(model, i), 2) = 1) /\ Dim(Shape(model, i), 2) # 64}
    OBVIOUS
  <2> HIDE DEF scores
  <2> QED
    BY <1>2, <2>1, ScoresFound
<1>5. Cardinality(others) = 1
  <2>1. IsFiniteSet(0 .. 6) /\ Cardinality(0 .. 6) = 7
    BY UpTo
  <2>2. scores \in SUBSET (0 .. 6) /\ boxes \in SUBSET (0 .. 6) /\ scores \cap boxes = {}
    OBVIOUS
  <2> HIDE DEF scores, boxes
  <2>3. IsFiniteSet(scores) /\ IsFiniteSet(boxes)
    BY <2>1, <2>2, FS_Subset
  <2>4. Cardinality(scores \cup boxes) = Cardinality(scores) + Cardinality(boxes) - Cardinality({})
    BY <2>2, <2>3, FS_Union
  <2>5. Cardinality({}) = 0
    BY FS_EmptySet
  <2>6. Cardinality(scores \cup boxes) = 6
    BY <1>2, <2>4, <2>5
  <2>7. Cardinality(others) = Cardinality(0 .. 6) - Cardinality((0 .. 6) \cap (scores \cup boxes))
    BY <2>1, FS_Difference, Zenon
  <2>8. (0 .. 6) \cap (scores \cup boxes) = scores \cup boxes
    BY <2>2
  <2> QED
    BY <2>1, <2>6, <2>7, <2>8
<1>6. PICK o : others = {o}
  <2>1. IsFiniteSet(others)
    <3>1. others \in SUBSET (0 .. 6) /\ IsFiniteSet(0 .. 6)
      BY UpTo
    <3> HIDE DEF others
    <3> QED
      BY <3>1, FS_Subset
  <2> HIDE DEF others
  <2> QED
    BY <1>5, <2>1, FS_Singleton
<1>7. KeypointsId = o
  <2>1. {i \in 0 .. 6 : Dim(Output(i), 2) \notin {1, 64} /\ Dim(Output(i), 2) % 3 = 0} = {o}
    <3>1. others = {i \in 0 .. 6 : wide(i) \notin {1, 64}}
      OBVIOUS
    <3>2. \A i \in others : wide(i) % 3 = 0
      BY <1>2
    <3>3. others = {i \in 0 .. 6 : wide(i) \notin {1, 64} /\ wide(i) % 3 = 0}
      BY <3>1, <3>2
    <3> QED
      BY <1>6, <3>3, Zenon DEF Output, Shape
  <2>2. o \in 0 .. 6
    BY <1>6
  <2>3. {o} \in SUBSET (0 .. 6) /\ {o} # {}
    BY <2>2
  <2>4. Max({o}) \in {o}
    BY <2>3, MaxIsIn
  <2> QED
    BY <2>1, <2>4 DEF KeypointsId
<1>8. ASSUME NEW i \in 0 .. 6
      PROVE  highest(i) < Elements(Shape(model, i))
  <2>1. Shape(model, i) \in Seq(Nat) /\ Batch(Shape(model, i), 3) /\ model.input \in Seq(Nat)
    <3>1. i \in Nat
      OBVIOUS
    <3> QED
      BY <1>2, <3>1, ShapesAre, Zenon
  <2>2. CASE i = KeypointsId
    <3>1. i \in others
      BY <1>6, <1>7, <2>2
    <3>2. wide(i) % 3 = 0 /\ Dim(Shape(model, i), 1) = AllAnchors(model.input)
      BY <1>2, <3>1
    <3> DEFINE p == wide(i)
               s == Start(model.input, 3)
               a == Anchors(model.input, 3)
    <3>3. highest(i) = (s + a - 1) * p + (p \div 3) * 3 - 1
      <4>1. ~\E k \in 1 .. 3 : i = ScoresId(k, 6)
        BY <1>4, <3>1
      <4>2. points = p
        BY <2>2 DEF Output, Shape
      <4> HIDE DEF points, p
      <4> QED
        BY <2>2, <4>1, <4>2
    <3> HIDE DEF highest
    <3>4. p \in Nat /\ Elements(Shape(model, i)) = (s + a) * p
      BY <2>1, <3>2, Batches DEF AllAnchors
    <3>5. s \in Nat /\ a \in Nat
      BY <1>2, <2>1, AnchorsDiffer
    <3>6. p % 3 = 0
      BY <3>2
    <3> HIDE DEF p, s, a
    <3>7. (p \div 3) * 3 = p
      BY <3>4, <3>6
    <3> DEFINE n == s + a
    <3>8. n \in Nat /\ s + a - 1 = n - 1
      BY <3>5
    <3> HIDE DEF n
    <3>9. (n - 1) * p + p - 1 = n * p - 1 /\ n * p \in Nat
      BY <3>4, <3>8, LastOfRows
    <3> QED
      BY <3>3, <3>4, <3>7, <3>8, <3>9 DEF n
  <2>3. CASE i # KeypointsId /\ \E k \in 1 .. 3 : i = ScoresId(k, 6)
    <3> DEFINE k == CHOOSE k \in 1 .. 3 : i = ScoresId(k, 6)
               a == Anchors(model.input, k)
    <3>1. k \in 1 .. 3 /\ i = ScoresId(k, 6)
      BY <2>3
    <3>2. highest(i) = a - 1
      BY <2>3
    <3> HIDE DEF k, highest
    <3>3. Dim(Shape(model, i), 1) = a /\ i \in scores
      BY <1>4, <3>1
    <3>4. Dim(Shape(model, i), 2) = 1
      BY <3>3
    <3>5. a \in Nat /\ Elements(Shape(model, i)) = a * 1
      BY <2>1, <3>3, <3>4, Batches
    <3> HIDE DEF a
    <3> QED
      BY <3>2, <3>5
  <2>4. CASE i # KeypointsId /\ ~\E k \in 1 .. 3 : i = ScoresId(k, 6)
    <3> DEFINE k == CHOOSE k \in 1 .. 3 : i = BoxesId(k, 6)
    <3>1. i \notin scores /\ i \notin others
      BY <1>4, <1>6, <1>7, <2>4
    <3>2. Dim(Shape(model, i), 2) = 64
      BY <3>1
    <3>3. \E l \in 1 .. 3 : i = BoxesId(l, 6)
      BY <1>3, <3>2
    <3>4. k \in 1 .. 3 /\ i = BoxesId(k, 6)
      BY <3>3
    <3>5. highest(i) = BoxRead(k, i)
      BY <2>4
    <3> HIDE DEF k, highest
    <3>6. Dim(Shape(model, i), 1) = Anchors(model.input, k)
      BY <1>3, <3>4
    <3> QED
      BY <1>2, <2>1, <3>2, <3>4, <3>5, <3>6, BoxesInside
  <2> QED
    BY <2>2, <2>3, <2>4
<1> HIDE DEF highest
<1>9. Len(read') = 7 /\ \A i \in 1 .. 7 : read'[i] = highest(i - 1) /\ i - 1 \in 0 .. 6
  BY <1>1
<1> QED
  BY <1>8, <1>9 DEF InsideOf

\* The invariant: the algorithm under way is one whose is_model_valid accepted the model,
\* and what its scales are of at each step of a frame.
Accepted == stage \in {"ready", "run", "postprocess", "failed"} => type \in Types /\ Valid(type, model)
ReadInside(t, m, r) == r = <<>> \/ (t = "NVIDIA_DET" /\ NotChecked(m)) \/ InsideOf(m, r)
Scaled ==
  /\ stage \in {"prepare", "construct"} => scale = "one" /\ lastInput = "none"
  /\ stage \in {"run", "postprocess"} => frame \in Frames
  /\ stage \in {"run", "postprocess"} /\ type \notin {"IMCLS", "YOLO_POSE", "YOLO_WORLD"} => scale = frame
  /\ stage \in {"ready", "run", "postprocess"} /\ type = "YOLO_WORLD" => strides = "one"
  /\ stage \in {"ready", "run", "postprocess"} /\ type = "YOLO_POSE" =>
       (lastInput # "none" => strides = lastInput)
  /\ stage \in {"run", "postprocess"} /\ type = "YOLO_POSE" => lastInput = frame
Shown ==
  /\ shown.at \in Frames => shown.at = shown.frame
  /\ shown.at = "one" => type = "YOLO_WORLD"
AlgorithmInv ==
  /\ model \in Models
  /\ stage \in {"prepare", "construct"} => read = <<>> /\ shown.at = "none"
  /\ Accepted /\ Scaled /\ Shown
  /\ stage \in {"run", "postprocess"} => written = Elements(model.input)
  /\ ReadInside(type, model, read)

LEMMA ValidFor ==
  ASSUME NEW m
  PROVE  /\ Valid("YOLO_POSE", m) <=> YoloPoseValid(m)
         /\ Valid("YOLO_WORLD", m) <=> YoloWorldValid(m)
         /\ Valid("YOLO_V8", m) <=> YoloV8Valid(m)
         /\ Valid("NVIDIA_DET", m) <=> NvidiaDetValid(m)
         /\ Valid("YOLO", m) <=> YoloValid(m)
         /\ Valid("FOMO", m) <=> FomoValid(m)
         /\ Valid("IMCLS", m) <=> ImclsValid(m)
         /\ Valid("PFLD", m) <=> PfldValid(m)
  BY DEF Valid

LEMMA InputFilled ==
  ASSUME NEW m \in Models, NEW t \in Types, Valid(t, m)
  PROVE  Elements(m.input) = Dim(m.input, 1) * Dim(m.input, 2) * Dim(m.input, 3)
<1> DEFINE Accepts(v) == v => \E side : PictureInput(m.input, side)
<1>1. /\ Accepts(YoloPoseValid(m))
      /\ Accepts(YoloWorldValid(m))
      /\ Accepts(YoloV8Valid(m))
      /\ Accepts(NvidiaDetValid(m))
      /\ Accepts(YoloValid(m))
      /\ Accepts(FomoValid(m))
      /\ Accepts(ImclsValid(m))
      /\ Accepts(PfldValid(m))
  BY DEF YoloPoseValid, YoloWorldValid, YoloV8Valid, NvidiaDetValid, YoloValid,
     FomoValid, ImclsValid, PfldValid, SquareInput, get_input_shape
<1>2. t = "YOLO_POSE" \/ t = "YOLO_WORLD" \/ t = "YOLO_V8" \/ t = "NVIDIA_DET" \/ t = "YOLO" \/ t = "FOMO" \/ t = "IMCLS" \/ t = "PFLD"
  BY DEF Types
<1>3. \E side : PictureInput(m.input, side)
  BY <1>1, <1>2, ValidFor
<1> QED
  BY <1>3, InputIsPicture

\* Construction: an algorithm that went on has a model it accepts.
Constructs ==
  YoloInit \/ YoloV8Init \/ NvidiaDetInit \/ FomoInit \/ ImclsInit \/ PfldInit
    \/ YoloPoseInit \/ YoloWorldInit

LEMMA ConstructKeeps ==
  ASSUME AlgorithmInv, Constructs
  PROVE  AlgorithmInv'
<1>1. /\ stage = "construct" /\ type' = type /\ model' = model /\ frame' = frame /\ scale' = scale
      /\ lastInput' = lastInput /\ written' = written /\ read' = read /\ shown' = shown
      /\ stage' \in {"ready", "halted", "undefined"}
      /\ type \in Types
  BY DEF Constructs, YoloInit, YoloV8Init, NvidiaDetInit, FomoInit, ImclsInit, PfldInit,
         YoloPoseInit, YoloWorldInit, Construct, Types
<1>2. stage' = "ready" => Valid(type, model)
  BY ValidFor DEF Constructs, YoloInit, YoloV8Init, NvidiaDetInit, FomoInit, ImclsInit, PfldInit,
         YoloPoseInit, YoloWorldInit, Construct
<1>3. type = "YOLO_WORLD" => strides' = scale
  BY DEF Constructs, YoloInit, YoloV8Init, NvidiaDetInit, FomoInit, ImclsInit, PfldInit,
         YoloPoseInit, YoloWorldInit, Construct
<1>4. Accepted'
  BY <1>1, <1>2 DEF Accepted
<1>5. Scaled'
  BY <1>1, <1>3 DEF AlgorithmInv, Scaled
<1>6. Shown'
  BY <1>1 DEF AlgorithmInv, Shown
<1> QED
  BY <1>1, <1>4, <1>5, <1>6 DEF AlgorithmInv

\* A frame taken: the input is filled and the scales are of this frame.
Runs(f) ==
  YoloRun(f) \/ YoloV8Run(f) \/ NvidiaDetRun(f) \/ FomoRun(f) \/ ImclsRun(f)
    \/ PfldRun(f) \/ YoloPoseRun(f) \/ YoloWorldRun(f)

LEMMA RunKeeps ==
  ASSUME AlgorithmInv, NEW f \in Frames, Runs(f)
  PROVE  AlgorithmInv'
<1>1. /\ stage = "ready" /\ type' = type /\ model' = model /\ frame' = f /\ read' = read
      /\ shown' = shown /\ stage' = "run"
      /\ written' = InputBytes
  BY DEF Runs, YoloRun, YoloV8Run, NvidiaDetRun, FomoRun, ImclsRun, PfldRun, YoloPoseRun,
         YoloWorldRun, Run
<1>2. /\ type \notin {"IMCLS", "YOLO_POSE", "YOLO_WORLD"} => scale' = f
      /\ type # "YOLO_POSE" => strides' = strides /\ lastInput' = lastInput
      /\ type = "YOLO_POSE" => IF lastInput = f THEN strides' = strides /\ lastInput' = lastInput
                                                ELSE strides' = f /\ lastInput' = f
  BY DEF Runs, YoloRun, YoloV8Run, NvidiaDetRun, FomoRun, ImclsRun, PfldRun, YoloPoseRun,
         YoloWorldRun, Run
<1>3. type \in Types /\ Valid(type, model) /\ model \in Models
  BY <1>1 DEF AlgorithmInv, Accepted
<1>4. Accepted'
  BY <1>1, <1>3 DEF Accepted
<1>5. Scaled'
  <2>1. f # "none"
    BY FrameAssumption
  <2> QED
    BY <1>1, <1>2, <2>1 DEF AlgorithmInv, Scaled
<1>6. Shown'
  BY <1>1 DEF AlgorithmInv, Shown
<1>7. written' = Elements(model.input)
  BY <1>1, <1>3, InputFilled DEF InputBytes
<1> QED
  BY <1>1, <1>4, <1>5, <1>6, <1>7 DEF AlgorithmInv

\* A frame's results: nothing is read outside, and the coordinates are of the frame.
Postprocesses ==
  \/ YoloPostprocess \/ YoloV8Postprocess \/ NvidiaDetPostprocess \/ FomoPostprocess
  \/ ImclsPostprocess \/ PfldPostprocess \/ YoloPosePostprocess \/ YoloWorldPostprocess

LEMMA OneInside ==
  ASSUME NEW m, NEW x, x < Elements(Shape(m, 0))
  PROVE  InsideOf(m, Only(x))
<1>1. Len(<<x>>) = 1 /\ <<x>>[1] = x /\ \A i \in 1 .. 1 : i = 1 /\ i - 1 = 0
  OBVIOUS
<1> QED
  BY <1>1 DEF InsideOf, Only

LEMMA PostprocessKeeps ==
  ASSUME AlgorithmInv, Postprocesses
  PROVE  AlgorithmInv'
<1>1. /\ stage = "postprocess" /\ type' = type /\ model' = model /\ stage' = "ready"
      /\ frame' = frame /\ scale' = scale /\ strides' = strides /\ lastInput' = lastInput
      /\ written' = written
  BY DEF Postprocesses, YoloPostprocess, YoloV8Postprocess, NvidiaDetPostprocess, FomoPostprocess,
         ImclsPostprocess, PfldPostprocess, YoloPosePostprocess, YoloWorldPostprocess, Postprocess
<1>2. \E at : /\ shown' = [frame |-> frame, at |-> at]
              /\ type = "IMCLS" => at = "none"
              /\ type \in {"YOLO_POSE", "YOLO_WORLD"} => at = strides
              /\ type \notin {"IMCLS", "YOLO_POSE", "YOLO_WORLD"} => at = scale
  BY DEF Postprocesses, YoloPostprocess, YoloV8Postprocess, NvidiaDetPostprocess, FomoPostprocess,
         ImclsPostprocess, PfldPostprocess, YoloPosePostprocess, YoloWorldPostprocess, Postprocess
<1>3. type \in Types /\ Valid(type, model) /\ model \in Models
  BY <1>1 DEF AlgorithmInv, Accepted
<1>4. Accepted'
  BY <1>1, <1>3 DEF Accepted
<1>5. Scaled'
  BY <1>1 DEF AlgorithmInv, Scaled
<1>6. Shown'
  <2>1. frame \in Frames /\ "one" \notin Frames /\ "none" \notin Frames
    BY <1>1, FrameAssumption DEF AlgorithmInv, Scaled
  <2>2. PICK at : /\ shown' = [frame |-> frame, at |-> at]
                  /\ type = "IMCLS" => at = "none"
                  /\ type \in {"YOLO_POSE", "YOLO_WORLD"} => at = strides
                  /\ type \notin {"IMCLS", "YOLO_POSE", "YOLO_WORLD"} => at = scale
    BY <1>2
  <2>3. shown'.at = at /\ shown'.frame = frame
    BY <2>2
  <2>4. at = frame \/ (at = "none" /\ type = "IMCLS") \/ (at = "one" /\ type = "YOLO_WORLD")
    BY <1>1, <2>1, <2>2 DEF AlgorithmInv, Scaled
  <2> QED
    BY <1>1, <2>1, <2>3, <2>4 DEF Shown
<1>7. ReadInside(type, model, read')
  <2>1. CASE YoloPostprocess
    <3>1. type = "YOLO" /\ YoloValid(model)
      <4>1. type = "YOLO"
        BY <2>1 DEF YoloPostprocess, Postprocess
      <4> QED
        BY <1>3, <4>1, ValidFor
    <3> DEFINE r == Dim(Output(0), 1)
               e == Dim(Output(0), 2)
               x == (r - 1) * e + 5 + ((e - 5) % 256) - 1
    <3>2. read' = Only(x)
      BY <2>1 DEF YoloPostprocess, Postprocess
    <3>3. x < Elements(Shape(model, 0))
      BY <1>3, <3>1, YoloReads DEF Output, Shape
    <3> HIDE DEF x
    <3> QED
      BY <3>2, <3>3, OneInside DEF ReadInside
  <2>2. CASE YoloV8Postprocess
    <3>1. type = "YOLO_V8" /\ YoloV8Valid(model)
      <4>1. type = "YOLO_V8"
        BY <2>2 DEF YoloV8Postprocess, Postprocess
      <4> QED
        BY <1>3, <4>1, ValidFor
    <3> DEFINE r == Dim(Output(0), 2)
               e == Dim(Output(0), 1)
               x == r - 1 + (4 + ((e - 4) % 256) - 1) * r
    <3>2. read' = Only(x)
      BY <2>2 DEF YoloV8Postprocess, Postprocess
    <3>3. x < Elements(Shape(model, 0))
      BY <1>3, <3>1, YoloV8Reads DEF Output, Shape
    <3> HIDE DEF x
    <3> QED
      BY <3>2, <3>3, OneInside DEF ReadInside
  <2>3. CASE NvidiaDetPostprocess
    <3>1. type = "NVIDIA_DET" /\ NvidiaDetValid(model)
      <4>1. type = "NVIDIA_DET"
        BY <2>3 DEF NvidiaDetPostprocess, Postprocess
      <4> QED
        BY <1>3, <4>1, ValidFor
    <3>2. SUFFICES ASSUME ~NotChecked(model) PROVE InsideOf(model, read')
      BY <3>1 DEF ReadInside
    <3> DEFINE conf == Output(1 - NvidiaBoxes)
               h == Dim(conf, 1)
               w == Dim(conf, 2)
               n == Dim(conf, 3)
               c == n * 4
               confRead == (h - 1) * (w * n) + (w - 1) * n + n - 1
               boxRead == (h - 1) * (w * c) + (w - 1) * c + (n - 1) * 4 + 3
    <3>3. NvidiaBoxes = BoxesOf(model) /\ BoxesOf(model) \in {0, 1}
      BY DEF NvidiaBoxes, BoxesOf, Output, Shape
    <3>4. read' = IF NvidiaBoxes = 0 THEN <<boxRead, confRead>> ELSE <<confRead, boxRead>>
      BY <2>3 DEF NvidiaDetPostprocess, Postprocess
    <3>5. /\ confRead < Elements(Shape(model, 1 - BoxesOf(model)))
          /\ boxRead < Elements(Shape(model, BoxesOf(model)))
      <4>1. conf = Shape(model, 1 - BoxesOf(model))
        BY <3>3 DEF Output, Shape
      <4> HIDE DEF conf
      <4> QED
        BY <1>3, <3>1, <3>2, <4>1, NvidiaDetReads, Zenon
    <3> HIDE DEF confRead, boxRead
    <3>6. \A x, y : Len(<<x, y>>) = 2 /\ <<x, y>>[1] = x /\ <<x, y>>[2] = y
      OBVIOUS
    <3>7. \A i \in 1 .. 2 : (i = 1 /\ i - 1 = 0) \/ (i = 2 /\ i - 1 = 1)
      OBVIOUS
    <3>8. CASE BoxesOf(model) = 0
      <4>1. 1 - BoxesOf(model) = 1
        BY <3>8
      <4> QED
        BY <3>3, <3>4, <3>5, <3>6, <3>7, <3>8, <4>1 DEF InsideOf
    <3>9. CASE BoxesOf(model) = 1
      <4>1. 1 - BoxesOf(model) = 0
        BY <3>9
      <4> QED
        BY <3>3, <3>4, <3>5, <3>6, <3>7, <3>9, <4>1 DEF InsideOf
    <3> QED
      BY <3>3, <3>8, <3>9
  <2>4. CASE FomoPostprocess
    <3>1. type = "FOMO" /\ FomoValid(model)
      <4>1. type = "FOMO"
        BY <2>4 DEF FomoPostprocess, Postprocess
      <4> QED
        BY <1>3, <4>1, ValidFor
    <3> DEFINE w == Dim(Output(0), 2)
               h == Dim(Output(0), 1)
               t == Dim(Output(0), 3)
               x == (h - 1) * w * t + (w - 1) * t + t - 1
    <3>2. read' = Only(x)
      BY <2>4 DEF FomoPostprocess, Postprocess
    <3>3. x < Elements(Shape(model, 0))
      BY <1>3, <3>1, FomoReads DEF Output, Shape
    <3> HIDE DEF x
    <3> QED
      BY <3>2, <3>3, OneInside DEF ReadInside
  <2>5. CASE ImclsPostprocess
    <3>1. type = "IMCLS" /\ ImclsValid(model)
      <4>1. type = "IMCLS"
        BY <2>5 DEF ImclsPostprocess, Postprocess
      <4> QED
        BY <1>3, <4>1, ValidFor
    <3>2. read' = Only(Dim(Shape(model, 0), 1) - 1)
      BY <2>5 DEF ImclsPostprocess, Postprocess, Output, Shape
    <3> QED
      BY <1>3, <3>1, <3>2, ImclsReads, OneInside DEF ReadInside
  <2>6. CASE PfldPostprocess
    <3>1. type = "PFLD" /\ PfldValid(model)
      <4>1. type = "PFLD"
        BY <2>6 DEF PfldPostprocess, Postprocess
      <4> QED
        BY <1>3, <4>1, ValidFor
    <3> DEFINE v == Dim(Output(0), 1)
               x == IF v = 0 THEN -1 ELSE ((v - 1) \div 2) * 2 + 1
    <3>2. read' = Only(x)
      BY <2>6 DEF PfldPostprocess, Postprocess
    <3>3. x < Elements(Shape(model, 0))
      BY <1>3, <3>1, PfldReads DEF Output, Shape
    <3> HIDE DEF x
    <3> QED
      BY <3>2, <3>3, OneInside DEF ReadInside
  <2>7. CASE YoloPosePostprocess
    <3>1. type = "YOLO_POSE" /\ YoloPoseValid(model)
      <4>1. type = "YOLO_POSE"
        BY <2>7 DEF YoloPosePostprocess, Postprocess
      <4> QED
        BY <1>3, <4>1, ValidFor
    <3> QED
      BY <1>3, <2>7, <3>1, YoloPoseReads DEF ReadInside
  <2>8. CASE YoloWorldPostprocess
    <3>1. type = "YOLO_WORLD" /\ YoloWorldValid(model)
      <4>1. type = "YOLO_WORLD"
        BY <2>8 DEF YoloWorldPostprocess, Postprocess
      <4> QED
        BY <1>3, <4>1, ValidFor
    <3> QED
      BY <1>3, <2>8, <3>1, YoloWorldReads DEF ReadInside
  <2> QED
    BY <2>1, <2>2, <2>3, <2>4, <2>5, <2>6, <2>7, <2>8 DEF Postprocesses
<1> QED
  BY <1>1, <1>3, <1>4, <1>5, <1>6, <1>7, Zenon DEF AlgorithmInv

\* For models of every shape: an algorithm that went on fills its input, reads its outputs
\* inside their bounds and scales to the frame it was given.
THEOREM ResultsAreOfFrame == AlgorithmSpec => []ResultsOfFrame
<1>1. AlgorithmInit => AlgorithmInv
  BY FrameAssumption DEF AlgorithmInit, AlgorithmInv, Accepted, Scaled, Shown, ReadInside
<1>2. AlgorithmInv /\ [AlgorithmNext]_algorithmVars => AlgorithmInv'
  <2> SUFFICES ASSUME AlgorithmInv, [AlgorithmNext]_algorithmVars PROVE AlgorithmInv'
    OBVIOUS
  <2>1. CASE Prepare
    BY <2>1 DEF Prepare, AlgorithmInv, Accepted, Scaled, Shown, ReadInside
  <2>2. CASE NotSupported
    BY <2>2 DEF NotSupported, AlgorithmInv, Accepted, Scaled, Shown, ReadInside
  <2>3. CASE Infer
    BY <2>3 DEF Infer, AlgorithmInv, Accepted, Scaled, Shown
  <2>4. CASE Constructs
    BY <2>4, ConstructKeeps
  <2>5. CASE \E f \in Frames : Runs(f)
    BY <2>5, RunKeeps
  <2>6. CASE Postprocesses
    BY <2>6, PostprocessKeeps
  <2>7. CASE UNCHANGED algorithmVars
    BY <2>7 DEF algorithmVars, AlgorithmInv, Accepted, Scaled, Shown
  <2> QED
    BY <2>1, <2>2, <2>3, <2>4, <2>5, <2>6, <2>7 DEF AlgorithmNext, Constructs, Runs, Postprocesses
<1>3. AlgorithmInv => ResultsOfFrame
  <2>1. Unchecked <=> type = "NVIDIA_DET" /\ NotChecked(model)
    BY DEF Unchecked, NotChecked, NvidiaBoxes, BoxesOf, Output, Shape
  <2>2. \A i : Output(i) = Shape(model, i)
    BY DEF Output, Shape
  <2>3. AlgorithmInv => (read # <<>> /\ ~Unchecked =>
                           \A i \in 1 .. Len(read) : read[i] < Elements(Output(i - 1)))
    BY <2>1, <2>2 DEF AlgorithmInv, ReadInside, InsideOf
  <2> QED
    BY <2>3 DEF AlgorithmInv, Shown, ResultsOfFrame
<1> QED
  BY <1>1, <1>2, <1>3, PTL DEF AlgorithmSpec

-----------------------------------------------------------------------------
(* Results: non-maximum suppression and the filter *)

\* The places of a list are ranked from one up, without ties.
LEMMA Ranking ==
  ASSUME NEW key, NEW places \in SUBSET Nat, IsFiniteSet(places),
         \A i \in places : key[i] \in Int
  PROVE  /\ Cardinality(places) \in Nat
         /\ \A i \in places : Rank(key, places, i) \in 1 .. Cardinality(places)
         /\ \A k \in 1 .. Cardinality(places) : \E i \in places : Rank(key, places, i) = k
         /\ \A i, j \in places :
              /\ Precedes(key, i, j) => Rank(key, places, i) < Rank(key, places, j)
              /\ i # j => Precedes(key, i, j) \/ Precedes(key, j, i)
<1> DEFINE n == Cardinality(places)
           Above(i) == {j \in places : Precedes(key, j, i)}
           rank == [i \in places |-> Rank(key, places, i)]
<1>1. n \in Nat
  BY FS_CardinalityType
<1>2. \A i \in places : IsFiniteSet(Above(i)) /\ Cardinality(Above(i)) \in Nat
  <2> TAKE i \in places
  <2>1. Above(i) \in SUBSET places
    OBVIOUS
  <2> QED
    BY <2>1, FS_Subset, FS_CardinalityType
<1>3. ASSUME NEW i \in places, NEW T \in SUBSET places, Above(i) \subseteq T, i \in T
      PROVE  Cardinality(Above(i)) < Cardinality(T)
  <2>1. i \notin Above(i)
    BY DEF Precedes
  <2>2. IsFiniteSet(T) /\ Cardinality(T) \in Nat
    BY FS_Subset, FS_CardinalityType
  <2>3. Above(i) \in SUBSET T /\ Above(i) # T
    BY <1>3, <2>1
  <2> HIDE DEF Above
  <2>4. Cardinality(Above(i)) <= Cardinality(T) /\ Cardinality(Above(i)) # Cardinality(T)
    BY <2>2, <2>3, FS_Subset
  <2> QED
    BY <1>2, <2>2, <2>4
<1>4. \A i \in places : Rank(key, places, i) = Cardinality(Above(i)) + 1
  BY DEF Rank
<1>5. \A i \in places : Rank(key, places, i) \in 1 .. n
  <2> TAKE i \in places
  <2>1. Cardinality(Above(i)) < n
    BY <1>3
  <2> QED
    BY <1>1, <1>2, <1>4, <2>1
<1>6. \A i, j \in places : Precedes(key, i, j) => Rank(key, places, i) < Rank(key, places, j)
  <2> SUFFICES ASSUME NEW i \in places, NEW j \in places, Precedes(key, i, j)
               PROVE  Rank(key, places, i) < Rank(key, places, j)
    OBVIOUS
  <2>1. i \in Above(j) /\ Above(j) \in SUBSET places
    OBVIOUS
  <2>3. ASSUME NEW k \in places, Precedes(key, k, i)
        PROVE  Precedes(key, k, j)
    BY <2>3 DEF Precedes
  <2>4. Above(i) \subseteq Above(j)
    BY <2>3
  <2>2. Cardinality(Above(i)) < Cardinality(Above(j))
    BY <1>3, <2>1, <2>4
  <2> QED
    BY <1>2, <1>4, <2>2
<1>7. \A i, j \in places : i # j => Precedes(key, i, j) \/ Precedes(key, j, i)
  BY DEF Precedes
<1> HIDE DEF n
<1>8. rank \in Injection(places, 1 .. n)
  <2>1. rank \in [places -> 1 .. n]
    BY <1>5
  <2>2. \A i, j \in places : rank[i] = rank[j] => i = j
    BY <1>1, <1>5, <1>6, <1>7
  <2> HIDE DEF rank
  <2> QED
    BY <2>1, <2>2, Fun_IsInj
<1>9. rank \in Surjection(places, 1 .. n)
  <2>1. IsFiniteSet(1 .. n) /\ Cardinality(1 .. n) = n
    BY <1>1, FS_Interval
  <2> HIDE DEF rank
  <2> QED
    BY <1>8, <2>1, FS_Injection DEF n
<1>10. \A k \in 1 .. n : \E i \in places : Rank(key, places, i) = k
  <2> TAKE k \in 1 .. n
  <2>1. \E i \in places : rank[i] = k
    BY <1>9 DEF Surjection
  <2> QED
    BY <2>1
<1> QED
  BY <1>1, <1>5, <1>6, <1>7, <1>10 DEF n

\* t has the elements at the places p[1] .. p[n], each place once, by the key.
InOrder(t, s, places, key, n, p) ==
  /\ p \in [1 .. n -> places]
  /\ t = [k \in 1 .. n |-> s[p[k]]]
  /\ \A k, l \in 1 .. n : k < l => Precedes(key, p[k], p[l])
  /\ \A i \in places : \E k \in 1 .. n : p[k] = i

\* What is arranged is each of the elements at the places, once, by the key.
LEMMA Arranging ==
  ASSUME NEW s, NEW key, NEW places \in SUBSET Nat, IsFiniteSet(places),
         \A i \in places : key[i] \in Int
  PROVE  \E n \in Nat : \E p : InOrder(Arranged(s, places, key), s, places, key, n, p)
<1> DEFINE n == Cardinality(places)
           PlaceOf(k) == CHOOSE i \in places : Rank(key, places, i) = k
           p == [k \in 1 .. n |-> PlaceOf(k)]
<1>1. n \in Nat
  BY Ranking
<1>2. \A k \in 1 .. n : PlaceOf(k) \in places /\ Rank(key, places, PlaceOf(k)) = k
  BY Ranking
<1> HIDE DEF PlaceOf
<1>3. p \in [1 .. n -> places]
  BY <1>2
<1>4. Arranged(s, places, key) = [k \in 1 .. n |-> s[p[k]]]
  <2>1. Arranged(s, places, key) = [k \in 1 .. n |-> s[PlaceOf(k)]]
    BY DEF Arranged, PlaceOf
  <2> QED
    BY <2>1
<1>5. ASSUME NEW k \in 1 .. n, NEW l \in 1 .. n, k < l
      PROVE  Precedes(key, p[k], p[l])
  <2>1. PlaceOf(k) \in places /\ PlaceOf(l) \in places /\ Rank(key, places, PlaceOf(k)) = k /\ Rank(key, places, PlaceOf(l)) = l
    BY <1>2
  <2>2. PlaceOf(k) # PlaceOf(l)
    BY <1>1, <1>5, <2>1
  <2>3. ~Precedes(key, PlaceOf(l), PlaceOf(k))
    <3> SUFFICES ASSUME Precedes(key, PlaceOf(l), PlaceOf(k)) PROVE FALSE
      OBVIOUS
    <3>1. Rank(key, places, PlaceOf(l)) < Rank(key, places, PlaceOf(k))
      BY <2>1, Ranking
    <3> QED
      BY <1>1, <1>5, <2>1, <3>1
  <2>4. Precedes(key, PlaceOf(k), PlaceOf(l))
    BY <2>1, <2>2, <2>3, Ranking
  <2> QED
    BY <2>4
<1>6. ASSUME NEW i \in places
      PROVE  \E k \in 1 .. n : p[k] = i
  <2> DEFINE k == Rank(key, places, i)
  <2>1. k \in 1 .. n
    BY Ranking
  <2>2. PlaceOf(k) \in places /\ Rank(key, places, PlaceOf(k)) = k
    BY <1>2, <2>1
  <2>3. PlaceOf(k) = i
    <3> SUFFICES ASSUME PlaceOf(k) # i PROVE FALSE
      OBVIOUS
    <3>1. Rank(key, places, i) < Rank(key, places, PlaceOf(k)) \/ Rank(key, places, PlaceOf(k)) < Rank(key, places, i)
      BY <2>2, Ranking
    <3> QED
      BY <1>1, <2>1, <2>2, <3>1
  <2> HIDE DEF k
  <2> QED
    BY <2>1, <2>3
<1> HIDE DEF p, n
<1>7. InOrder(Arranged(s, places, key), s, places, key, n, p)
  BY <1>3, <1>4, <1>5, <1>6 DEF InOrder
<1> QED
  BY <1>1, <1>7

\* What is left after the first k rounds of a suppression.
Cleared(s, left, k) ==
  /\ left \subseteq DOMAIN s
  /\ \A i, j \in left : i <= k /\ i < j => ~Overlap(s[i], s[j])
  /\ \A j \in DOMAIN s \ left :
       s[j].score # 0 => \E i \in left : i <= k /\ i < j /\ Overlap(s[i], s[j])

LEMMA RoundClears ==
  ASSUME NEW s, NEW left, NEW k \in Nat, DOMAIN s \subseteq Nat, Cleared(s, left, k)
  PROVE  Cleared(s, Suppressed(s, left, k + 1), k + 1)
<1> DEFINE next == Suppressed(s, left, k + 1)
<1>1. CASE k + 1 \notin left
  <2>1. next = left
    BY <1>1 DEF Suppressed
  <2>2. \A i \in left : i <= k + 1 => i <= k
    BY <1>1 DEF Cleared
  <2>3. \A i \in left : i <= k => i <= k + 1
    BY DEF Cleared
  <2> HIDE DEF next
  <2>4. \A i, j \in left : i <= k + 1 /\ i < j => ~Overlap(s[i], s[j])
    BY <2>2, Zenon DEF Cleared
  <2>5. \A j \in DOMAIN s \ left :
          s[j].score # 0 => \E i \in left : i <= k + 1 /\ i < j /\ Overlap(s[i], s[j])
    BY <2>3, Zenon DEF Cleared
  <2>6. left \subseteq DOMAIN s
    BY DEF Cleared
  <2>7. Cleared(s, left, k + 1)
    BY <2>4, <2>5, <2>6, Zenon DEF Cleared
  <2> QED
    BY <2>1, <2>7, Zenon DEF next
<1>2. CASE k + 1 \in left
  <2>1. next = {j \in left : j > k + 1 => ~Overlap(s[k + 1], s[j])}
    BY <1>2 DEF Suppressed
  <2>2. left \subseteq DOMAIN s /\ k + 1 \in next
    BY <1>2, <2>1 DEF Cleared
  <2> HIDE DEF next
  <2>3. ASSUME NEW i \in next, NEW j \in next, i <= k + 1, i < j
        PROVE  ~Overlap(s[i], s[j])
    <3>1. CASE i = k + 1
      BY <2>1, <2>3, <3>1
    <3>2. CASE i # k + 1
      <4>1. i <= k /\ i \in left /\ j \in left
        BY <2>1, <2>2, <2>3, <3>2
      <4> QED
        BY <2>3, <4>1 DEF Cleared
    <3> QED
      BY <3>1, <3>2
  <2>4. ASSUME NEW j \in DOMAIN s \ next, s[j].score # 0
        PROVE  \E i \in next : i <= k + 1 /\ i < j /\ Overlap(s[i], s[j])
    <3>1. CASE j \in left
      <4>1. k + 1 < j /\ Overlap(s[k + 1], s[j])
        BY <2>1, <2>4, <3>1
      <4> QED
        BY <2>2, <4>1
    <3>2. CASE j \notin left
      <4>1. PICK i \in left : i <= k /\ i < j /\ Overlap(s[i], s[j])
        BY <2>4, <3>2 DEF Cleared
      <4>2. i \in next /\ i <= k + 1
        BY <2>1, <2>2, <4>1
      <4> QED
        BY <4>1, <4>2
    <3> QED
      BY <3>1, <3>2
  <2>5. next \subseteq DOMAIN s
    BY <2>1, <2>2
  <2>6. \A i, j \in next : i <= k + 1 /\ i < j => ~Overlap(s[i], s[j])
    BY <2>3
  <2>7. \A j \in DOMAIN s \ next :
          s[j].score # 0 => \E i \in next : i <= k + 1 /\ i < j /\ Overlap(s[i], s[j])
    BY <2>4
  <2>8. Cleared(s, next, k + 1)
    BY <2>5, <2>6, <2>7, Zenon DEF Cleared
  <2> QED
    BY <2>8, Zenon DEF next
<1> QED
  BY <1>1, <1>2

\* The rounds of a suppression, and that there is always a next one.
Rounds(s, f, m) ==
  f = [i \in 0 .. m |-> IF i = 0 THEN {j \in DOMAIN s : s[j].score # 0}
                                  ELSE Suppressed(s, f[i - 1], i)]

LEMMA RoundsExist ==
  ASSUME NEW s, NEW n \in Nat
  PROVE  \E f : Rounds(s, f, n)
<1> DEFINE S == SUBSET DOMAIN s
           all == {j \in DOMAIN s : s[j].score # 0}
           g == [i \in 1 .. n |-> [left \in S |-> Suppressed(s, left, i)]]
<1>1. g \in [1 .. n -> [S -> S]] /\ all \in S
  BY DEF Suppressed
<1> HIDE DEF g, S, all
<1>2. PICK f : Recurs(f, n, S, all, g)
  BY <1>1, Recursion, Zenon
<1>3. ASSUME NEW i \in 0 .. n, i # 0
      PROVE  g[i][f[i - 1]] = Suppressed(s, f[i - 1], i)
  <2>1. i \in 1 .. n /\ i - 1 \in 0 .. n
    BY <1>3
  <2> QED
    BY <1>2, <2>1 DEF g, Recurs
<1>4. Rounds(s, f, n)
  BY <1>2, <1>3, Zenon DEF Rounds, Recurs, all
<1> QED
  BY <1>4

\* Nothing left overlaps within its target, and what went overlaps with something left that
\* comes before it.
LEMMA Suppressing ==
  ASSUME NEW s, NEW n \in Nat, Len(s) = n, DOMAIN s = 1 .. n
  PROVE  Cleared(s, Unsuppressed(s), n)
<1> DEFINE f == CHOOSE g : Rounds(s, g, n)
           S == {m \in 0 .. n : ~Cleared(s, f[m], m)}
<1>1. Rounds(s, f, n)
  BY RoundsExist
<1>2. Unsuppressed(s) = f[n]
  BY DEF Unsuppressed, Rounds
<1> HIDE DEF f
<1>3. /\ f[0] = {j \in DOMAIN s : s[j].score # 0}
      /\ \A i \in 1 .. n : f[i] = Suppressed(s, f[i - 1], i)
  <2> DEFINE round(g, i) == IF i = 0 THEN {j \in DOMAIN s : s[j].score # 0}
                                     ELSE Suppressed(s, g[i - 1], i)
  <2>1. \A i \in 0 .. n : f[i] = round(f, i)
    BY <1>1, Zenon DEF Rounds
  <2>2. 0 \in 0 .. n
    OBVIOUS
  <2>3. \A i \in 1 .. n : i \in 0 .. n /\ i # 0
    OBVIOUS
  <2> QED
    BY <2>1, <2>2, <2>3, Zenon
<1>4. S = {}
  <2> SUFFICES ASSUME S # {} PROVE FALSE
    OBVIOUS
  <2>1. PICK m \in S : \A l \in S : m <= l
    <3>1. S \subseteq Nat
      OBVIOUS
    <3> HIDE DEF S
    <3> QED
      BY <3>1, LeastElement
  <2>2. CASE m = 0
    <3>1. Cleared(s, f[0], 0)
      BY <1>3 DEF Cleared
    <3> QED
      BY <2>1, <2>2, <3>1
  <2>3. CASE m # 0
    <3>1. m - 1 \in Nat /\ m - 1 \in 0 .. n /\ m - 1 \notin S /\ m \in 1 .. n /\ (m - 1) + 1 = m
      BY <2>1, <2>3
    <3>2. Cleared(s, f[m - 1], m - 1)
      BY <3>1
    <3>3. DOMAIN s \subseteq Nat
      OBVIOUS
    <3>4. Cleared(s, Suppressed(s, f[m - 1], m), m)
      BY <3>1, <3>2, <3>3, RoundClears
    <3> QED
      BY <1>3, <2>1, <3>1, <3>4
  <2> QED
    BY <2>2, <2>3
<1> QED
  BY <1>2, <1>4

LEMMA OverlapBothWays ==
  ASSUME NEW a \in Detected, NEW b \in Detected, Overlap(a, b)
  PROVE  Overlap(b, a)
<1> DEFINE right(u, v) == Smaller(u.x + u.w, v.x + v.w)
           left(u, v)  == Larger(u.x, v.x)
           inter(u, v) == Larger(0, right(u, v) - left(u, v))
           union(u, v) == u.w + v.w - inter(u, v)
<1>1. a.x \in Int /\ b.x \in Int /\ a.w \in Int /\ b.w \in Int
  BY DEF Detected
<1>2. right(a, b) = right(b, a) /\ left(a, b) = left(b, a)
  BY <1>1 DEF Smaller, Larger
<1>3. inter(a, b) = inter(b, a)
  BY <1>2
<1>4. union(a, b) = union(b, a)
  <2>1. right(a, b) - left(a, b) \in Int
    BY <1>1 DEF Smaller, Larger
  <2> HIDE DEF right, left
  <2>2. inter(a, b) \in Int
    BY <2>1 DEF Larger
  <2> HIDE DEF inter
  <2> QED
    BY <1>1, <1>3, <2>2
<1>5. /\ compute_iou(a, b) = IF union(a, b) = 0 THEN undefinedIoU
                             ELSE (200 * inter(a, b) + union(a, b)) \div (2 * union(a, b))
      /\ compute_iou(b, a) = IF union(b, a) = 0 THEN undefinedIoU
                             ELSE (200 * inter(b, a) + union(b, a)) \div (2 * union(b, a))
  BY DEF compute_iou
<1> HIDE DEF inter, union
<1>6. compute_iou(a, b) = compute_iou(b, a)
  BY <1>3, <1>4, <1>5
<1> QED
  BY <1>6 DEF Overlap

\* A list arranged: its places, taken once each and in the order of the key.
Rearranged(t, s, places, key, n, p) ==
  /\ t \in Seq(Detected) /\ DOMAIN t = 1 .. n /\ Len(t) = n
  /\ p \in [1 .. n -> places]
  /\ \A k \in 1 .. n : t[k] = s[p[k]]
  /\ \A k, l \in 1 .. n : k < l => p[k] # p[l] /\ key[p[k]] <= key[p[l]]
  /\ \A i \in places : \E k \in 1 .. n : p[k] = i

LEMMA ListArranged ==
  ASSUME NEW s \in Seq(Detected), NEW places \in SUBSET DOMAIN s, NEW key,
         \A i \in places : key[i] \in Int
  PROVE  \E n \in Nat : \E p : Rearranged(Arranged(s, places, key), s, places, key, n, p)
<1> DEFINE t == Arranged(s, places, key)
<1>1. DOMAIN s = 1 .. Len(s) /\ Len(s) \in Nat /\ \A i \in DOMAIN s : s[i] \in Detected
  OBVIOUS
<1>2. IsFiniteSet(places) /\ places \in SUBSET Nat
  <2>1. IsFiniteSet(1 .. Len(s))
    BY <1>1, FS_Interval
  <2>2. IsFiniteSet(DOMAIN s)
    BY <1>1, <2>1
  <2> QED
    BY <1>1, <2>2, FS_Subset
<1>3. PICK n \in Nat : \E p : InOrder(t, s, places, key, n, p)
  BY <1>2, Arranging, Zenon DEF t
<1>4. PICK p : InOrder(t, s, places, key, n, p)
  BY <1>3
<1> HIDE DEF t
<1>5. ASSUME NEW k \in 1 .. n, NEW l \in 1 .. n, k < l
      PROVE  p[k] # p[l] /\ key[p[k]] <= key[p[l]]
  <2>1. Precedes(key, p[k], p[l])
    BY <1>4, <1>5 DEF InOrder
  <2>2. p[k] \in Nat /\ p[l] \in Nat /\ key[p[k]] \in Int /\ key[p[l]] \in Int
    BY <1>2, <1>4 DEF InOrder
  <2> QED
    BY <2>1, <2>2 DEF Precedes
<1>6. \A k \in 1 .. n : p[k] \in DOMAIN s /\ t[k] = s[p[k]] /\ s[p[k]] \in Detected
  BY <1>1, <1>4 DEF InOrder
<1>7. t \in [1 .. n -> Detected]
  BY <1>4, <1>6 DEF InOrder
<1>8. t \in Seq(Detected) /\ DOMAIN t = 1 .. n /\ Len(t) = n
  BY <1>7
<1>9. Rearranged(t, s, places, key, n, p)
  BY <1>4, <1>5, <1>6, <1>8 DEF InOrder, Rearranged
<1> QED
  BY <1>9, Zenon DEF t

LEMMA AllArranged ==
  ASSUME NEW s, NEW t, NEW key, NEW n \in Nat, NEW p, Rearranged(t, s, DOMAIN s, key, n, p)
  PROVE  Boxes(t) = Boxes(s)
<1>1. ASSUME NEW k \in DOMAIN t
      PROVE  t[k] \in Boxes(s)
  BY DEF Rearranged, Boxes
<1>2. ASSUME NEW i \in DOMAIN s
      PROVE  s[i] \in Boxes(t)
  BY DEF Rearranged, Boxes
<1> QED
  BY <1>1, <1>2 DEF Boxes

\* el_nms: nothing it leaves overlaps within its target, and what it takes away scores 0 or
\* overlaps with something that it leaves.
Disjoint(s) == \A i, j \in DOMAIN s : i # j => ~Overlap(s[i], s[j])
AllCovered(s, t) ==
  \A b \in Boxes(s) \ Boxes(t) :
    b.score # 0 => \E k \in Boxes(t) : Overlap(k, b) /\ k.score >= b.score

LEMMA NmsLeaves ==
  ASSUME NEW boxes \in Seq(Detected)
  PROVE  /\ el_nms(boxes) \in Seq(Detected)
         /\ Disjoint(el_nms(boxes)) /\ AllCovered(boxes, el_nms(boxes))
<1> DEFINE byScore == [i \in DOMAIN boxes |-> -boxes[i].score]
           s == Arranged(boxes, DOMAIN boxes, byScore)
           same == [i \in DOMAIN s |-> 0]
           places == Unsuppressed(s)
           t == Arranged(s, places, same)
<1>1. \A i \in DOMAIN boxes : byScore[i] \in Int /\ byScore[i] = -boxes[i].score /\ boxes[i].score \in Nat
  <2> TAKE i \in DOMAIN boxes
  <2>1. boxes[i] \in Detected
    OBVIOUS
  <2>2. boxes[i].score \in Nat
    BY <2>1 DEF Detected
  <2> QED
    BY <2>2
<1> HIDE DEF byScore
<1>2. PICK n \in Nat : \E p : Rearranged(s, boxes, DOMAIN boxes, byScore, n, p)
  BY <1>1, ListArranged
<1>3. PICK p : Rearranged(s, boxes, DOMAIN boxes, byScore, n, p)
  BY <1>2
<1>4. el_nms(boxes) = t
  BY DEF el_nms, byScore
<1> HIDE DEF s
<1>5. s \in Seq(Detected) /\ DOMAIN s = 1 .. n /\ Len(s) = n /\ \A i \in DOMAIN s : s[i] \in Detected
  BY <1>3 DEF Rearranged
<1>6. Cleared(s, places, n)
  BY <1>5, Suppressing
<1> HIDE DEF places
<1>7. places \in SUBSET DOMAIN s
  BY <1>6 DEF Cleared
<1>8. \A i \in places : same[i] \in Int
  BY <1>7
<1> HIDE DEF same
<1>9. PICK m \in Nat : \E q : Rearranged(t, s, places, same, m, q)
  BY <1>5, <1>7, <1>8, ListArranged
<1>10. PICK q : Rearranged(t, s, places, same, m, q)
  BY <1>9
<1> HIDE DEF t
<1>11. Disjoint(t)
  <2> SUFFICES ASSUME NEW i \in 1 .. m, NEW j \in 1 .. m, i # j
               PROVE  ~Overlap(t[i], t[j])
    BY <1>10 DEF Disjoint, Rearranged
  <2>1. /\ q[i] \in places /\ q[j] \in places /\ q[i] # q[j]
        /\ t[i] = s[q[i]] /\ t[j] = s[q[j]]
    BY <1>10 DEF Rearranged
  <2>2. q[i] \in 1 .. n /\ q[j] \in 1 .. n /\ t[i] \in Detected /\ t[j] \in Detected
    BY <1>5, <1>7, <2>1
  <2>3. ~Overlap(t[i], t[j]) \/ ~Overlap(t[j], t[i])
    <3>1. q[i] < q[j] \/ q[j] < q[i]
      BY <2>1, <2>2
    <3>2. \A u, v \in places : u <= n /\ u < v => ~Overlap(s[u], s[v])
      BY <1>6 DEF Cleared
    <3>3. q[i] <= n /\ q[j] <= n
      BY <2>2
    <3> QED
      BY <2>1, <3>1, <3>2, <3>3
  <2> QED
    BY <2>2, <2>3, OverlapBothWays
<1>12. AllCovered(boxes, t)
  <2> SUFFICES ASSUME NEW b \in Boxes(boxes), b \notin Boxes(t), b.score # 0
               PROVE  \E k \in Boxes(t) : Overlap(k, b) /\ k.score >= b.score
    BY DEF AllCovered
  <2>1. \A i \in places : s[i] \in Boxes(t)
    BY <1>10 DEF Rearranged, Boxes
  <2>2. PICK j \in DOMAIN s : s[j] = b
    <3>1. Boxes(s) = Boxes(boxes)
      BY <1>3, AllArranged, Zenon
    <3> QED
      BY <3>1 DEF Boxes
  <2>3. j \in DOMAIN s \ places /\ s[j].score # 0
    BY <2>1, <2>2
  <2>4. PICK i \in places : i <= n /\ i < j /\ Overlap(s[i], s[j])
    BY <1>6, <2>3 DEF Cleared
  <2>5. i \in 1 .. n /\ j \in 1 .. n
    BY <1>5, <1>7, <2>2
  <2>6. byScore[p[i]] <= byScore[p[j]] /\ s[i] = boxes[p[i]] /\ s[j] = boxes[p[j]]
        /\ p[i] \in DOMAIN boxes /\ p[j] \in DOMAIN boxes
    BY <1>3, <2>4, <2>5 DEF Rearranged
  <2>7. s[i].score >= s[j].score
    <3> DEFINE u == p[i]
               v == p[j]
    <3>1. u \in DOMAIN boxes /\ v \in DOMAIN boxes /\ s[i] = boxes[u] /\ s[j] = boxes[v]
      BY <2>6
    <3>2. byScore[u] <= byScore[v]
      BY <2>6
    <3> HIDE DEF u, v
    <3>3. /\ byScore[u] = -boxes[u].score /\ byScore[v] = -boxes[v].score
          /\ boxes[u].score \in Nat /\ boxes[v].score \in Nat
      BY <1>1, <3>1
    <3>4. boxes[u].score >= boxes[v].score
      BY <3>2, <3>3
    <3> QED
      BY <3>1, <3>4
  <2> QED
    BY <2>1, <2>2, <2>4, <2>7
<1>13. t \in Seq(Detected)
  BY <1>10 DEF Rearranged
<1> QED
  BY <1>4, <1>11, <1>12, <1>13

\* The same of a value of undefinedIoU.
Overlapping(u, a, b) ==
  /\ a.target = b.target
  /\ LET inter == Larger(0, Smaller(a.x + a.w, b.x + b.w) - Larger(a.x, b.x))
         union == a.w + b.w - inter
     IN  (IF union = 0 THEN u ELSE (200 * inter + union) \div (2 * union)) > Threshold
ApartGiven(u, s) == \A i, j \in DOMAIN s : i # j => ~Overlapping(u, s[i], s[j])
CoveredGiven(u, s, t) ==
  \A b \in Boxes(s) \ Boxes(t) :
    b.score # 0 => \E k \in Boxes(t) : Overlapping(u, k, b) /\ k.score >= b.score

LEMMA OverlapGiven ==
  ASSUME NEW a, NEW b
  PROVE  Overlap(a, b) <=> Overlapping(undefinedIoU, a, b)
  BY DEF Overlap, Overlapping, compute_iou

LEMMA PropertiesGiven ==
  ASSUME NEW s, NEW t
  PROVE  /\ Disjoint(t) <=> ApartGiven(undefinedIoU, t)
         /\ AllCovered(s, t) <=> CoveredGiven(undefinedIoU, s, t)
<1>1. \A a, b : Overlap(a, b) <=> Overlapping(undefinedIoU, a, b)
  BY OverlapGiven
<1> QED
  BY <1>1 DEF Disjoint, AllCovered, ApartGiven, CoveredGiven

\* The invariant: lists of boxes throughout.
ResultInv ==
  /\ results \in Seq(Detected) /\ last \in Seq(Detected) /\ before \in Seq(Detected)
  /\ resultStep \in {"run", "compare", "reply"}
  /\ ApartGiven(undefinedIoU, results) /\ CoveredGiven(undefinedIoU, found, results)
  /\ resultStep = "reply" =>
       \A t \in Targets(before) \cup Targets(last) :
         Len(View(before, t)) # Len(View(last, t)) => reply

LEMMA TargetsFinite ==
  ASSUME NEW s \in Seq(Detected)
  PROVE  IsFiniteSet(Targets(s))
<1> DEFINE f == [i \in DOMAIN s |-> s[i].target]
<1>1. f \in Surjection(DOMAIN s, Targets(s))
  <2>1. f \in [DOMAIN s -> Targets(s)]
    BY DEF Targets
  <2>2. \A t \in Targets(s) : \E i \in DOMAIN s : f[i] = t
    BY DEF Targets
  <2> HIDE DEF f
  <2> QED
    BY <2>1, <2>2, Fun_IsSurj
<1>2. IsFiniteSet(DOMAIN s)
  <2>1. DOMAIN s = 1 .. Len(s) /\ Len(s) \in Nat
    OBVIOUS
  <2> QED
    BY <2>1, FS_Interval
<1> HIDE DEF f
<1> QED
  BY <1>1, <1>2, FS_Surjection

\* A comparison that finds the same counts finds them for every target of either list.
LEMMA CountsOfAll ==
  ASSUME NEW old \in Seq(Detected), NEW new \in Seq(Detected), SameCounts(old, new),
         NEW t \in Targets(old) \cup Targets(new)
  PROVE  Len(View(old, t)) = Len(View(new, t))
<1>1. Targets(old) \subseteq Targets(new) /\ Cardinality(Targets(old)) = Cardinality(Targets(new))
  BY DEF SameCounts
<1>2. Targets(old) = Targets(new)
  BY <1>1, TargetsFinite, FS_Subset
<1> QED
  BY <1>2 DEF SameCounts

\* For lists of every length: what nms leaves is apart and covers what it takes away, and
\* the filter reports every change of a number of results.
THEOREM ResultsAreReported == ResultSpec => []ResultsReported
<1>1. ResultInit => ResultInv
  <2> SUFFICES ASSUME ResultInit PROVE ResultInv
    OBVIOUS
  <2>1. /\ found = <<>> /\ results = <<>> /\ last = <<>> /\ before = <<>>
        /\ resultStep = "run"
    BY DEF ResultInit
  <2>2. <<>> \in Seq(Detected)
    OBVIOUS
  <2>3. ApartGiven(undefinedIoU, <<>>) /\ CoveredGiven(undefinedIoU, <<>>, <<>>)
    BY DEF ApartGiven, CoveredGiven, Boxes
  <2> QED
    BY <2>1, <2>2, <2>3 DEF ResultInv
<1>2. ResultInv /\ [ResultNext]_resultVars => ResultInv'
  <2> SUFFICES ASSUME ResultInv, [ResultNext]_resultVars PROVE ResultInv'
    OBVIOUS
  <2>1. CASE Postprocessed
    <3>1. PICK boxes \in Detections : found' = boxes
      BY <2>1 DEF Postprocessed
    <3> DEFINE left == el_nms(boxes)
               byX == [i \in DOMAIN left |-> left[i].x]
    <3>2. /\ results' = Arranged(left, DOMAIN left, byX)
          /\ resultStep' = "compare" /\ undefinedIoU' = undefinedIoU
          /\ last' = last /\ before' = before
      BY <2>1, <3>1 DEF Postprocessed
    <3>3. boxes \in Seq(Detected)
      BY <3>1, ResultAssumption
    <3>4. left \in Seq(Detected) /\ Disjoint(left) /\ AllCovered(boxes, left)
      BY <3>3, NmsLeaves
    <3> HIDE DEF left
    <3>5. \A i \in DOMAIN left : byX[i] \in Int
      <4> TAKE i \in DOMAIN left
      <4>1. left[i] \in Detected
        BY <3>4
      <4> QED
        BY <4>1 DEF Detected
    <3> HIDE DEF byX
    <3>6. PICK n \in Nat : \E p : Rearranged(results', left, DOMAIN left, byX, n, p)
      BY <3>2, <3>4, <3>5, ListArranged
    <3>7. PICK p : Rearranged(results', left, DOMAIN left, byX, n, p)
      BY <3>6
    <3>8. Boxes(results') = Boxes(left)
      BY <3>7, AllArranged, Zenon
    <3>9. ApartGiven(undefinedIoU, results')
      <4> SUFFICES ASSUME NEW i \in 1 .. n, NEW j \in 1 .. n, i # j
                   PROVE  ~Overlapping(undefinedIoU, results'[i], results'[j])
        BY <3>7 DEF ApartGiven, Rearranged
      <4>1. /\ p[i] \in DOMAIN left /\ p[j] \in DOMAIN left /\ p[i] # p[j]
            /\ results'[i] = left[p[i]] /\ results'[j] = left[p[j]]
        BY <3>7 DEF Rearranged
      <4>2. ApartGiven(undefinedIoU, left)
        BY <3>4, PropertiesGiven
      <4> QED
        BY <4>1, <4>2 DEF ApartGiven
    <3>10. CoveredGiven(undefinedIoU, found', results')
      <4>1. CoveredGiven(undefinedIoU, boxes, left)
        BY <3>4, PropertiesGiven
      <4> QED
        BY <3>1, <3>8, <4>1, Zenon DEF CoveredGiven
    <3>11. results' \in Seq(Detected)
      BY <3>7 DEF Rearranged
    <3> QED
      BY <3>2, <3>9, <3>10, <3>11 DEF ResultInv
  <2>2. CASE CompareAndUpdate
    <3>1. /\ undefinedIoU' = undefinedIoU /\ results' = results
          /\ before' = last /\ last' = results /\ found' = <<>> /\ resultStep' = "reply"
      BY <2>2 DEF CompareAndUpdate
    <3>2. ~reply' => SameCounts(last, results)
      BY <2>2 DEF CompareAndUpdate
    <3>3. last \in Seq(Detected) /\ results \in Seq(Detected)
      BY DEF ResultInv
    <3>4. ASSUME NEW t \in Targets(last) \cup Targets(results),
                 Len(View(last, t)) # Len(View(results, t))
          PROVE  reply'
      BY <3>2, <3>3, <3>4, CountsOfAll
    <3>5. \A t \in Targets(before') \cup Targets(last') :
            Len(View(before', t)) # Len(View(last', t)) => reply'
      BY <3>1, <3>4, Zenon
    <3>6. CoveredGiven(undefinedIoU, <<>>, results)
      BY DEF CoveredGiven, Boxes
    <3> QED
      BY <3>1, <3>3, <3>5, <3>6 DEF ResultInv
  <2>3. CASE HandOver
    BY <2>3 DEF HandOver, ResultInv
  <2>4. CASE UNCHANGED resultVars
    BY <2>4 DEF ResultInv, resultVars
  <2> QED
    BY <2>1, <2>2, <2>3, <2>4 DEF ResultNext
<1>3. ResultInv => ResultsReported
  BY PropertiesGiven DEF ResultInv, ResultsReported, Disjoint, AllCovered
<1> QED
  BY <1>1, <1>2, <1>3, PTL DEF ResultSpec

-----------------------------------------------------------------------------
(* LineEditor. *)

\* A sequence in two parts, before and behind the cursor.
LEMMA InTwoParts ==
  ASSUME NEW S, NEW l \in Seq(S), NEW r \in Seq(S)
  PROVE  /\ l \o r \in Seq(S) /\ Len(l \o r) = Len(l) + Len(r)
         /\ SubSeq(l \o r, 1, Len(l)) = l
         /\ SubSeq(l \o r, Len(l) + 1, Len(l \o r)) = r
<1> DEFINE s == l \o r
           a == SubSeq(s, 1, Len(l))
           b == SubSeq(s, Len(l) + 1, Len(s))
<1>1. /\ s \in Seq(S) /\ Len(s) = Len(l) + Len(r)
      /\ \A i \in 1 .. Len(l) + Len(r) : s[i] = IF i <= Len(l) THEN l[i] ELSE r[i - Len(l)]
  BY ConcatProperties
<1>2. Len(l) \in Nat /\ Len(r) \in Nat
  OBVIOUS
<1>3. \A i \in 1 .. Len(s) : s[i] \in S
  BY <1>1
<1> HIDE DEF s
<1>4. a = l
  <2>1. \A i \in 1 .. Len(l) : s[i] \in S
    BY <1>1, <1>2, <1>3
  <2>2. /\ a \in Seq(S) /\ Len(a) = IF 1 <= Len(l) THEN Len(l) - 1 + 1 ELSE 0
        /\ \A i \in 1 .. Len(l) - 1 + 1 : a[i] = s[1 + i - 1]
    BY <1>2, <2>1, SubSeqProperties
  <2> HIDE DEF a
  <2>3. Len(a) = Len(l) /\ \A i \in 1 .. Len(a) : a[i] = l[i]
    BY <1>1, <1>2, <2>2
  <2> QED
    BY <2>2, <2>3, SeqEqual
<1>5. b = r
  <2>1. \A i \in Len(l) + 1 .. Len(s) : s[i] \in S
    BY <1>1, <1>2, <1>3
  <2>2. /\ b \in Seq(S) /\ Len(b) = IF Len(l) + 1 <= Len(s) THEN Len(s) - (Len(l) + 1) + 1 ELSE 0
        /\ \A i \in 1 .. Len(s) - (Len(l) + 1) + 1 : b[i] = s[Len(l) + 1 + i - 1]
    BY <1>1, <1>2, <2>1, SubSeqProperties
  <2> HIDE DEF b
  <2>3. Len(b) = Len(r)
    BY <1>1, <1>2, <2>2
  <2>4. ASSUME NEW i \in 1 .. Len(r)
        PROVE  b[i] = r[i]
    <3> DEFINE n == Len(l)
               m == Len(s)
    <3>a. n \in Nat /\ m = n + Len(r) /\ Len(r) \in Nat
      BY <1>1, <1>2
    <3>b. \A j \in 1 .. m - (n + 1) + 1 : b[j] = s[n + 1 + j - 1]
      BY <2>2
    <3> HIDE DEF n, m
    <3>c. i \in 1 .. m - (n + 1) + 1 /\ n + 1 + i - 1 = n + i /\ n + i \in 1 .. n + Len(r) /\ ~(n + i <= n)
      BY <3>a
    <3>d. b[i] = s[n + i]
      BY <3>b, <3>c
    <3>1. b[i] = s[Len(l) + i] /\ Len(l) + i \in 1 .. Len(l) + Len(r) /\ ~(Len(l) + i <= Len(l))
      BY <3>c, <3>d DEF n
    <3>2. s[Len(l) + i] = r[Len(l) + i - Len(l)] /\ Len(l) + i - Len(l) = i
      BY <1>1, <1>2, <3>1
    <3> QED
      BY <3>1, <3>2
  <2> QED
    BY <2>2, <2>3, <2>4, SeqEqual
<1> QED
  BY <1>1, <1>4, <1>5 DEF s

LEMMA CutAt ==
  ASSUME NEW S, NEW s \in Seq(S), NEW k \in 0 .. Len(s)
  PROVE  \E l, r \in Seq(S) : s = l \o r /\ Len(l) = k
<1> DEFINE l == SubSeq(s, 1, k)
           r == SubSeq(s, k + 1, Len(s))
<1>1. Len(s) \in Nat /\ \A i \in 1 .. Len(s) : s[i] \in S
  OBVIOUS
<1>2. l \in Seq(S) /\ Len(l) = k
  <2>1. \A i \in 1 .. k : s[i] \in S
    BY <1>1
  <2>2. l \in Seq(S) /\ Len(l) = IF 1 <= k THEN k - 1 + 1 ELSE 0
    BY <1>1, <2>1, SubSeqProperties
  <2> QED
    BY <2>2
<1>3. r \in Seq(S)
  <2>1. \A i \in k + 1 .. Len(s) : s[i] \in S
    BY <1>1
  <2> QED
    BY <1>1, <2>1, SubSeqProperties
<1>4. SubSeq(s, 1, Len(s)) = s
  BY SubSeqFull
<1>5. l \o r = s
  <2>1. 1 \in 1 .. Len(s) + 1 /\ k \in 1 - 1 .. Len(s) /\ Len(s) \in k .. Len(s)
    BY <1>1
  <2>2. l \o r = SubSeq(s, 1, Len(s))
    BY <2>1, ConcatAdjacentSubSeq
  <2> QED
    BY <1>4, <2>2
<1> QED
  BY <1>2, <1>3, <1>5, Zenon

\* Without its last symbol, and without its first.
LEMMA LastOff ==
  ASSUME NEW S, NEW l \in Seq(S), l # <<>>
  PROVE  /\ Front(l) \in Seq(S) /\ Len(Front(l)) = Len(l) - 1 /\ Last(l) \in S
         /\ l = Front(l) \o <<Last(l)>>
<1>1. PICK f \in Seq(S), e \in S : l = Append(f, e)
  BY SequenceEmptyOrAppend
<1>2. l = f \o <<e>> /\ <<e>> \in Seq(S) /\ Len(<<e>>) = 1
  BY <1>1, AppendIsConcat
<1>3. Len(l) = Len(f) + 1 /\ l[Len(f) + 1] = e /\ Len(f) \in Nat
  BY <1>1, AppendProperties
<1>4. SubSeq(l, 1, Len(f)) = f
  BY <1>2, InTwoParts
<1>5. Front(l) = f /\ Last(l) = e
  BY <1>3, <1>4 DEF Front, Last
<1> QED
  BY <1>2, <1>3, <1>5

LEMMA FirstOff ==
  ASSUME NEW S, NEW r \in Seq(S), r # <<>>
  PROVE  /\ Head(r) \in S /\ Tail(r) \in Seq(S) /\ Len(Tail(r)) = Len(r) - 1
         /\ r = <<Head(r)>> \o Tail(r)
<1>1. /\ Head(r) \in S /\ Tail(r) \in Seq(S) /\ Len(Tail(r)) = Len(r) - 1
      /\ \A i \in 1 .. Len(Tail(r)) : Tail(r)[i] = r[i + 1]
  BY HeadTailProperties
<1>2. <<Head(r)>> \in Seq(S) /\ Len(<<Head(r)>>) = 1 /\ <<Head(r)>>[1] = r[1]
  BY <1>1
<1>3. Len(r) \in Nat \ {0}
  BY EmptySeq
<1> DEFINE h == <<Head(r)>>
           t == Tail(r)
<1>4. /\ h \o t \in Seq(S) /\ Len(h \o t) = Len(h) + Len(t)
      /\ \A i \in 1 .. Len(h) + Len(t) : (h \o t)[i] = IF i <= Len(h) THEN h[i] ELSE t[i - Len(h)]
  BY <1>1, <1>2, ConcatProperties
<1> HIDE DEF h, t
<1>5. ASSUME NEW i \in 1 .. Len(r)
      PROVE  r[i] = (h \o t)[i]
  <2>1. CASE i = 1
    BY <1>1, <1>2, <1>3, <1>4, <2>1 DEF h, t
  <2>2. CASE i # 1
    <3>1. i - 1 \in 1 .. Len(t) /\ (h \o t)[i] = t[i - 1]
      BY <1>1, <1>2, <1>3, <1>4, <2>2 DEF h, t
    <3>2. t[i - 1] = r[(i - 1) + 1] /\ (i - 1) + 1 = i
      BY <1>1, <3>1 DEF t
    <3> QED
      BY <3>1, <3>2
  <2> QED
    BY <2>1, <2>2
<1>6. Len(h \o t) = Len(r)
  BY <1>1, <1>2, <1>3, <1>4 DEF h, t
<1>7. r = h \o t
  BY <1>4, <1>5, <1>6, SeqEqual
<1> QED
  BY <1>1, <1>7 DEF h, t

\* What a key does to the line, said of its two parts.
LEMMA SymbolInserted ==
  ASSUME NEW S, NEW l \in Seq(S), NEW r \in Seq(S), NEW c \in S
  PROVE  /\ InsertAt(l \o r, Len(l) + 1, c) = Append(l, c) \o r
         /\ Append(l, c) \in Seq(S) /\ Len(Append(l, c)) = Len(l) + 1
         /\ Append(l, c) \o r \in Seq(S) /\ Len(Append(l, c) \o r) = Len(l \o r) + 1
<1> DEFINE q == l \o r
<1>1. SubSeq(q, 1, Len(l)) = l /\ SubSeq(q, Len(l) + 1, Len(q)) = r /\ Len(q) = Len(l) + Len(r)
  BY InTwoParts
<1>2. Len(l) + 1 - 1 = Len(l) /\ Len(l) \in Nat /\ Len(r) \in Nat
  OBVIOUS
<1> HIDE DEF q
<1>3. InsertAt(q, Len(l) + 1, c) = (l \o <<c>>) \o r
  <2> DEFINE n == Len(l) + 1
  <2>1. SubSeq(q, 1, n - 1) = l /\ SubSeq(q, n, Len(q)) = r
    BY <1>1, <1>2
  <2> HIDE DEF n
  <2>2. InsertAt(q, n, c) = (l \o <<c>>) \o r
    BY <2>1, Zenon DEF InsertAt
  <2> QED
    BY <2>2 DEF n
<1>4. Append(l, c) = l \o <<c>> /\ Append(l, c) \in Seq(S) /\ Len(Append(l, c)) = Len(l) + 1
  BY AppendIsConcat, AppendProperties
<1>5. Append(l, c) \o r \in Seq(S) /\ Len(Append(l, c) \o r) = Len(l) + 1 + Len(r)
  BY <1>4, InTwoParts
<1> QED
  BY <1>1, <1>2, <1>3, <1>4, <1>5 DEF q

LEMMA SymbolRemoved ==
  ASSUME NEW S, NEW l \in Seq(S), NEW r \in Seq(S), l # <<>>
  PROVE  /\ RemoveAt(l \o r, Len(l)) = Front(l) \o r
         /\ Front(l) \o r \in Seq(S) /\ Len(Front(l) \o r) = Len(l \o r) - 1
<1> DEFINE f == Front(l)
           e == <<Last(l)>>
<1>1. f \in Seq(S) /\ Len(f) = Len(l) - 1 /\ e \in Seq(S) /\ l = f \o e
  <2>1. f \in Seq(S) /\ Len(f) = Len(l) - 1 /\ Last(l) \in S /\ l = f \o e
    BY LastOff
  <2> QED
    BY <2>1
<1>2. Len(l) \in Nat /\ Len(r) \in Nat
  OBVIOUS
<1> HIDE DEF f, e
<1>3. l \o r = f \o (e \o r) /\ e \o r \in Seq(S)
  BY <1>1, ConcatAssociative, ConcatProperties
<1>4. SubSeq(l \o r, 1, Len(f)) = f
  BY <1>1, <1>3, InTwoParts
<1>5. SubSeq(l \o r, Len(l) + 1, Len(l \o r)) = r /\ Len(l \o r) = Len(l) + Len(r)
  BY InTwoParts
<1>6. f \o r \in Seq(S) /\ Len(f \o r) = Len(f) + Len(r)
  BY <1>1, InTwoParts
<1>7. RemoveAt(l \o r, Len(l)) = f \o r
  BY <1>1, <1>4, <1>5 DEF RemoveAt
<1> QED
  BY <1>1, <1>2, <1>5, <1>6, <1>7 DEF f

LEMMA CursorRight ==
  ASSUME NEW S, NEW l \in Seq(S), NEW r \in Seq(S), r # <<>>
  PROVE  /\ Append(l, Head(r)) \in Seq(S) /\ Tail(r) \in Seq(S)
         /\ Len(Append(l, Head(r))) = Len(l) + 1
         /\ Append(l, Head(r)) \o Tail(r) = l \o r
<1>1. Head(r) \in S /\ Tail(r) \in Seq(S) /\ r = <<Head(r)>> \o Tail(r)
  BY FirstOff
<1>2. Append(l, Head(r)) \in Seq(S) /\ Len(Append(l, Head(r))) = Len(l) + 1
  BY <1>1, AppendProperties
<1>3. Append(l, Head(r)) = l \o <<Head(r)>> /\ <<Head(r)>> \in Seq(S)
  BY <1>1, AppendIsConcat
<1>4. (l \o <<Head(r)>>) \o Tail(r) = l \o (<<Head(r)>> \o Tail(r))
  BY <1>1, <1>3, ConcatAssociative
<1> QED
  BY <1>1, <1>2, <1>3, <1>4

LEMMA RemovedAt ==
  ASSUME NEW S, NEW s \in Seq(S), NEW k \in 1 .. Len(s)
  PROVE  /\ RemoveAt(s, k) \in Seq(S) /\ Len(RemoveAt(s, k)) = Len(s) - 1
         /\ \A j \in 1 .. Len(s) - 1 : RemoveAt(s, k)[j] = IF j < k THEN s[j] ELSE s[j + 1]
<1>1. Len(s) \in Nat /\ k \in Nat /\ 1 <= k /\ k <= Len(s)
  OBVIOUS
<1>2. PICK l \in Seq(S), r \in Seq(S) : s = l \o r /\ Len(l) = k
  <2>1. k \in 0 .. Len(s)
    BY <1>1
  <2>2. \E l, r \in Seq(S) : s = l \o r /\ Len(l) = k
    BY <2>1, CutAt
  <2> QED
    BY <2>2
<1>3. l # <<>>
  BY <1>1, <1>2
<1> DEFINE f == Front(l)
           t == RemoveAt(s, k)
<1>4. t = f \o r /\ t \in Seq(S) /\ Len(t) = Len(s) - 1
  BY <1>2, <1>3, SymbolRemoved
<1>5. /\ f \in Seq(S) /\ Len(f) = k - 1 /\ Last(l) \in S /\ l = f \o <<Last(l)>>
  BY <1>2, <1>3, LastOff
<1>6. /\ \A i \in 1 .. Len(l) + Len(r) : s[i] = IF i <= Len(l) THEN l[i] ELSE r[i - Len(l)]
      /\ Len(s) = Len(l) + Len(r) /\ Len(r) \in Nat
  <2>1. /\ Len(l \o r) = Len(l) + Len(r)
        /\ \A i \in 1 .. Len(l) + Len(r) : (l \o r)[i] = IF i <= Len(l) THEN l[i] ELSE r[i - Len(l)]
    BY ConcatProperties
  <2>2. Len(r) \in Nat
    OBVIOUS
  <2> QED
    BY <1>2, <2>1, <2>2, Zenon
<1>7. \A i \in 1 .. Len(f) + Len(r) : t[i] = IF i <= Len(f) THEN f[i] ELSE r[i - Len(f)]
  BY <1>4, <1>5, ConcatProperties
<1>8. \A i \in 1 .. k - 1 : l[i] = f[i]
  <2> DEFINE e == <<Last(l)>>
  <2>1. e \in Seq(S) /\ Len(e) = 1
    BY <1>5
  <2> HIDE DEF e, f
  <2>2. l = f \o e /\ \A i \in 1 .. Len(f) + Len(e) : (f \o e)[i] = IF i <= Len(f) THEN f[i] ELSE e[i - Len(f)]
    BY <1>5, <2>1, ConcatProperties DEF e
  <2> QED
    BY <1>1, <1>5, <2>1, <2>2
<1> HIDE DEF f, t
<1>9. ASSUME NEW j \in 1 .. Len(s) - 1
      PROVE  t[j] = IF j < k THEN s[j] ELSE s[j + 1]
  <2>1. CASE j < k
    <3>1. t[j] = f[j] /\ j \in 1 .. k - 1
      BY <1>1, <1>2, <1>5, <1>6, <1>7, <2>1
    <3>2. s[j] = l[j]
      BY <1>1, <1>2, <1>6, <2>1
    <3> QED
      BY <1>8, <2>1, <3>1, <3>2
  <2>2. CASE ~(j < k)
    <3> DEFINE m == Len(r)
    <3>1. m \in Nat /\ Len(s) = k + m
      BY <1>2, <1>6
    <3>2. \A i \in 1 .. k - 1 + m : t[i] = IF i <= k - 1 THEN f[i] ELSE r[i - (k - 1)]
      BY <1>5, <1>7
    <3>3. \A i \in 1 .. k + m : s[i] = IF i <= k THEN l[i] ELSE r[i - k]
      BY <1>2, <1>6
    <3> HIDE DEF m
    <3>4. t[j] = r[j - (k - 1)]
      BY <1>1, <2>2, <3>1, <3>2
    <3>5. s[j + 1] = r[j + 1 - k] /\ j + 1 - k = j - (k - 1)
      BY <1>1, <2>2, <3>1, <3>3
    <3> QED
      BY <2>2, <3>4, <3>5
  <2> QED
    BY <2>1, <2>2
<1> QED
  BY <1>4, <1>9 DEF t

\* Lines that differ from one another, and from a new one.
Unlike(u, s) ==
  /\ \A i, j \in 1 .. Len(u) : u[i] = u[j] => i = j
  /\ \A i \in 1 .. Len(u) : u[i] # s

LEMMA FirstRemoved ==
  ASSUME NEW S, NEW u \in Seq(S), NEW s, \A i, j \in 1 .. Len(u) : u[i] = u[j] => i = j
  PROVE  /\ RemoveFirst(u, s) \in Seq(S) /\ Len(RemoveFirst(u, s)) <= Len(u)
         /\ Unlike(RemoveFirst(u, s), s)
<1> DEFINE places == {i \in 1 .. Len(u) : u[i] = s}
           k == Min(places)
<1>1. Len(u) \in Nat
  OBVIOUS
<1>2. CASE places = {}
  <2>1. RemoveFirst(u, s) = u
    BY <1>2 DEF RemoveFirst
  <2> QED
    BY <1>1, <1>2, <2>1 DEF Unlike
<1>3. CASE places # {}
  <2>1. k \in places
    <3>1. places \subseteq Nat
      OBVIOUS
    <3> HIDE DEF places
    <3>2. \E x \in places : \A y \in places : x <= y
      BY <1>3, <3>1, LeastElement
    <3> QED
      BY <3>2 DEF Min
  <2>2. RemoveFirst(u, s) = RemoveAt(u, k)
    BY <1>3 DEF RemoveFirst, SelectInSeq
  <2>3. k \in 1 .. Len(u) /\ u[k] = s
    BY <2>1
  <2> HIDE DEF k, places
  <2> DEFINE t == RemoveAt(u, k)
             n == Len(u)
  <2>4. /\ t \in Seq(S) /\ Len(t) = n - 1
        /\ \A j \in 1 .. n - 1 : t[j] = IF j < k THEN u[j] ELSE u[j + 1]
    BY <2>3, RemovedAt
  <2>5. n \in Nat /\ k \in 1 .. n /\ u[k] = s /\ \A i, j \in 1 .. n : u[i] = u[j] => i = j
    BY <1>1, <2>3
  <2> HIDE DEF t, n
  <2>6. ASSUME NEW j \in 1 .. n - 1
        PROVE  \E i \in 1 .. n : i # k /\ t[j] = u[i] /\ i = IF j < k THEN j ELSE j + 1
    <3>1. CASE j < k
      BY <2>4, <2>5, <3>1
    <3>2. CASE ~(j < k)
      BY <2>4, <2>5, <3>2
    <3> QED
      BY <3>1, <3>2
  <2>7. \A j \in 1 .. n - 1 : t[j] # s
    BY <2>5, <2>6
  <2>8. ASSUME NEW i \in 1 .. n - 1, NEW j \in 1 .. n - 1, t[i] = t[j]
        PROVE  i = j
    <3>1. PICK a \in 1 .. n : t[i] = u[a] /\ a = IF i < k THEN i ELSE i + 1
      BY <2>6
    <3>2. PICK b \in 1 .. n : t[j] = u[b] /\ b = IF j < k THEN j ELSE j + 1
      BY <2>6
    <3>3. a = b
      BY <2>5, <2>8, <3>1, <3>2
    <3> QED
      BY <2>5, <3>1, <3>2, <3>3
  <2> QED
    BY <2>2, <2>4, <2>5, <2>7, <2>8 DEF Unlike, t, n
<1> QED
  BY <1>2, <1>3

\* What add makes of a history without repetition is one, and not empty.
LEMMA HistoryAdded ==
  ASSUME NEW S, history \in Seq(S), NEW s \in S, IsInjective(history), Len(history) <= MaxSize
  PROVE  /\ Added(s) \in Seq(S) /\ Added(s) # <<>>
         /\ IsInjective(Added(s)) /\ Len(Added(s)) <= MaxSize
<1> DEFINE others == RemoveFirst(history, s)
           n == Len(others)
           rest == SubSeq(others, n - MaxSize + 2, n)
           kept == IF n < MaxSize THEN others ELSE rest
<1>1. Len(history) \in Nat /\ DOMAIN history = 1 .. Len(history)
  OBVIOUS
<1>2. \A i, j \in 1 .. Len(history) : history[i] = history[j] => i = j
  BY <1>1 DEF IsInjective
<1>3. others \in Seq(S) /\ n <= Len(history) /\ Unlike(others, s)
  BY <1>2, FirstRemoved
<1>4. Added(s) = IF history # <<>> /\ Last(history) = s THEN history ELSE Append(kept, s)
  BY DEF Added
<1>5. MaxSize \in Nat \ {0}
  BY EditorAssumption
<1> HIDE DEF others
<1>6. n \in Nat /\ n <= MaxSize /\ \A i \in 1 .. n : others[i] \in S
  BY <1>1, <1>3, <1>5
<1> HIDE DEF n
<1>7. kept \in Seq(S) /\ Len(kept) < MaxSize /\ Unlike(kept, s)
  <2>1. CASE n < MaxSize
    BY <1>3, <2>1 DEF n
  <2>2. CASE ~(n < MaxSize)
    <3>1. n = MaxSize /\ n - MaxSize + 2 = 2
      BY <1>5, <1>6, <2>2
    <3>2. rest = SubSeq(others, 2, n)
      BY <3>1
    <3>3. /\ SubSeq(others, 2, n) \in Seq(S) /\ Len(SubSeq(others, 2, n)) = IF 2 <= n THEN n - 2 + 1 ELSE 0
          /\ \A i \in 1 .. n - 2 + 1 : SubSeq(others, 2, n)[i] = others[2 + i - 1]
      BY <1>6, SubSeqProperties
    <3>4. kept = rest
      BY <2>2
    <3> HIDE DEF kept, rest
    <3>5. kept \in Seq(S) /\ Len(kept) = n - 1 /\ \A i \in 1 .. n - 1 : kept[i] = others[i + 1]
      BY <1>5, <1>6, <3>1, <3>2, <3>3, <3>4
    <3>6. \A i, j \in 1 .. n : others[i] = others[j] => i = j
      BY <1>3 DEF Unlike, n
    <3>7. \A i \in 1 .. n : others[i] # s
      BY <1>3 DEF Unlike, n
    <3>8. \A i \in 1 .. n - 1 : i + 1 \in 1 .. n
      BY <1>6
    <3> QED
      BY <1>5, <1>6, <3>1, <3>5, <3>6, <3>7, <3>8 DEF Unlike
  <2> QED
    BY <2>1, <2>2
<1> HIDE DEF kept
<1>8. CASE history # <<>> /\ Last(history) = s
  BY <1>4, <1>8
<1>9. CASE ~(history # <<>> /\ Last(history) = s)
  <2> DEFINE t == Append(kept, s)
             m == Len(kept)
  <2>1. Added(s) = t
    BY <1>4, <1>9
  <2>2. /\ t \in Seq(S) /\ t # <<>> /\ Len(t) = m + 1 /\ \A i \in 1 .. m : t[i] = kept[i]
        /\ t[m + 1] = s
    BY <1>7, AppendProperties
  <2>3. m \in Nat /\ m < MaxSize /\ DOMAIN t = 1 .. m + 1
    BY <1>7, <2>2
  <2>4. (\A i, j \in 1 .. m : kept[i] = kept[j] => i = j) /\ \A i \in 1 .. m : kept[i] # s
    BY <1>7 DEF Unlike
  <2> HIDE DEF t, m
  <2>5. ASSUME NEW i \in 1 .. m + 1, NEW j \in 1 .. m + 1, t[i] = t[j]
        PROVE  i = j
    <3>1. CASE i \in 1 .. m /\ j \in 1 .. m
      BY <2>2, <2>4, <2>5, <3>1
    <3>2. CASE i = m + 1 /\ j \in 1 .. m
      BY <2>2, <2>4, <2>5, <3>2
    <3>3. CASE i \in 1 .. m /\ j = m + 1
      BY <2>2, <2>4, <2>5, <3>3
    <3> QED
      BY <2>3, <3>1, <3>2, <3>3
  <2> QED
    BY <1>5, <2>1, <2>2, <2>3, <2>5 DEF IsInjective
<1> QED
  BY <1>8, <1>9

\* The invariant: the cursor is in the line, except after Home in an empty one, and as long
\* as neither Home nor Delete was used the two parts of the line are the ones typed.
EditorTypes ==
  /\ line \in Seq(Typed) /\ lineIndex \in Int
  /\ history \in Seq(Seq(Typed)) /\ historyIndex \in Int
  /\ typed \in [left : Seq(Typed), right : Seq(Typed)]
Flags == thrown \in BOOLEAN /\ astray \in BOOLEAN
Cursor == lineIndex >= -1 /\ (lineIndex < Len(line) \/ (astray /\ line = <<>>))
Followed ==
  ~astray => ~thrown /\ line = typed.left \o typed.right /\ Len(typed.left) = lineIndex + 1
Recallable ==
  /\ Len(history) <= MaxSize /\ IsInjective(history)
  /\ history # <<>> => historyIndex \in -1 .. Tip
EditorInv == EditorTypes /\ Flags /\ Cursor /\ Followed /\ Recallable

LEMMA LineCut ==
  ASSUME EditorInv, lineIndex < Len(line)
  PROVE  \E l, r \in Seq(Typed) :
           /\ line = l \o r /\ Len(l) = lineIndex + 1
           /\ ~astray => l = typed.left /\ r = typed.right
<1>1. CASE ~astray
  <2>1. typed.left \in Seq(Typed) /\ typed.right \in Seq(Typed)
    BY DEF EditorInv, EditorTypes
  <2>2. line = typed.left \o typed.right /\ Len(typed.left) = lineIndex + 1
    BY <1>1 DEF EditorInv, Followed
  <2> QED
    BY <2>1, <2>2
<1>2. CASE astray
  <2>1. line \in Seq(Typed) /\ Len(line) \in Nat
    BY DEF EditorInv, EditorTypes
  <2>2. lineIndex + 1 \in 0 .. Len(line)
    BY <2>1 DEF EditorInv, EditorTypes, Cursor
  <2>3. \E l, r \in Seq(Typed) : line = l \o r /\ Len(l) = lineIndex + 1
    BY <2>1, <2>2, CutAt
  <2> QED
    BY <1>2, <2>3
<1> QED
  BY <1>1, <1>2 DEF EditorInv, EditorTypes

\* The history is not touched but by Enter.
LEMMA RecallableKept ==
  ASSUME Recallable, UNCHANGED <<history, historyIndex>>
  PROVE  Recallable'
  BY DEF Recallable, Tip

LEMMA InsertKeeps ==
  ASSUME EditorInv, Insert
  PROVE  EditorInv'
<1>1. Recallable'
  BY RecallableKept DEF EditorInv, Insert
<1>2. PICK c \in Typed :
        /\ thrown' = (lineIndex + 1 > Len(line))
        /\ line' = IF thrown' THEN line ELSE InsertAt(line, lineIndex + 2, c)
        /\ lineIndex' = lineIndex + 1
        /\ Typing(Append(typed.left, c), typed.right)
  BY DEF Insert
<1>3. /\ ~thrown /\ astray' = astray /\ history' = history /\ historyIndex' = historyIndex
      /\ lineIndex \in Int /\ line \in Seq(Typed) /\ Len(line) \in Nat
      /\ typed.left \in Seq(Typed) /\ typed.right \in Seq(Typed)
  BY DEF Insert, Editing, EditorInv, EditorTypes
<1>4. typed' = IF astray THEN typed ELSE [left |-> Append(typed.left, c), right |-> typed.right]
  BY <1>2 DEF Typing
<1>5. typed' \in [left : Seq(Typed), right : Seq(Typed)]
  <2>1. Append(typed.left, c) \in Seq(Typed)
    BY <1>3, AppendProperties
  <2> QED
    BY <1>3, <1>4, <2>1 DEF EditorInv, EditorTypes
<1>6. CASE lineIndex < Len(line)
  <2>1. PICK l \in Seq(Typed), r \in Seq(Typed) :
          /\ line = l \o r /\ Len(l) = lineIndex + 1
          /\ ~astray => l = typed.left /\ r = typed.right
    BY <1>6, LineCut
  <2>2. /\ InsertAt(line, Len(l) + 1, c) = Append(l, c) \o r
        /\ Append(l, c) \in Seq(Typed) /\ Len(Append(l, c)) = Len(l) + 1
        /\ Append(l, c) \o r \in Seq(Typed) /\ Len(Append(l, c) \o r) = Len(line) + 1
    <3>1. /\ InsertAt(l \o r, Len(l) + 1, c) = Append(l, c) \o r
          /\ Append(l, c) \in Seq(Typed) /\ Len(Append(l, c)) = Len(l) + 1
          /\ Append(l, c) \o r \in Seq(Typed) /\ Len(Append(l, c) \o r) = Len(l \o r) + 1
      BY SymbolInserted
    <3> QED
      BY <2>1, <3>1, Zenon
  <2>3. thrown' = FALSE /\ Len(l) + 1 = lineIndex + 2
    <3> DEFINE beyond == lineIndex + 1 > Len(line)
    <3>1. beyond = FALSE /\ Len(l) + 1 = lineIndex + 2
      BY <1>3, <1>6, <2>1
    <3>2. thrown' = beyond
      BY <1>2
    <3> QED
      BY <3>1, <3>2, Zenon
  <2>4. line' = Append(l, c) \o r
    BY <1>2, <2>2, <2>3
  <2>5. EditorTypes'
    <3>1. line' \in Seq(Typed)
      BY <2>2, <2>4, Zenon
    <3>2. lineIndex' \in Int
      BY <1>2, <1>3
    <3> QED
      BY <1>3, <1>5, <3>1, <3>2 DEF EditorInv, EditorTypes
  <2>8. Flags'
    BY <1>3, <2>3, Zenon DEF EditorInv, Flags
  <2>6. Cursor'
    BY <1>2, <1>3, <1>6, <2>2, <2>4 DEF EditorInv, Cursor
  <2>7. Followed'
    BY <1>2, <1>3, <1>4, <2>1, <2>2, <2>3, <2>4 DEF Followed
  <2> QED
    BY <1>1, <2>5, <2>6, <2>7, <2>8 DEF EditorInv
<1>7. CASE ~(lineIndex < Len(line))
  <2>1. astray /\ line = <<>> /\ lineIndex >= 0
    BY <1>3, <1>7 DEF EditorInv, Cursor
  <2>2. thrown' = TRUE
    <3>1. lineIndex + 1 > Len(line)
      BY <1>3, <1>7
    <3> QED
      BY <1>2, <3>1, Zenon
  <2>3. line' = line /\ typed' = typed
    BY <1>2, <1>4, <2>1, <2>2, Zenon
  <2>4. EditorTypes'
    BY <1>2, <1>3, <1>5, <2>3 DEF EditorInv, EditorTypes
  <2>5. Flags'
    BY <1>3, <2>2, Zenon DEF EditorInv, Flags
  <2>6. Cursor' /\ Followed'
    BY <1>2, <1>3, <2>1, <2>3 DEF Cursor, Followed
  <2> QED
    BY <1>1, <2>4, <2>5, <2>6 DEF EditorInv
<1> QED
  BY <1>6, <1>7

LEMMA BackspaceKeeps ==
  ASSUME EditorInv, Backspace
  PROVE  EditorInv'
<1>1. Recallable'
  BY RecallableKept DEF EditorInv, Backspace
<1>2. /\ ~thrown /\ thrown' = thrown /\ astray' = astray
      /\ history' = history /\ historyIndex' = historyIndex
      /\ lineIndex \in Int /\ line \in Seq(Typed) /\ Len(line) \in Nat
      /\ typed.left \in Seq(Typed) /\ typed.right \in Seq(Typed)
  BY DEF Backspace, Editing, EditorInv, EditorTypes
<1>3. CASE line # <<>> /\ lineIndex >= 0
  <2>1. /\ line' = RemoveAt(line, lineIndex + 1) /\ lineIndex' = lineIndex - 1
        /\ Typing(Front(typed.left), typed.right)
    BY <1>3 DEF Backspace
  <2>2. typed' = IF astray THEN typed ELSE [left |-> Front(typed.left), right |-> typed.right]
    BY <2>1 DEF Typing
  <2>3. lineIndex < Len(line)
    BY <1>3 DEF EditorInv, Cursor
  <2>4. PICK l \in Seq(Typed), r \in Seq(Typed) :
          /\ line = l \o r /\ Len(l) = lineIndex + 1
          /\ ~astray => l = typed.left /\ r = typed.right
    BY <2>3, LineCut
  <2>5. l # <<>>
    BY <1>2, <1>3, <2>4
  <2>6. /\ RemoveAt(line, Len(l)) = Front(l) \o r
        /\ Front(l) \o r \in Seq(Typed) /\ Len(Front(l) \o r) = Len(line) - 1
    BY <2>4, <2>5, SymbolRemoved
  <2>7. Front(l) \in Seq(Typed) /\ Len(Front(l)) = Len(l) - 1
    BY <2>5, LastOff
  <2>8. line' = Front(l) \o r
    BY <2>1, <2>4, <2>6
  <2>9. typed' \in [left : Seq(Typed), right : Seq(Typed)]
    BY <1>2, <2>2, <2>4, <2>7 DEF EditorInv, EditorTypes
  <2>10. EditorTypes' /\ Flags'
    <3>1. Flags'
      BY <1>2, Zenon DEF EditorInv, Flags
    <3>2. line' \in Seq(Typed)
      BY <2>6, <2>8, Zenon
    <3>3. lineIndex' \in Int
      BY <1>2, <2>1
    <3> QED
      BY <1>2, <2>9, <3>1, <3>2, <3>3 DEF EditorInv, EditorTypes
  <2>11. Cursor'
    BY <1>2, <1>3, <2>1, <2>3, <2>6, <2>8 DEF Cursor
  <2>12. Followed'
    <3>1. CASE astray
      BY <1>2, <3>1 DEF Followed
    <3>2. CASE ~astray
      <4>1. typed' = [left |-> Front(l), right |-> r]
        BY <2>2, <2>4, <3>2
      <4>2. Len(Front(l)) = lineIndex' + 1
        BY <1>2, <2>1, <2>4, <2>7
      <4> QED
        BY <1>2, <2>8, <4>1, <4>2 DEF Followed
    <3> QED
      BY <3>1, <3>2
  <2> QED
    BY <1>1, <2>10, <2>11, <2>12 DEF EditorInv
<1>4. CASE ~(line # <<>> /\ lineIndex >= 0)
  <2>1. UNCHANGED <<line, lineIndex, typed>>
    BY <1>4 DEF Backspace
  <2> QED
    BY <1>1, <1>2, <2>1 DEF EditorInv, EditorTypes, Flags, Cursor, Followed
<1> QED
  BY <1>3, <1>4

\* Up and Down: the line recalled, with the cursor behind it.
LEMMA RecalledKeeps ==
  ASSUME EditorInv, Editing, Recalled, line' \in Seq(Typed),
         historyIndex' \in Int, history # <<>> => historyIndex' \in -1 .. Tip
  PROVE  EditorInv'
<1>1. /\ thrown' = thrown /\ ~thrown /\ astray' = FALSE /\ history' = history
      /\ lineIndex' = Len(line') - 1 /\ typed' = [left |-> line', right |-> <<>>]
  BY DEF Recalled, Editing
<1> DEFINE fetched == line'
<1>2. fetched \in Seq(Typed) /\ Len(fetched) \in Nat /\ <<>> \in Seq(Typed) /\ fetched \o <<>> = fetched
  BY ConcatEmptySeq
<1>3. typed'.left = fetched /\ typed'.right = <<>>
  BY <1>1
<1>4. EditorTypes'
  BY <1>1, <1>2 DEF EditorInv, EditorTypes
<1>5. Flags'
  BY <1>1, Zenon DEF EditorInv, Flags
<1>6. Cursor'
  BY <1>1, <1>2 DEF Cursor
<1>7. Followed'
  <2>1. ~thrown' /\ Len(fetched) = lineIndex' + 1
    BY <1>1, <1>2
  <2>2. line' = typed'.left \o typed'.right /\ Len(typed'.left) = lineIndex' + 1
    BY <1>2, <1>3, <2>1, Zenon
  <2> QED
    BY <2>1, <2>2 DEF Followed
<1>8. Recallable'
  BY <1>1 DEF EditorInv, Recallable, Tip
<1> QED
  BY <1>4, <1>5, <1>6, <1>7, <1>8 DEF EditorInv

LEMMA UpKeeps ==
  ASSUME EditorInv, Up
  PROVE  EditorInv'
<1>1. Editing /\ Prev /\ Recalled
  BY DEF Up
<1>2. /\ line \in Seq(Typed) /\ history \in Seq(Seq(Typed)) /\ historyIndex \in Int
      /\ Len(history) \in Nat /\ Tip = Len(history) - 1
      /\ history # <<>> => historyIndex \in -1 .. Tip
  BY DEF EditorInv, EditorTypes, Recallable, Tip
<1>3. CASE history # <<>> /\ historyIndex >= 0
  <2>1. line' = history[historyIndex + 1] /\ historyIndex' = historyIndex - 1
    BY <1>1, <1>3 DEF Prev
  <2>2. historyIndex + 1 \in 1 .. Len(history)
    BY <1>2, <1>3
  <2>3. line' \in Seq(Typed)
    BY <1>2, <2>1, <2>2
  <2>4. historyIndex' \in -1 .. Tip /\ historyIndex' \in Int
    BY <1>2, <1>3, <2>1
  <2> QED
    BY <1>1, <2>3, <2>4, RecalledKeeps
<1>4. CASE ~(history # <<>> /\ historyIndex >= 0)
  <2>1. line' = line /\ historyIndex' = historyIndex
    BY <1>1, <1>4 DEF Prev
  <2> QED
    BY <1>1, <1>2, <2>1, RecalledKeeps
<1> QED
  BY <1>3, <1>4

LEMMA DownKeeps ==
  ASSUME EditorInv, Down
  PROVE  EditorInv'
<1>1. Editing /\ HistoryNext /\ Recalled
  BY DEF Down
<1>2. /\ line \in Seq(Typed) /\ history \in Seq(Seq(Typed)) /\ historyIndex \in Int
      /\ Len(history) \in Nat /\ Tip = Len(history) - 1
      /\ history # <<>> => historyIndex \in -1 .. Tip
  BY DEF EditorInv, EditorTypes, Recallable, Tip
<1>3. CASE history # <<>>
  <2>1. /\ historyIndex' = CASE historyIndex < 0             -> Tip
                             [] historyIndex \in 0 .. Tip - 1 -> historyIndex + 1
                             [] OTHER                         -> historyIndex
        /\ line' = history[historyIndex' + 1]
    BY <1>1, <1>3 DEF HistoryNext
  <2>2. Len(history) >= 1
    BY <1>2, <1>3
  <2>3. historyIndex' \in 0 .. Tip
    <3>1. CASE historyIndex < 0
      BY <1>2, <2>1, <2>2, <3>1
    <3>2. CASE historyIndex \in 0 .. Tip - 1
      BY <1>2, <2>1, <2>2, <3>2
    <3>3. CASE ~(historyIndex < 0) /\ historyIndex \notin 0 .. Tip - 1
      BY <1>2, <1>3, <2>1, <2>2, <3>3
    <3> QED
      BY <3>1, <3>2, <3>3
  <2>4. historyIndex' + 1 \in 1 .. Len(history)
    <3> DEFINE h == historyIndex'
               n == Len(history)
    <3>1. n \in Nat /\ h \in 0 .. n - 1
      BY <1>2, <2>3
    <3> HIDE DEF h, n
    <3>2. h + 1 \in 1 .. n
      BY <3>1
    <3> QED
      BY <3>2 DEF h, n
  <2>5. line' \in Seq(Typed)
    BY <1>2, <2>1, <2>4
  <2>6. historyIndex' \in -1 .. Tip /\ historyIndex' \in Int
    BY <1>2, <2>3
  <2> QED
    BY <1>1, <2>5, <2>6, RecalledKeeps
<1>4. CASE history = <<>>
  <2>1. line' = line /\ historyIndex' = historyIndex
    BY <1>1, <1>4 DEF HistoryNext
  <2> QED
    BY <1>1, <1>2, <1>4, <2>1, RecalledKeeps
<1> QED
  BY <1>3, <1>4

\* Right, Left and End move the cursor: the two parts change and the line does not.
LEMMA CursorMoved ==
  ASSUME EditorInv, Editing, UNCHANGED <<line, history, historyIndex, thrown, astray>>,
         NEW l \in Seq(Typed), NEW r \in Seq(Typed), Typing(l, r),
         lineIndex' \in Int, lineIndex' >= -1, lineIndex' < Len(line),
         ~astray => line = l \o r /\ Len(l) = lineIndex' + 1
  PROVE  EditorInv'
<1>1. typed' = IF astray THEN typed ELSE [left |-> l, right |-> r]
  BY DEF Typing
<1>2. EditorTypes'
  BY <1>1 DEF EditorInv, EditorTypes
<1>3. Flags'
  BY Zenon DEF EditorInv, Flags
<1>4. Cursor'
  BY DEF Cursor
<1>5. Followed'
  BY <1>1 DEF Editing, Followed
<1>6. Recallable'
  BY RecallableKept DEF EditorInv
<1> QED
  BY <1>2, <1>3, <1>4, <1>5, <1>6 DEF EditorInv

LEMMA PartsTyped ==
  ASSUME EditorInv, ~astray
  PROVE  /\ line \in Seq(Typed) /\ typed.left \in Seq(Typed) /\ typed.right \in Seq(Typed)
         /\ line = typed.left \o typed.right /\ Len(typed.left) = lineIndex + 1
         /\ Len(line) = Len(typed.left) + Len(typed.right)
<1>1. /\ line \in Seq(Typed) /\ typed.left \in Seq(Typed) /\ typed.right \in Seq(Typed)
      /\ line = typed.left \o typed.right /\ Len(typed.left) = lineIndex + 1
  BY DEF EditorInv, EditorTypes, Followed
<1>2. Len(typed.left \o typed.right) = Len(typed.left) + Len(typed.right)
  BY <1>1, InTwoParts
<1> QED
  BY <1>1, <1>2, Zenon

\* While Home or Delete has been used, nothing is said of what was typed.
LEMMA AstrayKept ==
  ASSUME EditorInv, astray', Flags', Recallable', Cursor',
         line' \in Seq(Typed), lineIndex' \in Int,
         history' \in Seq(Seq(Typed)), historyIndex' \in Int,
         typed' \in [left : Seq(Typed), right : Seq(Typed)]
  PROVE  EditorInv'
<1>1. EditorTypes'
  BY DEF EditorTypes
<1>2. Followed'
  BY DEF Followed
<1> QED
  BY <1>1, <1>2 DEF EditorInv

LEMMA RightKeeps ==
  ASSUME EditorInv, Right
  PROVE  EditorInv'
<1>1. /\ Editing /\ ~AtEnd /\ lineIndex' = lineIndex + 1
      /\ Typing(Append(typed.left, Head(typed.right)), Tail(typed.right))
      /\ UNCHANGED <<line, history, historyIndex, thrown, astray>>
  BY DEF Right
<1>2. /\ lineIndex \in Int /\ lineIndex >= -1 /\ line \in Seq(Typed) /\ Len(line) \in Nat
      /\ lineIndex < Len(line) - 1
  BY <1>1 DEF AtEnd, EditorInv, EditorTypes, Cursor
<1>3. lineIndex' \in Int /\ lineIndex' >= -1 /\ lineIndex' < Len(line)
  BY <1>1, <1>2
<1>4. CASE astray
  <2>1. typed' = typed
    BY <1>1, <1>4 DEF Typing
  <2>2. Flags' /\ astray'
    BY <1>1, <1>4, Zenon DEF EditorInv, Flags
  <2>3. Recallable'
    BY <1>1, RecallableKept DEF EditorInv
  <2>4. Cursor'
    BY <1>1, <1>3 DEF Cursor
  <2> QED
    BY <1>1, <1>2, <1>3, <2>1, <2>2, <2>3, <2>4, AstrayKept DEF EditorInv, EditorTypes
<1>5. CASE ~astray
  <2> DEFINE l == Append(typed.left, Head(typed.right))
             r == Tail(typed.right)
  <2>1. /\ typed.left \in Seq(Typed) /\ typed.right \in Seq(Typed)
        /\ line = typed.left \o typed.right /\ Len(typed.left) = lineIndex + 1
        /\ Len(line) = Len(typed.left) + Len(typed.right)
    BY <1>5, PartsTyped
  <2>2. typed.right # <<>>
    <3> DEFINE n == Len(typed.left)
               m == Len(typed.right)
    <3>0. n \in Nat /\ m \in Nat /\ Len(line) = n + m /\ n = lineIndex + 1
      BY <2>1
    <3> HIDE DEF n, m
    <3>a. m # 0
      BY <1>2, <3>0
    <3>1. Len(typed.right) # 0
      BY <3>a DEF m
    <3> QED
      BY <3>1
  <2>3. l \in Seq(Typed) /\ r \in Seq(Typed) /\ Len(l) = Len(typed.left) + 1 /\ l \o r = line
    <3>1. /\ l \in Seq(Typed) /\ r \in Seq(Typed) /\ Len(l) = Len(typed.left) + 1
          /\ l \o r = typed.left \o typed.right
      BY <2>1, <2>2, CursorRight
    <3> QED
      BY <2>1, <3>1, Zenon
  <2>4. Typing(l, r)
    BY <1>1
  <2> HIDE DEF l, r
  <2>5. line = l \o r /\ Len(l) = lineIndex' + 1
    BY <1>1, <1>2, <2>1, <2>3
  <2> QED
    BY <1>1, <1>3, <2>3, <2>4, <2>5, CursorMoved
<1> QED
  BY <1>4, <1>5

\* The character before the cursor, taken to the right part.
LEMMA LeftOfCursor ==
  \A a, b \in Seq(Typed) : a # <<>> =>
    /\ Front(a) \in Seq(Typed) /\ <<Last(a)>> \o b \in Seq(Typed)
    /\ Len(Front(a)) = Len(a) - 1
    /\ Front(a) \o (<<Last(a)>> \o b) = a \o b
<1> SUFFICES ASSUME NEW a \in Seq(Typed), NEW b \in Seq(Typed), a # <<>>
             PROVE  /\ Front(a) \in Seq(Typed) /\ <<Last(a)>> \o b \in Seq(Typed)
                    /\ Len(Front(a)) = Len(a) - 1
                    /\ Front(a) \o (<<Last(a)>> \o b) = a \o b
  OBVIOUS
<1>1. /\ Front(a) \in Seq(Typed) /\ Len(Front(a)) = Len(a) - 1 /\ <<Last(a)>> \in Seq(Typed)
      /\ a = Front(a) \o <<Last(a)>>
  <2>1. /\ Front(a) \in Seq(Typed) /\ Len(Front(a)) = Len(a) - 1 /\ Last(a) \in Typed
        /\ a = Front(a) \o <<Last(a)>>
    BY LastOff
  <2> QED
    BY <2>1
<1>2. (Front(a) \o <<Last(a)>>) \o b = Front(a) \o (<<Last(a)>> \o b) /\ <<Last(a)>> \o b \in Seq(Typed)
  BY <1>1, ConcatAssociative, ConcatProperties
<1> QED
  BY <1>1, <1>2

LEMMA LeftKeeps ==
  ASSUME EditorInv, Left
  PROVE  EditorInv'
<1>1. /\ Editing /\ lineIndex >= 0 /\ lineIndex' = lineIndex - 1
      /\ Typing(Front(typed.left), <<Last(typed.left)>> \o typed.right)
      /\ UNCHANGED <<line, history, historyIndex, thrown, astray>>
  BY DEF Left
<1>2. /\ lineIndex \in Int /\ line \in Seq(Typed) /\ Len(line) \in Nat
      /\ lineIndex < Len(line) \/ (astray /\ line = <<>>)
  BY DEF EditorInv, EditorTypes, Cursor
<1>3. lineIndex' \in Int /\ lineIndex' >= -1
  BY <1>1, <1>2
<1>4. CASE astray
  <2>1. typed' = typed
    BY <1>1, <1>4 DEF Typing
  <2>2. Flags' /\ astray'
    BY <1>1, <1>4, Zenon DEF EditorInv, Flags
  <2>3. Recallable'
    BY <1>1, RecallableKept DEF EditorInv
  <2>4. Cursor'
    BY <1>1, <1>2, <1>3, <1>4 DEF Cursor
  <2> QED
    BY <1>1, <1>2, <1>3, <2>1, <2>2, <2>3, <2>4, AstrayKept DEF EditorInv, EditorTypes
<1>5. CASE ~astray
  <2> DEFINE l == Front(typed.left)
             r == <<Last(typed.left)>> \o typed.right
  <2>1. /\ typed.left \in Seq(Typed) /\ typed.right \in Seq(Typed)
        /\ line = typed.left \o typed.right /\ Len(typed.left) = lineIndex + 1
        /\ Len(line) = Len(typed.left) + Len(typed.right)
    BY <1>5, PartsTyped
  <2>2. typed.left # <<>>
    <3>1. Len(typed.left) # 0
      BY <1>1, <1>2, <2>1
    <3> QED
      BY <3>1
  <2>3. l \in Seq(Typed) /\ r \in Seq(Typed) /\ Len(l) = Len(typed.left) - 1 /\ l \o r = line
    <3>1. /\ Front(typed.left) \in Seq(Typed) /\ <<Last(typed.left)>> \o typed.right \in Seq(Typed)
          /\ Len(Front(typed.left)) = Len(typed.left) - 1
          /\ Front(typed.left) \o (<<Last(typed.left)>> \o typed.right) = typed.left \o typed.right
      BY <2>1, <2>2, LeftOfCursor, Zenon
    <3> QED
      BY <2>1, <3>1, Zenon
  <2>4. Typing(l, r)
    BY <1>1
  <2> HIDE DEF l, r
  <2>5. line = l \o r /\ Len(l) = lineIndex' + 1
    BY <1>1, <1>2, <2>1, <2>3
  <2>6. lineIndex' < Len(line)
    BY <1>1, <1>2, <1>5
  <2> QED
    BY <1>1, <1>3, <2>3, <2>4, <2>5, <2>6, CursorMoved
<1> QED
  BY <1>4, <1>5

LEMMA EndKeeps ==
  ASSUME EditorInv, End
  PROVE  EditorInv'
<1>1. /\ Editing /\ lineIndex' = Len(line) - 1
      /\ Typing(typed.left \o typed.right, <<>>)
      /\ UNCHANGED <<line, history, historyIndex, thrown, astray>>
  BY DEF End
<1>2. line \in Seq(Typed) /\ Len(line) \in Nat /\ <<>> \in Seq(Typed)
  BY DEF EditorInv, EditorTypes
<1>3. lineIndex' \in Int /\ lineIndex' >= -1 /\ lineIndex' < Len(line)
  BY <1>1, <1>2
<1> DEFINE l == typed.left \o typed.right
<1>4. l \in Seq(Typed)
  <2>1. typed.left \in Seq(Typed) /\ typed.right \in Seq(Typed)
    BY DEF EditorInv, EditorTypes
  <2> QED
    BY <2>1, InTwoParts
<1>5. ASSUME ~astray
      PROVE  line = l \o <<>> /\ Len(l) = lineIndex' + 1
  <2>1. line = l
    BY <1>5, PartsTyped
  <2>2. l \o <<>> = l
    BY <1>4, ConcatEmptySeq
  <2> HIDE DEF l
  <2> QED
    BY <1>1, <1>2, <2>1, <2>2
<1>6. Typing(l, <<>>)
  BY <1>1
<1> HIDE DEF l
<1> QED
  BY <1>1, <1>2, <1>3, <1>4, <1>5, <1>6, CursorMoved

LEMMA HomeKeeps ==
  ASSUME EditorInv, Home
  PROVE  EditorInv'
<1>1. /\ lineIndex' = 0 /\ astray' = TRUE /\ typed' = [left |-> <<>>, right |-> <<>>]
      /\ UNCHANGED <<line, history, historyIndex, thrown>>
  BY DEF Home
<1>2. line \in Seq(Typed) /\ Len(line) \in Nat /\ (line # <<>> => 0 < Len(line)) /\ <<>> \in Seq(Typed)
  BY DEF EditorInv, EditorTypes
<1>3. Flags' /\ astray'
  BY <1>1, Zenon DEF EditorInv, Flags
<1>4. Recallable'
  BY <1>1, RecallableKept DEF EditorInv
<1>5. Cursor'
  BY <1>1, <1>2 DEF Cursor
<1> QED
  BY <1>1, <1>2, <1>3, <1>4, <1>5, AstrayKept DEF EditorInv, EditorTypes

LEMMA DeleteKeeps ==
  ASSUME EditorInv, Delete
  PROVE  EditorInv'
<1>1. /\ ~AtEnd /\ astray' = TRUE /\ typed' = [left |-> <<>>, right |-> <<>>]
      /\ IF lineIndex >= 0
         THEN line' = RemoveAt(line, lineIndex + 2) /\ lineIndex' = lineIndex - 1
         ELSE UNCHANGED <<line, lineIndex>>
      /\ UNCHANGED <<history, historyIndex, thrown>>
  BY DEF Delete
<1>2. /\ line \in Seq(Typed) /\ Len(line) \in Nat /\ <<>> \in Seq(Typed)
      /\ lineIndex \in Int /\ lineIndex >= -1 /\ lineIndex < Len(line) - 1
  BY <1>1 DEF AtEnd, EditorInv, EditorTypes, Cursor
<1>3. Flags' /\ astray'
  BY <1>1, Zenon DEF EditorInv, Flags
<1>4. Recallable'
  BY <1>1, RecallableKept DEF EditorInv
<1>5. line' \in Seq(Typed) /\ lineIndex' \in Int /\ Cursor'
  <2>1. CASE lineIndex >= 0
    <3>1. lineIndex + 2 \in 1 .. Len(line)
      BY <1>2, <2>1
    <3>2. RemoveAt(line, lineIndex + 2) \in Seq(Typed) /\ Len(RemoveAt(line, lineIndex + 2)) = Len(line) - 1
      BY <1>2, <3>1, RemovedAt
    <3>3. line' \in Seq(Typed) /\ Len(line') = Len(line) - 1 /\ lineIndex' = lineIndex - 1
      BY <1>1, <2>1, <3>2, Zenon
    <3> QED
      BY <1>2, <2>1, <3>3 DEF Cursor
  <2>2. CASE ~(lineIndex >= 0)
    BY <1>1, <1>2, <2>2 DEF Cursor
  <2> QED
    BY <2>1, <2>2
<1> QED
  BY <1>1, <1>2, <1>3, <1>4, <1>5, AstrayKept DEF EditorInv, EditorTypes

LEMMA EnterKeeps ==
  ASSUME EditorInv, Enter
  PROVE  EditorInv'
<1>1. /\ ~thrown /\ thrown' = thrown /\ historyIndex' = Len(history') - 1
  BY DEF Enter, Editing
<1>2. /\ line \in Seq(Typed) /\ <<>> \in Seq(Typed) /\ history \in Seq(Seq(Typed))
      /\ Len(history) <= MaxSize /\ IsInjective(history)
  BY DEF EditorInv, EditorTypes, Recallable
<1>3. history' = Added(line) \/ history' = history
  BY DEF Enter
<1>4. history' \in Seq(Seq(Typed)) /\ Len(history') <= MaxSize /\ IsInjective(history')
  <2>1. CASE history' = Added(line)
    <3>1. Added(line) \in Seq(Seq(Typed)) /\ IsInjective(Added(line)) /\ Len(Added(line)) <= MaxSize
      BY <1>2, HistoryAdded
    <3> QED
      BY <2>1, <3>1, Zenon
  <2>2. CASE history' = history
    BY <1>2, <2>2, Zenon
  <2> QED
    BY <1>3, <2>1, <2>2
<1>5. Recallable'
  <2>1. Len(history') \in Nat
    BY <1>4
  <2>2. historyIndex' \in -1 .. Len(history') - 1
    BY <1>1, <2>1
  <2> QED
    BY <1>4, <2>2 DEF Recallable, Tip
<1>6. historyIndex' \in Int
  <2>1. Len(history') \in Nat
    BY <1>4
  <2> QED
    BY <1>1, <2>1
<1>7. CASE line # <<>>
  <2>1. /\ line' = <<>> /\ lineIndex' = -1
        /\ typed' = [left |-> <<>>, right |-> <<>>] /\ astray' = FALSE
    BY <1>7 DEF Enter
  <2>2. EditorTypes'
    BY <1>2, <1>4, <1>6, <2>1 DEF EditorTypes
  <2>3. Flags'
    BY <1>1, <2>1, Zenon DEF EditorInv, Flags
  <2>4. Cursor'
    BY <2>1 DEF Cursor
  <2>5. Followed'
    <3>1. <<>> \o <<>> = <<>>
      BY <1>2, ConcatEmptySeq
    <3>2. typed'.left = <<>> /\ typed'.right = <<>>
      BY <2>1
    <3>3. line' = typed'.left \o typed'.right
      BY <2>1, <3>1, <3>2, Zenon
    <3>4. Len(typed'.left) = lineIndex' + 1
      BY <2>1, <3>2
    <3> QED
      BY <1>1, <3>3, <3>4 DEF Followed
  <2> QED
    BY <1>5, <2>2, <2>3, <2>4, <2>5 DEF EditorInv
<1>8. CASE line = <<>>
  <2>1. UNCHANGED <<line, lineIndex, typed, astray>>
    BY <1>8 DEF Enter
  <2>2. EditorTypes'
    BY <1>4, <1>6, <2>1 DEF EditorInv, EditorTypes
  <2>3. Flags'
    BY <1>1, <2>1, Zenon DEF EditorInv, Flags
  <2>4. Cursor' /\ Followed'
    BY <1>1, <2>1 DEF EditorInv, Cursor, Followed
  <2> QED
    BY <1>5, <2>2, <2>3, <2>4 DEF EditorInv
<1> QED
  BY <1>7, <1>8

\* Whatever is typed: the line that Enter executes is the one the keys have written, and
\* the history repeats no line and stays inside its bounds (Server::loop, History).
THEOREM TypedAsWritten == EditorSpec => []AsTyped
<1>1. EditorInit => EditorInv
  <2> SUFFICES ASSUME EditorInit PROVE EditorInv
    OBVIOUS
  <2>1. /\ line = <<>> /\ lineIndex = -1 /\ history = <<>> /\ historyIndex \in Int
        /\ thrown = FALSE /\ astray = FALSE /\ typed.left = <<>> /\ typed.right = <<>>
        /\ typed = [left |-> <<>>, right |-> <<>>]
    BY DEF EditorInit
  <2>2. <<>> \in Seq(Typed) /\ <<>> \in Seq(Seq(Typed)) /\ Len(<<>>) = 0 /\ MaxSize >= 0
    BY EditorAssumption
  <2>3. <<>> \o <<>> = <<>>
    BY <2>2, ConcatEmptySeq
  <2>4. EditorTypes
    BY <2>1, <2>2 DEF EditorTypes
  <2>5. Flags
    BY <2>1, Zenon DEF Flags
  <2>6. Cursor
    BY <2>1, <2>2 DEF Cursor
  <2>7. Followed
    <3>1. line = typed.left \o typed.right
      BY <2>1, <2>3, Zenon
    <3>2. Len(typed.left) = lineIndex + 1
      BY <2>1, <2>2
    <3> QED
      BY <2>1, <3>1, <3>2 DEF Followed
  <2>8. Recallable
    BY <2>1, <2>2 DEF Recallable, IsInjective
  <2> QED
    BY <2>4, <2>5, <2>6, <2>7, <2>8 DEF EditorInv
<1>2. EditorInv /\ [loop]_editor => EditorInv'
  <2> SUFFICES ASSUME EditorInv, [loop]_editor PROVE EditorInv'
    OBVIOUS
  <2>1. CASE loop
    BY <2>1, InsertKeeps, BackspaceKeeps, UpKeeps, DownKeeps, RightKeeps, LeftKeeps,
       EndKeeps, HomeKeeps, DeleteKeeps, EnterKeeps DEF loop
  <2>2. CASE UNCHANGED editor
    <3>1. /\ line' = line /\ lineIndex' = lineIndex /\ history' = history
          /\ historyIndex' = historyIndex /\ thrown' = thrown /\ typed' = typed /\ astray' = astray
      BY <2>2 DEF editor
    <3> QED
      BY <3>1 DEF EditorInv, EditorTypes, Flags, Cursor, Followed, Recallable, Tip
  <2> QED
    BY <2>1, <2>2
<1>3. EditorInv => AsTyped
  BY DEF EditorInv, Followed, Recallable, AsTyped
<1> QED
  BY <1>1, <1>2, <1>3, PTL DEF EditorSpec

=============================================================================
