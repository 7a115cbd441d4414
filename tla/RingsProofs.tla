----------------------------- MODULE RingsProofs -----------------------------
(***************************************************************************)
(* Theorems about the three components that keep bytes in a ring between  *)
(* an interrupt, or another task, and the task that uses them: SlavePort,  *)
(* SerialWE2 and MqttBuffer.                                               *)
(***************************************************************************)
EXTENDS SlavePort, SerialWE2, MqttBuffer, FiniteSetTheorems, WellFoundedInduction, TLAPS

-----------------------------------------------------------------------------
(* Indices *)

\* A set of natural numbers that is not empty has a least element.
LEMMA LeastElement ==
  ASSUME NEW S, S \subseteq Nat, S # {}
  PROVE  \E x \in S : \A y \in S : x <= y
<1> DEFINE R == OpToRel(<, Nat)
<1>1. IsWellFoundedOn(R, Nat)
  BY NatLessThanWellFounded
<1>2. ASSUME NEW x \in S, NEW y \in S, y < x
      PROVE  <<y, x>> \in R
  BY <1>2 DEF OpToRel
<1> HIDE DEF R
<1>3. PICK x \in S : \A y \in S : ~ (<<y, x>> \in R)
  BY <1>1, WFMin
<1>4. \A y \in S : ~(y < x)
  BY <1>3, <1>2
<1>5. \A y \in S : x <= y
  <2> TAKE y \in S
  <2>1. ~(y < x) /\ x \in Nat /\ y \in Nat
    BY <1>4
  <2> QED
    BY <2>1
<1> QED
  BY <1>5

\* The remainder of what is less than twice the modulus.
LEMMA Wraps ==
  ASSUME NEW N \in Nat \ {0}, NEW x \in 0..2 * N - 1
  PROVE  x % N = IF x < N THEN x ELSE x - N
<1>1. CASE x < N
  <2>1. x \in 0..N - 1
    BY <1>1
  <2>2. x % N = x
    BY <2>1
  <2> QED
    BY <1>1, <2>2
<1>2. CASE x >= N
  <2>1. x \in N..2 * N - 1
    BY <1>2
  <2>2. x % N = x - N
    BY <2>1
  <2> QED
    BY <1>2, <2>2
<1> QED
  BY <1>1, <1>2

-----------------------------------------------------------------------------
(* MqttBuffer *)

\* Its cells and distances, without remainders.
LEMMA CellIs ==
  ASSUME MqttSizes, NEW t \in Indices, NEW i \in Indices
  PROVE  /\ Cell(t, i) = IF t + i < RingSize THEN t + i ELSE t + i - RingSize
         /\ Cell(t, i) \in Indices
<1>1. RingSize \in Nat \ {0}
  BY DEF MqttSizes
<1> DEFINE x == t + i
<1>2. x \in 0..2 * RingSize - 1
  BY <1>1 DEF Indices
<1>3. x % RingSize = IF x < RingSize THEN x ELSE x - RingSize
  <2> HIDE DEF x
  <2> QED
    BY <1>1, <1>2, Wraps
<1>4. x % RingSize = Cell(t, i)
  BY DEF Cell
<1> QED
  BY <1>1, <1>3, <1>4 DEF Indices

LEMMA HeldIs ==
  ASSUME MqttSizes, NEW t \in Indices, NEW h \in Indices
  PROVE  /\ Held(t, h) = IF t <= h THEN h - t ELSE h + RingSize - t
         /\ Held(t, h) \in Indices
         /\ Remain(h, t) = RingSize - Held(t, h)
<1>1. RingSize \in Nat \ {0}
  BY DEF MqttSizes
<1> DEFINE x == h + RingSize - t
<1>2. x \in 0..2 * RingSize - 1
  BY <1>1 DEF Indices
<1>3. x % RingSize = IF x < RingSize THEN x ELSE x - RingSize
  <2> HIDE DEF x
  <2> QED
    BY <1>1, <1>2, Wraps
<1>4. x % RingSize = Held(t, h)
  BY DEF Held
<1> QED
  BY <1>1, <1>3, <1>4 DEF Indices, Remain

\* The task's copy of tail is behind tail: what is held is what the copy held, less
\* what has been taken since.
LEMMA Behindhand ==
  ASSUME MqttSizes, NEW p \in Indices, NEW t \in Indices, NEW h \in Indices,
         Held(p, t) <= Held(p, h)
  PROVE  Held(t, h) = Held(p, h) - Held(p, t)
<1>1. RingSize \in Nat \ {0}
  BY DEF MqttSizes
<1>2. Held(p, t) = IF p <= t THEN t - p ELSE t + RingSize - p
  BY HeldIs
<1>3. Held(p, h) = IF p <= h THEN h - p ELSE h + RingSize - p
  BY HeldIs
<1>4. Held(t, h) = IF t <= h THEN h - t ELSE h + RingSize - t
  BY HeldIs
<1> QED
  BY <1>1, <1>2, <1>3, <1>4 DEF Indices

\* Bytes put in behind the head.
LEMMA Behind ==
  ASSUME MqttSizes, NEW t \in Indices, NEW h \in Indices,
         NEW k \in 0..RingSize - Held(t, h) - 1
  PROVE  /\ k \in Indices
         /\ Held(t, Cell(h, k)) = Held(t, h) + k
         /\ \A j \in 0..k - 1 : Cell(t, Held(t, h) + j) = Cell(h, j)
<1>1. RingSize \in Nat \ {0}
  BY DEF MqttSizes
<1>2. /\ Held(t, h) = IF t <= h THEN h - t ELSE h + RingSize - t
      /\ Held(t, h) \in 0..RingSize - 1
  BY HeldIs DEF Indices
<1>3. k \in Indices
  BY <1>1, <1>2 DEF Indices
<1>4. Held(t, Cell(h, k)) = Held(t, h) + k
  <2> DEFINE h2 == Cell(h, k)
  <2>1. h2 \in Indices /\ h2 = IF h + k < RingSize THEN h + k ELSE h + k - RingSize
    BY <1>3, CellIs
  <2> HIDE DEF h2
  <2>2. Held(t, h2) = IF t <= h2 THEN h2 - t ELSE h2 + RingSize - t
    BY <2>1, HeldIs
  <2>3. Held(t, h2) = Held(t, h) + k
    BY <1>1, <1>2, <1>3, <2>1, <2>2 DEF Indices
  <2> QED
    BY <2>3 DEF h2
<1>5. ASSUME NEW j \in 0..k - 1
      PROVE  Cell(t, Held(t, h) + j) = Cell(h, j)
  <2> DEFINE i == Held(t, h) + j
  <2>1. j \in Indices /\ i \in Indices
    BY <1>1, <1>2 DEF Indices
  <2>2. Cell(h, j) = IF h + j < RingSize THEN h + j ELSE h + j - RingSize
    BY <2>1, CellIs
  <2>3. i = (IF t <= h THEN h - t ELSE h + RingSize - t) + j
    BY <1>2
  <2> HIDE DEF i
  <2>4. Cell(t, i) = IF t + i < RingSize THEN t + i ELSE t + i - RingSize
    BY <2>1, CellIs
  <2>5. Cell(t, i) = Cell(h, j)
    BY <1>1, <2>1, <2>2, <2>3, <2>4 DEF Indices
  <2> QED
    BY <2>5 DEF i
<1> QED
  BY <1>3, <1>4, <1>5

\* The cells behind the head are not those that are held.
LEMMA Apart ==
  ASSUME MqttSizes, NEW t \in Indices, NEW h \in Indices
  PROVE  /\ \A j \in Indices : Held(h, Cell(h, j)) = j
         /\ \A i \in 0..Held(t, h) - 1 :
              /\ i \in Indices
              /\ Held(h, Cell(t, i)) >= RingSize - Held(t, h)
<1>1. RingSize \in Nat \ {0}
  BY DEF MqttSizes
<1>2. ASSUME NEW j \in Indices
      PROVE  Held(h, Cell(h, j)) = j
  <2> DEFINE c == Cell(h, j)
  <2>1. c \in Indices /\ c = IF h + j < RingSize THEN h + j ELSE h + j - RingSize
    BY CellIs
  <2> HIDE DEF c
  <2>2. Held(h, c) = IF h <= c THEN c - h ELSE c + RingSize - h
    BY <2>1, HeldIs
  <2>3. Held(h, c) = j
    BY <1>1, <2>1, <2>2 DEF Indices
  <2> QED
    BY <2>3 DEF c
<1>3. ASSUME NEW i \in 0..Held(t, h) - 1
      PROVE  /\ i \in Indices
             /\ Held(h, Cell(t, i)) >= RingSize - Held(t, h)
  <2> DEFINE c == Cell(t, i)
  <2>1. /\ Held(t, h) = IF t <= h THEN h - t ELSE h + RingSize - t
        /\ Held(t, h) \in 0..RingSize - 1
    BY HeldIs DEF Indices
  <2>2. i \in Indices
    BY <1>1, <2>1 DEF Indices
  <2>3. c \in Indices /\ c = IF t + i < RingSize THEN t + i ELSE t + i - RingSize
    BY <2>2, CellIs
  <2> HIDE DEF c
  <2>4. Held(h, c) = IF h <= c THEN c - h ELSE c + RingSize - h
    BY <2>3, HeldIs
  <2>5. Held(h, c) >= RingSize - Held(t, h)
    BY <1>1, <2>1, <2>2, <2>3, <2>4 DEF Indices
  <2> QED
    BY <2>2, <2>5 DEF c
<1> QED
  BY <1>2, <1>3

\* Bytes taken from the tail.
LEMMA Ahead ==
  ASSUME MqttSizes, NEW t \in Indices, NEW h \in Indices,
         NEW n \in 0..Held(t, h)
  PROVE  /\ n \in Indices /\ Cell(t, n) \in Indices
         /\ Held(t, Cell(t, n)) = n
         /\ Held(Cell(t, n), h) = Held(t, h) - n
         /\ \A i \in 0..Held(t, h) - n - 1 :
              Cell(Cell(t, n), i) = Cell(t, n + i)
<1>1. RingSize \in Nat \ {0}
  BY DEF MqttSizes
<1>2. Held(t, h) \in 0..RingSize - 1
  BY HeldIs DEF Indices
<1>3. n \in Indices
  BY <1>1, <1>2 DEF Indices
<1> DEFINE c == Cell(t, n)
<1>4. c \in Indices /\ c = IF t + n < RingSize THEN t + n ELSE t + n - RingSize
  BY <1>3, CellIs
<1>5. Held(t, c) = n
  BY <1>3, Apart
<1>6. Held(c, h) = Held(t, h) - n
  BY <1>4, <1>5, Behindhand
<1>7. ASSUME NEW i \in 0..Held(t, h) - n - 1
      PROVE  Cell(c, i) = Cell(t, n + i)
  <2> HIDE DEF c
  <2>1. i \in Indices /\ n + i \in Indices
    BY <1>1, <1>2 DEF Indices
  <2>2. Cell(c, i) = IF c + i < RingSize THEN c + i ELSE c + i - RingSize
    BY <1>4, <2>1, CellIs
  <2>3. Cell(t, n + i) = IF t + (n + i) < RingSize THEN t + (n + i)
                              ELSE t + (n + i) - RingSize
    BY <2>1, CellIs
  <2> QED
    BY <1>1, <1>3, <1>4, <2>1, <2>2, <2>3 DEF Indices
<1> QED
  BY <1>3, <1>4, <1>5, <1>6, <1>7

\* What is left when a line has been taken.
LEMMA Taken ==
  ASSUME MqttSizes, NEW t \in Indices, NEW h \in Indices,
         WholeMessages(t, h), NEW n \in 1..Held(t, h),
         buffer \in [Indices -> MqttBytes],
         buffer[Cell(t, n - 1)].last
  PROVE  WholeMessages(Cell(t, n), h)
<1> DEFINE c == Cell(t, n)
           D == Held(t, h)
<1>1. D \in Nat /\ n \in 0..D
  BY HeldIs DEF Indices, MqttSizes
<1>2. /\ Held(c, h) = D - n
      /\ \A i \in 0..D - n - 1 : Cell(c, i) = Cell(t, n + i)
  BY <1>1, Ahead
<1> HIDE DEF c
<1> SUFFICES ASSUME NEW i \in 0..D - n - 1
    PROVE  LET b == buffer[Cell(c, i)]
           IN /\ b.place \in 1..i + 1
              /\ \A j \in 1..b.place - 1 :
                   LET d == buffer[Cell(c, i - j)]
                   IN d.message = b.message /\ d.place = b.place - j /\ ~d.last
              /\ b.place <= i => buffer[Cell(c, i - b.place)].last
              /\ i = D - n - 1 => b.last
  BY <1>2 DEF WholeMessages, c
<1> DEFINE b == buffer[Cell(c, i)]
           k == n + i
<1>3. k \in 0..D - 1 /\ i \in Nat /\ n \in Nat \ {0}
  BY <1>1
<1>4. b = buffer[Cell(t, k)]
  BY <1>2
<1>5. /\ b.place \in 1..k + 1
      /\ \A j \in 1..b.place - 1 :
           LET d == buffer[Cell(t, k - j)]
           IN d.message = b.message /\ d.place = b.place - j /\ ~d.last
      /\ b.place <= k => buffer[Cell(t, k - b.place)].last
      /\ k = D - 1 => b.last
  BY <1>3, <1>4 DEF WholeMessages
<1> HIDE DEF b, D
<1>6. b.place <= i + 1
  <2> SUFFICES ASSUME b.place > i + 1
      PROVE  FALSE
    BY <1>3, <1>5 DEF b
  <2>1. i + 1 \in 1..b.place - 1
    BY <1>3, <1>5
  <2>2. ~buffer[Cell(t, k - (i + 1))].last
    BY <2>1, <1>5
  <2>3. k - (i + 1) = n - 1
    BY <1>3
  <2> QED
    BY <2>2, <2>3
<1>7. ASSUME NEW j \in 0..i
      PROVE  Cell(c, i - j) = Cell(t, k - j)
  <2>1. i - j \in 0..D - n - 1 /\ n + (i - j) = k - j
    BY <1>1, <1>3
  <2> QED
    BY <1>2, <2>1 DEF D
<1>8. ASSUME NEW j \in 1..b.place - 1
      PROVE  LET d == buffer[Cell(c, i - j)]
             IN d.message = b.message /\ d.place = b.place - j /\ ~d.last
  <2>1. j \in 0..i
    BY <1>3, <1>5, <1>6
  <2> QED
    BY <1>5, <1>7, <2>1
<1>9. ASSUME b.place <= i
      PROVE  buffer[Cell(c, i - b.place)].last
  <2>1. b.place \in 0..i /\ b.place <= k
    BY <1>3, <1>5, <1>9
  <2> QED
    BY <1>5, <1>7, <2>1
<1>10. i = D - n - 1 => k = D - 1
  BY <1>1
<1> QED
  BY <1>3, <1>5, <1>6, <1>8, <1>9, <1>10 DEF b

\* The fields of a byte.
LEMMA ByteFields ==
  \A m, k, n : LET b == MqttByte(m, k, n)
               IN b.message = m /\ b.place = k /\ (b.last <=> k = n)
BY Zenon DEF MqttByte

\* What is held when a message has been put behind it.
LEMMA Added ==
  ASSUME MqttSizes, NEW t \in Indices, NEW h \in Indices,
         WholeMessages(t, h), NEW m,
         NEW n \in 1..RingSize - Held(t, h) - 1,
         buffer \in [Indices -> MqttBytes],
         \A j \in 0..n - 1 : buffer[Cell(h, j)] = MqttByte(m, j + 1, n)
  PROVE  WholeMessages(t, Cell(h, n))
<1> DEFINE D == Held(t, h)
<1>1. D \in Nat /\ RingSize \in Nat \ {0} /\ n \in Nat \ {0}
  BY HeldIs DEF Indices, MqttSizes
<1>2. n \in 0..RingSize - D - 1
  BY <1>1
<1>3. /\ Held(t, Cell(h, n)) = D + n
      /\ \A j \in 0..n - 1 : Cell(t, D + j) = Cell(h, j)
  BY <1>2, Behind
<1>4. \A j \in 0..n - 1 : buffer[Cell(t, D + j)] = MqttByte(m, j + 1, n)
  BY <1>3
<1> DEFINE Right(i, last) ==
             LET b == buffer[Cell(t, i)]
             IN /\ b.place \in 1..i + 1
                /\ \A j \in 1..b.place - 1 :
                     LET d == buffer[Cell(t, i - j)]
                     IN d.message = b.message /\ d.place = b.place - j /\ ~d.last
                /\ b.place <= i => buffer[Cell(t, i - b.place)].last
                /\ i = last => b.last
<1>5. \A i \in 0..D + n - 1 : Right(i, D + n - 1)
  <2> TAKE i \in 0..D + n - 1
  <2>1. CASE i < D
    <3>1. i \in 0..D - 1 /\ i # D + n - 1
      BY <1>1, <2>1
    <3> QED
      BY <3>1 DEF WholeMessages
  <2>2. CASE i >= D
    <3> DEFINE k == i - D
               b == buffer[Cell(t, i)]
    <3>1. k \in 0..n - 1 /\ i = D + k
      BY <1>1, <2>2
    <3>2. b = MqttByte(m, k + 1, n)
      BY <1>4, <3>1
    <3>3. b.place = k + 1 /\ b.message = m /\ (b.last <=> k + 1 = n)
      BY <3>2, ByteFields
    <3> HIDE DEF b, D
    <3>4. b.place \in 1..i + 1 /\ (i = D + n - 1 => b.last)
      BY <1>1, <3>1, <3>3
    <3>5. ASSUME NEW j \in 1..b.place - 1
          PROVE  LET d == buffer[Cell(t, i - j)]
                 IN d.message = b.message /\ d.place = b.place - j /\ ~d.last
      <4>1. k - j \in 0..n - 1 /\ D + (k - j) = i - j
        BY <1>1, <3>1, <3>3
      <4>2. buffer[Cell(t, i - j)] = MqttByte(m, k - j + 1, n)
        BY <1>4, <4>1 DEF D
      <4>3. k - j + 1 # n /\ k - j + 1 = k + 1 - j
        BY <1>1, <3>1, <3>3
      <4> DEFINE d == buffer[Cell(t, i - j)]
      <4>4. d.message = m /\ d.place = k - j + 1 /\ (d.last <=> k - j + 1 = n)
        BY <4>2, ByteFields
      <4> QED
        BY <1>1, <3>1, <3>3, <4>3, <4>4
    <3>6. ASSUME b.place <= i
          PROVE  buffer[Cell(t, i - b.place)].last
      <4>1. i - b.place = D - 1 /\ D - 1 \in 0..D - 1
        BY <1>1, <3>1, <3>3, <3>6
      <4> QED
        BY <4>1 DEF WholeMessages, D
    <3> QED
      BY <3>4, <3>5, <3>6 DEF b, D
  <2> QED
    BY <1>1, <2>1, <2>2
<1> DEFINE c == Cell(h, n)
           E == D + n
<1>6. Held(t, c) = E
  BY <1>3
<1> HIDE DEF c, D
<1>7. WholeMessages(t, c)
  <2>1. ASSUME NEW i \in 0..Held(t, c) - 1
        PROVE  Right(i, Held(t, c) - 1)
    <3> HIDE DEF Right
    <3>1. i \in 0..D + n - 1
      BY <1>1, <1>6
    <3>2. Right(i, D + n - 1)
      BY <1>5, <3>1
    <3> QED
      BY <1>1, <1>6, <3>2
  <2> QED
    BY <2>1, Zenon DEF WholeMessages
<1> QED
  BY <1>7 DEF c

\* A line up to the first delimiter is one message.
LEMMA LineWhole ==
  ASSUME MqttSizes, NEW t \in Indices, NEW h \in Indices,
         WholeMessages(t, h), NEW n \in 1..Held(t, h),
         buffer \in [Indices -> MqttBytes],
         buffer[Cell(t, n - 1)].last,
         \A i \in 0..n - 2 : ~buffer[Cell(t, i)].last
  PROVE  \A i \in 0..n - 1 :
           /\ buffer[Cell(t, i)].message = buffer[Cell(t, 0)].message
           /\ buffer[Cell(t, i)].place = i + 1
           /\ buffer[Cell(t, i)].last <=> i = n - 1
<1> DEFINE b == buffer[Cell(t, n - 1)]
<1>1. Held(t, h) \in Nat /\ n \in Nat \ {0}
  BY HeldIs DEF Indices, MqttSizes
<1>2. /\ b.place \in 1..n
      /\ \A j \in 1..b.place - 1 :
           LET d == buffer[Cell(t, n - 1 - j)]
           IN d.message = b.message /\ d.place = b.place - j /\ ~d.last
      /\ b.place <= n - 1 => buffer[Cell(t, n - 1 - b.place)].last
  BY <1>1 DEF WholeMessages
<1> HIDE DEF b
<1>3. b.place = n
  <2> SUFFICES ASSUME b.place <= n - 1
      PROVE  FALSE
    BY <1>1, <1>2
  <2>1. n - 1 - b.place \in 0..n - 2
    BY <1>1, <1>2
  <2> QED
    BY <1>2, <2>1
<1>4. ASSUME NEW i \in 0..n - 1
      PROVE  /\ buffer[Cell(t, i)].message = b.message
             /\ buffer[Cell(t, i)].place = i + 1
             /\ buffer[Cell(t, i)].last <=> i = n - 1
  <2>1. CASE i = n - 1
    BY <1>1, <1>3, <2>1 DEF b
  <2>2. CASE i # n - 1
    <3> DEFINE j == n - 1 - i
    <3>1. j \in 1..n - 1 /\ n - 1 - j = i /\ n - j = i + 1
      BY <1>1, <2>2
    <3> HIDE DEF j
    <3> QED
      BY <1>2, <1>3, <2>2, <3>1
  <2> QED
    BY <2>1, <2>2
<1>5. 0 \in 0..n - 1
  BY <1>1
<1> QED
  BY <1>4, <1>5

\* Every step keeps the types.
LEMMA MqttTypes ==
  ASSUME MqttSizes, MqttTypeOK, [MqttNext]_mqttVars
  PROVE  MqttTypeOK'
<1>0. RingSize \in Nat \ {0} /\ MaxMessages \in Nat /\ MqttLineSize \in Nat
  BY DEF MqttSizes, MqttLineSize
<1>1. CASE Arrive
  <2>1. PICK n \in MessageSizes : n > 1 /\
          pusher' = [at |-> "copy", head |-> head, tail |-> tail, size |-> n]
    BY <1>1 DEF Arrive
  <2>2. n \in Nat \ {0}
    BY <2>1 DEF MqttSizes
  <2>3. pusher' \in [at : {"copy", "store"}, head : Indices, tail : Indices, size : Nat \ {0}]
    BY <2>1, <2>2 DEF MqttTypeOK
  <2>4. messages' \in 0..MaxMessages
    BY <1>0, <1>1 DEF Arrive, MqttTypeOK
  <2> QED
    BY <1>1, <2>3, <2>4 DEF Arrive, MqttTypeOK
<1>2. CASE Push
  <2>1. pusher \in [at : {"copy", "store"}, head : Indices, tail : Indices, size : Nat \ {0}]
    BY <1>2 DEF Push, MqttTypeOK, MqttIdle
  <2>2. pusher' \in [at : {"copy", "store"}, head : Indices, tail : Indices, size : Nat \ {0}]
    BY <1>2, <2>1 DEF Push
  <2>3. ASSUME NEW i \in Indices,
               Held(pusher.head, i) < Pushed(pusher)
        PROVE  MqttByte(messages, Held(pusher.head, i) + 1, pusher.size) \in MqttBytes
    <3>1. Held(pusher.head, i) + 1 \in Nat /\ messages \in Nat
      <4>1. pusher.head \in Indices
        BY <2>1
      <4>2. Held(pusher.head, i) \in Indices
        BY <4>1, HeldIs
      <4> QED
        BY <1>0, <4>2 DEF Indices, MqttTypeOK
    <3> DEFINE k == Held(pusher.head, i) + 1
    <3> HIDE DEF k
    <3>2. (k = pusher.size) \in BOOLEAN
      BY Zenon
    <3>3. MqttByte(messages, k, pusher.size) \in MqttBytes
      <4> DEFINE l == k = pusher.size
      <4>1. l \in BOOLEAN
        OBVIOUS
      <4> HIDE DEF l
      <4>2. [message |-> messages, place |-> k, last |-> l] \in MqttBytes
        BY <3>1, <4>1 DEF k, MqttBytes
      <4> QED
        BY <4>2 DEF l, MqttByte
    <3> QED
      BY <3>3 DEF k
  <2>4. buffer' \in [Indices -> MqttBytes]
    <3>1. DOMAIN buffer = Indices /\ \A i \in Indices : buffer[i] \in MqttBytes
      BY DEF MqttTypeOK
    <3>2. buffer' = [i \in Indices |->
             IF Held(pusher.head, i) < Pushed(pusher)
             THEN MqttByte(messages, Held(pusher.head, i) + 1, pusher.size) ELSE buffer[i]]
      BY <1>2, <3>1 DEF Push, Held
    <3> QED
      BY <2>3, <3>1, <3>2
  <2> QED
    BY <1>2, <2>2, <2>4 DEF Push, MqttTypeOK
<1>3. CASE StoreHead
  <2>1. pusher \in [at : {"copy", "store"}, head : Indices, tail : Indices, size : Nat \ {0}]
    BY <1>3 DEF StoreHead, MqttTypeOK, MqttIdle
  <2>2. Pushed(pusher) \in Nat
    BY <1>0, <2>1 DEF Pushed, Remain, Indices
  <2>3. head' \in Indices
    BY <1>0, <1>3, <2>1, <2>2 DEF StoreHead, Indices
  <2>4. torn' \in BOOLEAN
    BY <1>3, Zenon DEF StoreHead
  <2> QED
    BY <1>3, <2>3, <2>4 DEF StoreHead, MqttTypeOK
<1>4. CASE LoadIndices
  BY <1>0, <1>4 DEF LoadIndices, MqttTypeOK
<1>5. CASE Scan
  <2>1. reader \in [at : {"scan", "store"}, head : Indices, tail : Indices,
                    len : 0..MqttLineSize]
    BY <1>5 DEF Scan, MqttTypeOK, MqttIdle
  <2> DEFINE ends == Ends(reader.head, reader.tail)
             n == CHOOSE n \in ends : \A m \in ends : n <= m
  <2>2. CASE ends = {}
    <3>1. reader' = MqttIdle /\ mqttLine' = <<>>
      BY <1>5, <2>2 DEF Scan
    <3>2. \E k \in 0..MqttLineSize : mqttLine' \in [1..k -> MqttBytes]
      <4>1. mqttLine' \in [1..0 -> MqttBytes]
        BY <3>1
      <4> QED
        BY <1>0, <4>1
    <3> QED
      BY <1>5, <3>1, <3>2 DEF Scan, MqttTypeOK
  <2>3. CASE ends # {}
    <3>1. ends \subseteq 1..MqttLineSize
      BY DEF Ends
    <3>2. n \in ends
      <4>1. ends \subseteq Nat
        BY <1>0, <3>1
      <4> HIDE DEF ends
      <4> QED
        BY <2>3, <4>1, LeastElement
    <3>3. n \in 1..MqttLineSize
      BY <3>1, <3>2
    <3>4. /\ mqttLine' = [i \in 1..n |-> buffer[(reader.tail + i - 1) % RingSize]]
          /\ reader' = [reader EXCEPT !.at = "store", !.len = n]
      BY <1>5, <2>3 DEF Scan
    <3> HIDE DEF n, ends
    <3>5. reader' \in [at : {"scan", "store"}, head : Indices, tail : Indices,
                       len : 0..MqttLineSize]
      <4>1. n \in 0..MqttLineSize
        BY <1>0, <3>3
      <4> QED
        BY <2>1, <3>4, <4>1
    <3>6. mqttLine' \in [1..n -> MqttBytes]
      <4>1. \A i \in 1..n : (reader.tail + i - 1) % RingSize \in Indices
        BY <1>0, <2>1, <3>3 DEF Indices
      <4> QED
        BY <3>4, <4>1 DEF MqttTypeOK
    <3>7. UNCHANGED <<buffer, head, tail, pusher, messages, torn>>
      BY <1>5 DEF Scan
    <3>8. n \in 0..MqttLineSize
      BY <1>0, <3>3
    <3>9. \E k \in 0..MqttLineSize : mqttLine' \in [1..k -> MqttBytes]
      BY <3>6, <3>8
    <3> QED
      BY <3>5, <3>7, <3>9 DEF MqttTypeOK
  <2> QED
    BY <2>2, <2>3
<1>6. CASE StoreTail
  <2>1. reader \in [at : {"scan", "store"}, head : Indices, tail : Indices,
                    len : 0..MqttLineSize]
    BY <1>6 DEF StoreTail, MqttTypeOK, MqttIdle
  <2>2. tail' \in Indices
    BY <1>0, <1>6, <2>1 DEF StoreTail, Indices
  <2> QED
    BY <1>6, <2>2 DEF StoreTail, MqttTypeOK
<1>7. CASE UNCHANGED mqttVars
  BY <1>7 DEF mqttVars, MqttTypeOK
<1> QED
  BY <1>1, <1>2, <1>3, <1>4, <1>5, <1>6, <1>7 DEF MqttNext

\* The invariant without the line: what an action that leaves line alone has to keep.
LEMMA ArriveKeeps ==
  ASSUME MqttSizes, BufferInv, MqttTypeOK', Arrive
  PROVE  BufferInv'
<1>1. tail \in Indices /\ head \in Indices
  BY DEF BufferInv, MqttTypeOK
<1>2. PICK n \in MessageSizes :
        pusher' = [at |-> "copy", head |-> head, tail |-> tail, size |-> n]
  BY DEF Arrive
<1>3. Held(tail, tail) = 0 /\ Held(tail, head) \in Nat
  BY <1>1, HeldIs DEF Indices
<1>4. PusherInv'
  <2>1. /\ pusher'.at = "copy" /\ pusher'.head = head /\ pusher'.tail = tail
        /\ tail' = tail /\ head' = head
    BY <1>2 DEF Arrive
  <2> QED
    BY <1>3, <2>1 DEF PusherInv, Held
<1>5. UNCHANGED <<buffer, head, tail, reader, mqttLine, torn>>
  BY DEF Arrive
<1>6. ~torn' => WholeMessages(tail, head)' /\ ReaderInv'
  BY <1>5 DEF BufferInv, WholeMessages, ReaderInv, Cell, Held
<1>7. LineIsMessage'
  BY <1>5 DEF BufferInv, LineIsMessage
<1> QED
  BY <1>4, <1>6, <1>7 DEF BufferInv

LEMMA LoadIndicesKeeps ==
  ASSUME MqttSizes, BufferInv, MqttTypeOK', LoadIndices
  PROVE  BufferInv'
<1>1. tail \in Indices /\ head \in Indices
  BY DEF BufferInv, MqttTypeOK
<1>2. Held(tail, head) \in Nat
  BY <1>1, HeldIs DEF Indices
<1>3. ReaderInv'
  <2>1. /\ reader'.at = "scan" /\ reader'.head = head /\ reader'.tail = tail
        /\ tail' = tail /\ head' = head /\ head # tail
    BY DEF LoadIndices
  <2> QED
    BY <1>2, <2>1 DEF ReaderInv, Held
<1>4. UNCHANGED <<buffer, head, tail, pusher, messages, mqttLine, torn>>
  BY DEF LoadIndices
<1>5. ~torn' => WholeMessages(tail, head)' /\ PusherInv'
  BY <1>4 DEF BufferInv, WholeMessages, PusherInv, Pushed, Remain,
              Cell, Held, MqttByte
<1>6. LineIsMessage'
  BY <1>4 DEF BufferInv, LineIsMessage
<1> QED
  BY <1>3, <1>5, <1>6 DEF BufferInv

\* The listener copies a line: one message, if the buffer holds whole ones.
LEMMA ScanKeeps ==
  ASSUME MqttSizes, BufferInv, MqttTypeOK', Scan
  PROVE  BufferInv'
<1>0. RingSize \in Nat \ {0} /\ MqttLineSize \in Nat
  BY DEF MqttSizes, MqttLineSize
<1>1. /\ tail \in Indices /\ head \in Indices
      /\ buffer \in [Indices -> MqttBytes]
      /\ reader \in [at : {"scan", "store"}, head : Indices, tail : Indices,
                     len : 0..MqttLineSize]
  BY DEF BufferInv, MqttTypeOK, Scan, MqttIdle
<1>2. UNCHANGED <<buffer, head, tail, pusher, messages, torn>>
  BY DEF Scan
<1>3. ~torn' => WholeMessages(tail, head)' /\ PusherInv'
  BY <1>2 DEF BufferInv, WholeMessages, PusherInv, Pushed, Remain,
              Cell, Held, MqttByte
<1> SUFFICES ASSUME ~torn
    PROVE  ReaderInv' /\ LineIsMessage'
  BY <1>2, <1>3 DEF BufferInv, LineIsMessage
<1>4. /\ WholeMessages(tail, head)
      /\ reader.tail = tail /\ reader.head # tail
      /\ Held(tail, reader.head) <= Held(tail, head)
  BY <1>1 DEF BufferInv, ReaderInv, MqttIdle
<1> DEFINE ends == Ends(reader.head, reader.tail)
           n == CHOOSE n \in ends : \A m \in ends : n <= m
<1>5. CASE ends = {}
  <2>1. reader' = MqttIdle /\ mqttLine' = <<>>
    BY <1>5 DEF Scan
  <2> QED
    BY <2>1 DEF ReaderInv, LineIsMessage
<1>6. CASE ends # {}
  <2>1. ends = {k \in 1..MqttLineSize : /\ k <= Held(tail, reader.head)
                                         /\ buffer[(tail + k - 1) % RingSize].last}
    BY <1>4 DEF Ends, Held
  <2>2. n \in ends /\ \A m \in ends : n <= m
    <3>1. ends \subseteq Nat
      BY <1>0, <2>1
    <3> HIDE DEF ends
    <3> QED
      BY <1>6, <3>1, LeastElement
  <2>3. /\ mqttLine' = [i \in 1..n |-> buffer[(tail + i - 1) % RingSize]]
        /\ reader' = [reader EXCEPT !.at = "store", !.len = n]
    BY <1>4, <1>6 DEF Scan
  <2> HIDE DEF n, ends
  <2>4. ASSUME NEW i \in 1..n
        PROVE  buffer[(tail + i - 1) % RingSize] = buffer[Cell(tail, i - 1)]
    <3>1. tail + i - 1 = tail + (i - 1)
      BY <1>0, <1>1, <2>1, <2>2 DEF Indices
    <3> QED
      BY <3>1 DEF Cell
  <2>5. Held(tail, reader.head) \in Nat /\ Held(tail, head) \in Nat
    <3>1. reader.head \in Indices
      BY <1>1
    <3>2. /\ Held(tail, reader.head) \in Indices
          /\ Held(tail, head) \in Indices
      BY <1>1, <3>1, HeldIs
    <3> QED
      BY <1>0, <3>2 DEF Indices
  <2>6. /\ n \in 1..MqttLineSize /\ n <= Held(tail, reader.head)
        /\ n \in 1..Held(tail, reader.head) /\ n \in 1..Held(tail, head)
    BY <1>0, <1>4, <2>1, <2>2, <2>5
  <2>7. buffer[Cell(tail, n - 1)].last
    <3>1. n \in 1..n
      BY <2>6
    <3> QED
      BY <2>1, <2>2, <2>4, <3>1
  <2>8. ASSUME NEW i \in 0..n - 2
        PROVE  ~buffer[Cell(tail, i)].last
    <3>1. /\ i + 1 \in 1..n /\ i + 1 \in 1..MqttLineSize /\ (i + 1) - 1 = i
          /\ ~(n <= i + 1) /\ i + 1 <= Held(tail, reader.head)
      BY <1>0, <2>5, <2>6
    <3>2. i + 1 \notin ends
      BY <2>2, <3>1
    <3>3. ~buffer[(tail + (i + 1) - 1) % RingSize].last
      BY <2>1, <3>1, <3>2
    <3> QED
      BY <2>4, <3>1, <3>3
  <2>9. ReaderInv'
    <3>1. /\ reader'.tail = tail /\ reader'.head = reader.head /\ reader'.len = n
          /\ reader'.at = "store"
      BY <1>1, <1>4, <2>3
    <3> QED
      BY <1>2, <1>4, <2>6, <2>7, <3>1 DEF ReaderInv, Held, Cell
  <2>10. \A i \in 0..n - 1 :
           /\ buffer[Cell(tail, i)].message = buffer[Cell(tail, 0)].message
           /\ buffer[Cell(tail, i)].place = i + 1
           /\ buffer[Cell(tail, i)].last <=> i = n - 1
    BY <1>1, <1>4, <2>6, <2>7, <2>8, LineWhole
  <2>11. LineIsMessage'
    <3>1. Len(mqttLine') = n
      BY <2>3, <2>6
    <3>2. ASSUME NEW i \in 1..n
          PROVE  /\ mqttLine'[i].message = mqttLine'[1].message
                 /\ mqttLine'[i].place = i
                 /\ mqttLine'[i].last <=> i = n
      <4>1. /\ mqttLine'[i] = buffer[Cell(tail, i - 1)]
            /\ mqttLine'[1] = buffer[Cell(tail, 0)]
        <5>1. 1 \in 1..n /\ 1 - 1 = 0
          BY <2>6
        <5> QED
          BY <2>3, <2>4, <5>1
      <4>2. i - 1 \in 0..n - 1 /\ (i - 1) + 1 = i /\ (i - 1 = n - 1 <=> i = n)
        BY <2>6
      <4> QED
        BY <2>10, <4>1, <4>2
    <3> QED
      BY <3>1, <3>2 DEF LineIsMessage
  <2> QED
    BY <2>9, <2>11
<1> QED
  BY <1>5, <1>6

\* The message is copied behind the head: what is held is left alone, unless the
\* listener has yet to move behind the copy of tail, which it never is.
LEMMA PushKeeps ==
  ASSUME MqttSizes, BufferInv, MqttTypeOK', Push
  PROVE  BufferInv'
<1>0. RingSize \in Nat \ {0}
  BY DEF MqttSizes
<1>1. /\ tail \in Indices /\ head \in Indices
      /\ buffer \in [Indices -> MqttBytes]
      /\ pusher \in [at : {"copy", "store"}, head : Indices, tail : Indices, size : Nat \ {0}]
  BY DEF BufferInv, MqttTypeOK, Push, MqttIdle
<1>2. UNCHANGED <<head, tail, reader, mqttLine, messages, torn>>
  BY DEF Push
<1>3. LineIsMessage'
  BY <1>2 DEF BufferInv, LineIsMessage
<1> SUFFICES ASSUME ~torn
    PROVE  WholeMessages(tail, head)' /\ PusherInv' /\ ReaderInv'
  BY <1>2, <1>3 DEF BufferInv
<1> DEFINE D == Held(tail, head)
           k == Pushed(pusher)
<1>4. /\ WholeMessages(tail, head) /\ ReaderInv
      /\ pusher.head = head
      /\ Held(pusher.tail, tail) <= Held(pusher.tail, head)
  BY <1>1 DEF BufferInv, PusherInv, MqttIdle
<1>5. D \in 0..RingSize - 1 /\ k \in 0..RingSize - D
  <2>1. pusher.tail \in Indices
    BY <1>1
  <2>2. D \in Indices /\ D = Held(pusher.tail, head) - Held(pusher.tail, tail)
    BY <1>1, <1>4, <2>1, HeldIs, Behindhand
  <2>3. /\ Held(pusher.tail, head) \in Indices
        /\ Held(pusher.tail, tail) \in Indices
        /\ Remain(head, pusher.tail) = RingSize - Held(pusher.tail, head)
    BY <1>1, <2>1, HeldIs
  <2>4. k = IF pusher.size < RingSize - Held(pusher.tail, head)
            THEN pusher.size ELSE RingSize - Held(pusher.tail, head)
    BY <1>4, <2>3 DEF Pushed
  <2>5. pusher.size \in Nat
    BY <1>1
  <2> HIDE DEF k, D
  <2> QED
    BY <1>0, <2>2, <2>3, <2>4, <2>5 DEF Indices
<1>6. buffer' = [i \in Indices |->
                   IF Held(head, i) < k
                   THEN MqttByte(messages, Held(head, i) + 1, pusher.size) ELSE buffer[i]]
  BY <1>1, <1>4 DEF Push, Held
<1> HIDE DEF k
<1>7. \A i \in 0..D - 1 : buffer'[Cell(tail, i)] = buffer[Cell(tail, i)]
  <2> TAKE i \in 0..D - 1
  <2>1. i \in Indices /\ Held(head, Cell(tail, i)) >= RingSize - D
    BY <1>1, Apart
  <2>2. Cell(tail, i) \in Indices
    BY <1>1, <2>1, CellIs
  <2>3. Held(head, Cell(tail, i)) \in Indices
    BY <1>1, <2>2, HeldIs
  <2> HIDE DEF D
  <2>4. ~(Held(head, Cell(tail, i)) < k)
    BY <1>0, <1>5, <2>1, <2>3 DEF Indices
  <2> QED
    BY <1>6, <2>2, <2>4
<1>8. ASSUME NEW j \in 0..k - 1, k <= RingSize
      PROVE  buffer'[Cell(head, j)] = MqttByte(messages, j + 1, pusher.size)
  <2>1. j \in Indices
    BY <1>0, <1>5, <1>8 DEF Indices
  <2>2. Cell(head, j) \in Indices
    BY <1>1, <2>1, CellIs
  <2>3. Held(head, Cell(head, j)) = j
    BY <1>1, <2>1, Apart
  <2>4. j < k
    BY <1>5
  <2> QED
    BY <1>6, <2>2, <2>3, <2>4
<1>9. PusherInv'
  <2>1. /\ pusher'.at = "store" /\ pusher'.head = pusher.head /\ pusher'.tail = pusher.tail
        /\ pusher'.size = pusher.size
    BY <1>1 DEF Push
  <2>2. Pushed(pusher)' = k
    BY <2>1 DEF Pushed, Remain, k
  <2>3. k <= RingSize
    <3> HIDE DEF D
    <3> QED
      BY <1>0, <1>5
  <2>4. \A j \in 0..k - 1 :
          buffer'[Cell(head, j)] = MqttByte(messages, j + 1, pusher.size)
    BY <1>8, <2>3
  <2> QED
    BY <1>2, <1>4, <2>1, <2>2, <2>4 DEF PusherInv, Held, Cell, MqttByte
<1>10. ReaderInv'
  <2> SUFFICES ASSUME reader # MqttIdle
      PROVE  ReaderInv'
    BY <1>2 DEF ReaderInv, MqttIdle
  <2>1. /\ reader \in [at : {"scan", "store"}, head : Indices, tail : Indices,
                       len : 0..MqttLineSize]
        /\ reader.tail = tail /\ reader.head # tail
        /\ Held(tail, reader.head) <= D
        /\ reader.at = "store" =>
             /\ reader.len \in 1..Held(tail, reader.head)
             /\ buffer[Cell(tail, reader.len - 1)].last
    BY <1>4 DEF BufferInv, MqttTypeOK, ReaderInv
  <2>2. Held(tail, reader.head) \in Indices
    <3>1. reader.head \in Indices
      BY <2>1
    <3> QED
      BY <1>1, <3>1, HeldIs
  <2>3. reader.at = "store" => reader.len - 1 \in 0..D - 1
    <3> HIDE DEF D
    <3> QED
      BY <1>0, <1>5, <2>1, <2>2 DEF Indices
  <2>4. reader.at = "store" => buffer'[Cell(tail, reader.len - 1)].last
    BY <1>7, <2>1, <2>3
  <2> QED
    BY <1>2, <2>1, <2>4 DEF ReaderInv, Held, Cell, MqttIdle
<1>11. WholeMessages(tail, head)'
  <2>1. ASSUME NEW i \in 0..D - 1
        PROVE  LET b == buffer'[Cell(tail, i)]
               IN /\ b.place \in 1..i + 1
                  /\ \A j \in 1..b.place - 1 :
                       LET c == buffer'[Cell(tail, i - j)]
                       IN c.message = b.message /\ c.place = b.place - j /\ ~c.last
                  /\ b.place <= i => buffer'[Cell(tail, i - b.place)].last
                  /\ i = D - 1 => b.last
    <3> DEFINE b == buffer[Cell(tail, i)]
    <3>1. /\ b.place \in 1..i + 1
          /\ \A j \in 1..b.place - 1 :
               LET c == buffer[Cell(tail, i - j)]
               IN c.message = b.message /\ c.place = b.place - j /\ ~c.last
          /\ b.place <= i => buffer[Cell(tail, i - b.place)].last
          /\ i = D - 1 => b.last
      BY <1>4 DEF WholeMessages
    <3> HIDE DEF b, D
    <3>2. buffer'[Cell(tail, i)] = b
      BY <1>7 DEF b
    <3>3. \A j \in 1..b.place : j <= i => i - j \in 0..D - 1
      BY <1>0, <1>5, <3>1
    <3>4. \A j \in 1..b.place : j <= i =>
            buffer'[Cell(tail, i - j)] = buffer[Cell(tail, i - j)]
      BY <1>7, <3>3
    <3>5. \A j \in 1..b.place - 1 : j \in 1..b.place /\ j <= i
      BY <1>0, <1>5, <3>1
    <3>6. b.place <= i => b.place \in 1..b.place
      BY <1>5, <3>1
    <3> QED
      BY <3>1, <3>2, <3>4, <3>5, <3>6
  <2> HIDE DEF D
  <2>2. Held(tail, head)' = D
    BY <1>2 DEF Held, D
  <2>3. \A i : Cell(tail, i)' = Cell(tail, i)
    BY <1>2 DEF Cell
  <2> QED
    BY <1>5, <2>1, <2>2, <2>3 DEF WholeMessages
<1> QED
  BY <1>9, <1>10, <1>11

\* The message becomes visible, or fills the buffer, which then looks empty.
LEMMA StoreHeadKeeps ==
  ASSUME MqttSizes, BufferInv, MqttTypeOK', StoreHead
  PROVE  BufferInv'
<1>0. RingSize \in Nat \ {0}
  BY DEF MqttSizes
<1>1. /\ tail \in Indices /\ head \in Indices
      /\ buffer \in [Indices -> MqttBytes]
      /\ pusher \in [at : {"copy", "store"}, head : Indices, tail : Indices, size : Nat \ {0}]
  BY DEF BufferInv, MqttTypeOK, StoreHead, MqttIdle
<1>2. /\ UNCHANGED <<buffer, tail, reader, mqttLine, messages>>
      /\ pusher' = MqttIdle /\ pusher.at = "store"
      /\ ~torn' => ~torn
  BY DEF StoreHead
<1>3. LineIsMessage'
  BY <1>2 DEF BufferInv, LineIsMessage
<1> SUFFICES ASSUME ~torn'
    PROVE  WholeMessages(tail, head)' /\ PusherInv' /\ ReaderInv'
  BY <1>3 DEF BufferInv
<1>4. PusherInv'
  BY <1>2 DEF PusherInv, MqttIdle
<1> DEFINE D == Held(tail, head)
           P == Held(pusher.tail, head)
           k == Pushed(pusher)
<1>5. /\ WholeMessages(tail, head) /\ ReaderInv
      /\ pusher.head = head
      /\ Held(pusher.tail, tail) <= P
      /\ \A j \in 0..k - 1 :
           buffer[Cell(head, j)] = MqttByte(messages, j + 1, pusher.size)
  BY <1>1, <1>2 DEF BufferInv, PusherInv, MqttIdle
<1>6. pusher.tail \in Indices /\ pusher.size \in Nat \ {0}
  BY <1>1
<1>7. /\ D \in 0..RingSize - 1 /\ P \in 0..RingSize - 1 /\ D <= P
      /\ Remain(head, pusher.tail) = RingSize - P
  <2>1. D \in Indices /\ D = P - Held(pusher.tail, tail)
    BY <1>1, <1>5, <1>6, HeldIs, Behindhand
  <2>2. /\ P \in Indices /\ Held(pusher.tail, tail) \in Indices
        /\ Remain(head, pusher.tail) = RingSize - P
    BY <1>1, <1>6, HeldIs
  <2> HIDE DEF D, P
  <2> QED
    BY <1>0, <2>1, <2>2 DEF Indices
<1>8. /\ k = IF pusher.size < RingSize - P THEN pusher.size ELSE RingSize - P
      /\ head' = (head + k) % RingSize
      /\ pusher.size >= RingSize - P => reader = MqttIdle /\ tail = pusher.tail
  BY <1>5, <1>7 DEF StoreHead, Pushed
<1>9. CASE pusher.size < RingSize - P
  <2>1. k = pusher.size /\ k \in 1..RingSize - D - 1 /\ k \in 0..RingSize - D - 1
    <3> HIDE DEF D, P, k
    <3> QED
      BY <1>0, <1>6, <1>7, <1>8, <1>9
  <2>2. head' = Cell(head, k)
    BY <1>8 DEF Cell
  <2> HIDE DEF k
  <2>3. WholeMessages(tail, Cell(head, k))
    BY <1>1, <1>5, <2>1, Added
  <2>4. WholeMessages(tail, head)'
    BY <1>2, <2>2, <2>3 DEF WholeMessages, Held, Cell
  <2>5. Held(tail, head') = D + k
    BY <1>1, <2>1, <2>2, Behind
  <2>6. ReaderInv'
    <3> SUFFICES ASSUME reader # MqttIdle
        PROVE  ReaderInv'
      BY <1>2 DEF ReaderInv, MqttIdle
    <3>1. /\ reader.tail = tail /\ reader.head # tail
          /\ Held(tail, reader.head) <= D
          /\ reader.at = "store" =>
               /\ reader.len \in 1..Held(tail, reader.head)
               /\ buffer[Cell(tail, reader.len - 1)].last
      BY <1>5 DEF ReaderInv
    <3>2. Held(tail, reader.head) \in Indices
      <4>1. reader.head \in Indices
        BY DEF BufferInv, MqttTypeOK
      <4> QED
        BY <1>1, <4>1, HeldIs
    <3> DEFINE R == Held(tail, reader.head)
               H == Held(tail, head')
    <3>3. R <= H
      <4> HIDE DEF D, R, H
      <4>1. R <= D /\ R \in Indices /\ H = D + k
        BY <2>5, <3>1, <3>2 DEF R, H
      <4> QED
        BY <1>0, <1>7, <2>1, <4>1 DEF Indices
    <3>4. Held(tail, reader.head)' = R /\ Held(tail, head)' = H
      BY <1>2 DEF Held
    <3> QED
      BY <1>2, <3>1, <3>3, <3>4 DEF ReaderInv, Cell, MqttIdle
  <2> QED
    BY <1>4, <2>4, <2>6
<1>10. CASE ~(pusher.size < RingSize - P)
  <2>1. reader = MqttIdle /\ tail = pusher.tail /\ k = RingSize - D
    <3>1. pusher.size >= RingSize - P
      <4> HIDE DEF P
      <4> QED
        BY <1>0, <1>6, <1>7, <1>10
    <3> QED
      BY <1>8, <1>10, <3>1
  <2>2. head' = tail
    <3> DEFINE x == head + k
    <3>1. x = IF tail <= head THEN tail + RingSize ELSE tail
      <4>1. D = IF tail <= head THEN head - tail ELSE head + RingSize - tail
        BY <1>1, HeldIs
      <4>2. k = RingSize - D
        BY <2>1
      <4> HIDE DEF D, k
      <4> QED
        BY <1>0, <1>1, <4>1, <4>2 DEF Indices
    <3>2. head' = x % RingSize
      BY <1>8
    <3> HIDE DEF x
    <3>3. x \in 0..2 * RingSize - 1
      BY <1>0, <1>1, <3>1 DEF Indices
    <3>4. x % RingSize = IF x < RingSize THEN x ELSE x - RingSize
      BY <1>0, <3>3, Wraps
    <3> QED
      BY <1>0, <1>1, <3>1, <3>2, <3>4 DEF Indices
  <2>3. Held(tail, tail) = 0
    BY <1>1, HeldIs DEF Indices
  <2>4. Held(tail, head)' = 0
    BY <1>2, <2>2, <2>3 DEF Held
  <2>5. WholeMessages(tail, head)'
    BY <2>4 DEF WholeMessages
  <2>6. ReaderInv'
    BY <1>2, <2>1 DEF ReaderInv, MqttIdle
  <2> QED
    BY <1>4, <2>5, <2>6
<1> QED
  BY <1>9, <1>10

\* The line's bytes are given back.
LEMMA StoreTailKeeps ==
  ASSUME MqttSizes, BufferInv, MqttTypeOK', StoreTail
  PROVE  BufferInv'
<1>0. RingSize \in Nat \ {0}
  BY DEF MqttSizes
<1>1. /\ tail \in Indices /\ head \in Indices
      /\ buffer \in [Indices -> MqttBytes]
      /\ reader \in [at : {"scan", "store"}, head : Indices, tail : Indices,
                     len : 0..MqttLineSize]
  BY DEF BufferInv, MqttTypeOK, StoreTail, MqttIdle
<1>2. /\ UNCHANGED <<buffer, head, pusher, mqttLine, messages, torn>>
      /\ reader' = MqttIdle /\ reader.at = "store"
  BY DEF StoreTail
<1>3. LineIsMessage'
  BY <1>2 DEF BufferInv, LineIsMessage
<1> SUFFICES ASSUME ~torn
    PROVE  WholeMessages(tail, head)' /\ PusherInv' /\ ReaderInv'
  BY <1>2, <1>3 DEF BufferInv
<1>4. ReaderInv'
  BY <1>2 DEF ReaderInv, MqttIdle
<1> DEFINE D == Held(tail, head)
           n == reader.len
<1>5. /\ WholeMessages(tail, head) /\ PusherInv
      /\ reader.tail = tail
      /\ Held(tail, reader.head) <= D
      /\ n \in 1..Held(tail, reader.head)
      /\ buffer[Cell(tail, n - 1)].last
  BY <1>1, <1>2 DEF BufferInv, ReaderInv, MqttIdle
<1>6. D \in 0..RingSize - 1 /\ n \in 1..D /\ n \in 0..D
  <2>1. reader.head \in Indices
    BY <1>1
  <2>2. D \in Indices /\ Held(tail, reader.head) \in Indices
    BY <1>1, <2>1, HeldIs
  <2> HIDE DEF D, n
  <2> QED
    BY <1>0, <1>5, <2>2 DEF Indices
<1> HIDE DEF n
<1>7. tail' = Cell(tail, n)
  BY <1>5 DEF StoreTail, Cell, n
<1>8. WholeMessages(tail, head)'
  <2>1. WholeMessages(Cell(tail, n), head)
    BY <1>1, <1>5, <1>6, Taken
  <2> QED
    BY <1>2, <1>7, <2>1 DEF WholeMessages, Held, Cell
<1>9. PusherInv'
  <2> SUFFICES ASSUME pusher # MqttIdle
      PROVE  PusherInv'
    BY <1>2 DEF PusherInv, MqttIdle
  <2> DEFINE P == Held(pusher.tail, head)
             Q == Held(pusher.tail, tail)
  <2>1. pusher.tail \in Indices
    BY DEF BufferInv, MqttTypeOK
  <2>2. Q <= P
    BY <1>5 DEF PusherInv
  <2>3. P \in Indices /\ Q \in Indices /\ D = P - Q
    BY <1>1, <2>1, <2>2, HeldIs, Behindhand
  <2>4. n \in 0..RingSize - Q - 1
    <3> HIDE DEF D, P, Q
    <3> QED
      BY <1>0, <1>6, <2>3 DEF Indices
  <2>5. Held(pusher.tail, tail') = Q + n
    BY <1>1, <1>7, <2>1, <2>4, Behind
  <2>6. Q + n <= P
    <3> HIDE DEF D, P, Q
    <3> QED
      BY <1>0, <1>6, <2>3 DEF Indices
  <2>7. Held(pusher.tail, tail)' <= Held(pusher.tail, head)'
    BY <1>2, <2>5, <2>6 DEF Held
  <2> QED
    BY <1>2, <1>5, <2>7 DEF PusherInv, Pushed, Remain, Cell, MqttByte
<1> QED
  BY <1>4, <1>8, <1>9

\* Whatever the sizes of the messages, every behaviour keeps the invariant.
THEOREM BufferInductive ==
  ASSUME MqttSizes
  PROVE  MqttSpec => []BufferInv
<1>1. MqttInit => BufferInv
  <2> SUFFICES ASSUME MqttInit
      PROVE  BufferInv
    OBVIOUS
  <2>0. RingSize \in Nat \ {0} /\ MaxMessages \in Nat /\ MqttLineSize \in Nat
    BY DEF MqttSizes, MqttLineSize
  <2>1. MqttTypeOK
    <3>1. MqttByte(0, 1, 0) \in MqttBytes
      BY DEF MqttByte, MqttBytes
    <3>2. buffer \in [Indices -> MqttBytes]
      BY <3>1 DEF MqttInit, Indices
    <3>3. mqttLine \in [1..0 -> MqttBytes]
      BY DEF MqttInit
    <3>4. \E n \in 0..MqttLineSize : mqttLine \in [1..n -> MqttBytes]
      BY <2>0, <3>3
    <3> QED
      BY <2>0, <3>2, <3>4 DEF MqttInit, MqttTypeOK, Indices
  <2>2. Held(tail, head) = 0
    BY <2>0, HeldIs DEF MqttInit, Indices
  <2>3. WholeMessages(tail, head)
    BY <2>2 DEF WholeMessages
  <2>4. PusherInv /\ ReaderInv
    BY DEF MqttInit, PusherInv, ReaderInv
  <2>5. LineIsMessage
    BY DEF MqttInit, LineIsMessage
  <2> QED
    BY <2>1, <2>3, <2>4, <2>5 DEF BufferInv
<1>2. BufferInv /\ [MqttNext]_mqttVars => BufferInv'
  <2> SUFFICES ASSUME BufferInv, [MqttNext]_mqttVars
      PROVE  BufferInv'
    OBVIOUS
  <2>1. MqttTypeOK'
    BY MqttTypes DEF BufferInv
  <2>2. CASE UNCHANGED mqttVars
    BY <2>2 DEF mqttVars, BufferInv, MqttTypeOK, WholeMessages, PusherInv,
                ReaderInv, LineIsMessage, Pushed, Remain, Cell,
                Held, MqttByte
  <2> QED
    BY <2>1, <2>2, ArriveKeeps, PushKeeps, StoreHeadKeeps, LoadIndicesKeeps, ScanKeeps,
       StoreTailKeeps DEF MqttNext
<1> QED
  BY <1>1, <1>2, PTL DEF MqttSpec

\* What a line of the MQTT transport holds: one message, whole, unless the listener took
\* it while a push filled the buffer.  For every size of the buffer and of the messages.
THEOREM LineRight ==
  ASSUME MqttSizes
  PROVE  MqttSpec => []LineIsMessage
<1>1. BufferInv => LineIsMessage
  BY DEF BufferInv
<1> QED
  BY <1>1, BufferInductive, PTL

-----------------------------------------------------------------------------
(* RingBuffer *)

\* What the methods of a ring that only look return.
LEMMA RingIs ==
  ASSUME NEW N \in Nat \ {0}, NEW S, NEW r \in Rings(N, S)
  PROVE  /\ r.buf \in [0..N - 1 -> S] /\ r.head \in 0..N - 1 /\ r.tail \in 0..N - 1
         /\ Length(r) = N
         /\ Size(r) = IF r.head <= r.tail THEN r.tail - r.head ELSE r.tail + N - r.head
         /\ Size(r) \in 0..N - 1
         /\ Free(r) = N - 1 - Size(r)
         /\ IsEmpty(r) <=> Size(r) = 0
         /\ IsFull(r) <=> Size(r) = N - 1
<1>1. r.buf \in [0..N - 1 -> S] /\ r.head \in 0..N - 1 /\ r.tail \in 0..N - 1
  BY DEF Rings
<1>2. Length(r) = N
  <2>1. DOMAIN r.buf = 0..N - 1
    BY <1>1
  <2>2. Cardinality(0..N - 1) = N
    BY FS_Interval
  <2> QED
    BY <2>1, <2>2 DEF Length
<1> DEFINE h == r.head
           t == r.tail
           D == IF h <= t THEN t - h ELSE t + N - h
<1>3. h \in 0..N - 1 /\ t \in 0..N - 1
  BY <1>1
<1>4. /\ Size(r) = (t + N - h) % N /\ Free(r) = (h + N - t - 1) % N
      /\ IsFull(r) <=> (t + 1) % N = h
  BY <1>2 DEF Size, Free, IsFull
<1>5. IsEmpty(r) <=> h = t
  BY DEF IsEmpty
<1> HIDE DEF h, t
<1>6. (t + N - h) % N = D
  <2> DEFINE x == t + N - h
  <2>1. x \in 0..2 * N - 1
    BY <1>3
  <2>2. x % N = IF x < N THEN x ELSE x - N
    <3> HIDE DEF x
    <3> QED
      BY <2>1, Wraps
  <2> QED
    BY <1>3, <2>2
<1>7. (h + N - t - 1) % N = N - 1 - D
  <2> DEFINE x == h + N - t - 1
  <2>1. x \in 0..2 * N - 1
    BY <1>3
  <2>2. x % N = IF x < N THEN x ELSE x - N
    <3> HIDE DEF x
    <3> QED
      BY <2>1, Wraps
  <2> QED
    BY <1>3, <2>2
<1>8. (t + 1) % N = h <=> D = N - 1
  <2> DEFINE x == t + 1
             y == x % N
  <2>1. x \in 0..2 * N - 1
    BY <1>3
  <2>2. y = IF x < N THEN x ELSE x - N
    <3> HIDE DEF x
    <3> QED
      BY <2>1, Wraps
  <2> HIDE DEF y
  <2>3. y = h <=> D = N - 1
    BY <1>3, <2>2
  <2> QED
    BY <2>3 DEF y
<1>9. D \in 0..N - 1 /\ (h = t <=> D = 0)
  BY <1>3
<1>10. Size(r) = D
  BY <1>4, <1>6
<1>11. IsFull(r) <=> Size(r) = N - 1
  <2> HIDE DEF D
  <2> QED
    BY <1>4, <1>8, <1>10
<1>12. (IsEmpty(r) <=> Size(r) = 0) /\ Size(r) \in 0..N - 1 /\ Free(r) = N - 1 - Size(r)
  <2> HIDE DEF D
  <2> QED
    BY <1>4, <1>5, <1>7, <1>9, <1>10
<1> QED
  BY <1>1, <1>2, <1>10, <1>11, <1>12 DEF h, t

LEMMA AtIs ==
  ASSUME NEW N \in Nat \ {0}, NEW S, NEW r \in Rings(N, S), NEW i \in 0..N - 1
  PROVE  /\ At(r, i) = r.buf[IF r.head + i < N THEN r.head + i ELSE r.head + i - N]
         /\ At(r, i) \in S
<1>1. Length(r) = N /\ r.buf \in [0..N - 1 -> S] /\ r.head \in 0..N - 1
  BY RingIs
<1> DEFINE x == r.head + i
           c == IF r.head + i < N THEN r.head + i ELSE r.head + i - N
<1>2. x \in 0..2 * N - 1 /\ c \in 0..N - 1
  BY <1>1
<1>3. x % N = IF x < N THEN x ELSE x - N
  <2> HIDE DEF x
  <2> QED
    BY <1>2, Wraps
<1>4. x % N = c
  <2> DEFINE y == x % N
  <2>1. y = IF x < N THEN x ELSE x - N
    BY <1>3
  <2> HIDE DEF y
  <2>2. y = c
    BY <1>1, <2>1
  <2> QED
    BY <2>2 DEF y
<1>5. At(r, i) = r.buf[x % N]
  BY <1>1 DEF At
<1> HIDE DEF x, c
<1>6. At(r, i) = r.buf[c] /\ r.buf[c] \in S
  BY <1>1, <1>2, <1>4, <1>5
<1>7. At(r, i) \in S
  BY <1>6
<1> QED
  BY <1>6, <1>7 DEF c

\* A ring that has just been made is empty, and so is one that has been cleared.
LEMMA RingMade ==
  ASSUME NEW N \in Nat \ {0}, NEW S, NEW b \in S
  PROVE  Ring(N, b) \in Rings(N, S) /\ Size(Ring(N, b)) = 0
<1>1. Ring(N, b) \in Rings(N, S)
  BY DEF Ring, Rings
<1>2. Ring(N, b).head = 0 /\ Ring(N, b).tail = 0
  BY DEF Ring
<1> QED
  BY <1>1, <1>2, RingIs

LEMMA ClearIs ==
  ASSUME NEW N \in Nat \ {0}, NEW S, NEW r \in Rings(N, S)
  PROVE  Clear(r) \in Rings(N, S) /\ Size(Clear(r)) = 0
<1>1. Clear(r) \in Rings(N, S) /\ Clear(r).head = Clear(r).tail
  BY DEF Clear, Rings
<1> QED
  BY <1>1, RingIs

\* Taking n bytes moves the others n places to the front.
LEMMA SkipIs ==
  ASSUME NEW N \in Nat \ {0}, NEW S, NEW r \in Rings(N, S), NEW n \in 0..Size(r)
  PROVE  /\ Skip(r, n) \in Rings(N, S)
         /\ Size(Skip(r, n)) = Size(r) - n
         /\ \A i \in 0..N - 1 - n : At(Skip(r, n), i) = At(r, n + i)
<1> DEFINE q == Skip(r, n)
           h == r.head
           t == r.tail
           D == Size(r)
           x == h + n
           y == q.head
<1>1. /\ Length(r) = N /\ r.buf \in [0..N - 1 -> S] /\ h \in 0..N - 1 /\ t \in 0..N - 1
      /\ D = IF h <= t THEN t - h ELSE t + N - h
      /\ D \in 0..N - 1 /\ n \in 0..D
  BY RingIs
<1>2. q.buf = r.buf /\ q.tail = t /\ y = x % N
  BY <1>1 DEF Skip, Rings
<1>3. q = [r EXCEPT !.head = y]
  BY DEF Skip, Rings
<1> HIDE DEF h, t, D, y, q
<1>4. x \in 0..2 * N - 1 /\ n \in 0..N - 1
  BY <1>1
<1>5. x % N = IF x < N THEN x ELSE x - N
  <2> HIDE DEF x
  <2> QED
    BY <1>4, Wraps
<1>6. y = (IF h + n < N THEN h + n ELSE h + n - N) /\ y \in 0..N - 1
  BY <1>1, <1>2, <1>4, <1>5
<1>7. q \in Rings(N, S)
  BY <1>3, <1>6 DEF Rings
<1>8. Size(q) = IF y <= t THEN t - y ELSE t + N - y
  BY <1>2, <1>7, RingIs DEF y
<1>9. Size(q) = D - n
  <2>1. CASE h + n < N
    <3>1. y = h + n
      BY <1>6, <2>1
    <3> QED
      BY <1>1, <1>4, <1>8, <2>1, <3>1
  <2>2. CASE ~(h + n < N)
    <3>1. y = h + n - N
      BY <1>6, <2>2
    <3> QED
      BY <1>1, <1>4, <1>8, <2>2, <3>1
  <2> QED
    BY <2>1, <2>2
<1>10. ASSUME NEW i \in 0..N - 1 - n
       PROVE  At(q, i) = At(r, n + i)
  <2> DEFINE a == IF y + i < N THEN y + i ELSE y + i - N
             b == IF h + (n + i) < N THEN h + (n + i) ELSE h + (n + i) - N
  <2>1. i \in 0..N - 1 /\ n + i \in 0..N - 1
    BY <1>4
  <2>2. At(q, i) = q.buf[a]
    BY <1>7, <2>1, AtIs DEF y
  <2>3. At(r, n + i) = r.buf[b]
    BY <2>1, AtIs DEF h
  <2>4. a = b
    BY <1>1, <1>4, <1>6, <2>1
  <2> HIDE DEF a, b
  <2> QED
    BY <1>2, <2>2, <2>3, <2>4
<1> QED
  BY <1>7, <1>9, <1>10 DEF q, D

\* Bytes copied behind the tail: those that are there stay, and the tail does not move.
LEMMA CopiedIs ==
  ASSUME NEW N \in Nat \ {0}, NEW S, NEW r \in Rings(N, S),
         NEW s \in Seq(S), NEW n \in 0..Free(r), n <= Len(s)
  PROVE  /\ Copied(r, s, n) \in Rings(N, S)
         /\ Size(Copied(r, s, n)) = Size(r)
         /\ Free(Copied(r, s, n)) = Free(r)
         /\ \A i \in 0..Size(r) - 1 : At(Copied(r, s, n), i) = At(r, i)
         /\ \A j \in 0..n - 1 : At(Copied(r, s, n), Size(r) + j) = s[j + 1]
<1> DEFINE q == Copied(r, s, n)
           h == r.head
           t == r.tail
           D == Size(r)
           J(i) == (i + N - t) % N
           Place(i) == IF h + i < N THEN h + i ELSE h + i - N
<1>1. /\ Length(r) = N /\ r.buf \in [0..N - 1 -> S] /\ h \in 0..N - 1 /\ t \in 0..N - 1
      /\ D = IF h <= t THEN t - h ELSE t + N - h
      /\ D \in 0..N - 1 /\ Free(r) = N - 1 - D
      /\ DOMAIN r.buf = 0..N - 1
  BY RingIs
<1>2. /\ q.buf = [i \in 0..N - 1 |-> IF J(i) < n THEN s[J(i) + 1] ELSE r.buf[i]]
      /\ q.head = h /\ q.tail = t
      /\ q = [r EXCEPT !.buf = q.buf]
  BY <1>1 DEF Copied, Rings
<1> HIDE DEF h, t, D, q
<1>3. n \in 0..N - 1 - D /\ n \in Nat /\ Len(s) \in Nat
  BY <1>1
<1>4. \A i \in 0..N - 1 : J(i) = IF t <= i THEN i - t ELSE i + N - t
  <2> TAKE i \in 0..N - 1
  <2> DEFINE x == i + N - t
  <2>1. x \in 0..2 * N - 1
    BY <1>1
  <2>2. x % N = IF x < N THEN x ELSE x - N
    <3> HIDE DEF x
    <3> QED
      BY <2>1, Wraps
  <2> QED
    BY <1>1, <2>2
<1> HIDE DEF J
<1>5. q.buf \in [0..N - 1 -> S]
  <2>1. ASSUME NEW i \in 0..N - 1, J(i) < n
        PROVE  s[J(i) + 1] \in S
    <3>1. J(i) = IF t <= i THEN i - t ELSE i + N - t
      BY <1>4
    <3>2. J(i) + 1 \in 1..Len(s)
      BY <1>1, <1>3, <2>1, <3>1
    <3> QED
      BY <3>2
  <2> QED
    BY <1>1, <1>2, <2>1
<1>6. q \in Rings(N, S)
  BY <1>2, <1>5 DEF Rings
<1>7. Size(q) = D /\ Free(q) = Free(r)
  <2>1. /\ Size(q) = IF q.head <= q.tail THEN q.tail - q.head ELSE q.tail + N - q.head
        /\ Free(q) = N - 1 - Size(q)
    BY <1>6, RingIs
  <2>2. Size(q) = D
    BY <1>1, <1>2, <2>1
  <2> QED
    BY <1>1, <2>1, <2>2
<1>8. ASSUME NEW i \in 0..N - 1
      PROVE  /\ At(q, i) = q.buf[Place(i)] /\ At(r, i) = r.buf[Place(i)]
             /\ Place(i) \in 0..N - 1
  <2>1. At(q, i) = q.buf[IF q.head + i < N THEN q.head + i ELSE q.head + i - N]
    BY <1>6, AtIs
  <2>2. At(q, i) = q.buf[Place(i)]
    BY <1>2, <2>1
  <2>3. At(r, i) = r.buf[Place(i)]
    BY AtIs DEF h
  <2>4. Place(i) \in 0..N - 1
    BY <1>1
  <2> QED
    BY <2>2, <2>3, <2>4
<1>9. ASSUME NEW i \in 0..D - 1
      PROVE  At(q, i) = At(r, i)
  <2> DEFINE c == Place(i)
  <2>1. i \in 0..N - 1
    BY <1>1
  <2>2. c \in 0..N - 1 /\ At(q, i) = q.buf[c] /\ At(r, i) = r.buf[c]
    BY <1>8, <2>1
  <2>3. c = IF h + i < N THEN h + i ELSE h + i - N
    OBVIOUS
  <2> HIDE DEF c
  <2>4. J(c) = IF t <= c THEN c - t ELSE c + N - t
    BY <1>4, <2>2
  <2>5. J(c) \in Int /\ ~(J(c) < n)
    BY <1>1, <1>3, <2>1, <2>2, <2>3, <2>4
  <2> QED
    BY <1>2, <2>2, <2>5
<1>10. ASSUME NEW j \in 0..n - 1
       PROVE  At(q, D + j) = s[j + 1]
  <2> DEFINE i == D + j
             c == Place(i)
  <2>1. i \in 0..N - 1
    BY <1>1, <1>3
  <2>2. c \in 0..N - 1 /\ At(q, i) = q.buf[c]
    <3> HIDE DEF i
    <3> QED
      BY <1>8, <2>1
  <2>3. c = IF h + (D + j) < N THEN h + (D + j) ELSE h + (D + j) - N
    OBVIOUS
  <2> HIDE DEF c, i
  <2>4. J(c) = IF t <= c THEN c - t ELSE c + N - t
    BY <1>4, <2>2
  <2>5. J(c) = j /\ j < n
    BY <1>1, <1>3, <2>2, <2>3, <2>4
  <2>6. At(q, i) = s[j + 1]
    BY <1>2, <2>2, <2>5
  <2> QED
    BY <2>6 DEF i
<1> QED
  BY <1>6, <1>7, <1>9, <1>10 DEF q, D

\* Moving the tail over n bytes makes them visible.
LEMMA CommittedIs ==
  ASSUME NEW N \in Nat \ {0}, NEW S, NEW r \in Rings(N, S), NEW n \in 0..Free(r)
  PROVE  /\ Committed(r, n) \in Rings(N, S)
         /\ Size(Committed(r, n)) = Size(r) + n
         /\ \A i \in 0..N - 1 : At(Committed(r, n), i) = At(r, i)
<1> DEFINE q == Committed(r, n)
           h == r.head
           t == r.tail
           D == Size(r)
           x == t + n
           y == q.tail
<1>1. /\ Length(r) = N /\ r.buf \in [0..N - 1 -> S] /\ h \in 0..N - 1 /\ t \in 0..N - 1
      /\ D = IF h <= t THEN t - h ELSE t + N - h
      /\ D \in 0..N - 1 /\ Free(r) = N - 1 - D
  BY RingIs
<1>2. q.buf = r.buf /\ q.head = h /\ y = x % N /\ q = [r EXCEPT !.tail = y]
  BY <1>1 DEF Committed, Rings
<1> HIDE DEF h, t, D, y, q
<1>3. x \in 0..2 * N - 1 /\ n \in 0..N - 1 - D
  BY <1>1
<1>4. x % N = IF x < N THEN x ELSE x - N
  <2> HIDE DEF x
  <2> QED
    BY <1>3, Wraps
<1>5. y = (IF t + n < N THEN t + n ELSE t + n - N) /\ y \in 0..N - 1
  BY <1>1, <1>2, <1>3, <1>4
<1>6. q \in Rings(N, S)
  BY <1>2, <1>5 DEF Rings
<1>7. Size(q) = IF h <= y THEN y - h ELSE y + N - h
  BY <1>2, <1>6, RingIs DEF y
<1>8. Size(q) = D + n
  BY <1>1, <1>3, <1>5, <1>7
<1>9. ASSUME NEW i \in 0..N - 1
      PROVE  At(q, i) = At(r, i)
  <2>1. At(q, i) = q.buf[IF q.head + i < N THEN q.head + i ELSE q.head + i - N]
    BY <1>6, AtIs
  <2>2. At(r, i) = r.buf[IF r.head + i < N THEN r.head + i ELSE r.head + i - N]
    BY AtIs
  <2> QED
    BY <1>2, <2>1, <2>2 DEF h
<1> QED
  BY <1>6, <1>8, <1>9 DEF q, D

\* put: what fits of s, behind what is there.
LEMMA PutIs ==
  ASSUME NEW N \in Nat \ {0}, NEW S, NEW r \in Rings(N, S), NEW s \in Seq(S)
  PROVE  LET n == Accepted(r, s)
         IN /\ n \in 0..Free(r) /\ n \in 0..Len(s) /\ (Len(s) <= Free(r) => n = Len(s))
            /\ Put(r, s) \in Rings(N, S)
            /\ Size(Put(r, s)) = Size(r) + n
            /\ \A i \in 0..Size(r) - 1 : At(Put(r, s), i) = At(r, i)
            /\ \A j \in 0..n - 1 : At(Put(r, s), Size(r) + j) = s[j + 1]
<1> DEFINE n == Accepted(r, s)
           q == Copied(r, s, n)
           F == Free(r)
           D == Size(r)
<1>1. D \in 0..N - 1 /\ F = N - 1 - D /\ Len(s) \in Nat
  <2>1. Len(s) \in Nat
    OBVIOUS
  <2> QED
    BY <2>1, RingIs
<1>2. n = IF Len(s) > F THEN F ELSE Len(s)
  BY DEF Accepted
<1>3. n \in 0..F /\ n \in 0..Len(s) /\ n <= Len(s) /\ (Len(s) <= F => n = Len(s))
  <2> HIDE DEF n, F, D
  <2> QED
    BY <1>1, <1>2
<1>4. /\ q \in Rings(N, S) /\ Size(q) = D /\ Free(q) = F
      /\ \A i \in 0..D - 1 : At(q, i) = At(r, i)
      /\ \A j \in 0..n - 1 : At(q, D + j) = s[j + 1]
  <2> HIDE DEF n
  <2> QED
    BY <1>3, CopiedIs
<1>5. Put(r, s) = Committed(q, n)
  BY DEF Put
<1> HIDE DEF n, q, F, D
<1>6. /\ Committed(q, n) \in Rings(N, S)
      /\ Size(Committed(q, n)) = Size(q) + n
      /\ \A i \in 0..N - 1 : At(Committed(q, n), i) = At(q, i)
  BY <1>3, <1>4, CommittedIs
<1>7. \A i \in 0..D - 1 : At(Put(r, s), i) = At(r, i)
  <2> TAKE i \in 0..D - 1
  <2>1. i \in 0..N - 1
    BY <1>1
  <2> QED
    BY <1>4, <1>5, <1>6, <2>1
<1>8. \A j \in 0..n - 1 : At(Put(r, s), D + j) = s[j + 1]
  <2> TAKE j \in 0..n - 1
  <2>1. D + j \in 0..N - 1
    BY <1>1, <1>3
  <2> QED
    BY <1>4, <1>5, <1>6, <2>1
<1> QED
  BY <1>3, <1>4, <1>5, <1>6, <1>7, <1>8 DEF n, F, D

\* put of one byte, when there is room for it.
LEMMA PutCharIs ==
  ASSUME NEW N \in Nat \ {0}, NEW S, NEW r \in Rings(N, S), NEW c \in S
  PROVE  /\ PutChar(r, c) \in Rings(N, S)
         /\ ~IsFull(r) =>
              /\ Size(PutChar(r, c)) = Size(r) + 1
              /\ \A i \in 0..Size(r) - 1 : At(PutChar(r, c), i) = At(r, i)
<1> DEFINE q == PutChar(r, c)
           h == r.head
           t == r.tail
           D == Size(r)
           y == (t + 1) % N
           z == (h + 1) % N
<1>1. /\ Length(r) = N /\ r.buf \in [0..N - 1 -> S] /\ h \in 0..N - 1 /\ t \in 0..N - 1
      /\ D = IF h <= t THEN t - h ELSE t + N - h
      /\ D \in 0..N - 1 /\ (IsFull(r) <=> D = N - 1)
  BY RingIs
<1>2. /\ q = [buf |-> [r.buf EXCEPT ![t] = c], head |-> IF IsFull(r) THEN z ELSE h, tail |-> y]
  BY <1>1 DEF PutChar
<1> HIDE DEF h, t, D, q
<1>3. y = (IF t + 1 < N THEN t + 1 ELSE t + 1 - N) /\ y \in 0..N - 1
  <2> DEFINE x == t + 1
             w == x % N
  <2>1. x \in 0..2 * N - 1
    BY <1>1
  <2>2. w = IF x < N THEN x ELSE x - N
    <3> HIDE DEF x
    <3> QED
      BY <2>1, Wraps
  <2> HIDE DEF w
  <2>3. w = (IF t + 1 < N THEN t + 1 ELSE t + 1 - N) /\ w \in 0..N - 1
    BY <1>1, <2>2
  <2> QED
    BY <2>3 DEF w
<1>4. z \in 0..N - 1
  <2> DEFINE x == h + 1
             w == x % N
  <2>1. x \in 0..2 * N - 1
    BY <1>1
  <2>2. w = IF x < N THEN x ELSE x - N
    <3> HIDE DEF x
    <3> QED
      BY <2>1, Wraps
  <2> HIDE DEF w
  <2>3. w \in 0..N - 1
    BY <1>1, <2>2
  <2> QED
    BY <2>3 DEF w
<1> HIDE DEF y, z
<1>5. q \in Rings(N, S)
  <2>1. [r.buf EXCEPT ![t] = c] \in [0..N - 1 -> S]
    BY <1>1
  <2>2. (IF IsFull(r) THEN z ELSE h) \in 0..N - 1
    BY <1>1, <1>4
  <2> QED
    BY <1>2, <1>3, <2>1, <2>2 DEF Rings
<1>6. ASSUME ~IsFull(r)
      PROVE  /\ Size(q) = D + 1
             /\ \A i \in 0..D - 1 : At(q, i) = At(r, i)
  <2>1. q.head = h /\ q.tail = y /\ q.buf = [r.buf EXCEPT ![t] = c] /\ D # N - 1
    BY <1>1, <1>2, <1>6
  <2>2. Size(q) = IF h <= y THEN y - h ELSE y + N - h
    BY <1>5, <2>1, RingIs
  <2>3. Size(q) = D + 1
    <3>0. /\ N \in Nat \ {0} /\ h \in 0..N - 1 /\ t \in 0..N - 1
          /\ D = (IF h <= t THEN t - h ELSE t + N - h) /\ D # N - 1
          /\ y = (IF t + 1 < N THEN t + 1 ELSE t + 1 - N)
          /\ Size(q) = IF h <= y THEN y - h ELSE y + N - h
      BY <1>1, <1>3, <2>1, <2>2, Zenon
    <3>1. CASE t + 1 < N
      <4>1. y = t + 1
        BY <3>0, <3>1, Zenon
      <4>2. CASE h <= t
        BY <3>0, <4>1, <4>2
      <4>3. CASE ~(h <= t)
        BY <3>0, <4>1, <4>3
      <4> QED
        BY <4>2, <4>3
    <3>2. CASE ~(t + 1 < N)
      <4>1. t = N - 1 /\ y = 0
        BY <3>0, <3>2
      <4>2. h # 0
        BY <3>0, <4>1
      <4> QED
        BY <3>0, <4>1, <4>2
    <3> QED
      BY <3>1, <3>2
  <2>4. ASSUME NEW i \in 0..D - 1
        PROVE  At(q, i) = At(r, i)
    <3> DEFINE k == IF h + i < N THEN h + i ELSE h + i - N
    <3>1. i \in 0..N - 1
      BY <1>1
    <3>2. At(q, i) = q.buf[k]
      <4>1. At(q, i) = q.buf[IF q.head + i < N THEN q.head + i ELSE q.head + i - N]
        BY <1>5, <3>1, AtIs
      <4> QED
        BY <2>1, <4>1
    <3>3. At(r, i) = r.buf[k]
      BY <3>1, AtIs DEF h
    <3>4. k \in 0..N - 1 /\ k # t
      BY <1>1, <3>1
    <3> HIDE DEF k
    <3> QED
      BY <1>1, <2>1, <3>2, <3>3, <3>4
  <2> QED
    BY <2>3, <2>4
<1> QED
  BY <1>5, <1>6 DEF q, D

\* get: the first n bytes, or what there is.
LEMMA GetIs ==
  ASSUME NEW N \in Nat \ {0}, NEW S, NEW r \in Rings(N, S), NEW n \in Nat
  PROVE  LET m == Len(Got(r, n))
         IN /\ m \in 0..n /\ m <= Size(r)
            /\ Get(r, n) \in Rings(N, S) /\ Size(Get(r, n)) = Size(r) - m
            /\ \A i \in 0..Size(r) - m - 1 : At(Get(r, n), i) = At(r, m + i)
            /\ Got(r, n) \in Seq(S)
            /\ \A j \in 1..m : Got(r, n)[j] = At(r, j - 1)
<1> DEFINE m == IF n > Size(r) THEN Size(r) ELSE n
           D == Size(r)
<1>1. D \in 0..N - 1
  BY RingIs
<1>2. m \in 0..n /\ m \in 0..D /\ m \in Nat
  BY <1>1
<1>3. Get(r, n) = Skip(r, m) /\ Got(r, n) = [j \in 1..m |-> At(r, j - 1)]
  BY DEF Get, Got, First
<1> HIDE DEF m
<1>4. /\ Skip(r, m) \in Rings(N, S) /\ Size(Skip(r, m)) = Size(r) - m
      /\ \A i \in 0..N - 1 - m : At(Skip(r, m), i) = At(r, m + i)
  BY <1>2, SkipIs
<1> HIDE DEF D
<1>5. \A i \in 0..D - m - 1 : i \in 0..N - 1 - m
  BY <1>1, <1>2
<1>6. ASSUME NEW j \in 1..m
      PROVE  At(r, j - 1) \in S
  <2>1. j - 1 \in 0..N - 1
    BY <1>1, <1>2
  <2> QED
    BY <2>1, AtIs
<1>7. Got(r, n) \in Seq(S) /\ Len(Got(r, n)) = m
  BY <1>2, <1>3, <1>6
<1>8. /\ m <= Size(r)
      /\ Get(r, n) \in Rings(N, S) /\ Size(Get(r, n)) = Size(r) - m
      /\ \A i \in 0..Size(r) - m - 1 : At(Get(r, n), i) = At(r, m + i)
      /\ \A j \in 1..m : Got(r, n)[j] = At(r, j - 1)
  BY <1>1, <1>2, <1>3, <1>4, <1>5 DEF D
<1> QED
  BY <1>2, <1>7, <1>8

\* find: the first of the bytes asked for, or the length of the ring.
LEMMA FindIs ==
  ASSUME NEW N \in Nat \ {0}, NEW S, NEW r \in Rings(N, S), NEW delimiters
  PROVE  LET f == Find(r, delimiters)
         IN /\ f \in 0..N
            /\ \/ f = N
               \/ /\ f \in 0..Size(r) - 1 /\ f < Size(r) /\ At(r, f) \in delimiters
                  /\ \A j \in 0..f - 1 : At(r, j) \notin delimiters
<1> DEFINE hits == {i \in 0..Size(r) - 1 : At(r, i) \in delimiters}
           D == Size(r)
<1>1. D \in 0..N - 1 /\ Length(r) = N
  BY RingIs
<1>2. CASE hits = {}
  <2>1. Find(r, delimiters) = N
    BY <1>1, <1>2 DEF Find
  <2> QED
    BY <2>1
<1>3. CASE hits # {}
  <2> DEFINE f == CHOOSE i \in hits : \A j \in hits : i <= j
  <2>1. Find(r, delimiters) = f
    BY <1>3 DEF Find
  <2>2. f \in hits /\ \A j \in hits : f <= j
    <3>1. hits \subseteq Nat
      BY <1>1
    <3> HIDE DEF hits
    <3> QED
      BY <1>3, <3>1, LeastElement
  <2> HIDE DEF f
  <2>3. f \in 0..D - 1 /\ At(r, f) \in delimiters
    BY <2>2
  <2> HIDE DEF D
  <2>4. f \in 0..N /\ f < D
    BY <1>1, <2>3
  <2>5. ASSUME NEW j \in 0..f - 1
        PROVE  At(r, j) \notin delimiters
    <3>1. j \in 0..D - 1 /\ ~(f <= j)
      BY <1>1, <2>3
    <3>2. j \notin hits
      BY <2>2, <3>1
    <3> QED
      BY <3>1, <3>2 DEF D
  <2> QED
    BY <2>1, <2>3, <2>4, <2>5 DEF D
<1> QED
  BY <1>2, <1>3

\* extract leaves a ring a ring, whatever find returned earlier.
LEMMA ExtractIn ==
  ASSUME NEW N \in Nat \ {0}, NEW S, NEW r \in Rings(N, S), NEW f \in 0..N
  PROVE  Extract(r, f) \in Rings(N, S)
<1>1. Length(r) = N /\ r.head \in 0..N - 1
  BY RingIs
<1>2. CASE f = N
  BY <1>1, <1>2 DEF Extract
<1>3. CASE f # N
  <2>1. (r.head + (f + 1)) % N \in 0..N - 1
    <3> DEFINE x == r.head + (f + 1)
    <3>1. x \in Nat
      BY <1>1
    <3> HIDE DEF x
    <3>2. x % N \in 0..N - 1
      BY <3>1
    <3> QED
      BY <3>2 DEF x
  <2>2. Extract(r, f) = [r EXCEPT !.head = (r.head + (f + 1)) % N]
    BY <1>1, <1>3 DEF Extract, Skip
  <2> QED
    BY <2>1, <2>2 DEF Rings
<1> QED
  BY <1>2, <1>3

\* A tail moved by any amount stays in the ring.
LEMMA CommittedIn ==
  ASSUME NEW N \in Nat \ {0}, NEW S, NEW r \in Rings(N, S), NEW n \in Nat
  PROVE  Committed(r, n) \in Rings(N, S)
<1>1. Length(r) = N /\ r.tail \in 0..N - 1
  BY RingIs
<1> DEFINE x == r.tail + n
<1>2. Committed(r, n) = [r EXCEPT !.tail = x % N]
  BY <1>1 DEF Committed
<1>3. x \in Nat
  BY <1>1
<1> HIDE DEF x
<1>4. x % N \in 0..N - 1
  BY <1>3
<1> QED
  BY <1>2, <1>4 DEF Rings

\* A ring that is cleared shows what is behind its tail.
LEMMA ClearShows ==
  ASSUME NEW N \in Nat \ {0}, NEW S, NEW r \in Rings(N, S), NEW i \in 0..N - 1,
         Size(r) + i <= N - 1
  PROVE  At(Clear(r), i) = At(r, Size(r) + i)
<1> DEFINE h == r.head
           t == r.tail
           D == Size(r)
           x == h + D
<1>1. /\ Length(r) = N /\ h \in 0..N - 1 /\ t \in 0..N - 1 /\ D \in 0..N - 1
      /\ D = IF h <= t THEN t - h ELSE t + N - h
  BY RingIs
<1>2. Skip(r, D) = [r EXCEPT !.head = x % N]
  BY <1>1 DEF Skip
<1>3. Clear(r) = [r EXCEPT !.head = t]
  BY DEF Clear
<1>4. \A j \in 0..N - 1 - D : At(Skip(r, D), j) = At(r, D + j)
  <2>1. Size(r) \in 0..Size(r)
    BY <1>1
  <2> QED
    BY <2>1, SkipIs
<1> HIDE DEF h, t, D
<1>5. x \in 0..2 * N - 1
  BY <1>1
<1>6. x % N = IF x < N THEN x ELSE x - N
  <2> HIDE DEF x
  <2> QED
    BY <1>5, Wraps
<1>7. x % N = t
  BY <1>1, <1>6
<1>8. i \in 0..N - 1 - D
  BY <1>1 DEF D
<1> QED
  BY <1>2, <1>3, <1>4, <1>7, <1>8 DEF D

-----------------------------------------------------------------------------
(* SerialWE2 *)

\* The two parts of InOrder.
LineEnds ==
  ~overflowed => \A j \in 1..Len(serialLine) :
                   serialLine[j] = Delim <=> j = Len(serialLine)

Consecutive ==
  ~timedOut =>
    /\ \A j \in 1..Len(chunk) : chunk[j] = wire + j
    /\ \A j \in 1..Size(serialTx) : At(serialTx, j - 1) = wire + Len(chunk) + j
    /\ wire + Len(chunk) + Size(serialTx) = serialSaid

ReceiveInv == SerialLineInv /\ LineEnds
SendInv    == BusyInv /\ Consecutive

\* The invariant has a part for each direction.
LEMMA SerialMeans ==
  /\ SerialInv <=> SerialTypeOK /\ ReceiveInv /\ SendInv
  /\ SerialInv' <=> SerialTypeOK' /\ ReceiveInv' /\ SendInv'
BY DEF SerialInv, InOrder, LineEnds, Consecutive, ReceiveInv, SendInv

\* Receiving leaves sending alone.
LEMMA SendUntouched ==
  ASSUME SendInv, UNCHANGED sendVars
  PROVE  SendInv'
BY DEF SendInv, BusyInv, Consecutive, sendVars

\* And sending leaves receiving alone.
LEMMA ReceiveUntouched ==
  ASSUME ReceiveInv, UNCHANGED receiveVars
  PROVE  ReceiveInv'
BY DEF ReceiveInv, SerialLineInv, LineEnds, receiveVars

\* The interrupt of a byte received.
LEMMA UartRecvKeeps ==
  ASSUME SerialSizes, SerialTypeOK, ReceiveInv, UartRecv
  PROVE  SerialTypeOK' /\ ReceiveInv' /\ UNCHANGED sendVars
<1>0. SerialRing \in Nat \ {0} /\ serialRx \in Rings(SerialRing, {Text, Delim})
  BY DEF SerialSizes, SerialTypeOK
<1>1. PICK c \in {Text, Delim} : serialRx' = PutChar(serialRx, c)
  BY DEF UartRecv
<1>2. /\ overflowed' = (overflowed \/ IsFull(serialRx))
      /\ UNCHANGED <<serialFound, serialLine, listening>> /\ UNCHANGED sendVars
  BY DEF UartRecv
<1>3. overflowed' <=> overflowed \/ IsFull(serialRx)
  BY <1>2
<1>4. /\ serialRx' \in Rings(SerialRing, {Text, Delim})
      /\ ~IsFull(serialRx) =>
           /\ Size(serialRx') = Size(serialRx) + 1
           /\ \A i \in 0..Size(serialRx) - 1 : At(serialRx', i) = At(serialRx, i)
  BY <1>0, <1>1, PutCharIs
<1>5. overflowed' \in BOOLEAN
  BY <1>2, Zenon
<1>6. SerialTypeOK'
  BY <1>2, <1>4, <1>5 DEF SerialTypeOK, sendVars
<1>7. SerialLineInv'
  <2> SUFFICES ASSUME listening, ~overflowed, ~IsFull(serialRx), serialFound # SerialRing
      PROVE  /\ serialFound < Size(serialRx') /\ At(serialRx', serialFound) = Delim
             /\ \A j \in 0..serialFound - 1 : At(serialRx', j) # Delim
    BY <1>2, <1>3 DEF SerialLineInv
  <2>1. /\ serialFound < Size(serialRx) /\ At(serialRx, serialFound) = Delim
        /\ \A j \in 0..serialFound - 1 : At(serialRx, j) # Delim
    BY DEF ReceiveInv, SerialLineInv
  <2>2. Size(serialRx) \in 0..SerialRing - 1 /\ serialFound \in 0..SerialRing
    BY <1>0, RingIs DEF SerialTypeOK
  <2>3. /\ serialFound \in 0..Size(serialRx) - 1
        /\ \A j \in 0..serialFound - 1 : j \in 0..Size(serialRx) - 1
    BY <1>0, <2>1, <2>2
  <2> QED
    BY <1>4, <2>1, <2>2, <2>3
<1>8. LineEnds'
  BY <1>2, <1>3 DEF ReceiveInv, LineEnds
<1> QED
  BY <1>2, <1>6, <1>7, <1>8 DEF ReceiveInv

LEMMA FindLineKeeps ==
  ASSUME SerialSizes, SerialTypeOK, ReceiveInv, SerialFindLine
  PROVE  SerialTypeOK' /\ ReceiveInv' /\ UNCHANGED sendVars
<1>0. SerialRing \in Nat \ {0} /\ serialRx \in Rings(SerialRing, {Text, Delim})
  BY DEF SerialSizes, SerialTypeOK
<1>1. /\ serialFound' = Find(serialRx, {Delim}) /\ listening' = TRUE
      /\ UNCHANGED <<serialRx, serialLine, overflowed>> /\ UNCHANGED sendVars
  BY DEF SerialFindLine
<1>2. /\ serialFound' \in 0..SerialRing
      /\ \/ serialFound' = SerialRing
         \/ /\ serialFound' < Size(serialRx) /\ At(serialRx, serialFound') \in {Delim}
            /\ \A j \in 0..serialFound' - 1 : At(serialRx, j) \notin {Delim}
  BY <1>0, <1>1, FindIs
<1>3. SerialTypeOK'
  BY <1>1, <1>2 DEF SerialTypeOK, sendVars
<1>4. SerialLineInv'
  BY <1>1, <1>2 DEF SerialLineInv
<1>5. LineEnds'
  BY <1>1 DEF ReceiveInv, LineEnds
<1> QED
  BY <1>1, <1>3, <1>4, <1>5 DEF ReceiveInv

LEMMA TakeLineKeeps ==
  ASSUME SerialSizes, SerialTypeOK, ReceiveInv, SerialTakeLine
  PROVE  SerialTypeOK' /\ ReceiveInv' /\ UNCHANGED sendVars
<1>0. /\ SerialRing \in Nat \ {0} /\ serialRx \in Rings(SerialRing, {Text, Delim})
      /\ serialFound \in 0..SerialRing
  BY DEF SerialSizes, SerialTypeOK
<1>1. /\ listening /\ listening' = FALSE
      /\ serialLine' = Extracted(serialRx, serialFound, SerialLineSize)
      /\ serialRx' = Extract(serialRx, serialFound)
      /\ UNCHANGED <<serialFound, overflowed>> /\ UNCHANGED sendVars
  BY DEF SerialTakeLine
<1>2. Length(serialRx) = SerialRing
  BY <1>0, RingIs
<1>3. serialRx' \in Rings(SerialRing, {Text, Delim})
  BY <1>0, <1>1, ExtractIn
<1>4. SerialTypeOK'
  BY <1>1, <1>3 DEF SerialTypeOK, sendVars
<1>5. SerialLineInv'
  BY <1>1 DEF SerialLineInv
<1>6. LineEnds'
  <2> SUFFICES ASSUME ~overflowed
      PROVE  \A j \in 1..Len(serialLine') :
               serialLine'[j] = Delim <=> j = Len(serialLine')
    BY <1>1 DEF LineEnds
  <2>1. CASE serialFound = SerialRing \/ SerialLineSize < serialFound
    <3>1. serialLine' = <<>>
      BY <1>1, <1>2, <2>1 DEF Extracted
    <3> QED
      BY <3>1
  <2>2. CASE ~(serialFound = SerialRing \/ SerialLineSize < serialFound)
    <3> DEFINE n == serialFound + 1
    <3>1. serialLine' = [j \in 1..n |-> At(serialRx, j - 1)]
      BY <1>1, <1>2, <2>2 DEF Extracted, First
    <3>2. /\ At(serialRx, serialFound) = Delim
          /\ \A j \in 0..serialFound - 1 : At(serialRx, j) # Delim
      BY <1>1, <2>2 DEF ReceiveInv, SerialLineInv
    <3>3. n \in Nat
      BY <1>0
    <3>4. Len(serialLine') = n
      <4> HIDE DEF n
      <4> QED
        BY <3>1, <3>3
    <3>5. ASSUME NEW j \in 1..n
          PROVE  serialLine'[j] = Delim <=> j = n
      <4>1. serialLine'[j] = At(serialRx, j - 1)
        BY <3>1
      <4>2. CASE j = n
        <5>1. j - 1 = serialFound
          BY <1>0, <4>2
        <5> QED
          BY <3>2, <4>1, <4>2, <5>1
      <4>3. CASE j # n
        <5>1. j - 1 \in 0..serialFound - 1
          BY <1>0, <4>3
        <5> QED
          BY <3>2, <4>1, <4>3, <5>1
      <4> QED
        BY <4>2, <4>3
    <3> QED
      BY <3>4, <3>5
  <2> QED
    BY <2>1, <2>2
<1> QED
  BY <1>1, <1>4, <1>5, <1>6 DEF ReceiveInv

\* The bytes of a ring are those that follow w.
Follow(r, w) == \A j \in 1..Size(r) : At(r, j - 1) = w + j

\* A transfer takes the next bytes of those that follow w.
LEMMA ChunkTaken ==
  ASSUME NEW N \in Nat \ {0}, NEW r \in Rings(N, Nat), NEW n \in Nat, NEW w \in Nat,
         Follow(r, w)
  PROVE  LET q == Get(r, n)
             c == Got(r, n)
         IN /\ q \in Rings(N, Nat) /\ c \in Seq(Nat) /\ Len(c) <= n /\ Len(c) \in Nat
            /\ \A j \in 1..Len(c) : c[j] = w + j
            /\ Follow(q, w + Len(c))
            /\ Len(c) + Size(q) = Size(r)
            /\ Size(q) \in Nat
<1> DEFINE q == Get(r, n)
           c == Got(r, n)
           D == Size(r)
           m == Len(c)
<1>1. /\ m \in 0..n /\ m <= D /\ q \in Rings(N, Nat) /\ Size(q) = D - m
      /\ \A i \in 0..D - m - 1 : At(q, i) = At(r, m + i)
      /\ c \in Seq(Nat)
      /\ \A j \in 1..m : c[j] = At(r, j - 1)
  BY GetIs
<1>2. D \in 0..N - 1
  BY RingIs
<1> HIDE DEF q, c
<1>3. \A j \in 1..D : At(r, j - 1) = w + j
  BY DEF Follow
<1> HIDE DEF D
<1>4. \A j \in 1..m : c[j] = w + j
  <2> TAKE j \in 1..m
  <2>1. j \in 1..D
    BY <1>1, <1>2
  <2> QED
    BY <1>1, <1>3, <2>1
<1>5. ASSUME NEW j \in 1..D - m
      PROVE  At(q, j - 1) = w + m + j
  <2>1. j - 1 \in 0..D - m - 1 /\ m + (j - 1) = (m + j) - 1 /\ m + j \in 1..D
    BY <1>1, <1>2
  <2>2. At(q, j - 1) = At(r, (m + j) - 1)
    BY <1>1, <2>1
  <2>3. At(r, (m + j) - 1) = w + (m + j)
    BY <1>3, <2>1
  <2> QED
    BY <2>1, <2>2, <2>3
<1>6. Follow(q, w + m)
  BY <1>1, <1>5 DEF Follow
<1> QED
  BY <1>1, <1>2, <1>4, <1>6 DEF q, c, D

\* Whatever the bytes, a transfer is one of Chunk bytes at most.
LEMMA ChunkTypes ==
  ASSUME NEW N \in Nat \ {0}, NEW r \in Rings(N, Nat), NEW n \in Nat
  PROVE  Get(r, n) \in Rings(N, Nat) /\ Got(r, n) \in Seq(Nat) /\ Len(Got(r, n)) <= n
<1>1. Get(r, n) \in Rings(N, Nat) /\ Got(r, n) \in Seq(Nat) /\ Len(Got(r, n)) \in 0..n
  BY GetIs
<1> QED
  BY <1>1

\* The next transfer, of n bytes at most, when w is the last byte of the one before.
LEMMA NextChunk ==
  ASSUME SerialTypeOK, SerialSizes, NEW n \in 0..Chunk,
         NEW w \in Nat,
         serialTx' = Get(serialTx, n), chunk' = Got(serialTx, n), wire' = w,
         UNCHANGED serialSaid,
         ~timedOut => /\ \A j \in 1..Size(serialTx) : At(serialTx, j - 1) = w + j
                      /\ w + Size(serialTx) = serialSaid,
         timedOut' = timedOut
  PROVE  /\ serialTx' \in Rings(SerialRing, Nat) /\ chunk' \in Seq(Nat) /\ Len(chunk') <= Chunk
         /\ Consecutive'
         /\ ~timedOut /\ IsEmpty(serialTx) => chunk' = <<>>
<1>0. /\ SerialRing \in Nat \ {0} /\ serialTx \in Rings(SerialRing, Nat)
      /\ n \in Nat /\ n <= Chunk /\ Chunk \in Nat
  BY DEF SerialSizes, SerialTypeOK
<1>1. serialTx' \in Rings(SerialRing, Nat) /\ chunk' \in Seq(Nat) /\ Len(chunk') <= n
  BY <1>0, ChunkTypes
<1>2. Len(chunk') \in Nat
  BY <1>1
<1>3. Len(chunk') <= Chunk
  BY <1>0, <1>1, <1>2
<1>4. ASSUME ~timedOut
      PROVE  /\ \A j \in 1..Len(chunk') : chunk'[j] = w + j
             /\ \A j \in 1..Size(serialTx') : At(serialTx', j - 1) = w + Len(chunk') + j
             /\ Len(chunk') + Size(serialTx') = Size(serialTx)
             /\ Size(serialTx') \in Nat
  <2>1. Follow(serialTx, w)
    BY <1>4 DEF Follow
  <2> DEFINE q == Get(serialTx, n)
             c == Got(serialTx, n)
  <2>2. /\ \A j \in 1..Len(c) : c[j] = w + j
        /\ Follow(q, w + Len(c))
        /\ Len(c) + Size(q) = Size(serialTx)
        /\ Size(q) \in Nat
    BY <1>0, <2>1, ChunkTaken, Zenon
  <2>3. serialTx' = q /\ chunk' = c
    OBVIOUS
  <2> HIDE DEF q, c
  <2> QED
    BY <2>2, <2>3 DEF Follow
<1>5. Consecutive'
  <2> SUFFICES ASSUME ~timedOut
      PROVE  /\ \A j \in 1..Len(chunk') : chunk'[j] = wire' + j
             /\ \A j \in 1..Size(serialTx') : At(serialTx', j - 1) = wire' + Len(chunk') + j
             /\ wire' + Len(chunk') + Size(serialTx') = serialSaid'
    BY DEF Consecutive
  <2>1. wire' + Len(chunk') + Size(serialTx') = serialSaid'
    <3>1. w + (Len(chunk') + Size(serialTx')) = serialSaid
      BY <1>4
    <3>2. Size(serialTx') \in Nat
      BY <1>4
    <3> QED
      BY <1>2, <3>1, <3>2
  <2> QED
    BY <1>4, <2>1
<1>6. ASSUME ~timedOut, IsEmpty(serialTx)
      PROVE  chunk' = <<>>
  <2>1. Size(serialTx) = 0
    BY <1>0, <1>6, RingIs
  <2>2. Len(chunk') + Size(serialTx') = 0 /\ Size(serialTx') \in Nat
    BY <1>4, <1>6, <2>1
  <2>3. Len(chunk') = 0
    BY <1>2, <2>2
  <2> QED
    BY <1>1, <2>3
<1> QED
  BY <1>1, <1>3, <1>5, <1>6

\* send_bytes takes the mutex.
LEMMA SendBeginKeeps ==
  ASSUME SerialSizes, SerialTypeOK, SendInv, SerialSendBegin
  PROVE  SerialTypeOK' /\ SendInv' /\ UNCHANGED receiveVars
<1>1. /\ left' \in Nat /\ serialAt' = "put" /\ UNCHANGED receiveVars
      /\ UNCHANGED <<serialTx, busy, running, chunk, wire, serialSaid, timedOut>>
  BY DEF SerialSendBegin, SerialSizes
<1> QED
  BY <1>1 DEF SerialTypeOK, SendInv, BusyInv, Consecutive, receiveVars

\* The bytes accepted follow those that are there.
LEMMA FillRingKeeps ==
  ASSUME SerialSizes, SerialTypeOK, SendInv, FillRing
  PROVE  SerialTypeOK' /\ SendInv' /\ UNCHANGED receiveVars
<1> DEFINE s == [j \in 1..left |-> serialSaid + j]
           n == Accepted(serialTx, s)
           D == Size(serialTx)
           k == Len(chunk)
<1>0. /\ SerialRing \in Nat \ {0} /\ serialTx \in Rings(SerialRing, Nat)
      /\ left \in Nat /\ serialSaid \in Nat /\ wire \in Nat /\ chunk \in Seq(Nat)
  BY DEF SerialSizes, SerialTypeOK
<1>1. /\ serialTx' = Put(serialTx, s) /\ left' = left - n /\ serialSaid' = serialSaid + n
      /\ serialAt' = "start" /\ UNCHANGED receiveVars
      /\ UNCHANGED <<busy, running, chunk, wire, timedOut>>
  BY DEF FillRing
<1>2. s \in Seq(Nat) /\ Len(s) = left
  BY <1>0
<1> HIDE DEF s, n
<1>3. /\ n \in 0..Len(s)
      /\ serialTx' \in Rings(SerialRing, Nat)
      /\ Size(serialTx') = D + n
      /\ \A i \in 0..D - 1 : At(serialTx', i) = At(serialTx, i)
      /\ \A j \in 0..n - 1 : At(serialTx', D + j) = s[j + 1]
  <2>1. ASSUME NEW S, S = Nat
        PROVE  /\ n \in 0..Len(s)
               /\ Put(serialTx, s) \in Rings(SerialRing, S)
               /\ Size(Put(serialTx, s)) = D + n
               /\ \A i \in 0..D - 1 : At(Put(serialTx, s), i) = At(serialTx, i)
               /\ \A j \in 0..n - 1 : At(Put(serialTx, s), D + j) = s[j + 1]
    <3>1. serialTx \in Rings(SerialRing, S) /\ s \in Seq(S)
      BY <1>0, <1>2, <2>1
    <3> QED
      BY <1>0, <3>1, PutIs DEF n
  <2> QED
    BY <1>1, <2>1
<1>4. n \in 0..left /\ D \in Nat /\ k \in Nat
  BY <1>0, <1>2, <1>3, RingIs
<1>5. SerialTypeOK'
  <2>1. left' \in Nat /\ serialSaid' \in Nat
    BY <1>0, <1>1, <1>4
  <2> QED
    BY <1>1, <1>3, <2>1 DEF SerialTypeOK, receiveVars
<1> HIDE DEF D
<1>6. Consecutive'
  <2> SUFFICES ASSUME ~timedOut
      PROVE  /\ \A j \in 1..k : chunk[j] = wire + j
             /\ \A j \in 1..Size(serialTx') : At(serialTx', j - 1) = wire + k + j
             /\ wire + k + Size(serialTx') = serialSaid'
    BY <1>1 DEF Consecutive
  <2>1. /\ \A j \in 1..k : chunk[j] = wire + j
        /\ \A j \in 1..D : At(serialTx, j - 1) = wire + k + j
        /\ wire + k + D = serialSaid
    BY DEF SendInv, Consecutive, D
  <2> HIDE DEF k
  <2>2. wire + k + Size(serialTx') = serialSaid'
    BY <1>0, <1>1, <1>3, <1>4, <2>1
  <2>3. ASSUME NEW j \in 1..D + n
        PROVE  At(serialTx', j - 1) = wire + k + j
    <3>1. CASE j <= D
      <4>1. j \in 1..D /\ j - 1 \in 0..D - 1
        BY <1>4, <3>1
      <4> QED
        BY <1>3, <2>1, <4>1
    <3>2. CASE ~(j <= D)
      <4> DEFINE i == j - 1 - D
      <4>1. i \in 0..n - 1 /\ D + i = j - 1 /\ i + 1 \in 1..left /\ i + 1 = j - D
        BY <1>2, <1>3, <1>4, <3>2
      <4>2. At(serialTx', D + i) = s[i + 1]
        BY <1>3, <4>1
      <4>3. s[i + 1] = serialSaid + (i + 1)
        BY <4>1 DEF s
      <4> QED
        BY <1>0, <1>4, <2>1, <4>1, <4>2, <4>3
    <3> QED
      BY <3>1, <3>2
  <2> QED
    BY <1>3, <2>1, <2>2, <2>3
<1>7. BusyInv'
  BY <1>1 DEF SendInv, BusyInv
<1> QED
  BY <1>1, <1>5, <1>6, <1>7 DEF SendInv

\* A transfer is started when none runs: what the ring holds follows what went out.
LEMMA StartIfIdleKeeps ==
  ASSUME SerialSizes, SerialTypeOK, SendInv, StartIfIdle
  PROVE  SerialTypeOK' /\ SendInv' /\ UNCHANGED receiveVars
<1>0. /\ serialAt' = "check" /\ UNCHANGED receiveVars
      /\ UNCHANGED <<wire, left, serialSaid, timedOut>>
  BY DEF StartIfIdle
<1>1. CASE busy
  <2>1. UNCHANGED <<serialTx, busy, running, chunk>>
    BY <1>1 DEF StartIfIdle
  <2> QED
    BY <1>0, <2>1 DEF SerialTypeOK, SendInv, BusyInv, Consecutive, receiveVars
<1>2. CASE ~busy
  <2> DEFINE n == IF Size(serialTx) < Chunk THEN Size(serialTx) ELSE Chunk
  <2>0. serialTx \in Rings(SerialRing, Nat) /\ SerialRing \in Nat \ {0} /\ Chunk \in Nat
    BY DEF SerialSizes, SerialTypeOK
  <2>1. busy' = TRUE /\ running' = TRUE
        /\ serialTx' = Get(serialTx, n) /\ chunk' = Got(serialTx, n)
    BY <1>2 DEF StartIfIdle, StartTransfer
  <2>2. n \in 0..Chunk
    <3>1. Size(serialTx) \in Nat
      BY <2>0, RingIs
    <3> QED
      BY <2>0, <3>1
  <2>3. ASSUME ~timedOut
        PROVE  /\ \A j \in 1..Size(serialTx) : At(serialTx, j - 1) = wire + j
               /\ wire + Size(serialTx) = serialSaid
    <3>1. Len(chunk) = 0
      BY <1>2, <2>3 DEF SendInv, BusyInv
    <3>2. wire \in Nat
      BY DEF SerialTypeOK
    <3>3. wire + Len(chunk) = wire
      BY <3>1, <3>2
    <3> QED
      BY <2>3, <3>3 DEF SendInv, Consecutive
  <2>4. wire \in Nat
    BY DEF SerialTypeOK
  <2> HIDE DEF n
  <2>5. /\ serialTx' \in Rings(SerialRing, Nat) /\ chunk' \in Seq(Nat) /\ Len(chunk') <= Chunk
        /\ Consecutive'
    BY <1>0, <2>1, <2>2, <2>3, <2>4, NextChunk
  <2>6. SerialTypeOK'
    BY <1>0, <2>1, <2>5 DEF SerialTypeOK, receiveVars
  <2>7. BusyInv'
    BY <2>1 DEF BusyInv
  <2> QED
    BY <1>0, <2>5, <2>6, <2>7 DEF SendInv
<1> QED
  BY <1>1, <1>2

\* A send goes on, or ends.
LEMMA CheckTimeKeeps ==
  ASSUME SerialSizes, SerialTypeOK, SendInv, CheckTime
  PROVE  SerialTypeOK' /\ SendInv' /\ UNCHANGED receiveVars
<1>1. /\ serialAt' \in {"idle", "put"} /\ UNCHANGED receiveVars
      /\ UNCHANGED <<serialTx, running, chunk, wire, left, serialSaid>>
  BY DEF CheckTime
<1>2. \/ busy' = FALSE /\ timedOut' = (timedOut \/ running)
      \/ UNCHANGED <<busy, timedOut>>
  BY DEF CheckTime
<1>3. busy' \in BOOLEAN /\ timedOut' \in BOOLEAN /\ (timedOut => timedOut')
  BY <1>2, Zenon DEF SerialTypeOK
<1>4. SerialTypeOK'
  BY <1>1, <1>3 DEF SerialTypeOK, receiveVars
<1>5. Consecutive'
  BY <1>1, <1>3 DEF SendInv, Consecutive
<1>6. BusyInv'
  <2>1. CASE UNCHANGED <<busy, timedOut>>
    BY <1>1, <2>1 DEF SendInv, BusyInv
  <2>2. CASE busy' = FALSE /\ timedOut' = (timedOut \/ running)
    BY <1>1, <2>2 DEF SendInv, BusyInv
  <2> QED
    BY <1>2, <2>1, <2>2
<1> QED
  BY <1>1, <1>4, <1>5, <1>6 DEF SendInv

\* The interrupt at the end of a transfer.
LEMMA TransferEndKeeps ==
  ASSUME SerialSizes, SerialTypeOK, SendInv, TransferEnd
  PROVE  SerialTypeOK' /\ SendInv' /\ UNCHANGED receiveVars
<1> DEFINE w == IF chunk = <<>> THEN wire ELSE chunk[Len(chunk)]
<1>0. /\ running /\ wire' = w
      /\ busy' = (~IsEmpty(serialTx)) /\ running' = (~IsEmpty(serialTx))
      /\ serialTx' = Get(serialTx, Chunk) /\ chunk' = Got(serialTx, Chunk)
      /\ UNCHANGED receiveVars /\ UNCHANGED <<serialAt, left, serialSaid, timedOut>>
  BY DEF TransferEnd
<1>1. (busy' <=> ~IsEmpty(serialTx)) /\ (running' <=> ~IsEmpty(serialTx))
  BY <1>0, Zenon
<1>2. busy' \in BOOLEAN /\ running' \in BOOLEAN
  BY <1>0, Zenon
<1>3. wire \in Nat /\ chunk \in Seq(Nat) /\ Len(chunk) \in Nat /\ Chunk \in 0..Chunk
  BY DEF SerialSizes, SerialTypeOK
<1>4. w \in Nat
  <2>1. CASE chunk = <<>>
    BY <1>3, <2>1
  <2>2. CASE chunk # <<>>
    <3>1. Len(chunk) \in 1..Len(chunk)
      BY <1>3, <2>2
    <3> QED
      BY <1>3, <2>2, <3>1
  <2> QED
    BY <2>1, <2>2
<1>5. ASSUME ~timedOut
      PROVE  w = wire + Len(chunk)
  <2>1. CASE chunk = <<>>
    BY <1>3, <2>1
  <2>2. CASE chunk # <<>>
    <3>1. Len(chunk) \in 1..Len(chunk)
      BY <1>3, <2>2
    <3> QED
      BY <1>5, <2>2, <3>1 DEF SendInv, Consecutive
  <2> QED
    BY <2>1, <2>2
<1> HIDE DEF w
<1>6. ASSUME ~timedOut
      PROVE  /\ \A j \in 1..Size(serialTx) : At(serialTx, j - 1) = w + j
             /\ w + Size(serialTx) = serialSaid
  BY <1>5, <1>6 DEF SendInv, Consecutive
<1>7. /\ serialTx' \in Rings(SerialRing, Nat) /\ chunk' \in Seq(Nat) /\ Len(chunk') <= Chunk
      /\ Consecutive'
      /\ ~timedOut /\ IsEmpty(serialTx) => chunk' = <<>>
  BY <1>0, <1>3, <1>4, <1>6, NextChunk
<1>8. SerialTypeOK'
  <2>1. wire' \in Nat
    BY <1>0, <1>4
  <2> QED
    BY <1>0, <1>2, <1>7, <2>1 DEF SerialTypeOK, receiveVars
<1>9. BusyInv'
  BY <1>0, <1>1, <1>7 DEF BusyInv
<1> QED
  BY <1>0, <1>7, <1>8, <1>9 DEF SendInv

\* Whatever the sizes of the ring, of a transfer and of what is sent, every behaviour
\* keeps the invariant.
THEOREM SerialInductive ==
  ASSUME SerialSizes
  PROVE  SerialSpec => []SerialInv
<1>1. SerialInit => SerialInv
  <2> SUFFICES ASSUME SerialInit
      PROVE  SerialTypeOK /\ ReceiveInv /\ SendInv
    BY SerialMeans
  <2>1. SerialRing \in Nat \ {0} /\ Chunk \in Nat
    BY DEF SerialSizes
  <2>2. /\ serialRx = Ring(SerialRing, Text) /\ serialTx = Ring(SerialRing, 0)
        /\ serialFound = 0 /\ serialLine = <<>> /\ listening = FALSE
        /\ busy = FALSE /\ running = FALSE /\ chunk = <<>> /\ wire = 0 /\ serialAt = "idle"
        /\ left = 0 /\ serialSaid = 0 /\ overflowed = FALSE /\ timedOut = FALSE
    BY DEF SerialInit
  <2>3. serialRx \in Rings(SerialRing, {Text, Delim})
    BY <2>1, <2>2, RingMade
  <2>4. serialTx \in Rings(SerialRing, Nat) /\ Size(serialTx) = 0
    BY <2>1, <2>2, RingMade
  <2>5. SerialTypeOK
    <3>1. chunk \in Seq(Nat) /\ Len(chunk) = 0
      BY <2>2
    <3>2. Len(chunk) <= Chunk /\ serialFound \in 0..SerialRing
      BY <2>1, <2>2, <3>1
    <3> QED
      BY <2>2, <2>3, <2>4, <3>1, <3>2 DEF SerialTypeOK
  <2>6. ReceiveInv
    BY <2>2 DEF ReceiveInv, SerialLineInv, LineEnds
  <2>7. SendInv
    BY <2>2, <2>4 DEF SendInv, BusyInv, Consecutive
  <2> QED
    BY <2>5, <2>6, <2>7
<1>2. SerialInv /\ [SerialNext]_serialVars => SerialInv'
  <2> SUFFICES ASSUME SerialTypeOK, ReceiveInv, SendInv, [SerialNext]_serialVars
      PROVE  SerialTypeOK' /\ ReceiveInv' /\ SendInv'
    BY SerialMeans
  <2>1. CASE UartRecv
    BY <2>1, UartRecvKeeps, SendUntouched
  <2>2. CASE SerialFindLine
    BY <2>2, FindLineKeeps, SendUntouched
  <2>3. CASE SerialTakeLine
    BY <2>3, TakeLineKeeps, SendUntouched
  <2>4. CASE SerialSendBegin
    BY <2>4, SendBeginKeeps, ReceiveUntouched
  <2>5. CASE FillRing
    BY <2>5, FillRingKeeps, ReceiveUntouched
  <2>6. CASE StartIfIdle
    BY <2>6, StartIfIdleKeeps, ReceiveUntouched
  <2>7. CASE CheckTime
    BY <2>7, CheckTimeKeeps, ReceiveUntouched
  <2>8. CASE TransferEnd
    BY <2>8, TransferEndKeeps, ReceiveUntouched
  <2>9. CASE UNCHANGED serialVars
    <3>1. UNCHANGED receiveVars /\ UNCHANGED sendVars
      BY <2>9 DEF serialVars
    <3>2. SerialTypeOK'
      BY <3>1 DEF SerialTypeOK, receiveVars, sendVars
    <3> QED
      BY <3>1, <3>2, SendUntouched, ReceiveUntouched
  <2> QED
    BY <2>1, <2>2, <2>3, <2>4, <2>5, <2>6, <2>7, <2>8, <2>9 DEF SerialNext
<1> QED
  BY <1>1, <1>2, PTL DEF SerialSpec

\* The serial ports send what they accept in order, each byte once, unless a send times
\* out while a transfer runs, and get_line returns one whole line, unless the ring
\* overflows.  For every size of the ring, of a transfer and of the listener's buffer.
THEOREM SerialRight ==
  ASSUME SerialSizes
  PROVE  SerialSpec => []InOrder
<1>1. SerialInv => InOrder
  BY DEF SerialInv
<1> QED
  BY <1>1, SerialInductive, PTL

-----------------------------------------------------------------------------
(* SlavePort *)

LEMMA TheOther ==
  ASSUME NEW t \in Tasks
  PROVE  Other(t) \in Tasks /\ Other(t) # t /\ \A u \in Tasks : u = t \/ u = Other(t)
<1>1. "listener" # "worker"
  OBVIOUS
<1>2. \E u \in Tasks : u # t
  BY <1>1 DEF Tasks
<1>3. Other(t) \in Tasks /\ Other(t) # t
  BY <1>2 DEF Other
<1> QED
  BY <1>3 DEF Tasks

\* What the host writes in one frame.
LEMMA FrameIs ==
  ASSUME PortTypeOK,
         NEW s \in {<<Byte(epoch, FALSE)>>, <<Byte(epoch, TRUE)>>,
                    <<Byte(epoch, FALSE), Byte(epoch, TRUE)>>}
  PROVE  s \in Seq(Bytes) /\ \A j \in 1..Len(s) : s[j].epoch = epoch
<1>1. Byte(epoch, FALSE) \in Bytes /\ Byte(epoch, TRUE) \in Bytes
  BY DEF PortTypeOK, Byte, Bytes
<1>2. Byte(epoch, FALSE).epoch = epoch /\ Byte(epoch, TRUE).epoch = epoch
  BY DEF Byte
<1>3. ASSUME NEW b \in Bytes, NEW c \in Bytes, b.epoch = epoch, c.epoch = epoch
      PROVE  /\ <<b>> \in Seq(Bytes) /\ \A j \in 1..Len(<<b>>) : <<b>>[j].epoch = epoch
             /\ <<b, c>> \in Seq(Bytes) /\ \A j \in 1..Len(<<b, c>>) : <<b, c>>[j].epoch = epoch
  BY <1>3
<1>4. CASE s = <<Byte(epoch, FALSE)>>
  BY <1>1, <1>2, <1>3, <1>4, Zenon
<1>5. CASE s = <<Byte(epoch, TRUE)>>
  BY <1>1, <1>2, <1>3, <1>5, Zenon
<1>6. CASE s = <<Byte(epoch, FALSE), Byte(epoch, TRUE)>>
  BY <1>1, <1>2, <1>3, <1>6, Zenon
<1> QED
  BY <1>4, <1>5, <1>6

\* Every step keeps the types.
LEMMA PortTypes ==
  ASSUME PortSizes, PortTypeOK, [PortNext]_portVars
  PROVE  PortTypeOK'
<1>0. /\ PortRing \in Nat \ {0} /\ PortLineSize \in Nat /\ ReplySizes \subseteq Nat
      /\ portRx \in Rings(PortRing, Bytes) /\ portTx \in Rings(PortRing, Nat)
      /\ "read" \in {"read", "write"} /\ "write" \in {"read", "write"}
  BY DEF PortSizes, PortTypeOK
<1>1. CASE FrameWrite
  <2>1. PICK s \in {<<Byte(epoch, FALSE)>>, <<Byte(epoch, TRUE)>>,
                    <<Byte(epoch, FALSE), Byte(epoch, TRUE)>>} : portRx' = Put(portRx, s)
    BY <1>1 DEF FrameWrite
  <2>3. s \in Seq(Bytes)
    BY FrameIs
  <2>4. portRx' \in Rings(PortRing, Bytes)
    BY <1>0, <2>1, <2>3, PutIs
  <2> QED
    BY <1>0, <1>1, <2>4 DEF FrameWrite, ReadEnable, PortTypeOK, portTaskVars
<1>2. CASE FrameRead
  <2>1. PICK n \in 1..PortRing : portTx' = Get(portTx, n)
    BY <1>2 DEF FrameRead
  <2>2. n \in Nat
    BY <1>0
  <2>3. portTx' \in Rings(PortRing, Nat)
    BY <1>0, <2>1, <2>2, GetIs
  <2>4. timer' = (bus = "i2c")
    BY <1>2 DEF FrameRead, WriteEnable
  <2>5. timer' \in BOOLEAN
    BY <2>4, Zenon
  <2> QED
    BY <1>0, <1>2, <2>3, <2>5 DEF FrameRead, WriteEnable, PortTypeOK, portTaskVars, portHistory
<1>3. CASE FrameAvailable
  <2>4. timer' = (bus = "i2c")
    BY <1>3 DEF FrameAvailable, WriteEnable
  <2>5. timer' \in BOOLEAN
    BY <2>4, Zenon
  <2> QED
    BY <1>0, <1>3, <2>5 DEF FrameAvailable, WriteEnable, PortTypeOK, portTaskVars, portHistory
<1>4. CASE FrameReset
  <2>1. portRx' \in Rings(PortRing, Bytes) /\ portTx' \in Rings(PortRing, Nat)
    BY <1>0, <1>4, ClearIs DEF FrameReset, ClearRx
  <2>2. raced' = (raced \/ portAt["listener"] = "found")
    BY <1>4 DEF FrameReset
  <2>3. raced' \in BOOLEAN
    BY <2>2, Zenon
  <2>4. epoch' \in 0..1
    BY <1>4 DEF FrameReset, PortTypeOK
  <2> QED
    BY <1>0, <1>4, <2>1, <2>3, <2>4 DEF FrameReset, ReadEnable, PortTypeOK, portTaskVars
<1>5. CASE SpiSent
  <2>1. pin' = (pin /\ ~IsEmpty(portTx))
    BY <1>5 DEF SpiSent
  <2>2. pin' \in BOOLEAN
    BY <2>1, Zenon
  <2> QED
    BY <1>0, <1>5, <2>2 DEF SpiSent, ReadEnable, PortTypeOK, portTaskVars, portHistory
<1>6. CASE I2cSent
  BY <1>0, <1>6 DEF I2cSent, PortTypeOK, portTaskVars, portHistory
<1>7. CASE I2cError
  <2>1. failed' = (failed \/ timer)
    BY <1>7 DEF I2cError
  <2>2. failed' \in BOOLEAN
    BY <2>1, Zenon
  <2> QED
    BY <1>0, <1>7, <2>2 DEF I2cError, ReadEnable, PortTypeOK, portTaskVars
<1>8. CASE TimerExpires
  <2>1. Blank \in Bytes
    BY DEF Blank, Byte, Bytes
  <2>2. portRx' \in Rings(PortRing, Bytes) /\ portTx' \in Rings(PortRing, Nat)
    BY <1>0, <1>8, <2>1, RingMade DEF TimerExpires
  <2>3. portAt' \in [Tasks -> Places] /\ size' \in [Tasks -> Nat] /\ portFound' \in 0..PortRing
    BY <1>0, <1>8 DEF TimerExpires, Places
  <2> QED
    BY <1>0, <1>8, <2>2, <2>3 DEF TimerExpires, PortTypeOK
<1>9. CASE PortFindLine
  <2>1. portFound' \in 0..PortRing
    BY <1>0, <1>9, FindIs DEF PortFindLine
  <2>2. portAt' \in [Tasks -> Places]
    BY <1>9 DEF PortFindLine, PortTypeOK, Places
  <2> QED
    BY <1>9, <2>1, <2>2 DEF PortFindLine, PortTypeOK, driverVars, portHistory
<1>10. CASE PortTakeLine
  <2>1. portRx' \in Rings(PortRing, Bytes)
    BY <1>0, <1>10, ExtractIn DEF PortTakeLine, PortTypeOK
  <2>2. portAt' \in [Tasks -> Places]
    BY <1>10 DEF PortTakeLine, PortTypeOK, Places
  <2> QED
    BY <1>10, <2>1, <2>2 DEF PortTakeLine, PortTypeOK, portHistory
<1>11. ASSUME NEW t \in Tasks, Send(t)
       PROVE  PortTypeOK'
  <2>0. portAt' \in [Tasks -> Places]
    BY <1>11 DEF Send, PortSendBegin, SpiRoom, SpiGiveUp, SpiLower, CopyReply, CommitReply,
                 RaisePin,
                 PortTypeOK, Places
  <2>1. CASE PortSendBegin(t)
    <3>1. size' \in [Tasks -> Nat]
      BY <1>0, <2>1 DEF PortSendBegin, PortTypeOK
    <3>2. overlapped' = (overlapped \/ Sending(Other(t)))
      BY <2>1 DEF PortSendBegin
    <3>3. overlapped' \in BOOLEAN
      BY <3>2, Zenon
    <3> QED
      BY <2>0, <2>1, <3>1, <3>3 DEF PortSendBegin, PortTypeOK, driverVars
  <2>2. CASE SpiRoom(t)
    BY <2>0, <2>2 DEF SpiRoom, PortTypeOK, driverVars, portHistory
  <2>3. CASE SpiGiveUp(t)
    <3>1. portTx' \in Rings(PortRing, Nat)
      BY <1>0, <2>3, ClearIs DEF SpiGiveUp
    <3> QED
      BY <2>0, <2>3, <3>1 DEF SpiGiveUp, PortTypeOK, portHistory
  <2>4. CASE SpiLower(t)
    BY <2>0, <2>4 DEF SpiLower, PortTypeOK, portHistory
  <2>5. CASE CopyReply(t)
    <3> DEFINE s == Reply(t)
               n == Accepted(portTx, s)
    <3>1. s \in Seq(Nat) /\ Len(s) = size[t] /\ size[t] \in Nat
      BY DEF PortTypeOK, Reply
    <3>2. Free(portTx) \in Nat
      <4>1. Size(portTx) \in 0..PortRing - 1 /\ Free(portTx) = PortRing - 1 - Size(portTx)
        BY <1>0, RingIs
      <4> QED
        BY <1>0, <4>1
    <3>3. n \in 0..Free(portTx) /\ n <= Len(s) /\ n \in Nat
      BY <3>1, <3>2 DEF Accepted
    <3>4. /\ portTx' = Copied(portTx, s, n) /\ portSaid' = portSaid + size[t]
          /\ size' = [size EXCEPT ![t] = n]
          /\ cut' = (cut \/ (bus = "i2c" /\ n < size[t]))
      BY <2>5 DEF CopyReply
    <3> HIDE DEF s, n
    <3>5. portTx' \in Rings(PortRing, Nat)
      <4>1. ASSUME NEW S, S = Nat
            PROVE  Copied(portTx, s, n) \in Rings(PortRing, S)
        <5>1. portTx \in Rings(PortRing, S) /\ s \in Seq(S)
          BY <1>0, <3>1, <4>1
        <5> QED
          BY <1>0, <3>3, <5>1, CopiedIs
      <4> QED
        BY <3>4, <4>1
    <3>6. portSaid' \in Nat /\ size' \in [Tasks -> Nat]
      BY <3>1, <3>3, <3>4 DEF PortTypeOK
    <3>7. cut' \in BOOLEAN
      BY <3>4, Zenon
    <3> QED
      BY <2>0, <2>5, <3>5, <3>6, <3>7 DEF CopyReply, PortTypeOK
  <2>6. CASE CommitReply(t)
    <3>1. size[t] \in Nat
      BY DEF PortTypeOK
    <3>2. portTx' \in Rings(PortRing, Nat)
      BY <1>0, <2>6, <3>1, CommittedIn DEF CommitReply
    <3> QED
      BY <2>0, <2>6, <3>2 DEF CommitReply, PortTypeOK, portHistory
  <2>7. CASE RaisePin(t)
    BY <2>0, <2>7 DEF RaisePin, PortTypeOK, portHistory
  <2> QED
    BY <1>11, <2>1, <2>2, <2>3, <2>4, <2>5, <2>6, <2>7 DEF Send
<1>12. CASE UNCHANGED portVars
  BY <1>12 DEF portVars, driverVars, portTaskVars, portHistory, PortTypeOK
<1> QED
  BY <1>1, <1>2, <1>3, <1>4, <1>5, <1>6, <1>7, <1>8, <1>9, <1>10, <1>11, <1>12
     DEF PortNext, PortInterrupt

\* A step that leaves what the listener uses alone.
LEMMA LinesUntouched ==
  ASSUME OneLine, PortLineInv, UNCHANGED <<portRx, portFound, portLine, epoch, raced>>,
         portAt'["listener"] = "found" => portAt["listener"] = "found"
  PROVE  OneLine' /\ PortLineInv'
BY DEF OneLine, PortLineInv

\* What the host writes comes behind what is there.
LEMMA WriteKeepsLines ==
  ASSUME PortSizes, PortTypeOK, OneLine, PortLineInv, FrameWrite
  PROVE  OneLine' /\ PortLineInv'
<1> DEFINE D == Size(portRx)
<1>1. PortRing \in Nat \ {0} /\ portRx \in Rings(PortRing, Bytes) /\ portFound \in 0..PortRing
  BY DEF PortSizes, PortTypeOK
<1>2. PICK s \in {<<Byte(epoch, FALSE)>>, <<Byte(epoch, TRUE)>>,
                  <<Byte(epoch, FALSE), Byte(epoch, TRUE)>>} : portRx' = Put(portRx, s)
  BY DEF FrameWrite
<1>3. UNCHANGED <<portAt, portFound, portLine, epoch, raced>>
  BY DEF FrameWrite, portTaskVars
<1>4. s \in Seq(Bytes) /\ \A j \in 1..Len(s) : s[j].epoch = epoch
  BY FrameIs
<1> DEFINE n == Accepted(portRx, s)
<1>5. /\ n \in 0..Len(s)
      /\ Size(portRx') = D + n
      /\ \A i \in 0..D - 1 : At(portRx', i) = At(portRx, i)
      /\ \A j \in 0..n - 1 : At(portRx', D + j) = s[j + 1]
  BY <1>1, <1>2, <1>4, PutIs
<1>6. D \in Nat /\ Len(s) \in Nat
  <2>1. Size(portRx) \in 0..PortRing - 1
    BY <1>1, RingIs
  <2> QED
    BY <1>1, <1>4, <2>1
<1> HIDE DEF n, D
<1>7. OneLine'
  <2> SUFFICES ASSUME ~raced, NEW i \in 1..Size(portRx')
      PROVE  At(portRx', i - 1).epoch = epoch
    BY <1>3 DEF OneLine
  <2>1. CASE i <= D
    <3>1. i \in 1..D /\ i - 1 \in 0..D - 1
      BY <1>5, <1>6, <2>1
    <3> QED
      BY <1>5, <3>1 DEF OneLine, D
  <2>2. CASE ~(i <= D)
    <3> DEFINE j == i - 1 - D
    <3>1. j \in 0..n - 1 /\ D + j = i - 1 /\ j + 1 \in 1..Len(s)
      BY <1>5, <1>6, <2>2
    <3> HIDE DEF j
    <3>2. At(portRx', i - 1) = s[j + 1]
      BY <1>5, <3>1
    <3> QED
      BY <1>4, <3>1, <3>2
  <2> QED
    BY <2>1, <2>2
<1>8. PortLineInv'
  <2> SUFFICES ASSUME ~raced, portAt["listener"] = "found", portFound # PortRing
      PROVE  /\ portFound < Size(portRx') /\ At(portRx', portFound).eol
             /\ \A j \in 0..portFound - 1 : ~At(portRx', j).eol
    BY <1>3 DEF PortLineInv
  <2>1. /\ portFound < D /\ At(portRx, portFound).eol
        /\ \A j \in 0..portFound - 1 : ~At(portRx, j).eol
    BY DEF PortLineInv, D
  <2>2. /\ portFound \in 0..D - 1 /\ portFound < D + n
        /\ \A j \in 0..portFound - 1 : j \in 0..D - 1
    BY <1>1, <1>5, <1>6, <2>1
  <2> QED
    BY <1>5, <2>1, <2>2
<1> QED
  BY <1>7, <1>8

\* A ring that is emptied holds nothing of an earlier reset.
LEMMA ResetKeepsLines ==
  ASSUME PortSizes, PortTypeOK, OneLine, PortLineInv, FrameReset
  PROVE  OneLine' /\ PortLineInv'
<1>1. PortRing \in Nat \ {0} /\ portRx \in Rings(PortRing, Bytes)
  BY DEF PortSizes, PortTypeOK
<1>2. /\ portRx' = Clear(portRx) /\ UNCHANGED <<portAt, portLine>>
      /\ raced' = (raced \/ portAt["listener"] = "found")
  BY DEF FrameReset, ClearRx, portTaskVars
<1>3. Size(portRx') = 0
  BY <1>1, <1>2, ClearIs
<1>4. ~raced' => ~raced /\ portAt["listener"] # "found"
  BY <1>2, Zenon
<1>5. OneLine'
  BY <1>2, <1>3, <1>4 DEF OneLine
<1>6. PortLineInv'
  BY <1>2, <1>4 DEF PortLineInv
<1> QED
  BY <1>5, <1>6

LEMMA RestartKeepsLines ==
  ASSUME PortSizes, PortTypeOK, TimerExpires
  PROVE  OneLine' /\ PortLineInv'
<1>1. PortRing \in Nat \ {0} /\ Blank \in Bytes
  BY DEF PortSizes, Blank, Byte, Bytes
<1>2. /\ portRx' = Ring(PortRing, Blank) /\ portLine' = <<>>
      /\ portAt' = [t \in Tasks |-> "idle"]
  BY DEF TimerExpires
<1>3. Size(portRx') = 0
  BY <1>1, <1>2, RingMade
<1>4. portAt'["listener"] # "found" /\ Len(portLine') = 0
  BY <1>2 DEF Tasks
<1> QED
  BY <1>3, <1>4 DEF OneLine, PortLineInv

LEMMA FindKeepsLines ==
  ASSUME PortSizes, PortTypeOK, OneLine, PortLineInv, PortFindLine
  PROVE  OneLine' /\ PortLineInv'
<1>1. PortRing \in Nat \ {0} /\ portRx \in Rings(PortRing, Bytes)
  BY DEF PortSizes, PortTypeOK
<1> DEFINE Eols == {Byte(e, TRUE) : e \in 0..1}
<1>2. portFound' = Find(portRx, Eols) /\ UNCHANGED <<portRx, portLine, epoch, raced>>
  BY DEF PortFindLine, driverVars, portHistory
<1>3. ASSUME NEW b \in Bytes
      PROVE  b \in Eols <=> b.eol
  BY DEF Bytes, Byte
<1> HIDE DEF Eols
<1>4. \/ portFound' = PortRing
      \/ /\ portFound' \in 0..Size(portRx) - 1 /\ portFound' < Size(portRx)
         /\ At(portRx, portFound') \in Eols
         /\ \A j \in 0..portFound' - 1 : At(portRx, j) \notin Eols
  BY <1>1, <1>2, FindIs
<1>5. ASSUME NEW i \in 0..Size(portRx) - 1
      PROVE  At(portRx, i) \in Bytes
  <2>1. Size(portRx) \in 0..PortRing - 1
    BY <1>1, RingIs
  <2>2. i \in 0..PortRing - 1
    BY <1>1, <2>1
  <2> QED
    BY <1>1, <2>2, AtIs
<1>6. Size(portRx) \in Nat
  <2>1. Size(portRx) \in 0..PortRing - 1
    BY <1>1, RingIs
  <2> QED
    BY <1>1, <2>1
<1>7. ASSUME portFound' # PortRing
      PROVE  /\ portFound' < Size(portRx') /\ At(portRx', portFound').eol
             /\ \A j \in 0..portFound' - 1 : ~At(portRx', j).eol
  <2>1. /\ portFound' \in 0..Size(portRx) - 1 /\ portFound' < Size(portRx)
        /\ At(portRx, portFound') \in Eols
        /\ \A j \in 0..portFound' - 1 : At(portRx, j) \notin Eols
    BY <1>4, <1>7
  <2>2. portFound' \in 0..Size(portRx) - 1
    BY <2>1
  <2>3. \A D \in Nat : \A f \in 0..D - 1 : \A j \in 0..f - 1 : j \in 0..D - 1
    OBVIOUS
  <2>4. \A j \in 0..portFound' - 1 : j \in 0..Size(portRx) - 1
    BY <1>6, <2>2, <2>3, Zenon
  <2> QED
    BY <1>2, <1>3, <1>5, <2>1, <2>2, <2>4
<1> QED
  BY <1>2, <1>7 DEF OneLine, PortLineInv

LEMMA TakeKeepsLines ==
  ASSUME PortSizes, PortTypeOK, OneLine, PortLineInv, PortTakeLine
  PROVE  OneLine' /\ PortLineInv'
<1> DEFINE n == portFound + 1
           D == Size(portRx)
<1>1. /\ PortRing \in Nat \ {0} /\ PortLineSize \in Nat
      /\ portRx \in Rings(PortRing, Bytes) /\ portFound \in 0..PortRing
  BY DEF PortSizes, PortTypeOK
<1>2. /\ portAt["listener"] = "found" /\ portAt' = [portAt EXCEPT !["listener"] = "idle"]
      /\ portLine' = Extracted(portRx, portFound, PortLineSize)
      /\ portRx' = Extract(portRx, portFound)
      /\ UNCHANGED <<portFound, epoch, raced>>
  BY DEF PortTakeLine, portHistory
<1>3. portAt'["listener"] # "found"
  BY <1>2 DEF PortTypeOK, Tasks
<1>4. Length(portRx) = PortRing /\ D \in 0..PortRing - 1
  BY <1>1, RingIs
<1>5. CASE raced
  BY <1>2, <1>3, <1>5 DEF OneLine, PortLineInv
<1>6. CASE ~raced /\ portFound = PortRing
  <2>1. portLine' = <<>> /\ portRx' = portRx
    BY <1>2, <1>4, <1>6 DEF Extracted, Extract
  <2> QED
    BY <1>2, <1>3, <2>1 DEF OneLine, PortLineInv
<1>7. CASE ~raced /\ portFound # PortRing
  <2>1. /\ portFound < D /\ At(portRx, portFound).eol
        /\ \A j \in 0..portFound - 1 : ~At(portRx, j).eol
    BY <1>2, <1>7 DEF PortLineInv
  <2>2. n \in 0..D
    BY <1>1, <1>4, <2>1
  <2>3. portRx' = Skip(portRx, n)
    BY <1>2, <1>4, <1>7 DEF Extract
  <2>4. /\ Size(portRx') = D - n
        /\ \A i \in 0..PortRing - 1 - n : At(portRx', i) = At(portRx, n + i)
    <3> HIDE DEF n
    <3> QED
      BY <1>1, <2>2, <2>3, SkipIs
  <2>5. ASSUME NEW i \in 1..Size(portRx')
        PROVE  At(portRx', i - 1).epoch = epoch
    <3> HIDE DEF n, D
    <3>1. i - 1 \in 0..PortRing - 1 - n /\ n + (i - 1) = (n + i) - 1 /\ n + i \in 1..D
      BY <1>1, <1>4, <2>2, <2>4
    <3>2. At(portRx', i - 1) = At(portRx, (n + i) - 1)
      BY <2>4, <3>1
    <3> QED
      BY <1>7, <3>1, <3>2 DEF OneLine, D
  <2>6. ASSUME NEW j \in 1..Len(portLine')
        PROVE  Len(portLine') <= PortLineSize + 1 /\ (portLine'[j].eol <=> j = Len(portLine'))
    <3>1. CASE PortLineSize < portFound
      <4>1. portLine' = <<>>
        BY <1>2, <3>1 DEF Extracted
      <4> QED
        BY <4>1
    <3>2. CASE ~(PortLineSize < portFound)
      <4>1. portLine' = [k \in 1..n |-> At(portRx, k - 1)]
        BY <1>2, <1>4, <1>7, <3>2 DEF Extracted, First
      <4>2. n \in Nat /\ n <= PortLineSize + 1
        BY <1>1, <3>2
      <4>3. Len(portLine') = n
        <5> HIDE DEF n
        <5> QED
          BY <4>1, <4>2
      <4>4. portLine'[j] = At(portRx, j - 1)
        BY <4>1, <4>3
      <4>5. CASE j = n
        <5>1. j - 1 = portFound
          BY <1>1, <4>5
        <5> QED
          BY <2>1, <4>2, <4>3, <4>4, <4>5, <5>1
      <4>6. CASE j # n
        <5>1. j - 1 \in 0..portFound - 1
          BY <1>1, <4>3, <4>6
        <5> QED
          BY <2>1, <4>2, <4>3, <4>4, <4>6, <5>1
      <4> QED
        BY <4>5, <4>6
    <3> QED
      BY <3>1, <3>2
  <2> QED
    BY <1>2, <1>3, <2>5, <2>6 DEF OneLine, PortLineInv
<1> QED
  BY <1>5, <1>6, <1>7

LEMMA LinesKept ==
  ASSUME PortSizes, PortTypeOK, OneLine, PortLineInv, [PortNext]_portVars
  PROVE  OneLine' /\ PortLineInv'
<1>1. CASE FrameRead \/ FrameAvailable \/ SpiSent \/ I2cSent \/ I2cError \/ UNCHANGED portVars
  BY <1>1, LinesUntouched DEF FrameRead, FrameAvailable, SpiSent, I2cSent, I2cError, portVars,
                              driverVars, portTaskVars, portHistory
<1>2. ASSUME NEW t \in Tasks, Send(t)
      PROVE  OneLine' /\ PortLineInv'
  <2>1. UNCHANGED <<portRx, portFound, portLine, epoch, raced>>
    BY <1>2 DEF Send, PortSendBegin, SpiRoom, SpiGiveUp, SpiLower, CopyReply, CommitReply,
                RaisePin,
                driverVars, portHistory
  <2>2. portAt'["listener"] = "found" => portAt["listener"] = "found"
    <3>1. \E p \in Places \ {"found"} : portAt' = [portAt EXCEPT ![t] = p]
      BY <1>2 DEF Send, PortSendBegin, SpiRoom, SpiGiveUp, SpiLower, CopyReply, CommitReply,
                  RaisePin,
                  Places
    <3> QED
      BY <3>1 DEF PortTypeOK, Tasks
  <2> QED
    BY <2>1, <2>2, LinesUntouched
<1> QED
  BY <1>1, <1>2, WriteKeepsLines, ResetKeepsLines, RestartKeepsLines, FindKeepsLines,
     TakeKeepsLines DEF PortNext, PortInterrupt

\* The timer runs only while a reply is pending, or after the bus reported an error.
TimerRight == timer => portArmed = "write" \/ failed

LEMMA TimerKept ==
  ASSUME PortTypeOK, TimerInv, TimerRight, [PortNext]_portVars
  PROVE  TimerInv' /\ TimerRight'
<1>1. CASE FrameWrite \/ FrameReset
  BY <1>1 DEF FrameWrite, FrameReset, ReadEnable, TimerInv, TimerRight, portTaskVars
<1>2. CASE FrameRead \/ FrameAvailable
  BY <1>2 DEF FrameRead, FrameAvailable, WriteEnable, TimerInv, TimerRight, portTaskVars,
              portHistory
<1>3. CASE SpiSent \/ I2cSent
  BY <1>3 DEF SpiSent, I2cSent, ReadEnable, TimerInv, TimerRight
<1>4. CASE I2cError
  <2>1. failed' = (failed \/ timer) /\ UNCHANGED <<timer, bus>>
    BY <1>4 DEF I2cError, ReadEnable
  <2> QED
    BY <2>1, Zenon DEF TimerInv, TimerRight
<1>5. CASE TimerExpires
  BY <1>5 DEF TimerExpires, TimerInv, TimerRight
<1>6. CASE PortFindLine \/ PortTakeLine \/ (\E t \in Tasks : Send(t)) \/ UNCHANGED portVars
  BY <1>6 DEF PortFindLine, PortTakeLine, Send, PortSendBegin, SpiRoom, SpiGiveUp, SpiLower,
              CopyReply,
              CommitReply, RaisePin, portVars, driverVars, portHistory, TimerInv, TimerRight
<1> QED
  BY <1>1, <1>2, <1>3, <1>4, <1>5, <1>6 DEF PortNext, PortInterrupt

\* What RepliesInv says while t is the only task that may be sending.
OneSends(t) ==
  /\ \A u \in Tasks : u # t => ~Sending(u)
  /\ (bus = "spi" /\ portAt[t] = "copy") => size[t] <= Free(portTx)
  /\ portAt[t] = "lower" => IsEmpty(portTx)
  /\ (~cut /\ portAt[t] = "commit") => Ready(size[t])
  /\ (~cut /\ portAt[t] # "commit") => Ready(0)
  /\ (bus = "spi" /\ ~IsEmpty(portTx) /\ ~Sending(t)) => pin

LEMMA OneSendsIs ==
  /\ \A t \in Tasks : OneSends(t)' => RepliesInv'
  /\ \A t \in Tasks : RepliesInv /\ ~overlapped /\ (\A u \in Tasks : u # t => ~Sending(u))
                        => OneSends(t)
<1>1. ASSUME NEW t \in Tasks, OneSends(t)'
      PROVE  RepliesInv'
  <2>1. \A u \in Tasks : u # t => ~Sending(u)'
    BY <1>1 DEF OneSends
  <2>2. \A u \in Tasks : portAt'[u] \in {"copy", "lower", "commit"} => u = t
    BY <2>1 DEF Sending
  <2>3. \A u, v \in Tasks : (Sending(u)' /\ Sending(v)') => u = v
    BY <2>1
  <2> QED
    BY <1>1, <2>2, <2>3 DEF OneSends, RepliesInv
<1>2. ASSUME NEW t \in Tasks, RepliesInv, ~overlapped, \A u \in Tasks : u # t => ~Sending(u)
      PROVE  OneSends(t)
  <2>1. \A u \in Tasks : u # t => portAt[u] # "commit"
    BY <1>2 DEF Sending
  <2> QED
    BY <1>2, <2>1 DEF OneSends, RepliesInv
<1> QED
  BY <1>1, <1>2

\* Taking bytes leaves those that follow ready.
LEMMA ReadyLess ==
  ASSUME PortRing \in Nat \ {0}, UNCHANGED portSaid, portSaid \in Nat,
         Size(portTx) \in Nat, NEW m \in 0..Size(portTx), Size(portTx') = Size(portTx) - m,
         \A i \in 0..PortRing - 1 - m : At(portTx', i) = At(portTx, m + i),
         NEW k \in Nat, Ready(k)
  PROVE  Ready(k)'
<1> DEFINE D == Size(portTx)
<1>1. /\ D + k <= PortRing - 1
      /\ \A i \in 0..D + k - 1 : At(portTx, i) = portSaid - (D + k) + i + 1
  BY DEF Ready
<1>2. /\ D \in Nat /\ m \in 0..D /\ Size(portTx') = D - m
      /\ \A i \in 0..PortRing - 1 - m : At(portTx', i) = At(portTx, m + i)
  OBVIOUS
<1> HIDE DEF D
<1>3. (D - m) + k <= PortRing - 1
  BY <1>1, <1>2
<1>4. ASSUME NEW i \in 0..(D - m) + k - 1
      PROVE  At(portTx', i) = portSaid - ((D - m) + k) + i + 1
  <2>1. i \in 0..PortRing - 1 - m /\ m + i \in 0..D + k - 1
    BY <1>1, <1>2
  <2>2. /\ At(portTx', i) = At(portTx, m + i)
        /\ At(portTx, m + i) = portSaid - (D + k) + (m + i) + 1
    BY <1>1, <1>2, <2>1
  <2> QED
    BY <1>2, <2>2
<1> QED
  BY <1>2, <1>3, <1>4 DEF Ready

\* The host reads, or drops, what waits.
LEMMA LessKeepsReplies ==
  ASSUME PortSizes, PortTypeOK, RepliesInv, UNCHANGED <<bus, portAt, size, portSaid, overlapped,
                                                        cut>>,
         NEW m \in 0..Size(portTx),
         portTx' = Skip(portTx, m) \/ (m = Size(portTx) /\ portTx' = Clear(portTx)),
         pin' = pin \/ IsEmpty(portTx')
  PROVE  RepliesInv'
<1>1. /\ PortRing \in Nat \ {0} /\ portTx \in Rings(PortRing, Nat) /\ portSaid \in Nat
      /\ size \in [Tasks -> Nat]
  BY DEF PortSizes, PortTypeOK
<1>2. Size(portTx) \in 0..PortRing - 1 /\ Free(portTx) = PortRing - 1 - Size(portTx)
      /\ (IsEmpty(portTx) <=> Size(portTx) = 0)
  BY <1>1, RingIs
<1>3. /\ portTx' \in Rings(PortRing, Nat) /\ Size(portTx') = Size(portTx) - m
      /\ \A i \in 0..PortRing - 1 - m : At(portTx', i) = At(portTx, m + i)
  <2>1. CASE portTx' = Skip(portTx, m)
    BY <1>1, <2>1, SkipIs
  <2>2. CASE m = Size(portTx) /\ portTx' = Clear(portTx)
    <3>1. Clear(portTx) \in Rings(PortRing, Nat) /\ Size(Clear(portTx)) = 0
      BY <1>1, ClearIs
    <3>2. ASSUME NEW i \in 0..PortRing - 1 - Size(portTx)
          PROVE  At(Clear(portTx), i) = At(portTx, Size(portTx) + i)
      <4>1. i \in 0..PortRing - 1 /\ Size(portTx) + i <= PortRing - 1
        BY <1>1, <1>2
      <4> QED
        BY <1>1, <4>1, ClearShows
    <3>3. Size(portTx) - m = 0
      BY <1>2, <2>2
    <3> QED
      BY <2>2, <3>1, <3>2, <3>3
  <2> QED
    BY <2>1, <2>2
<1>4. Free(portTx') = PortRing - 1 - Size(portTx') /\ (IsEmpty(portTx') <=> Size(portTx') = 0)
  BY <1>1, <1>3, RingIs
<1>5. Free(portTx) <= Free(portTx') /\ (IsEmpty(portTx) => IsEmpty(portTx'))
      /\ Free(portTx) \in Nat /\ Free(portTx') \in Nat
  BY <1>1, <1>2, <1>3, <1>4
<1>6. ASSUME NEW k \in Nat, Ready(k)
      PROVE  Ready(k)'
  <2>1. Size(portTx) \in Nat
    BY <1>2
  <2> QED
    BY <1>1, <1>3, <1>6, <2>1, ReadyLess
<1> SUFFICES ASSUME ~overlapped
    PROVE  RepliesInv'
  BY DEF RepliesInv
<1>7. \A t, u \in Tasks : (Sending(t)' /\ Sending(u)') => t = u
  BY DEF RepliesInv, Sending
<1>8. ASSUME NEW t \in Tasks, bus = "spi", portAt[t] = "copy"
      PROVE  size[t] <= Free(portTx')
  <2>1. size[t] <= Free(portTx) /\ size[t] \in Nat
    BY <1>1, <1>8 DEF RepliesInv
  <2> QED
    BY <1>5, <2>1
<1>9. ASSUME NEW t \in Tasks, ~cut, portAt[t] = "commit"
      PROVE  (Ready(size[t]))'
  <2>1. Ready(size[t]) /\ size[t] \in Nat
    BY <1>1, <1>9 DEF RepliesInv
  <2>2. ASSUME NEW k \in Nat, k = size[t]
        PROVE  Ready(k)'
    BY <1>6, <2>1, <2>2
  <2> QED
    BY <2>1, <2>2 DEF Ready
<1>10. (~cut /\ \A t \in Tasks : portAt[t] # "commit") => Ready(0)'
  BY <1>6 DEF RepliesInv
<1>11. (bus = "spi" /\ ~IsEmpty(portTx') /\ \A t \in Tasks : ~Sending(t)) => pin'
  BY <1>5 DEF RepliesInv
<1>12. \A t \in Tasks : portAt[t] = "lower" => IsEmpty(portTx')
  BY <1>5 DEF RepliesInv
<1> QED
  BY <1>7, <1>8, <1>9, <1>10, <1>11, <1>12 DEF RepliesInv, Sending

\* The listener's steps, and the interrupts that leave the ring of replies alone.
LEMMA RepliesUntouched ==
  ASSUME RepliesInv, UNCHANGED <<bus, portTx, size, portSaid, overlapped, cut>>,
         pin' = pin \/ IsEmpty(portTx),
         \A t \in Tasks :
           \/ portAt'[t] = portAt[t]
           \/ portAt[t] \in {"idle", "found"} /\ portAt'[t] \in {"idle", "found"}
  PROVE  RepliesInv'
<1>1. \A t \in Tasks : (Sending(t)' <=> Sending(t)) /\ (Sending(t) => portAt'[t] = portAt[t])
  BY DEF Sending
<1>2. \A t \in Tasks : portAt'[t] \in {"copy", "lower", "commit"} => portAt[t] = portAt'[t]
  BY <1>1 DEF Sending
<1>3. \A t \in Tasks : portAt[t] = "commit" => portAt'[t] = "commit"
  OBVIOUS
<1> SUFFICES ASSUME ~overlapped
    PROVE  RepliesInv'
  BY DEF RepliesInv
<1>4. \A t, u \in Tasks : (Sending(t)' /\ Sending(u)') => t = u
  BY <1>1 DEF RepliesInv
<1>5. \A t \in Tasks : /\ (bus' = "spi" /\ portAt'[t] = "copy") => size'[t] <= Free(portTx')
                       /\ portAt'[t] = "lower" => IsEmpty(portTx')
                       /\ (~cut' /\ portAt'[t] = "commit") => (Ready(size[t]))'
  BY <1>2 DEF RepliesInv, Ready
<1>6. (~cut' /\ \A t \in Tasks : portAt'[t] # "commit") => Ready(0)'
  BY <1>3 DEF RepliesInv, Ready
<1>7. (bus' = "spi" /\ ~IsEmpty(portTx') /\ \A t \in Tasks : ~Sending(t)') => pin'
  BY <1>1 DEF RepliesInv
<1> QED
  BY <1>4, <1>5, <1>6, <1>7 DEF RepliesInv

LEMMA InterruptKeepsReplies ==
  ASSUME PortSizes, PortTypeOK, RepliesInv, PortInterrupt
  PROVE  RepliesInv'
<1>1. /\ PortRing \in Nat \ {0} /\ portTx \in Rings(PortRing, Nat)
  BY DEF PortSizes, PortTypeOK
<1>2. Size(portTx) \in 0..PortRing - 1 /\ (IsEmpty(portTx) <=> Size(portTx) = 0)
  BY <1>1, RingIs
<1>3. CASE FrameWrite \/ FrameAvailable \/ I2cSent \/ I2cError
  BY <1>3, RepliesUntouched DEF FrameWrite, FrameAvailable, I2cSent, I2cError, portTaskVars,
                                portHistory
<1>4. CASE SpiSent
  <2>1. pin' = (pin /\ ~IsEmpty(portTx)) /\ pin \in BOOLEAN
    BY <1>4 DEF SpiSent, PortTypeOK
  <2>2. pin' = pin \/ IsEmpty(portTx)
    BY <2>1, Zenon
  <2> QED
    BY <1>4, <2>2, RepliesUntouched DEF SpiSent, portTaskVars, portHistory
<1>5. CASE FrameRead
  <2>1. PICK n \in 1..PortRing : portTx' = Get(portTx, n)
    BY <1>5 DEF FrameRead
  <2> DEFINE m == IF n > Size(portTx) THEN Size(portTx) ELSE n
  <2>2. portTx' = Skip(portTx, m)
    BY <2>1 DEF Get
  <2>3. m \in 0..Size(portTx)
    BY <1>1, <1>2
  <2>4. UNCHANGED <<bus, portAt, size, portSaid, overlapped, cut>> /\ pin' = pin
    BY <1>5 DEF FrameRead, portTaskVars, portHistory
  <2> HIDE DEF m
  <2>5. CASE pin
    BY <2>2, <2>3, <2>4, <2>5, LessKeepsReplies
  <2>6. CASE ~pin
    BY <2>2, <2>3, <2>4, <2>6, LessKeepsReplies
  <2> QED
    BY <2>5, <2>6
<1>6. CASE FrameReset
  <2>1. portTx' = Clear(portTx) /\ pin' = FALSE /\ UNCHANGED <<bus, portAt, size, portSaid,
                                                               overlapped, cut>>
    BY <1>6 DEF FrameReset, portTaskVars
  <2>2. Size(portTx') = 0 /\ portTx' \in Rings(PortRing, Nat)
    BY <1>1, <2>1, ClearIs
  <2>3. IsEmpty(portTx')
    BY <1>1, <2>2, RingIs
  <2>4. Size(portTx) \in 0..Size(portTx)
    BY <1>1, <1>2
  <2> QED
    BY <2>1, <2>3, <2>4, LessKeepsReplies
<1> QED
  BY <1>3, <1>4, <1>5, <1>6 DEF PortInterrupt

\* A task that begins to send while none does.
LEMMA BeginKeepsReplies ==
  ASSUME PortTypeOK, RepliesInv, NEW t \in Tasks, PortSendBegin(t)
  PROVE  RepliesInv'
<1>1. /\ portAt[t] = "idle"
      /\ portAt' = [portAt EXCEPT ![t] = IF bus = "spi" THEN "wait" ELSE "copy"]
      /\ overlapped' = (overlapped \/ Sending(Other(t)))
      /\ UNCHANGED <<bus, portTx, pin, portSaid, cut>>
  BY DEF PortSendBegin, driverVars
<1>2. CASE overlapped'
  BY <1>2 DEF RepliesInv
<1>3. CASE ~overlapped'
  <2>1. ~overlapped /\ ~Sending(Other(t))
    BY <1>1, <1>3, Zenon
  <2>2. \A u \in Tasks : u # t => ~Sending(u)
    BY <2>1, TheOther
  <2>3. OneSends(t)
    BY <2>1, <2>2, OneSendsIs
  <2>4. \A u \in Tasks : u # t => ~Sending(u)'
    BY <1>1, <2>2 DEF Sending, PortTypeOK
  <2>5. portAt'[t] = IF bus = "spi" THEN "wait" ELSE "copy"
    BY <1>1 DEF PortTypeOK
  <2>6. /\ Sending(t)' /\ portAt'[t] \notin {"lower", "commit"}
        /\ bus = "spi" => portAt'[t] # "copy"
    BY <2>5 DEF Sending
  <2>7. ~cut => Ready(0)'
    BY <1>1, <2>3 DEF OneSends, Ready
  <2>8. OneSends(t)'
    BY <1>1, <2>4, <2>6, <2>7 DEF OneSends
  <2> QED
    BY <2>8, OneSendsIs
<1> QED
  BY <1>2, <1>3

\* A task that goes on, or ends, while no other sends.
LEMMA SendKeepsReplies ==
  ASSUME PortSizes, PortTypeOK, RepliesInv, NEW t \in Tasks, Send(t)
  PROVE  RepliesInv'
<1>0. /\ PortRing \in Nat \ {0} /\ portTx \in Rings(PortRing, Nat)
      /\ portSaid \in Nat /\ size[t] \in Nat /\ bus \in {"spi", "i2c"}
  BY DEF PortSizes, PortTypeOK
<1>1. /\ Size(portTx) \in 0..PortRing - 1 /\ Free(portTx) = PortRing - 1 - Size(portTx)
      /\ (IsEmpty(portTx) <=> Size(portTx) = 0)
  BY <1>0, RingIs
<1>2. CASE PortSendBegin(t)
  BY <1>2, BeginKeepsReplies
<1>3. SUFFICES ASSUME ~PortSendBegin(t), ~overlapped'
      PROVE  OneSends(t)'
  BY <1>2, OneSendsIs DEF RepliesInv
<1>4. /\ Sending(t) /\ UNCHANGED <<bus, overlapped>>
      /\ \E p \in Places : portAt' = [portAt EXCEPT ![t] = p]
  BY <1>3 DEF Send, SpiRoom, SpiGiveUp, SpiLower, CopyReply, CommitReply, RaisePin, Sending,
              driverVars, portHistory, Places
<1>5. \A u \in Tasks : u # t => ~Sending(u)
  BY <1>3, <1>4 DEF RepliesInv
<1>6. OneSends(t)
  BY <1>3, <1>4, <1>5, OneSendsIs
<1>7. \A u \in Tasks : u # t => ~Sending(u)'
  BY <1>4, <1>5 DEF Sending, PortTypeOK
<1>8. CASE SpiRoom(t)
  <2>1. portAt'[t] = "copy" /\ portAt[t] = "wait" /\ size[t] <= Free(portTx)
        /\ UNCHANGED <<portTx, size, portSaid, cut, pin>>
    BY <1>8 DEF SpiRoom, PortTypeOK, driverVars, portHistory
  <2>2. Sending(t)'
    BY <2>1 DEF Sending
  <2>3. ~cut => Ready(0)'
    BY <1>6, <2>1 DEF OneSends, Ready
  <2> QED
    BY <1>7, <2>1, <2>2, <2>3 DEF OneSends
<1>9. CASE SpiGiveUp(t)
  <2>1. portAt'[t] = "lower" /\ portTx' = Clear(portTx) /\ UNCHANGED portSaid
    BY <1>9 DEF SpiGiveUp, PortTypeOK, portHistory
  <2>2. Size(portTx') = 0 /\ portTx' \in Rings(PortRing, Nat)
    BY <1>0, <2>1, ClearIs
  <2>3. IsEmpty(portTx')
    BY <1>0, <2>2, RingIs
  <2>4. Ready(0)'
    BY <1>0, <2>2 DEF Ready
  <2>5. Sending(t)'
    BY <2>1 DEF Sending
  <2> QED
    BY <1>7, <2>1, <2>3, <2>4, <2>5 DEF OneSends
<1>10. CASE SpiLower(t)
  <2>1. portAt'[t] = "idle" /\ portAt[t] = "lower" /\ UNCHANGED <<portTx, size, portSaid, cut>>
    BY <1>10 DEF SpiLower, PortTypeOK, portHistory
  <2>2. IsEmpty(portTx')
    BY <1>6, <2>1 DEF OneSends
  <2>3. ~cut => Ready(0)'
    BY <1>6, <2>1 DEF OneSends, Ready
  <2> QED
    BY <1>7, <2>1, <2>2, <2>3 DEF OneSends
<1>11. CASE CopyReply(t)
  <2> DEFINE s == Reply(t)
             n == Accepted(portTx, s)
             D == Size(portTx)
  <2>1. /\ portTx' = Copied(portTx, s, n) /\ portSaid' = portSaid + size[t]
        /\ size' = [size EXCEPT ![t] = n]
        /\ cut' = (cut \/ (bus = "i2c" /\ n < size[t]))
        /\ portAt[t] = "copy" /\ portAt'[t] = "commit"
    BY <1>11 DEF CopyReply, PortTypeOK
  <2>2. s \in Seq(Nat) /\ Len(s) = size[t] /\ \A j \in 1..size[t] : s[j] = portSaid + j
    BY <1>0 DEF Reply
  <2>3. n = IF size[t] > Free(portTx) THEN Free(portTx) ELSE size[t]
    BY <2>2 DEF Accepted
  <2>4. n \in 0..Free(portTx) /\ n \in 0..size[t] /\ n \in Nat
    BY <1>0, <1>1, <2>3
  <2>5. size'[t] = n
    BY <2>1 DEF PortTypeOK
  <2>6. Sending(t)'
    BY <2>1 DEF Sending
  <2>7. ASSUME ~cut', NEW k \in Nat, k = n
        PROVE  Ready(k)'
    <3>1. ~cut /\ (bus = "i2c" => ~(n < size[t]))
      BY <2>1, <2>7, Zenon
    <3>2. n = size[t]
      <4>1. CASE bus = "i2c"
        BY <1>0, <2>4, <3>1, <4>1
      <4>2. CASE bus = "spi"
        <5>1. size[t] <= Free(portTx)
          BY <1>6, <2>1, <4>2 DEF OneSends
        <5>2. Free(portTx) \in Nat
          BY <1>0, <1>1
        <5> QED
          BY <1>0, <2>3, <5>1, <5>2
      <4> QED
        BY <1>0, <4>1, <4>2
    <3>3. \A i \in 0..D - 1 : At(portTx, i) = portSaid - D + i + 1
      <4>1. Ready(0)
        BY <1>6, <2>1, <3>1 DEF OneSends
      <4>2. D \in Nat
        BY <1>1
      <4>3. \A i \in 0..D + 0 - 1 : At(portTx, i) = portSaid - (D + 0) + i + 1
        BY <4>1 DEF Ready
      <4> HIDE DEF D
      <4> TAKE i \in 0..D - 1
      <4>4. i \in 0..D + 0 - 1
        BY <4>2
      <4> QED
        BY <1>0, <4>2, <4>3, <4>4
    <3> HIDE DEF s, n
    <3>4. /\ Size(Copied(portTx, s, n)) = D
          /\ \A i \in 0..D - 1 : At(Copied(portTx, s, n), i) = At(portTx, i)
          /\ \A j \in 0..n - 1 : At(Copied(portTx, s, n), D + j) = s[j + 1]
      <4>1. n <= Len(s)
        BY <2>2, <2>4
      <4>2. ASSUME NEW S, S = Nat
            PROVE  /\ Size(Copied(portTx, s, n)) = D
                   /\ \A i \in 0..D - 1 : At(Copied(portTx, s, n), i) = At(portTx, i)
                   /\ \A j \in 0..n - 1 : At(Copied(portTx, s, n), D + j) = s[j + 1]
        <5>1. portTx \in Rings(PortRing, S) /\ s \in Seq(S)
          BY <1>0, <2>2, <4>2
        <5> QED
          BY <1>0, <2>4, <4>1, <5>1, CopiedIs
      <4> QED
        BY <4>2
    <3> HIDE DEF D
    <3>5. D \in 0..PortRing - 1 /\ n \in 0..PortRing - 1 - D
      BY <1>1, <2>4 DEF D
    <3>6. D + n <= PortRing - 1
      BY <1>0, <3>5
    <3>7. ASSUME NEW i \in 0..D + n - 1
          PROVE  At(portTx', i) = portSaid' - (D + n) + i + 1
      <4>1. CASE i < D
        <5>1. i \in 0..D - 1
          BY <1>0, <3>5, <4>1
        <5>2. At(portTx', i) = portSaid - D + i + 1
          BY <2>1, <3>3, <3>4, <5>1
        <5> QED
          BY <1>0, <2>1, <3>2, <3>5, <5>2
      <4>2. CASE ~(i < D)
        <5> DEFINE j == i - D
        <5>1. j \in 0..n - 1 /\ D + j = i /\ j + 1 \in 1..size[t]
          BY <1>0, <3>2, <3>5, <4>2
        <5> HIDE DEF j
        <5>2. At(portTx', i) = s[j + 1] /\ s[j + 1] = portSaid + (j + 1)
          BY <2>1, <2>2, <3>4, <5>1
        <5> QED
          BY <1>0, <2>1, <3>2, <3>5, <5>1, <5>2
      <4> QED
        BY <4>1, <4>2
    <3>8. Size(portTx') = D
      BY <2>1, <3>4
    <3> QED
      BY <2>7, <3>6, <3>7, <3>8 DEF Ready
  <2>8. (~cut' /\ portAt'[t] = "commit") => (Ready(size[t]))'
    <3> SUFFICES ASSUME ~cut'
        PROVE  (Ready(size[t]))'
      OBVIOUS
    <3>1. \A k \in Nat : k = n => Ready(k)'
      BY <2>7
    <3> HIDE DEF n
    <3>2. \A k \in Nat : k = size'[t] => Ready(k)'
      BY <2>5, <3>1
    <3>3. size'[t] \in Nat
      BY <2>4, <2>5
    <3> QED
      BY <3>2, <3>3 DEF Ready
  <2> QED
    BY <1>7, <2>1, <2>6, <2>8 DEF OneSends
<1>12. CASE CommitReply(t)
  <2>1. /\ portAt[t] = "commit" /\ portTx' = Committed(portTx, size[t])
        /\ portAt'[t] = (IF bus = "spi" THEN "raise" ELSE "idle")
        /\ UNCHANGED <<size, portSaid, cut, pin>>
    BY <1>12 DEF CommitReply, PortTypeOK, portHistory
  <2>2. bus = "spi" => Sending(t)'
    BY <2>1 DEF Sending
  <2>3. ASSUME ~cut
        PROVE  Ready(0)'
    <3> DEFINE k == size[t]
               D == Size(portTx)
    <3>1. /\ D + k <= PortRing - 1
          /\ \A i \in 0..D + k - 1 : At(portTx, i) = portSaid - (D + k) + i + 1
      BY <1>6, <2>1, <2>3 DEF OneSends, Ready
    <3>2. k \in 0..Free(portTx)
      BY <1>0, <1>1, <3>1
    <3>3. /\ Size(portTx') = D + k
          /\ \A i \in 0..PortRing - 1 : At(portTx', i) = At(portTx, i)
      <4> HIDE DEF k
      <4> QED
        BY <1>0, <2>1, <3>2, CommittedIs DEF k
    <3> HIDE DEF D, k
    <3>4. D \in Nat /\ k \in Nat
      BY <1>0, <1>1 DEF D, k
    <3>5. ASSUME NEW i \in 0..D + k + 0 - 1
          PROVE  At(portTx', i) = portSaid' - (D + k + 0) + i + 1
      <4>1. i \in 0..D + k - 1 /\ i \in 0..PortRing - 1 /\ D + k + 0 = D + k
        BY <1>0, <3>1, <3>4
      <4> QED
        BY <2>1, <3>1, <3>3, <4>1
    <3> QED
      BY <3>1, <3>3, <3>4, <3>5 DEF Ready
  <2>4. portAt'[t] \notin {"copy", "lower", "commit"}
    BY <2>1
  <2> QED
    BY <1>4, <1>7, <2>1, <2>2, <2>3, <2>4 DEF OneSends
<1>13. CASE RaisePin(t)
  <2>1. portAt[t] = "raise" /\ portAt'[t] = "idle" /\ pin' = TRUE /\ UNCHANGED <<portTx, size,
                                                                                 portSaid, cut>>
    BY <1>13 DEF RaisePin, PortTypeOK, portHistory
  <2>2. ~cut => Ready(0)'
    BY <1>6, <2>1 DEF OneSends, Ready
  <2> QED
    BY <1>7, <2>1, <2>2 DEF OneSends
<1> QED
  BY <1>3, <1>8, <1>9, <1>10, <1>11, <1>12, <1>13 DEF Send

LEMMA RepliesKept ==
  ASSUME PortSizes, PortTypeOK, RepliesInv, [PortNext]_portVars
  PROVE  RepliesInv'
<1>1. CASE TimerExpires
  <2>1. /\ portTx' = Ring(PortRing, 0) /\ portAt' = [t \in Tasks |-> "idle"]
    BY <1>1 DEF TimerExpires
  <2>2. Size(portTx') = 0 /\ portTx' \in Rings(PortRing, Nat)
    BY <2>1, RingMade DEF PortSizes
  <2>3. IsEmpty(portTx')
    BY <2>2, RingIs DEF PortSizes
  <2>4. Ready(0)'
    BY <2>2 DEF Ready, PortSizes
  <2>5. \A t \in Tasks : portAt'[t] = "idle" /\ ~Sending(t)'
    BY <2>1 DEF Sending
  <2> QED
    BY <2>3, <2>4, <2>5 DEF RepliesInv
<1>2. CASE PortFindLine
  BY <1>2, RepliesUntouched DEF PortFindLine, PortTypeOK, driverVars, portHistory
<1>3. CASE PortTakeLine
  BY <1>3, RepliesUntouched DEF PortTakeLine, PortTypeOK, portHistory
<1>4. CASE UNCHANGED portVars
  <2>1. /\ UNCHANGED <<bus, portTx, size, portSaid, overlapped, cut, pin, portAt>>
    BY <1>4 DEF portVars, driverVars, portTaskVars, portHistory
  <2> QED
    BY <2>1 DEF RepliesInv, Ready, Sending
<1> QED
  BY <1>1, <1>2, <1>3, <1>4, InterruptKeepsReplies, SendKeepsReplies DEF PortNext

\* What the host can read is right because the bytes are and the timer is.
LEMMA HostServedBy ==
  /\ PortTypeOK /\ PortSizes /\ TimerRight /\ RepliesInv => HostServed
  /\ PortTypeOK' /\ PortSizes /\ TimerRight' /\ RepliesInv' => HostServed'
  /\ HostServed => TimerRight
<1>1. ASSUME PortTypeOK, PortSizes, TimerRight, RepliesInv
      PROVE  HostServed
  <2>1. Size(portTx) \in Nat /\ portSaid \in Nat
    <3>1. Size(portTx) \in 0..PortRing - 1
      BY <1>1, RingIs DEF PortTypeOK, PortSizes
    <3> QED
      BY <1>1, <3>1 DEF PortTypeOK, PortSizes
  <2> DEFINE D == Size(portTx)
  <2>2. ASSUME Ready(0), NEW j \in 1..D
        PROVE  At(portTx, j - 1) = portSaid - D + j
    <3>1. \A i \in 0..D + 0 - 1 : At(portTx, i) = portSaid - (D + 0) + i + 1
      BY <2>2 DEF Ready
    <3>2. D \in Nat
      BY <2>1
    <3> HIDE DEF D
    <3>3. j - 1 \in 0..D + 0 - 1
      BY <3>2
    <3>4. At(portTx, j - 1) = portSaid - (D + 0) + (j - 1) + 1
      BY <3>1, <3>3
    <3> QED
      BY <2>1, <3>2, <3>4
  <2> QED
    BY <1>1, <2>2 DEF HostServed, RepliesInv, TimerRight
<1>2. ASSUME PortTypeOK', PortSizes, TimerRight', RepliesInv'
      PROVE  HostServed'
  <2>1. Size(portTx') \in Nat /\ portSaid' \in Nat
    <3>1. Size(portTx') \in 0..PortRing - 1
      BY <1>2, RingIs DEF PortTypeOK, PortSizes
    <3> QED
      BY <1>2, <3>1 DEF PortTypeOK, PortSizes
  <2> DEFINE D == Size(portTx')
  <2>2. ASSUME Ready(0)', NEW j \in 1..D
        PROVE  At(portTx', j - 1) = portSaid' - D + j
    <3>1. \A i \in 0..D + 0 - 1 : At(portTx', i) = portSaid' - (D + 0) + i + 1
      BY <2>2 DEF Ready
    <3>2. D \in Nat
      BY <2>1
    <3> HIDE DEF D
    <3>3. j - 1 \in 0..D + 0 - 1
      BY <3>2
    <3>4. At(portTx', j - 1) = portSaid' - (D + 0) + (j - 1) + 1
      BY <3>1, <3>3
    <3> QED
      BY <2>1, <3>2, <3>4
  <2> QED
    BY <1>2, <2>2 DEF HostServed, RepliesInv, TimerRight
<1> QED
  BY <1>1, <1>2 DEF HostServed, TimerRight

\* Whatever the sizes of the rings, of the listener's buffer and of the replies, every
\* behaviour keeps the invariant.
THEOREM PortInductive ==
  ASSUME PortSizes
  PROVE  PortSpec => []PortInv
<1>1. PortInit => PortInv
  <2> SUFFICES ASSUME PortInit
      PROVE  PortInv
    OBVIOUS
  <2>1. PortRing \in Nat \ {0} /\ Blank \in Bytes
    BY DEF PortSizes, Blank, Byte, Bytes
  <2>2. /\ portRx \in Rings(PortRing, Bytes) /\ Size(portRx) = 0
        /\ portTx \in Rings(PortRing, Nat) /\ Size(portTx) = 0
    BY <2>1, RingMade DEF PortInit
  <2>3. /\ portAt \in [Tasks -> Places] /\ size \in [Tasks -> Nat]
        /\ \A t \in Tasks : portAt[t] = "idle"
    BY DEF PortInit, Places
  <2>4. PortTypeOK
    <3>1. /\ bus \in {"spi", "i2c"} /\ portArmed = "read" /\ pin = FALSE /\ timer = FALSE
          /\ portFound = 0 /\ portSaid = 0 /\ epoch = 0
          /\ raced = FALSE /\ overlapped = FALSE /\ cut = FALSE /\ failed = FALSE
      BY DEF PortInit
    <3>2. portFound \in 0..PortRing /\ epoch \in 0..1 /\ portSaid \in Nat
      BY <2>1, <3>1
    <3> QED
      BY <2>2, <2>3, <3>1, <3>2 DEF PortTypeOK
  <2>5. OneLine
    BY <2>2 DEF PortInit, OneLine
  <2>6. PortLineInv
    BY <2>3 DEF PortLineInv, Tasks
  <2>7. TimerInv /\ TimerRight
    BY DEF PortInit, TimerInv, TimerRight
  <2>8. RepliesInv
    <3>1. IsEmpty(portTx)
      BY <2>1, <2>2, RingIs
    <3>2. Ready(0)
      BY <2>1, <2>2 DEF Ready
    <3>3. \A t \in Tasks : ~Sending(t)
      BY <2>3 DEF Sending
    <3> QED
      BY <2>3, <3>1, <3>2, <3>3 DEF RepliesInv
  <2> QED
    BY <2>4, <2>5, <2>6, <2>7, <2>8, HostServedBy DEF PortInv
<1>2. PortInv /\ [PortNext]_portVars => PortInv'
  <2> SUFFICES ASSUME PortInv, [PortNext]_portVars
      PROVE  PortInv'
    OBVIOUS
  <2>1. PortTypeOK /\ OneLine /\ PortLineInv /\ TimerInv /\ TimerRight /\ RepliesInv
    BY HostServedBy DEF PortInv
  <2>2. PortTypeOK'
    BY <2>1, PortTypes
  <2>3. OneLine' /\ PortLineInv'
    BY <2>1, LinesKept
  <2>4. TimerInv' /\ TimerRight'
    BY <2>1, TimerKept
  <2>5. RepliesInv'
    BY <2>1, RepliesKept
  <2> QED
    BY <2>2, <2>3, <2>4, <2>5, HostServedBy DEF PortInv
<1> QED
  BY <1>1, <1>2, PTL DEF PortSpec

\* get_line returns one line, whole, of what the host wrote after its last reset, unless
\* the reset fell between find and the copy.  For every size of the ring and the buffer.
THEOREM PortLineRight ==
  ASSUME PortSizes
  PROVE  PortSpec => []OneLine
<1>1. PortInv => OneLine
  BY DEF PortInv
<1> QED
  BY <1>1, PortInductive, PTL

\* What the host can read is what was sent, in order, and on SPI the pin says that it is
\* there, while one task at most sends and no reply is cut; and the timer of I2C runs
\* while a reply is pending.  For every size of the ring and of the replies.
THEOREM HostRight ==
  ASSUME PortSizes
  PROVE  PortSpec => []HostServed
<1>1. PortInv => HostServed
  BY DEF PortInv
<1> QED
  BY <1>1, PortInductive, PTL
=============================================================================
