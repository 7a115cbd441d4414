----------------------------- MODULE RingBuffer -----------------------------
(***************************************************************************)
(* lwRingBuffer (core/utils/el_ringbuffer.hpp), between the interrupt that *)
(* fills it and the task that empties it, or the other way round: a ring   *)
(* of len cells of which one stays free.  The operators are the methods;   *)
(* a ring is a record, and what a method returns is an operator of its     *)
(* own.  The caller decides which of them happen in one step.              *)
(***************************************************************************)
EXTENDS Naturals, Sequences, FiniteSets

Ring(len, blank) == [buf |-> [i \in 0..len - 1 |-> blank], head |-> 0, tail |-> 0]

\* Rings of len cells, with what S says in them.
Rings(len, S) == [buf : [0..len - 1 -> S], head : 0..len - 1, tail : 0..len - 1]

Length(r)  == Cardinality(DOMAIN r.buf)
IsEmpty(r) == r.head = r.tail
IsFull(r)  == (r.tail + 1) % Length(r) = r.head
Size(r)    == (r.tail + Length(r) - r.head) % Length(r)
Free(r)    == (r.head + Length(r) - r.tail - 1) % Length(r)
At(r, i)   == r.buf[(r.head + i) % Length(r)]
Clear(r)   == [r EXCEPT !.head = r.tail]

\* put(char): the oldest byte makes room.
PutChar(r, c) ==
  [buf  |-> [r.buf EXCEPT ![r.tail] = c],
   head |-> IF IsFull(r) THEN (r.head + 1) % Length(r) ELSE r.head,
   tail |-> (r.tail + 1) % Length(r)]

\* put(str, slen) copies what fits, at tail; then it moves tail.
Accepted(r, s) == IF Len(s) > Free(r) THEN Free(r) ELSE Len(s)
Copied(r, s, n) ==
  [r EXCEPT !.buf = [i \in DOMAIN r.buf |->
     LET j == (i + Length(r) - r.tail) % Length(r) IN IF j < n THEN s[j + 1] ELSE r.buf[i]]]
Committed(r, n) == [r EXCEPT !.tail = (r.tail + n) % Length(r)]
Put(r, s) == Committed(Copied(r, s, Accepted(r, s)), Accepted(r, s))

\* get(): 0 from an empty ring, which is left alone.
Skip(r, n) == [r EXCEPT !.head = (r.head + n) % Length(r)]
GetChar(r) == IF IsEmpty(r) THEN r ELSE Skip(r, 1)

\* get(str, slen): what is there, slen bytes at most.
First(r, n) == [j \in 1..n |-> At(r, j - 1)]
Got(r, n)   == First(r, IF n > Size(r) THEN Size(r) ELSE n)
Get(r, n)   == Skip(r, IF n > Size(r) THEN Size(r) ELSE n)

Contents(r) == First(r, Size(r))

\* find: the index of the first byte that is a delimiter, or the length.
Find(r, delimiters) ==
  LET hits == {i \in 0..Size(r) - 1 : At(r, i) \in delimiters}
  IN IF hits = {} THEN Length(r) ELSE CHOOSE i \in hits : \A j \in hits : i <= j

\* extract, once find has returned i: a line longer than slen is dropped, and one
\* whose delimiter is at slen is not.
Extracted(r, i, slen) == IF i = Length(r) \/ slen < i THEN <<>> ELSE First(r, i + 1)
Extract(r, i) == IF i = Length(r) THEN r ELSE Skip(r, i + 1)
=============================================================================
