------------------------ MODULE SynchronizableObject ------------------------
(* SynchronizableObject (sscma/prototypes.hpp): a configuration that one    *)
(* thread changes and another applies.  An object is the pair of _prev, the *)
(* configuration applied last, and _next, the one waiting for it; each is   *)
(* stored with its version.  Every operation holds the object's lock from   *)
(* beginning to end, so an operator gives all of its effect.                *)
EXTENDS Naturals

CONSTANT NoNext     \* the null pointer of _next

Constructed(v) == [prev |-> [n |-> 0, v |-> v], next |-> NoNext]

Pending(o) == o.next # NoNext

(* Mutant of IsSynchorized: off by one. *)
IsSynchorizedOffByOne(o) == Pending(o) => o.next.n <= o.prev.n + 1

IsSynchorized(o) == Pending(o) => o.prev.n = o.next.n

Load(o) == IF Pending(o) THEN o.next ELSE o.prev

Stored(o, v) == [o EXCEPT !.next = [n |-> Load(o).n + 1, v |-> v]]

PrevAfter(o, target) == IF o.prev.n # target.n THEN target ELSE o.prev

(* Mutant of Synchorized: what is pending is dropped whatever its version. *)
SynchorizedDrops(o, target) == [prev |-> PrevAfter(o, target), next |-> NoNext]

Synchorized(o, target) ==
  LET prev == PrevAfter(o, target) IN
    [prev |-> prev,
     next |-> IF Pending(o) /\ o.next.n = prev.n THEN NoNext ELSE o.next]
=============================================================================
