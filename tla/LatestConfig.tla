---------------------------- MODULE LatestConfig ----------------------------
(* What a thread that changes a configuration and the supervisor that       *)
(* applies it may rely on: writes are counted, the supervisor takes the     *)
(* latest one and, if applying it works, that one counts as applied; asked  *)
(* whether the configuration is up to date, the answer says whether the     *)
(* latest write is the one applied.                                         *)
EXTENDS Naturals

CONSTANTS
  Values,           \* configurations
  Default           \* the one at boot

VARIABLES
  latest, applied,  \* the latest write and the one applied: its number, its value
  taken, busy,      \* the write the supervisor works on, and whether it does
  said              \* the last answer: is the configuration up to date?

vars == <<latest, applied, taken, busy, said>>

Init ==
  /\ latest = [n |-> 0, v |-> Default]
  /\ applied = latest /\ taken = latest
  /\ busy = FALSE /\ said = TRUE

Write ==
  /\ \E v \in Values : latest' = [n |-> latest.n + 1, v |-> v]
  /\ UNCHANGED <<applied, taken, busy, said>>

Take ==
  /\ ~busy /\ busy' = TRUE
  /\ taken' = latest
  /\ UNCHANGED <<latest, applied, said>>

(* Up to date, it may bring what is applied up again. *)
Renew ==
  /\ ~busy
  /\ taken' = applied
  /\ UNCHANGED <<latest, applied, busy, said>>

Done ==
  /\ busy /\ busy' = FALSE
  /\ applied' = taken
  /\ UNCHANGED <<latest, taken, said>>

Fail ==
  /\ busy /\ busy' = FALSE
  /\ UNCHANGED <<latest, applied, taken, said>>

Ask ==
  /\ said' = (applied = latest)
  /\ UNCHANGED <<latest, applied, taken, busy>>

Next == Write \/ Take \/ Renew \/ Done \/ Fail \/ Ask

Spec == Init /\ [][Next]_vars
=============================================================================
