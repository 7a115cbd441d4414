---------------------------- MODULE MCNetworking ----------------------------
(* Networking with two servers; the configurations that may be stored and   *)
(* the faults that may happen differ from run to run.                       *)
EXTENDS Networking
=============================================================================
