---------------------------- MODULE MCServerLocks ----------------------------
(* ServerLocks with the four commands of an algorithm that has a score and  *)
(* an IoU threshold (TSCORE, TSCORE?, TIOU, TIOU?).                         *)
EXTENDS ServerLocks
=============================================================================
