--------------------------- MODULE MCCommandTasks ---------------------------
(***************************************************************************)
(* Small instances of CommandTasks: counts -1 (endless) and 1, two         *)
(* threshold values.                                                       *)
(***************************************************************************)
EXTENDS CommandTasks

MCTimes == {-1, 1}
MCScore == {0, 1}
MCFirstStored == MCScore \cup {Absent}
MCOneScore == {0}
=============================================================================
