------------------------------ MODULE MCFilter ------------------------------
(* The filter of DIFFERED alone: one box, near to, far from or of another target than *)
(* the one before.                                                                     *)
EXTENDS Results

MCDetections == {<<[x |-> x, w |-> 6, score |-> 60, target |-> t]>> : x \in {0, 4, 9}, t \in {0, 1}}
=============================================================================
