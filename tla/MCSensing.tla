----------------------------- MODULE MCSensing ------------------------------
(* Sensing with two expressions: one that counts and lights the LED, one    *)
(* that counts and saves the picture.                                       *)
EXTENDS Sensing, TLC
CONSTANTS a, b
MCCalls == (a :> {"count", "led"}) @@ (b :> {"count", "save_jpeg"})
MCHash  == (a :> 1) @@ (b :> 2)
=============================================================================
