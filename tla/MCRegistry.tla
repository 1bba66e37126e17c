----------------------------- MODULE MCRegistry -----------------------------
(* Instances of Registry for TLC: w2 and win1 may be on another machine. *)
EXTENDS Registry, TLC

CONSTANTS w1, w2, win1, send1
=============================================================================
