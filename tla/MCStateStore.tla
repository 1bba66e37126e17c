---------------------------- MODULE MCStateStore ----------------------------
(* Finite instances of StateStore: a and b are copies in two processes. *)
EXTENDS StateStore, TLC

CopySymmetry == Permutations(Copies)
=============================================================================
