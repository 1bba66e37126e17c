---------------------------- MODULE MCLiveInput ----------------------------
(* Finite instances of LiveInput: the messages are model values. *)
EXTENDS LiveInput, TLC

MessageSymmetry == Permutations(Msgs)

=============================================================================
