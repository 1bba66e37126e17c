--------------------------- MODULE MCSessionWorker ---------------------------
(* Finite instances of SessionWorker. *)
EXTENDS SessionWorker, TLC

PromptSymmetry == Permutations(Prompts \ NeedWindow)

=============================================================================
