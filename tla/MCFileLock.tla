----------------------------- MODULE MCFileLock -----------------------------
(* Instances of FileLock for TLC: p1 and p2 share a host and pid namespace, *)
(* p3 and p4 run in another container and are judged by age only.         *)
EXTENDS FileLock, TLC

CONSTANTS p1, p2, p3, p4, host, container

TwoPlaces == [p \in Procs |-> IF p \in {p1, p2} THEN host ELSE container]
OnePlace == [p \in Procs |-> host]

\* Processes of one place are interchangeable.
PlaceSymmetry == Permutations({p1, p2}) \cup Permutations({p3, p4})
AllSymmetry == Permutations(Procs)
=============================================================================
