-------------------------------- MODULE Mutex --------------------------------
(* What a file lock promises its callers: at most one of them is inside at a *)
(* time, and each of them comes in only when nobody is.  A holder goes out   *)
(* by finishing or by dying.                                                 *)
EXTENDS Naturals

CONSTANT Procs

VARIABLE holder \* the set of processes inside

Init == holder = {}

Acquire(p) == holder = {} /\ holder' = {p}

Drop(p) == holder = {p} /\ holder' = {}

Next == \E p \in Procs : Acquire(p) \/ Drop(p)

Spec == Init /\ [][Next]_holder
=============================================================================
