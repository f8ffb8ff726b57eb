-------------------------- MODULE MCUserWorkerPool --------------------------
(* Small instance of UserWorkerPool for TLC: two keys and three callers,   *)
(* enough for a Create, a front-door Shutdown and a second Create of one   *)
(* key to race a supervisor termination.                                   *)
EXTENDS UserWorkerPool, TLC

CONSTANTS k1, k2, c1, c2, c3

MCKeys == {k1, k2}
MCCallers == {c1, c2, c3}

MCSymmetry == Permutations(MCKeys) \cup Permutations(MCCallers)
=============================================================================
