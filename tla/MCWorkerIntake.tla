--------------------------- MODULE MCWorkerIntake ---------------------------
(* Three callers of one worker: enough for two requests to race past each  *)
(* other and for one to be caught by the worker's exit at every stage.     *)
EXTENDS WorkerIntake, TLC

CONSTANTS r1, r2, r3

MCRequests == {r1, r2, r3}

\* The callers are interchangeable for every property but the order one.
MCSymmetry == Permutations(MCRequests)
=============================================================================
