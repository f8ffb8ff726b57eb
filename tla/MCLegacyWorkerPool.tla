------------------------- MODULE MCLegacyWorkerPool -------------------------
(* Two service paths, two routed requests and two Creates: enough for a    *)
(* repeated Create of one key, a request to a key never created, a request *)
(* queued behind another, and a worker dying with its entry still present. *)
EXTENDS LegacyWorkerPool, TLC

CONSTANTS k1, k2, q1, q2

MCKeys == {k1, k2}
MCRequests == {q1, q2}
MCMaxCreates == 2

\* Keys and requests are interchangeable.
MCSymmetry == Permutations(MCKeys) \cup Permutations(MCRequests)
=============================================================================
