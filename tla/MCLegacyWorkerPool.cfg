\* At-most-one instance per key.
CONSTANTS
    k1 = k1
    k2 = k2
    q1 = q1
    q2 = q2
    Keys <- MCKeys
    Requests <- MCRequests
    MaxCreates <- MCMaxCreates
SYMMETRY MCSymmetry
SPECIFICATION Spec
INVARIANT AtMostOneInstance
\* A panicked loop, or a pool with every message handled and the main
\* worker done sending, has nothing left to run.
CHECK_DEADLOCK FALSE
