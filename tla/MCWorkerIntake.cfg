\* No envelope is lost and every caller is answered.
CONSTANTS
    r1 = r1
    r2 = r2
    r3 = r3
    Requests <- MCRequests
SPECIFICATION Spec
INVARIANT NoEnvelopeLost
PROPERTY RequestsResolve
\* A worker that failed to boot, or that has exited with every caller
\* answered, leaves nothing to run: the system stops there.  Callers stuck
\* waiting would be caught by RequestsResolve.
CHECK_DEADLOCK FALSE
