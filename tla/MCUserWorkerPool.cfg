\* Safety and liveness of the pool actor.
CONSTANTS
    k1 = k1
    k2 = k2
    c1 = c1
    c2 = c2
    c3 = c3
    Keys <- MCKeys
    Callers <- MCCallers
SPECIFICATION Spec
INVARIANT AtMostOneInstance
PROPERTY RepliesResolve EntryNeverOverwritten
\* Every caller sends one message and the loop then waits on an empty
\* channel for ever: the system may stop.
CHECK_DEADLOCK FALSE
