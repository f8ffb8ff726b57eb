\* Violation: a late Shutdown of an ended worker retires its successor.
CONSTANTS
    k1 = k1
    k2 = k2
    c1 = c1
    c2 = c2
    c3 = c3
    Keys <- MCKeys
    Callers <- MCCallers
SPECIFICATION Spec
PROPERTY ShutdownRetiresOnlyItsInstance
\* Every caller sends one message and the loop then waits on an empty
\* channel for ever: the system may stop.
CHECK_DEADLOCK FALSE
SYMMETRY MCSymmetry
