\* Violation: streams reach the worker out of intake order.
CONSTANTS
    r1 = r1
    r2 = r2
    r3 = r3
    Requests <- MCRequests
SYMMETRY MCSymmetry
SPECIFICATION Spec
INVARIANT StreamsFollowIntakeOrder
CHECK_DEADLOCK FALSE
