CONSTANTS
    N = 2
    Callers = {c1, c2}
SPECIFICATION Spec
INVARIANTS RejectedOnlyIfAllTried
CHECK_DEADLOCK FALSE
