SPECIFICATION SpecRemoveRunning
CONSTANTS
    Process = {p1, p2, p3, p4, p5}
    NULL = NULL
INVARIANTS
    NobodyLost
CHECK_DEADLOCK FALSE
