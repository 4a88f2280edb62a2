SPECIFICATION Spec
CONSTANTS
    n1 = n1
    n2 = n2
    Conns = {n1, n2}
    Room = 1
    Sessions = 1
    Failing = {}
    None = None
INVARIANTS
    PendedIsCompleted
CHECK_DEADLOCK FALSE
