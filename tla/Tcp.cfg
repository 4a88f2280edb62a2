SPECIFICATION Spec
CONSTANTS
    n1 = n1
    n2 = n2
    Conns = {n1, n2}
    Room = 1
    Sessions = 3
    Failing = {"alloc", "pend", "push"}
    None = None
INVARIANTS
    TypeOK
    CompletedOnce
    UsedContextsLive
    ListedCount
PROPERTIES
    CloseCompletes
    AskedIsAnswered
CHECK_DEADLOCK FALSE
