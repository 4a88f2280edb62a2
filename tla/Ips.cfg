SPECIFICATION Spec
CONSTANTS
    n1 = n1
    p1 = p1
    Notifiers = {n1}
    Procs = {p1}
    Modes = {1, 2}
    White = TRUE
    MaxSets = 3
    MaxLoads = 1
    MaxRecords = 1
    Failing = {"process", "directory"}
    Overlap = {"request"}
    None = None
INVARIANTS
    TypeOK
    ReadersSafe
    ListsAccounted
    
    LookasidesSafe
PROPERTIES
    UnloadEnds
CHECK_DEADLOCK FALSE
