SPECIFICATION Spec
CONSTANTS
    a1 = a1
    a2 = a2
    process = process
    directory = directory
    h1 = h1
    h2 = h2
    w1 = w1
    w2 = w2
    Actors = {a1, a2}
    Commands = {"monOn", "monOff", "ipsOn", "ipsOff", "reload", "query", "exit"}
    Failing = {"open", "share", "query"}
    Kinds = {process}
    Handles = {h1, h2}
    Workers = {w1}
    None = None
INVARIANTS
    TypeOK
    QuietWhenClosed
CHECK_DEADLOCK FALSE
SYMMETRY MCSymmetry
