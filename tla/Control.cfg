SPECIFICATION Spec
CONSTANTS
    a1 = a1
    a2 = a2
    process = process
    directory = directory
    h1 = h1
    h2 = h2
    w1 = w1
    w2 = w2
    Actors = {a1}
    Commands = {"monOn", "monOff", "ipsOn", "ipsOff", "reload", "query", "exit"}
    Failing = {"open", "share"}
    Kinds = {process, directory}
    Handles = {h1, h2}
    Workers = {w1, w2}
    None = None
INVARIANTS
    FlagsAgree
    SessionAgrees
    MonitorHasWorker
CHECK_DEADLOCK FALSE
