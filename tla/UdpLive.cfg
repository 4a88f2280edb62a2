SPECIFICATION Spec
CONSTANTS
    k1 = k1
    k2 = k2
    e1 = e1
    e2 = e2
    Callers = {k1}
    Endpoints = {e1}
    MaxContexts = 2
    MaxPackets = 3
    MaxBuffers = 2
    Room = 2
    Limit = 1
    Sessions = 1
    Failing = {"push", "inject"}
    Worker = Worker
    None = None
PROPERTIES
    QueueDrains
    ClosedIsFreed
CHECK_DEADLOCK FALSE
