SPECIFICATION LiveSpec
CONSTANTS
    Ops = {o1}
    Clients = {c1, c2}
    Workers = {w1, w2}
    Drainer = d
    NoOp = NoOp
    MaxQueueDepth = 2
    MaxDrains = 1
INVARIANT DrainIsSafe
PROPERTY RuntimeWindsDown
CHECK_DEADLOCK FALSE
