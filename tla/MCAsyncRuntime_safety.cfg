SPECIFICATION Spec
CONSTANTS
    Ops = {o1, o2}
    Clients = {c1, c2}
    Workers = {w1}
    Drainer = d
    NoOp = NoOp
    MaxQueueDepth = 1
    MaxDrains = 1
SYMMETRY Symmetry
INVARIANT OperationsAreCounted
PROPERTY ImplementsLifecycle
CHECK_DEADLOCK FALSE
