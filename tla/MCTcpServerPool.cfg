CONSTANTS
    Conns = {c1, c2}
    BaseLoop = base
    l1 = l1
    l2 = l2
    PoolLoops <- TwoLoops
    ThreadNums = {0, 1, 2}
    Users = {u1}
    MaxQueued = 1
    ForeignOps = {"sendFile"}
    Stops = TRUE
SPECIFICATION Spec
CHECK_DEADLOCK FALSE
SYMMETRY Symmetry
INVARIANTS
    TypeOK
    NoDanglingChannel
    DestroyedLeftPoller
    UpThenDown

