CONSTANTS
    Conns = {c1}
    BaseLoop = base
    l1 = l1
    l2 = l2
    PoolLoops <- OneLoop
    ThreadNums = {0, 1}
    Users = {u1, u2}
    MaxQueued = 1
    ForeignOps = {"send", "shutdown"}
    Stops = TRUE
SPECIFICATION FairSpec
CHECK_DEADLOCK FALSE
PROPERTY ClosedIsDestroyed
