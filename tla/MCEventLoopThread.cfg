CONSTANTS
    LoopThread = loopThread
    Foreign = {t1, t2}
    Owner = t1
    Functors = {f1, f2}
SPECIFICATION FairThreadSpec
CHECK_DEADLOCK FALSE
INVARIANTS
    NoMissedWakeup
    JoinedBeforeGone
PROPERTIES
    ImplementsQueue
    QueuedIsExecuted
    StartReturns
    DestructorReturns
