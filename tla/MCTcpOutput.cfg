CONSTANTS
    LoopThread = loopThread
    Callers = {loopThread, t1}
    m1 = m1
    m2 = m2
    Messages = {m1, m2}
    Size <- MCSize
    Files = {f1}
    FileSize = 2
    HighWaterMark = 2
    WriteCompleteCallback = TRUE
SPECIFICATION FairSpec
CHECK_DEADLOCK FALSE
INVARIANTS
    TypeOK
    StreamIntact
    WritingIffBuffered
    ShutdownAfterDrain
    CompletionTold
    FileConserved
PROPERTY ShutdownCompletes
