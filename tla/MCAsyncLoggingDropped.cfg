CONSTANTS
    NumLines = 3
    kSmallBufferSize = 4000
    kMaxNumberSize = 32
    SourceNameSize = 8
    Pieces <- MCPieces
    Fatal = {}
    BufferSize = 8500
    Null = Null
    rollsize_ = 8000
    flushInterval_ = 1
    checkEveryN_ = 2
    kRollPerSeconds_ = 2
    MaxTime = 3
    CountInit <- MCCountInit
SPECIFICATION FairSpec
CHECK_DEADLOCK FALSE
PROPERTY AppendedIsFlushed
