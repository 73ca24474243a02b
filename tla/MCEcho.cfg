CONSTANTS
    Byte <- MCByte
    Zero = 0
    kCheapPrepend = 1
    kInitialSize = 2
    ExtraSize = 2
    Stream <- MCStream
SPECIFICATION FairSpec
CHECK_DEADLOCK FALSE
INVARIANTS
    EchoTypeOK
    EchoInOrder
PROPERTY AllEchoed
