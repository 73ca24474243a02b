CONSTANTS
    Threads = {t1, t2}
    BlockSize_ = 56
    ObjectSizes = {9, 24}
    BlockAddresses = {16, 96}
    AddressSpace = 256
SPECIFICATION Spec
CHECK_DEADLOCK FALSE
SYMMETRY Symmetry
INVARIANT FreedIsKept
