CONSTANTS
    Keys = {a, b, c, d}
    capacity_ = 3
    maxAverageNum_ = 4
    MaxTotal = 20
SPECIFICATION CacheSpec
SYMMETRY Symmetry
INVARIANTS
    CacheTypeOK
    ListsMatchNodes
    KickOutFindsKey
PROPERTY EvictsLeast
