CONSTANTS
    Users = {u1, u2, u3, u4}
    PoolSize = 2
    MaxConns = 2
SPECIFICATION FairSpec
INVARIANTS
    TypeOK
    ConnectionsConserved
    NobodyWaitsInVain
PROPERTIES
    WaitersAreServed
    IdleConnectionsRecover
