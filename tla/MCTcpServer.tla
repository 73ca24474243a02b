----------------------------- MODULE MCTcpServer -----------------------------
EXTENDS TcpServer, TLC

CONSTANTS l1, l2

OneLoop == <<l1>>
TwoLoops == <<l1, l2>>

Symmetry == Permutations(Conns)
==============================================================================
