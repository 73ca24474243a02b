----------------------------- MODULE MCTcpOutput -----------------------------
EXTENDS TcpOutput, TLC

CONSTANTS m1, m2

MCSize == [m \in Messages |-> IF m = m2 THEN 1 ELSE 2]
==============================================================================
