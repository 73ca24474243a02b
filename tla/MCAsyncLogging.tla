--------------------------- MODULE MCAsyncLogging ---------------------------
EXTENDS AsyncLogging

\* the fifth line fills its small buffer: the number of its tail is given up
MCPieces == [l \in Lines |-> IF l = 5 THEN <<Text(3950)>> ELSE <<Text(3900), Digits(2)>>]
MCCountInit == {-1, 3}
==============================================================================
