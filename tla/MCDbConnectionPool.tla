------------------------- MODULE MCDbConnectionPool --------------------------
EXTENDS DbConnectionPool
==============================================================================
