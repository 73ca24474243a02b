-------------------------------- MODULE MCLFU --------------------------------
EXTENDS LFU

Symmetry == Permutations(Keys)
==============================================================================
