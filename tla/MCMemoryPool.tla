---------------------------- MODULE MCMemoryPool ----------------------------
EXTENDS MemoryPool

Symmetry == Permutations(Threads)
==============================================================================
