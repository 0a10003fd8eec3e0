--------------------------- MODULE MCBlockFreeList ---------------------------
EXTENDS BlockFreeList, TLC
Symmetry == Permutations(Threads) \cup Permutations(Nodes)
=============================================================================
