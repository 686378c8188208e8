------------------------------ MODULE MCFiles ------------------------------
EXTENDS Files

Symmetry ==
  Permutations(Threads) \cup Permutations(Names) \cup Permutations(Inodes)
    \cup Permutations(ForkIds) \cup Permutations(Blocks)
=============================================================================
