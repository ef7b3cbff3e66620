---------------------------- MODULE MCVectorStorage ----------------------------
EXTENDS VectorStorage, TLC

CONSTANTS p1, p2, k1, k2

Symmetry == Permutations(Proc) \cup Permutations(Key)
================================================================================
