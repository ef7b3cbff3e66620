----------------------------- MODULE MCCustomChunks -----------------------------
EXTENDS CustomChunks, TLC

\* two calls that share a chunk, for a document that has one or none
CONSTANTS b, c1, c2, e1, e2

MCOps == {{c1}, {c1, c2}}
Symmetry == Permutations(Name)
================================================================================
