------------------------- MODULE MCKeyedHolderTable -------------------------
(* Small instances of KeyedHolderTable for TLC.                            *)
EXTENDS KeyedHolderTable, TLC

CONSTANTS p1, p2, l1, l2, l3

\* Whose the leases are, up to the names of leases and PIDs: ownerPid is
\* chosen by TableInit and never changes, so the other behaviours are renamings
\* of these.
UpToNames == ownerPid[l1] = p1 /\ ownerPid[l2] = p1
=============================================================================
