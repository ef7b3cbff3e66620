--------------------------- MODULE MCConcurrencyGate ---------------------------
\* Two worker processes and one slot; a second lease id lets one of them keep a
\* lease that was reclaimed while the other is granted a new one.
EXTENDS ConcurrencyGate

CONSTANTS p1, p2, l1, l2
=============================================================================
