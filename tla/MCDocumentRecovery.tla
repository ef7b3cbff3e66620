--------------------------- MODULE MCDocumentRecovery ---------------------------
EXTENDS DocumentRecovery, TLC

\* the second attempt makes other chunks and other names
CONSTANTS p1, p2, c1, c2, e1, e2

MCChunksOf == (p1 :> {c1}) @@ (p2 :> {c1, c2})
MCNamesOf == (p1 :> {e1}) @@ (p2 :> {e2})
================================================================================
