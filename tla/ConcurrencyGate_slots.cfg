SPECIFICATION FairSpec
CONSTANTS
    p1 = p1  p2 = p2  l1 = l1  l2 = l2
    Proc = {p1, p2}
    Lease = {l1, l2}
    Limit = 1
    TTL = 2
    Grace = 1
INVARIANTS
    TableWithinLimit CapIsExact
PROPERTIES SlotComesBack
