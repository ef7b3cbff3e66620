SPECIFICATION FairSpec
CONSTANTS
    c1 = c1  c2 = c2  c3 = c3  w1 = w1  l1 = l1
    NoLease = NoLease  NoCall = NoCall
    Call = {c1, c2, c3}
    Worker = {w1}
    Lease = {l1}
    MaxQueueSize = 1
    Limit = 1
    DrainLimit = 1
    CompactAt = 0
INVARIANTS
    ReservationsExact AdmissionToldOfRoom GlobalLimit NoOrphanLease
PROPERTIES EveryCallAnswered
