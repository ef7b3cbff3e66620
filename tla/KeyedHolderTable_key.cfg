SPECIFICATION FairTableSpec
CONSTANTS
    p1 = p1  p2 = p2  l1 = l1  l2 = l2  l3 = l3
    Pid = {p1, p2}
    Lease = {l1, l2, l3}
    NoLease = NoLease
    MaxStart = 2
    SampleMayFail = FALSE
CONSTRAINT UpToNames
CHECK_DEADLOCK FALSE
INVARIANTS MutualExclusion HolderIsRecorded
PROPERTIES ReclaimOnlyTheDead MutexSpec WaiterServed
