SPECIFICATION Spec
CONSTANTS
    j1 = j1
    j2 = j2
    j3 = j3
    Job = {j1, j2, j3}
    NoJob = NoJob
    Calls <- WakeCalls
    OldDocs = 0
    MaxDoc = 2
    PageSize = 2
    DocCapacity = 1
    MaxCrashes = 0
    MayFail = TRUE
    LockExitCancel = FALSE
SYMMETRY Symmetry
CHECK_DEADLOCK FALSE
INVARIANTS
    NoLostWakeUp
