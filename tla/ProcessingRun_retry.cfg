SPECIFICATION Spec
CONSTANTS
    j1 = j1
    j2 = j2
    j3 = j3
    Job = {j1, j2, j3}
    NoJob = NoJob
    Calls <- RetryCalls
    OldDocs = 2
    MaxDoc = 3
    PageSize = 1
    DocCapacity = 1
    MaxCrashes = 1
    MayFail = FALSE
    LockExitCancel = TRUE
SYMMETRY Symmetry
CHECK_DEADLOCK FALSE
INVARIANTS
    ResetFromIdle
    RetryHonoured
