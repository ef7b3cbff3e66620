SPECIFICATION FairSpec
CONSTANTS
    j1 = j1
    j2 = j2
    j3 = j3
    Job = {j1, j2}
    NoJob = NoJob
    Calls <- LiveCalls
    OldDocs = 2
    MaxDoc = 3
    PageSize = 1
    DocCapacity = 1
    MaxCrashes = 0
    MayFail = FALSE
    LockExitCancel = FALSE
CHECK_DEADLOCK FALSE
INVARIANTS
    WorkIsDriven
PROPERTIES
    Processed
    RetryServed
