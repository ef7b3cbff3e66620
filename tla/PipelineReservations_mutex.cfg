\* Two calls of any kind, two kills, two queued retries.
SPECIFICATION FairSpec
CONSTANTS
    j1 = j1
    j2 = j2
    j3 = j3
    Job = {j1, j2}
    NoJob = NoJob
    Calls <- AllCalls
    MaxRetries = 2
    MaxCrashes = 2
CHECK_DEADLOCK FALSE
INVARIANTS
    SingleWriter DestructionAlone ResetWithoutProducers
    ClassifyWithoutProducers
PROPERTIES
    FenceHolds HalfDoneIsFenced FreezeEnds SlotReturned
