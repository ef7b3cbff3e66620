CONSTANTS
    p1 = p1
    p2 = p2
    t3 = t3
    Process = {p1, p2}
    Task = {t1, t2, t3}
    NoTask = NoTask
    Key = {1, 2}
    Requests <- EntitiesAndEdges
    Placements <- OneOrTwo
SPECIFICATION FairSpec
INVARIANTS Exclusive CountIsExact
PROPERTIES EveryoneServed
CHECK_DEADLOCK FALSE
