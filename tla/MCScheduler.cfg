SPECIFICATION Spec
CONSTANTS
    t1 = t1
    t2 = t2
    t3 = t3
    Threads = {t1, t2, t3}
    NoThread = NoThread
    Priority <- MCPriority
    RRQuantum = 2
    MLFQQuantum <- MCQuantum
    BoostInterval = 4
    MaxReadyQueue = 3
INVARIANTS
    TypeOK
    QueuesAreDisjoint
    OneThreadRuns
    NoThreadIsLost
    LevelsMatchQueues
PROPERTIES
    FirstComeFirstServed
    NoEarlyPreemption
    HighestLevelFirst
