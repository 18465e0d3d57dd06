SPECIFICATION Spec
CONSTANTS
    p1 = p1
    p2 = p2
    Pids = {p1, p2}
    NoPid = NoPid
    FrameCount = 3
    MaxPages = 3
    MaxTick = 3
INVARIANTS
    FramesMatchPageTables
    CountersAreExact
PROPERTIES
    EvictsLeastRecentlyUsed
