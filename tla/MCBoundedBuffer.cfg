SPECIFICATION Spec
CONSTANTS
    p1 = p1
    p2 = p2
    p3 = p3
    a = a
    b = b
    Pids = {p1, p2, p3}
    NoPid = NoPid
    Items = {a, b}
    Size = 3
    MaxProcs = 3
    MaxThreads = 4
INVARIANTS
    RefusedAreRegistered
    OneSideWaits
PROPERTIES
    ImplementsChannel
