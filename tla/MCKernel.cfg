SPECIFICATION Spec
CONSTANTS
    NumProcs = 4
    Importance <- drone_priority
    Arrival <- drone_get_arrival_time
    Program <- drone_commands
    RRQuantum = 4
    MLFQQuantum <- MCQuantum
    BoostInterval = 30
    MaxReadyQueue = 32
    RingBufferSize = 8
    MaxProcs = 16
    MaxThreads = 32
    FrameCount = 16
    MaxPages = 16
    MaxFiles = 16
    BlockCount = 64
    IODuration = 3
    PageFaultDuration = 3
    PageFaultInterval = 8
    DetectInterval = 10
    SnapshotInterval = 5
    MaxPending = 32
    Lines <- TypedLines
    LeftOver <- LeftOvers
    Bursts <- ShippedBursts
    Configs <- ShippedConfigs
    MaxTicks = 120
INVARIANTS
    ReportIsReproduced
    DeadlockIsShort
    ImportantProcessesFinish
PROPERTIES
    VictimsAreExpendable
CHECK_DEADLOCK FALSE
