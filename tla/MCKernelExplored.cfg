SPECIFICATION Spec
CONSTANTS
    NumProcs = 4
    Importance <- drone_priority
    Arrival <- drone_get_arrival_time
    Program <- drone_commands
    RRQuantum = 4
    MLFQQuantum <- MCQuantum
    BoostInterval = 10
    MaxReadyQueue = 32
    RingBufferSize = 2
    MaxProcs = 16
    MaxThreads = 32
    FrameCount = 9
    MaxPages = 16
    MaxFiles = 6
    BlockCount = 64
    IODuration = 3
    PageFaultDuration = 3
    PageFaultInterval = 3
    DetectInterval = 10
    SnapshotInterval = 5
    MaxPending = 32
    Lines <- TypedLines
    LeftOver <- LeftOvers
    Bursts <- ExploredBursts
    Configs <- ExploredConfigs
    MaxTicks = 60
INVARIANTS
    SchedulerIsSound
    GraphIsSound
    MemoryIsSound
    TablesAreSound
    WaitIsBounded
    WaitFitsTurnaround
    PromptIsObeyed
PROPERTIES
    TerminatedIsFinal
    CrashReleasesHoldings
CHECK_DEADLOCK FALSE
