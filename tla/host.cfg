CONSTANTS
    Adapters = {"a", "b"}
    Base = "base"
    Jobs = 3
    MaxSentences = 2
    CacheSize = 1
    PoolSize = 2
    WarmupVoices <- Warm
    EngineFaults = 1
    Uris = {"x", "y"}
    Size <- SizeDef
    CacheMax = 2
    Fetchers = {"t1", "t2", "t3"}
    ProcessOf <- ProcDef
    MaxFetches = 3
    CacheFaults = 1
    Workers = {"w1"}
    Handlers = {"h1", "h2"}
    QueueLimit = 1
    WorkerCapacity = 1
    BeatTtl = 2
    StaleAfter = 3
    Skews = {1}
    CapacityFaults = 2
SPECIFICATION HostSpec
INVARIANTS
    EngineSound
    DoneIsWhole
    FetchSound
    DirectorySound
    CapacitySound
PROPERTIES
    OneCopyPerModel
    EveryJobEnds
    EveryFetchEnds
    AdmitsAgain
CHECK_DEADLOCK FALSE
