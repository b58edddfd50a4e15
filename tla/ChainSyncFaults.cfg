\* Two crashes and restarts, one failed call, one lost notification.
SPECIFICATION Spec
CONSTANTS
    Tipset <- MCTipset
    Parent <- MCParent
    Height <- MCHeight
    Genesis = "g"
    NoTipset = "none"
    NoPath = NoPath
    LoadLimit = 20
    MaxSize = 2
    FirstHead = "a4"
    BatchSize = 2
    MaxBurst = 2
    MaxReorg = 2
    MaxQueue = 2
    MaxMissed = 1
    MaxFails = 1
    MaxStarts = 3
INVARIANTS
    CacheIsChain
    NeverImpossible
    MinersSentBeforeStored
PROPERTY
    FrontOnlyWidens
CHECK_DEADLOCK FALSE
