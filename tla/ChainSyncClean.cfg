\* No crash and no failed call; forks up to the depth of the cache.
SPECIFICATION FairSpec
CONSTANTS
    Tipset <- MCTipset
    Parent <- MCParent
    Height <- MCHeight
    Genesis = "g"
    NoTipset = "none"
    NoPath = NoPath
    LoadLimit = 20
    MaxSize = 1
    FirstHead = "a2"
    BatchSize = 2
    MaxBurst = 2
    MaxReorg = 2
    MaxQueue = 2
    MaxMissed = 0
    MaxFails = 0
    MaxStarts = 1
INVARIANTS
    NoSafeTipsetLost
    ClaimedIsStoredOrInFlight
PROPERTIES
    ImplementsIndex
    WalkReachesGenesis
CHECK_DEADLOCK FALSE
