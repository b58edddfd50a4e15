\* A crash between persisting a path and storing what it claims.
SPECIFICATION Spec
CONSTANTS
    Tipset <- MCTipset
    Parent <- MCParent
    Height <- MCHeight
    Genesis = "g"
    NoTipset = "none"
    NoPath = NoPath
    LoadLimit = 20
    MaxSize = 1
    FirstHead = "a2"
    BatchSize = 2
    MaxBurst = 2
    MaxReorg = 2
    MaxQueue = 2
    MaxMissed = 0
    MaxFails = 0
    MaxStarts = 2
INVARIANT
    LoadedPathsAreStored
CHECK_DEADLOCK FALSE
