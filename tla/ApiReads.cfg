\* A cache of three tipsets; requests of a few heights, counts and start indexes.
SPECIFICATION Spec
CONSTANTS
    Tipset <- MCTipset
    Parent <- MCParent
    Height <- MCHeight
    Block <- MCBlock
    Message <- MCMessage
    Blocks <- MCBlocks
    Messages <- MCMessages
    BlockHeight <- MCBlockHeight
    BlockTime <- MCBlockTime
    Match <- MCMatch
    Mined <- MCMined
    Genesis = "g"
    NoTipset = "none"
    MaxSize = 3
    FirstHead = "a5"
    Word = 16
    Ends = {4, 6}
    Counts = {1, 3, 7}
    Begins = {0, 1, 4, 6}
    Windows <- MCWindows
    TimeNow = 18
    Day = 10
    Week = 11
    Hour = 4
    MaxPoints = 25
    Filters = {0, 3, 4}
INVARIANTS
    CacheFirstMissesNothing
    FoundUnlessMoved
    NeverOverstates
    PagesOffTheSeam
CHECK_DEADLOCK FALSE
