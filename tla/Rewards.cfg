\* Windows of 3 heights, records of every 2nd height in batches of 2.
SPECIFICATION Spec
CONSTANTS
    Mined <- MCMined
    Asks <- MCAsks
    WorkerOf <- MCWorkerOf
    Total = 100
    Divisor = 8
    Window = 3
    MaxRounds = 4
    MaxCrashes = 1
    TotalRewards = 100
    Part = 8
    Every = 2
    BulkSize = 2
    Heads = {5, 9}
    MaxStarts = 2
    GenesisTime = 1
    Word = 64
    MaxFails = 1
INVARIANTS
    PaidIsReleased
    NeverUnderstated
    AnswersCoverPeriods
PROPERTIES
    LatestRewardNeverRises
CHECK_DEADLOCK FALSE
