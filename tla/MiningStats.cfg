\* Two miners, four blocks, four states, one failed query; eighteen requests.
SPECIFICATION StatsSpec
CONSTANTS
    Mined <- MCMined
    States <- MCStates
    Requests <- MCRequests
    GenesisTime = 5
    Now = 9
    Hour = 2
    Day = 4
    MaxPoints = 3
    MaxRepeate = 3
    Word = 64
    MaxFails = 1
INVARIANTS
    RowsOfTheWindow
    SharesAddUp
    PointsShowTheirTime
CHECK_DEADLOCK FALSE
