\* Two of three miners are cached; the windows move once or twice.
SPECIFICATION Spec
CONSTANTS
    Miner = {"m1", "m2", "m3"}
    Time = {3, 5, 11}
    Power <- MCPower
    Capacity = 2
    Slots = 3
    Duration = 2
    StartTime = 4
    Now = 6
    NoState = NoState
    NoMiner = NoMiner
    ChanSize = 1
    MaxFails = 1
INVARIANTS
    SlotsSound
PROPERTIES
    OnlyRefillsLeaveMinStale
    NeverOlder
CHECK_DEADLOCK FALSE
