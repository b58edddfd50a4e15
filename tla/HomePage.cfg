\* Two requests at a time, three seconds; two peers with an address each or the same.
SPECIFICATION Spec
CONSTANTS
    Request = {r1, r2}
    CashTime = 1
    FirstNow = 2
    MaxNow = 5
    MaxRun = 1
    Lag = {0, 2}
    Peer = {p1, p2}
    Ip = {i1}
    Day = 1
    Week = 2
SYMMETRY Alike
INVARIANTS
    TimeVouchesForFields
    OldOnlyBesideRefresh
    AnswersFromOneRefresh
    PeersLeaveTheMap
CHECK_DEADLOCK FALSE
