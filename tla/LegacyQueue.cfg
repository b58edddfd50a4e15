SPECIFICATION FairQueueSpec
CONSTANTS
    Tipset <- TipsetDef
    Height <- HeightDef
    ParentHeight <- ParentHeightDef
    Blocks <- BlocksDef
    Msg <- MsgDef
    Msgs <- MsgsDef
    Miner <- MinerDef
    From <- FromDef
    To <- ToDef
    Method <- MethodDef
    Pusher = {g}
    Taker = {h}
    MaxPush = 3
    MaxTake = 1
INVARIANT ListsAgree
PROPERTY ReceiptsSettle
CHECK_DEADLOCK FALSE
