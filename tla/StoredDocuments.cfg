\* Two writers over four tipsets, one failed call each of storing and of the
\* pipeline; two puts of the daemon at a time, two in all.
SPECIFICATION DocSpec
CONSTANTS
    Actors <- MCActors
    addressToCode <- MCAddressToCode
    MinerCode = "miner"
    Struct <- MCStruct
    Msg <- MCMsg
    To <- MCTo
    Number <- MCNumber
    ById <- MCById
    Decodes <- MCDecodes
    Tipset <- MCTipset
    Height <- MCHeight
    Blocks <- MCBlocks
    Msgs <- MCMsgs
    ParentMessages <- MCParentMessages
    Writer = {"run_syncer", "sync_to_genesis"}
    Lists <- MCLists
    MaxSize = 3
    MaxErrors = 1
    State <- MCState
    GenesisStates <- MCGenesisStates
    Sender = {"run_syncer", "sync_to_genesis"}
    Work <- MCWork
    NoState = NoState
    BufferSize = 2
    ChanSize = 1
    MaxFails = 2
    MaxTicks = 1
    Raw <- MCRaw
    Unmarshals <- MCUnmarshals
    Calls <- MCCalls
    Fields <- MCFields
    Intos = {"Cid"}
    Deleted = {"c"}
    Slot = {1, 2}
    MaxPuts = 2
    MaxFailures = 1
    MaxDeaths = 1
    MaxTime = 1
INVARIANTS
    EachFailureLosesOne
    StoredIsCached
    TipsetsAreWhole
    MirrorIsTrue
PROPERTY
    SendersReturn
CHECK_DEADLOCK FALSE
