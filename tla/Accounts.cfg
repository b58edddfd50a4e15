\* Two addresses, two seconds, two versions of an actor, one failed call.
SPECIFICATION ReadsSpec
CONSTANTS
    Address = {"t3w", "t0m"}
    Wallet = {"t3w"}
    Source <- MCSource
    NoAccount = NoAccount
    MaxTime = 1
    MaxVersion = 2
    MaxFails = 1
INVARIANT
    OwnersShowTheirWork
PROPERTIES
    AddressesGetActors
    ActorsDontGoBack
    RolesStay
CHECK_DEADLOCK FALSE
