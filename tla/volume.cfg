SPECIFICATION FairSpec
CONSTANTS
    TagMod = 2
    FidMod = 3
    MaxMsgSize = 2
    ServerMsizes = {1, 3}
    DirCount = 2
    Slack = 1
    ShortRecvs = FALSE
    MaxNames = 2
    MaxSize = 2
    MaxWant = 1
    MaxListing = 1
    MaxCalls = 4
INVARIANTS
    Lockstep
    FidAccounting
    WalkedBeforeUse
    DirListingExact
PROPERTIES
    ImplementsVolume
    CallReturns
