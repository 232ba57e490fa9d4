SPECIFICATION Spec
CONSTANTS
    TagMod = 4
    FidMod = 8
    MaxMsgSize = 2
    ServerMsizes = {3}
    DirCount = 2
    Slack = 0
    ShortRecvs = FALSE
    MaxNames = 2
    MaxSize = 3
    MaxWant = 2
    MaxListing = 1
    MaxCalls = 3
INVARIANTS
    TypeOK
    Lockstep
    FreshFid
    MountNeedsVersion
    RootPinned
    FidAccounting
    WalkedBeforeUse
    DirListingExact
    WholeFramesGiveFileData
