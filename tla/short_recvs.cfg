SPECIFICATION Spec
CONSTANTS
    TagMod = 2
    FidMod = 4
    MaxMsgSize = 0
    ServerMsizes = {0}
    DirCount = 2
    Slack = 0
    ShortRecvs = TRUE
    MaxNames = 0
    MaxSize = 0
    MaxWant = 1
    MaxListing = 0
    MaxCalls = 2
INVARIANT FreshFid
