SPECIFICATION Spec
CONSTANTS
    TagMod = 4
    FidMod = 8
    MaxMsgSize = 2
    ServerMsizes = {3}
    DirCount = 2
    Slack = 1
    ShortRecvs = FALSE
    MaxNames = 1
    MaxSize = 2
    MaxWant = 1
    MaxListing = 1
    MaxCalls = 1
INVARIANT ReadCountFitsBuffer
