SPECIFICATION Spec
CONSTANTS
    TagMod = 2
    FidMod = 4
    MaxMsgSize = 2
    ServerMsizes = {3}
    DirCount = 2
    Slack = 0
    ShortRecvs = TRUE
    MaxNames = 0
    MaxSize = 1
    MaxWant = 1
    MaxListing = 1
    MaxCalls = 1
PROPERTY ReadReturnsFileData
