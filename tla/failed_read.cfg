SPECIFICATION DokanSpec
CONSTANTS
    TagMod = 2
    FidMod = 8
    MaxMsgSize = 2
    ServerMsizes = {3}
    DirCount = 2
    Slack = 1
    ShortRecvs = FALSE
    MaxNames = 1
    MaxSize = 2
    MaxWant = 2
    MaxListing = 1
    MaxCalls = 3
    DwordMod = 8
INVARIANT SuccessfulReadsGiveFile
