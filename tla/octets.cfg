SPECIFICATION Spec
CONSTANTS
    Radix = 32
    Width <- MCWidth
    ShortRecvs = TRUE
    ServerMessages <- AllMessages
    Directories <- MCDirectories
    MaxMessages = 2
    StaleOctets = {0, 31}
    Allocatable = 100
INVARIANTS TypeOK OverrunNeedsShortRecv WholeFramesAreServers EntriesAreServers
PROPERTY ReceiveImplements
