SPECIFICATION Spec
CONSTANTS
    Radix = 32
    Width <- MCWidth
    ShortRecvs = FALSE
    ServerMessages <- TextMessages
    Directories <- MCDirectories
    MaxMessages = 2
    StaleOctets = {0, 31}
    Allocatable = 100
INVARIANT LoggedTextIsServers
