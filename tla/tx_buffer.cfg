SPECIFICATION Spec
CONSTANTS
    Radix = 128
    Width <- MCWidth
    Capacity = 30
    Beyond = 130
    OldOctet = 127
    Requests <- MCRequests
    MaxMessages = 3
INVARIANTS TypeOK WithinBuffer ServerReadsRequest SizeIsExact
