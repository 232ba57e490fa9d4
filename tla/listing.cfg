SPECIFICATION Spec
CONSTANTS
    Half = 32
    EpochDiff = 37
    TicksPerSecond = 10
    NameSize = 4
    RStats <- MCRStats
    StackWords = {0, 31}
    Walks <- MCWalks
    Gaps = {1, 2}
INVARIANTS TypeOK ToldExactly NamesAreWhole ListedNamesOpen
