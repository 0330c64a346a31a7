SPECIFICATION MemSpec
CONSTANTS
    NFrame = 18
    NProc = 2
    PGSIZE = 2
    UserPages = 4
    LEAF = 3
    WORD = 32
    Programs <- MCPrograms
    Grows = {1, 2}
    Shrinks = {1}
    MaxCall = 1
    MaxTotal = 7
INVARIANTS
    FramesAccountedFor
    PagesSound
PROPERTIES
    ForkCopies
    QuotaHolds
VIEW MCView
