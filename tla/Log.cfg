SPECIFICATION FairLogSpec
CONSTANTS
    Thread = {p, q, r}
    Block = {b1,b2}
    Val = {v0, v1}
    Blank = v0
    NotCached = NotCached
    MAXOPBLOCKS = 3
    LOGBLOCKS = 7
    OpBlocks = 2
INVARIANTS
    CopiesKept
    LogInv
PROPERTIES
    AtomicSpec
    SleeperWakes
