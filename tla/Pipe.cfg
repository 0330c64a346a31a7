\* Readers, writers and ends may all be gone: the pipe is then freed.
CHECK_DEADLOCK FALSE
SPECIFICATION FairPipeSpec
CONSTANTS
    Reader = {r1, r2}
    Writer = {w1}
    NoProc = NoProc
    Byte = {0, 1}
    PIPESIZE = 2
    UintSize = 4
    CallSizes = {0, 3}
INVARIANTS
    PipeInv
PROPERTIES
    Fifo
    ReaderSeesEnd
