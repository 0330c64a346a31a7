SPECIFICATION FairProcSpec
CONSTANTS
    Slot = {init, a, b}
    initproc = init
    NoProc = NoProc
    MaxPid = 4
    Targets = {0, 1, 2, 3, 4}
INVARIANTS
    ProcInv
PROPERTIES
    KilledDies
    OrphanReaped
