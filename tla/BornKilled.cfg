SPECIFICATION ProcSpec
CONSTANTS
    Slot = {init, a}
    initproc = init
    NoProc = NoProc
    MaxPid = 2
    Targets = {0, 1}
PROPERTIES
    BornAlive
