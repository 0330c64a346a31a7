SPECIFICATION MCSpec
CONSTANTS
    Slot = {init, a, b}
    initproc = init
    third = b
    NoProc = NoProc
    MaxPid = 3
    Targets = {0, 2, 3}
    Modes = {TRUE, FALSE}
    Masks = {{}, {"open", "wait"}, {"exit", "kill", "open", "wait"}}
INVARIANTS
    LineageContained
    StrictViolatorStopped
    SandboxInv
PROPERTIES
    MaskRatchet
