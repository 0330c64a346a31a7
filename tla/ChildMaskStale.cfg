SPECIFICATION SandboxSpec
CONSTANTS
    Slot = {init, a}
    third = a
    initproc = init
    NoProc = NoProc
    MaxPid = 2
    Targets = {}
    Modes = {}
    Masks = {{"kill"}, {"kill", "open"}}
PROPERTIES
    ChildAtLeastAsRestricted
