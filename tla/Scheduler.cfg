SPECIFICATION FairSchedSpec
CONSTANTS
    Cpu = {h0, h1}
    cpu0 = h0
    NProc = 2
    tickslock = tickslock
    NoOne = NoOne
    Pauses = {1}
    Killers = {1}
INVARIANTS
    NoLostWakeup
    SchedInv
PROPERTIES
    PauseReturns
