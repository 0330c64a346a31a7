SPECIFICATION FsSpec
CONSTANTS
    Thread = {t1, t2}
    NoThread = NoThread
    NInodes = 3
    t1 = t1
    t2 = t2
    a = a
    b = b
    Name = {a, b}
    DotDot = DotDot
    Block = {b1, b2, b3}
    NoBlock = NoBlock
    Calls <- MCCalls
    NewPaths <- MCNewPaths
INVARIANT
    OrphansHeld
