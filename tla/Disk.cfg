SPECIFICATION Spec
CONSTANTS
    Task = {u1, u2}
    NoTask = NoTask
    Buf = {f1, f2}
    BlockNo = {k1, k2, k3, k4}
    NeverUsed = NeverUsed
    Val = {v0, v1}
    Blank = v0
    MaxHeld = 1
    IoBuf = {i1, i2, i3}
    NoBuf = NoBuf
    NUM = 8
    UintSize = 16
SYMMETRY Symmetry
VIEW View
INVARIANTS
    BufInv
    PanicMeansFull
    DescsAccountedFor
    RequestTracked
PROPERTIES
    StoreSpec
    ReturnsTransferred
