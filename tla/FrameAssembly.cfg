CONSTANTS
    Goroutines = {c1, c2}
    Buffers = {b1, b2}
    N = 1
    None = None
    Grown = Grown
    MessageSize = 2
    FrameSizes = {1, 3}
    MaxMessages = 2
    MaxFrames = 3
    GuardedClose = TRUE
SPECIFICATION FairSpec
INVARIANTS TypeOK SessionOwnsBuffer EchoExact IdleKeepsAll
PROPERTIES PoolUse HandlersReturn
