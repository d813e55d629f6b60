CONSTANTS
    Goroutines = {c1, c2}
    Buffers = {b1, b2}
    N = 1
    None = None
    Grown = Grown
    MessageSize = 2
    FrameSizes = {1}
    MaxMessages = 2
    MaxFrames = 2
    GuardedClose = TRUE
SPECIFICATION Spec
INVARIANT FrameIsMessage
