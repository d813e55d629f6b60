CONSTANTS
    Users <- MCUsers
    MaxRounds = 1
    Rounds = 3
    MaxCopies = 2
    Requests = 3
    MaxDuplicates = 2
    LtBuffer = 2
    LtData = 7
    BenchBuffer = 4
    BenchData = 4
    bufsize = 5
    BufferLen = 10
    Conns <- MCConns
    Flooders <- MCFlooders
    MaxInUse = 4
    MaxTimers = 2
    FramesOf <- MCFramesOf
    MaxRead = 3
    BufSize = 5
    MaxWriteBufferSize = 5
    KernelBuffer = 2
    readCount = 4
    EchoCount = 3
    HelloLen = 3
SPECIFICATION Spec
INVARIANTS
    SmallTypeOK TransferIsOrdered DatagramsMatch NothingLeftUnread StartUpIsSound UploadsAreSound EchoesAreCounted
PROPERTIES
    SmallProgramsProgress
CHECK_DEADLOCK FALSE
