CONSTANTS
    Rounds = 3
    MessageLen = 3
    WsRounds = 2
    Frames = 3
    FrameLen = 2
    SendLimit = 4
    Window = 3
    Tasks = 4
    ClientNum = 2
SPECIFICATION AllSpec
INVARIANTS
    TunnelsTypeOK StreamIntact DstHasSession TunnelsIntact TasksAnswered
PROPERTIES
    EchoSpec ProxiesEcho PeersCloseTogether ClientsReturn
CHECK_DEADLOCK FALSE
