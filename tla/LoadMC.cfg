CONSTANTS
    Conns = {1, 2}
    NumAddrs = 2
    Bodies = {0, 1}
    MaxBreaks = 1
    MaxLoops = 2
    MaxLoopers = 2
    Flags <- MCFlags
    Ticks = 2
    MaxEchoes = 2
    Settings <- MCSettings
    PoolWorkers = 1
    PoolQueue = 1
    MaxRounds = 2
SPECIFICATION MCSpec
INVARIANTS LoadersTypeOK TestIsSound PoolLoadIsSound
PROPERTIES TallySpec LoadersFinish
CHECK_DEADLOCK FALSE
