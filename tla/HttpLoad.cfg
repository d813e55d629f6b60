CONSTANTS
    Conns = {1, 2}
    NumAddrs = 1
    Bodies = {0}
    MaxBreaks = 1
    ClientNum = 2
    GoroutineNum = 2
    MaxPosts = 3
SPECIFICATION FairSpec
INVARIANTS TypeOK CountsAgree
PROPERTIES PostsReturn
CHECK_DEADLOCK FALSE
