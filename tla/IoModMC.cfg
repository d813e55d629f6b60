CONSTANTS
    Plans <- MCPlans
    MaxAddrs = 2
    MaxRounds = 2
    MaxUrls = 2
SPECIFICATION FairSpec
INVARIANTS TypeOK NothingFatal TestsAreOver
PROPERTIES MainReturns
CHECK_DEADLOCK FALSE
