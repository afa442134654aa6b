SPECIFICATION FairSpec
CONSTANTS
    Benches = {{"smart"}}
    Fates <- AllFates
    MaxSessions = 2
    MaxDepth <- DepthTwo
CHECK_DEADLOCK FALSE
PROPERTY LoggedPassIsClean
