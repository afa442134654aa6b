SPECIFICATION FairSpec
CONSTANTS
    Benches = {{"busway"}}
    Fates <- AllFates
    MaxSessions = 2
    MaxDepth <- DepthTwo
CHECK_DEADLOCK FALSE
PROPERTY ShownIsFinal
