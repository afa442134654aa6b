SPECIFICATION FairSpec
CONSTANTS
    Benches = {{"basic"}}
    Fates <- AllFates
    MaxSessions = 2
    MaxDepth <- DepthTwo
CHECK_DEADLOCK FALSE
PROPERTY LabelMeansGrounded
