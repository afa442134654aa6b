SPECIFICATION FairSpec
CONSTANTS
    Kinds = {"START"}
    MaxSessions = 2
    OrderSize = 1
PROPERTY EarlyEndEnds
