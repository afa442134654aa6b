SPECIFICATION FairSpec
CONSTANTS
    Benches = {{"basic", "smart"}, {"busway"}}
    Fates <- FatesBoxes
    MaxSessions = 2
    MaxDepth <- DepthBoxes
CHECK_DEADLOCK FALSE
INVARIANTS
    TypeOK
    InstrumentOff
    ShownIsLogged
PROPERTIES
    LabelOnlyIfMeasured
    SerialsUnique
    SessionEnds
    AlarmShown
