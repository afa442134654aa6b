SPECIFICATION FairSpec
CONSTANTS
    Products <- MCProducts
    Patience = 2
CHECK_DEADLOCK FALSE
INVARIANTS
    TypeOK
    PassMeansSound
    SoundPasses
    FailureIsNoted
PROPERTY
    Ends
