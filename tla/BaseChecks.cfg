SPECIFICATION FairSpec
CONSTANTS
    Products <- MCProducts
    Patience = 2
CHECK_DEADLOCK FALSE
INVARIANTS
    TypeOK
    SoundPasses
    FaultIsNoted
    BreakerBack
    SettingsKept
    EnergyCleared
PROPERTY
    Ends
