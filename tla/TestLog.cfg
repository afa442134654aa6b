SPECIFICATION Spec
CONSTANTS
    Checks = 1
    Confirmed = 1
    MaxSessions = 2
CHECK_DEADLOCK FALSE
INVARIANTS
    TypeOK
    InRange
    EntryIsTrue
PROPERTY
    ShownAsNoted
