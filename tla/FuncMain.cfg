SPECIFICATION FairSpec
CONSTANTS
    Kinds = {"START", "INSERT", "BASIC"}
    MaxSessions = 2
    OrderSize = 1
INVARIANTS
    TypeOK
    VerdictsAgree
    BenchOff
    RunInv
    OutcomeInv
PROPERTIES
    LabelOnlyIfClean
    PassNeedsAnswer
    OrderCounts
    KeepsVerdict
    SessionEnds
