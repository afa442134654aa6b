SPECIFICATION FairSpec
CONSTANTS
    Clients <- MCClients
    Kind <- MCKind
    Tries <- MCTries
    OnGui = {"button"}
    Ports <- MCPorts
    MaxCalls <- MCMaxCalls
    Rounds <- MCRounds
    MaxMishaps = 1
CHECK_DEADLOCK FALSE
INVARIANTS
    TypeOK
    OwnAnswer
    AckedIsObeyed
    AckedWasSent
    GuiTakesLeftovers
PROPERTIES
    Drains
    InOrder
