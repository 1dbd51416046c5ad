\* Two collections of one device; see DeviceRoundsMC for the configurations.
SPECIFICATION FairSpec
CHECK_DEADLOCK FALSE
CONSTANTS
    Callers <- MCCallers
    Stoppable <- MCStoppable
    ClassOf <- MCClassOf
    PoolLists <- MCPoolLists
    ProjectLists <- MCProjectLists
    RawConfigs <- MCRawConfigs
INVARIANTS
    DTypeOK
    GetsInsideSession
    
    NamesAreAccounted
    NothingStaysOpen
    
PROPERTIES
    WorkEnds
