SPECIFICATION FairSpec
CONSTANTS
    Session <- Sessions
    Event <- Events
    Observation <- Observations
    Batch <- LineageBatches
    TicksPerSecond = 2
    Calculator = {"catalog"}
    Window = {1, 2}
    MaxClock = 4
    MaxFaults = 1
INVARIANTS
    TablesInvariant
    DerivedTablesAgree
    RelationKeyHolds
PROPERTIES
    RetentionIsExact
    ReplayIsSilent
    RequestsEnd
    ExpiredSessionsGo
