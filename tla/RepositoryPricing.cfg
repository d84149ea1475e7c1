SPECIFICATION Spec
CONSTANTS
    Session <- Sessions
    Event <- Events
    Observation <- Observations
    Batch <- PricingBatches
    TicksPerSecond = 2
    Calculator = {"", "c1", "c2"}
    Window = {2}
    MaxClock = 2
    MaxFaults = 2
INVARIANTS
    RequestInvariant
    CostsFollowEvents
PROPERTIES
    CostsAreFinal
    IngestOnlyAdds
    ImplementsRetainedStore
