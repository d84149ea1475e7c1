SPECIFICATION Spec
CONSTANTS
    Session <- Sessions
    Event <- Events
    Observation <- Observations
    Batch <- TurnBatches
    TicksPerSecond = 2
    Calculator = {""}
    Window = {2}
    MaxClock = 0
    MaxFaults = 0
INVARIANT
    StateFollowsTime
