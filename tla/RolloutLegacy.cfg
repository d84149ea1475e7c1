SPECIFICATION Spec
CONSTANTS
    Source = {"rollout"}
    Route <- Routes
    Text <- Texts
    Request = {r1}
    MaxArrivals = 2
    MaxCrashes = 0
INVARIANTS
    LegacyNotCounted
CHECK_DEADLOCK FALSE
