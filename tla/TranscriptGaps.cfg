SPECIFICATION Spec
CONSTANTS
    Source = {"transcript"}
    Route <- Routes
    Text <- Texts
    Request = {r1}
    MaxArrivals = 2
    MaxCrashes = 0
INVARIANTS
    FillsGaps
CHECK_DEADLOCK FALSE
