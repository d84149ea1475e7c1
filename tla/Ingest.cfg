SPECIFICATION Spec
CONSTANTS
    Source <- Sources
    Route <- Routes
    Text <- Texts
    Request = {r1, r2}
    MaxArrivals = 2
    MaxCrashes = 1
SYMMETRY Interchangeable
INVARIANTS
    SavedIsKept
    EvidenceIsUnion
    TallyIsExact
PROPERTIES
    StoredAsAWhole
    LateShipmentIsSilent
CHECK_DEADLOCK FALSE
