SPECIFICATION StartUpSpec
CONSTANTS
    Daemon = {d1, d2}
    Session = {s1}
    FirstVersion = {0, 2, 3, 4, 5, 6, 7, 8, 9, 10}
    MaxStops = 2
INVARIANTS
    RecordedIsApplied
    UpgradeInvariant
    ServesCurrentSchema
    OneTokenForAll
PROPERTIES
    StartUpEnds
    LossIsFinal
