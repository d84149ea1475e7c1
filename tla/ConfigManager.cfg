SPECIFICATION FairSpec
CONSTANTS
    Request = {r1, r2}
    Policy <- Policies
    Entry <- Entries
    Draft <- Drafts
    MaxEntries = 2
    MaxFaults = 2
INVARIANTS
    StartsAgain
    FileMatchesMemory
PROPERTIES
    SavesDoNotMix
    SavesEnd
\* Every request is used once.
CHECK_DEADLOCK FALSE
