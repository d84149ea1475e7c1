SPECIFICATION FairSpec
CONSTANTS
    Event <- SomeEvents
    Session = {"long", "short"}
    TicksPerSecond = 2
    List = {"sessions", "events", "conversation", "spans"}
    Content <- Texts
    Transcript <- Messages
    SessionRank <- Ranks
    PageLimit = 1
    ReadLimit = 2
    MaxDeletes = 1
INVARIANTS
    WalkMissesNothing
    WalkInOrder
PROPERTY
    WalkEnds
