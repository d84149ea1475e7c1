SPECIFICATION Spec
CONSTANTS
    Event <- DashboardEvents
    Session = {"long", "short"}
    TicksPerSecond = 2
    List = {"dashboard"}
    Content <- Texts
    Transcript <- Messages
    SessionRank <- Ranks
    PageLimit = 1
    ReadLimit = 2
    MaxDeletes = 1
INVARIANT
    DashboardMissesNothing
