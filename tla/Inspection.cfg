SPECIFICATION Spec
CONSTANTS
    Worlds <- WorldNames
    Payloads <- PayloadsOf
    PathRuleSets <- Rules
    KeywordSets <- Keywords
    MCPAllowlists <- ServerLists
    SkillAllowlists <- SkillLists
    Thresholds <- Limits
    Catalog <- Prices
    SessionWindows <- Windows
    TicksPerMs = 3
INVARIANTS
    ReportsFromSignals
    PoliciesFromSignals
    LatestStateWins
    RulesFlagExactly
    TreeShowsEveryAgent
    BreakdownAddsUp
    TraceKeepsEveryMarker
    NothingPresentIsUnavailable
PROPERTIES
    ViolationsStand
    SamplesCostNothing
