SPECIFICATION Spec
CONSTANTS
    Worlds = {"usage"}
    Payloads <- PayloadsOf
    PathRuleSets <- Rules
    KeywordSets <- Keywords
    MCPAllowlists <- ServerLists
    SkillAllowlists <- SkillLists
    Thresholds <- Limits
    Catalog <- Prices
    SessionWindows <- Windows
    TicksPerMs = 3
INVARIANT
    TokensCountedOnce
