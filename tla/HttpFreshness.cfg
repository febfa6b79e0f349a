SPECIFICATION HeadersSpec
CONSTANTS
    Lines <- MCLines
    DateLines <- MCDateLines
    Policies <- MCPolicies
    Seconds = {1, 3}
    Int64Max = 7
    MsPerSecond = 3
    MaxCaptured = 4
CHECK_DEADLOCK FALSE
INVARIANTS
    ExplicitNotExtended
    DirectivesInForce
PROPERTIES
    LinesOnlyRestrict
