CONSTANTS
    Props <- TableProps
    Modulus = 2
    MaxLength = 4
SPECIFICATION BreakerSpec
INVARIANTS
    BreaksByTheRules
    StateMatchesText
