CONSTANTS
    Width = 2
    Scenario <- OnlyT13
    Claims <- HeaderClaims
    Unchecked <- HeaderUnchecked
    Exempt <- NoExceptions
SPECIFICATION Spec
CHECK_DEADLOCK FALSE
INVARIANT CleanupReleases
