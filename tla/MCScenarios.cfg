CONSTANTS
    Width = 3
    Scenario <- AllScenarios
    Claims <- HeaderClaims
    Unchecked <- HeaderUnchecked
    Exempt <- KnownExceptions
SPECIFICATION FairSpec
CHECK_DEADLOCK FALSE
INVARIANTS
    TypeOK
    CleanupReleases
    PassLeavesNothing
    NoRejectionUnheard
    CleanupCallsReach
    WiresHaveTheirPeer
    NothingRunsOn
    
PROPERTIES
    InUseIsHeld
    Returns
