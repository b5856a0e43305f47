CONSTANTS
    NodeCount = 2
    MaxStarts = 2
    Layouts <- T3T4T7
SPECIFICATION FairSpec
CHECK_DEADLOCK FALSE
INVARIANT OnlyLateBindersServe
PROPERTIES WipedUnderNobody ShutdownEnds
