SPECIFICATION FairSpec
CONSTANTS
    N = 3
    Kind <- MCKind
    NoProc = NoProc
INVARIANTS
    OneResultEach
    NothingLeftRunning
    OnlyLingerersConfuse
PROPERTIES
    EveryRunEnds
CHECK_DEADLOCK FALSE
