SPECIFICATION Spec
CONSTANTS
    N = 3
    Kind <- MCKind
    NoProc = NoProc
INVARIANT
    FreshExecutor
CHECK_DEADLOCK FALSE
