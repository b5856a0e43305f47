SPECIFICATION FairLockSpec
CONSTANTS
    Requests = {r1, r2, r3, r4}
    Repos = {k1, k2}
    NoRequest = NoRequest
    NoRepo = NoRepo
INVARIANTS
    MutualExclusion
    ArrivalOrder
    MapIsTight
PROPERTIES
    NoStarvation
CHECK_DEADLOCK FALSE
