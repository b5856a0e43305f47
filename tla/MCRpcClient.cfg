SPECIFICATION FairSpec
CONSTANTS
    Calls = {c1, c2, c3}
    Sockets = {s1, s2}
    NoCall = NoCall
    NoSocket = NoSocket
INVARIANTS
    AnswersMatch
    PendingIsWaiting
PROPERTIES
    EveryCallSettles
CHECK_DEADLOCK FALSE
