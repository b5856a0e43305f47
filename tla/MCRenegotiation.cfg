CONSTANTS
  Peers = {p1, p2}
  Bursts = {TRUE, FALSE}
  MaxLost = 2
  MaxInFlight = 2
SPECIFICATION FairSpec
INVARIANTS TypeOK JoinAnswerFits AppliedIsTaken QuietAfterDetach InStepWithSfu
PROPERTIES DetachEnds EveryoneLearns
CHECK_DEADLOCK FALSE
