CONSTANTS
  Runs = {r1}
  Steps <- DiamondSteps
  Pred <- DiamondPred
  Refs <- DiamondRefs
  Rank <- DiamondRank
  GateSteps = {"review"}
  PureSteps = {"extract", "label"}
  BadSteps = {"label"}
  AlienSteps = {"label"}
  BrokenRuns = {r1}
  MalformedRuns = {r1}
  SpoiltSteps = {"label"}
  CancelRuns = {r1}
  CancelSteps = {"label"}
  Resolutions = {approve}
  Sessions = {w1, w2}
  None = None
  MaxCrashes = 0
  MaxLosses = 1
SPECIFICATION FairSpec
PROPERTIES RunsSettle PendingRowsStart
CHECK_DEADLOCK FALSE
