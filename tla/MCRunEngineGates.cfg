CONSTANTS
  Runs = {r1}
  Steps <- DiamondSteps
  Pred <- DiamondPred
  Refs <- DiamondRefs
  Rank <- DiamondRank
  GateSteps = {"review"}
  PureSteps = {"extract", "label"}
  BadSteps = {}
  AlienSteps = {}
  BrokenRuns = {}
  MalformedRuns = {r1}
  SpoiltSteps = {"label"}
  CancelSteps = {"label"}
  CancelRuns = {r1}
  Resolutions = {approve}
  Sessions = {w1, w2, w3}
  None = None
  MaxCrashes = 1
  MaxLosses = 1
SPECIFICATION Spec
SYMMETRY SessionSymmetry
INVARIANTS ExecutionIsSound SucceededMeansComplete FailureReported
PROPERTIES CreatedInOrder ChildNeverRestarts ImplementsDag
CHECK_DEADLOCK FALSE
