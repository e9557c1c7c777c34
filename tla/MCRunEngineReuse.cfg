CONSTANTS
  Runs = {r1, r2}
  Steps <- FanSteps
  Pred <- FanPred
  Refs <- FanPred
  Rank <- FanRank
  GateSteps = {}
  PureSteps = {"extract", "label"}
  BadSteps = {"label"}
  AlienSteps = {"export"}
  BrokenRuns = {r2}
  MalformedRuns = {r1}
  SpoiltSteps = {"export"}
  CancelSteps = {}
  CancelRuns = {}
  Resolutions = {approve}
  Sessions = {w1, w2}
  None = None
  MaxCrashes = 0
  MaxLosses = 0
SPECIFICATION Spec
SYMMETRY SessionSymmetry
INVARIANTS InputsAreFinal OutputsAreEarned
CHECK_DEADLOCK FALSE
