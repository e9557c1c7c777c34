CONSTANTS
  Samples = {s1, s2}
  Revisions = {a}
  CommitIds = {c1, c2, c3}
  RefIds = {i1, i2}
  Names = {"main"}
  Kinds = {"fromSamples", "step"}
  Writers = {w1, w2}
  None = None
SPECIFICATION Spec
SYMMETRY IdSymmetry
INVARIANTS NoLostUpdate VersionsAreSound TreesAccumulate
PROPERTIES HistoryOnlyGrows ImplementsSerial
CHECK_DEADLOCK FALSE
