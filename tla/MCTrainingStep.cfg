SPECIFICATION FairSpec
CONSTANTS
  t1 = t1
  t2 = t2
  w1 = w1
  w2 = w2
  c1 = c1
  a1 = a1
  a2 = a2
  y1 = y1
  Runs = {t1, t2}
  Commits = {c1}
  Cancels = {t1}
  CommitOf <- OneCommit
  Asks = {a1, a2}
  Workers = {w1, w2}
  Weights = {y1}
  Fields = {"run_id"}
  Links = {"l1", "l2"}
  Markers <- RunIdTwice
  None = None
  MaxFaults = 1
INVARIANTS TrainingIsSound
PROPERTIES TrainsEnd
CHECK_DEADLOCK FALSE
