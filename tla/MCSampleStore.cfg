CONSTANTS
  w1 = w1
  w2 = w2
  w3 = w3
  h1 = h1
  h2 = h2
  Writers = {w1, w2, w3}
  Contents = {h1, h2}
  Jobs <- SomeJobs
  None = None
  MaxFails = 1
SPECIFICATION FairSpec
INVARIANTS StoreIsSound UploadedLabelsComeFirst
PROPERTIES WritersEnd
CHECK_DEADLOCK FALSE
