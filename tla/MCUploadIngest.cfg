CONSTANTS
  p1 = p1
  s1 = s1
  s2 = s2
  h1 = h1
  h2 = h2
  c1 = c1
  c2 = c2
  Projects = {p1}
  ProjectOf <- OneProject
  HashesOf <- TwoHashes
  Sends <- OneMixedUp
  Images <- OneImage
  Sources = {s1, s2}
  Contents = {h1, h2}
  Confirms = {c1, c2}
  MaxActs = 1
  MaxRuns = 2
  None = None
  MaxFaults = 1
SPECIFICATION FairSpec
INVARIANTS UploadIsSound 
PROPERTIES UploadsSettle
CHECK_DEADLOCK FALSE
