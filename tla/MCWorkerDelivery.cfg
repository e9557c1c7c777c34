CONSTANTS
  j1 = j1
  w1 = w1
  w2 = w2
  s1 = s1
  s2 = s2
  Jobs = {j1}
  Workers = {w1}
  Slots = {s1, s2}
  Kinds <- AnyKind
  Poison = Poison
  None = None
  MaxRetries = 1
  MaxCopies = 1
  MaxFailures = 2
  MaxFaults = 1
  MaxLosses = 1
SPECIFICATION FairSpec
INVARIANTS DeliveryIsSound DeadLettersAreEarned
PROPERTIES ImplementsBells PendingRowsAreServed StopsComeToAnEnd
CHECK_DEADLOCK FALSE
