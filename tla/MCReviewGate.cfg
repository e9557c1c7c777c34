CONSTANTS
  Samples <- OnePushed
  Frames <- TwoFrames
  Jobs = {j1}
  Doorbells = {b1, b2, b3}
  Resolvers = {u1}
  Slots = 2
  None = None
  MaxFaults = 1
SPECIFICATION FairSpec
INVARIANTS GateIsSound ImportsAreBounded ResumedWithEverySample NothingDrawnIsLost
PROPERTIES DoorbellIsAnswered ResumedRunGoesOn
CHECK_DEADLOCK FALSE
