SPECIFICATION FairSpec
CONSTANTS
  MaxPolls = 4
  MaxOpens = 2
  MaxFaults = 1
INVARIANTS CompletionIsOurs PrewarmedMeansEnabled
PROPERTY Returns
CHECK_DEADLOCK FALSE
