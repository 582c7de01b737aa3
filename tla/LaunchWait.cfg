CONSTANTS
  N = 2
  Seeds = {1}
SPECIFICATION FairSpec
PROPERTIES
  WaitReturns
CHECK_DEADLOCK FALSE
