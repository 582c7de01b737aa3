CONSTANTS
  N = 3
  Seeds = {2}
SPECIFICATION FairSpec
INVARIANTS
  TypeOK
  OneConnectionPerPair
  CleanExit
PROPERTIES
  AllEnd
CHECK_DEADLOCK FALSE
