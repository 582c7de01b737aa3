CONSTANTS
  Sessions = {s1, s2}
  NPn = 1
  NoSession = NoSession
  MaxQueue = 1
SPECIFICATION FairSpec
INVARIANTS
  TypeOK
  SessionIsKnown
  PnBounded
  PnMeansUnchoked
PROPERTIES
  Served
CHECK_DEADLOCK FALSE
