CONSTANTS
  a = a
  b = b
  Peers = {a, b}
  Pieces = {p1, p2}
  Surroundings <- MCPieces
  MaxTimerEvents = 1
  SleepCoversBroadcasts = TRUE
SPECIFICATION FairSpec
INVARIANTS
  NoPanic
  ViewOfOwned
  ClaimsAreBacked
PROPERTIES
  SessionEnds
CHECK_DEADLOCK FALSE
