CONSTANTS
  a = a
  b = b
  Peers = {a, b}
  Pieces = {p1, p2}
  Surroundings <- MCServer
  MaxTimerEvents = 1
  SleepCoversBroadcasts = TRUE
SPECIFICATION Spec
SYMMETRY MCPieceSymmetry
INVARIANTS
  ChokeViewsAgree
CHECK_DEADLOCK FALSE
