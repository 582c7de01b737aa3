CONSTANTS
  a = a
  b = b
  Peers = {a, b}
  Pieces = {p1}
  Surroundings <- MCBusy
  MaxTimerEvents = 0
  SleepCoversBroadcasts = FALSE
SPECIFICATION Spec
INVARIANTS
  NoPrematureTearDown
CHECK_DEADLOCK FALSE
