CONSTANTS
  a = a
  b = b
  Peers = {a, b}
  Pieces = {p1}
  Surroundings <- MCMesh
  MaxTimerEvents = 1
  SleepCoversBroadcasts = FALSE
SPECIFICATION Spec
INVARIANTS
  TypeOK
  OverMeansComplete
  CleanClose
  PanicOnlyOnTearDown
  NeverUnchokedUnawares
CHECK_DEADLOCK FALSE
