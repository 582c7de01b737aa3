CONSTANTS
  Sessions = {s1, s2}
  NPn = 1
  NoSession = NoSession
  MaxQueue = 1
SPECIFICATION Spec
PROPERTIES
  RelinquishGivesUpSeat
CHECK_DEADLOCK FALSE
