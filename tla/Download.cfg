CONSTANTS
  Sessions = {s1, s2}
  Pieces = {p1, p2}
  NoSession = NoSession
SPECIFICATION FairSpec
INVARIANTS
  TypeOK
  ExclusiveClaim
  NoUnrequestedPiece
  OwnedIsStored
  SavePrecondition
  CounterAgrees
  FileLoggedLast
PROPERTIES
  LedgerSpec
  StatusNeverRegresses
  ClaimsComplete
CHECK_DEADLOCK FALSE
