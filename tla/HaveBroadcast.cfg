CONSTANTS
  Sessions = {s1, s2}
  Pieces = {p1, p2}
  NoSession = NoSession
  NoPiece = NoPiece
SPECIFICATION FairSpec
INVARIANTS
  TypeOK
  NoHaveLost
  NothingInvented
  WalkOnLiveSessions
PROPERTY EveryPieceAnnounced
CHECK_DEADLOCK FALSE
