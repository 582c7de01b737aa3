CONSTANTS
  FileSize = 5
  PieceSize = 2
  Sessions = {s1, s2, s3}
  CacheLimit = 3
  Hole = Hole
SPECIFICATION Spec
INVARIANTS
  TypeOK
  GetIsRight
  LimitKept
  ExactUnlessRaced
CHECK_DEADLOCK FALSE
