CONSTANTS
  PrefixSize = 3
  WordSize = 2
  MD5Size = 1
  NPieces = 3
  PieceSizes = {3, 8}
  ReaderBufSize = 4
  WriterBufSize = 8
  MaxBatches = 4
  Garbled = Garbled
SPECIFICATION Spec
INVARIANTS
  TypeOK
  StreamIsExact
PROPERTY
  FifoSpec
CHECK_DEADLOCK FALSE
