SPECIFICATION Spec
CONSTANTS
  Options <- MCOptions
  Readers = {r1, r2}
  MaxChunk = 2
  MaxOffered = 5
  MaxEpoch = 2
INVARIANTS
  TypeOK
  MemoryBounded
  ReadsInOrder
  OwnTransactionOnly
  ReaderInBounds
  FilesRemoved
PROPERTIES
  EofAfterAll
CHECK_DEADLOCK FALSE
