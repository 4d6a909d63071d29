SPECIFICATION Spec
CONSTANTS
  Writer = w
  Reader = r
  NoChunk = NoChunk
  MaxBytes = 4
  MaxChunks = 4
  Capacity = 1
  Behaviors = {"kBlock", "kThrow", "kDiscard", "kGrow"}
  Memory = 100
  WBufSize = 2
  RBufSize = 1
  WriteLengths = {1, 3}
  ReadLengths = {1, 3}
INVARIANTS TypeOK BuffersAreOwned
PROPERTIES Implements AllArrives WriterEnds
CHECK_DEADLOCK FALSE
