CONSTANTS
  MaxBytes = 3
  WBufSize = 2
  RBufSize = 2
  NetSize = 2
  WriteLengths = {1, 3}
  ReadLengths = {1, 3}
SPECIFICATION Spec
INVARIANTS FlushIsTrue
PROPERTIES Implements CallsEnd
CHECK_DEADLOCK FALSE
