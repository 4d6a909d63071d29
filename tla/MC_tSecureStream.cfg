CONSTANTS
  MaxBytes = 7
  BlockSize = 2
  BufBlocks = 3
  WriteLengths = {1, 3}
  ReadLengths = {1, 3}
  ResetAt = 3
  Noise = Noise
SPECIFICATION Spec
INVARIANTS KeysAgree
PROPERTIES HandshakeEnds Implements
CHECK_DEADLOCK FALSE
