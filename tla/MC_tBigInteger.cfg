CONSTANTS
  WordBits = 4
  WordBytes = 2
  KaratsubaCutoff = 1
  Window = 2
  MarySize = 2
  WindowSize = 3
  MontgomerySize = 3
  MaxVal = 45
  FirstExponent = 5
  Starts <- MCStarts
  Operands <- MCOperands
  Exponents <- MCExponents
  Moduli <- MCModuli
  Radices <- MCRadices
  Candidates <- MCCandidates
  PrimeBits = 4
SPECIFICATION Spec
INVARIANTS Exact  RoundTrip
CHECK_DEADLOCK FALSE
