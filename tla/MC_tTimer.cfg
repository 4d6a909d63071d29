CONSTANTS
  m_period = 6
  kMinSleepTime = 1
  kMaxSleeptime = 3
  MaxLate = 14
SPECIFICATION Spec
CHECK_DEADLOCK FALSE
INVARIANTS TypeOK QuietAfterStop NapEndsInTime
PROPERTIES StopReturns AlertComes
