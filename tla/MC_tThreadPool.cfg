CONSTANTS
  NumThreads = 2
  Clients = {c1, c2}
  Owner = owner
  MaxTasks = 3
  Contested = {1}
SPECIFICATION Spec
CHECK_DEADLOCK FALSE
INVARIANTS TypeOK NoLostWakeup Bookkeeping RunsOnce DestroyedAfterAllRan
PROPERTIES DestructorEnds Implements
