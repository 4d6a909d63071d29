CONSTANTS
  NumThreads = 2
  Clients = {c1, c2}
  Owner = owner
  MaxTasks = 2
  Contested = {1}
SPECIFICATION Spec
CHECK_DEADLOCK FALSE
PROPERTY ForgottenWaitEnds
