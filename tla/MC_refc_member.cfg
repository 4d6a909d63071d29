CONSTANTS
  Threads = {t1, t2}
  NumLocals = 1
  NumShared = 1
  Addrs = {a1, a2, a3}
  Counters = {n1, n2, n3, n4}
  NULL = NULL
  OwnMemberToo = TRUE
SYMMETRY Symmetry
SPECIFICATION Spec
CHECK_DEADLOCK FALSE
INVARIANT OtherIsThere
