CONSTANTS
  Producers = {p1, p2}
  Consumers = {c1, c2}
  Items = {x, y}
  NoItem = none
  Capacity = 2
  Behaviors = {"kDiscard", "kBlock", "kGrow", "kThrow"}
  U32 = 4
  Memory = 3
SPECIFICATION Spec
INVARIANTS TypeOK NoLostWakeup NeverBothAsleep WithinCapacity
PROPERTY Implements
