CONSTANTS
  Producers = {p1}
  Consumers = {c1, c2}
  Items = {x}
  NoItem = none
  Capacity = 1
  Behaviors = {"kDiscard", "kBlock"}
  U32 = 4
  Memory = 2
  timeoutMS = 2
SPECIFICATION TimedSpec
INVARIANTS TimedTypeOK NeverEarly
PROPERTY TimedPopEnds
