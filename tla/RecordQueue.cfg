SPECIFICATION FairSpec
CONSTANTS
  Producers = {p1, p2}
  Consumers = {c1, c2}
  Objects = {o1, o2, o3}
  MaxFailures = 2
  Nothing = Nothing
INVARIANTS
  TypeOK
  NoLostWakeup
  SoleHolder
  NoLeakWithoutFailure
PROPERTIES
  NeverHandledTwice
  QueueDrained
  HandsOverInOrder
CHECK_DEADLOCK FALSE
