SPECIFICATION Spec
CONSTANTS
  Thread = {main, t1, t2, t3}
  First = main
  None = None
  Cell = {0, 1, 2, 3, 4}
INVARIANTS
  QueueIsRing
  RootOnce
PROPERTIES
  ImplementsScheduler
  NobodyWaitsForever
CHECK_DEADLOCK FALSE
