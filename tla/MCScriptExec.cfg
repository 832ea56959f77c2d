SPECIFICATION FairSpec
CONSTANTS
  t1 = t1
  t2 = t2
  t3 = t3
  o1 = o1
  Thread = {t1, t2, t3}
  Object = {o1}
  NoThread = NoThread
  MaxCalls <- Calls
  MaxDepth = 2
INVARIANTS
  CollectorAlone
  OneAtATime
  PriorityPaired
PROPERTIES
  ImplementsGuard
  ExecutionsEnd
CHECK_DEADLOCK FALSE
