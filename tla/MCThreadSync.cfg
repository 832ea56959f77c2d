SPECIFICATION JobSpec
CONSTANTS
  t1 = t1
  t2 = t2
  t3 = t3
  o1 = o1
  o2 = o2
  Thread = {t1, t2, t3}
  Object = {o1, o2}
  NoThread = NoThread
  Priorities = {5}
  DefaultPriority = 3
  MaxPriorityDepth = 1
  MaxCalls = 3
  UnlockCallers = {t1}
INVARIANTS
  OwnershipConsistent
  NothingLentWhileRunning
  Exclusion
PROPERTIES
  ImplementsOwnership
  EveryCallReturns
  AllObjectsReturned
