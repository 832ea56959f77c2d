SPECIFICATION FairSpec
CONSTANTS
  l1 = l1
  l2 = l2
  a1 = a1
  o1 = o1
  o2 = o2
  Main = Main
  Logic = {l1, l2}
  Admins = {}
  NoThread = NoThread
  Object = {o1}
  Synchronizers = {l1, l2, Main}
  ExclusiveLockers = {l1, l2, Main}
  MayQuit = TRUE
PROPERTIES
  SynchronizeReturns
  ServerStops
CHECK_DEADLOCK FALSE
