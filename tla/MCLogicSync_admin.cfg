SPECIFICATION Spec
CONSTANTS
  l1 = l1
  l2 = l2
  a1 = a1
  o1 = o1
  o2 = o2
  Main = Main
  Logic = {l1, l2}
  Admins = {a1}
  NoThread = NoThread
  Object = {o1}
  Synchronizers = {Main, a1}
  ExclusiveLockers = {}
  MayQuit = FALSE
INVARIANTS
  StopTheWorld
CHECK_DEADLOCK FALSE
