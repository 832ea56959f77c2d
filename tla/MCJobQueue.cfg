SPECIFICATION FairSpec
CONSTANTS
  t1 = t1
  t2 = t2
  o1 = o1
  o2 = o2
  Thread = {t1, t2}
  FailingThreads = {t1}
  Main = Main
  NoThread = NoThread
  Object = {o1}
  NoObject = NoObject
  General = {"garbage"}
  Stoppers = {Main, t2}
  MayQuit = TRUE
INVARIANTS
  JobsConserved
PROPERTIES
  ObjectsServed
  WorldStops
  ThreadsFinish
CHECK_DEADLOCK FALSE
