SPECIFICATION ReleaseSpec
CONSTANTS
  t1 = t1
  t2 = t2
  o1 = o1
  o2 = o2
  Thread = {t1, t2}
  FailingThreads = {}
  Main = Main
  NoThread = NoThread
  Object = {o1}
  NoObject = NoObject
  General = {"garbage", "release"}
  Stoppers = {}
  MayQuit = FALSE
  CycleMod = 16
  MaxCycle = 6
PROPERTIES
  WaitsThreeCycles
CHECK_DEADLOCK FALSE
