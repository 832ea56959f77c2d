SPECIFICATION Spec
CONSTANTS
  t1 = t1
  t2 = t2
  t3 = t3
  Thread = {t1, t2, t3}
  NoThread = NoThread
  MaxEvents = 2
SYMMETRY Symmetry
INVARIANTS
  HeldUntilDone
  MarkedIsHeld
  UserPresent
PROPERTIES
  HolderOnly
CHECK_DEADLOCK FALSE
