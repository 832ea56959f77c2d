SPECIFICATION Spec
CONSTANTS
  c1 = c1
  c2 = c2
  c3 = c3
  t1 = t1
  t2 = t2
  Client = {c1, c2, c3}
  Thread = {t1, t2}
  NoClient = NoClient
SYMMETRY Symmetry
INVARIANTS
  TypeOK
  JobsMatch
  RefsBalance
  NoDangling
  PlaysTheAvatar
CHECK_DEADLOCK FALSE
