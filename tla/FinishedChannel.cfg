CONSTANTS
  t1 = t1
  t2 = t2
  t3 = t3
  Tasks = {t1, t2, t3}
  Capacity = 1
  UserReads = TRUE
SPECIFICATION Spec
INVARIANTS TypeOK OnePlace
PROPERTIES FinshedReturns
CHECK_DEADLOCK FALSE
