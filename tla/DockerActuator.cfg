CONSTANTS
  t1 = t1
  t2 = t2
  Tasks = {t1, t2}
  MaxFailedAttempts = 0
  NamedById = {t1}
  MaxContainers = 4
  MaxFaults = 2
SPECIFICATION Spec
INVARIANTS SuccessIsExit0 EntryIsOwn RunningIsKnown
CHECK_DEADLOCK FALSE
