CONSTANTS
  t1 = t1
  t2 = t2
  t3 = t3
  Tasks = {t1, t2, t3}
  NoTask = NoTask
  QueueSize = 2
  MaxFailedAttempts = 2
  EnableStateCallback = FALSE
  CallbackSize = 1
  TaskLimit = 2
  DisableStatePoll = FALSE
  TaskTimeoutOn = FALSE
  HasPersistencer = FALSE
  MaxStops = 0
  MaxWave = 2
  CallbackWorkers = 0
  ExportWorkers = 0
SYMMETRY TaskSymmetry
SPECIFICATION Safety
INVARIANTS TypeOK RunningWithinLimit ExecutingWithinLimit CountAccounts NoStartTakenBack FailureIsExhausted AttemptsBound
PROPERTIES LifecycleSpec
CHECK_DEADLOCK FALSE
