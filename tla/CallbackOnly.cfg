CONSTANTS
  t1 = t1
  t2 = t2
  Tasks = {t1, t2}
  NoTask = NoTask
  QueueSize = 2
  MaxFailedAttempts = 1
  EnableStateCallback = TRUE
  CallbackSize = 1
  TaskLimit = 2
  DisableStatePoll = TRUE
  TaskTimeoutOn = FALSE
  HasPersistencer = TRUE
  MaxStops = 0
  MaxWave = 2
  CallbackWorkers = 1
  ExportWorkers = 2
SYMMETRY TaskSymmetry
SPECIFICATION Safety
INVARIANTS FinishedOnce AttemptsBound SuccessHasRun
PROPERTIES NoRestart
CHECK_DEADLOCK FALSE
