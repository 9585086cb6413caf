CONSTANTS
  t1 = t1
  Tasks = {t1}
  NoTask = NoTask
  QueueSize = 2
  MaxFailedAttempts = 1
  EnableStateCallback = FALSE
  CallbackSize = 1
  TaskLimit = 1
  DisableStatePoll = FALSE
  TaskTimeoutOn = FALSE
  HasPersistencer = FALSE
  MaxStops = 1
  MaxWave = 2
  CallbackWorkers = 0
  ExportWorkers = 0
SPECIFICATION Safety
INVARIANTS FinishedOnce AttemptsBound
CHECK_DEADLOCK FALSE
