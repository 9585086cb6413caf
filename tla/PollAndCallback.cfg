CONSTANTS
  t1 = t1
  Tasks = {t1}
  NoTask = NoTask
  QueueSize = 2
  MaxFailedAttempts = 1
  EnableStateCallback = TRUE
  CallbackSize = 1
  TaskLimit = 1
  DisableStatePoll = FALSE
  TaskTimeoutOn = FALSE
  HasPersistencer = FALSE
  MaxStops = 0
  MaxWave = 2
  CallbackWorkers = 1
  ExportWorkers = 0
SPECIFICATION Spec
PROPERTIES EveryTaskFinishes Settles
CHECK_DEADLOCK FALSE
