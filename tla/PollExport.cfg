CONSTANTS
  t1 = t1
  t2 = t2
  Tasks = {t1, t2}
  NoTask = NoTask
  QueueSize = 1
  MaxFailedAttempts = 1
  EnableStateCallback = FALSE
  CallbackSize = 1
  TaskLimit = 1
  DisableStatePoll = FALSE
  TaskTimeoutOn = TRUE
  HasPersistencer = TRUE
  MaxStops = 0
  MaxWave = 2
  CallbackWorkers = 0
  ExportWorkers = 2
SPECIFICATION Spec
INVARIANTS FinishedOnce FinishedIsGone SuccessHasRun PollInvariant
PROPERTIES NoRestart EveryTaskFinishes
CHECK_DEADLOCK FALSE
