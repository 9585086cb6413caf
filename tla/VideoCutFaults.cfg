CONSTANTS
  t1 = t1
  Tasks = {t1}
  MaxFailedAttempts = 1
  MaxWorks = 2
  QueueSize = 1
  TaskLimit = 1
  Batch = 2
  Operations = {"start", "restart", "stop", "delete"}
  Clients = 2
  MaxRequests = 3
  MaxExports = 2
  Faulty = {"call", "statement"}
  MaxFaults = 1
  MaxCrashes = 0
SPECIFICATION Safety
INVARIANTS WebTypeOK OneOutcome SuccessIsTrue ReportedIsRecorded
PROPERTIES RowsLive
CHECK_DEADLOCK FALSE
