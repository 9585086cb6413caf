CONSTANTS
  t1 = t1
  Tasks = {t1}
  MaxFailedAttempts = 0
  MaxWorks = 2
  QueueSize = 1
  TaskLimit = 1
  Batch = 2
  Operations = {"start"}
  Clients = 1
  MaxRequests = 1
  MaxExports = 1
  Faulty = {"call"}
  MaxFaults = 1
  MaxCrashes = 0
SPECIFICATION Spec
PROPERTIES IgnoredIsRetried
CHECK_DEADLOCK FALSE
