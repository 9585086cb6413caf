CONSTANTS
  t1 = t1
  t2 = t2
  Tasks = {t1, t2}
  MaxFailedAttempts = 0
  MaxWorks = 4
  QueueSize = 2
  TaskLimit = 1
  Batch = 2
  Operations = {"start", "delete"}
  Clients = 1
  MaxRequests = 2
  MaxExports = 2
  Faulty = {"constructor"}
  MaxFaults = 1
  MaxCrashes = 1
SPECIFICATION Spec
INVARIANTS MemoryFollowsTable TableWithinLimit JobsAreKnown
PROPERTIES RecoveredRuns
CHECK_DEADLOCK FALSE
