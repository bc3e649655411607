SPECIFICATION Spec
CONSTANTS
  Jobs = {j1, j2}
  Cancels = {c1}
  Tasks = {t1}
  Interval <- Intervals
  NoJob = NoJob
  PoolSize = 1
  MaxQueue = 2
INVARIANTS ReportsWhatHappened RemovedTasksStop
PROPERTIES JobsEnd TasksRecur
