SPECIFICATION Spec
CONSTANTS
  None = None
  Torn = Torn
  Idle = Idle
  Failed = Failed
  Schemas <- MCSchemas
  RowCounts = {1, 2}
  ClusterAt = 1
  MaxContents = 2
  MaxSaves = 2
  MaxInterruptions = 0
INVARIANTS ColumnsAgree
CHECK_DEADLOCK FALSE
