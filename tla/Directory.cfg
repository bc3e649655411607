SPECIFICATION DirectorySpec
CONSTANTS
  None = None
  Torn = Torn
  Idle = Idle
  Failed = Failed
  Schemas <- MCSchemas
  RowCounts = {1, 2}
  ClusterAt = 1
  MaxContents = 2
  MaxSaves = 2
  MaxInterruptions = 1
  Names = {"d", "e"}
  Contents = 2
  MaxEvents = 5
INVARIANTS SettledLoads VectorIndexesDescribe
PROPERTY LineageIsKept
CHECK_DEADLOCK FALSE
