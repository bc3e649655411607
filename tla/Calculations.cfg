SPECIFICATION Spec
CONSTANTS
  Trees <- MCTrees
  Readings <- MCReadings
  ClauseOrders <- MCClauseOrders
  Scripts <- MCScripts
  Joins <- MCJoins
  Groupings <- MCGroupings
  Predicates <- MCPredicates
  Literals <- MCLiterals
  Statements <- MCStatements
  StoredColumns <- MCStoredColumns
  CsvColumns <- MCCsvColumns
  ClusterFrom = 4
  MaxClusters = 256
  Iterations = 3
  GraphFrom = 4
  Fanout = 1
  SearchBeam = 1
  BuildBeam = 2
  BatchShare = 1
  MaxBatch = 2
  FewRows = 1
  Thresholds <- MCThresholds
  ThresholdCases <- MCThresholdCases
  GraphCases <- MCGraphCases
  NearestCases <- MCNearestCases
INVARIANTS TreesComeBack NamesReadAlike ClausesCommute ScriptsAreReadWhole
INVARIANTS JoinsAgree WhereAgreesWithSelect LiteralsKeepPrecision
INVARIANTS ColumnsComeBack
PROPERTIES GroupsAgree SelectAgrees ThresholdIsExact GraphFits HitsAreNearest
CHECK_DEADLOCK FALSE
