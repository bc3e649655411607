SPECIFICATION Spec
CONSTANTS
  BatchSize = 2
  MaxRows = 3
  MaxStatements = 6
  Schemas <- MCSchemas
  Literals <- MCLiterals
  NewFields <- MCNewFields
  Predicates <- MCPredicates
  Assignments <- MCAssignments
  ColumnExpressions <- MCColumnExpressions
  Results <- MCResults
  ColumnOrder <- MCColumnOrder
  ValueOf <- Evaluate
  ComputedOf <- EvaluateRow
  Chosen <- Holds
  Questions <- MCQuestions
  ConjunctsOf <- Conjuncts
INVARIANTS IndexesFit ZonesFit Readable PathsAgree
PROPERTY FailureChangesNothing
CHECK_DEADLOCK FALSE
