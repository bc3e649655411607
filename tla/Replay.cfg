SPECIFICATION Spec
CONSTANTS
  Contents = 3
  ColumnOrder <- MCColumnOrder
  DbOrder <- MCDbOrder
  Statements <- MCStatements
  MaxLogged = 5
INVARIANTS RestartChangesNothing AliasesStay NoNameDangles
