SPECIFICATION Spec
CONSTANTS
  Contents = 3
  ColumnOrder <- MCColumnOrder
  DbOrder <- MCDbOrder
  Statements <- MCStatements
  MaxLogged = 4
INVARIANTS ShowIsACache
