CONSTANTS
  Tables <- MCTables
  MaxMoves <- MCMaxMoves
  NotFetched = NotFetched
  Foreign = Foreign
SPECIFICATION Spec
INVARIANTS
  TypeOK
  LagIsBuyerBehind
  VerdictsMirror
  NeverStranded
PROPERTIES
  SyncCatchesUp
CHECK_DEADLOCK FALSE
