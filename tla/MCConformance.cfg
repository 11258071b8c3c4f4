CONSTANTS
  Drifts <- MCDrifts
  Disks <- MCDisks
SPECIFICATION Spec
INVARIANTS
  CleanRunConforms
  DriftIsReported
  MoneyStaysExact
  LossIsReported
CHECK_DEADLOCK FALSE
